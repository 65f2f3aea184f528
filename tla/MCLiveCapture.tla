---------------------------- MODULE MCLiveCapture -----------------------------
(* Two devices, two attempts of two lines each, a channel of one event. *)
EXTENDS LiveCapture, TLC

Symmetry == Permutations(Target)
===============================================================================
