---------------------------- MODULE MCSessionFiles ----------------------------
(* A worker and its duplicate, and two clients that run any command. *)
EXTENDS SessionFiles, TLC

Symmetry == Permutations(Workers) \cup Permutations(Clients)
===============================================================================
