---------------------------- MODULE MCProcessHints ----------------------------
(* Two processes of one application, which is watched or not, and two queries, *)
(* one of which may be of a former attempt.                                    *)
EXTENDS ProcessHints, TLC

MCOwner == <<"app", "app">>

Symmetry == Permutations(Target) \cup Permutations(Queries)
===============================================================================
