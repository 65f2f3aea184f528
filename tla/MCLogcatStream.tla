---------------------------- MODULE MCLogcatStream ----------------------------
(* Two rows, the first larger than the budget, and a channel of two events. *)
EXTENDS LogcatStream

MCSizes == <<3, 1>>
===============================================================================
