--------------------------- MODULE MCSourceReplace ----------------------------
(* One device, two attempts, one file job at a time. *)
EXTENDS SourceReplace
===============================================================================
