----------------------------- MODULE MCLogReading -----------------------------
(* Two kinds of rows and one filter for each of them. *)
EXTENDS LogReading

MCMatchingText == [q \in {"", "x"} |-> IF q = "x" THEN {"x"} ELSE {"x", "y"}]

AnyX == [query |-> "x", meta |-> {"x", "y"}]
Everything == [query |-> "", meta |-> {"x", "y"}]
Broken == [query |-> "(", meta |-> {"x", "y"}]

MCFilters == {AnyX, Everything, Broken}
MCFiles == {<<"y", "x">>}
===============================================================================
