------------------------------ MODULE MCCopyLogs ------------------------------
(* One kind of rows less: a filter that lists all rows and one that hides some. *)
EXTENDS CopyLogs

MCMatchingText == [q \in {"", "x"} |-> IF q = "x" THEN {"x"} ELSE {"x", "y"}]

AnyX == [query |-> "x", meta |-> {"x", "y"}]
Everything == [query |-> "", meta |-> {"x", "y"}]

MCFilters == {AnyX, Everything}
MCFiles == {<<"y">>}
===============================================================================
