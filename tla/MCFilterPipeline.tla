--------------------------- MODULE MCFilterPipeline ---------------------------
(***************************************************************************)
(* Two kinds of rows, an expression for one of them and one that does not  *)
(* compile.  The two valid filters each select one kind; one's metadata    *)
(* with the other's expression would select both or none.                  *)
(***************************************************************************)
EXTENDS FilterPipeline

MCMatchingText == [q \in {"", "x"} |-> IF q = "x" THEN {"x"} ELSE {"x", "y"}]

AnyX == [query |-> "x", meta |-> {"x", "y"}]
MetaY == [query |-> "", meta |-> {"y"}]
Broken == [query |-> "(", meta |-> {"x", "y"}]

MCFilters == {AnyX, MetaY, Broken}
MCFiles == {<<"y", "x">>}
===============================================================================
