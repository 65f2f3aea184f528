----------------------------- MODULE RowSelection -----------------------------
(***************************************************************************)
(* The selected rows of the log table (src/src/selection.rs) as a value:   *)
(* the indices selected, the anchor that ranges extend from, and a         *)
(* revision that moves with every change.  A list is a sequence of indices *)
(* in increasing order: the matches, or the rows of the context view.      *)
(***************************************************************************)
EXTENDS Integers, Sequences

\* An index that may be absent.
NoRow == -1

Indices(list) == {list[k] : k \in 1 .. Len(list)}

NoSelection == [rows |-> {}, anchor |-> NoRow, revision |-> 0]

Shifted(index, removed) == IF index < removed THEN NoRow ELSE index - removed

ClearSelection(s) ==
  IF s.rows = {} /\ s.anchor = NoRow THEN s
  ELSE [rows |-> {}, anchor |-> NoRow, revision |-> s.revision + 1]

\* Mutant: trimmed rows leave the selection, the others keep their index.
RebaseByRemoval(s, removed) ==
  [rows |-> {i \in s.rows : i >= removed}, anchor |-> Shifted(s.anchor, removed),
   revision |-> s.revision + 1]

Rebase(s, removed) ==
  [rows |-> {Shifted(i, removed) : i \in s.rows} \ {NoRow},
   anchor |-> Shifted(s.anchor, removed),
   revision |-> IF removed # 0 /\ (s.rows # {} \/ s.anchor # NoRow)
                THEN s.revision + 1 ELSE s.revision]

\* Rows outside the range are not classified yet and stay selected.
RetainClassified(s, list, range) ==
  LET gone == range \ Indices(list)
      excluded == s.rows \cap gone
      moved == IF excluded = {} THEN s.revision ELSE s.revision + 1
  IN [rows |-> s.rows \ excluded,
      anchor |-> IF s.anchor \in gone THEN NoRow ELSE s.anchor,
      revision |-> IF s.anchor \in gone THEN moved + 1 ELSE moved]

SelectAll(s, list) ==
  [rows |-> Indices(list),
   anchor |-> IF list = <<>> THEN NoRow ELSE Head(list),
   revision |-> s.revision + 1]

\* The listed rows from the anchor to index; an anchor that is not listed, while
\* its row is still being classified, refuses the selection.
Refuses(s, list, index, extend) ==
  \/ index \notin Indices(list)
  \/ extend /\ s.anchor # NoRow /\ s.anchor \notin Indices(list)

Between(list, m, n) ==
  {i \in Indices(list) : (m <= i /\ i <= n) \/ (n <= i /\ i <= m)}

Extended(s, list, index, toggle) ==
  LET from == IF s.anchor = NoRow THEN index ELSE s.anchor
      range == Between(list, from, index)
  IN [rows |-> IF toggle THEN s.rows \cup range ELSE range,
      anchor |-> from, revision |-> s.revision + 1]

Clicked(s, index, toggle) ==
  [rows |-> IF ~toggle THEN {index}
            ELSE IF index \in s.rows THEN s.rows \ {index} ELSE s.rows \cup {index},
   anchor |-> index, revision |-> s.revision + 1]

Select(s, list, index, extend, toggle) ==
  IF Refuses(s, list, index, extend) THEN s
  ELSE IF extend THEN Extended(s, list, index, toggle)
  ELSE Clicked(s, index, toggle)
===============================================================================
