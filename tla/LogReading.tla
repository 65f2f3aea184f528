------------------------------ MODULE LogReading ------------------------------
(***************************************************************************)
(* Reading the list of FilterPipeline (src/src/main.rs, reading_ui.rs):    *)
(* the selected rows, the row shown in the details, and the context view,  *)
(* which replaces the list by the neighbours of one row until it is left.  *)
(* Every handler of FilterPipeline that touches them is extended by what   *)
(* it does to them.                                                        *)
(*                                                                         *)
(* Left out: scrolling, following the tail, keyboard focus, which rows     *)
(* look like incidents.                                                    *)
(***************************************************************************)
EXTENDS FilterPipeline, RowSelection

CONSTANTS
  Around,    \* neighbours a context shows on each side (50)
  MaxReads   \* of the model: selections made and contexts shown

ASSUME ReadingAssumption == {Around, MaxReads} \subseteq Nat

VARIABLES
  reading,  \* selection, selected and context_view
  reads     \* of the model: selections made and contexts shown so far

readingVars == <<reading, reads>>

NoContext == [open |-> FALSE, rows |-> <<>>, epoch |-> 0, absolute |-> 0]

NewReading == [selection |-> NoSelection, selected |-> NoRow, context |-> NoContext]

\* resolve_ref of a context's origin
Resolved(context, a) ==
  LET index == context.absolute - a.dropped
  IN IF context.epoch = a.epoch /\ index \in 0 .. Len(a.entries) - 1 THEN index ELSE NoRow

-------------------------------------------------------------------------------
(* What the methods do to the reading r of the application a.              *)

\* prune_classified_selection
Pruned(r, a, range) ==
  IF r.context.open THEN r
  ELSE [r EXCEPT !.selection = RetainClassified(r.selection, a.matches, range),
                 !.selected = IF @ \in range \ Indices(a.matches) THEN NoRow ELSE @]

\* The arm of accept_filter_result for an expression that does not compile.
Deselected(r) ==
  [r EXCEPT !.selection = ClearSelection(r.selection), !.selected = NoRow]

\* show_context
Shown(r, a, index) ==
  IF r.context.open \/ a.pending \/ a.dirty \/ index >= Len(a.entries) THEN r
  ELSE LET first == IF index < Around THEN 0 ELSE index - Around
           last == Smaller(index + Around, Len(a.entries) - 1)
           rows == [k \in 1 .. last - first + 1 |-> first + k - 1]
       IN [selection |-> Select(r.selection, rows, index, FALSE, FALSE),
           selected |-> index,
           context |-> [open |-> TRUE, rows |-> rows,
                        epoch |-> a.epoch, absolute |-> a.dropped + index]]

\* leave_context
Left(r, a) ==
  IF ~r.context.open THEN r
  ELSE LET origin == Resolved(r.context, a)
           index == IF origin \in Indices(a.matches) THEN origin ELSE NoRow
           cleared == ClearSelection(r.selection)
       IN [selection |-> Select(cleared, a.matches, index, FALSE, FALSE),
           selected |-> index, context |-> NoContext]

\* Mutant: the rows of an open context keep their indices.
MovedOutsideContext(r, remove) ==
  IF remove = 0 THEN r
  ELSE [r EXCEPT !.selection = Rebase(r.selection, remove),
                 !.selected = Shifted(r.selected, remove)]

\* rebase_after_trim
Moved(r, remove) ==
  IF remove = 0 THEN r
  ELSE LET rows == r.context.rows
           kept == InOrder({k \in DOMAIN rows : rows[k] >= remove})
       IN [selection |-> Rebase(r.selection, remove),
           selected |-> Shifted(r.selected, remove),
           context |-> [r.context EXCEPT !.rows = [k \in DOMAIN kept |-> rows[kept[k]] - remove]]]

\* clear_logs
Closed(r) == [Deselected(r) EXCEPT !.context = NoContext]

\* The rows on screen (reading_rows)
Rows == IF reading.context.open THEN reading.context.rows ELSE app.matches

-------------------------------------------------------------------------------
(* The handlers of FilterPipeline.                                         *)

ReadingInit == reading = NewReading /\ reads = 0

\* Mutant: a new result leaves what is selected.
AcceptedUnpruned(r, a, b, result) ==
  IF ~Stale(a, result) /\ b.error THEN Deselected(r) ELSE r

\* accept_filter_result
AcceptedReading(r, a, b, result) ==
  IF Stale(a, result) THEN r
  ELSE IF b.error THEN Deselected(r)
  ELSE Pruned(r, b, 0 .. b.progress.next_absolute - b.dropped - 1)

\* advance_filter_catchup, from a to b
CaughtUpReading(r, a, b) ==
  IF ~CatchesUp(a) THEN r
  ELSE Pruned(r, b, (Larger(a.progress.next_absolute, a.dropped) - a.dropped)
                    .. (b.progress.next_absolute - b.dropped - 1))

PollFilterReading ==
  /\ PollFilter
  /\ LET a == Taken(Highlighted, app, completed.highlight)
         b == Taken(Accepted, a, completed.filter)
         r == IF completed.filter = {} THEN reading
              ELSE AcceptedReading(reading, a, b, CHOOSE result \in completed.filter : TRUE)
     IN reading' = CaughtUpReading(r, b, app')
  /\ UNCHANGED reads

AppendReading ==
  /\ AppendReceivedEntry
  /\ reading' = Moved(reading, app'.dropped - app.dropped)
  /\ UNCHANGED reads

\* queue_filter and schedule_filter leave the context with the list as it is.
EditReading ==
  /\ QueueFilter \/ ScheduleFilter \/ Debounce
  /\ reading' = Left(reading, app)
  /\ UNCHANGED reads

ClearReading ==
  /\ ClearLogs \/ InstallCandidate
  /\ reading' = Closed(reading)
  /\ UNCHANGED reads

BudgetReading ==
  /\ ApplyMemoryBudget
  /\ reading' = Moved(reading, app'.dropped - app.dropped)
  /\ UNCHANGED reads

-------------------------------------------------------------------------------
(* The user reads.                                                         *)

Reads(r) ==
  /\ reads < MaxReads
  /\ reads' = reads + 1
  /\ reading' = r
  /\ UNCHANGED pipelineVars

\* A click on a row, with or without Shift and Ctrl, or an arrow key.
SelectRow ==
  \E index \in Indices(Rows), extend \in BOOLEAN, toggle \in BOOLEAN :
    LET s == Select(reading.selection, Rows, index, extend, toggle)
    IN /\ ~Refuses(reading.selection, Rows, index, extend)
       /\ Reads([reading EXCEPT !.selection = s,
                                !.selected = IF index \in s.rows THEN index ELSE NoRow])

\* Ctrl+A
SelectAllRows ==
  LET s == SelectAll(reading.selection, Rows)
      kept == IF reading.selected \in s.rows THEN reading.selected ELSE NoRow
  IN Reads([reading EXCEPT !.selection = s, !.selected = IF kept = NoRow THEN s.anchor ELSE kept])

\* Escape outside a context and outside text
Deselect == ~reading.context.open /\ Reads(Deselected(reading))

\* The details, the menu of a row, or Ctrl+Enter; F8 goes to any row that looks
\* like an incident, from within a context too.
ShowContext ==
  \E index \in (Nat \cap {reading.selected}) \cup Indices(Rows) :
    /\ ~reading.context.open
    /\ Reads(Shown(reading, app, index))

JumpToIncident ==
  /\ ~app.pending
  /\ ~app.dirty
  /\ \E index \in 0 .. Len(app.entries) - 1 : Reads(Shown(Left(reading, app), app, index))

\* The notice's button, Escape, Ctrl+Enter, or following the tail again
LeaveContext == reading.context.open /\ Reads(Left(reading, app))

ReadingNext ==
  \/ PollFilterReading
  \/ AppendReading
  \/ EditReading
  \/ ClearReading
  \/ BudgetReading
  \/ (DrawFirstFrame \/ WorkerStep) /\ UNCHANGED readingVars
  \/ SelectRow
  \/ SelectAllRows
  \/ Deselect
  \/ ShowContext
  \/ JumpToIncident
  \/ LeaveContext

ReadingSpec == Init /\ ReadingInit /\ [][ReadingNext]_<<pipelineVars, readingVars>>

-------------------------------------------------------------------------------
(* Properties.                                                             *)

Chosen(r) == (r.selection.rows \cup {r.selected, r.selection.anchor}) \ {NoRow}

\* Selection, anchor, details and context only refer to retained rows, whatever
\* was trimmed or replaced meanwhile: the table and the copy index with them.
\* Outside a context, a selected row that is classified is in the list: what is
\* copied once the selection is checked was never hidden by the filter
\* (prune_classified_selection, classification_pending).
SelectionIsListed ==
  /\ \A i \in Chosen(reading) \cup Indices(reading.context.rows) : i < Len(app.entries)
  /\ app.progress.some /\ ~reading.context.open =>
       \A i \in Chosen(reading) :
         app.dropped + i < app.progress.next_absolute => i \in Indices(app.matches)

\* While its origin is retained, a context shows it and neighbours of it only,
\* and none is missing between them - also after rows before it were trimmed,
\* which moves the indices but not the origin's record (rebase_after_trim).
ContextSurroundsItsOrigin ==
  LET origin == Resolved(reading.context, app)
      rows == Indices(reading.context.rows)
  IN reading.context.open /\ origin # NoRow =>
       /\ origin \in rows
       /\ \A i \in rows : origin - Around <= i /\ i <= origin + Around
       /\ \A i, j \in rows : i .. j \subseteq rows

\* Only the user selects.  A step of the program may drop rows from the
\* selection, but the ones it keeps are the same records, not their indices
\* (RowSelection::rebase); leaving a context falls back to its origin.
Records(r, a) == {<<a.epoch, a.dropped + i>> : i \in Chosen(r)}
Origin(r) == IF r.context.open THEN {<<r.context.epoch, r.context.absolute>>} ELSE {}

OnlyTheUserSelects ==
  [][UNCHANGED reads => Records(reading', app') \subseteq Records(reading, app) \cup Origin(reading)]_
    <<app, reading>>
===============================================================================
