----------------------------- MODULE FilterWorker -----------------------------
(***************************************************************************)
(* The filter thread of src/src/filter.rs with the mailbox it takes work   *)
(* from and the slots it leaves results in.  Of each kind of work - filter *)
(* a snapshot, compile the expression to highlight - the mailbox and the   *)
(* slots hold the newest only; a revision tells the thread that what it is *)
(* working on has been replaced or cancelled.                              *)
(*                                                                         *)
(* A log row is one of Kinds.  Its metadata and its text decide what a     *)
(* filter does with it: a filter is an expression for the text and the set *)
(* of kinds its package, tags and level let through.  A compiled           *)
(* expression is the expression itself, or Failed.                         *)
(*                                                                         *)
(* Left out: closing the mailbox when the application ends, elapsed times. *)
(***************************************************************************)
EXTENDS Naturals, Sequences, FiniteSets

CONSTANTS
  Kinds,        \* kinds of log rows
  Queries,      \* expressions: text, regex flag and case flag
  EmptyQuery,   \* the expression that lets every text through
  InvalidQuery, \* expressions that do not compile
  MatchingText, \* of each expression, the kinds whose text it matches
  Filters       \* the filters a user sets

ASSUME FilterAssumption ==
  /\ EmptyQuery \in Queries \ InvalidQuery
  /\ InvalidQuery \subseteq Queries
  /\ MatchingText \in [Queries \ InvalidQuery -> SUBSET Kinds]
  /\ MatchingText[EmptyQuery] = Kinds
  /\ Filters \subseteq [query : Queries, meta : SUBSET Kinds]

VARIABLES
  mailbox,   \* FilterMailbox: pending request and highlight, two revisions
  work,      \* what the thread holds
  cached,    \* the thread's last compiled expression
  completed  \* CompletedFilters: the slots for results

workerVars == <<mailbox, work, cached, completed>>

Failed == "failed"
None == "none"

ASSUME QueryAssumption == {Failed, None} \cap Queries = {}

Matcher == Queries \cup {Failed}

\* compile_query, without the cache
Compiled(query) == IF query \in InvalidQuery THEN Failed ELSE query

\* entry_matches
EntryMatches(row, spec, matcher) == row \in spec.meta /\ row \in MatchingText[matcher]

\* What a loop over the numbers of a set leaves in a Vec it pushes to: all in order.
InOrder(numbers) ==
  [k \in 1 .. Cardinality(numbers) |->
     CHOOSE n \in numbers : Cardinality({m \in numbers : m <= n}) = k]

\* entry_matches of the row at an index, from 0
Matching(rows, spec, matcher) ==
  {i \in 0 .. Len(rows) - 1 : EntryMatches(rows[i + 1], spec, matcher)}

\* scan_entries
ScanEntries(rows, spec, matcher) == InOrder(Matching(rows, spec, matcher))

-------------------------------------------------------------------------------
(* The mailbox, as the UI thread uses it under its lock.                   *)

\* A request, a result or a compiled expression that may be absent is a set of
\* at most one.
EmptyMailbox == [request |-> {}, revision |-> 0,
                 highlight |-> {}, highlight_revision |-> 0]

Send(m, request) ==
  [m EXCEPT !.revision = m.revision + 1,
            !.request = {[revision |-> m.revision + 1, body |-> request]}]

Cancel(m) == [m EXCEPT !.revision = m.revision + 1, !.request = {}]

SendHighlight(m, query) ==
  [m EXCEPT !.highlight_revision = m.highlight_revision + 1,
            !.highlight = {[revision |-> m.highlight_revision + 1, body |-> query]}]

-------------------------------------------------------------------------------
(* The thread.                                                             *)

Idle == [stage |-> "idle"]
NoResults == [filter |-> {}, highlight |-> {}]

Holds(kind, stage, pending) ==
  [stage |-> stage, kind |-> kind, revision |-> pending.revision, body |-> pending.body]

WorkerInit ==
  /\ work = Idle
  /\ cached = {}
  /\ completed = NoResults

\* A request to filter goes before one to highlight.
WorkerTake ==
  /\ work = Idle
  /\ \/ /\ \E request \in mailbox.request : work' = Holds("filter", "taken", request)
        /\ mailbox' = [mailbox EXCEPT !.request = {}]
     \/ /\ mailbox.request = {}
        /\ \E query \in mailbox.highlight : work' = Holds("highlight", "taken", query)
        /\ mailbox' = [mailbox EXCEPT !.highlight = {}]
  /\ UNCHANGED <<cached, completed>>

\* The closure current: nothing newer was sent, and it was not cancelled.
Current ==
  work.revision = IF work.kind = "filter" THEN mailbox.revision
                  ELSE mailbox.highlight_revision

WorkQuery == IF work.kind = "filter" THEN work.body.spec.query ELSE work.body

\* Between taking, compiling, scanning and publishing the thread looks whether
\* its work is still current, and goes back to the mailbox if it is not.
WorkerAbandon ==
  /\ work.stage \in {"taken", "compiled"}
  /\ ~Current
  /\ work' = Idle
  /\ UNCHANGED <<mailbox, cached, completed>>

\* Compiles unless the last expression compiled, of either kind of work, is the same.
WorkerCompile ==
  /\ work.stage = "taken"
  /\ Current
  /\ cached' = IF \E c \in cached : c.key = WorkQuery THEN cached
               ELSE {[key |-> WorkQuery, matcher |-> Compiled(WorkQuery)]}
  /\ work' = [work EXCEPT !.stage = "compiled"]
  /\ UNCHANGED <<mailbox, completed>>

FilterResult(request, matcher) ==
  [generation |-> request.generation, log_epoch |-> request.log_epoch,
   snapshot_base |-> request.snapshot_base, processed_len |-> Len(request.entries),
   matches |-> IF matcher = Failed THEN <<>>
               ELSE ScanEntries(request.entries, request.spec, matcher),
   matcher |-> matcher]

\* The last look at the revision.  A snapshot does not change while it is
\* scanned, so the scan is one step.
WorkerScan ==
  /\ work.stage = "compiled"
  /\ Current
  /\ \E c \in cached :
       work' = [stage |-> "ready", kind |-> work.kind,
                result |-> IF work.kind = "filter" THEN FilterResult(work.body, c.matcher)
                           ELSE [key |-> work.body, matcher |-> c.matcher]]
  /\ UNCHANGED <<mailbox, cached, completed>>

\* Replaces the slot, whatever was sent since the last look.
WorkerPublish ==
  /\ work.stage = "ready"
  /\ completed' = [completed EXCEPT ![work.kind] = {work.result}]
  /\ work' = Idle
  /\ UNCHANGED <<mailbox, cached>>

WorkerNext ==
  \/ WorkerTake
  \/ WorkerAbandon
  \/ WorkerCompile
  \/ WorkerScan
  \/ WorkerPublish
===============================================================================
