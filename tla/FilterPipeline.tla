---------------------------- MODULE FilterPipeline ----------------------------
(***************************************************************************)
(* The list of matching rows in the desktop application (src/src/main.rs): *)
(* the filter being edited and the one in force, the retained rows as they *)
(* are received, trimmed, cleared and replaced by a file, the snapshots    *)
(* sent to the thread of FilterWorker, its results, and the rows the UI    *)
(* thread classifies itself, a bounded number per frame.                   *)
(*                                                                         *)
(* Each handler of the UI thread is one action; the user, the channel and  *)
(* the clock decide which runs next.  Rows are trimmed by bytes in the     *)
(* code; here any row may be one too many, and any number may go with it.  *)
(* Selection, context view and copying are added by LogReading.tla.        *)
(***************************************************************************)
EXTENDS FilterWorker

CONSTANTS
  MaxRows,      \* of the model: rows received in one epoch
  MaxRetained,  \* of the model: rows that always fit the memory budget
  CatchUpRows,  \* rows a frame classifies at most (FILTER_CATCHUP_ROWS)
  MaxActs,      \* of the model: edits, clears, files and budget changes
  Files         \* of the model: contents of files, sequences of kinds

ASSUME PipelineAssumption ==
  /\ {MaxRows, MaxRetained, MaxActs} \subseteq Nat
  /\ CatchUpRows \in Nat \ {0}
  /\ Files \subseteq Seq(Kinds)

VARIABLES
  app,   \* the fields of CiallogcatApp this works on
  acts   \* of the model: what the user did so far

pipelineVars == <<app, acts, workerVars>>

NoProgress == [next_absolute |-> 0, generation |-> 0, log_epoch |-> 0, some |-> FALSE]
Progress(a, next) ==
  [next_absolute |-> next, generation |-> a.generation, log_epoch |-> a.epoch, some |-> TRUE]

End(a) == a.dropped + Len(a.entries)
Larger(m, n) == IF m < n THEN n ELSE m
Smaller(m, n) == IF m < n THEN m ELSE n

NewApp(filter) ==
  LET a == [entries |-> <<>>, dropped |-> 0, epoch |-> 0, generation |-> 0,
            draft |-> filter, dirty |-> FALSE, active |-> filter,
            matcher |-> EmptyQuery, pending |-> FALSE, progress |-> NoProgress,
            error |-> FALSE, matches |-> <<>>, document |-> FALSE,
            highlight_key |-> EmptyQuery, highlight_matcher |-> None]
  IN [a EXCEPT !.progress = Progress(a, 0)]

-------------------------------------------------------------------------------
(* Methods of the application, as functions of its fields.                 *)

\* restart_filter_snapshot; the handler sends Request of the result.
Restarted(a) ==
  [a EXCEPT !.generation = a.generation + 1, !.pending = TRUE,
            !.progress = NoProgress, !.error = FALSE]

Request(a) ==
  [generation |-> a.generation, log_epoch |-> a.epoch,
   snapshot_base |-> a.dropped, entries |-> a.entries, spec |-> a.active]

\* schedule_filter
Scheduled(a) == Restarted([a EXCEPT !.dirty = FALSE, !.active = a.draft])

\* accept_filter_result
Stale(a, r) ==
  r.generation # a.generation \/ r.log_epoch # a.epoch \/ a.dropped < r.snapshot_base

AcceptedError(a) ==
  [a EXCEPT !.error = TRUE, !.matcher = Failed, !.matches = <<>>,
            !.pending = FALSE, !.progress = NoProgress]

\* retain_mut: an index of the snapshot refers to a row that may have moved or gone.
Rebased(indices, removed, len) ==
  LET kept == InOrder({k \in DOMAIN indices : indices[k] \in removed .. removed + len - 1})
  IN [k \in DOMAIN kept |-> indices[kept[k]] - removed]

\* Mutant: rows trimmed since the snapshot are not subtracted.
AcceptedUnmoved(a, r) ==
  LET next == Smaller(Larger(r.snapshot_base + r.processed_len, a.dropped), End(a))
  IN [a EXCEPT !.error = FALSE, !.matcher = r.matcher,
               !.matches = Rebased(r.matches, 0, Len(a.entries)),
               !.progress = Progress(a, next),
               !.pending = next < End(a)]

AcceptedMatches(a, r) ==
  LET next == Smaller(Larger(r.snapshot_base + r.processed_len, a.dropped), End(a))
  IN [a EXCEPT !.error = FALSE, !.matcher = r.matcher,
               !.matches = Rebased(r.matches, a.dropped - r.snapshot_base, Len(a.entries)),
               !.progress = Progress(a, next),
               !.pending = next < End(a)]

Accepted(a, r) ==
  IF Stale(a, r) THEN a
  ELSE IF r.matcher = Failed THEN AcceptedError(a)
  ELSE AcceptedMatches(a, r)

\* advance_filter_catchup, stopped after rows by its row, byte or time budget
CatchesUp(a) ==
  /\ a.progress.some
  /\ a.progress.generation = a.generation
  /\ a.progress.log_epoch = a.epoch
  /\ a.pending

CaughtUp(a, rows) ==
  IF ~CatchesUp(a) THEN a
  ELSE LET start == Larger(a.progress.next_absolute, a.dropped) - a.dropped
           next == IF a.matcher = Failed THEN start
                   ELSE Smaller(start + rows, Len(a.entries))
           found == InOrder(Matching(a.entries, a.active, a.matcher) \cap start .. next - 1)
       IN [a EXCEPT !.matches = a.matches \o found,
                    !.progress = Progress(a, a.dropped + next),
                    !.pending = next < Len(a.entries)]

\* the highlight half of poll_filter
Highlighted(a, r) ==
  IF r.key # a.draft.query THEN a
  ELSE [a EXCEPT !.highlight_key = r.key,
                 !.highlight_matcher = IF r.matcher = Failed THEN None ELSE r.matcher]

\* rebase_after_trim
Trimmed(a, remove) ==
  IF remove = 0 THEN a
  ELSE LET dropped == a.dropped + remove
           entries == SubSeq(a.entries, remove + 1, Len(a.entries))
           next == Larger(a.progress.next_absolute, dropped)
       IN [a EXCEPT !.entries = entries, !.dropped = dropped,
                    !.matches = Rebased(a.matches, remove, Len(entries)),
                    !.progress = IF a.progress.some
                                 THEN [a.progress EXCEPT !.next_absolute = next] ELSE @,
                    !.pending = IF a.progress.some
                                THEN next < dropped + Len(entries) ELSE @]

\* append_received_entry, before it trims
Appended(a, row) ==
  LET matches == ~a.pending /\ a.matcher # Failed /\ EntryMatches(row, a.active, a.matcher)
      b == [a EXCEPT !.entries = Append(a.entries, row),
                     !.matches = IF matches THEN Append(@, Len(a.entries)) ELSE @]
  IN IF ~a.pending /\ a.progress.some
     THEN [b EXCEPT !.progress.next_absolute = End(b)] ELSE b

\* clear_logs
Cleared(a) ==
  LET b == [a EXCEPT !.epoch = a.epoch + 1, !.entries = <<>>, !.matches = <<>>,
                     !.dropped = 0, !.generation = a.generation + 1]
  IN [b EXCEPT !.progress = IF a.pending THEN NoProgress ELSE Progress(b, 0)]

\* Mutant: the cancelled request of a pending filter is not sent again.
MailOnlyCancelled(a) == Cancel(mailbox)

MailAfterClear(a) ==
  IF a.pending THEN Send(Cancel(mailbox), Request(Cleared(a))) ELSE Cancel(mailbox)

\* install_candidate, after the file was loaded: clears, takes the rows of the
\* file, drops the package from the filter being edited, and schedules it.
Unpackaged(draft, filter) == filter.query = draft.query /\ draft.meta \subseteq filter.meta

Installed(a, rows, filter) ==
  Scheduled([Cleared(a) EXCEPT !.entries = rows, !.document = TRUE, !.draft = filter])

-------------------------------------------------------------------------------
Init ==
  /\ \E filter \in Filters :
       LET a == NewApp(filter) IN
       \/ /\ filter.query = EmptyQuery
          /\ app = a
          /\ mailbox = EmptyMailbox
       \/ /\ filter.query # EmptyQuery
          /\ app = Scheduled(a)
          /\ mailbox = Send(EmptyMailbox, Request(Scheduled(a)))
  /\ acts = 0
  /\ WorkerInit

UserActs == acts < MaxActs /\ acts' = acts + 1

Taken(Handler(_, _), a, slot) ==
  IF slot = {} THEN a ELSE Handler(a, CHOOSE result \in slot : TRUE)

\* poll_filter: takes both results, then classifies some rows.
PollFilter ==
  /\ \E rows \in 1 .. CatchUpRows :
       LET a == Taken(Highlighted, app, completed.highlight)
           b == Taken(Accepted, a, completed.filter)
       IN app' = CaughtUp(b, rows)
  /\ completed' = NoResults
  /\ UNCHANGED <<mailbox, work, cached, acts>>

\* An event of the backend brings a row.  Capturing stops before a file opens.
AppendReceivedEntry ==
  /\ ~app.document
  /\ End(app) < MaxRows
  /\ \E row \in Kinds :
       LET a == Appended(app, row)
           len == Len(a.entries)
       IN \E remove \in IF len > MaxRetained THEN 1 .. len ELSE {0} : app' = Trimmed(a, remove)
  /\ UNCHANGED <<acts, workerVars>>

\* poll_backend, when no edit came for FILTER_DEBOUNCE
Debounce ==
  /\ app.dirty
  /\ app' = Scheduled(app)
  /\ mailbox' = Send(mailbox, Request(app'))
  /\ UNCHANGED <<work, cached, completed, acts>>

\* log_table: a frame that finds another expression in the draft asks for its
\* highlighting.  The first frame does; later the toolbar edits the expression
\* before the same frame draws the table, so an edit includes this.
Highlights(a) == a.highlight_key # a.draft.query

Drawn(a) ==
  IF Highlights(a)
  THEN [a EXCEPT !.highlight_key = a.draft.query, !.highlight_matcher = None] ELSE a

MailAfterDrawing(a, mail) ==
  IF Highlights(a) /\ a.draft.query # EmptyQuery THEN SendHighlight(mail, a.draft.query) ELSE mail

DrawFirstFrame ==
  /\ Highlights(app)
  /\ app' = Drawn(app)
  /\ mailbox' = MailAfterDrawing(app, mailbox)
  /\ UNCHANGED <<work, cached, completed, acts>>

\* queue_filter: the toolbar, the table's menu and the history edit the draft.
QueueFilter ==
  /\ UserActs
  /\ \E filter \in Filters :
       LET a == [app EXCEPT !.draft = filter, !.dirty = TRUE]
       IN /\ app' = Drawn(a)
          /\ mailbox' = MailAfterDrawing(a, mailbox)
  /\ UNCHANGED <<work, cached, completed>>

\* apply_saved_filter, and the button that drops the package, do not wait.
ScheduleFilter ==
  /\ UserActs
  /\ \E filter \in Filters :
       LET a == Scheduled([app EXCEPT !.draft = filter])
       IN /\ app' = Drawn(a)
          /\ mailbox' = MailAfterDrawing(a, Send(mailbox, Request(a)))
  /\ UNCHANGED <<work, cached, completed>>

\* clear_logs: the confirmed button, another device, or closing the file.
ClearLogs ==
  /\ UserActs
  /\ app' = [Cleared(app) EXCEPT !.document = FALSE]
  /\ mailbox' = MailAfterClear(app)
  /\ UNCHANGED <<work, cached, completed>>

InstallCandidate ==
  /\ UserActs
  /\ \E rows \in Files, filter \in Filters :
       /\ Unpackaged(app.draft, filter)
       /\ app' = Installed(app, rows, filter)
  /\ mailbox' = Send(MailAfterClear(app), Request(app'))
  /\ UNCHANGED <<work, cached, completed>>

\* apply_memory_budget with a smaller budget: trims what a capture retains, and
\* takes a new snapshot if the thread still works on one with the old rows.
ApplyMemoryBudget ==
  /\ UserActs
  /\ \E remove \in IF app.document THEN {0} ELSE 0 .. Len(app.entries) :
       LET a == Trimmed(app, remove)
           restarts == a.pending /\ ~a.progress.some
       IN /\ app' = IF restarts THEN Restarted(a) ELSE a
          /\ mailbox' = IF restarts THEN Send(mailbox, Request(app')) ELSE mailbox
  /\ UNCHANGED <<work, cached, completed>>

WorkerStep == WorkerNext /\ UNCHANGED <<app, acts>>

Next ==
  \/ PollFilter
  \/ AppendReceivedEntry
  \/ Debounce
  \/ DrawFirstFrame
  \/ QueueFilter
  \/ ScheduleFilter
  \/ ClearLogs
  \/ InstallCandidate
  \/ ApplyMemoryBudget
  \/ WorkerStep

Spec == Init /\ [][Next]_pipelineVars

\* The thread runs; a result wakes a frame, a frame with rows left to classify
\* or an edit waiting asks for another, and every frame polls and draws.
FairSpec ==
  /\ Spec
  /\ WF_pipelineVars(WorkerStep)
  /\ WF_pipelineVars(PollFilter)
  /\ WF_pipelineVars(Debounce)
  /\ WF_pipelineVars(DrawFirstFrame)

-------------------------------------------------------------------------------
(* Properties.                                                             *)

RequestType ==
  [generation : Nat, log_epoch : Nat, snapshot_base : Nat,
   entries : Seq(Kinds), spec : Filters]

AppType ==
  [entries : Seq(Kinds), dropped : Nat, epoch : Nat, generation : Nat,
   draft : Filters, dirty : BOOLEAN, active : Filters, matcher : Matcher,
   pending : BOOLEAN,
   progress : [next_absolute : Nat, generation : Nat, log_epoch : Nat, some : BOOLEAN],
   error : BOOLEAN, matches : Seq(Nat), document : BOOLEAN,
   highlight_key : Queries, highlight_matcher : Queries \cup {None}]

\* The fields hold what their Rust types say, and a mailbox holds a request of
\* its newest revision only.
TypeOK ==
  /\ app \in AppType
  /\ acts \in 0 .. MaxActs
  /\ \A request \in mailbox.request :
       /\ request.revision = mailbox.revision
       /\ request.body \in RequestType
  /\ \A request \in mailbox.highlight :
       /\ request.revision = mailbox.highlight_revision
       /\ request.body \in Queries \ {EmptyQuery}
  /\ work.stage \in {"idle", "taken", "compiled", "ready"}
  /\ \A c \in cached : c.matcher = Compiled(c.key)

\* What the active filter selects of the retained rows; nothing if its
\* expression does not compile.
Selects(index) ==
  /\ app.active.query \notin InvalidQuery
  /\ EntryMatches(app.entries[index + 1], app.active, app.active.query)

InForce(below) == InOrder({i \in 0 .. below - 1 : Selects(i)})

\* The table indexes the retained rows with the list, and searches it by
\* halving: the list is always in order and within the rows, also the one of
\* an older filter that stays visible while a new one is pending (log_table).
ListIndexesRetainedRows ==
  /\ \A k \in 1 .. Len(app.matches) : app.matches[k] < Len(app.entries)
  /\ \A k \in 2 .. Len(app.matches) : app.matches[k - 1] < app.matches[k]

\* Once the filter is no longer pending, the list shows exactly the retained
\* rows it selects, in order - whatever was received, trimmed, cleared or
\* replaced while a snapshot was with the thread, and however late its result
\* (accept_filter_result, append_received_entry, rebase_after_trim).  While
\* rows are left to classify it shows exactly the selected ones of those before
\* the cursor, so that what may be copied is right (classification_pending).
ListIsExact ==
  /\ ~app.pending => app.matches = InForce(Len(app.entries))
  /\ app.progress.some =>
       /\ app.progress.next_absolute \in app.dropped .. End(app)
       /\ app.matches = InForce(app.progress.next_absolute - app.dropped)
  /\ ListIndexesRetainedRows

\* An edit is applied and the list settles, and the draft's expression is
\* highlighted in the end, if it compiles, behind whatever was asked before.
EditsSettle ==
  /\ (app.dirty \/ app.pending) ~> ~(app.dirty \/ app.pending)
  /\ []<>(app.highlight_matcher = IF app.draft.query \in InvalidQuery \cup {EmptyQuery} THEN None
                                  ELSE app.draft.query)
===============================================================================
