# A formal model of Ciallogcat

Ciallogcat captures Android logs through `adb logcat`.  It is a desktop
application (`src/src/main.rs` and the `*_ui.rs` modules) and a headless recorder
with a query tool (`src/src/cli/`).  Both are built from the same parts: a capture
controller, adb children with threads that read them, sessions that number
records, and a native document format.

This directory holds TLA+ modules of the parts whose correctness depends on the
order of events, TLC configurations that check them on small instances, and
proofs, checked by TLAPS, that hold for all values of the constants.

## 1. Inventory

State, operations and neighbours of each component; what makes it correct.

| Component | State | Operations | Correct when |
|---|---|---|---|
| **Capture controller** `capture_controller.rs` | intent, phase (idle, active, stopping, backoff, failed), last id, retry count, fault kept for after a stop | `request`, `poll`, `started`, `halt`, `exited`, `completed` | at most one attempt; a stop is never taken back or forgotten; retries are bounded and only for what is still wanted |
| **Session** `session.rs` | record, segment and attempt counters | `begin_attempt`, `stream_started`, `next_record` | identities never repeat or wrap |
| **adb child** `adb.rs`, **wake signal** `wake_signal.rs` | process, stdout and stderr readers, drain worker, bounded event channel, byte budget, timer | spawn, kill, reap; send Started, Entry, Stderr, Exited; ask for a frame | Exited is last, means reaped and says what is missing; a full channel or budget never blocks the reaping; every event is polled |
| **Desktop capture** `main.rs`, `capture_ui.rs` | controller, handle, live session, retained device, view, snapshot budget | frame: drain events, advance, user action | no child is lost while it can be killed; the view has one source and no holes; a finite snapshot ends; frames come when something is due |
| **Process names** `main.rs`, `process_watch.rs` | newest sample, pending query, previous sample of the watched application | query, answer, expire, name a record, compare samples | a sample is of the attempt it is used for; a late answer neither counts nor stops the queries |
| **Files in the desktop** `file_ui.rs` | dialog, job with cancel flag, candidate, pending replacement, shown document | open, save, replace, close, `poll_files` | nothing captures behind a file; saving before opening saves what goes; cancelling replaces nothing |
| **Log store** `log_store.rs` | chunks shared by reference, offset, counters | push, index, trim | the counters equal the contents, an index its row |
| **Capture facts** `capture_facts.rs` | attempts, pauses, gaps, what retention and clearing removed | one method per event of the capture | a document is called partial exactly if something may be missing |
| **Document** `document.rs` | header, records, footer | encode, snapshot, export, load, validate | a loaded document is exactly what was written; no damaged one loads |
| **File publication** `file_io.rs` | temporary file, cancel flag | create, write, sync, link | a file appears whole or not at all and replaces none |
| **Headless recorder** `cli/capture.rs` | loop locals, record in hand, encoder, writer thread and its channel, progress | one loop iteration, finalization | the file is a gapless prefix; success means a finalized document; it always ends |
| **Session directory** `cli/mod.rs`, `cli/session_management.rs` | `config.json`, `worker.lock`, `status.json`, `status.next`, `stop`, `management-closure.json` | start, worker, status, stop, forced closure | one worker; readers see whole statuses; a terminal status is final |
| **Query paging** `cli/query*` | key, cursor with boundary and anchor, signed tokens, the growing file | query, get, context | pages neither miss nor repeat a record; what is final is final; nothing fails without a reason |
| **Filter** `filter.rs`, `main.rs` | mailbox with revisions, worker, result slot, matches, catch-up cursor | send, cancel, scan, accept, catch up, trim | matches are exactly the rows the filter selects |
| **Selection, context view** `selection.rs`, `reading_ui.rs` | checked rows, anchor, focus, active row; the origin of a context | toggle, range, drag, clear, open and leave a context, trim | indices stay those of the records that were selected; a selection the filter hides is dropped |
| **Copying** `copy.rs`, `main.rs` | mailbox with one request, one result slot, the prepared copy with its stamp | copy, prepare, poll, commit | what is copied is what is selected now; only the newest request's result is used |
| **Search in a message, diagnostics, protobuf decoding, text output, configuration, presentation** | values | parsing, formatting, layout | not modelled (section 8) |

How they interact.  The UI thread and the recorder's loop are the only owners of
a controller; everything they learn comes through one bounded channel that the
threads of the adb children send into, or through result slots of worker threads
(file job, filter, copy).  A wake signal asks for a frame.  The recorder hands
encoded records through a channel of one packet to a writer thread and publishes
its progress in a status file, by which other processes page through the growing
document.  Stop requests reach it as a file.

What is hard: late events of children that were already replaced; stops that are
not confirmed; starts that fail half-way; bounded channels that fill up; results
of workers that arrive after what they were computed for has changed; several
processes on one directory; files that change between two pages.  The list with
lines is `hazards` in `PROJECT.json`.  Every hazard on it has a property but one: what becomes
of a session whose `status.next` was left behind is modelled, and no document promises
anything a property could demand.

## 2. Modules

| Module | Models | Extends |
|---|---|---|
| `Controller` | the controller as a value, one pure operator per method | |
| `CaptureController` | one controller called in any order, with late and foreign exits and the clock | `Controller` |
| `ExclusiveAttempt` | the abstract contract: exclusive attempts that are granted, revoked, released | |
| `ProcessHints` | the process queries of the desktop application beside the controller, and the watcher that compares their answers | `CaptureController` |
| `Session` | record, segment and attempt numbers with exhausted counters | |
| `LogcatChild` | one attempt's process and threads, and the bounded channel they send into, as both recorders see them | |
| `CaptureLemmas` | what each method of the controller does, and what a consumer of that channel may rely on: lemmas for all theorems about capturing | `Controller`, `LogcatChild` |
| `LogcatStream` | the same child in detail: pipes, byte budget, drain worker, failing calls, wake-ups and frames; it implements `LogcatChild` | |
| `LogcatStreamProofs` | that it does, and that an exit says what is missing | `LogcatStream` |
| `LiveCapture` | the desktop capture, frame by frame, against the children and the user | `Controller`, `Session`, `LogcatChild` |
| `CaptureFrames` | which frames are asked for, and by whom; the deadline of a finite snapshot | `LiveCapture` |
| `SourceReplace` | opening, saving and replacing files on top of the running capture | `LiveCapture` |
| `LiveCaptureProofs` | the invariants of the desktop capture, with and without files, and of its controller, alone and beside the queries, with theorems about them | `SourceReplace`, `ProcessHints`, `CaptureLemmas` |
| `CaptureRun` | the headless recorder with its writer thread | `Controller`, `Session`, `LogcatChild` |
| `CaptureRunProofs` | the invariants of its document and of its success, and theorems about them | `CaptureRun`, `CaptureLemmas` |
| `SessionFiles` | the processes that work on one session directory: worker, duplicate worker, status, stop, forced stop | |
| `SessionFilesProofs` | the invariant and theorems about them | `SessionFiles` |
| `QuerySource` | the archive a query reads, while it is written, closed, cut or replaced | |
| `QueryPaging` | the commands query, get and context with their key, cursors and references | `QuerySource` |
| `QueryPagingProofs` | that every token verifies, that answers are exact, that nothing is answered after a closure, and that no command fails without a reason | `QueryPaging` |
| `LogStore` | the chunked store of retained rows, pure operators | |
| `CaptureFacts` | what is remembered of a capture, pure operators | |
| `DocumentCodec` | the lines of a document: what is written, what is read back, what is refused | |
| `Documents` | rows, file jobs, publication and files: from the screen to a file and back | `LogStore`, `CaptureFacts`, `DocumentCodec` |
| `DocumentsProofs` | the invariants of the store, the view, the jobs and the files, and theorems about them and about writing and reading | `Documents` |
| `FilterWorker` | the filter thread with its mailbox and result slots | |
| `FilterPipeline` | the rows, their matches and the frames that keep both in step | `FilterWorker` |
| `RowSelection` | the methods of a selection, pure operators | |
| `LogReading` | selecting rows and opening contexts on top of the list | `FilterPipeline`, `RowSelection` |
| `CopyLogs` | copying the selected rows, at once or by a thread | `LogReading` |
| `ReadingProofs` | the invariants of the list, of what is read of it and of what is copied, and theorems about them | `CopyLogs` |
| `MC*` | instances for TLC | |

**State.**  `Controller` keeps the time left until a deadline where the code keeps
the deadline, and the age of a run, saturated at `STABLE_RUN`, where the code keeps
its start: only comparisons with the present are ever made.  `ProcessHints` keeps
instants as ages for the same reason.  In `LiveCapture` the
variable `app` is a record of the fields of `CiallogcatApp` that the capture works
on, with the names of the code; handlers are operators from one application to the
next and the actions of a frame apply them whole.  `at` is the part of the frame
that runs next: `logic` (any number of channel events, discoveries, then
`advance_capture`), `files` (`poll_files`, in `SourceReplace`) and `ui` (at most one
user action).  `LiveCapture` lets frames and the end of a snapshot's time come at any moment.
`CaptureFrames` adds `alarm`, the time until a frame that was asked for, `late`, whether the
snapshot's deadline has passed, and `watched`, whether a frame was asked for when it does: its
steps are those of `LiveCapture`, within a frame, together with the requests of the same handlers.
`CaptureRun` does the same with `run`, the locals of the recorder's
loop, whose steps `Top`, `Turn` and `Receive` are cut where the code looks at
something another thread changes.

In `FilterPipeline` a row is the kind of record it holds and a filter is the set of kinds
it selects: nothing else of either decides what is listed.  `app`, `reading` and `copy`
are the fields of `CiallogcatApp` that the list, the reading view and copying work on;
`LogReading` and `CopyLogs` call the handlers of the module below them and add a conjunct
for what the same handler does to their own fields, as `main.rs` does it in one body.

In `SessionFiles` the variable `files` is the directory.  Every read, publication,
link or removal is one step, and a reader of the effective status looks at two files in
two steps, so that any other process can act between them.  `QuerySource` takes
those processes' steps as far as a reader can tell them apart; there a line
of a file counts one, a hash is the lines it is computed from, and `history` remembers
everything that was ever written, so that an answer can be compared with it.  A
command of `QueryPaging` is a program counter over the looks it takes at the
directory: key, status, open, scan, check.  A token holds its key and what it binds.

In `LogStore` a store is a value with chunks and the counters of the code; a snapshot
that shares chunks with it is the same value, since `Arc::make_mut` copies
a chunk before it is changed.  In `DocumentCodec` a line is a record
of what a reader tells apart, and encoding and decoding are two operators that need not be
inverse to each other: that they are, for what is saved, is what `SavedIsTheSnapshot` checks and `WrittenLoads` proves.  `Documents` has the
live view, one file job with its thread and the files by path; `saved`, `sent` and `broken` are history variables: what was asked to be
saved, what was received, and whether anything was missed.

`LogcatStream` has one variable per thread (`out`, `err`, `drain`, `timer`, `ui`), each a program
counter with its locals, and one per shared object (`used`, `queue`, `stopped`).

**Atomicity.**  A step reads or changes shared state once: a channel operation, a
flag, the writer's result.  Between two of them any other thread may act.  A scan of
a page is one step, because what lies below its fence is only ever cut, and the cut is
looked for afterwards (`Check`).

**Mutants.**  A definition that is marked "Mutant" is the code with a plausible
bug.  Nothing uses it; it shows that the property it is paired with in
`PROJECT.json` fails when the code has that bug.

## 3. Runs

| Run | Asks | Bounds |
|---|---|---|
| `controller` | the controller under every order of calls, with the process queries beside it | 2 targets, 5 attempt ids, timeouts of 3 and 4 units, 2 processes of one application of which 1 may be shown, 2 queries at once, queries in 2 attempts (targets and queries symmetric) |
| `live_capture` | is any child lost, and if so, which; does the view keep one source; is any line missing | 2 devices (symmetric), 2 attempts of 2 lines, a channel of 1, starts that fail in every way |
| `live_progress` | with the frames that are asked for: does a stop end, does a wanted capture run, does a finite snapshot stay finite over retries and end in time | 1 device, following and then dumping, 2 attempts of 1 line or refused, a budget of 2 records |
| `source_replace` | what happens behind a file, what is saved before it is replaced, is the user ever left waiting | 1 device, 2 attempts of 2 lines that may be impossible to kill |
| `capture_run` | is the recorder's file a gapless prefix, is success what it says, is a completed dump whole, does it always end | both scopes, 2 attempts of 2 lines that may fail in every way, at most 2 records, no fairness for adb or the output |
| `session_files` | do readers agree on how a session ended, is a final answer final | 2 workers, 2 other processes (both symmetric), 1 record, writes that fail, crashes |
| `queries` | are pages exact over a growing file, what holds after a closure, does anything fail without a reason | 3 commands of one user beside another process that may create the key, 2 records, pages of 1, a context of 1 on either side |
| `documents` | is the store exact under trimming, is a saved file what was asked for, what becomes of partial and damaged files | chunks of 2, 4 rows of 2 sizes, 2 jobs of which 1 saves the live view, 1 interference, 2 paths (symmetric), 2 files of other writers |
| `stream` | do the threads of a child keep what `LogcatChild` says, does an exit tell what is missing, is any event left in the channel | 2 rows, one larger than the budget of 2 bytes, a channel of 2, 1 line on stderr or failing call |
| `filter_progress` | is every edit applied and highlighted in the end | 2 rows, 3 queries of which one is invalid, 2 user actions |
| `log_reading` | is the list what the filter selects at every point of a catch-up; do selection and context follow their records | 4 rows of 2 kinds, 3 retained, 3 queries of which one is invalid, 1 edit, clearing or file, 2 selections or contexts |
| `copy_logs` | is what is copied what is selected when it is copied | 1 row and a file of 1, 2 selections, 2 copies |

What they show, property by property, stands above each property in its module.

Named bounds.  `MaxId`, `MaxCount` and `MaxSeq` stand for u64::MAX: the code's checked
additions fail there, so a small bound shows what happens when a counter is used up.
(In `Documents`, `MaxSeq` only bounds how many rows arrive.)
`Lines` and `Sizes` bound what a child writes.  `QueueCap` is the channel's capacity (4096 and
128 in the code): one slot makes it full as often as possible.  `RecordLimit` and
`MAX_ENTRIES` are the code's limits.  `MaxRows`, `MaxActs`, `MaxReads` and `MaxCopies` bound
how many rows arrive and how often the user acts; `MaxRetained` stands for the memory
budget (any number of rows may go once it is exceeded), and `CatchUpRows` for
`FILTER_CATCHUP_ROWS` (2048), which a pass may also cut short by bytes or time.
`MaxMishaps` bounds the calls that fail and the lines on stderr,
`MaxAsked` and `Queries` the attempts with process queries and the queries in flight,
`MaxCommands` and `MaxRecords` the commands and the records they read,
`MaxJobs`, `MaxSaves` and `MaxBeside` the file jobs and what happens beside them.
`CHUNK_SIZE`, `CHUNK_BYTES`, `Budget`, `Target`, `Prefix`, `Limit`, `Around`, `QUEUE_BYTES`,
`PROCESS_HINT_TTL` and `MAX_PROCESSES` are constants of the code or of its
configuration, made small enough to be reached.
`Outcomes`, `Scopes`, `Discoveries`, `Requests`, `LiveRows` and `Foreign` choose what the environment may do
(an `"orphaned"` start is an `"abandoned"` one whose process dies at once, so `live_capture` leaves it out).  `SessionId` has three values: only equality with the
live session and with the source of the attempt in hand is ever observed, so a fresh
id is one that neither of them has.

Why they are enough.  Every hazard on the list needs at most two attempts: the one in
hand and one that is late, failed or being replaced.  Two lines tell a lost line from
a lost end; two devices tell a record of the wrong device; one slot of the channel
lets a sender block at every point.  Two kinds of rows make filters that select all,
none and one of them; three retained rows leave one on either side of a row when the
first is trimmed.  One record makes two different statuses of a running worker, and two
processes besides it are a reader and whoever interferes with what it reads.  Three
commands are a chain of two pages and whatever was asked before it; with pages of one
record and a footer behind two there are chains that end before, at and after the end.
Four rows over chunks of two fill a chunk, drain a part of it or all, and start another
while the first is partly drained; rows of two sizes let trimming stop in the middle of a
chunk and at its end.  A row larger
than the budget, one that fills half of it and two places in the channel let the
reader wait for the budget with places free, and the stderr reader and the drain worker wait for
places.

Deadlock checking is off in the runs where the system may stop: a user who does
nothing more and an exhausted model bound leave nothing to do.

## 4. Fairness

`CaptureFrames.DrawFairSpec`: a frame that was asked for comes (`eframe` draws it) and goes to its end
(`logic` and `ui` always return); an event that is again and again at the head of the channel while
`logic` runs is taken (strong fairness: the next frame begins with it); time passes; the threads of a
child run; and a process that is told to stop dies, because the drain worker kills it every 25 ms.
That a frame is asked for is not assumed.  It is what `WantedRuns`, `StopEnds` and `SnapshotTimeEnds`
are about: without the request for a retry (`NextDeadlineOfStop`), or if an awaited retry
did not count as part of the snapshot (`BudgetActiveInHand`), they fail.
Nothing is assumed of the user, of discoveries or of a process nobody told to stop.

`SourceReplace.FFairSpec` takes frames for granted (the deadline of a stop, the threads and a job
in hand ask for them) and drops the assumption that killing works: `ReplaceEnds` holds
because the timeout of the controller turns into a failure.

`CaptureRun.FairSpec` assumes the loop and the clock only.  The loop never blocks: it
uses `try_send`, `recv_timeout` and deadlines.  Nothing is assumed of adb, its threads
or the writer, so `RunEnds` shows that none of them can keep the recorder alive.

`FilterPipeline.FairSpec` assumes that the filter thread runs and that frames poll its
results, draw and let the debounce time pass; nothing is assumed of the user or of rows.

`LogcatStream.FairSpec` assumes that the threads run and that a frame that was asked for is
drawn.  Strong fairness of `OutputOverdue` says that time passes: the drain worker looks
at the process again and again, and one of the looks finds that stdout ended long enough
ago.  Nothing is assumed of the process: it need not write, and it need not end by itself.  No
call need fail, and no line need come on stderr.
That a frame is asked for is not assumed: it is what `EventsArePolled` is about.

## 5. What is proved

At the end of `LiveCaptureProofs`, for every set of targets, both timeouts and every bound
on ids, from `ControllerAssumption` alone:

- `InvHolds`: `Sound(ctl)` is inductive.  `ControllerTypeOK` alone is not: `exited` indexes the
  delay with the retry count and needs `RetryCounted`, and that an attempt is the newest
  one handed out is needed for the identity of the attempt that `poll` starts.
- `TypeCorrect`, `ActiveIsAlwaysWanted`, `FaultNeverMoves` follow from it.
- `StopStaysFirm`, `StopsAlwaysJudged`: the action properties, from the same invariant.
- `ContractKept`: every step of the controller is a step of `ExclusiveAttempt` or a
  stutter.

`CaptureLemmas` states for each method that it preserves `Sound` and what it does to
the phase; the step of an action is then the lemma about its method.  The run
`controller` checks the same properties with the queries of `ProcessHints` beside the
controller, which leave `ctl` alone.

There too, for every set of processes, every lifetime of a snapshot and
every number of queries:

- `HintsKeepController`: `HintSpec` implements `ControllerSpec`, so what is proved
  of the controller holds beside the queries too.
- `HintsStayCurrent`: the invariant is `Inv` of the controller with three parts.  A
  snapshot, the previous sample and the pending flag are of the attempt in hand, because each
  method that lets an attempt go or begins one is followed by `clear_process_data` in
  the same handler; the pending flag has its query in flight.

In `SessionFilesProofs`, for any number of workers, other processes and records (the model's
bound on records is an arbitrary number), with crashes and failing writes at every step:

- `SessionInvariant`: `TypeOK`, `Owned`, `Frozen` and `Kept` together are inductive.  None of
  the four properties is: each needs to know who may still change what it speaks of.
- `Owned` is about the workers.  `worker.lock` is created once and never removed, so one worker
  at most ever opens the log or publishes, nothing is written once it has counted its records,
  and a worker that comes later finds the lock.  `FinalAlwaysMeansOver` is one of its parts.
- `Frozen` is about the closure.  It is linked at most once; an answer in hand was in force
  when it was read, unless a closure has appeared, and then the second look finds it.
  `ReadsAlwaysEffective` and `ForcedStopsAlwaysAgree` follow.
- `Kept` adds what was reported: a final status is the last one written (`FinalIsLast`), so
  it is what a later read finds, or a closure.  `FinalAlwaysStaysFinal` follows.

The steps of the workers are reduced to a few facts about the worker that moved
(`OwnerMove`), those of the clients to the answer they give (`AnswerKeeps`); `ClientsStayRight`
says what the ones leave to the others.

`CaptureLemmas` also has what the two consumers of the child's channel have in common.  `ChannelInv`
says which events may be in the queue: those of launched attempts, the entries of a
child in order, none after its exit, none repeated.  `OnItsWay(i, n, ...)` says that of the lines
of child `i` exactly those after the first `n` are still in the queue; a receiver that takes
an entry moves `n` by one, and a child that exited with nothing queued has no more lines.
"No line is missing" in all theorems below is carried by these two.

In `LogcatStreamProofs`, for all rows, budgets, capacities and any number of calls that fail:

- `StreamStaysSound`: `StreamInv` is inductive.  The reader is at most one row ahead of what it has sent and never
  ahead of the process, and when it ends it knows whether it missed something (`OutInv`).  The drain worker knows the
  failures of what it has joined (`DrainInv`), an exit in the channel says what that worker knew (`ExitInv`), and
  the permits that are held are those of the rows in the channel and of the one at the reader (`BudgetInv`).
- `ExitsTell` is `ExitTellsWhatIsMissing`, from these.
- `StreamImplementsChild` and `StreamStartsAsChild`: a start begins as `LogcatChild` says of one that went well or
  whose drain worker could not be created, the process dead or, if killing it failed, alive; and every step afterwards
  is a step of `LogcatChild`, an event received, or a stutter.  This is what both recorders' theorems assume of a child.

What consumers are told of the channel (`Told`) and what its events hold of the budget (`Charged`) are
defined by recursion along a sequence.  That such a definition has a value, and what it is after one element more or
less, needs induction over numbers; the library's induction theorem cannot be used, but the one about least
elements can (`Induction`, from `WFMin`: a least number without the property would have one before it).

In `LiveCaptureProofs`, for every number of devices, attempts, lines, counters and budget, any
queue length:

- `CaptureInv` is inductive for `LiveCapture` with `Filed`, and has four parts.  `Held`: the handle is the
  controller's attempt, and a process that runs and has a drain worker is that attempt's.  A process without one is
  left of a start that failed and could not kill it.  `Budgeted`: a budget belongs to the
  scope it was opened for, and is spent when it is full.  `Shown`: neighbours in the view
  continue one another, and the last one is of the segment that is read or a former one.
  `Lined`: what is shown comes from attempts whose start succeeded, and while
  records are accepted, the lines after the last one shown are on their way.
  `ChildrenStayHeld` (with the exception that `Abandoned` names), `ViewStaysWhole` and the action property `SnapshotStaysBounded` follow.
- `ReplaceInv` adds the files of `SourceReplace`: `Ordered` (dialog, job and replacement
  come one after the other), `Filed` (nothing is captured behind a file) and `Waits` (nothing
  is captured from the choice to replace the view on, and what is saved is what is shown).  With it
  `FilesKeepTheCapture`: all that holds of the capture holds while files come and go;
  `FileStaysAlone`; `CancelledNeverReplaces`; and `SavedStaysShown`, for every scope.
- `SavedStaysWhatGoes` is `SavedIsWhatGoes` for captures that follow the log (`TRUE \notin Scopes`).
  The property claims that what is saved has every line the stopped child wrote.
  A finite snapshot is cut off by its budget and never claims that, and the run that checks
  the property takes following captures only as well.  What holds for both scopes is
  `SavedStaysShown`: what is saved is what the file replaces.

In `CaptureRunProofs`, for every number of attempts and lines, every queue length, limit and
patience, whatever the writer, adb, the user and the clock do:

- `DocumentInv` is inductive: the packets (`OutputInv`), the counters of the loop (`Counted`),
  the document as far as it was handed over (`Chained`), and, until the footer is sent, that the
  document, the record in hand and the lines on their way continue one another (`InStep`).
  `DocumentStaysPrefix` follows.
- `FinalInv` is inductive beside it.  `Accounted`: what was received and not handed over is
  the record in hand, unless a failure, a stop or the limit came between.  `Attended`: an attempt whose
  stream is not known to have begun has its first event still to come, and a process that runs is the attempt in
  hand's or was left by a start that could not kill it (`Tended`).  `Tallied`: the number of a line is
  how many lines of its attempt the document holds up to it.  `Gathered`: a snapshot that ended
  by itself is in the document.  `Sealed`: a document that was handed over ends with the footer
  that the loop's locals give.  `SuccessStaysFinalized` follows.  `Tallied` is what turns "the last line is
  there" into "as many lines as the child wrote": it counts by adding one element to a finite set at each
  step, which is why no induction is needed.

In `QueryPagingProofs`, for all clients, requests, page sizes and files, `TokensAlwaysVerify`: whoever wins
the race for `query.key`, one key is published, no command signs or verifies before it
holds that one (`OneKey`), and so no token the program gave out is refused.  For what commands
answer, `PagingInv` is inductive:

- `ArchiveInv`: what was written to an artifact only grows, and its end comes last; what is left in a file is a
  beginning of it, perhaps with damaged lines; the boundary of a status or a closure is within what was written and no
  record before it has a later number.
- `CursorInv` and `TokensInv`, of the tokens a user keeps and those in use: the rows of a chain are what its
  filter selects of the lines between where it began and where it stands.  The boundary a chain is held to is
  within what was written, and a session only appends, so what was selected before it stays exact (`CursorStays`).
- `ScanInv`, between the opening and the last check: the open file is left of the artifact that the token
  names, and the fence is the token's boundary.
- `ContextIsExact`, once a context is read.

`AnswersStayExact` follows.  `NothingComesAfterClosure` needs one thing more, the last check of a
command: it answers only when no closure came between, or when its boundary is not after the closure's.

`AlarmsAreNeverFalse` is the other direction, `NoFalseAlarm`: exact answers alone could be had by refusing
everything.  Beside `PagingInv`, `FairInv` is inductive, and it has two halves.

- `KeptInv`, whatever happens: the flags of a cursor are those its chain began with, only the cursor of a tail
  counts records it skipped, and the tokens a command uses are bound to the source it names.
- `FitInv`, while nobody harmed or closed the session.  The file is what was written (`Intact`).  The boundary of a status
  and of every token is one that the recorder published or could have: its number is the count of records before it (`Published`).
  Anchors and last numbers are those of the lines they name (`CursorFits`), and what a tail skipped or counted
  is all before its cursor (`CountsAll`).

The recorder only appends (`Grown`), so a command that fits goes on fitting while it writes and publishes
(`CommandStaysFit`).  Then none of the checks on the way finds anything: opening (`OpenSourceIsFair`), scanning (`AllIsScannable`,
`AdvancedAgrees`, `RowsAreThere`), and the last look (`CheckIsFair`).

In `ReadingProofs`, for all filters, expressions and rows, any bound on what is retained, any
neighbourhood of a context and any number of user actions:

- `PipelineInv` is inductive for the list.  `ListInv` is about what is shown: while no filter is
  pending, or one is pending with progress, the matches are the rows before the cursor that the
  filter in force selects.  The rest is about what is on its way: a snapshot in the mailbox, with the thread
  or in a result slot is of the present rows, as many as there were when it was taken and less what was
  trimmed since, or its stamp is not the present one and it will be dropped (`MailInv`, `SlotsInv`).
  `ListIsExact` alone is not inductive: accepting a result is right only because of what the stamp says of
  rows that are long gone.  `PipelineTypes` and `ListStaysExact` follow.
- `ReadingInv` is inductive beside it: selection, anchor and context are indices into the
  present rows, and those selected are listed as far as rows are classified.  With it `ReadingKeepsTheList`,
  `SelectionStaysListed`, `ContextStaysAround`, and the action property `NothingElseSelects`: each handler
  keeps the selected records or drops some.
- `CopyInv` is inductive with two facts.  `OnceInv`: a snapshot is answered once, so a list
  that is still valid for its stamp never goes back to an earlier cursor.  From it every step of the list
  `Advances`: rows that were classified stay so while their filter is in force.  And the revision of a
  selection tells whether its rows, or the context they are taken from, changed (`Follows`).  So a stamp that still matches
  when the text is ready means the same rows, and they are still checked.  `ReadyStaysTheSelection`, `NothingUncheckedIsCopied`
  and `CopyingKeepsReading` follow.

In `DocumentsProofs`, for every chunk size, budget, number and size of rows, all texts and filters, any
paths, files of other writers and number of jobs, `FilesInv` is inductive (`FilesStay`).  Its parts:

- `CaptureInv`, of the live view.  `ViewInv`: the rows of the store are the last ones received, each
  with the number it was received with, and the store is sound (`StoreInv`: the counters are sums over the rows, every chunk but the last is full
  with what was drained from the first).  `GapInv`: the facts that are kept tell what happened.  A row more and a
  round of trimming are one lemma each (`PushIsExact`, `RoundTrims`); that indexing and the search for
  signatures reach the right row follows from the invariant alone (`IndicesAreExact`, `NearestIsFound`).
  `ViewStaysExact` follows, and the first half of `GapsStayTold`.
- `OpenedInv`: what is shown of a file is a sound document, and its lines are those that are
  written of it.
- `JobsInv`: what a job holds at each of its steps, up to the lines it is about to publish.  A snapshot of
  the view and what a filter selects of a sound document are sound documents again (`SnapshotIs`,
  `SelectedIs`), so nothing is refused.
- `DiskInv`: what is under a name at which something was saved is the lines of a sound document with the
  rows, filters and gap that were asked for, or, once it was damaged, a file that does not load.
- `CountsInv`, of the model's counters.

`SavesAreSnapshots`, `DamageIsNoticed`, `GapsStayTold` and the action property `FilesAppearWhole` follow with
three facts about reading and writing: `WrittenLoads` (what is written of a sound document loads as its rows), `LoadedIsTheFile` (what
loads is written so, so that a copy of an opened file is that file) and `DamagedIsRefused`.  The last one needs no case
for what a line says: a document has one header, first, one footer, last, that counts the records, and numbers that
grow between them (`Shaped`), and no single loss, repetition, exchange, cut or addition keeps all of that.  The assumptions
are `LogStoreAssumption` and `DocumentsAssumption`: a live row has no identity and no protobuf evidence, its
process is from a snapshot of `ps`, and a session has one name; files of others are any lines at all.

Sums and concatenations over a sequence, the filling of a store, the rounds of trimming and the reading of a file are
recursive functions over a number; `Recursion` (from `Induction`, as in `LogcatStreamProofs`) says that each of them is the run of its
steps, and `TotalJoin` and `JoinedJoin` what they give of two sequences joined.

The sequences of the reading modules list sets of indices in order (`InOrder`): the number at place `k` is
the one with `k` numbers up to it.  That is what the loops of the code push, and the facts about it come from
the cardinalities of finite sets, without induction.

With these, every invariant and every action property that a run checks is stated by a theorem, and so is every
refinement.  Only model-checked is liveness (`StopEnds`, `WantedRuns`, `SnapshotTimeEnds`, `ReplaceEnds`, `RunEnds`,
`EditsSettle`, `EventsArePolled`), because the prover handles neither fairness nor ENABLED.

## 6. Readings worth knowing

- A discovery runs `advance_capture` inside the event loop, so a capture may start between
  two events of one frame; `Discover` does that.
- When the drain worker cannot be created the child is killed, but the stdout reader is
  already running: its Started and entries arrive for an attempt that has been reported as
  failed.  They carry that attempt's id and are ignored (`"orphaned"` in `StartOutcome`).
- Killing that child may fail as well.  `failed_logcat_start` then only adds the error to its message, and the
  caller, which has no handle, reports the attempt as exited and retries: the process runs on beside
  the next ones, with a reader that still sends (`"abandoned"`) or, when it was the reader that
  could not be created, with none (`"unread"`).  `docs/cli.md:425` says "The owned child must be reaped and
  both readers drained before a new child starts."  So `EveryChildIsHeld` and `SuccessIsFinalized` except
  such a process (`Abandoned`); `EveryChildIsHeld` adds that nothing it writes is shown.
- A row larger than the byte budget is charged the whole budget, not its size: it waits
  until nothing else is in the channel and passes alone (`Bytes`).
- The recorder drops the record in hand when it begins to stop.  Its number is used up, and
  the encoder that counted it is dropped with it: the footer counts what was admitted.
- A frame reads the query before it draws the field, so an edit and the drawing of the old
  list share a frame; `QueueFilter` is scheduled with the edit, not with what was drawn.
- While a new filter is pending the list shown is the old one, trimmed with the rows.
- When writing `status.next` fails after it was created, the leftover file makes every later
  publication fail as well (`Prepares`): a capture that fails then ends without a failed
  status, and readers see the last one grow old.
- A worker may publish its final status between the recheck of a forced stop and the link of
  its closure, and a comment of the code accepts that ("The worker may still race
  afterwards"): `FinalStaysFinal` lets a closure follow a final status, and nothing else.
- A stream that starts after its stop was asked for counts as a pause when the capture is
  resumed, like one that had started before (`StreamStarted` in `CaptureFacts`).
- Leaving a context does not move the revision of the selection unless something was selected
  in it (`leave_context`).  "Copy full log" of a context row that is prepared in the background may then be committed
  after the context was left, when that row is no longer on screen: the row is the one that was asked for,
  and `OnlyCheckedRowsAreCopied` says so (`AskedAsRow`).
- Room in the first chunk of a store that was partly drained is not used again: a
  chunk is full when the rows drained and the rows left are `CHUNK_SIZE` together (`NeedsChunk`).
- The pending flag of process queries is cleared with the samples when an attempt ends, so
  a query of the next attempt may run beside a late one; the late answer is then refused by
  its attempt alone, and it must not clear the flag of the newer one.

## 7. Plan

Done: the capture core (`Controller` to `SourceReplace`) with the detail of its children
(`LogcatStream`) and its process names (`ProcessHints`), the recorder (`CaptureRun`), the
session directory (`SessionFiles`) and its readers (`QueryPaging`), documents from the store to
a file (`LogStore` to `Documents`), the list, reading and copying (`FilterWorker` to `CopyLogs`);
the theorems about the controller, the process names, both recorders with the detail of a child,
replacing files, the session directory, queries, documents, and the list, reading and copying.

Left: device diagnostics and the search inside a message, if they can be given a property of
their own: neither shares state with anything else.

## 8. Not modelled, and why

Parsing and formatting (the decoding of one frame in `protobuf.rs`, `cli/text_output.rs`,
most of `model.rs`, `json_input.rs`, `incident.rs`, the syntax of filters in
`cli/query_filter.rs`) are functions on data without order or state.  `config.rs` and `history.rs`
load, normalise and save preferences.  `log_table_ui.rs`, `font_fallback.rs`, `level_color.rs` and the
layout code of `main.rs` are presentation.  `diagnostics.rs` runs a sequence of read-only queries,
each with a time limit, that no other part waits for.  `performance.rs` and the
`*_regressions.rs` files are tests and measurements; assets, the protobuf schema, prototypes and
tools are not part of the program.

Within the modelled parts:

- Desktop capture: device and package queries; scroll positions, keyboard focus, notices and
  elapsed times of the list and the reading view; the search inside one message, whose worker
  has the shape of the copy worker.
- Process names: scopes other than the default one, and the list of recent changes, which the
  user only reads.
- adb children: command lines and the one-shot queries other than that for processes.
- Store and facts: `set_process`, which only tests call; the last 64 observations.
- Documents: JSON syntax, the sizes of fields, the 8 MiB limit of a line; how an opened file
  replaces the live view is `SourceReplace`'s.
- Session directory: a status that is too old to be believed (reported as unknown) and files of
  another version.
- Queries: what a filter says beyond its time bound, budgets other than as a place where a
  page may end, the layout of responses.
- Filter: closing its mailbox when the application exits changes nothing that anybody sees.
