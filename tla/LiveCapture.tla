----------------------------- MODULE LiveCapture ------------------------------
(***************************************************************************)
(* The desktop application's capture (src/src/main.rs, capture_ui.rs): the *)
(* UI thread with its controller, the handle of the adb child, the live    *)
(* session, the retained view and the snapshot budget, against the child   *)
(* processes and threads of LogcatChild and a user who acts at any time.   *)
(*                                                                         *)
(* A frame runs logic - any number of channel events, then advance - and   *)
(* then ui, where at most one user action happens.  A target is a device:  *)
(* the selected buffers only matter as the restart flag of apply_buffers.  *)
(*                                                                         *)
(* Left out: filtering, process names, capture facts, queries of packages  *)
(* and processes, messages.  A confirmation dialog is the action it ends   *)
(* in.  SourceReplace.tla adds opening and closing files.                  *)
(***************************************************************************)
EXTENDS Controller, Session, LogcatChild

CONSTANTS
  Scopes,      \* of the model: TRUE for a finite dump, FALSE for following
  Discoveries, \* of the model: sets of devices a discovery can find
  Outcomes,    \* of the model: ways a start can end
  RecordLimit  \* records a finite snapshot admits (100,000)

ASSUME LiveCaptureAssumption ==
  /\ "none" \notin Target
  /\ RecordLimit \in Nat \ {0}
  /\ Scopes \subseteq BOOLEAN
  /\ Discoveries \subseteq SUBSET Target
  /\ Outcomes \subseteq StartOutcome

VARIABLES
  app,        \* the fields of CiallogcatApp the capture works on
  available,  \* devices the last discovery found available
  at          \* part of the frame: "logic", "files" or "ui"

vars == <<app, available, at, child, queue>>

NoDevice == "none"

\* A session id is random and fresh: the live session's and the one an
\* attempt was started for are all that is ever compared.
SessionId == 1 .. 3
FreshSession(used) == CHOOSE id \in SessionId : id \notin used

NoBudget == [open |-> FALSE, records |-> 0, spent |-> FALSE]
NewBudget == [open |-> TRUE, records |-> 0, spent |-> FALSE]

ViewRecord ==
  [source : SessionId, device : Target,  \* what its attempt was started for
   seq : 1 .. MaxSeq, segment : 1 .. MaxCount, attempt : Id, line : 1 .. Lines]

AppState ==
  [ctl : ControllerState,
   handle : Id \cup {NoId}, stopped : BOOLEAN,    \* LogcatHandle, its stop flag
   selected : Target \cup {NoDevice},
   retained : Target \cup {NoDevice},
   document : BOOLEAN,                            \* a file is shown
   session : SessionState(SessionId),
   owner : SessionId \cup {0},                    \* capture_source_session
   view : Seq(ViewRecord),                        \* entries
   dump : BOOLEAN, attempt_dump : BOOLEAN,        \* capture(_attempt)_scope
   reset_budget : BOOLEAN,                        \* reset_scope_budget
   budget : [open : BOOLEAN, records : 0 .. RecordLimit, spent : BOOLEAN]]

NewApp ==
  [ctl |-> NewController, handle |-> NoId, stopped |-> FALSE,
   selected |-> NoDevice, retained |-> NoDevice, document |-> FALSE,
   session |-> NewSession(1), owner |-> 0, view |-> <<>>,
   dump |-> FALSE, attempt_dump |-> FALSE, reset_budget |-> TRUE,
   budget |-> NoBudget]

-------------------------------------------------------------------------------
(* Handlers: the application after a call *)

\* Mutant: the handle is not told.
SetIntentUntold(a, intent, restart) ==
  [a EXCEPT !.ctl = Request(a.ctl, intent, restart)]

SetIntent(a, intent, restart) ==
  LET stops == RequestStops(a.ctl, intent, restart)
  IN [a EXCEPT !.ctl = Request(a.ctl, intent, restart),
               !.stopped = @ \/ (stops /\ a.handle # NoId)]

Accepts(a, id) ==
  /\ ~a.document
  /\ ActiveId(a.ctl) = id
  /\ a.owner = a.session.id
  /\ a.retained = a.ctl.phase.attempt.target

HaltCapture(a) ==
  LET halted == Halt(a.ctl)
  IN IF ~RequestStops(a.ctl, "Paused", FALSE) THEN [a EXCEPT !.ctl = halted]
     ELSE IF a.handle # NoId THEN [a EXCEPT !.ctl = halted, !.stopped = TRUE]
     ELSE [a EXCEPT !.ctl = Exited(halted, ActiveId(halted))]

StopIfLimited(a) ==
  IF /\ ~IsStopping(a.ctl)
     /\ ~a.reset_budget
     /\ a.budget.spent
     /\ Capturing(a.ctl)
  THEN SetIntent(a, "Paused", FALSE) ELSE a

\* Mutant: a retry that is awaited does not count.
BudgetActiveInHand(a) ==
  ~a.reset_budget /\ Status(a.ctl) \in {"Starting", "Running"}

BudgetActive(a) ==
  ~a.reset_budget /\ Status(a.ctl) \in {"Starting", "Running", "Backoff", "Waiting"}

Ready(a, devices) == ~a.document /\ a.selected \in devices

\* advance_capture up to the poll; time_up: the snapshot's deadline has passed.
Checked(a, time_up) ==
  StopIfLimited(IF time_up /\ BudgetActive(a) /\ a.budget.open
                THEN [a EXCEPT !.budget.spent = TRUE] ELSE a)

\* Mutant: every start gets a snapshot budget of its own.
LaunchRefilled(a, outcome) ==
  LET id == a.ctl.next_id + 1
      c == Poll(a.ctl, TRUE)
      b == [a EXCEPT !.owner = a.session.id, !.attempt_dump = a.dump,
              !.budget = IF a.dump THEN NewBudget ELSE NoBudget,
              !.reset_budget = FALSE, !.session = BeginAttempt(a.session)]
  IN IF outcome = "ok" THEN [b EXCEPT !.ctl = c, !.handle = id, !.stopped = FALSE]
     ELSE [b EXCEPT !.ctl = Exited(c, id)]

\* The rest of advance_capture when poll returns a Start.
Launch(a, outcome) ==
  LET id == a.ctl.next_id + 1
      b == [a EXCEPT
             !.ctl = Poll(a.ctl, TRUE),
             !.owner = a.session.id,
             !.attempt_dump = a.dump,
             !.budget = IF ~a.reset_budget THEN @
                        ELSE IF a.dump THEN NewBudget ELSE NoBudget,
             !.reset_budget = FALSE,
             !.session = BeginAttempt(a.session)]
  IN IF ~CanBegin(a.session) THEN HaltCapture(b)
     ELSE IF outcome = "ok" THEN [b EXCEPT !.handle = id, !.stopped = FALSE]
     ELSE [b EXCEPT !.ctl = Exited(b.ctl, id)]

OnStarted(a, id) ==
  LET b == [a EXCEPT !.ctl = Started(a.ctl, id)]
  IN IF ~StartedCounts(a.ctl, id) \/ ~Accepts(b, id) THEN b
     ELSE IF CanStartStream(b.session)
     THEN [b EXCEPT !.session = StreamStarted(b.session)]
     ELSE HaltCapture(b)

\* append_received_entry; trimmed: the memory budget pushes out the oldest.
Appended(a, id, line, trimmed) ==
  LET s == Record(a.session)
      record == [source |-> a.owner, device |-> a.ctl.phase.attempt.target,
                 seq |-> s.seq, segment |-> s.segment, attempt |-> id, line |-> line]
      longer == Append(a.view, record)
  IN [a EXCEPT !.session = s, !.view = IF trimmed THEN Tail(longer) ELSE longer]

\* over: the entry would exceed the snapshot's bytes, the retention or its time.
OnEntry(a, id, line, over, trimmed) ==
  LET budgeted == a.attempt_dump /\ a.budget.open
      used == a.budget.records + 1
      b == IF budgeted THEN [a EXCEPT !.budget.records = used,
                                      !.budget.spent = (used = RecordLimit)]
           ELSE a
  IN IF ~Accepts(a, id) THEN a
     ELSE IF budgeted /\ (over \/ a.budget.spent)
     THEN StopIfLimited([a EXCEPT !.budget.spent = TRUE])
     ELSE IF ~CanRecord(b.session) THEN HaltCapture(b)
     ELSE StopIfLimited(Appended(b, id, line, trimmed))

OnExited(a, id, clean) ==
  [a EXCEPT !.ctl = IF a.attempt_dump /\ clean
                    THEN Completed(a.ctl, id) ELSE Exited(a.ctl, id),
            !.handle = NoId, !.stopped = FALSE]

\* clear_logs: the session and its counters go on.
Cleared(a) == [a EXCEPT !.view = <<>>]

\* A source of its own: nothing of the old one is kept.
NewSource(a) ==
  [Cleared(a) EXCEPT !.session = NewSession(FreshSession({a.session.id, a.owner})),
                     !.budget = NoBudget, !.reset_budget = TRUE]

SameHistory(a, device) == ~a.document /\ a.retained = device

\* switch_device up to start_capture.
Switched(a, device) ==
  LET b == [a EXCEPT !.document = FALSE, !.retained = device, !.selected = device]
  IN IF SameHistory(a, device) THEN b ELSE NewSource(b)

\* start_capture up to advance_capture.
StartAsked(a) ==
  SetIntent([a EXCEPT !.reset_budget = TRUE], a.selected, FALSE)

\* Mutant: only a child is told that the source is closed.
CloseCaptureOfChild(a) ==
  IF a.handle = NoId THEN [a EXCEPT !.selected = NoDevice]
  ELSE [SetIntent(a, "Closed", FALSE) EXCEPT !.selected = NoDevice]

CloseCapture(a) ==
  [SetIntent(a, "Closed", FALSE) EXCEPT !.selected = NoDevice]

-------------------------------------------------------------------------------
(* Steps *)

Init ==
  /\ app = NewApp
  /\ available = {}
  /\ at = "logic"
  /\ ChannelInit(Id)

\* advance_capture from the application a and the devices that are available,
\* with what a start does to the child.
AdvanceAt(a, devices, time_up) ==
  LET b == Checked(a, time_up) IN
  IF PollStarts(b.ctl, Ready(b, devices))
  THEN \E outcome \in Outcomes :
         /\ app' = Launch(b, outcome)
         /\ child' = [child EXCEPT ![b.ctl.next_id + 1] =
                        IF CanBegin(b.session) THEN ChildOf(outcome) ELSE NoChild]
         /\ UNCHANGED queue
  ELSE /\ app' = [b EXCEPT !.ctl = Poll(b.ctl, Ready(b, devices))]
       /\ UNCHANGED channel

AdvanceWith(a, devices) == \E time_up \in BOOLEAN : AdvanceAt(a, devices, time_up)

Advance(a) == AdvanceWith(a, available)

\* Mutant: events are not matched against the current attempt.
HandledAny(a, event) ==
  IF ~HasAttempt(a.ctl) THEN {a}
  ELSE CASE event.kind = "Started" -> {OnStarted(a, ActiveId(a.ctl))}
         [] event.kind = "Entry" ->
              {OnEntry(a, ActiveId(a.ctl), event.line, over, FALSE) : over \in BOOLEAN}
         [] OTHER -> {OnExited(a, event.id, event.clean)}

\* The event loop of poll_backend: what one event can make of the application.
Handled(a, event) ==
  IF ActiveId(a.ctl) # event.id THEN {a}
  ELSE CASE event.kind = "Started" -> {OnStarted(a, event.id)}
         [] event.kind = "Entry" ->
              {OnEntry(a, event.id, event.line, over, trimmed) :
                 over \in BOOLEAN,
                 trimmed \in IF a.attempt_dump THEN {FALSE} ELSE BOOLEAN}
         [] OTHER -> {OnExited(a, event.id, event.clean)}

HandleEvent ==
  /\ at = "logic"
  /\ queue # <<>>
  /\ app' \in Handled(app, Head(queue))
  /\ queue' = Tail(queue)
  /\ UNCHANGED <<available, at, child>>

EndLogic(next) ==
  /\ at = "logic"
  /\ Advance(app)
  /\ at' = next
  /\ UNCHANGED available

\* A discovery that succeeded: what was asked for stays, and may start now.
Discover ==
  /\ at = "logic"
  /\ \E devices \in Discoveries : available' = devices /\ AdvanceWith(app, devices)
  /\ UNCHANGED at

NoAction == at = "ui" /\ at' = "logic" /\ UNCHANGED <<app, available, child, queue>>

\* A user action at the end of a frame.
ByUser(action) == at = "ui" /\ at' = "logic" /\ UNCHANGED available /\ action

Sets(a) == app' = a /\ UNCHANGED channel

SwitchDevice(device) ==
  /\ device # app.selected
  /\ Advance(StartAsked(Switched(app, device)))

StartButton ==
  /\ ~Capturing(app.ctl)
  /\ ~IsStopping(app.ctl)
  /\ Ready(app, available)
  /\ Advance(StartAsked(app))

PauseButton ==
  /\ Capturing(app.ctl)
  /\ Sets(SetIntent(app, "Paused", FALSE))

CloseButton ==
  /\ app.selected # NoDevice
  /\ Sets(CloseCapture(app))

\* apply_buffers with another scope or other buffers.
ApplySettings(dump) ==
  LET a == [app EXCEPT !.dump = dump, !.reset_budget = TRUE] IN
  IF ~Capturing(app.ctl) THEN Sets(a)
  ELSE Advance(IF app.selected = NoDevice THEN a ELSE SetIntent(a, app.selected, TRUE))

\* The button is shown while the capture state is an error.
RetryButton ==
  /\ Status(app.ctl) = "Failed"
  /\ IF app.selected = NoDevice THEN Advance(app)
     ELSE Advance(SetIntent([app EXCEPT !.reset_budget = TRUE], app.selected, TRUE))

ClearView ==
  /\ ~app.document
  /\ app.view # <<>>
  /\ Sets(Cleared(app))

UserAction ==
  \/ \E device \in Target : ByUser(SwitchDevice(device))
  \/ ByUser(StartButton)
  \/ ByUser(PauseButton)
  \/ ByUser(CloseButton)
  \/ \E dump \in Scopes : ByUser(ApplySettings(dump))
  \/ ByUser(RetryButton)
  \/ ByUser(ClearView)

ChildActs == \E i \in Id : ChildStep(i) /\ UNCHANGED <<app, available, at>>

Tick ==
  /\ app' = [app EXCEPT !.ctl = Elapse(app.ctl)]
  /\ UNCHANGED <<available, at, child, queue>>

Next ==
  \/ HandleEvent
  \/ EndLogic("ui")
  \/ Discover
  \/ NoAction
  \/ UserAction
  \/ ChildActs
  \/ Tick

Spec == Init /\ [][Next]_vars

\* The drain worker kills a process that was told to stop or whose reader
\* ended, every 25 ms until it is gone.
Killed(i) ==
  child[i].drain = "works" /\ ((app.handle = i /\ app.stopped) \/ child[i].reader = "done")

-------------------------------------------------------------------------------
(* Properties *)

TypeOK ==
  /\ app \in AppState
  /\ available \in SUBSET Target
  /\ at \in {"logic", "files", "ui"}
  /\ ChannelType(Id)

\* The handle is the controller's attempt, and every process that runs is the one
\* it stops: no order of starts, failed starts, stops and late exits loses a child
\* or runs two (advance_capture, halt_capture, Exited).  The exception is a process
\* whose start failed and that could not be killed either: nobody holds it, and
\* nothing it writes is shown, while captures come and go beside it
\* (failed_logcat_start).
EveryChildIsHeld ==
  /\ app.handle = ActiveId(app.ctl)
  /\ \A i \in Id : child[i].proc = "alive" => (app.handle = i <=> ~Abandoned(i))
  /\ \A k \in DOMAIN app.view : ~Abandoned(app.view[k].attempt)

OneSource ==
  \A k \in DOMAIN app.view :
    /\ app.view[k].source = app.session.id
    /\ app.view[k].device = app.retained

\* All records shown come from attempts that were started for the live session
\* and read the retained device, whatever was switched while an old attempt
\* was still sending (switch_device, accepts_capture_data).  They are numbered
\* without gap or repetition, a segment is one attempt, and within it no line
\* is missing: stops, reconnects, refused records and exhausted counters only
\* ever cut off an end (next_record).
ViewHasNoHoles ==
  /\ OneSource
  /\ app.view # <<>> => app.view[Len(app.view)].seq = app.session.seq
  /\ \A k \in 2 .. Len(app.view) :
       LET last == app.view[k - 1]
           next == app.view[k]
       IN /\ next.seq = last.seq + 1
          /\ IF next.attempt = last.attempt
             THEN next.segment = last.segment /\ next.line = last.line + 1
             ELSE next.segment > last.segment /\ next.attempt > last.attempt

\* Between two requests of the user one budget counts every record a finite
\* snapshot adds, over retries too: no step of the frame reopens or refills
\* it, and a spent one admits nothing (admit, advance_capture).
SnapshotIsBounded ==
  [][at = "logic" /\ ~app.reset_budget =>
       /\ app.budget.open =>
            /\ app'.budget.open
            /\ app'.budget.records >= app.budget.records
            /\ app.budget.spent => app'.budget.spent
       /\ app.attempt_dump /\ app'.session.seq > app.session.seq =>
            /\ app.budget.open /\ ~app.budget.spent
            /\ app'.budget.records = app.budget.records + 1]_vars

\* A stop the user asked for ends, with a full channel and readers blocked in
\* it too: reaping never waits for the consumer (start_logcat_with_scope).
StopEnds == IsStopping(app.ctl) ~> ~IsStopping(app.ctl)

\* A wanted capture of a device that is there runs, or reports a failure.
WantedRuns ==
  (Capturing(app.ctl) /\ Ready(app, available)) ~>
    \/ Status(app.ctl) \in {"Running", "Failed"}
    \/ ~Capturing(app.ctl) \/ ~Ready(app, available)
===============================================================================
