-------------------------- MODULE LiveCaptureProofs ---------------------------
(***************************************************************************)
(* The desktop capture and the replacement of its view, for every number   *)
(* of devices, attempts, lines, counters and queue length; then, behind    *)
(* them, the controller of such a capture alone and beside the process     *)
(* queries.                                                                *)
(***************************************************************************)
EXTENDS SourceReplace, ProcessHints, CaptureLemmas, FiniteSetTheorems

-------------------------------------------------------------------------------
(* The invariants *)

\* The controller's attempt, the handle and the processes belong together; a process
\* without a drain worker is what a failed start left.
Held(a, ch, q) ==
  /\ a \in AppState /\ Sound(a.ctl)
  /\ a.handle = ActiveId(a.ctl)
  /\ ChannelInv(ch, q, a.ctl.next_id)
  /\ a.handle # NoId => ch[a.handle].drain # "none"
  /\ \A i \in Id : ch[i].proc = "alive" /\ ch[i].drain # "none" => a.handle = i

\* A budget belongs to the scope it was opened for, and is spent when it is full.
Budgeted(a) ==
  /\ a.budget.records = RecordLimit => a.budget.spent
  /\ ~a.reset_budget => a.attempt_dump = a.dump /\ a.budget.open = a.dump

LastShown(a) == a.view[Len(a.view)]

\* The record next may be shown after the record last.
Continues(last, next) ==
  /\ next.seq = last.seq + 1
  /\ IF next.attempt = last.attempt
     THEN next.segment = last.segment /\ next.line = last.line + 1
     ELSE next.segment > last.segment /\ next.attempt > last.attempt

\* The last record shown is of the segment that is being read, or of a former one.
Shown(a) ==
  /\ a.document => a.view = <<>>
  /\ a.session.started => a.session.segment # 0
  /\ \A k \in DOMAIN a.view :
       a.view[k].source = a.session.id /\ a.view[k].device = a.retained
  /\ \A k \in 2 .. Len(a.view) : Continues(a.view[k - 1], a.view[k])
  /\ a.view # <<>> =>
       LET last == LastShown(a) IN
       /\ last.seq = a.session.seq
       /\ last.attempt <= a.ctl.next_id /\ last.segment <= a.session.segment
       /\ HasAttempt(a.ctl) =>
            IF last.attempt = ActiveId(a.ctl)
            THEN /\ a.session.started /\ last.segment = a.session.segment
                 /\ last.source = a.owner /\ last.device = HeldFor(a.ctl)
            ELSE a.session.started => last.segment < a.session.segment

\* A record that arrives now is shown.
Accepting(a) ==
  /\ HasAttempt(a.ctl)
  /\ Accepts(a, ActiveId(a.ctl))
  /\ CanRecord(a.session)
  /\ ~(a.attempt_dump /\ a.budget.open /\ a.budget.spent)

\* While records are shown, the lines after the last one shown are on their way, and
\* the attempts they are of have, or had, a drain worker.
Lined(a, ch, q) ==
  /\ \A k \in DOMAIN a.view : ch[a.view[k].attempt].drain # "none"
  /\ Flowing(ch, q)
  /\ Accepting(a) /\ a.view # <<>> /\ LastShown(a).attempt = ActiveId(a.ctl)
       => OnItsWay(ActiveId(a.ctl), LastShown(a).line, ch, q)

\* Of a capture that follows, the last record shown of a former attempt is that
\* attempt's last line.
Followed(a, ch, q) ==
  /\ ~a.dump /\ ~a.attempt_dump
  /\ a.view # <<>> /\ a.session.seq < MaxSeq /\ LastShown(a).attempt # ActiveId(a.ctl)
       => Exhausted(LastShown(a).attempt, LastShown(a).line, ch)

Captured(a, ch, q) ==
  /\ Held(a, ch, q) /\ Budgeted(a) /\ Shown(a) /\ Lined(a, ch, q)
  /\ TRUE \notin Scopes => Followed(a, ch, q)

CaptureInv ==
  /\ Captured(app, child, queue)
  /\ available \in SUBSET Target /\ at \in {"logic", "files", "ui"}
  /\ Len(queue) <= QueueCap

\* No capture runs or is wanted behind a file, and none of its records are shown.
Filed(a) ==
  a.document => a.handle = NoId /\ a.view = <<>> /\ ~Capturing(a.ctl) /\ a.selected = NoDevice

\* From the choice to replace the view to the replacement, by whatever way.
Replacing(f) == f.replace # "none" \/ f.dialog = "before" \/ f.job.action = "before"

\* The files are asked for, worked on and replaced one after the other.
Ordered(f) ==
  /\ f \in FilesState
  /\ f.job.action = "none" => f.job = NoJob
  /\ f.dialog # "none" => f.job.action = "none" /\ f.replace = "none"
  /\ f.job.action # "none" => f.replace = "none"
  /\ f.candidate => f.dialog \in {"none", "before"} /\ f.job.action \in {"none", "before"}
  /\ Replacing(f) => f.candidate

\* While a replacement goes on nothing is captured, and what is saved before it stays.
Waits(a, f) ==
  /\ Replacing(f) => ~Capturing(a.ctl) /\ a.selected = NoDevice
  /\ f.dialog = "before" \/ f.job.action = "before" => a.handle = NoId
  /\ f.job.action = "before" => f.job.saved = a.view

FilesInv(a, f) == Ordered(f) /\ Filed(a) /\ Waits(a, f)

ReplaceInv == CaptureInv /\ FilesInv(app, files)

-------------------------------------------------------------------------------
(* The fields of the application *)

AppDomain ==
  {"ctl", "handle", "stopped", "selected", "retained", "document", "session", "owner",
   "view", "dump", "attempt_dump", "reset_budget", "budget"}

Budget == [open : BOOLEAN, records : 0 .. RecordLimit, spent : BOOLEAN]

\* The fields of a, one by one.
Fields(a) ==
  /\ DOMAIN a = AppDomain
  /\ a.ctl \in ControllerState /\ a.handle \in Id \cup {NoId} /\ a.stopped \in BOOLEAN
  /\ a.selected \in Target \cup {NoDevice} /\ a.retained \in Target \cup {NoDevice}
  /\ a.document \in BOOLEAN /\ a.session \in SessionState(SessionId)
  /\ a.owner \in SessionId \cup {0} /\ a.view \in Seq(ViewRecord)
  /\ a.dump \in BOOLEAN /\ a.attempt_dump \in BOOLEAN /\ a.reset_budget \in BOOLEAN
  /\ a.budget \in Budget

LEMMA AppFields ==
  ASSUME NEW a \in AppState
  PROVE  Fields(a)
  BY DEF AppState, Fields, AppDomain, Budget
-------------------------------------------------------------------------------
(* What a handler that takes no event leaves as it was *)

Formed(a) == a \in AppState /\ Sound(a.ctl)

\* b holds on to the child of a.
HoldsOn(a, b) ==
  /\ Formed(b)
  /\ b.handle = a.handle
  /\ ActiveId(b.ctl) = ActiveId(a.ctl) /\ HeldFor(b.ctl) = HeldFor(a.ctl)
  /\ b.ctl.next_id = a.ctl.next_id

\* b shows what a shows, or nothing.
ShowsOn(a, b) ==
  /\ b.attempt_dump = a.attempt_dump
  /\ b.dump = a.dump \/ b.dump \in Scopes
  /\ \/ /\ b.view = <<>>
        /\ b.session.segment # 0 \/ ~b.session.started \/ b.session = a.session
     \/ /\ b.view = a.view /\ b.session = a.session /\ b.owner = a.owner
        /\ b.retained = a.retained /\ b.document = a.document
        /\ b.budget.open = a.budget.open
        /\ a.budget.spent => b.budget.spent

Keeps(a, b) == HoldsOn(a, b) /\ ShowsOn(a, b) /\ (Budgeted(a) => Budgeted(b))

\* A step that is about the capture and leaves what is shown and chosen.
Untouched(a, b) ==
  /\ b.selected = a.selected /\ b.retained = a.retained /\ b.document = a.document
  /\ b.view = a.view /\ b.session = a.session /\ b.handle = a.handle
  /\ b.reset_budget = a.reset_budget /\ b.dump = a.dump
  /\ b.budget.open = a.budget.open /\ b.budget.records >= a.budget.records
  /\ a.budget.spent => b.budget.spent

LEMMA BudgetFields ==
  ASSUME NEW a, Formed(a)
  PROVE  a.budget \in Budget /\ a.budget.records \in Nat /\ a.budget.open \in BOOLEAN
  BY AppFields, LiveCaptureAssumption DEF Formed, Fields, Budget

LEMMA KeepsItself ==
  ASSUME NEW a, Formed(a)
  PROVE  Keeps(a, a) /\ Untouched(a, a)
  BY BudgetFields DEF Keeps, HoldsOn, ShowsOn, Untouched

LEMMA KeepsTwice ==
  ASSUME NEW a, Formed(a), NEW b, NEW c, Keeps(a, b), Keeps(b, c)
  PROVE  Keeps(a, c) /\ (Untouched(a, b) /\ Untouched(b, c) => Untouched(a, c))
  BY BudgetFields DEF Keeps, HoldsOn, ShowsOn, Untouched

WithControl(a, c, stopped) == [a EXCEPT !.ctl = c, !.stopped = stopped]

OtherControl(a, c) == [a EXCEPT !.ctl = c]

LEMMA ControlAlone ==
  ASSUME NEW a, Formed(a), NEW c, NEW b, b = OtherControl(a, c)
  PROVE  \E x \in BOOLEAN : b = WithControl(a, c, x)
<1>1. a.stopped \in BOOLEAN /\ b = WithControl(a, c, a.stopped)
  BY AppFields DEF Formed, Fields, AppDomain, AppState, WithControl, OtherControl
<1> QED
  BY <1>1

\* Another controller that looks the same to the caller, and a stop flag.
LEMMA ControlKeeps ==
  ASSUME NEW a, Formed(a), NEW c, Sound(c), NEW x \in BOOLEAN,
         ActiveId(c) = ActiveId(a.ctl), HeldFor(c) = HeldFor(a.ctl),
         c.next_id = a.ctl.next_id,
         NEW b, b = WithControl(a, c, x)
  PROVE  Keeps(a, b) /\ Untouched(a, b) /\ b.ctl = c
<1>1. c \in ControllerState
  BY DEF Sound
<1>2. /\ b.ctl = c /\ b.handle = a.handle /\ b.view = a.view /\ b.session = a.session
      /\ b.owner = a.owner /\ b.retained = a.retained /\ b.document = a.document
      /\ b.budget = a.budget /\ b.attempt_dump = a.attempt_dump /\ b.dump = a.dump
      /\ b.reset_budget = a.reset_budget /\ b.selected = a.selected
  BY AppFields DEF Formed, Fields, AppDomain, WithControl
<1>3. b \in AppState
  BY <1>1 DEF Formed, AppState, WithControl
<1> QED
  BY <1>2, <1>3, BudgetFields DEF Keeps, HoldsOn, ShowsOn, Formed, Budgeted, Untouched

LEMMA SetIntentKeeps ==
  ASSUME NEW a, Formed(a), NEW intent \in Intent, NEW b,
         \E restart \in BOOLEAN : b = SetIntent(a, intent, restart)
  PROVE  Keeps(a, b) /\ Untouched(a, b) /\ b.ctl.intent = intent
<1> PICK restart \in BOOLEAN : b = SetIntent(a, intent, restart)
  OBVIOUS
<1> DEFINE c == Request(a.ctl, intent, restart)
           x == a.stopped \/ (RequestStops(a.ctl, intent, restart) /\ a.handle # NoId)
<1>1. Sound(c) /\ Asked(a.ctl, c, intent)
  BY RequestIsSound, RequestView DEF Formed
<1>2. x \in BOOLEAN
  BY DEF RequestStops, HasAttempt, IsActive, IsStopping
<1>3. b = WithControl(a, c, x)
  BY DEF SetIntent, WithControl
<1> HIDE DEF c, x
<1> QED
  BY <1>1, <1>2, <1>3, ControlKeeps DEF Asked

LEMMA HaltKeeps ==
  ASSUME NEW a, Formed(a), a.handle = ActiveId(a.ctl), NEW b, b = HaltCapture(a)
  PROVE  Keeps(a, b) /\ Untouched(a, b) /\ b.ctl.intent = "Paused"
<1> DEFINE c == Halt(a.ctl)
<1>1. Sound(c) /\ Asked(a.ctl, c, "Paused")
  BY HaltIsSound, HaltView DEF Formed
<1>2. RequestStops(a.ctl, "Paused", FALSE) => a.handle # NoId
  BY HolderIsId DEF RequestStops, Formed, HasAttempt, NoId
<1> HIDE DEF c
<1>3. b = OtherControl(a, c) \/ b = WithControl(a, c, TRUE)
  BY <1>2 DEF HaltCapture, OtherControl, WithControl, c
<1>4. b = OtherControl(a, c) => \E x \in BOOLEAN : b = WithControl(a, c, x)
  BY ControlAlone
<1>5. ActiveId(c) = ActiveId(a.ctl) /\ HeldFor(c) = HeldFor(a.ctl) /\ c.next_id = a.ctl.next_id
     /\ c.intent = "Paused"
  BY <1>1 DEF Asked
<1>6. PICK x \in BOOLEAN : b = WithControl(a, c, x)
  BY <1>3, <1>4
<1> QED
  BY <1>1, <1>5, <1>6, ControlKeeps

LEMMA StopIfLimitedKeeps ==
  ASSUME NEW a, Formed(a), NEW b, b = StopIfLimited(a)
  PROVE  Keeps(a, b) /\ Untouched(a, b) /\ (Capturing(b.ctl) => Capturing(a.ctl))
<1>1. CASE b = a
  BY <1>1, KeepsItself
<1>2. CASE b = SetIntent(a, "Paused", FALSE) /\ Capturing(a.ctl)
  <2>1. "Paused" \in Intent
    BY DEF Intent
  <2>2. \E restart \in BOOLEAN : b = SetIntent(a, "Paused", restart)
    BY <1>2, Zenon
  <2>3. Keeps(a, b) /\ Untouched(a, b)
    BY <2>1, <2>2, SetIntentKeeps
  <2> QED
    BY <1>2, <2>3
<1> QED
  BY <1>1, <1>2 DEF StopIfLimited

LEMMA StopIfLimitedBudget ==
  ASSUME NEW a, Formed(a), NEW b, b = StopIfLimited(a)
  PROVE  b.budget = a.budget
<1>1. Fields(a)
  BY AppFields DEF Formed
<1>2. \A restart : SetIntent(a, "Paused", restart).budget = a.budget
  BY <1>1 DEF SetIntent, Fields, AppDomain
<1> QED
  BY <1>2 DEF StopIfLimited

\* The budget is spent: nothing is left of it.
Spent(a) == [a EXCEPT !.budget.spent = TRUE]

LEMMA SpentKeeps ==
  ASSUME NEW a, Formed(a), NEW b, b = Spent(a)
  PROVE  Keeps(a, b) /\ Untouched(a, b) /\ b.ctl = a.ctl /\ b.budget.spent
<1> DEFINE d == [a.budget EXCEPT !.spent = TRUE]
<1>1. Fields(a) /\ b \in AppState
  BY AppFields DEF Formed, AppState, Spent
<1>2. /\ d.open = a.budget.open /\ d.records = a.budget.records /\ d.spent = TRUE
  BY <1>1 DEF Fields, Budget
<1>3. b = [a EXCEPT !.budget = d]
  BY DEF Spent
<1> HIDE DEF d
<1>4. /\ b.ctl = a.ctl /\ b.handle = a.handle /\ b.view = a.view /\ b.session = a.session
      /\ b.owner = a.owner /\ b.retained = a.retained /\ b.document = a.document
      /\ b.attempt_dump = a.attempt_dump /\ b.dump = a.dump
      /\ b.reset_budget = a.reset_budget /\ b.selected = a.selected /\ b.budget = d
  BY <1>1, <1>3 DEF Fields, AppDomain
<1> QED
  BY <1>1, <1>2, <1>4, BudgetFields DEF Keeps, HoldsOn, ShowsOn, Formed, Budgeted, Untouched

\* A deadline that has passed and the stop it leads to.
LEMMA CheckedKeeps ==
  ASSUME NEW a, Formed(a), NEW time_up \in BOOLEAN, NEW b, b = Checked(a, time_up)
  PROVE  Keeps(a, b) /\ Untouched(a, b) /\ (Capturing(b.ctl) => Capturing(a.ctl))
<1> PICK c : /\ c = a \/ c = Spent(a)
             /\ b = StopIfLimited(c)
  BY DEF Checked, Spent
<1>1. Keeps(a, c) /\ Untouched(a, c) /\ c.ctl = a.ctl
  BY KeepsItself, SpentKeeps
<1>2. Keeps(c, b) /\ Untouched(c, b) /\ (Capturing(b.ctl) => Capturing(c.ctl))
  BY <1>1, StopIfLimitedKeeps DEF Keeps, HoldsOn
<1> QED
  BY <1>1, <1>2, KeepsTwice

\* A poll that starts nothing, and a unit of time.
LEMMA IdlePollKeeps ==
  ASSUME NEW a, Formed(a), NEW ready \in BOOLEAN, ~PollStarts(a.ctl, ready),
         NEW b, b = OtherControl(a, Poll(a.ctl, ready))
  PROVE  Keeps(a, b) /\ Untouched(a, b) /\ b.ctl.intent = a.ctl.intent
<1> DEFINE c == Poll(a.ctl, ready)
<1>1. c.next_id = a.ctl.next_id
  <2>1. \A p : [a.ctl EXCEPT !.phase = p].next_id = a.ctl.next_id
    BY PhaseChange DEF Formed
  <2> QED
    BY <2>1 DEF Poll
<1>2. Sound(c) /\ (SameView(a.ctl, c) \/ Granted(a.ctl, c))
  BY PollIsSound, PollView DEF Formed
<1>3. a.ctl.next_id \in Nat
  BY SoundFields DEF Formed
<1> HIDE DEF c
<1>4. /\ ActiveId(c) = ActiveId(a.ctl) /\ HeldFor(c) = HeldFor(a.ctl)
      /\ c.intent = a.ctl.intent
  BY <1>1, <1>2, <1>3 DEF SameView, Granted
<1>5. PICK x \in BOOLEAN : b = WithControl(a, c, x)
  BY ControlAlone DEF c
<1>6. Keeps(a, b) /\ Untouched(a, b) /\ b.ctl = c
  BY <1>1, <1>2, <1>4, <1>5, ControlKeeps
<1> QED
  BY <1>4, <1>6

LEMMA ElapseKeeps ==
  ASSUME NEW a, Formed(a), NEW b, b = OtherControl(a, Elapse(a.ctl))
  PROVE  Keeps(a, b) /\ Untouched(a, b) /\ b.ctl.intent = a.ctl.intent
<1> DEFINE c == Elapse(a.ctl)
<1>1. Sound(c) /\ SameView(a.ctl, c)
  BY ElapseIsSound, ElapseView DEF Formed
<1> HIDE DEF c
<1>2. PICK x \in BOOLEAN : b = WithControl(a, c, x)
  BY ControlAlone DEF c
<1>3. ActiveId(c) = ActiveId(a.ctl) /\ HeldFor(c) = HeldFor(a.ctl) /\ c.next_id = a.ctl.next_id
  BY <1>1 DEF SameView
<1>4. Keeps(a, b) /\ Untouched(a, b) /\ b.ctl = c
  BY <1>1, <1>2, <1>3, ControlKeeps
<1> QED
  BY <1>1, <1>4 DEF SameView

\* A view that is emptied, and a source of its own.
LEMMA ClearedKeeps ==
  ASSUME NEW a, Formed(a), NEW b, b = Cleared(a)
  PROVE  Keeps(a, b) /\ b.ctl = a.ctl /\ b.view = <<>>
         /\ b.selected = a.selected /\ b.document = a.document /\ b.handle = a.handle
<1>1. /\ b.ctl = a.ctl /\ b.handle = a.handle /\ b.view = <<>> /\ b.session = a.session
      /\ b.owner = a.owner /\ b.retained = a.retained /\ b.document = a.document
      /\ b.attempt_dump = a.attempt_dump /\ b.dump = a.dump /\ b.budget = a.budget
      /\ b.reset_budget = a.reset_budget /\ b.selected = a.selected
  BY AppFields DEF Formed, Fields, AppDomain, Cleared
<1>2. <<>> \in Seq(ViewRecord)
  BY EmptySeq
<1>3. b \in AppState
  BY <1>2 DEF Formed, AppState, Cleared
<1> QED
  BY <1>1, <1>3 DEF Keeps, HoldsOn, ShowsOn, Formed, Budgeted

LEMMA NewSessionFields ==
  ASSUME NEW x, NEW y
  PROVE  LET s == NewSession(FreshSession({x, y})) IN
         s \in SessionState(SessionId) /\ ~s.started
<1> DEFINE id == FreshSession({x, y})
<1>1. \E k \in SessionId : k \notin {x, y}
  BY DEF SessionId
<1>2. id \in SessionId
  BY <1>1 DEF FreshSession
<1> HIDE DEF id
<1>3. NewSession(id) \in SessionState(SessionId) /\ ~NewSession(id).started
  BY <1>2, SessionAssumption DEF NewSession, SessionOf, SessionState
<1> QED
  BY <1>3 DEF id

LEMMA NewSourceKeeps ==
  ASSUME NEW a, Formed(a), NEW b, b = NewSource(a)
  PROVE  Keeps(a, b) /\ b.ctl = a.ctl /\ b.view = <<>>
         /\ b.selected = a.selected /\ b.document = a.document /\ b.handle = a.handle
<1> DEFINE c == Cleared(a)
           s == NewSession(FreshSession({a.session.id, a.owner}))
<1>1. /\ Keeps(a, c) /\ c.ctl = a.ctl /\ c.view = <<>>
      /\ c.selected = a.selected /\ c.document = a.document /\ c.handle = a.handle
  BY ClearedKeeps
<1>2. s \in SessionState(SessionId) /\ ~s.started
  BY NewSessionFields
<1>3. b = [c EXCEPT !.session = s, !.budget = NoBudget, !.reset_budget = TRUE]
  BY DEF NewSource
<1> HIDE DEF c, s
<1>4. NoBudget \in Budget /\ NoBudget.records = 0
  BY LiveCaptureAssumption DEF NoBudget, Budget
<1>5. c \in AppState
  BY <1>1 DEF Keeps, HoldsOn, Formed
<1>6. /\ b.ctl = c.ctl /\ b.handle = c.handle /\ b.view = c.view /\ b.session = s
      /\ b.attempt_dump = c.attempt_dump /\ b.dump = c.dump /\ b.budget = NoBudget
      /\ b.reset_budget = TRUE /\ b.selected = c.selected /\ b.document = c.document
  BY <1>3, <1>5, AppFields DEF Fields, AppDomain
<1>7. b \in AppState
  BY <1>2, <1>3, <1>4, <1>5 DEF AppState, Budget
<1>8. Budgeted(b)
  BY <1>4, <1>6, LiveCaptureAssumption DEF Budgeted
<1>9. Keeps(c, b)
  BY <1>1, <1>2, <1>6, <1>7, <1>8 DEF Keeps, HoldsOn, ShowsOn, Formed
<1> QED
  BY <1>1, <1>6, <1>9, KeepsTwice

\* The device is chosen: with its history, or as a source of its own.
LEMMA SwitchedKeeps ==
  ASSUME NEW a, Formed(a), NEW device \in Target, NEW b, b = Switched(a, device)
  PROVE  Keeps(a, b) /\ b.ctl = a.ctl /\ b.selected = device /\ ~b.document
         /\ b.handle = a.handle
<1> DEFINE c == [a EXCEPT !.document = FALSE, !.retained = device, !.selected = device]
<1>1. /\ c.ctl = a.ctl /\ c.handle = a.handle /\ c.view = a.view /\ c.session = a.session
      /\ c.owner = a.owner /\ c.retained = device /\ c.document = FALSE
      /\ c.attempt_dump = a.attempt_dump /\ c.dump = a.dump /\ c.budget = a.budget
      /\ c.reset_budget = a.reset_budget /\ c.selected = device
  BY AppFields DEF Formed, Fields, AppDomain
<1>2. c \in AppState
  BY DEF Formed, AppState
<1>3. b = IF SameHistory(a, device) THEN c ELSE NewSource(c)
  BY DEF Switched
<1> HIDE DEF c
<1>4. Formed(c)
  BY <1>1, <1>2 DEF Formed
<1>5. CASE SameHistory(a, device)
  <2>1. a.document = FALSE
    BY <1>5, AppFields DEF SameHistory, Formed, Fields
  <2> QED
    BY <1>1, <1>3, <1>4, <1>5, <2>1 DEF SameHistory, Keeps, HoldsOn, ShowsOn, Budgeted
<1>6. CASE ~SameHistory(a, device)
  <2>1. /\ Keeps(c, b) /\ b.ctl = c.ctl /\ b.view = <<>>
        /\ b.selected = c.selected /\ b.document = c.document /\ b.handle = c.handle
    BY <1>3, <1>4, <1>6, NewSourceKeeps
  <2>2. Keeps(a, b)
    BY <1>1, <2>1 DEF Keeps, HoldsOn, ShowsOn, Budgeted
  <2> QED
    BY <1>1, <2>1, <2>2
<1> QED
  BY <1>5, <1>6

Reset(a, dump) == [a EXCEPT !.dump = dump, !.reset_budget = TRUE]

\* The next start opens a budget of its own, for the scope that is set.
LEMMA ResetKeeps ==
  ASSUME NEW a, Formed(a), NEW dump, dump = a.dump \/ dump \in Scopes,
         NEW b, b = Reset(a, dump)
  PROVE  Keeps(a, b) /\ b.ctl = a.ctl /\ b.selected = a.selected /\ b.document = a.document
         /\ b.view = a.view /\ b.handle = a.handle
<1>1. /\ b.ctl = a.ctl /\ b.handle = a.handle /\ b.view = a.view /\ b.session = a.session
      /\ b.owner = a.owner /\ b.retained = a.retained /\ b.document = a.document
      /\ b.attempt_dump = a.attempt_dump /\ b.dump = dump /\ b.budget = a.budget
      /\ b.reset_budget = TRUE /\ b.selected = a.selected
  BY AppFields DEF Formed, Fields, AppDomain, Reset
<1>2. dump \in BOOLEAN
  BY AppFields, LiveCaptureAssumption DEF Formed, Fields
<1>3. b \in AppState
  BY <1>2 DEF Formed, AppState, Reset
<1> QED
  BY <1>1, <1>3 DEF Keeps, HoldsOn, ShowsOn, Formed, Budgeted

LEMMA StartAskedKeeps ==
  ASSUME NEW a, Formed(a), a.selected \in Target, NEW b, b = StartAsked(a)
  PROVE  Keeps(a, b) /\ b.ctl.intent = a.selected /\ b.selected = a.selected
         /\ b.document = a.document /\ b.handle = a.handle /\ b.view = a.view
<1> PICK c : c = Reset(a, a.dump)
  OBVIOUS
<1>1. [a EXCEPT !.reset_budget = TRUE] = c
  BY AppFields DEF Formed, Fields, AppDomain, AppState, Reset
<1>2. /\ Keeps(a, c) /\ c.ctl = a.ctl /\ c.selected = a.selected
      /\ c.document = a.document /\ c.view = a.view /\ c.handle = a.handle
  BY ResetKeeps
<1>3. b = SetIntent(c, a.selected, FALSE)
  BY <1>1 DEF StartAsked
<1>4. \E restart \in BOOLEAN : b = SetIntent(c, a.selected, restart)
  BY <1>3, Zenon
<1>5. Formed(c) /\ a.selected \in Intent
  BY <1>2 DEF Keeps, HoldsOn, Intent
<1>6. Keeps(c, b) /\ Untouched(c, b) /\ b.ctl.intent = a.selected
  BY <1>4, <1>5, SetIntentKeeps
<1>7. Keeps(a, b)
  BY <1>2, <1>6, KeepsTwice
<1> QED
  BY <1>2, <1>6, <1>7 DEF Untouched

LEMMA CloseCaptureKeeps ==
  ASSUME NEW a, Formed(a), NEW b, b = CloseCapture(a)
  PROVE  Keeps(a, b) /\ b.selected = NoDevice /\ ~Capturing(b.ctl)
         /\ b.document = a.document /\ b.handle = a.handle /\ b.view = a.view
<1> PICK c : c = SetIntent(a, "Closed", FALSE)
  OBVIOUS
<1>1. \E restart \in BOOLEAN : c = SetIntent(a, "Closed", restart)
  BY Zenon
<1>2. "Closed" \in Intent
  BY DEF Intent
<1>3. Keeps(a, c) /\ Untouched(a, c) /\ c.ctl.intent = "Closed"
  BY <1>1, <1>2, SetIntentKeeps
<1>4. b = [c EXCEPT !.selected = NoDevice]
  BY DEF CloseCapture
<1>5. c \in AppState
  BY <1>3 DEF Keeps, HoldsOn, Formed
<1>6. /\ b.ctl = c.ctl /\ b.handle = c.handle /\ b.view = c.view /\ b.session = c.session
      /\ b.owner = c.owner /\ b.retained = c.retained /\ b.document = c.document
      /\ b.attempt_dump = c.attempt_dump /\ b.dump = c.dump /\ b.budget = c.budget
      /\ b.reset_budget = c.reset_budget /\ b.selected = NoDevice
  BY <1>4, <1>5, AppFields DEF Fields, AppDomain
<1>7. b \in AppState
  BY <1>4, <1>5 DEF AppState
<1>8. Keeps(a, b)
  <2>1. HoldsOn(a, b)
    BY <1>3, <1>6, <1>7 DEF Keeps, HoldsOn, Formed
  <2>2. ShowsOn(a, b)
    BY <1>3, <1>6 DEF Keeps, ShowsOn
  <2>3. Budgeted(c) => Budgeted(b)
    BY <1>6 DEF Budgeted
  <2> QED
    BY <1>3, <2>1, <2>2, <2>3 DEF Keeps
<1>9. ~Capturing(b.ctl)
  BY <1>3, <1>6, ControllerAssumption DEF Capturing
<1> QED
  BY <1>3, <1>6, <1>8, <1>9 DEF Untouched

\* An attempt whose stream started: the first time it opens a segment.
Segmented(a) == [a EXCEPT !.session = StreamStarted(a.session)]

\* What OnStarted makes of the application.
LEMMA OnStartedCases ==
  ASSUME NEW a, Formed(a), a.handle = ActiveId(a.ctl), NEW id, NEW b, b = OnStarted(a, id)
  PROVE  \/ Keeps(a, b) /\ Untouched(a, b) /\ (Capturing(b.ctl) => Capturing(a.ctl))
         \/ \E c : /\ Keeps(a, c) /\ Untouched(a, c) /\ c.ctl.intent = a.ctl.intent
                   /\ CanStartStream(c.session) /\ b = Segmented(c)
<1> DEFINE d == Started(a.ctl, id)
<1> PICK c : c = OtherControl(a, d)
  OBVIOUS
<1>1. Sound(d) /\ SameView(a.ctl, d)
  BY StartedIsSound, AgedView DEF Formed, Started, StartedCounts, SameView
<1>2. b = c \/ (CanStartStream(c.session) /\ b = Segmented(c)) \/ b = HaltCapture(c)
  BY DEF OnStarted, OtherControl, Segmented
<1> HIDE DEF d
<1>3. PICK x \in BOOLEAN : c = WithControl(a, d, x)
  BY ControlAlone
<1>4. /\ ActiveId(d) = ActiveId(a.ctl) /\ HeldFor(d) = HeldFor(a.ctl)
      /\ d.next_id = a.ctl.next_id /\ d.intent = a.ctl.intent
  BY <1>1 DEF SameView
<1>5. Keeps(a, c) /\ Untouched(a, c) /\ c.ctl = d
  BY <1>1, <1>3, <1>4, ControlKeeps
<1>6. CASE b = HaltCapture(c)
  <2>1. Formed(c) /\ c.handle = ActiveId(c.ctl)
    BY <1>5 DEF Keeps, HoldsOn
  <2>2. Keeps(c, b) /\ Untouched(c, b) /\ b.ctl.intent = "Paused"
    BY <1>6, <2>1, HaltKeeps
  <2>3. Keeps(a, b) /\ Untouched(a, b)
    BY <1>5, <2>2, KeepsTwice
  <2> QED
    BY <2>2, <2>3, ControllerAssumption DEF Capturing
<1>7. Capturing(c.ctl) => Capturing(a.ctl)
  BY <1>4, <1>5 DEF Capturing
<1>8. CASE CanStartStream(c.session) /\ b = Segmented(c)
  BY <1>4, <1>5, <1>8
<1> QED
  BY <1>2, <1>5, <1>6, <1>7, <1>8

-------------------------------------------------------------------------------
(* The invariants after such a handler *)

LEMMA RecordFields ==
  ASSUME NEW r \in ViewRecord
  PROVE  /\ r.seq \in Nat /\ r.segment \in Nat /\ r.attempt \in Id /\ r.attempt \in Nat
         /\ r.line \in Nat /\ r.line # 0
  BY SessionAssumption, LogcatChildAssumption, ControllerAssumption DEF ViewRecord, Id

LEMMA ViewFields ==
  ASSUME NEW a \in AppState
  PROVE  /\ a.view \in Seq(ViewRecord) /\ Len(a.view) \in Nat
         /\ DOMAIN a.view = 1 .. Len(a.view)
         /\ \A k \in DOMAIN a.view : a.view[k] \in ViewRecord
         /\ a.view = <<>> => Len(a.view) = 0
         /\ a.view # <<>> => /\ Len(a.view) \in DOMAIN a.view
                             /\ LastShown(a) \in ViewRecord
<1>1. a.view \in Seq(ViewRecord)
  BY AppFields DEF Fields
<1>2. /\ Len(a.view) \in Nat /\ DOMAIN a.view = 1 .. Len(a.view)
      /\ \A k \in DOMAIN a.view : a.view[k] \in ViewRecord
      /\ a.view = <<>> <=> Len(a.view) = 0
  BY <1>1, LenProperties, ElementOfSeq, EmptySeq
<1> QED
  BY <1>1, <1>2 DEF LastShown

LEMMA NothingShown ==
  ASSUME NEW a \in AppState, a.view = <<>>
  PROVE  /\ ~a.session.started \/ a.session.segment # 0 => Shown(a)
         /\ \A ch, q : Flowing(ch, q) => Lined(a, ch, q)
<1>1. Len(a.view) = 0 /\ DOMAIN a.view = {}
  BY ViewFields
<1> QED
  BY <1>1 DEF Shown, Lined

LEMMA KeepsCaptured ==
  ASSUME NEW a, NEW b, NEW ch, NEW q, Captured(a, ch, q), Keeps(a, b)
  PROVE  Captured(b, ch, q)
<1>1. Formed(a) /\ Formed(b) /\ HoldsOn(a, b) /\ ShowsOn(a, b)
  BY DEF Captured, Held, Keeps, HoldsOn, Formed
<1>2. Held(b, ch, q)
  BY <1>1 DEF Captured, Held, HoldsOn, Formed
<1>3. Budgeted(b)
  BY DEF Captured, Keeps
<1>4. HasAttempt(b.ctl) <=> HasAttempt(a.ctl)
  BY <1>1, HolderIsId DEF HoldsOn, Formed
<1>5. TRUE \notin Scopes => ~b.dump /\ ~b.attempt_dump
  BY <1>1, LiveCaptureAssumption DEF Captured, Followed, ShowsOn
<1>6. CASE b.view = <<>>
  <2>1. b.session.started => b.session.segment # 0
    BY <1>1, <1>6 DEF ShowsOn, Captured, Shown
  <2>2. Shown(b) /\ Lined(b, ch, q)
    BY <1>1, <1>6, <2>1, NothingShown DEF Captured, Lined, Formed
  <2> QED
    BY <1>2, <1>3, <1>5, <1>6, <2>2 DEF Captured, Followed
<1>7. CASE /\ b.view = a.view /\ b.session = a.session /\ b.owner = a.owner
           /\ b.retained = a.retained /\ b.document = a.document
           /\ b.budget.open = a.budget.open
           /\ a.budget.spent => b.budget.spent
  <2>1. LastShown(b) = LastShown(a)
    BY <1>7 DEF LastShown
  <2>2. Shown(b)
    BY <1>1, <1>4, <1>7, <2>1 DEF Captured, Shown, HoldsOn
  <2>3. Accepting(b) => Accepting(a)
    BY <1>1, <1>4, <1>7 DEF Accepting, Accepts, HoldsOn, ShowsOn, HeldFor
  <2>4. Lined(b, ch, q)
    BY <1>1, <1>7, <2>1, <2>3 DEF Captured, Lined, HoldsOn
  <2> QED
    BY <1>1, <1>2, <1>3, <1>5, <1>7, <2>1, <2>2, <2>4 DEF Captured, Followed, HoldsOn
<1> QED
  BY <1>1, <1>6, <1>7 DEF ShowsOn

LEMMA SegmentedCaptured ==
  ASSUME NEW a, NEW b, NEW ch, NEW q, Captured(a, ch, q), HasAttempt(a.ctl),
         CanStartStream(a.session), b = Segmented(a)
  PROVE  Captured(b, ch, q)
<1> DEFINE s == StreamStarted(a.session)
<1>1. a \in AppState /\ Fields(a) /\ a.session \in SessionState(SessionId)
  BY AppFields DEF Captured, Held, Fields
<1>2. /\ s \in SessionState(SessionId) /\ s.id = a.session.id /\ s.seq = a.session.seq
      /\ s.segment = a.session.segment + 1 /\ s.started = TRUE
  BY <1>1, SessionAssumption DEF StreamStarted, CanStartStream, SessionOf, SessionState
<1>3. a.session.segment \in Nat /\ ~a.session.started
  BY <1>1, SessionAssumption DEF CanStartStream, SessionState
<1>4. b = [a EXCEPT !.session = s]
  BY DEF Segmented
<1> HIDE DEF s
<1>5. /\ b.ctl = a.ctl /\ b.handle = a.handle /\ b.view = a.view /\ b.session = s
      /\ b.owner = a.owner /\ b.retained = a.retained /\ b.document = a.document
      /\ b.attempt_dump = a.attempt_dump /\ b.dump = a.dump /\ b.budget = a.budget
      /\ b.reset_budget = a.reset_budget
  BY <1>1, <1>4 DEF Fields, AppDomain
<1>6. b \in AppState
  BY <1>1, <1>2, <1>4 DEF AppState
<1>7. Held(b, ch, q) /\ Budgeted(b)
  BY <1>5, <1>6 DEF Captured, Held, Budgeted
<1>8. LastShown(b) = LastShown(a)
  BY <1>5 DEF LastShown
<1>9. a.view # <<>> => LastShown(a).attempt # ActiveId(a.ctl)
  BY <1>3 DEF Captured, Shown
<1>10. a.view # <<>> => LastShown(a).segment \in Nat
  BY <1>1, ViewFields, RecordFields
<1>11. Shown(b)
  BY <1>2, <1>3, <1>5, <1>8, <1>9, <1>10 DEF Captured, Shown
<1>12. Lined(b, ch, q)
  BY <1>5, <1>8, <1>9 DEF Captured, Lined
<1> QED
  BY <1>2, <1>5, <1>7, <1>8, <1>11, <1>12 DEF Captured, Followed

-------------------------------------------------------------------------------
(* A new attempt *)

\* What a start leaves, whatever became of it: an attempt in hand is the new one.
LEMMA LaunchedCaptured ==
  ASSUME NEW a, NEW b, NEW ch, NEW q, Captured(a, ch, q), ~HasAttempt(a.ctl),
         NEW outcome \in StartOutcome, NEW id, id = a.ctl.next_id + 1, id \in Id,
         Formed(b), b.ctl.next_id = id, b.handle = ActiveId(b.ctl),
         ActiveId(b.ctl) \in {id, NoId},
         outcome = "ok" <=> b.handle = id,
         Budgeted(b), b.session = BeginAttempt(a.session),
         b.retained = a.retained, b.document = a.document, b.view = a.view,
         b.dump = a.dump, b.attempt_dump = a.dump
  PROVE  Captured(b, [ch EXCEPT ![id] = ChildOf(outcome)], q)
<1> DEFINE n == a.ctl.next_id
           new == [ch EXCEPT ![id] = ChildOf(outcome)]
<1>1. /\ Sound(a.ctl) /\ n \in Nat /\ ChannelInv(ch, q, n) /\ id = n + 1
      /\ a.handle = NoId /\ Flowing(ch, q) /\ a \in AppState
  BY SoundFields DEF Captured, Held, Lined, ActiveId
<1>2. /\ ChannelInv(new, q, id) /\ Frozen(ch, new, n)
      /\ Flowing(new, q)
  BY <1>1, LaunchKeepsChannel, LaunchKeepsFlow
<1>3. /\ new[id].drain = IF outcome = "ok" THEN "works" ELSE "none"
      /\ ch[id].drain = "none"
      /\ \A i \in Id : i # id => new[i] = ch[i]
  <2>1. ch \in [Id -> Child] /\ ch[id] = NoChild
    BY <1>1 DEF ChannelInv
  <2> QED
    BY <2>1, OutcomeFields, NoChildFields
<1> HIDE DEF new
<1>4. Held(b, new, q)
  <2>1. ASSUME NEW i \in Id, new[i].proc = "alive", new[i].drain # "none"
        PROVE  b.handle = i
    <3>1. i # NoId
      BY DEF Id, NoId
    <3>2. i = id
      BY <1>1, <1>3, <2>1, <3>1 DEF Captured, Held
    <3> QED
      BY <1>3, <2>1, <3>2
  <2>2. b.handle # NoId => new[b.handle].drain # "none"
    BY <1>3
  <2> QED
    BY <1>2, <2>1, <2>2 DEF Held, Formed
<1>5. /\ b.session.id = a.session.id /\ b.session.seq = a.session.seq
      /\ b.session.segment = a.session.segment /\ ~b.session.started
  BY DEF BeginAttempt, SessionOf
<1>6. LastShown(b) = LastShown(a)
  BY DEF LastShown
<1>7. a.view # <<>> =>
        /\ LastShown(a) \in ViewRecord /\ LastShown(a).attempt \in Id
        /\ LastShown(a).attempt \in Nat /\ LastShown(a).attempt <= n
  BY <1>1, ViewFields, RecordFields DEF Captured, Shown
<1>8. a.view # <<>> => LastShown(a).attempt <= id /\ LastShown(a).attempt # ActiveId(b.ctl)
  BY <1>1, <1>7 DEF Id, NoId
<1>9. Shown(b)
  BY <1>5, <1>6, <1>8 DEF Captured, Shown
<1>10. Lined(b, new, q)
  <2>1. ASSUME NEW k \in DOMAIN b.view
        PROVE  new[b.view[k].attempt].drain # "none"
    <3>1. a.view[k] \in ViewRecord /\ ch[a.view[k].attempt].drain # "none"
      BY <1>1, <2>1, ViewFields DEF Captured, Lined
    <3>2. a.view[k].attempt \in Id
      BY <3>1, RecordFields
    <3> QED
      BY <1>3, <3>1, <3>2
  <2> QED
    BY <1>2, <1>5, <2>1 DEF Lined, Accepting, CanRecord
<1>11. TRUE \notin Scopes => Followed(b, new, q)
  <2>1. a.view # <<>> => LastShown(a).attempt # ActiveId(a.ctl)
    BY <1>1, <1>7 DEF Id, NoId, ActiveId
  <2> QED
    BY <1>2, <1>5, <1>6, <1>7, <2>1 DEF Captured, Followed, Frozen, Exhausted
<1> QED
  BY <1>4, <1>9, <1>10, <1>11 DEF Captured, new

\* An attempt that is being started, before anything is known of the child.
Begun(a) ==
  [a EXCEPT !.ctl = Poll(a.ctl, TRUE), !.owner = a.session.id, !.attempt_dump = a.dump,
            !.budget = IF ~a.reset_budget THEN @ ELSE IF a.dump THEN NewBudget ELSE NoBudget,
            !.reset_budget = FALSE, !.session = BeginAttempt(a.session)]

\* b is a with a new attempt begun, whatever its controller and its handle.
Begins(a, b) ==
  /\ b \in AppState /\ Budgeted(b)
  /\ b.session = BeginAttempt(a.session) /\ b.owner = a.session.id
  /\ b.retained = a.retained /\ b.selected = a.selected /\ b.document = a.document
  /\ b.view = a.view /\ b.dump = a.dump /\ b.attempt_dump = a.dump /\ ~b.reset_budget
  /\ ~a.reset_budget => b.budget = a.budget

LEMMA BegunFields ==
  ASSUME NEW a, Formed(a), Budgeted(a), NEW b, b = Begun(a)
  PROVE  Begins(a, b) /\ b.ctl = Poll(a.ctl, TRUE) /\ b.handle = a.handle
<1> DEFINE d == Poll(a.ctl, TRUE)
           s == BeginAttempt(a.session)
           g == IF ~a.reset_budget THEN a.budget ELSE IF a.dump THEN NewBudget ELSE NoBudget
<1>1. Fields(a) /\ a \in AppState /\ a.session \in SessionState(SessionId)
  BY AppFields DEF Formed, Fields
<1>2. d \in ControllerState
  BY PollIsSound DEF Formed, Sound
<1>3. s \in SessionState(SessionId)
  BY <1>1, SessionAssumption DEF BeginAttempt, CanBegin, SessionOf, SessionState
<1>4. /\ NewBudget \in Budget /\ NewBudget.open = TRUE /\ NewBudget.records = 0
      /\ NoBudget \in Budget /\ NoBudget.open = FALSE /\ NoBudget.records = 0
      /\ RecordLimit # 0
  BY LiveCaptureAssumption DEF NewBudget, NoBudget, Budget
<1>5. /\ g \in Budget /\ (g.records = RecordLimit => g.spent)
      /\ ~a.reset_budget => g = a.budget
  BY <1>1, <1>4 DEF Fields, Budgeted
<1>6. g.open = a.dump
  <2>1. CASE ~a.reset_budget
    BY <2>1 DEF Budgeted
  <2>2. CASE a.reset_budget /\ a.dump = TRUE
    BY <1>4, <2>2
  <2>3. CASE a.reset_budget /\ a.dump = FALSE
    BY <1>4, <2>3
  <2> QED
    BY <1>1, <2>1, <2>2, <2>3 DEF Fields
<1>7. b = [a EXCEPT !.ctl = d, !.owner = a.session.id, !.attempt_dump = a.dump,
                    !.budget = g, !.reset_budget = FALSE, !.session = s]
  BY DEF Begun
<1> HIDE DEF d, s, g
<1>8. a.session.id \in SessionId /\ a.dump \in BOOLEAN
  BY <1>1 DEF SessionState, Fields
<1>9. b \in AppState
  BY <1>1, <1>2, <1>3, <1>5, <1>7, <1>8 DEF AppState, Budget
<1>10. /\ b.ctl = d /\ b.handle = a.handle /\ b.view = a.view /\ b.session = s
       /\ b.owner = a.session.id /\ b.retained = a.retained /\ b.document = a.document
       /\ b.attempt_dump = a.dump /\ b.dump = a.dump /\ b.budget = g
       /\ b.reset_budget = FALSE /\ b.selected = a.selected
  BY <1>1, <1>7 DEF Fields, AppDomain
<1> QED
  BY <1>5, <1>6, <1>9, <1>10 DEF Begins, Budgeted, d, s

LEMMA OtherControlBegins ==
  ASSUME NEW a, NEW c, Begins(a, c), NEW e, Sound(e), NEW b, b = OtherControl(c, e)
  PROVE  Begins(a, b) /\ b.ctl = e /\ b.handle = c.handle
<1>1. c \in AppState /\ Fields(c) /\ e \in ControllerState
  BY AppFields DEF Begins, Sound
<1>2. /\ b.ctl = e /\ b.handle = c.handle /\ b.view = c.view /\ b.session = c.session
      /\ b.owner = c.owner /\ b.retained = c.retained /\ b.document = c.document
      /\ b.attempt_dump = c.attempt_dump /\ b.dump = c.dump /\ b.budget = c.budget
      /\ b.reset_budget = c.reset_budget /\ b.selected = c.selected
  BY <1>1 DEF Fields, AppDomain, OtherControl
<1>3. b \in AppState
  BY <1>1 DEF AppState, OtherControl
<1> QED
  BY <1>2, <1>3 DEF Begins, Budgeted

ChildHeld(c, id) == [c EXCEPT !.handle = id, !.stopped = FALSE]

LEMMA ChildHeldBegins ==
  ASSUME NEW a, NEW c, Begins(a, c), NEW id \in Id,
         NEW b, b = ChildHeld(c, id)
  PROVE  Begins(a, b) /\ b.ctl = c.ctl /\ b.handle = id
<1>1. c \in AppState /\ Fields(c)
  BY AppFields DEF Begins
<1>2. /\ b.ctl = c.ctl /\ b.handle = id /\ b.view = c.view /\ b.session = c.session
      /\ b.owner = c.owner /\ b.retained = c.retained /\ b.document = c.document
      /\ b.attempt_dump = c.attempt_dump /\ b.dump = c.dump /\ b.budget = c.budget
      /\ b.reset_budget = c.reset_budget /\ b.selected = c.selected
  BY <1>1 DEF Fields, AppDomain, ChildHeld
<1>3. b \in AppState
  BY <1>1 DEF AppState, ChildHeld
<1> QED
  BY <1>2, <1>3 DEF Begins, Budgeted

\* The controller that hands out the attempt.
LEMMA PollGrants ==
  ASSUME NEW c, Sound(c), NEW ready \in BOOLEAN, PollStarts(c, ready), NEW d, d = Poll(c, TRUE)
  PROVE  /\ Sound(d) /\ Granted(c, d) /\ HasAttempt(d) /\ IsActive(d)
         /\ c.next_id + 1 \in Id
<1>1. Sound(d) /\ (SameView(c, d) \/ Granted(c, d))
  BY PollIsSound, PollView
<1>2. c.next_id \in 0 .. MaxId /\ c.next_id < MaxId /\ ~IsStopping(c) /\ PollStarts(c, TRUE)
  BY SoundFields DEF PollStarts, PollLaunches, Due, IsStopping
<1>3. d.next_id = c.next_id + 1
  BY <1>2 DEF Poll, Controlled
<1>4. c.next_id \in Nat /\ c.next_id + 1 \in Id /\ c.next_id + 1 # 0
      /\ c.next_id + 1 # c.next_id
  BY <1>2, ControllerAssumption DEF Id
<1>5. Granted(c, d)
  <2>1. d.next_id # c.next_id
    BY <1>3, <1>4
  <2> QED
    BY <1>1, <2>1 DEF SameView
<1>6. HasAttempt(d)
  BY <1>1, <1>4, <1>5, HolderIsId DEF Granted
<1> QED
  BY <1>1, <1>4, <1>5, <1>6 DEF Granted, HasAttempt

\* A start: the child that runs is held, and no other start leaves an attempt.
LEMMA LaunchCaptured ==
  ASSUME NEW a, NEW ch, NEW q, Captured(a, ch, q), NEW ready \in BOOLEAN,
         PollStarts(a.ctl, ready), NEW outcome \in StartOutcome,
         NEW b, b = Launch(a, outcome)
  PROVE  /\ Captured(b, [ch EXCEPT ![a.ctl.next_id + 1] =
                           IF CanBegin(a.session) THEN ChildOf(outcome) ELSE NoChild], q)
         /\ Begins(a, b)
<1> DEFINE id == a.ctl.next_id + 1
           d == Poll(a.ctl, TRUE)
           fate == IF CanBegin(a.session) THEN outcome ELSE "refused"
<1>1. /\ Formed(a) /\ Sound(a.ctl) /\ Budgeted(a) /\ a.handle = ActiveId(a.ctl)
  BY DEF Captured, Held, Formed
<1>2. /\ Sound(d) /\ Granted(a.ctl, d) /\ HasAttempt(d) /\ IsActive(d) /\ id \in Id
  BY <1>1, PollGrants
<1>3. /\ ~HasAttempt(a.ctl) /\ a.handle = NoId /\ d.next_id = id /\ ActiveId(d) = id
      /\ HeldFor(d) = a.ctl.intent /\ a.ctl.intent \in Target
  BY <1>1, <1>2 DEF Granted, ActiveId
<1> PICK c : c = Begun(a)
  OBVIOUS
<1>4. Begins(a, c) /\ c.ctl = d /\ c.handle = NoId
  BY <1>1, <1>3, BegunFields
<1>5. b = IF ~CanBegin(a.session) THEN HaltCapture(c)
          ELSE IF outcome = "ok" THEN ChildHeld(c, id)
          ELSE OtherControl(c, Exited(c.ctl, id))
  BY DEF Launch, Begun, OtherControl, ChildHeld
<1>6. fate \in StartOutcome /\ ChildOf(fate) = IF CanBegin(a.session) THEN ChildOf(outcome) ELSE NoChild
  BY DEF StartOutcome, ChildOf
<1> HIDE DEF d
<1>7. CASE CanBegin(a.session) /\ outcome = "ok"
  <2>1. b = ChildHeld(c, id)
    BY <1>5, <1>7
  <2>2. Begins(a, b) /\ b.ctl = d /\ b.handle = id
    BY <1>2, <1>4, <2>1, ChildHeldBegins
  <2>3. Formed(b)
    BY <1>2, <2>2 DEF Begins, Formed
  <2>4. outcome = "ok" <=> b.handle = id
    BY <1>7, <2>2
  <2>5. Captured(b, [ch EXCEPT ![id] = ChildOf(outcome)], q)
    BY <1>2, <1>3, <2>2, <2>3, <2>4, LaunchedCaptured DEF Begins
  <2> QED
    BY <1>7, <2>2, <2>5
<1>8. CASE ~(CanBegin(a.session) /\ outcome = "ok")
  <2>1. \E e : /\ Sound(e) /\ ~HasAttempt(e) /\ e.next_id = id
               /\ b = OtherControl(c, e)
    <3>1. CASE CanBegin(a.session)
      <4>1. b = OtherControl(c, Exited(d, id))
        BY <1>4, <1>5, <1>8, <3>1
      <4>2. Sound(Exited(d, id)) /\ Released(d, Exited(d, id))
        BY <1>2, <1>3, ExitedReleases, ExitedIsSound
      <4> QED
        BY <1>3, <4>1, <4>2 DEF Released
    <3>2. CASE ~CanBegin(a.session)
      <4> DEFINE h == Halt(d)
                 e == Exited(h, ActiveId(h))
      <4>1. RequestStops(d, "Paused", FALSE)
        BY <1>2, <1>3, ControllerAssumption DEF RequestStops, HeldFor
      <4>2. b = OtherControl(c, e)
        BY <1>4, <1>5, <3>2, <4>1 DEF HaltCapture, OtherControl
      <4>3. Sound(h) /\ Asked(d, h, "Paused")
        BY <1>2, HaltIsSound, HaltView
      <4>4. HasAttempt(h) /\ h.next_id = id
        BY <1>2, <1>3, <4>3, HolderIsId DEF Asked
      <4> HIDE DEF h
      <4>5. Sound(e) /\ Released(h, e)
        BY <4>3, <4>4, ExitedReleases, ExitedIsSound
      <4> QED
        BY <4>2, <4>4, <4>5 DEF Released
    <3> QED
      BY <3>1, <3>2
  <2>2. PICK e : /\ Sound(e) /\ ~HasAttempt(e) /\ e.next_id = id
                 /\ b = OtherControl(c, e)
    BY <2>1
  <2>3. Begins(a, b) /\ b.ctl = e /\ b.handle = NoId
    BY <1>4, <2>2, OtherControlBegins
  <2>4. Formed(b) /\ ActiveId(b.ctl) = NoId
    BY <2>2, <2>3 DEF Begins, Formed, ActiveId
  <2>5. fate = "ok" <=> b.handle = id
    BY <1>2, <1>8, <2>3 DEF Id, NoId
  <2> HIDE DEF fate
  <2>6. Captured(b, [ch EXCEPT ![id] = ChildOf(fate)], q)
    BY <1>2, <1>3, <1>6, <2>2, <2>3, <2>4, <2>5, LaunchedCaptured DEF Begins
  <2> QED
    BY <1>6, <2>3, <2>6
<1> QED
  BY <1>7, <1>8

-------------------------------------------------------------------------------
(* An event *)

\* The application stays as it is when an event goes by that is no record to show.
LEMMA PassedCaptured ==
  ASSUME NEW a, NEW ch, NEW q, Captured(a, ch, q), q # <<>>,
         Head(q).id # ActiveId(a.ctl) \/ Head(q).kind # "Entry" \/ ~Accepting(a)
  PROVE  Captured(a, ch, Tail(q))
<1> DEFINE n == a.ctl.next_id
           rest == Tail(q)
<1>1. n \in Nat /\ ChannelInv(ch, q, n) /\ Flowing(ch, q)
  BY SoundFields DEF Captured, Held, Lined
<1>2. ChannelInv(ch, rest, n) /\ Flowing(ch, rest)
  BY <1>1, ReceivedKeepsChannel, ReceivedKeepsFlow
<1>3. Head(q).id # ActiveId(a.ctl) \/ Head(q).kind # "Entry" =>
        \A taken : OnItsWay(ActiveId(a.ctl), taken, ch, q)
                     => OnItsWay(ActiveId(a.ctl), taken, ch, rest)
  BY <1>1, OthersOnTheirWay
<1> HIDE DEF rest
<1>4. Held(a, ch, rest)
  BY <1>2 DEF Captured, Held
<1>5. Lined(a, ch, rest)
  BY <1>2, <1>3 DEF Captured, Lined
<1>6. Captured(a, ch, rest)
  BY <1>4, <1>5 DEF Captured, Followed
<1> QED
  BY <1>6 DEF rest

\* Of a capture that follows, the attempt whose records are shown is accepted.
LEMMA FollowsAccepting ==
  ASSUME NEW a, NEW ch, NEW q, Captured(a, ch, q), TRUE \notin Scopes,
         HasAttempt(a.ctl), a.view # <<>>, a.session.seq < MaxSeq,
         LastShown(a).attempt = ActiveId(a.ctl)
  PROVE  OnItsWay(ActiveId(a.ctl), LastShown(a).line, ch, q)
<1>1. /\ LastShown(a).source = a.session.id /\ LastShown(a).device = a.retained
      /\ LastShown(a).source = a.owner /\ LastShown(a).device = HeldFor(a.ctl)
      /\ a.session.started /\ ~a.document
  BY ViewFields DEF Captured, Held, Shown, LastShown
<1>2. ~a.attempt_dump
  BY DEF Captured, Followed
<1>3. Accepting(a)
  BY <1>1, <1>2 DEF Accepting, Accepts, CanRecord, HeldFor
<1> QED
  BY <1>3 DEF Captured, Lined

\* The attempt in hand is gone.
Gone(a, c) == [a EXCEPT !.ctl = c, !.handle = NoId, !.stopped = FALSE]

LEMMA GoneCaptured ==
  ASSUME NEW a, NEW ch, NEW q, Captured(a, ch, q), q # <<>>,
         ActiveId(a.ctl) = Head(q).id, Head(q).kind = "Exited",
         NEW c, Sound(c), Released(a.ctl, c), NEW b, b = Gone(a, c)
  PROVE  /\ Captured(b, ch, Tail(q)) /\ b.ctl = c /\ b.handle = NoId
         /\ b.view = a.view /\ b.session = a.session /\ b.budget = a.budget
         /\ b.selected = a.selected /\ b.document = a.document
<1> DEFINE id == Head(q).id
<1>1. /\ a \in AppState /\ Fields(a) /\ c \in ControllerState /\ Sound(a.ctl)
      /\ a.ctl.next_id \in Nat /\ ChannelInv(ch, q, a.ctl.next_id)
  BY AppFields, SoundFields DEF Captured, Held, Sound
<1>2. HasAttempt(a.ctl) /\ ~HasAttempt(c) /\ ActiveId(c) = NoId /\ c.next_id = a.ctl.next_id
  BY DEF Released, ActiveId
<1>3. Captured(a, ch, Tail(q))
  BY PassedCaptured
<1>4. /\ b.ctl = c /\ b.handle = NoId /\ b.view = a.view /\ b.session = a.session
      /\ b.owner = a.owner /\ b.retained = a.retained /\ b.document = a.document
      /\ b.attempt_dump = a.attempt_dump /\ b.dump = a.dump /\ b.budget = a.budget
      /\ b.reset_budget = a.reset_budget /\ b.selected = a.selected
  BY <1>1 DEF Fields, AppDomain, Gone
<1>5. b \in AppState
  BY <1>1 DEF AppState, Gone
<1>6. id \in Id /\ ch[id].proc = "dead"
  <2>1. Shifted(q, Tail(q)) /\ Head(q) \in Event(Id)
    BY <1>1, ReceivedKeepsChannel
  <2> QED
    BY <1>1, <2>1, EventFields DEF Shifted, ChannelInv
<1>7. \A i \in Id : ~(ch[i].proc = "alive" /\ ch[i].drain # "none")
  BY <1>6 DEF Captured, Held
<1>8. Held(b, ch, Tail(q))
  BY <1>2, <1>3, <1>4, <1>5, <1>7 DEF Captured, Held
<1>9. LastShown(b) = LastShown(a)
  BY <1>4 DEF LastShown
<1>10. Budgeted(b) /\ Shown(b)
  BY <1>2, <1>3, <1>4, <1>9 DEF Captured, Budgeted, Shown
<1>11. Lined(b, ch, Tail(q))
  BY <1>2, <1>3, <1>4 DEF Captured, Lined, Accepting
<1>12. ASSUME TRUE \notin Scopes
       PROVE  Followed(b, ch, Tail(q))
  <2>1. ASSUME a.view # <<>>, a.session.seq < MaxSeq, LastShown(a).attempt = id
        PROVE  Exhausted(id, LastShown(a).line, ch)
    <3>1. OnItsWay(id, LastShown(a).line, ch, q)
      BY <1>2, <1>12, <2>1, FollowsAccepting
    <3>2. LastShown(a).line \in Nat
      BY <1>1, <2>1, ViewFields, RecordFields
    <3> QED
      BY <1>1, <1>6, <3>1, <3>2, NothingOnItsWay
  <2> QED
    BY <1>3, <1>4, <1>9, <1>12, <2>1 DEF Captured, Followed
<1> QED
  BY <1>4, <1>8, <1>10, <1>11, <1>12 DEF Captured

LEMMA OnExitedCaptured ==
  ASSUME NEW a, NEW ch, NEW q, Captured(a, ch, q), q # <<>>,
         ActiveId(a.ctl) = Head(q).id, Head(q).kind = "Exited", NEW clean,
         NEW b, b = OnExited(a, Head(q).id, clean)
  PROVE  /\ Captured(b, ch, Tail(q)) /\ b.handle = NoId
         /\ (Capturing(b.ctl) => Capturing(a.ctl))
         /\ b.view = a.view /\ b.session = a.session /\ b.budget = a.budget
         /\ b.selected = a.selected /\ b.document = a.document
<1> DEFINE id == Head(q).id
           c == IF a.attempt_dump /\ clean THEN Completed(a.ctl, id) ELSE Exited(a.ctl, id)
<1>1. Sound(a.ctl) /\ a.ctl.next_id \in Nat /\ ChannelInv(ch, q, a.ctl.next_id)
  BY SoundFields DEF Captured, Held
<1>2. HasAttempt(a.ctl)
  <2>1. Head(q) \in Event(Id)
    BY <1>1, ReceivedKeepsChannel
  <2>2. id # 0
    BY <2>1, EventFields DEF Id
  <2> QED
    BY <1>1, <2>2, HolderIsId
<1>3. /\ Sound(Completed(a.ctl, id)) /\ Released(a.ctl, Completed(a.ctl, id))
      /\ Sound(Exited(a.ctl, id)) /\ Released(a.ctl, Exited(a.ctl, id))
  BY <1>1, <1>2, ExitedReleases, ExitedIsSound, CompletedIsSound
<1>4. Sound(c) /\ Released(a.ctl, c)
  BY <1>3
<1>5. b = Gone(a, c)
  BY DEF OnExited, Gone
<1> HIDE DEF c
<1>6. Captured(b, ch, Tail(q)) /\ b.ctl = c
      /\ b.handle = NoId /\ b.view = a.view /\ b.session = a.session /\ b.budget = a.budget
      /\ b.selected = a.selected /\ b.document = a.document
  BY <1>4, <1>5, GoneCaptured
<1>7. Capturing(c) => Capturing(a.ctl)
  BY <1>4, ControllerAssumption DEF Released, Capturing
<1> QED
  BY <1>6, <1>7

\* The view with one more record, the oldest one perhaps pushed out.
Grown(v, r, trimmed) == IF trimmed THEN Tail(Append(v, r)) ELSE Append(v, r)

\* Records that continue one another still do, and the new one is the last.
LEMMA GrownView ==
  ASSUME NEW v \in Seq(ViewRecord), NEW r \in ViewRecord, NEW trimmed,
         \A k \in 2 .. Len(v) : Continues(v[k - 1], v[k]),
         v # <<>> => Continues(v[Len(v)], r),
         NEW w, w = Grown(v, r, trimmed)
  PROVE  /\ w \in Seq(ViewRecord)
         /\ \A k \in DOMAIN w : w[k] = r \/ \E j \in DOMAIN v : w[k] = v[j]
         /\ \A k \in 2 .. Len(w) : Continues(w[k - 1], w[k])
         /\ w # <<>> => w[Len(w)] = r
<1> DEFINE longer == Append(v, r)
           n == Len(v)
<1>1. /\ n \in Nat /\ DOMAIN v = 1 .. n /\ (v = <<>> <=> n = 0)
  BY LenProperties, EmptySeq
<1>2. /\ longer \in Seq(ViewRecord) /\ Len(longer) = n + 1 /\ DOMAIN longer = 1 .. n + 1
      /\ \A k \in 1 .. n : longer[k] = v[k]
      /\ longer[n + 1] = r /\ longer # <<>>
  BY <1>1, AppendProperties, LenProperties
<1>3. /\ Tail(longer) \in Seq(ViewRecord) /\ Len(Tail(longer)) = n
      /\ DOMAIN Tail(longer) = 1 .. n
      /\ \A k \in 1 .. n : Tail(longer)[k] = longer[k + 1]
  BY <1>1, <1>2, HeadTailProperties, LenProperties, SMTT(20)
<1>4. w = IF trimmed THEN Tail(longer) ELSE longer
  BY DEF Grown
<1> HIDE DEF longer, n
<1>5. \A k \in 2 .. n + 1 : Continues(longer[k - 1], longer[k])
  <2> SUFFICES ASSUME NEW k \in 2 .. n + 1
               PROVE  Continues(longer[k - 1], longer[k])
    OBVIOUS
  <2>1. CASE k = n + 1
    <3>1. k - 1 = n /\ n # 0 /\ longer[k - 1] = v[n] /\ longer[k] = r
      BY <1>1, <1>2, <2>1
    <3> QED
      BY <1>1, <3>1 DEF n
  <2>2. CASE k # n + 1
    <3>1. k \in 2 .. n /\ longer[k - 1] = v[k - 1] /\ longer[k] = v[k]
      BY <1>1, <1>2, <2>2
    <3> QED
      BY <3>1 DEF n
  <2> QED
    BY <2>1, <2>2
<1>6. CASE ~trimmed
  BY <1>1, <1>2, <1>4, <1>5, <1>6
<1>7. CASE trimmed
  <2>1. \A k \in 1 .. n : w[k] = longer[k + 1] /\ k + 1 \in 1 .. n + 1
    BY <1>1, <1>3, <1>4, <1>7
  <2>2. Len(w) = n /\ DOMAIN w = 1 .. n /\ w \in Seq(ViewRecord)
    BY <1>3, <1>4, <1>7
  <2>3. \A k \in 2 .. n : Continues(w[k - 1], w[k])
    <3> SUFFICES ASSUME NEW k \in 2 .. n
                 PROVE  Continues(w[k - 1], w[k])
      OBVIOUS
    <3>1. /\ k + 1 \in 2 .. n + 1 /\ k - 1 \in 1 .. n /\ k \in 1 .. n
          /\ (k - 1) + 1 = k /\ (k + 1) - 1 = k
      BY <1>1
    <3>2. w[k - 1] = longer[k] /\ w[k] = longer[k + 1]
      BY <2>1, <3>1
    <3> QED
      BY <1>5, <3>1, <3>2
  <2>4. w # <<>> => n # 0 /\ w[n] = r
    BY <1>1, <1>2, <2>1, <2>2, EmptySeq
  <2>5. \A k \in DOMAIN w : w[k] = r \/ \E j \in DOMAIN v : w[k] = v[j]
    <3> SUFFICES ASSUME NEW k \in 1 .. n
                 PROVE  w[k] = r \/ \E j \in DOMAIN v : w[k] = v[j]
      BY <2>2
    <3>1. CASE k = n
      BY <1>2, <2>1, <3>1
    <3>2. CASE k # n
      <4>1. k + 1 \in 1 .. n
        BY <1>1, <3>2
      <4> QED
        BY <1>1, <1>2, <2>1, <4>1
    <3> QED
      BY <3>1, <3>2
  <2> QED
    BY <2>2, <2>3, <2>4, <2>5
<1> QED
  BY <1>6, <1>7

\* d is a with another budget.
OnlyBudget(a, d) ==
  /\ d \in AppState /\ Budgeted(d)
  /\ d.ctl = a.ctl /\ d.handle = a.handle /\ d.view = a.view /\ d.session = a.session
  /\ d.owner = a.owner /\ d.retained = a.retained /\ d.document = a.document
  /\ d.attempt_dump = a.attempt_dump /\ d.dump = a.dump
  /\ d.reset_budget = a.reset_budget /\ d.selected = a.selected
  /\ d.budget.open = a.budget.open
  /\ d.budget.records >= a.budget.records

\* One more record of the budget.
Charged(a) ==
  [a EXCEPT !.budget.records = a.budget.records + 1,
            !.budget.spent = (a.budget.records + 1 = RecordLimit)]

LEMMA ChargedBudget ==
  ASSUME NEW a, Formed(a), Budgeted(a), ~a.budget.spent, NEW d, d = Charged(a)
  PROVE  OnlyBudget(a, d) /\ d.budget.records = a.budget.records + 1
<1> DEFINE used == a.budget.records + 1
           g == [a.budget EXCEPT !.records = used, !.spent = (used = RecordLimit)]
<1>1. Fields(a) /\ a \in AppState /\ a.budget \in Budget
  BY AppFields DEF Formed, Fields
<1>2. a.budget.records \in 0 .. RecordLimit /\ a.budget.records # RecordLimit
  BY <1>1 DEF Budget, Budgeted
<1>3. used \in 0 .. RecordLimit /\ used > a.budget.records
  BY <1>2, LiveCaptureAssumption
<1>4. g \in Budget /\ g.open = a.budget.open /\ g.records = used
  BY <1>1, <1>3 DEF Budget
<1>5. g.records = RecordLimit => g.spent
  BY <1>1, <1>3 DEF Budget
<1>6. d = [a EXCEPT !.budget = g]
  BY <1>1 DEF Charged, Fields, AppDomain
<1> HIDE DEF g, used
<1>7. /\ d.ctl = a.ctl /\ d.handle = a.handle /\ d.view = a.view /\ d.session = a.session
      /\ d.owner = a.owner /\ d.retained = a.retained /\ d.document = a.document
      /\ d.attempt_dump = a.attempt_dump /\ d.dump = a.dump /\ d.budget = g
      /\ d.reset_budget = a.reset_budget /\ d.selected = a.selected
  BY <1>1, <1>6 DEF Fields, AppDomain
<1>8. d \in AppState
  BY <1>1, <1>4, <1>6 DEF AppState, Budget
<1>9. Budgeted(d)
  BY <1>4, <1>5, <1>7 DEF Budgeted
<1> QED
  BY <1>2, <1>3, <1>4, <1>7, <1>8, <1>9 DEF OnlyBudget, used

\* The record that is made of a line.
Made(a, id, line) ==
  LET s == Record(a.session) IN
  [source |-> a.owner, device |-> a.ctl.phase.attempt.target,
   seq |-> s.seq, segment |-> s.segment, attempt |-> id, line |-> line]

LEMMA MadeContinues ==
  ASSUME NEW a, NEW ch, NEW q, Captured(a, ch, q), q # <<>>, Accepting(a),
         ActiveId(a.ctl) = Head(q).id, Head(q).kind = "Entry",
         NEW r, r = Made(a, Head(q).id, Head(q).line)
  PROVE  /\ r \in ViewRecord
         /\ r.source = a.session.id /\ r.source = a.owner
         /\ r.device = a.retained /\ r.device = HeldFor(a.ctl)
         /\ r.seq = a.session.seq + 1 /\ r.segment = a.session.segment
         /\ r.attempt = Head(q).id /\ r.line = Head(q).line
         /\ a.view # <<>> => Continues(LastShown(a), r)
         /\ OnItsWay(Head(q).id, r.line, ch, Tail(q))
<1> DEFINE id == Head(q).id
           line == Head(q).line
           n == a.ctl.next_id
<1>1. /\ Fields(a) /\ a \in AppState /\ Sound(a.ctl) /\ n \in Nat /\ ChannelInv(ch, q, n)
      /\ a.session \in SessionState(SessionId)
  BY AppFields, SoundFields DEF Captured, Held, Fields
<1>2. id \in Id /\ line \in 1 .. Lines /\ line \in Nat
  BY <1>1, ReceivedKeepsChannel, EventFields
<1>3. /\ HasAttempt(a.ctl) /\ a.owner = a.session.id /\ a.session.started
      /\ a.session.seq < MaxSeq /\ a.ctl.phase.attempt.target = a.retained
      /\ a.ctl.phase.attempt.id = n /\ id = n /\ a.ctl.phase.attempt.target \in Target
      /\ HeldFor(a.ctl) = a.ctl.phase.attempt.target
  BY <1>1, SoundFields DEF Accepting, Accepts, CanRecord, ActiveId, HeldFor, Attempt
<1>4. a.session.segment # 0
  BY <1>3 DEF Captured, Shown
<1>5. /\ a.session.seq \in Nat /\ a.session.seq + 1 \in 1 .. MaxSeq
      /\ a.session.segment \in 1 .. MaxCount /\ a.session.id \in SessionId
  BY <1>1, <1>3, <1>4, SessionAssumption DEF SessionState
<1>6. r = [source |-> a.owner, device |-> a.ctl.phase.attempt.target,
           seq |-> a.session.seq + 1, segment |-> a.session.segment,
           attempt |-> id, line |-> line]
  BY DEF Made, Record, SessionOf
<1>7. r \in ViewRecord
  BY <1>2, <1>3, <1>5, <1>6 DEF ViewRecord
<1>8. /\ r.source = a.session.id /\ r.source = a.owner
      /\ r.device = a.retained /\ r.device = HeldFor(a.ctl)
      /\ r.seq = a.session.seq + 1 /\ r.segment = a.session.segment
      /\ r.attempt = id /\ r.line = line
  BY <1>3, <1>6
<1>9. PICK taken \in 0 .. Lines : OnItsWay(id, taken, ch, q)
  BY <1>2 DEF Captured, Lined, Flowing
<1>10. taken \in Nat
  BY LogcatChildAssumption
<1>11. OnItsWay(id, line, ch, Tail(q))
  BY <1>1, <1>2, <1>9, <1>10, NextOnItsWay
<1>12. ASSUME a.view # <<>>
       PROVE  Continues(LastShown(a), r)
  <2> DEFINE last == LastShown(a)
  <2>1. last \in ViewRecord /\ last.attempt \in Nat /\ last.segment \in Nat /\ last.line \in Nat
    BY <1>1, <1>12, ViewFields, RecordFields
  <2>2. last.seq = a.session.seq /\ last.attempt <= id
    BY <1>3, <1>12 DEF Captured, Shown
  <2>3. CASE last.attempt = id
    <3>1. last.segment = a.session.segment
      BY <1>3, <1>12, <2>3 DEF Captured, Shown
    <3>2. OnItsWay(id, last.line, ch, q)
      BY <1>12, <2>3 DEF Captured, Lined
    <3>3. line = last.line + 1
      BY <1>1, <1>2, <2>1, <3>2, NextOnItsWay
    <3> QED
      BY <1>8, <2>2, <2>3, <3>1, <3>3 DEF Continues
  <2>4. CASE last.attempt # id
    <3>1. last.segment < a.session.segment
      BY <1>3, <1>12, <2>4 DEF Captured, Shown
    <3>2. last.attempt < id
      BY <1>2, <2>1, <2>2, <2>4 DEF Id
    <3> QED
      BY <1>2, <1>5, <1>8, <2>1, <2>2, <2>4, <3>1, <3>2 DEF Continues, Id
  <2> QED
    BY <2>3, <2>4
<1> QED
  BY <1>7, <1>8, <1>11, <1>12

\* b is a with the budget of d and one more record.
Longer(a, d, b) ==
  /\ b.ctl = a.ctl /\ b.handle = a.handle /\ b.selected = a.selected
  /\ b.document = a.document /\ b.budget = d.budget
  /\ b.session.seq = a.session.seq + 1

LEMMA AppendedCaptured ==
  ASSUME NEW a, NEW ch, NEW q, Captured(a, ch, q), q # <<>>, Accepting(a),
         ActiveId(a.ctl) = Head(q).id, Head(q).kind = "Entry",
         NEW d, OnlyBudget(a, d), NEW trimmed,
         NEW b, b = Appended(d, Head(q).id, Head(q).line, trimmed)
  PROVE  Captured(b, ch, Tail(q)) /\ Longer(a, d, b)
<1> DEFINE id == Head(q).id
           s == Record(a.session)
           r == Made(a, Head(q).id, Head(q).line)
           v == Grown(a.view, r, trimmed)
<1>1. /\ r \in ViewRecord
      /\ r.source = a.session.id /\ r.source = a.owner
      /\ r.device = a.retained /\ r.device = HeldFor(a.ctl)
      /\ r.seq = a.session.seq + 1 /\ r.segment = a.session.segment
      /\ r.attempt = id /\ r.line = Head(q).line
      /\ a.view # <<>> => Continues(LastShown(a), r)
      /\ OnItsWay(id, r.line, ch, Tail(q))
  BY MadeContinues
<1>2. Captured(a, ch, q) /\ a \in AppState /\ a.view \in Seq(ViewRecord)
  BY ViewFields DEF Captured, Held
<1>3. /\ Sound(a.ctl) /\ a.ctl.next_id \in Nat /\ ChannelInv(ch, q, a.ctl.next_id)
  BY SoundFields DEF Captured, Held
<1>4. /\ v \in Seq(ViewRecord)
      /\ \A k \in DOMAIN v : v[k] = r \/ \E j \in DOMAIN a.view : v[k] = a.view[j]
      /\ \A k \in 2 .. Len(v) : Continues(v[k - 1], v[k])
      /\ v # <<>> => v[Len(v)] = r
  <2>1. \A k \in 2 .. Len(a.view) : Continues(a.view[k - 1], a.view[k])
    BY DEF Captured, Shown
  <2>2. a.view # <<>> => Continues(a.view[Len(a.view)], r)
    BY <1>1 DEF LastShown
  <2> HIDE DEF r
  <2> QED
    BY <1>1, <1>2, <2>1, <2>2, GrownView
<1>5. b = [d EXCEPT !.session = s, !.view = v]
  BY DEF Appended, Made, Grown, OnlyBudget
<1>6. /\ a.session \in SessionState(SessionId) /\ CanRecord(a.session)
  BY <1>2, AppFields DEF Fields, Accepting
<1>7. /\ s \in SessionState(SessionId) /\ s.id = a.session.id /\ s.seq = a.session.seq + 1
      /\ s.segment = a.session.segment /\ s.started = a.session.started
      /\ s.started
  BY <1>6, SessionAssumption DEF Record, SessionOf, SessionState, CanRecord
<1> HIDE DEF s, r, v
<1>8. d \in AppState /\ Fields(d)
  BY AppFields DEF OnlyBudget
<1>9. /\ b.ctl = a.ctl /\ b.handle = a.handle /\ b.view = v /\ b.session = s
      /\ b.owner = a.owner /\ b.retained = a.retained /\ b.document = a.document
      /\ b.attempt_dump = a.attempt_dump /\ b.dump = a.dump /\ b.budget = d.budget
      /\ b.reset_budget = a.reset_budget /\ b.selected = a.selected
  BY <1>5, <1>8 DEF Fields, AppDomain, OnlyBudget
<1>10. b \in AppState
  BY <1>4, <1>5, <1>7, <1>8 DEF AppState
<1>11. ChannelInv(ch, Tail(q), a.ctl.next_id) /\ Flowing(ch, Tail(q))
  BY <1>3, ReceivedKeepsChannel, ReceivedKeepsFlow DEF Captured, Lined
<1>12. Held(b, ch, Tail(q))
  BY <1>9, <1>10, <1>11 DEF Captured, Held
<1>13. Budgeted(b)
  BY <1>9 DEF OnlyBudget, Budgeted
<1>14. v # <<>> => LastShown(b) = r
  BY <1>4, <1>9 DEF LastShown
<1>15. /\ HasAttempt(a.ctl) /\ id = a.ctl.next_id /\ id \in Nat /\ ~a.document
       /\ a.session.segment \in Nat
  BY <1>3, <1>6, SoundFields, SessionAssumption
     DEF Accepting, Accepts, ActiveId, SessionState
<1>16. Shown(b)
  <2>1. b.session.started => b.session.segment # 0
    BY <1>7, <1>9 DEF Captured, Shown
  <2>2. \A k \in DOMAIN b.view :
          b.view[k].source = b.session.id /\ b.view[k].device = b.retained
    BY <1>1, <1>4, <1>7, <1>9 DEF Captured, Shown
  <2>3. ~b.document
    BY <1>9, <1>15
  <2>4. \A k \in 2 .. Len(b.view) : Continues(b.view[k - 1], b.view[k])
    BY <1>4, <1>9
  <2>5. b.view # <<>> =>
          /\ LastShown(b) = r /\ r.seq = b.session.seq
          /\ r.attempt <= b.ctl.next_id /\ r.segment <= b.session.segment
          /\ r.attempt = ActiveId(b.ctl) /\ b.session.started
          /\ r.segment = b.session.segment
          /\ r.source = b.owner /\ r.device = HeldFor(b.ctl)
    BY <1>1, <1>7, <1>9, <1>14, <1>15
  <2> QED
    BY <2>1, <2>2, <2>3, <2>4, <2>5 DEF Shown
<1>17. Lined(b, ch, Tail(q))
  <2>1. ch[id].drain # "none"
    <3>1. Head(q) \in Event(Id)
      BY <1>3, ReceivedKeepsChannel
    <3>2. id # NoId
      BY <3>1, EventFields DEF Id, NoId
    <3> QED
      BY <3>2 DEF Captured, Held
  <2>2. \A k \in DOMAIN b.view : ch[b.view[k].attempt].drain # "none"
    BY <1>1, <1>4, <1>9, <2>1 DEF Captured, Lined
  <2> QED
    BY <1>1, <1>9, <1>11, <1>14, <2>2 DEF Lined
<1>18. TRUE \notin Scopes => Followed(b, ch, Tail(q))
  BY <1>1, <1>9, <1>14 DEF Captured, Followed
<1> QED
  BY <1>7, <1>9, <1>12, <1>13, <1>16, <1>17, <1>18 DEF Captured, Longer

\* A record is counted in the budget of a snapshot, or there is none.
Counted(a) == IF a.attempt_dump /\ a.budget.open THEN Charged(a) ELSE a

LEMMA CountedBudget ==
  ASSUME NEW a, Formed(a), Budgeted(a), ~(a.attempt_dump /\ a.budget.open /\ a.budget.spent),
         NEW d, d = Counted(a)
  PROVE  /\ OnlyBudget(a, d) /\ Keeps(a, d) /\ Untouched(a, d)
         /\ a.attempt_dump /\ a.budget.open => d.budget.records = a.budget.records + 1
         /\ a.budget.open /\ a.budget.spent => d.budget.spent
<1>1. CASE a.attempt_dump /\ a.budget.open
  <2>1. OnlyBudget(a, d) /\ d.budget.records = a.budget.records + 1
    BY <1>1, ChargedBudget DEF Counted
  <2> QED
    BY <1>1, <2>1 DEF OnlyBudget, Keeps, HoldsOn, ShowsOn, Untouched, Formed
<1>2. CASE ~(a.attempt_dump /\ a.budget.open)
  <2>1. d = a
    BY <1>2 DEF Counted
  <2>2. OnlyBudget(a, a)
    BY BudgetFields DEF OnlyBudget, Formed
  <2> QED
    BY <1>2, <2>1, <2>2, KeepsItself
<1> QED
  BY <1>1, <1>2

\* What an event may do: it chooses nothing, it wants no capture that was not wanted,
\* and a record of a snapshot is counted in a budget that was not spent.
Admits(a, b) ==
  /\ b.selected = a.selected /\ b.document = a.document
  /\ Capturing(b.ctl) => Capturing(a.ctl)
  /\ b.budget.open = a.budget.open /\ b.budget.records >= a.budget.records
  /\ a.budget.spent => b.budget.spent
  /\ a.attempt_dump /\ a.budget.open /\ b.session.seq # a.session.seq =>
       ~a.budget.spent /\ b.budget.records = a.budget.records + 1

LEMMA UntouchedAdmits ==
  ASSUME NEW a, NEW b, Untouched(a, b), Capturing(b.ctl) => Capturing(a.ctl)
  PROVE  Admits(a, b)
  BY DEF Untouched, Admits

LEMMA OnEntryCaptured ==
  ASSUME NEW a, NEW ch, NEW q, Captured(a, ch, q), q # <<>>,
         ActiveId(a.ctl) = Head(q).id, Head(q).kind = "Entry", NEW over, NEW trimmed,
         NEW b, b = OnEntry(a, Head(q).id, Head(q).line, over, trimmed)
  PROVE  Captured(b, ch, Tail(q)) /\ Admits(a, b)
<1> DEFINE id == Head(q).id
           line == Head(q).line
           budgeted == a.attempt_dump /\ a.budget.open
           late == budgeted /\ (over \/ a.budget.spent)
<1> PICK counted : counted = Counted(a)
  OBVIOUS
<1>1. Formed(a) /\ Budgeted(a) /\ Sound(a.ctl) /\ a.ctl.next_id \in Nat
  BY SoundFields DEF Captured, Held, Formed
<1>2. b = IF ~Accepts(a, id) THEN a
          ELSE IF late THEN StopIfLimited(Spent(a))
          ELSE IF ~CanRecord(counted.session) THEN HaltCapture(counted)
          ELSE StopIfLimited(Appended(counted, id, line, trimmed))
  BY DEF OnEntry, Counted, Charged, Spent
<1>3. CASE ~Accepts(a, id)
  <2>1. b = a /\ ~Accepting(a)
    BY <1>2, <1>3 DEF Accepting
  <2> QED
    BY <1>1, <2>1, PassedCaptured, KeepsItself, UntouchedAdmits
<1>4. CASE Accepts(a, id) /\ late
  <2> PICK c : c = Spent(a)
    OBVIOUS
  <2>1. b = StopIfLimited(c)
    BY <1>2, <1>4
  <2>2. Keeps(a, c) /\ Untouched(a, c) /\ c.ctl = a.ctl /\ c.budget.spent
    BY <1>1, SpentKeeps
  <2>3. Captured(c, ch, q) /\ Formed(c)
    BY <2>2, KeepsCaptured DEF Keeps, HoldsOn
  <2>4. ~Accepting(c)
    BY <1>4, <2>2 DEF Accepting, Keeps, ShowsOn, Untouched
  <2>5. Captured(c, ch, Tail(q))
    BY <2>3, <2>4, PassedCaptured
  <2>6. Keeps(c, b) /\ Untouched(c, b) /\ (Capturing(b.ctl) => Capturing(c.ctl))
    BY <2>1, <2>3, StopIfLimitedKeeps
  <2>7. Captured(b, ch, Tail(q))
    BY <2>5, <2>6, KeepsCaptured
  <2>8. Untouched(a, b)
    BY <1>1, <2>2, <2>6, KeepsTwice
  <2> QED
    BY <2>2, <2>6, <2>7, <2>8, UntouchedAdmits
<1>5. ASSUME Accepts(a, id), ~late
      PROVE  /\ OnlyBudget(a, counted) /\ Keeps(a, counted) /\ Untouched(a, counted)
             /\ budgeted => counted.budget.records = a.budget.records + 1 /\ ~a.budget.spent
             /\ a.budget.open /\ a.budget.spent => counted.budget.spent
             /\ counted.ctl = a.ctl /\ counted.session = a.session
  <2>1. ~(a.attempt_dump /\ a.budget.open /\ a.budget.spent)
    BY <1>5
  <2> QED
    BY <1>1, <2>1, CountedBudget DEF OnlyBudget
<1>6. CASE Accepts(a, id) /\ ~late /\ ~CanRecord(counted.session)
  <2>1. /\ Keeps(a, counted) /\ Untouched(a, counted)
        /\ counted.ctl = a.ctl /\ counted.session = a.session
    BY <1>5, <1>6
  <2>2. b = HaltCapture(counted)
    BY <1>2, <1>6
  <2>3. Captured(counted, ch, q)
    BY <2>1, KeepsCaptured
  <2>4. ~Accepting(counted)
    BY <1>6 DEF Accepting
  <2>5. Captured(counted, ch, Tail(q))
    BY <2>3, <2>4, <2>1, PassedCaptured
  <2>6. Formed(counted) /\ counted.handle = ActiveId(counted.ctl)
    BY <2>3 DEF Captured, Held, Formed
  <2>7. Keeps(counted, b) /\ Untouched(counted, b) /\ b.ctl.intent = "Paused"
    BY <2>2, <2>6, HaltKeeps
  <2>8. Captured(b, ch, Tail(q))
    BY <2>5, <2>7, KeepsCaptured
  <2>9. Untouched(a, b) /\ ~Capturing(b.ctl)
    BY <1>1, <2>1, <2>7, KeepsTwice, ControllerAssumption DEF Capturing
  <2> QED
    BY <2>8, <2>9, UntouchedAdmits
<1>7. CASE Accepts(a, id) /\ ~late /\ CanRecord(counted.session)
  <2> PICK c : c = Appended(counted, id, line, trimmed)
    OBVIOUS
  <2>1. /\ OnlyBudget(a, counted) /\ counted.session = a.session
        /\ budgeted => counted.budget.records = a.budget.records + 1 /\ ~a.budget.spent
    BY <1>5, <1>7
  <2>2. b = StopIfLimited(c)
    BY <1>2, <1>7
  <2>3. id # 0
    <3>1. Head(q) \in Event(Id)
      BY <1>1, ReceivedKeepsChannel DEF Captured, Held
    <3> QED
      BY <3>1, EventFields DEF Id
  <2>4. HasAttempt(a.ctl)
    BY <1>1, <2>3, HolderIsId
  <2>5. Accepting(a)
    BY <1>7, <2>1, <2>4 DEF Accepting
  <2>6. Captured(c, ch, Tail(q)) /\ Longer(a, counted, c)
    BY <2>1, <2>5, AppendedCaptured
  <2>7. Formed(c)
    BY <2>6 DEF Captured, Held, Formed
  <2>8. Keeps(c, b) /\ Untouched(c, b) /\ (Capturing(b.ctl) => Capturing(c.ctl))
    BY <2>2, <2>7, StopIfLimitedKeeps
  <2>9. Captured(b, ch, Tail(q))
    BY <2>6, <2>8, KeepsCaptured
  <2>10. /\ b.selected = a.selected /\ b.document = a.document
         /\ Capturing(b.ctl) => Capturing(a.ctl)
         /\ b.budget = counted.budget
    BY <2>2, <2>6, <2>7, <2>8, StopIfLimitedBudget DEF Untouched, Longer
  <2>11. /\ counted.budget.open = a.budget.open
         /\ counted.budget.records >= a.budget.records
    BY <2>1 DEF OnlyBudget
  <2>12. a.budget.spent => counted.budget.spent
    BY <1>5, <1>7 DEF Untouched
  <2> QED
    BY <2>1, <2>9, <2>10, <2>11, <2>12 DEF Admits
<1> QED
  BY <1>3, <1>4, <1>6, <1>7

\* What the event loop makes of one event.
LEMMA HandledCases ==
  ASSUME NEW a, NEW e, NEW b \in Handled(a, e)
  PROVE  /\ ActiveId(a.ctl) # e.id => b = a
         /\ ActiveId(a.ctl) = e.id /\ e.kind = "Started" => b = OnStarted(a, e.id)
         /\ ActiveId(a.ctl) = e.id /\ e.kind = "Exited" => b = OnExited(a, e.id, e.clean)
         /\ ActiveId(a.ctl) = e.id /\ e.kind = "Entry" =>
              \E over, trimmed : b = OnEntry(a, e.id, e.line, over, trimmed)
<1>1. ActiveId(a.ctl) # e.id => Handled(a, e) = {a}
  BY DEF Handled
<1>2. ActiveId(a.ctl) = e.id /\ e.kind = "Started" => Handled(a, e) = {OnStarted(a, e.id)}
  BY DEF Handled
<1>3. ActiveId(a.ctl) = e.id /\ e.kind = "Exited" =>
        Handled(a, e) = {OnExited(a, e.id, e.clean)}
  BY DEF Handled
<1>4. ASSUME ActiveId(a.ctl) = e.id, e.kind = "Entry"
      PROVE  \E over, trimmed : b = OnEntry(a, e.id, e.line, over, trimmed)
  <2> DEFINE choices == IF a.attempt_dump THEN {FALSE} ELSE BOOLEAN
  <2>1. Handled(a, e) = {OnEntry(a, e.id, e.line, over, trimmed) :
                           over \in BOOLEAN, trimmed \in choices}
    BY <1>4 DEF Handled
  <2> HIDE DEF choices
  <2> QED
    BY <2>1
<1> QED
  BY <1>1, <1>2, <1>3, <1>4

\* Whatever event comes next, and whatever the memory budget and the clock say.
LEMMA HandledCaptured ==
  ASSUME NEW a, NEW ch, NEW q, Captured(a, ch, q), q # <<>>, NEW b \in Handled(a, Head(q))
  PROVE  /\ Captured(b, ch, Tail(q)) /\ Admits(a, b)
         /\ a.handle = NoId => b = a
<1> DEFINE id == Head(q).id
<1>1. /\ Formed(a) /\ Sound(a.ctl) /\ a.ctl.next_id \in Nat /\ a.handle = ActiveId(a.ctl)
      /\ ChannelInv(ch, q, a.ctl.next_id)
  BY SoundFields DEF Captured, Held, Formed
<1>2. CASE ActiveId(a.ctl) # id
  <2>1. b = a
    BY <1>2, HandledCases
  <2> QED
    BY <1>1, <1>2, <2>1, PassedCaptured, KeepsItself, UntouchedAdmits
<1>3. ASSUME ActiveId(a.ctl) = id
      PROVE  HasAttempt(a.ctl) /\ a.handle # NoId /\ Head(q).kind \in {"Started", "Entry", "Exited"}
  <2>1. Head(q) \in Event(Id)
    BY <1>1, ReceivedKeepsChannel
  <2>2. id # 0 /\ Head(q).kind \in {"Started", "Entry", "Exited"}
    BY <2>1, EventFields DEF Id
  <2> QED
    BY <1>1, <1>3, <2>2, HolderIsId DEF NoId
<1>4. CASE ActiveId(a.ctl) = id /\ Head(q).kind = "Started"
  <2>1. b = OnStarted(a, id)
    BY <1>4, HandledCases
  <2>2. Captured(a, ch, Tail(q)) /\ HasAttempt(a.ctl) /\ a.handle # NoId
    BY <1>3, <1>4, PassedCaptured
  <2>3. CASE Keeps(a, b) /\ Untouched(a, b) /\ (Capturing(b.ctl) => Capturing(a.ctl))
    BY <2>2, <2>3, KeepsCaptured, UntouchedAdmits
  <2>4. CASE \E c : /\ Keeps(a, c) /\ Untouched(a, c) /\ c.ctl.intent = a.ctl.intent
                    /\ CanStartStream(c.session) /\ b = Segmented(c)
    <3> PICK c : /\ Keeps(a, c) /\ Untouched(a, c) /\ c.ctl.intent = a.ctl.intent
                 /\ CanStartStream(c.session) /\ b = Segmented(c)
      BY <2>4
    <3>1. Captured(c, ch, Tail(q))
      BY <2>2, KeepsCaptured
    <3>2. HasAttempt(c.ctl)
      BY <1>1, <2>2, HolderIsId DEF Keeps, HoldsOn, Formed
    <3>3. Captured(b, ch, Tail(q))
      BY <3>1, <3>2, SegmentedCaptured
    <3>4. Fields(c)
      BY AppFields DEF Keeps, HoldsOn, Formed
    <3>5. /\ b.ctl = c.ctl /\ b.selected = c.selected /\ b.document = c.document
          /\ b.budget = c.budget /\ b.session = StreamStarted(c.session)
      BY <3>4 DEF Segmented, Fields, AppDomain
    <3>6. b.session.seq = c.session.seq
      BY <3>5 DEF StreamStarted, SessionOf
    <3>7. Capturing(b.ctl) => Capturing(a.ctl)
      BY <3>5 DEF Capturing
    <3> QED
      BY <2>2, <3>3, <3>5, <3>6, <3>7 DEF Untouched, Admits
  <2> QED
    BY <1>1, <2>1, <2>3, <2>4, OnStartedCases
<1>5. CASE ActiveId(a.ctl) = id /\ Head(q).kind = "Entry"
  <2>1. PICK over, trimmed : b = OnEntry(a, Head(q).id, Head(q).line, over, trimmed)
    BY <1>5, HandledCases
  <2> QED
    BY <1>3, <1>5, <2>1, OnEntryCaptured
<1>6. CASE ActiveId(a.ctl) = id /\ Head(q).kind = "Exited"
  <2>1. b = OnExited(a, id, Head(q).clean)
    BY <1>6, HandledCases
  <2>2. /\ Captured(b, ch, Tail(q)) /\ (Capturing(b.ctl) => Capturing(a.ctl))
        /\ b.session = a.session /\ b.budget = a.budget
        /\ b.selected = a.selected /\ b.document = a.document
    BY <1>6, <2>1, OnExitedCaptured
  <2>3. a.budget.records >= a.budget.records
    BY <1>1, BudgetFields
  <2> QED
    BY <1>3, <1>6, <2>2, <2>3 DEF Admits
<1> QED
  BY <1>2, <1>3, <1>4, <1>5, <1>6

-------------------------------------------------------------------------------
(* The rest of a frame *)

\* What advancing may do: it chooses nothing, starts only what is wanted, records nothing
\* and refills no budget that was not given up.
Advanced(a, b) ==
  /\ b.selected = a.selected /\ b.document = a.document /\ b.view = a.view
  /\ Capturing(b.ctl) => Capturing(a.ctl)
  /\ ~Capturing(a.ctl) => b.handle = a.handle
  /\ b.session.seq = a.session.seq
  /\ ~a.reset_budget =>
       /\ b.budget.open = a.budget.open /\ b.budget.records >= a.budget.records
       /\ a.budget.spent => b.budget.spent

LEMMA UntouchedAdvances ==
  ASSUME NEW a, NEW b, Untouched(a, b), Capturing(b.ctl) => Capturing(a.ctl)
  PROVE  Advanced(a, b)
  BY DEF Untouched, Advanced

LEMMA AdvanceCaptured ==
  ASSUME NEW a, Captured(a, child, queue), NEW devices, AdvanceWith(a, devices)
  PROVE  Captured(app', child', queue') /\ queue' = queue /\ Advanced(a, app')
<1>1. Formed(a)
  BY DEF Captured, Held, Formed
<1> PICK time_up \in BOOLEAN :
      LET b == Checked(a, time_up) IN
      IF PollStarts(b.ctl, Ready(b, devices))
      THEN \E outcome \in Outcomes :
             /\ app' = Launch(b, outcome)
             /\ child' = [child EXCEPT ![b.ctl.next_id + 1] =
                            IF CanBegin(b.session) THEN ChildOf(outcome) ELSE NoChild]
             /\ UNCHANGED queue
      ELSE /\ app' = [b EXCEPT !.ctl = Poll(b.ctl, Ready(b, devices))]
           /\ UNCHANGED channel
  BY DEF AdvanceWith, AdvanceAt
<1> PICK b : b = Checked(a, time_up)
  OBVIOUS
<1> DEFINE ready == Ready(b, devices)
<1>2. Keeps(a, b) /\ Untouched(a, b) /\ (Capturing(b.ctl) => Capturing(a.ctl))
  BY <1>1, CheckedKeeps
<1>3. Captured(b, child, queue) /\ Formed(b) /\ Sound(b.ctl)
  BY <1>2, KeepsCaptured DEF Keeps, HoldsOn, Formed
<1>4. ready \in BOOLEAN
  BY DEF Ready
<1>5. CASE PollStarts(b.ctl, ready)
  <2> PICK outcome \in Outcomes :
        /\ app' = Launch(b, outcome)
        /\ child' = [child EXCEPT ![b.ctl.next_id + 1] =
                       IF CanBegin(b.session) THEN ChildOf(outcome) ELSE NoChild]
        /\ UNCHANGED queue
    BY <1>5
  <2> PICK d : d = app'
    OBVIOUS
  <2>1. outcome \in StartOutcome
    BY LiveCaptureAssumption
  <2>2. d = Launch(b, outcome)
    OBVIOUS
  <2> HIDE DEF ready
  <2>3. /\ Captured(d, [child EXCEPT ![b.ctl.next_id + 1] =
                          IF CanBegin(b.session) THEN ChildOf(outcome) ELSE NoChild], queue)
        /\ Begins(b, d)
    BY <1>3, <1>4, <1>5, <2>1, <2>2, LaunchCaptured
  <2>4. Captured(app', child', queue')
    BY <2>3
  <2>5. Capturing(b.ctl)
    BY <1>5 DEF PollStarts, PollLaunches
  <2>6. d.session.seq = b.session.seq
    BY <2>3 DEF Begins, BeginAttempt, SessionOf
  <2>7. /\ d.selected = a.selected /\ d.document = a.document /\ d.view = a.view
        /\ d.session.seq = a.session.seq
        /\ ~a.reset_budget =>
             /\ d.budget.open = a.budget.open /\ d.budget.records >= a.budget.records
             /\ a.budget.spent => d.budget.spent
    BY <1>2, <2>3, <2>6 DEF Begins, Untouched
  <2> QED
    BY <1>2, <2>4, <2>5, <2>7 DEF Advanced
<1>6. CASE ~PollStarts(b.ctl, ready)
  <2> PICK d : d = app'
    OBVIOUS
  <2>1. d = OtherControl(b, Poll(b.ctl, ready)) /\ UNCHANGED channel
    BY <1>6 DEF OtherControl
  <2> HIDE DEF ready
  <2>2. Keeps(b, d) /\ Untouched(b, d) /\ d.ctl.intent = b.ctl.intent
    BY <1>3, <1>4, <1>6, <2>1, IdlePollKeeps
  <2>3. Captured(d, child, queue)
    BY <1>3, <2>2, KeepsCaptured
  <2>4. Untouched(a, d)
    BY <1>1, <1>2, <2>2, KeepsTwice
  <2>5. Capturing(d.ctl) => Capturing(a.ctl)
    BY <1>2, <2>2 DEF Capturing
  <2> QED
    BY <2>1, <2>3, <2>4, <2>5, UntouchedAdvances DEF channel
<1> QED
  BY <1>5, <1>6

\* A step of a child: no process comes to life, and its lines stay in order.
LEMMA ChildCaptured ==
  ASSUME NEW a, Captured(a, child, queue), NEW i \in Id, ChildStep(i)
  PROVE  Captured(a, child', queue')
<1> DEFINE n == a.ctl.next_id
<1>1. /\ Sound(a.ctl) /\ n \in Nat /\ ChannelInv(child, queue, n) /\ a \in AppState
  BY SoundFields DEF Captured, Held
<1>2. /\ ChannelInv(child', queue', n) /\ Frozen(child, child', n)
      /\ \A j \in Id, taken \in Nat :
           OnItsWay(j, taken, child, queue) => OnItsWay(j, taken, child', queue')
  BY <1>1, ChildActsKeepChannel
<1>3. \A j \in Id : /\ child'[j].proc = "alive" => child[j].proc = "alive"
                    /\ child'[j].drain = "none" <=> child[j].drain = "none"
  <2>1. child \in [Id -> Child] /\ child[i] \in Child
    BY <1>1 DEF ChannelInv
  <2> DEFINE Becomes(c) ==
        /\ child' = [child EXCEPT ![i] = c] /\ c.proc \in {child[i].proc, "dead"}
        /\ c.drain = "none" <=> child[i].drain = "none"
  <2>2. \A c : Becomes(c) =>
          \A j \in Id : /\ child'[j].proc \in {child[j].proc, "dead"}
                        /\ child'[j].drain = "none" <=> child[j].drain = "none"
    BY <2>1
  <2>3. CASE SendStarted(i)
    <3>1. Becomes([child[i] EXCEPT !.reader = "open"])
      BY <2>1, <2>3 DEF SendStarted, Child
    <3> QED
      BY <2>2, <3>1
  <2>4. CASE SendEntry(i)
    <3>1. Becomes([child[i] EXCEPT !.lines = child[i].lines + 1])
      BY <2>1, <2>4 DEF SendEntry, Child
    <3> QED
      BY <2>2, <3>1
  <2>5. CASE EndReader(i)
    <3>1. Becomes([child[i] EXCEPT !.reader = "done"])
      BY <2>1, <2>5 DEF EndReader, Child
    <3> QED
      BY <2>2, <3>1
  <2>6. CASE Die(i)
    <3>1. Becomes([child[i] EXCEPT !.proc = "dead"])
      BY <2>1, <2>6 DEF Die, Child
    <3> QED
      BY <2>2, <3>1
  <2>7. CASE Reap(i)
    <3>1. Becomes([child[i] EXCEPT !.drain = "done"])
      BY <2>1, <2>7 DEF Reap, Child
    <3> QED
      BY <2>2, <3>1
  <2> QED
    BY <2>3, <2>4, <2>5, <2>6, <2>7 DEF ChildStep
<1> HIDE DEF n
<1>4. Held(a, child', queue')
  <2>1. a.handle # NoId => a.handle \in Id
    BY <1>1, AppFields DEF Fields
  <2> QED
    BY <1>2, <1>3, <2>1 DEF Captured, Held, n
<1>5. Flowing(child', queue')
  <2>1. \A taken \in 0 .. Lines : taken \in Nat
    BY LogcatChildAssumption
  <2> QED
    BY <1>2, <2>1 DEF Captured, Lined, Flowing
<1>6. a.view # <<>> => /\ LastShown(a).attempt \in Id /\ LastShown(a).line \in Nat
                       /\ LastShown(a).attempt <= n
  BY <1>1, ViewFields, RecordFields DEF Captured, Shown, n
<1>7. Lined(a, child', queue')
  <2>1. a.view # <<>> /\ LastShown(a).attempt = ActiveId(a.ctl) => ActiveId(a.ctl) \in Id
    BY <1>6
  <2>2. \A k \in DOMAIN a.view : child'[a.view[k].attempt].drain # "none"
    <3>1. \A k \in DOMAIN a.view : a.view[k].attempt \in Id
      BY <1>1, ViewFields, RecordFields
    <3> QED
      BY <1>3, <3>1 DEF Captured, Lined
  <2> QED
    BY <1>2, <1>5, <1>6, <2>1, <2>2 DEF Captured, Lined
<1>8. TRUE \notin Scopes => Followed(a, child', queue')
  BY <1>2, <1>6 DEF Captured, Followed, Frozen, Exhausted
<1> QED
  BY <1>4, <1>7, <1>8 DEF Captured

\* The queue never grows past its capacity.
LEMMA ChildKeepsQueue ==
  ASSUME NEW n \in Nat, ChannelInv(child, queue, n), NEW i \in Id, ChildStep(i),
         Len(queue) <= QueueCap
  PROVE  Len(queue') <= QueueCap
<1>1. \A e : Send(e) /\ e \in Event(Id) => Len(queue') <= QueueCap
  <2> SUFFICES ASSUME NEW e \in Event(Id), Send(e)
               PROVE  Len(queue') <= QueueCap
    OBVIOUS
  <2>1. Len(Append(queue, e)) = Len(queue) + 1 /\ Len(queue) \in Nat
    BY AppendProperties, LenProperties DEF ChannelInv
  <2> QED
    BY <2>1, LogcatChildAssumption DEF Send
<1>2. child[i].lines \in 0 .. Lines
  BY ChildFields DEF ChannelInv
<1>3. CASE SendStarted(i)
  <2>1. StartedEvent(i) \in Event(Id)
    BY DEF StartedEvent, Event
  <2> QED
    BY <1>1, <1>3, <2>1 DEF SendStarted
<1>4. CASE SendEntry(i)
  <2>1. EntryEvent(i, child[i].lines + 1) \in Event(Id)
    BY <1>2, <1>4, LogcatChildAssumption DEF SendEntry, EntryEvent, Event
  <2> QED
    BY <1>1, <1>4, <2>1 DEF SendEntry
<1>5. CASE Reap(i)
  <2>1. \A clean \in BOOLEAN : ExitedEvent(i, clean) \in Event(Id)
    BY DEF ExitedEvent, Event
  <2> QED
    BY <1>1, <1>5, <2>1 DEF Reap
<1> QED
  BY <1>3, <1>4, <1>5 DEF ChildStep, EndReader, Die

-------------------------------------------------------------------------------
(* What the user does *)

LEMMA AdvancedFiled ==
  ASSUME NEW a, NEW b, Advanced(a, b), Filed(a)
  PROVE  Filed(b)
  BY DEF Advanced, Filed

\* The choice of a source, and a start.
LEMMA SwitchCaptured ==
  ASSUME Captured(app, child, queue), NEW device \in Target, SwitchDevice(device)
  PROVE  Captured(app', child', queue') /\ queue' = queue /\ Filed(app')
<1> PICK b : b = Switched(app, device)
  OBVIOUS
<1> PICK c : c = StartAsked(b)
  OBVIOUS
<1>1. Formed(app)
  BY DEF Captured, Held, Formed
<1>2. Keeps(app, b) /\ b.selected = device /\ ~b.document
  BY <1>1, SwitchedKeeps
<1>3. Formed(b) /\ b.selected \in Target
  BY <1>2 DEF Keeps, HoldsOn
<1>4. Keeps(b, c) /\ c.document = b.document
  BY <1>3, StartAskedKeeps
<1>5. Captured(c, child, queue)
  BY <1>2, <1>4, KeepsCaptured
<1>6. AdvanceWith(c, available)
  BY DEF SwitchDevice, Advance
<1>7. Captured(app', child', queue') /\ queue' = queue /\ Advanced(c, app')
  BY <1>5, <1>6, AdvanceCaptured
<1> QED
  BY <1>2, <1>4, <1>7 DEF Advanced, Filed

LEMMA StartCaptured ==
  ASSUME Captured(app, child, queue), available \in SUBSET Target, StartButton
  PROVE  Captured(app', child', queue') /\ queue' = queue /\ Filed(app')
<1> PICK c : c = StartAsked(app)
  OBVIOUS
<1>1. Formed(app) /\ app.selected \in Target /\ ~app.document
  BY DEF Captured, Held, Formed, StartButton, Ready
<1>2. Keeps(app, c) /\ c.document = app.document
  BY <1>1, StartAskedKeeps
<1>3. Captured(c, child, queue)
  BY <1>2, KeepsCaptured
<1>4. AdvanceWith(c, available)
  BY DEF StartButton, Advance
<1>5. Captured(app', child', queue') /\ queue' = queue /\ Advanced(c, app')
  BY <1>3, <1>4, AdvanceCaptured
<1> QED
  BY <1>1, <1>2, <1>5 DEF Advanced, Filed

\* Settings that start the wanted capture again, and a retry: both give up the budget.
LEMMA RestartCaptured ==
  ASSUME Captured(app, child, queue), NEW dump, dump = app.dump \/ dump \in Scopes,
         NEW c, c = Reset(app, dump), NEW d,
         \/ d = c
         \/ c.selected # NoDevice /\ d = SetIntent(c, c.selected, TRUE),
         AdvanceWith(d, available) \/ (app' = d /\ UNCHANGED channel),
         Filed(app)
  PROVE  Captured(app', child', queue') /\ queue' = queue /\ Filed(app')
<1>1. Formed(app)
  BY DEF Captured, Held, Formed
<1>2. /\ Keeps(app, c) /\ c.ctl = app.ctl /\ c.selected = app.selected
      /\ c.document = app.document /\ c.view = app.view /\ c.handle = app.handle
  BY <1>1, ResetKeeps
<1>3. Captured(c, child, queue) /\ Filed(c)
  BY <1>2, KeepsCaptured DEF Filed
<1>4. Captured(d, child, queue) /\ Filed(d)
  <2>1. CASE d = c
    BY <1>3, <2>1
  <2>2. CASE c.selected # NoDevice /\ d = SetIntent(c, c.selected, TRUE)
    <3>1. Formed(c) /\ c.selected \in Intent
      BY <1>3, <2>2, AppFields DEF Captured, Held, Formed, Fields, Intent
    <3>2. \E restart \in BOOLEAN : d = SetIntent(c, c.selected, restart)
      BY <2>2, Zenon
    <3>3. Keeps(c, d) /\ Untouched(c, d) /\ d.ctl.intent = c.selected
      BY <3>1, <3>2, SetIntentKeeps
    <3>4. ~d.document
      BY <1>3, <2>2, <3>3 DEF Untouched, Filed
    <3>5. Captured(d, child, queue)
      BY <1>3, <3>3, KeepsCaptured
    <3> QED
      BY <3>4, <3>5 DEF Filed
  <2> QED
    BY <2>1, <2>2
<1>5. CASE AdvanceWith(d, available)
  <2>1. Captured(app', child', queue') /\ queue' = queue /\ Advanced(d, app')
    BY <1>4, <1>5, AdvanceCaptured
  <2> QED
    BY <1>4, <2>1, AdvancedFiled
<1>6. CASE app' = d /\ UNCHANGED channel
  BY <1>4, <1>6 DEF channel
<1> QED
  BY <1>5, <1>6

LEMMA SettingsCaptured ==
  ASSUME Captured(app, child, queue), Filed(app), NEW dump \in Scopes, ApplySettings(dump)
  PROVE  Captured(app', child', queue') /\ queue' = queue /\ Filed(app')
<1> PICK c : c = Reset(app, dump)
  OBVIOUS
<1> PICK d : d = IF ~Capturing(app.ctl) \/ app.selected = NoDevice THEN c
                 ELSE SetIntent(c, app.selected, TRUE)
  OBVIOUS
<1>1. c.selected = app.selected
  BY AppFields DEF Captured, Held, Fields, AppDomain, Reset
<1>2. \/ d = c
      \/ c.selected # NoDevice /\ d = SetIntent(c, c.selected, TRUE)
  BY <1>1
<1>3. AdvanceWith(d, available) \/ (app' = d /\ UNCHANGED channel)
  BY DEF ApplySettings, Advance, Sets, Reset
<1> QED
  BY <1>2, <1>3, RestartCaptured

LEMMA RetryCaptured ==
  ASSUME Captured(app, child, queue), Filed(app), RetryButton
  PROVE  Captured(app', child', queue') /\ queue' = queue /\ Filed(app')
<1>1. Formed(app) /\ Fields(app)
  BY AppFields DEF Captured, Held, Formed
<1>2. CASE app.selected = NoDevice
  <2>1. AdvanceWith(app, available)
    BY <1>2 DEF RetryButton, Advance
  <2>2. Captured(app', child', queue') /\ queue' = queue /\ Advanced(app, app')
    BY <2>1, AdvanceCaptured
  <2> QED
    BY <2>2, AdvancedFiled
<1>3. CASE app.selected # NoDevice
  <2> PICK c : c = Reset(app, app.dump)
    OBVIOUS
  <2> PICK d : d = SetIntent(c, app.selected, TRUE)
    OBVIOUS
  <2>1. [app EXCEPT !.reset_budget = TRUE] = c /\ c.selected = app.selected
    BY <1>1 DEF Formed, Fields, AppDomain, AppState, Reset
  <2>2. AdvanceWith(d, available)
    BY <1>3, <2>1 DEF RetryButton, Advance
  <2>3. c.selected # NoDevice /\ d = SetIntent(c, c.selected, TRUE)
    BY <1>3, <2>1
  <2> QED
    BY <2>2, <2>3, RestartCaptured
<1> QED
  BY <1>2, <1>3

LEMMA SetsCaptured ==
  ASSUME Captured(app, child, queue), NEW b, Keeps(app, b), Filed(b), Sets(b)
  PROVE  Captured(app', child', queue') /\ queue' = queue /\ Filed(app')
  BY KeepsCaptured DEF Sets, channel

LEMMA UserCaptured ==
  ASSUME CaptureInv, Filed(app), UserAction
  PROVE  CaptureInv' /\ Filed(app')
<1>1. /\ Captured(app, child, queue) /\ available \in SUBSET Target /\ Formed(app)
      /\ Len(queue) <= QueueCap
  BY DEF CaptureInv, Captured, Held, Formed
<1>2. at' = "logic" /\ available' = available
  BY DEF UserAction, ByUser
<1>3. Captured(app', child', queue') /\ queue' = queue /\ Filed(app')
  <2>1. CASE \E device \in Target : ByUser(SwitchDevice(device))
    BY <1>1, <2>1, SwitchCaptured DEF ByUser
  <2>2. CASE ByUser(StartButton)
    BY <1>1, <2>2, StartCaptured DEF ByUser
  <2>3. CASE ByUser(PauseButton)
    <3> PICK b : b = SetIntent(app, "Paused", FALSE)
      OBVIOUS
    <3>1. \E restart \in BOOLEAN : b = SetIntent(app, "Paused", restart)
      BY Zenon
    <3>2. "Paused" \in Intent
      BY DEF Intent
    <3>3. Keeps(app, b) /\ Untouched(app, b) /\ b.ctl.intent = "Paused"
      BY <1>1, <3>1, <3>2, SetIntentKeeps
    <3>4. Filed(b)
      BY <3>3, ControllerAssumption DEF Untouched, Filed, Capturing
    <3>5. Sets(b)
      BY <2>3 DEF ByUser, PauseButton
    <3> QED
      BY <1>1, <3>3, <3>4, <3>5, SetsCaptured
  <2>4. CASE ByUser(CloseButton)
    <3> PICK b : b = CloseCapture(app)
      OBVIOUS
    <3>1. /\ Keeps(app, b) /\ b.selected = NoDevice /\ ~Capturing(b.ctl)
          /\ b.document = app.document /\ b.handle = app.handle /\ b.view = app.view
      BY <1>1, CloseCaptureKeeps
    <3>2. Filed(b) /\ Sets(b)
      BY <2>4, <3>1 DEF ByUser, CloseButton, Filed
    <3> QED
      BY <1>1, <3>1, <3>2, SetsCaptured
  <2>5. CASE \E dump \in Scopes : ByUser(ApplySettings(dump))
    BY <1>1, <2>5, SettingsCaptured DEF ByUser
  <2>6. CASE ByUser(RetryButton)
    BY <1>1, <2>6, RetryCaptured DEF ByUser
  <2>7. CASE ByUser(ClearView)
    <3> PICK b : b = Cleared(app)
      OBVIOUS
    <3>1. Keeps(app, b) /\ b.document = app.document
      BY <1>1, ClearedKeeps
    <3>2. ~app.document /\ Sets(b)
      BY <2>7 DEF ByUser, ClearView
    <3>3. Filed(b)
      BY <3>1, <3>2 DEF Filed
    <3> QED
      BY <1>1, <3>1, <3>2, <3>3, SetsCaptured
  <2> QED
    BY <2>1, <2>2, <2>3, <2>4, <2>5, <2>6, <2>7 DEF UserAction
<1> QED
  BY <1>1, <1>2, <1>3 DEF CaptureInv

-------------------------------------------------------------------------------
(* Every step of the capture *)

\* What is common to the steps that are not the user's: no choice is made, no capture
\* is asked for, and what is behind a file stays as it is.
Routine(a, b) ==
  /\ b.selected = a.selected /\ b.document = a.document
  /\ Capturing(b.ctl) => Capturing(a.ctl)
  /\ a.handle = NoId /\ ~Capturing(a.ctl) => b.handle = NoId /\ b.view = a.view

LEMMA EventCaptured ==
  ASSUME CaptureInv, HandleEvent
  PROVE  CaptureInv' /\ Routine(app, app') /\ Admits(app, app')
<1>1. /\ Captured(app, child, queue) /\ queue # <<>> /\ app' \in Handled(app, Head(queue))
      /\ queue' = Tail(queue) /\ UNCHANGED <<available, at, child>>
      /\ Len(queue) <= QueueCap /\ queue \in Seq(Event(Id))
  BY DEF CaptureInv, HandleEvent, Captured, Held, ChannelInv
<1>2. /\ Captured(app', child, Tail(queue)) /\ Admits(app, app')
      /\ app.handle = NoId => app' = app
  BY <1>1, HandledCaptured
<1>3. Len(Tail(queue)) <= QueueCap
  <2>1. Len(Tail(queue)) = Len(queue) - 1 /\ Len(queue) \in Nat
    BY <1>1, HeadTailProperties, LenProperties
  <2> QED
    BY <1>1, <2>1, LogcatChildAssumption
<1> QED
  BY <1>1, <1>2, <1>3 DEF CaptureInv, Routine, Admits

LEMMA RestCaptured ==
  ASSUME CaptureInv, NEW next \in {"files", "ui"}, EndLogic(next) \/ Discover
  PROVE  CaptureInv' /\ Routine(app, app') /\ Advanced(app, app')
<1>1. PICK devices : AdvanceWith(app, devices)
  BY DEF EndLogic, Discover, Advance
<1>2. Captured(app', child', queue') /\ queue' = queue /\ Advanced(app, app')
  BY <1>1, AdvanceCaptured DEF CaptureInv
<1>3. available' \in SUBSET Target /\ at' \in {"logic", "files", "ui"}
  BY LiveCaptureAssumption DEF CaptureInv, EndLogic, Discover
<1> QED
  BY <1>2, <1>3 DEF CaptureInv, Advanced, Routine

LEMMA ChildActsCaptured ==
  ASSUME CaptureInv, ChildActs
  PROVE  CaptureInv' /\ app' = app
<1>1. PICK i \in Id : ChildStep(i) /\ UNCHANGED <<app, available, at>>
  BY DEF ChildActs
<1>2. Captured(app, child', queue')
  BY <1>1, ChildCaptured DEF CaptureInv
<1>3. app.ctl.next_id \in Nat /\ ChannelInv(child, queue, app.ctl.next_id)
  BY SoundFields DEF CaptureInv, Captured, Held
<1>4. Len(queue') <= QueueCap
  BY <1>1, <1>3, ChildKeepsQueue DEF CaptureInv
<1> QED
  BY <1>1, <1>2, <1>4 DEF CaptureInv

LEMMA TickCaptured ==
  ASSUME CaptureInv, Tick
  PROVE  CaptureInv' /\ Untouched(app, app') /\ (Capturing(app'.ctl) => Capturing(app.ctl))
<1> PICK b : b = OtherControl(app, Elapse(app.ctl))
  OBVIOUS
<1>1. app' = b /\ UNCHANGED <<available, at, child, queue>>
  BY DEF Tick, OtherControl
<1>2. Formed(app) /\ Captured(app, child, queue)
  BY DEF CaptureInv, Captured, Held, Formed
<1>3. Keeps(app, b) /\ Untouched(app, b) /\ b.ctl.intent = app.ctl.intent
  BY <1>2, ElapseKeeps
<1>4. Captured(b, child, queue)
  BY <1>2, <1>3, KeepsCaptured
<1> QED
  BY <1>1, <1>3, <1>4 DEF CaptureInv, Capturing

LEMMA IdleCaptured ==
  ASSUME CaptureInv, NoAction \/ UNCHANGED vars
  PROVE  CaptureInv'
  BY DEF CaptureInv, NoAction, vars, channel

LEMMA NewAppCaptured == Init => CaptureInv /\ Filed(app)
<1> SUFFICES ASSUME Init
             PROVE  CaptureInv /\ Filed(app)
  OBVIOUS
<1>1. /\ app = NewApp /\ available = {} /\ at = "logic"
      /\ child = [i \in Id |-> NoChild] /\ queue = <<>>
  BY DEF Init, ChannelInit
<1>2. Sound(NewController) /\ NewController.next_id = 0 /\ ActiveId(NewController) = NoId
  BY NewIsSound DEF NewController, Controlled, Idle, ActiveId, HasAttempt, IsActive, IsStopping
<1>3. /\ NewSession(1) \in SessionState(SessionId) /\ ~NewSession(1).started
      /\ NewSession(1).seq = 0
  BY SessionAssumption DEF NewSession, SessionOf, SessionState, SessionId
<1>4. NoBudget \in Budget /\ NoBudget.records # RecordLimit
  BY LiveCaptureAssumption DEF NoBudget, Budget
<1>5. /\ app.ctl = NewController /\ app.handle = NoId /\ app.view = <<>>
      /\ app.session = NewSession(1) /\ app.budget = NoBudget /\ app.reset_budget = TRUE
      /\ app.dump = FALSE /\ app.attempt_dump = FALSE /\ app.document = FALSE
  BY <1>1 DEF NewApp
<1>6. app \in AppState
  <2>1. NewController \in ControllerState /\ <<>> \in Seq(ViewRecord)
    BY <1>2, EmptySeq DEF Sound
  <2> QED
    BY <1>1, <1>3, <1>4, <2>1 DEF NewApp, AppState, Budget
<1>7. /\ child \in [Id -> Child] /\ \A i \in Id : child[i] = NoChild
      /\ \A i \in Id : child[i].proc # "alive"
  BY <1>1, NoChildFields
<1>8. ChannelInv(child, queue, 0) /\ Flowing(child, queue)
  <2>1. queue \in Seq(Event(Id)) /\ DOMAIN queue = {}
    BY <1>1, EmptySeq
  <2>2. ChannelInv(child, queue, 0)
    BY <1>7, <2>1 DEF ChannelInv
  <2> QED
    BY <1>1, <1>7, <2>2, NothingFlows
<1>9. Held(app, child, queue)
  BY <1>2, <1>5, <1>6, <1>7, <1>8 DEF Held
<1>10. Budgeted(app)
  BY <1>4, <1>5 DEF Budgeted
<1>11. Shown(app) /\ Lined(app, child, queue)
  BY <1>3, <1>5, <1>6, <1>8, NothingShown
<1>12. Followed(app, child, queue)
  BY <1>5 DEF Followed
<1>13. Len(queue) <= QueueCap
  <2>1. Len(queue) = 0
    BY <1>1
  <2> QED
    BY <2>1, LogcatChildAssumption
<1> QED
  BY <1>1, <1>5, <1>9, <1>10, <1>11, <1>12, <1>13 DEF CaptureInv, Captured, Filed

\* Every step of LiveCapture, of which EndLogic("files") is SourceReplace's.
LEMMA CaptureStep ==
  ASSUME CaptureInv, Filed(app), [Next]_vars
  PROVE  CaptureInv' /\ Filed(app')
<1>1. CASE HandleEvent
  BY <1>1, EventCaptured DEF Routine, Filed
<1>2. CASE EndLogic("ui") \/ Discover
  BY <1>2, RestCaptured DEF Routine, Filed
<1>3. CASE UserAction
  BY <1>3, UserCaptured
<1>4. CASE ChildActs
  BY <1>4, ChildActsCaptured
<1>5. CASE Tick
  BY <1>5, TickCaptured DEF Untouched, Filed
<1>6. CASE NoAction \/ UNCHANGED vars
  BY <1>6, IdleCaptured DEF NoAction, vars
<1> QED
  BY <1>1, <1>2, <1>3, <1>4, <1>5, <1>6 DEF Next

-------------------------------------------------------------------------------
(* What follows *)

LEMMA CaptureInvHolds ==
  ASSUME CaptureInv
  PROVE  TypeOK /\ EveryChildIsHeld /\ ViewHasNoHoles
<1>1. TypeOK
  BY DEF CaptureInv, Captured, Held, ChannelInv, TypeOK, ChannelType
<1>2. EveryChildIsHeld
  <2>1. /\ app.handle = ActiveId(app.ctl)
        /\ app.handle # NoId => child[app.handle].drain # "none"
        /\ \A i \in Id : child[i].proc = "alive" /\ child[i].drain # "none" => app.handle = i
        /\ \A k \in DOMAIN app.view : child[app.view[k].attempt].drain # "none"
    BY DEF CaptureInv, Captured, Held, Lined
  <2>2. \A i \in Id : i # NoId
    BY DEF Id, NoId
  <2> QED
    BY <2>1, <2>2 DEF EveryChildIsHeld, Abandoned
<1>3. ViewHasNoHoles
  BY DEF CaptureInv, Captured, Shown, Continues, LastShown, ViewHasNoHoles, OneSource
<1> QED
  BY <1>1, <1>2, <1>3

\* For every number of devices, attempts and lines: a process that runs is the one the
\* handle can stop, or its start failed and killing it failed too, and then the handle is
\* never it and none of its lines are shown; the handle is the controller's attempt,
\* whatever the order of starts that fail, stops, late exits, new sources and restarts
\* (advance_capture, halt_capture, poll_backend).
THEOREM ChildrenStayHeld == Spec => []EveryChildIsHeld
<1>1. Init => CaptureInv /\ Filed(app)
  BY NewAppCaptured
<1>2. (CaptureInv /\ Filed(app)) /\ [Next]_vars => (CaptureInv /\ Filed(app))'
  BY CaptureStep
<1>3. CaptureInv /\ Filed(app) => EveryChildIsHeld
  BY CaptureInvHolds
<1> QED
  BY <1>1, <1>2, <1>3, PTL DEF Spec

\* Whatever was switched, stopped, refused, trimmed or cleared meanwhile: the records
\* shown are of the live source and the retained device, numbered without a gap, and
\* within an attempt no line is missing (append_received_entry, accepts_capture_data).
THEOREM ViewStaysWhole == Spec => []ViewHasNoHoles
<1>1. Init => CaptureInv /\ Filed(app)
  BY NewAppCaptured
<1>2. (CaptureInv /\ Filed(app)) /\ [Next]_vars => (CaptureInv /\ Filed(app))'
  BY CaptureStep
<1>3. CaptureInv /\ Filed(app) => ViewHasNoHoles
  BY CaptureInvHolds
<1> QED
  BY <1>1, <1>2, <1>3, PTL DEF Spec

\* What SnapshotIsBounded says of one step.
Bounded ==
  at = "logic" /\ ~app.reset_budget =>
    /\ app.budget.open =>
         /\ app'.budget.open
         /\ app'.budget.records >= app.budget.records
         /\ app.budget.spent => app'.budget.spent
    /\ app.attempt_dump /\ app'.session.seq > app.session.seq =>
         /\ app.budget.open /\ ~app.budget.spent
         /\ app'.budget.records = app.budget.records + 1

LEMMA StepIsBounded ==
  ASSUME CaptureInv, Next
  PROVE  Bounded
<1>1. /\ Budgeted(app) /\ app.budget.records >= app.budget.records
      /\ ~(app.session.seq > app.session.seq)
  <2>1. Budgeted(app) /\ Formed(app) /\ app.session.seq \in Nat
    BY AppFields, SessionAssumption
       DEF CaptureInv, Captured, Held, Formed, Fields, SessionState
  <2> QED
    BY <2>1, BudgetFields
<1>2. CASE HandleEvent
  BY <1>1, <1>2, EventCaptured DEF Admits, Bounded, Budgeted
<1>3. CASE EndLogic("ui") \/ Discover
  BY <1>1, <1>3, RestCaptured DEF Advanced, Bounded
<1>4. CASE NoAction \/ UserAction
  BY <1>4 DEF NoAction, UserAction, ByUser, Bounded
<1>5. CASE ChildActs
  BY <1>1, <1>5, ChildActsCaptured DEF Bounded
<1>6. CASE Tick
  BY <1>1, <1>6, TickCaptured DEF Untouched, Bounded
<1> QED
  BY <1>2, <1>3, <1>4, <1>5, <1>6 DEF Next

\* Between two requests of the user one budget counts every record a finite snapshot
\* adds, whatever its limit, over retries too (admit, advance_capture).
THEOREM SnapshotStaysBounded == Spec => SnapshotIsBounded
<1>1. Init => CaptureInv /\ Filed(app)
  BY NewAppCaptured
<1>2. (CaptureInv /\ Filed(app)) /\ [Next]_vars => (CaptureInv /\ Filed(app))'
  BY CaptureStep
<1>3. (CaptureInv /\ Filed(app)) /\ [Next]_vars => [Bounded]_vars
  BY StepIsBounded
<1> QED
  BY <1>1, <1>2, <1>3, PTL DEF Spec, SnapshotIsBounded, Bounded

-------------------------------------------------------------------------------
(* Files that replace the view *)

\* A file takes the place of the live source, or is closed.
WithFile(a, document) ==
  [NewSource(a) EXCEPT !.retained = NoDevice, !.document = document]

LEMMA WithFileKeeps ==
  ASSUME NEW a, Formed(a), NEW document \in BOOLEAN, NEW b, b = WithFile(a, document)
  PROVE  Keeps(a, b) /\ b.ctl = a.ctl /\ b.view = <<>>
         /\ b.selected = a.selected /\ b.document = document /\ b.handle = a.handle
<1> PICK c : c = NewSource(a)
  OBVIOUS
<1>1. /\ Keeps(a, c) /\ c.ctl = a.ctl /\ c.view = <<>>
      /\ c.selected = a.selected /\ c.handle = a.handle
  BY NewSourceKeeps
<1>2. c \in AppState /\ Formed(c) /\ Fields(c)
  BY <1>1, AppFields DEF Keeps, HoldsOn, Formed
<1>3. b = [c EXCEPT !.retained = NoDevice, !.document = document]
  BY DEF WithFile
<1>4. /\ b.ctl = c.ctl /\ b.handle = c.handle /\ b.view = c.view /\ b.session = c.session
      /\ b.owner = c.owner /\ b.attempt_dump = c.attempt_dump /\ b.dump = c.dump
      /\ b.budget = c.budget /\ b.reset_budget = c.reset_budget
      /\ b.selected = c.selected /\ b.document = document
  BY <1>2, <1>3 DEF Fields, AppDomain
<1>5. b \in AppState
  BY <1>2, <1>3 DEF AppState
<1>6. Keeps(c, b)
  BY <1>1, <1>2, <1>4, <1>5 DEF Keeps, HoldsOn, ShowsOn, Formed, Budgeted
<1> QED
  BY <1>1, <1>2, <1>4, <1>6, KeepsTwice

\* The application and its files together.
Together(s, ch, q) == Captured(s.a, ch, q) /\ FilesInv(s.a, s.f)

LEMMA BothFields ==
  ASSUME NEW a, NEW f, NEW s, s = Both(a, f)
  PROVE  s.a = a /\ s.f = f
  BY DEF Both

LEMMA FileFields ==
  ASSUME NEW f \in FilesState
  PROVE  /\ DOMAIN f = {"dialog", "job", "candidate", "replace"}
         /\ f.dialog \in Action \cup {"none"} /\ f.candidate \in BOOLEAN
         /\ f.replace \in {"none", "discard", "save"}
         /\ f.job.action \in Action \cup {"none"} /\ f.job.cancelled \in BOOLEAN
         /\ f.job.result \in {"pending", "ok", "failed"} /\ f.job.saved \in Seq(ViewRecord)
         /\ DOMAIN f.job = {"action", "cancelled", "result", "saved"}
  BY DEF FilesState

LEMMA NoJobFields ==
  /\ NoJob.action = "none" /\ ~NoJob.cancelled
  /\ NoJob \in [action : Action \cup {"none"}, cancelled : BOOLEAN,
                result : {"pending", "ok", "failed"}, saved : Seq(ViewRecord)]
  BY EmptySeq DEF NoJob

\* The job is over.
JobOver(f) == [f EXCEPT !.job = NoJob]

LEMMA JobOverFields ==
  ASSUME NEW f \in FilesState, NEW g, g = JobOver(f)
  PROVE  /\ g \in FilesState /\ g.job = NoJob /\ g.job.action = "none"
         /\ g.dialog = f.dialog /\ g.candidate = f.candidate /\ g.replace = f.replace
  BY NoJobFields, FileFields DEF FilesState, JobOver

\* The replacement is given up.
LEMMA DroppedFields ==
  ASSUME NEW f \in FilesState, NEW g, g = Dropped(f)
  PROVE  /\ g \in FilesState /\ g.job = f.job
         /\ g.dialog = f.dialog /\ g.candidate = FALSE /\ g.replace = "none"
  BY FileFields DEF FilesState, Dropped

\* With no capture running or wanted, a candidate is installed or refused.
Installable(a, f) ==
  /\ Filed(a) /\ a.handle = NoId /\ ~Capturing(a.ctl) /\ a.selected = NoDevice
  /\ f \in FilesState /\ f.candidate /\ f.job = NoJob /\ f.dialog = "none"

LEMMA InstallTogether ==
  ASSUME NEW s, NEW ch, NEW q, Captured(s.a, ch, q), Installable(s.a, s.f),
         NEW too_big, NEW t, t = Install(s, too_big)
  PROVE  Together(t, ch, q)
<1> PICK f : f = Dropped(s.f)
  OBVIOUS
<1> DEFINE b == WithFile(s.a, TRUE)
<1>1. /\ f \in FilesState /\ f.job = NoJob
      /\ f.dialog = "none" /\ f.candidate = FALSE /\ f.replace = "none"
  BY DroppedFields DEF Installable
<1>2. t = Both(s.a, f) \/ t = Both(b, f)
  BY DEF Install, WithFile, Installable
<1>3. Formed(s.a)
  BY DEF Captured, Held, Formed
<1>4. /\ Keeps(s.a, b) /\ b.ctl = s.a.ctl /\ b.view = <<>>
      /\ b.selected = s.a.selected /\ b.document = TRUE /\ b.handle = s.a.handle
  BY <1>3, WithFileKeeps
<1> HIDE DEF b
<1>5. Captured(b, ch, q) /\ Filed(b)
  BY <1>4, KeepsCaptured DEF Filed, Installable
<1>6. Ordered(f) /\ ~Replacing(f)
  BY <1>1, NoJobFields DEF Ordered, Replacing
<1>7. Waits(s.a, f) /\ Waits(b, f)
  BY <1>6 DEF Waits, Replacing
<1>8. CASE t = Both(s.a, f)
  <2>1. t.a = s.a /\ t.f = f
    BY <1>8, BothFields
  <2> QED
    BY <1>6, <1>7, <2>1 DEF Together, FilesInv, Installable
<1>9. CASE t = Both(b, f)
  <2>1. t.a = b /\ t.f = f
    BY <1>9, BothFields
  <2> QED
    BY <1>5, <1>6, <1>7, <2>1 DEF Together, FilesInv
<1> QED
  BY <1>2, <1>8, <1>9

\* The result of a job.
LEMMA AfterJobTogether ==
  ASSUME NEW s, NEW ch, NEW q, Together(s, ch, q), NEW too_big,
         NEW t, t = AfterJob(s, too_big)
  PROVE  Together(t, ch, q)
<1> PICK job : job = s.f.job
  OBVIOUS
<1> PICK f : f = JobOver(s.f)
  OBVIOUS
<1>1. /\ Captured(s.a, ch, q) /\ Ordered(s.f) /\ Filed(s.a) /\ Waits(s.a, s.f)
      /\ s.f \in FilesState
  BY DEF Together, FilesInv, Ordered
<1>2. /\ f \in FilesState /\ f.job = NoJob /\ f.job.action = "none"
      /\ f.dialog = s.f.dialog /\ f.candidate = s.f.candidate /\ f.replace = s.f.replace
  BY <1>1, JobOverFields
<1>3. CASE job.action = "none" \/ job.result = "pending"
  <2>1. t = s
    BY <1>3 DEF AfterJob
  <2> QED
    BY <2>1
<1>4. ASSUME job.action # "none"
      PROVE  s.f.dialog = "none" /\ s.f.replace = "none" /\ job.action \in Action
             /\ (s.f.candidate => job.action = "before")
  BY <1>1, <1>4, FileFields DEF Ordered
<1>5. ASSUME NEW g \in FilesState, g.job = NoJob, g.dialog = "none", g.replace = "none"
      PROVE  Ordered(g) /\ Waits(s.a, g)
  BY <1>5, NoJobFields DEF Ordered, Waits, Replacing
<1>6. CASE job.action # "none" /\ job.result = "failed"
  <2> PICK g : g = OperationFailed(f, job.action)
    OBVIOUS
  <2>1. t = Both(s.a, g)
    BY <1>6 DEF AfterJob, JobOver
  <2>2. g \in FilesState /\ g.job = NoJob /\ g.dialog = "none" /\ g.replace = "none"
    BY <1>2, <1>4, <1>6, DroppedFields DEF OperationFailed
  <2> QED
    BY <1>1, <1>5, <2>1, <2>2, BothFields DEF Together, FilesInv
<1>7. CASE job.action \in {"save", "open"} /\ job.result # "failed" /\ job.result # "pending"
  <2>1. s.f.dialog = "none" /\ s.f.replace = "none"
    BY <1>4, <1>7
  <2> PICK loaded : loaded = [f EXCEPT !.candidate = TRUE]
    OBVIOUS
  <2>2. /\ loaded \in FilesState /\ loaded.job = NoJob /\ loaded.candidate = TRUE
        /\ loaded.dialog = "none" /\ loaded.replace = "none"
    BY <1>2, <2>1, FileFields DEF FilesState
  <2> PICK closed : closed = CloseCapture(s.a)
    OBVIOUS
  <2>3. \/ t = Both(s.a, f)
        \/ t = Both(s.a, loaded)
        \/ s.a.view = <<>> /\ s.a.handle = NoId /\ t = Install(Both(closed, loaded), too_big)
    BY <1>7 DEF AfterJob, JobOver
  <2>4. CASE t = Both(s.a, f) \/ t = Both(s.a, loaded)
    <3>1. Ordered(f) /\ Waits(s.a, f) /\ Ordered(loaded) /\ Waits(s.a, loaded)
      BY <1>2, <1>5, <2>1, <2>2
    <3>2. t.a = s.a /\ t.f \in {f, loaded}
      BY <2>4, BothFields
    <3> QED
      BY <1>1, <3>1, <3>2 DEF Together, FilesInv
  <2>5. CASE s.a.view = <<>> /\ s.a.handle = NoId /\ t = Install(Both(closed, loaded), too_big)
    <3>1. Formed(s.a)
      BY <1>1 DEF Captured, Held, Formed
    <3>2. /\ Keeps(s.a, closed) /\ closed.selected = NoDevice /\ ~Capturing(closed.ctl)
          /\ closed.document = s.a.document /\ closed.handle = NoId /\ closed.view = <<>>
      BY <2>5, <3>1, CloseCaptureKeeps
    <3>3. Captured(closed, ch, q) /\ Filed(closed)
      BY <1>1, <3>2, KeepsCaptured DEF Filed
    <3> PICK u : u = Both(closed, loaded)
      OBVIOUS
    <3>4. u.a = closed /\ u.f = loaded /\ t = Install(u, too_big)
      BY <2>5, BothFields
    <3>5. Installable(closed, loaded)
      BY <2>2, <3>2, <3>3 DEF Installable
    <3> QED
      BY <3>3, <3>4, <3>5, InstallTogether
  <2> QED
    BY <2>3, <2>4, <2>5
<1>8. CASE job.action = "before" /\ job.result # "failed" /\ job.result # "pending"
  <2>1. s.f.dialog = "none" /\ s.f.replace = "none" /\ s.f.candidate
    BY <1>1, <1>4, <1>8 DEF Ordered, Replacing
  <2>2. /\ s.a.handle = NoId /\ ~Capturing(s.a.ctl) /\ s.a.selected = NoDevice
    BY <1>1, <1>8 DEF Waits, Replacing
  <2>3. t = Both(s.a, Dropped(f)) \/ t = Install(Both(s.a, f), too_big)
    BY <1>8 DEF AfterJob, JobOver
  <2>4. CASE t = Both(s.a, Dropped(f))
    <3> PICK g : g = Dropped(f)
      OBVIOUS
    <3>1. g \in FilesState /\ g.job = NoJob /\ g.dialog = "none" /\ g.replace = "none"
      BY <1>2, <2>1, DroppedFields
    <3> QED
      BY <1>1, <1>5, <2>4, <3>1, BothFields DEF Together, FilesInv
  <2>5. CASE t = Install(Both(s.a, f), too_big)
    <3> PICK u : u = Both(s.a, f)
      OBVIOUS
    <3>1. u.a = s.a /\ u.f = f /\ t = Install(u, too_big)
      BY <2>5, BothFields
    <3>2. Installable(s.a, f)
      BY <1>1, <1>2, <2>1, <2>2 DEF Installable
    <3> QED
      BY <1>1, <3>1, <3>2, InstallTogether
  <2> QED
    BY <2>3, <2>4, <2>5
<1> QED
  BY <1>3, <1>4, <1>6, <1>7, <1>8 DEF Action

\* A replacement that waits for the child goes on, is given up, or waits.
LEMMA AfterReplaceTogether ==
  ASSUME NEW s, NEW ch, NEW q, Together(s, ch, q), NEW too_big,
         NEW t, t = AfterReplace(s, too_big)
  PROVE  Together(t, ch, q)
<1> PICK f : f = [s.f EXCEPT !.replace = "none"]
  OBVIOUS
<1> PICK asked : asked = [f EXCEPT !.dialog = "before"]
  OBVIOUS
<1> PICK dropped : dropped = Dropped(s.f)
  OBVIOUS
<1>1. /\ Captured(s.a, ch, q) /\ Ordered(s.f) /\ Filed(s.a) /\ Waits(s.a, s.f)
      /\ s.f \in FilesState
  BY DEF Together, FilesInv, Ordered
<1>2. CASE t = s
  BY <1>2
<1>3. ASSUME s.f.replace # "none"
      PROVE  /\ s.f.job = NoJob /\ s.f.job.action = "none" /\ s.f.dialog = "none"
             /\ s.f.candidate /\ ~Capturing(s.a.ctl) /\ s.a.selected = NoDevice
  BY <1>1, <1>3, FileFields DEF Ordered, Waits, Replacing
<1>4. ASSUME s.f.replace # "none"
      PROVE  /\ f \in FilesState /\ f.job = NoJob /\ f.dialog = "none" /\ f.candidate
             /\ f.replace = "none"
             /\ asked \in FilesState /\ asked.job = NoJob /\ asked.dialog = "before"
             /\ asked.candidate /\ asked.replace = "none"
  BY <1>1, <1>3, <1>4, FileFields DEF FilesState, Action
<1>5. CASE s.f.replace # "none" /\ s.a.handle = NoId /\ t = Install(Both(s.a, f), too_big)
  <2> PICK u : u = Both(s.a, f)
    OBVIOUS
  <2>1. u.a = s.a /\ u.f = f /\ t = Install(u, too_big)
    BY <1>5, BothFields
  <2>2. Installable(s.a, f)
    BY <1>1, <1>3, <1>4, <1>5 DEF Installable
  <2> QED
    BY <1>1, <2>1, <2>2, InstallTogether
<1>6. CASE s.f.replace # "none" /\ s.a.handle = NoId /\ t = Both(s.a, asked)
  <2>1. Ordered(asked) /\ Waits(s.a, asked)
    BY <1>3, <1>4, <1>6, NoJobFields DEF Ordered, Waits, Replacing
  <2> QED
    BY <1>1, <1>6, <2>1, BothFields DEF Together, FilesInv
<1>7. CASE s.f.replace # "none" /\ t = Both(s.a, dropped)
  <2>1. /\ dropped \in FilesState /\ dropped.job = NoJob /\ dropped.dialog = "none"
        /\ dropped.candidate = FALSE /\ dropped.replace = "none"
    BY <1>1, <1>3, <1>7, DroppedFields
  <2>2. Ordered(dropped) /\ Waits(s.a, dropped)
    BY <2>1, NoJobFields DEF Ordered, Waits, Replacing
  <2> QED
    BY <1>1, <1>7, <2>2, BothFields DEF Together, FilesInv
<1> QED
  BY <1>2, <1>5, <1>6, <1>7 DEF AfterReplace

LEMMA PollFilesTogether ==
  ASSUME ReplaceInv, PollFiles
  PROVE  ReplaceInv'
<1>1. PICK too_big \in BOOLEAN :
        LET s == AfterReplace(AfterJob(Both(app, files), too_big), too_big)
        IN app' = s.a /\ files' = s.f
  BY DEF PollFiles
<1> PICK s : s = Both(app, files)
  OBVIOUS
<1> PICK t : t = AfterJob(s, too_big)
  OBVIOUS
<1> PICK u : u = AfterReplace(t, too_big)
  OBVIOUS
<1>2. Together(s, child, queue)
  BY BothFields DEF Together, ReplaceInv, CaptureInv
<1>3. Together(t, child, queue)
  BY <1>2, AfterJobTogether
<1>4. Together(u, child, queue)
  BY <1>3, AfterReplaceTogether
<1>5. app' = u.a /\ files' = u.f
  BY <1>1
<1>6. available' = available /\ child' = child /\ queue' = queue /\ at' = "ui"
  BY DEF PollFiles, channel
<1> QED
  BY <1>4, <1>5, <1>6 DEF Together, ReplaceInv, CaptureInv

\* A step that is not about files.
LEMMA RoutineFiles ==
  ASSUME FilesInv(app, files), Routine(app, app') /\ Filed(app'), files' = files
  PROVE  FilesInv(app', files')
  BY DEF FilesInv, Routine, Waits, Replacing


\* A job is started from a dialog or a dropped file, or cannot be.
Starts(a, f, action) ==
  /\ f \in FilesState /\ action \in Action /\ f.job = NoJob /\ f.dialog = "none"
  /\ f.replace = "none"
  /\ f.candidate <=> action = "before"
  /\ action = "before" =>
       a.handle = NoId /\ ~Capturing(a.ctl) /\ a.selected = NoDevice

LEMMA StartTogether ==
  ASSUME app \in AppState, Filed(app), NEW f, NEW action, Starts(app, f, action),
         StartJob(f, action)
  PROVE  FilesInv(app, files')
<1> DEFINE saved == IF action = "before" THEN app.view ELSE <<>>
           job == Job(action, saved)
<1> PICK g : g = files'
  OBVIOUS
<1>1. saved \in Seq(ViewRecord)
  BY ViewFields, EmptySeq
<1>2. /\ job \in [action : Action \cup {"none"}, cancelled : BOOLEAN,
                  result : {"pending", "ok", "failed"}, saved : Seq(ViewRecord)]
      /\ job.action = action /\ job.saved = saved
  BY <1>1 DEF Job, Starts
<1>3. \/ g = [f EXCEPT !.job = job]
      \/ g = OperationFailed(f, action)
  BY DEF StartJob
<1>4. action = "before" => saved = app.view
  OBVIOUS
<1> HIDE DEF saved, job
<1>5. CASE g = [f EXCEPT !.job = job]
  <2>1. /\ g \in FilesState /\ g.job = job /\ g.dialog = "none" /\ g.replace = "none"
        /\ g.candidate = f.candidate
    BY <1>2, <1>5, FileFields DEF FilesState, Starts
  <2>2. Ordered(g) /\ Waits(app, g)
    BY <1>2, <1>4, <2>1 DEF Ordered, Waits, Replacing, Starts, Action
  <2> QED
    BY <2>2 DEF FilesInv
<1>6. CASE g = OperationFailed(f, action)
  <2>1. /\ g \in FilesState /\ g.job = NoJob /\ g.dialog = "none" /\ g.replace = "none"
        /\ ~g.candidate
    BY <1>6, DroppedFields DEF OperationFailed, Starts
  <2>2. Ordered(g) /\ Waits(app, g)
    BY <2>1, NoJobFields DEF Ordered, Waits, Replacing
  <2> QED
    BY <2>2 DEF FilesInv
<1> QED
  BY <1>3, <1>5, <1>6

\* Nothing but choices in the dialogs: the application stays as it is, and so does a job.
LEMMA ChoiceTogether ==
  ASSUME app \in AppState, FilesInv(app, files), FileChoice
  PROVE  /\ FilesInv(app, files')
         /\ files.job.action # "none" => files'.job.action # "none"
<1>1. Ordered(files) /\ Filed(app) /\ Waits(app, files) /\ files \in FilesState
  BY DEF FilesInv, Ordered
<1>2. NoJob.action = "none" /\ ~NoJob.cancelled
  BY NoJobFields
<1> PICK g : g = files'
  OBVIOUS
<1>3. ASSUME ~Busy(files)
      PROVE  /\ files.job = NoJob /\ files.job.action = "none" /\ files.dialog = "none"
             /\ files.replace = "none" /\ ~files.candidate
  BY <1>1, <1>3, FileFields DEF Busy, Modal, Ordered, Replacing
<1>4. CASE \E action \in {"open", "save"} : OpenDialog(action)
  <2> PICK action \in {"open", "save"} : OpenDialog(action)
    BY <1>4
  <2>1. g = [files EXCEPT !.dialog = action] /\ ~Busy(files)
    BY DEF OpenDialog
  <2>2. /\ g \in FilesState /\ g.dialog = action /\ g.job = NoJob
        /\ g.replace = "none" /\ ~g.candidate
    BY <1>1, <1>3, <2>1, FileFields DEF FilesState, Action
  <2>3. Ordered(g) /\ Waits(app, g)
    BY <1>2, <2>2 DEF Ordered, Waits, Replacing
  <2> QED
    BY <1>1, <1>3, <2>1, <2>3 DEF FilesInv
<1>5. CASE DropFile
  <2>1. ~Busy(files) /\ StartJob(files, "open")
    BY <1>5 DEF DropFile
  <2>2. Starts(app, files, "open")
    BY <1>1, <1>3, <2>1 DEF Starts, Action
  <2> QED
    BY <1>1, <1>3, <2>1, <2>2, StartTogether
<1>6. CASE SubmitDialog
  <2> PICK f : f = [files EXCEPT !.dialog = "none"]
    OBVIOUS
  <2>1. files.dialog # "none" /\ StartJob(f, files.dialog)
    BY <1>6 DEF SubmitDialog
  <2>2. files.job = NoJob /\ files.replace = "none" /\ files.dialog \in Action
    BY <1>1, <2>1, FileFields DEF Ordered
  <2>3. /\ f \in FilesState /\ f.dialog = "none" /\ f.job = NoJob
        /\ f.replace = "none" /\ f.candidate = files.candidate
    BY <1>1, <2>2, FileFields DEF FilesState
  <2>4. files.candidate <=> files.dialog = "before"
    BY <1>1, <2>1 DEF Ordered, Replacing
  <2>5. files.dialog = "before" =>
          app.handle = NoId /\ ~Capturing(app.ctl) /\ app.selected = NoDevice
    BY <1>1 DEF Waits, Replacing
  <2>6. Starts(app, f, files.dialog)
    BY <2>2, <2>3, <2>4, <2>5 DEF Starts
  <2> QED
    BY <1>1, <1>2, <2>1, <2>2, <2>6, StartTogether
<1>7. CASE CancelDialog
  <2> PICK f : f = [files EXCEPT !.dialog = "none"]
    OBVIOUS
  <2>1. /\ files.dialog # "none"
        /\ g = IF files.dialog = "before" THEN Dropped(f) ELSE f
    BY <1>7 DEF CancelDialog
  <2>2. files.job = NoJob /\ files.replace = "none"
    BY <1>1, <2>1 DEF Ordered
  <2>3. /\ f \in FilesState /\ f.dialog = "none" /\ f.job = NoJob
        /\ f.replace = "none" /\ f.candidate = files.candidate
    BY <1>1, <2>2, FileFields DEF FilesState
  <2>4. /\ g \in FilesState /\ g.dialog = "none" /\ g.job = NoJob
        /\ g.replace = "none"
    BY <2>1, <2>3, DroppedFields
  <2>5. Ordered(g) /\ Waits(app, g)
    BY <1>2, <2>4 DEF Ordered, Waits, Replacing
  <2> QED
    BY <1>1, <1>2, <2>2, <2>5 DEF FilesInv
<1>8. CASE CancelJob
  <2> DEFINE job == [files.job EXCEPT !.cancelled = TRUE]
  <2>1. g = [files EXCEPT !.job = job] /\ files.job.action # "none"
    BY <1>8 DEF CancelJob
  <2>2. /\ job \in [action : Action \cup {"none"}, cancelled : BOOLEAN,
                    result : {"pending", "ok", "failed"}, saved : Seq(ViewRecord)]
        /\ job.action = files.job.action /\ job.saved = files.job.saved
    BY <1>1 DEF FilesState
  <2> HIDE DEF job
  <2>3. /\ g \in FilesState /\ g.job = job /\ g.dialog = files.dialog
        /\ g.candidate = files.candidate /\ g.replace = files.replace
    BY <1>1, <2>1, <2>2, FileFields DEF FilesState
  <2>4. Ordered(g) /\ Waits(app, g)
    BY <1>1, <2>1, <2>2, <2>3 DEF Ordered, Waits, Replacing
  <2> QED
    BY <1>1, <2>1, <2>2, <2>3, <2>4 DEF FilesInv
<1>9. CASE CancelCandidate
  <2>1. g = [files EXCEPT !.candidate = FALSE] /\ Asking
    BY <1>9 DEF CancelCandidate
  <2>2. /\ g \in FilesState /\ g.job = files.job /\ g.dialog = files.dialog
        /\ g.candidate = FALSE /\ g.replace = files.replace
    BY <1>1, <2>1, FileFields DEF FilesState
  <2>3. Ordered(g) /\ Waits(app, g)
    BY <1>1, <2>1, <2>2 DEF Ordered, Waits, Replacing, Asking
  <2> QED
    BY <1>1, <2>2, <2>3 DEF FilesInv
<1> QED
  BY <1>4, <1>5, <1>6, <1>7, <1>8, <1>9 DEF FileChoice

\* The choice to replace the view closes the capture; closing a file leaves nothing.
LEMMA ChooseTogether ==
  ASSUME ReplaceInv, NEW choice \in {"discard", "save"}, ChooseReplace(choice),
         UNCHANGED <<available, channel>>, at' = "logic"
  PROVE  ReplaceInv' /\ files'.job = files.job
<1> PICK b : b = CloseCapture(app)
  OBVIOUS
<1> PICK g : g = [files EXCEPT !.replace = choice]
  OBVIOUS
<1>1. /\ Captured(app, child, queue) /\ Ordered(files) /\ Filed(app) /\ Waits(app, files)
      /\ files \in FilesState /\ Formed(app)
  BY DEF ReplaceInv, CaptureInv, Captured, Held, FilesInv, Ordered, Formed
<1>2. app' = b /\ files' = g /\ Asking
  BY DEF ChooseReplace
<1>3. /\ Keeps(app, b) /\ b.selected = NoDevice /\ ~Capturing(b.ctl)
      /\ b.document = app.document /\ b.handle = app.handle /\ b.view = app.view
  BY <1>1, CloseCaptureKeeps
<1>4. Captured(b, child, queue)
  BY <1>1, <1>3, KeepsCaptured
<1>5. /\ g \in FilesState /\ g.job = files.job /\ g.dialog = files.dialog
      /\ g.candidate = files.candidate /\ g.replace = choice
  BY <1>1, FileFields DEF FilesState
<1>6. files.candidate /\ files.dialog = "none" /\ files.job.action = "none"
  BY <1>1, <1>2 DEF Asking, Ordered
<1>7. Ordered(g) /\ Filed(b) /\ Waits(b, g)
  BY <1>1, <1>3, <1>5, <1>6 DEF Ordered, Filed, Waits, Replacing
<1> QED
  BY <1>2, <1>4, <1>5, <1>7 DEF ReplaceInv, FilesInv, CaptureInv, channel

LEMMA CloseFileTogether ==
  ASSUME ReplaceInv, CloseFile, UNCHANGED <<available, channel>>, at' = "logic"
  PROVE  ReplaceInv' /\ files' = files
<1> DEFINE b == WithFile(app, FALSE)
<1>1. /\ Captured(app, child, queue) /\ Ordered(files) /\ Filed(app) /\ Waits(app, files)
      /\ files \in FilesState /\ Formed(app)
  BY DEF ReplaceInv, CaptureInv, Captured, Held, FilesInv, Ordered, Formed
<1>2. app' = b /\ files' = files /\ ~Busy(files)
  <2>1. [NewSource(app) EXCEPT !.document = FALSE, !.retained = NoDevice] = b
    BY DEF WithFile
  <2> QED
    BY <2>1 DEF CloseFile
<1>3. Keeps(app, b) /\ b.document = FALSE
  BY <1>1, WithFileKeeps
<1> HIDE DEF b
<1>4. Captured(b, child, queue)
  BY <1>1, <1>3, KeepsCaptured
<1>5. ~Replacing(files)
  BY <1>1, <1>2 DEF Busy, Modal, Ordered
<1>6. Filed(b) /\ Waits(b, files)
  BY <1>3, <1>5 DEF Filed, Waits, Replacing
<1> QED
  BY <1>1, <1>2, <1>4, <1>6 DEF ReplaceInv, FilesInv, CaptureInv, channel

LEMMA FileActionTogether ==
  ASSUME ReplaceInv, FileAction
  PROVE  ReplaceInv' /\ (files.job.action # "none" => files'.job.action # "none")
<1>1. at' = "logic" /\ available' = available
  BY DEF FileAction, ByUser
<1>2. CASE FileChoice /\ UNCHANGED <<app, channel>>
  <2>1. app \in AppState
    BY DEF ReplaceInv, CaptureInv, Captured, Held
  <2> QED
    BY <1>1, <1>2, <2>1, ChoiceTogether DEF ReplaceInv, CaptureInv, channel
<1>3. CASE CloseFile /\ UNCHANGED channel
  BY <1>1, <1>3, CloseFileTogether
<1>4. CASE (\E choice \in {"discard", "save"} : ChooseReplace(choice)) /\ UNCHANGED channel
  BY <1>1, <1>4, ChooseTogether
<1> QED
  BY <1>2, <1>3, <1>4 DEF FileAction, ByUser

LEMMA FinishJobTogether ==
  ASSUME ReplaceInv, FinishJob
  PROVE  ReplaceInv' /\ files.job.action = files'.job.action
<1>1. PICK result \in {"ok", "failed"} : files' = [files EXCEPT !.job.result = result]
  BY DEF FinishJob
<1> DEFINE job == [files.job EXCEPT !.result = result]
<1> PICK g : g = [files EXCEPT !.job = job]
  OBVIOUS
<1>2. /\ Ordered(files) /\ Waits(app, files) /\ files \in FilesState
      /\ files.job.action # "none"
  BY DEF ReplaceInv, FilesInv, Ordered, FinishJob
<1>3. /\ job \in [action : Action \cup {"none"}, cancelled : BOOLEAN,
                  result : {"pending", "ok", "failed"}, saved : Seq(ViewRecord)]
      /\ job.action = files.job.action /\ job.saved = files.job.saved
  BY <1>2 DEF FilesState
<1>4. files' = g
  BY <1>1
<1> HIDE DEF job
<1>5. /\ g \in FilesState /\ g.job = job /\ g.dialog = files.dialog
      /\ g.candidate = files.candidate /\ g.replace = files.replace
  BY <1>2, <1>3, FileFields DEF FilesState
<1>6. Ordered(g) /\ Waits(app, g)
  BY <1>2, <1>3, <1>5 DEF Ordered, Waits, Replacing
<1>7. UNCHANGED vars
  BY DEF FinishJob
<1> QED
  BY <1>3, <1>4, <1>5, <1>6, <1>7 DEF ReplaceInv, FilesInv, CaptureInv, vars, channel

\* Every step of SourceReplace; only the file part of the frame ends a job.
LEMMA ReplaceStep ==
  ASSUME ReplaceInv, [FNext]_fvars
  PROVE  /\ ReplaceInv'
         /\ files.job.action # "none" /\ ~PollFiles => files'.job.action # "none"
<1>1. CaptureInv /\ FilesInv(app, files) /\ Filed(app) /\ Ordered(files)
  BY DEF ReplaceInv, FilesInv
<1>2. CASE (HandleEvent \/ EndLogic("files") \/ Discover) /\ UNCHANGED files
  <2>1. CaptureInv' /\ Routine(app, app')
    BY <1>1, <1>2, EventCaptured, RestCaptured
  <2>2. Filed(app')
    BY <1>1, <2>1 DEF Routine, Filed
  <2> QED
    BY <1>1, <1>2, <2>1, <2>2, RoutineFiles DEF ReplaceInv
<1>3. CASE PollFiles
  BY <1>3, PollFilesTogether
<1>4. CASE ~Modal(files) /\ UserAction /\ UNCHANGED files
  <2>1. CaptureInv' /\ Filed(app')
    BY <1>1, <1>4, UserCaptured
  <2>2. ~Replacing(files)
    BY <1>1, <1>4 DEF Modal, Ordered
  <2>3. Waits(app', files)
    BY <2>2 DEF Waits, Replacing
  <2> QED
    BY <1>1, <1>4, <2>1, <2>3 DEF ReplaceInv, FilesInv
<1>5. CASE FileAction
  BY <1>5, FileActionTogether
<1>6. CASE FinishJob
  BY <1>6, FinishJobTogether
<1>7. CASE (ChildActs \/ Tick) /\ UNCHANGED files
  <2>1. CaptureInv' /\ Untouched(app, app') /\ (Capturing(app'.ctl) => Capturing(app.ctl))
    <3>1. Formed(app)
      BY <1>1 DEF CaptureInv, Captured, Held, Formed
    <3> QED
      BY <1>1, <1>7, <3>1, ChildActsCaptured, TickCaptured, KeepsItself
  <2>2. Routine(app, app') /\ Filed(app')
    BY <1>1, <2>1 DEF Untouched, Routine, Filed
  <2> QED
    BY <1>1, <1>7, <2>1, <2>2, RoutineFiles DEF ReplaceInv
<1>8. CASE (NoAction /\ UNCHANGED files) \/ UNCHANGED fvars
  <2>1. CaptureInv' /\ app' = app /\ files' = files
    BY <1>1, <1>8, IdleCaptured DEF NoAction, fvars, vars
  <2> QED
    BY <1>1, <2>1 DEF ReplaceInv
<1> QED
  BY <1>2, <1>3, <1>4, <1>5, <1>6, <1>7, <1>8 DEF FNext

\* A cancelled job that ends leaves the application, and no candidate.
LEMMA CancelledIsDropped ==
  ASSUME ReplaceInv, PollFiles, files.job.cancelled, files'.job.action = "none"
  PROVE  app' = app /\ ~files'.candidate
<1>1. PICK too_big \in BOOLEAN :
        LET s == AfterReplace(AfterJob(Both(app, files), too_big), too_big)
        IN app' = s.a /\ files' = s.f
  BY DEF PollFiles
<1> PICK s : s = Both(app, files)
  OBVIOUS
<1> PICK t : t = AfterJob(s, too_big)
  OBVIOUS
<1> PICK u : u = AfterReplace(t, too_big)
  OBVIOUS
<1> PICK f : f = JobOver(files)
  OBVIOUS
<1>2. app' = u.a /\ files' = u.f
  BY <1>1
<1>3. s.a = app /\ s.f = files
  BY BothFields
<1>4. Ordered(files) /\ files \in FilesState
  BY DEF ReplaceInv, FilesInv, Ordered
<1>5. /\ files.job.action # "none" /\ files.replace = "none"
      /\ files.candidate => files.job.action = "before"
  BY <1>4, NoJobFields DEF Ordered
<1>6. /\ f \in FilesState /\ f.candidate = files.candidate /\ f.replace = "none"
  BY <1>4, <1>5, JobOverFields
<1>7. CASE files.job.result = "pending"
  <2>1. t = s
    BY <1>3, <1>7 DEF AfterJob
  <2>2. u = t
    BY <1>3, <1>5, <2>1 DEF AfterReplace
  <2> QED
    BY <1>2, <1>3, <1>5, <2>1, <2>2
<1>8. CASE files.job.result # "pending"
  <2> PICK dropped : dropped = Dropped(f)
    OBVIOUS
  <2>1. dropped.candidate = FALSE /\ dropped.replace = "none"
    BY <1>6, DroppedFields
  <2>2. \/ t = Both(app, dropped)
        \/ ~files.candidate /\ t = Both(app, f)
    <3>1. files.job.action \in {"open", "save", "before"}
      BY <1>4, <1>5, FileFields DEF Action
    <3> QED
      BY <1>3, <1>5, <1>8, <3>1 DEF AfterJob, OperationFailed, JobOver
  <2>3. t.a = app /\ ~t.f.candidate /\ t.f.replace = "none"
    <3>1. CASE t = Both(app, dropped)
      <4>1. t.a = app /\ t.f = dropped
        BY <3>1, BothFields
      <4> QED
        BY <2>1, <4>1
    <3>2. CASE ~files.candidate /\ t = Both(app, f)
      <4>1. t.a = app /\ t.f = f
        BY <3>2, BothFields
      <4> QED
        BY <1>6, <3>2, <4>1
    <3> QED
      BY <2>2, <3>1, <3>2
  <2>4. u = t
    BY <2>3 DEF AfterReplace
  <2> QED
    BY <1>2, <2>3, <2>4
<1> QED
  BY <1>7, <1>8

\* What CancelledStaysOut says of one step.
StaysOut ==
  files.job.cancelled /\ files'.job.action = "none"
    => app'.document = app.document /\ app'.view = app.view /\ ~files'.candidate

LEMMA StepStaysOut ==
  ASSUME ReplaceInv, [FNext]_fvars, ~UNCHANGED fvars
  PROVE  StaysOut
<1>1. files.job.cancelled => files.job.action # "none"
  BY NoJobFields DEF ReplaceInv, FilesInv, Ordered
<1>2. CASE PollFiles
  BY <1>2, CancelledIsDropped DEF StaysOut
<1>3. CASE ~PollFiles
  BY <1>1, <1>3, ReplaceStep DEF StaysOut
<1> QED
  BY <1>2, <1>3

LEMMA FInitHolds == FInit => ReplaceInv
<1> SUFFICES ASSUME FInit
             PROVE  ReplaceInv
  OBVIOUS
<1>1. CaptureInv /\ Filed(app)
  BY NewAppCaptured DEF FInit
<1>2. /\ files \in FilesState /\ files.job = NoJob /\ files.dialog = "none"
      /\ ~files.candidate /\ files.replace = "none"
  BY NoJobFields DEF FInit, FilesInit, FilesState
<1>3. Ordered(files) /\ Waits(app, files)
  BY <1>2, NoJobFields DEF Ordered, Waits, Replacing
<1> QED
  BY <1>1, <1>3 DEF ReplaceInv, FilesInv

\* Every line the stopped child sent was received, if the capture follows.
LEMMA StoppedIsDrained ==
  ASSUME CaptureInv, TRUE \notin Scopes, app.handle = NoId
  PROVE  Drained
<1>1. Followed(app, child, queue) /\ app \in AppState /\ ActiveId(app.ctl) = NoId
  BY DEF CaptureInv, Captured, Held
<1>2. app.view # <<>> => LastShown(app).attempt \in Id /\ LastShown(app).attempt # NoId
  BY <1>1, ViewFields, RecordFields DEF Id, NoId
<1> QED
  BY <1>1, <1>2 DEF Followed, Exhausted, Drained, LastShown

\* With files that are opened, saved and closed at any time the capture keeps what it
\* promises: every process that runs is the one the handle stops, but for one whose start
\* and its cleanup failed, and of that one nothing is shown; and no record is missing,
\* whatever is replaced when (poll_files, advance_capture, failed_logcat_start).
THEOREM FilesKeepTheCapture == FSpec => [](EveryChildIsHeld /\ ViewHasNoHoles)
<1>1. FInit => ReplaceInv
  BY FInitHolds
<1>2. ReplaceInv /\ [FNext]_fvars => ReplaceInv'
  BY ReplaceStep
<1>3. ReplaceInv => EveryChildIsHeld /\ ViewHasNoHoles
  BY CaptureInvHolds DEF ReplaceInv
<1> QED
  BY <1>1, <1>2, <1>3, PTL DEF FSpec

\* From the choice to replace the view to the closing of the file nothing restarts the
\* capture, and no record of it is shown behind the file (install_candidate, poll_files).
THEOREM FileStaysAlone == FSpec => []FileIsAlone
<1>1. FInit => ReplaceInv
  BY FInitHolds
<1>2. ReplaceInv /\ [FNext]_fvars => ReplaceInv'
  BY ReplaceStep
<1>3. ReplaceInv => FileIsAlone
  BY DEF ReplaceInv, FilesInv, Filed, FileIsAlone
<1> QED
  BY <1>1, <1>2, <1>3, PTL DEF FSpec

\* A cancelled job replaces nothing and leaves nothing to be installed, even when it
\* finishes well at the same moment (poll_files).
THEOREM CancelledNeverReplaces == FSpec => CancelledStaysOut
<1>1. FInit => ReplaceInv
  BY FInitHolds
<1>2. ReplaceInv /\ [FNext]_fvars => ReplaceInv'
  BY ReplaceStep
<1>3. ReplaceInv /\ [FNext]_fvars => [StaysOut]_fvars
  BY StepStaysOut
<1> QED
  BY <1>1, <1>2, <1>3, PTL DEF FSpec, CancelledStaysOut, StaysOut

\* The part of SavedIsWhatGoes that holds for finite snapshots too.
SavedIsShown ==
  files.job.action = "before" =>
    /\ files.job.saved = app.view
    /\ files.candidate
    /\ app.handle = NoId /\ ~Capturing(app.ctl)

LEMMA ReplaceInvHolds ==
  ASSUME ReplaceInv
  PROVE  SavedIsShown /\ (TRUE \notin Scopes => SavedIsWhatGoes)
<1>1. CaptureInv /\ Ordered(files) /\ Waits(app, files)
  BY DEF ReplaceInv, FilesInv
<1>2. SavedIsShown
  BY <1>1 DEF SavedIsShown, Ordered, Waits, Replacing
<1>3. TRUE \notin Scopes /\ files.dialog = "before" => Drained
  BY <1>1, StoppedIsDrained DEF Waits
<1> QED
  BY <1>2, <1>3 DEF SavedIsShown, SavedIsWhatGoes

\* What is saved before a file opens is what the file replaces, for every scope: from the
\* snapshot on no record arrives, is cleared or trimmed, and nothing starts
\* (install_candidate, poll_files).
THEOREM SavedStaysShown == FSpec => []SavedIsShown
<1>1. FInit => ReplaceInv
  BY FInitHolds
<1>2. ReplaceInv /\ [FNext]_fvars => ReplaceInv'
  BY ReplaceStep
<1>3. ReplaceInv => SavedIsShown
  BY ReplaceInvHolds
<1> QED
  BY <1>1, <1>2, <1>3, PTL DEF FSpec

\* Of a capture that follows, save-before-open moreover saves every line the stopped
\* child wrote.  A finite snapshot is cut off by its budget, so the lines after it are
\* not part of the view and are not claimed.
THEOREM SavedStaysWhatGoes ==
  ASSUME TRUE \notin Scopes
  PROVE  FSpec => []SavedIsWhatGoes
<1>1. FInit => ReplaceInv
  BY FInitHolds
<1>2. ReplaceInv /\ [FNext]_fvars => ReplaceInv'
  BY ReplaceStep
<1>3. ReplaceInv => SavedIsWhatGoes
  BY ReplaceInvHolds
<1> QED
  BY <1>1, <1>2, <1>3, PTL DEF FSpec

-------------------------------------------------------------------------------
(* The controller alone, for every set of targets, timeout and id range.   *)
(* Inv is inductive because each method keeps Sound (CaptureLemmas); the   *)
(* action properties and the contract follow from Inv one method at a      *)
(* time.  Then the hints of processes, for all processes, lifetimes of a   *)
(* snapshot and numbers of queries: the controller keeps its own invariant *)
(* beside them (HintSpec implements ControllerSpec), and on top of it what *)
(* is known of the device is always of the attempt in hand, because every  *)
(* step that lets an attempt go or begins one also clears it.              *)

LEMMA InvStep == Inv /\ [ControllerNext]_ctlVars => Inv'
<1> SUFFICES ASSUME Inv, [ControllerNext]_ctlVars
             PROVE  Sound(ctl')
  BY DEF Inv
<1> USE DEF Inv
<1>1. CASE DoRequest
  BY <1>1, RequestIsSound DEF DoRequest
<1>2. CASE DoPoll
  BY <1>2, PollIsSound DEF DoPoll
<1>3. CASE DoStarted
  BY <1>3, StartedIsSound DEF DoStarted
<1>4. CASE DoHalt
  BY <1>4, HaltIsSound DEF DoHalt
<1>5. CASE DoExited
  BY <1>5, ExitedIsSound DEF DoExited
<1>6. CASE DoCompleted
  BY <1>6, CompletedIsSound DEF DoCompleted
<1>7. CASE DoElapse
  BY <1>7, ElapseIsSound DEF DoElapse
<1>8. CASE UNCHANGED ctlVars
  BY <1>8 DEF ctlVars
<1> QED
  BY <1>1, <1>2, <1>3, <1>4, <1>5, <1>6, <1>7, <1>8 DEF ControllerNext

\* Whatever a caller does, in whatever order, the controller value is well
\* formed and satisfies the invariants of the runs.
THEOREM InvHolds == ControllerSpec => []Inv
<1>1. ControllerInit => Inv
  BY NewIsSound DEF ControllerInit, Inv
<1> QED
  BY <1>1, InvStep, PTL DEF ControllerSpec

\* The controller stays within its types (ControllerTypeOK), for all values of its fields.
THEOREM TypeCorrect == ControllerSpec => []ControllerTypeOK
<1>1. Inv => ControllerTypeOK
  BY DEF Inv, Sound, ControllerTypeOK
<1> QED
  BY <1>1, InvHolds, PTL

\* An attempt that was not told to stop is for the target last asked for.
THEOREM ActiveIsAlwaysWanted == ControllerSpec => []ActiveIsWanted
<1>1. Inv => ActiveIsWanted
  BY DEF Inv, Sound, ActiveIsWanted
<1> QED
  BY <1>1, InvHolds, PTL

\* A fault kept for after a stop never outlives that stop.
THEOREM FaultNeverMoves == ControllerSpec => []FaultBelongsToStop
<1>1. Inv => FaultBelongsToStop
  BY DEF Inv, Sound, FaultBelongsToStop
<1> QED
  BY <1>1, InvHolds, PTL

-------------------------------------------------------------------------------
(* The contract of ExclusiveAttempt *)

USE DEF HeldFor, SameView, Released, Asked, Granted

\* Each kind of change is the contract's action of that name, or a stutter.
LEMMA SameViewStutters ==
  SameView(ctl, ctl') => UNCHANGED Contract!vars
  BY DEF Contract!vars

LEMMA AskedIsAsk ==
  ASSUME Inv, Inv', NEW i \in Intent, Asked(ctl, ctl', i)
  PROVE  Contract!Ask(i)
<1>1. ActiveId(ctl) # 0 <=> HasAttempt(ctl)
  BY HolderIsId DEF Inv
<1>2. IsStopping(ctl) \in BOOLEAN /\ IsStopping(ctl') \in BOOLEAN
  BY DEF IsStopping
<1>3. ~HasAttempt(ctl) => ~IsStopping(ctl')
  BY DEF HasAttempt
<1> QED
  BY <1>1, <1>2, <1>3 DEF Contract!Ask

LEMMA ReleasedIsRelease ==
  ASSUME Inv, Inv', Released(ctl, ctl')
  PROVE  Contract!Release
<1>1. ActiveId(ctl) # 0 /\ ActiveId(ctl') = 0 /\ ~IsStopping(ctl')
  BY HolderIsId DEF Inv, HasAttempt
<1> QED
  BY <1>1 DEF Contract!Release

LEMMA GrantedIsGrant ==
  ASSUME Inv, Granted(ctl, ctl')
  PROVE  Contract!Grant
  BY DEF Contract!Grant, ActiveId, NoId

LEMMA ContractStep == Inv /\ [ControllerNext]_ctlVars /\ Inv' => [Contract!Next]_Contract!vars
<1> SUFFICES ASSUME Inv, [ControllerNext]_ctlVars, Inv'
             PROVE  Contract!Next \/ UNCHANGED Contract!vars
  OBVIOUS
<1> USE DEF Intent
<1>0. Sound(ctl)
  BY DEF Inv
<1>1. CASE DoRequest
  <2>1. PICK i \in Intent, restart \in BOOLEAN : ctl' = Request(ctl, i, restart)
    BY <1>1 DEF DoRequest
  <2>2. Contract!Ask(i)
    BY <1>0, <2>1, RequestView, AskedIsAsk
  <2> QED
    BY <2>2 DEF Contract!Next
<1>2. CASE DoPoll
  BY <1>0, <1>2, PollView, SameViewStutters, GrantedIsGrant DEF DoPoll, Contract!Next
<1>3. CASE DoStarted
  <2>1. PICK id \in Id : ctl' = Started(ctl, id)
    BY <1>3 DEF DoStarted
  <2>2. ctl' = ctl \/ SameView(ctl, ctl')
    BY <1>0, <2>1, AgedView DEF Started, StartedCounts
  <2> QED
    BY <2>2, SameViewStutters
<1>4. CASE DoHalt
  BY <1>0, <1>4, HaltView, AskedIsAsk DEF DoHalt, Contract!Next
<1>5. CASE DoExited
  <2>1. ctl' = ctl \/ Released(ctl, ctl')
    BY <1>0, <1>5, ExitedView DEF DoExited
  <2> QED
    BY <2>1, SameViewStutters, ReleasedIsRelease DEF Contract!Next
<1>6. CASE DoCompleted
  <2>1. ctl' = ctl \/ Released(ctl, ctl')
    BY <1>0, <1>6, CompletedView DEF DoCompleted
  <2> QED
    BY <2>1, SameViewStutters, ReleasedIsRelease DEF Contract!Next
<1>7. CASE DoElapse
  BY <1>0, <1>7, ElapseView, SameViewStutters DEF DoElapse
<1>8. CASE UNCHANGED ctlVars
  BY <1>8, SameViewStutters DEF ctlVars
<1> QED
  BY <1>1, <1>2, <1>3, <1>4, <1>5, <1>6, <1>7, <1>8 DEF ControllerNext

\* The controller keeps its contract: one attempt at a time, never a new one
\* before the old one was confirmed gone, for the target last asked for.
THEOREM ContractKept == ControllerSpec => ContractSpec
<1>1. ControllerInit => Contract!Init
  BY DEF ControllerInit, Contract!Init, NewController, Controlled, Idle, HasAttempt,
         IsActive, IsStopping, ActiveId, NoId
<1> QED
  BY <1>1, ContractStep, InvHolds, PTL DEF ControllerSpec, ContractSpec, Contract!Spec

-------------------------------------------------------------------------------
(* A stop is firm *)

\* What a method may do to a stopping attempt: keep it, with a deadline no
\* later and a timeout not taken back, or let it go into Failed or Idle.
StillStopping(c, d) ==
  /\ IsStopping(d)
  /\ d.phase.attempt.id = c.phase.attempt.id
  /\ d.phase.left <= c.phase.left
  /\ c.phase.timed_out => d.phase.timed_out

LetGo(c, d) ==
  /\ ~HasAttempt(d)
  /\ c.failure_after_stop \/ c.phase.timed_out \/ c.phase.left = 0 => IsFailed(d)

LEMMA StoppingStep ==
  ASSUME Inv, [ControllerNext]_ctlVars, IsStopping(ctl)
  PROVE  StillStopping(ctl, ctl') \/ LetGo(ctl, ctl')
<1>1. /\ Sound(ctl) /\ HasAttempt(ctl) /\ ~IsActive(ctl)
      /\ ctl.phase.left \in 0 .. STOP_TIMEOUT
  BY SoundFields DEF Inv, HasAttempt, IsStopping, IsActive
<1>2. ASSUME ctl'.phase = ctl.phase
      PROVE  StillStopping(ctl, ctl')
  BY <1>1, <1>2 DEF StillStopping, IsStopping
<1>3. ASSUME NEW left \in 0 .. ctl.phase.left, NEW late,
             ctl.phase.timed_out => late,
             ctl' = [ctl EXCEPT !.phase = Stopping(ctl.phase.attempt, left, late)]
      PROVE  StillStopping(ctl, ctl')
  <2>1. ctl'.phase = Stopping(ctl.phase.attempt, left, late)
    BY <1>1, <1>3, PhaseChange
  <2> QED
    BY <1>1, <1>3, <2>1 DEF StillStopping, IsStopping, Stopping
<1>4. \A i \in Intent, restart \in BOOLEAN :
        Request(ctl, i, restart).phase = ctl.phase
  BY <1>1 DEF Request, RequestStops, Controlled
<1>5. ASSUME NEW id, ctl' = Exited(ctl, id)
      PROVE  ctl' = ctl \/ LetGo(ctl, ctl')
  BY <1>1, <1>5
     DEF Exited, StoppedExit, Controlled, LetGo, HasAttempt, IsActive, IsStopping,
         IsFailed, Failed, Idle
<1>6. CASE DoRequest
  BY <1>2, <1>4, <1>6 DEF DoRequest
<1>7. CASE DoPoll
  <2>1. CASE ctl.phase.left = 0
    <3>1. ctl' = [ctl EXCEPT !.phase = Stopping(ctl.phase.attempt, 0, TRUE)]
      BY <1>7, <2>1 DEF DoPoll, Poll
    <3>2. 0 \in 0 .. ctl.phase.left
      BY <2>1
    <3> QED
      BY <1>3, <3>1, <3>2
  <2>2. CASE ctl.phase.left # 0
    BY <1>2, <1>7, <2>2 DEF DoPoll, Poll
  <2> QED
    BY <2>1, <2>2
<1>8. CASE DoStarted
  <2>1. PICK id \in Id : ctl' = Started(ctl, id)
    BY <1>8 DEF DoStarted
  <2> DEFINE b == [id |-> ctl.phase.attempt.id, target |-> ctl.phase.attempt.target,
                   running |-> 0]
             p == Stopping(b, ctl.phase.left, ctl.phase.timed_out)
  <2>2. ctl' = ctl \/ ctl' = [ctl EXCEPT !.phase = p]
    BY <1>1, <2>1 DEF Started, Aged
  <2>3. /\ p.tag = "Stopping" /\ p.attempt.id = ctl.phase.attempt.id
        /\ p.left = ctl.phase.left /\ p.timed_out = ctl.phase.timed_out
    BY DEF Stopping
  <2> HIDE DEF p
  <2>4. CASE ctl' = [ctl EXCEPT !.phase = p]
    <3>1. ctl'.phase = p
      BY <1>1, <2>4, PhaseChange
    <3> QED
      BY <1>1, <2>3, <3>1 DEF StillStopping, IsStopping
  <2> QED
    BY <1>2, <2>2, <2>4
<1>9. CASE DoHalt
  <2>1. IsStopping(Request(ctl, "Paused", FALSE))
    BY <1>1, <1>4 DEF IsStopping, Intent
  <2>2. ctl'.phase = Request(ctl, "Paused", FALSE).phase
    BY <1>9, <2>1 DEF DoHalt, Halt, Controlled
  <2> QED
    BY <1>2, <1>4, <2>2 DEF Intent
<1>10. CASE DoExited
  BY <1>2, <1>5, <1>10 DEF DoExited
<1>11. CASE DoCompleted
  BY <1>1, <1>2, <1>5, <1>11 DEF DoCompleted, Completed
<1>12. CASE DoElapse
  <2>1. CASE ctl.phase.left > 0
    <3>1. ctl' = [ctl EXCEPT !.phase = Stopping(ctl.phase.attempt, ctl.phase.left - 1,
                                                ctl.phase.timed_out)]
      BY <1>1, <1>12, <2>1 DEF DoElapse, Elapse
    <3>2. ctl.phase.left - 1 \in 0 .. ctl.phase.left
      BY <1>1, <2>1, ControllerAssumption
    <3> QED
      BY <1>3, <3>1, <3>2
  <2>2. CASE ~(ctl.phase.left > 0)
    <3>1. ctl.phase.tag # "Backoff"
      BY DEF IsStopping
    <3> QED
      BY <1>1, <1>2, <1>12, <2>2, <3>1 DEF DoElapse, Elapse
  <2> QED
    BY <2>1, <2>2
<1>13. CASE UNCHANGED ctlVars
  BY <1>2, <1>13 DEF ctlVars
<1> QED
  BY <1>6, <1>7, <1>8, <1>9, <1>10, <1>11, <1>12, <1>13 DEF ControllerNext

\* No request, poll, report or fault moves the deadline of a stop away, takes
\* its timeout back or swaps the attempt under it.
THEOREM StopStaysFirm == ControllerSpec => StopIsFirm
<1>1. Inv /\ [ControllerNext]_ctlVars
        => [IsStopping(ctl) /\ HasAttempt(ctl')
              => /\ IsStopping(ctl')
                 /\ ctl'.phase.attempt.id = ctl.phase.attempt.id
                 /\ ctl'.phase.left <= ctl.phase.left
                 /\ ctl.phase.timed_out => ctl'.phase.timed_out]_ctlVars
  BY StoppingStep DEF StillStopping, LetGo
<1> QED
  BY <1>1, InvHolds, PTL DEF ControllerSpec, StopIsFirm

\* Only the user leaves Failed.
LEMMA FailedStep ==
  ASSUME Inv, [ControllerNext]_ctlVars, IsFailed(ctl)
  PROVE  ctl'.phase \in {ctl.phase, Idle}
<1>1. ~HasAttempt(ctl) /\ ~IsActive(ctl) /\ ~IsStopping(ctl) /\ ~Due(ctl)
  BY DEF IsFailed, HasAttempt, IsActive, IsStopping, Due
<1>2. CASE DoRequest
  BY <1>1, <1>2 DEF DoRequest, Request, RequestStops, Controlled
<1>3. CASE DoPoll
  BY <1>1, <1>3 DEF DoPoll, Poll, PollStarts, PollLaunches
<1>4. CASE DoStarted
  BY <1>1, <1>4 DEF DoStarted, Started, StartedCounts
<1>5. CASE DoHalt
  <2> DEFINE r == Request(ctl, "Paused", FALSE)
  <2>1. r.phase = Idle /\ Sound(r)
    BY <1>1, RequestIsSound DEF Request, RequestStops, Controlled, Inv, Intent
  <2> HIDE DEF r
  <2>2. ctl' = [r EXCEPT !.phase = Failed]
    <3>1. ~IsStopping(r)
      BY <2>1 DEF IsStopping, Idle
    <3> QED
      BY <1>5, <3>1 DEF DoHalt, Halt, r
  <2>3. ctl'.phase = Failed
    BY <2>1, <2>2, PhaseChange
  <2>4. ctl.phase = Failed
    BY SoundFields, PhaseFields DEF Inv, IsFailed
  <2> QED
    BY <2>3, <2>4
<1>6. CASE DoExited
  BY <1>1, <1>6 DEF DoExited, Exited
<1>7. CASE DoCompleted
  BY <1>1, <1>7 DEF DoCompleted, Completed, Exited
<1>8. CASE DoElapse
  BY <1>1, <1>8 DEF DoElapse, Elapse, IsFailed
<1>9. CASE UNCHANGED ctlVars
  BY <1>9 DEF ctlVars
<1> QED
  BY <1>2, <1>3, <1>4, <1>5, <1>6, <1>7, <1>8, <1>9 DEF ControllerNext

\* A fault never outlives the stop it belongs to, and after a late or faulty
\* stop nothing restarts on its own.
THEOREM StopsAlwaysJudged == ControllerSpec => StopsAreJudged
<1>1. Inv /\ [ControllerNext]_ctlVars
        => [/\ FaultBelongsToStop
            /\ IsStopping(ctl) /\ ~HasAttempt(ctl')
                 /\ (ctl.failure_after_stop \/ ctl.phase.timed_out \/ ctl.phase.left = 0)
                 => IsFailed(ctl')
            /\ IsFailed(ctl) => ctl'.phase \in {ctl.phase, Idle}]_ctlVars
  <2>1. Inv => FaultBelongsToStop
    BY DEF Inv, Sound, FaultBelongsToStop
  <2>2. Inv /\ [ControllerNext]_ctlVars
          => [/\ IsStopping(ctl) /\ ~HasAttempt(ctl')
                   /\ (ctl.failure_after_stop \/ ctl.phase.timed_out \/ ctl.phase.left = 0)
                   => IsFailed(ctl')
              /\ IsFailed(ctl) => ctl'.phase \in {ctl.phase, Idle}]_ctlVars
    BY StoppingStep, FailedStep DEF StillStopping, LetGo, HasAttempt
  <2> QED
    BY <2>1, <2>2
<1> QED
  BY <1>1, InvHolds, PTL DEF ControllerSpec, StopsAreJudged

-------------------------------------------------------------------------------
(* What is known of the device *)

Query == [session : Id, from : Nat]
Sample == [session : Id, from : Nat, until : Nat, sample : SUBSET Procs]

HintType ==
  /\ queries \in [Queries -> {NoQuery} \cup Query]
  /\ snapshot \in SUBSET Sample
  /\ watch \in [package : Packages, previous : SUBSET SUBSET Procs]

\* What is known was answered to the attempt in hand.
SnapshotIsOwn ==
  \A s \in snapshot : HasAttempt(ctl) /\ s.session = ActiveId(ctl)

\* The previous sample is all of the watched application in the newest answer.
PreviousIsWhole ==
  \A before \in watch.previous :
    /\ watch.package # NoPackage
    /\ \E s \in snapshot : before = {p \in s.sample : Owner[p] = watch.package}

\* Someone is asking for the attempt in hand when a query is said to be pending.
PendingIsAsked ==
  pending /\ IsActive(ctl) => \E k \in Queries : queries[k].session = ActiveId(ctl)

HintInv == Inv /\ HintType /\ SnapshotIsOwn /\ PreviousIsWhole /\ PendingIsAsked

-------------------------------------------------------------------------------
(* The controller beside its callers *)

\* The callers only take steps of the controller.
LEMMA HintStepIsStep == [HintNext]_allVars => [ControllerNext]_ctlVars
  BY DEF HintNext, RequestAndClear, PollAndClear, ExitAndClear, Others, Time, SpawnQuery,
         ReceiveAnswer, Expire, DeviceGone, Forget, ReceiveEntry, AppendEntry,
         ControllerNext, ctlVars, allVars

\* The controller behind the hints is the controller: all that is proved of it
\* (StopIsFirm, StopsAreJudged, the contract) holds beside the queries as well.
THEOREM HintsKeepController == HintSpec => ControllerSpec
<1>1. HintInit => ControllerInit
  BY DEF HintInit
<1> QED
  BY <1>1, HintStepIsStep, PTL DEF HintSpec, ControllerSpec

LEMMA ClearClears ==
  ASSUME HintInv, Clear, UNCHANGED queries, Inv'
  PROVE  HintInv'
  BY DEF HintInv, HintType, SnapshotIsOwn, PreviousIsWhole, PendingIsAsked, Clear

\* Nothing changes for the hints when the attempt stays in hand.
LEMMA KeepKeeps ==
  ASSUME HintInv, UNCHANGED <<pending, snapshot, watch, queries>>, Inv',
         HasAttempt(ctl) => HasAttempt(ctl') /\ ActiveId(ctl') = ActiveId(ctl),
         IsActive(ctl') => IsActive(ctl)
  PROVE  HintInv'
  BY DEF HintInv, HintType, SnapshotIsOwn, PreviousIsWhole, PendingIsAsked, HasAttempt

\* A view that stays the same names the same attempt.
LEMMA SameViewKeeps ==
  ASSUME NEW c, NEW d, Sound(c), Sound(d), SameView(c, d)
  PROVE  /\ HasAttempt(c) => HasAttempt(d) /\ ActiveId(d) = ActiveId(c)
         /\ IsActive(d) => IsActive(c)
  BY HolderIsId DEF SameView, HasAttempt, IsActive, IsStopping

LEMMA AskedKeeps ==
  ASSUME NEW c, NEW d, NEW i, Sound(c), Sound(d), Asked(c, d, i)
  PROVE  /\ HasAttempt(c) => HasAttempt(d) /\ ActiveId(d) = ActiveId(c)
         /\ IsActive(d) => IsActive(c)
  BY HolderIsId DEF Asked, HasAttempt, IsActive, IsStopping

-------------------------------------------------------------------------------
(* One lemma per action *)

LEMMA RequestKeepsHints ==
  ASSUME HintInv, RequestAndClear, Inv'
  PROVE  HintInv'
  BY ClearClears DEF RequestAndClear

LEMMA PollKeepsHints ==
  ASSUME HintInv, PollAndClear, Inv'
  PROVE  HintInv'
<1>1. CASE ctl'.next_id > ctl.next_id
  BY <1>1, ClearClears DEF PollAndClear
<1>2. CASE ~(ctl'.next_id > ctl.next_id)
  <2>1. PICK ready \in BOOLEAN : ctl' = Poll(ctl, ready)
    BY DEF PollAndClear, DoPoll
  <2>2. Sound(ctl) /\ Sound(ctl') /\ ctl.next_id \in Nat
    BY SoundFields DEF HintInv, Inv
  <2>3. SameView(ctl, ctl')
    BY <1>2, <2>1, <2>2, PollView DEF Granted
  <2> QED
    BY <1>2, <2>2, <2>3, SameViewKeeps, KeepKeeps DEF PollAndClear, Keep
<1> QED
  BY <1>1, <1>2

LEMMA ExitKeepsHints ==
  ASSUME HintInv, ExitAndClear, Inv'
  PROVE  HintInv'
<1>1. CASE HasAttempt(ctl) /\ ~HasAttempt(ctl')
  BY <1>1, ClearClears DEF ExitAndClear
<1>2. CASE ~(HasAttempt(ctl) /\ ~HasAttempt(ctl'))
  <2>1. ctl' = ctl
    BY <1>2, ExitedView, CompletedView
       DEF ExitAndClear, DoExited, DoCompleted, HintInv, Inv, Released
  <2> QED
    BY <1>2, <2>1, KeepKeeps DEF ExitAndClear, Keep
<1> QED
  BY <1>1, <1>2

LEMMA OthersKeepHints ==
  ASSUME HintInv, Others, Inv'
  PROVE  HintInv'
<1>1. Sound(ctl) /\ Sound(ctl')
  BY DEF HintInv, Inv
<1>2. CASE DoStarted
  <2>1. ctl' = ctl \/ SameView(ctl, ctl')
    BY <1>1, <1>2, AgedView DEF DoStarted, Started, StartedCounts
  <2> QED
    BY <1>1, <2>1, SameViewKeeps, KeepKeeps DEF Others, hintVars
<1>3. CASE DoHalt
  <2>1. Asked(ctl, ctl', "Paused")
    BY <1>1, <1>3, HaltView DEF DoHalt
  <2> QED
    BY <1>1, <2>1, AskedKeeps, KeepKeeps DEF Others, hintVars
<1> QED
  BY <1>2, <1>3 DEF Others

LEMMA TimeKeepsHints ==
  ASSUME HintInv, Time, Inv'
  PROVE  HintInv'
<1>1. Sound(ctl) /\ Sound(ctl') /\ SameView(ctl, ctl')
  BY ElapseView DEF HintInv, Inv, Time, DoElapse
<1>2. /\ HasAttempt(ctl) => HasAttempt(ctl') /\ ActiveId(ctl') = ActiveId(ctl)
      /\ IsActive(ctl') => IsActive(ctl)
  BY <1>1, SameViewKeeps
<1> DEFINE aged(s) == [s EXCEPT !.from = @ + 1, !.until = @ + 1]
<1>3. ASSUME NEW s \in Sample
      PROVE  aged(s) \in Sample /\ aged(s).session = s.session /\ aged(s).sample = s.sample
  <2>1. aged(s) = [session |-> s.session, from |-> s.from + 1, until |-> s.until + 1,
                   sample |-> s.sample]
    <3> DEFINE once == [s EXCEPT !.from = @ + 1]
    <3>1. once = [session |-> s.session, from |-> s.from + 1, until |-> s.until,
                  sample |-> s.sample]
      BY <1>3 DEF Sample
    <3>2. aged(s) = [once EXCEPT !.until = s.until + 1]
      OBVIOUS
    <3> HIDE DEF once, aged
    <3> QED
      BY <3>1, <3>2
  <2> HIDE DEF aged
  <2> QED
    BY <1>3, <2>1 DEF Sample
<1>4. snapshot' = {aged(s) : s \in snapshot} /\ snapshot \in SUBSET Sample
  BY DEF Time, HintInv, HintType
<1> HIDE DEF aged
<1>5. /\ snapshot' \in SUBSET Sample
      /\ \A s \in snapshot' : \E old \in snapshot : s.session = old.session
      /\ \A old \in snapshot : \E s \in snapshot' : s.sample = old.sample
  BY <1>3, <1>4
<1>6. ASSUME NEW k \in Queries
      PROVE  queries'[k] \in {NoQuery} \cup Query /\ queries'[k].session = queries[k].session
  <2>1. CASE queries[k] = NoQuery
    BY <2>1 DEF Time
  <2>2. CASE queries[k] # NoQuery
    <3>1. queries[k] \in Query
      BY <2>2 DEF HintInv, HintType
    <3>2. queries'[k] = [queries[k] EXCEPT !.from = Older(@)]
      BY <2>2 DEF Time
    <3> QED
      BY <3>1, <3>2 DEF Query, Older
  <2> QED
    BY <2>1, <2>2
<1>7. HintType'
  <2>1. queries' \in [Queries -> {NoQuery} \cup Query]
    BY <1>6 DEF Time
  <2> QED
    BY <1>5, <2>1 DEF Time, HintInv, HintType
<1>8. SnapshotIsOwn'
  BY <1>2, <1>5 DEF HintInv, SnapshotIsOwn
<1>9. PreviousIsWhole'
  <2>1. watch' = watch
    BY DEF Time
  <2>2. ASSUME NEW before \in watch.previous
        PROVE  \E s \in snapshot' : before = {p \in s.sample : Owner[p] = watch.package}
    <3>1. PICK old \in snapshot : before = {p \in old.sample : Owner[p] = watch.package}
      BY DEF HintInv, PreviousIsWhole
    <3>2. PICK s \in snapshot' : s.sample = old.sample
      BY <1>5
    <3> QED
      BY <3>1, <3>2
  <2>3. watch.previous # {} => watch.package # NoPackage
    BY DEF HintInv, PreviousIsWhole
  <2> QED
    BY <2>1, <2>2, <2>3 DEF PreviousIsWhole
<1>10. PendingIsAsked'
  BY <1>1, <1>2, <1>6 DEF HintInv, PendingIsAsked, Time, HasAttempt
<1> QED
  BY <1>7, <1>8, <1>9, <1>10 DEF HintInv

LEMMA SpawnKeepsHints ==
  ASSUME HintInv, NEW k \in Queries, SpawnQuery(k), Inv'
  PROVE  HintInv'
<1>1. HasAttempt(ctl) /\ ActiveId(ctl) \in Id
  BY SoundFields DEF SpawnQuery, HintInv, Inv, HasAttempt, ActiveId, Attempt
<1>2. HintType' /\ PendingIsAsked'
  BY <1>1 DEF HintInv, HintType, PendingIsAsked, SpawnQuery, Query
<1> QED
  BY <1>2 DEF HintInv, SnapshotIsOwn, PreviousIsWhole, SpawnQuery

LEMMA ForgetKeepsHints ==
  ASSUME HintInv, UNCHANGED <<ctl, queries, pending>>, snapshot' = {},
         watch' = [watch EXCEPT !.previous = {}]
  PROVE  HintInv'
  BY DEF HintInv, Inv, HintType, SnapshotIsOwn, PreviousIsWhole, PendingIsAsked

\* What the watcher keeps is all of the application: a sample that is capped is
\* not kept.
LEMMA WatchedIsWhole ==
  ASSUME NEW name, NEW sample \in SUBSET Procs, ~Capped(name, sample)
  PROVE  Watched(name, sample) = {p \in sample : Owner[p] = name}
<1> DEFINE own == {p \in sample : Owner[p] = name}
<1>1. IsFiniteSet(own) /\ own \subseteq Nat
  BY FS_Subset, ProcessHintsAssumption
<1>2. Cardinality(own) \in Nat /\ Cardinality(own) <= MAX_PROCESSES
  BY <1>1, FS_CardinalityType, ProcessHintsAssumption DEF Capped
<1>3. ASSUME NEW p \in own
      PROVE  Cardinality({o \in own : o < p}) < MAX_PROCESSES
  <2> DEFINE before == {o \in own : o < p}
  <2>1. before \in SUBSET own /\ p \notin before
    BY <1>1, <1>3
  <2>2. before # own
    BY <1>3, <2>1
  <2> HIDE DEF own, before
  <2>3. /\ IsFiniteSet(before) /\ Cardinality(before) <= Cardinality(own)
        /\ Cardinality(own) # Cardinality(before)
    BY <1>1, <2>1, <2>2, FS_Subset
  <2>4. Cardinality(before) \in Nat /\ Cardinality(before) < Cardinality(own)
    BY <1>2, <2>3, FS_CardinalityType
  <2> QED
    BY <1>2, <2>4, ProcessHintsAssumption DEF before
<1> QED
  BY <1>3 DEF Watched

\* A sample of the attempt in hand becomes what is known.
LEMMA UpdateKeepsHints ==
  ASSUME HintInv, NEW s \in Sample, NEW package \in Packages, Update(s, package),
         HasAttempt(ctl), s.session = ActiveId(ctl), UNCHANGED ctl, pending' = FALSE,
         queries' \in [Queries -> {NoQuery} \cup Query]
  PROVE  HintInv'
<1>1. CASE Lost(s)
  BY <1>1 DEF Update, HintInv, Inv, HintType, SnapshotIsOwn, PreviousIsWhole, PendingIsAsked
<1>2. CASE ~Lost(s)
  <2> DEFINE w == IF \A prior \in snapshot : prior.from - s.until >= PROCESS_HINT_TTL
                  THEN [watch EXCEPT !.previous = {}] ELSE watch
             kept == IF w.package = package THEN w.previous ELSE {}
             previous == IF package = NoPackage THEN kept
                         ELSE IF Capped(package, s.sample) THEN {}
                         ELSE {Watched(package, s.sample)}
  <2>1. snapshot' = {s} /\ watch' = [package |-> package, previous |-> previous]
    BY <1>2 DEF Update, Observe
  <2>2. s.sample \in SUBSET Procs
    BY DEF Sample
  <2>3. package = NoPackage => previous = {}
    BY DEF HintInv, HintType, PreviousIsWhole
  <2>4. ASSUME NEW before \in previous
        PROVE  /\ package # NoPackage /\ before \in SUBSET Procs
               /\ before = {p \in s.sample : Owner[p] = package}
    <3> HIDE DEF kept
    <3> QED
      BY <2>2, <2>3, <2>4, WatchedIsWhole
  <2> HIDE DEF previous
  <2>5. watch'.package = package /\ watch'.previous = previous
    BY <2>1
  <2>6. HintType'
    BY <2>1, <2>4 DEF HintType
  <2>7. SnapshotIsOwn' /\ PreviousIsWhole' /\ PendingIsAsked'
    BY <2>1, <2>4, <2>5 DEF SnapshotIsOwn, PreviousIsWhole, PendingIsAsked
  <2> QED
    BY <2>6, <2>7 DEF HintInv, Inv
<1> QED
  BY <1>1, <1>2

\* An answer of another attempt changes nothing: no query of the attempt in hand
\* is lost with it.
LEMMA ReceiveKeepsHints ==
  ASSUME HintInv, NEW k \in Queries, ReceiveAnswer(k), Inv'
  PROVE  HintInv'
<1> DEFINE q == queries[k]
<1>1. q \in Query /\ queries' \in [Queries -> {NoQuery} \cup Query] /\ UNCHANGED ctl
  BY DEF ReceiveAnswer, HintInv, HintType
<1>2. CASE ~Wanted(q)
  <2>1. UNCHANGED <<pending, snapshot, watch>>
    BY <1>2 DEF ReceiveAnswer, Keep
  <2>2. PendingIsAsked'
    BY <1>1, <1>2, <2>1
       DEF HintInv, HintType, PendingIsAsked, Wanted, ReceiveAnswer, IsActive, ActiveId, HasAttempt
  <2> QED
    BY <1>1, <2>1, <2>2 DEF HintInv, HintType, SnapshotIsOwn, PreviousIsWhole
<1>3. CASE Wanted(q) /\ Clear
  BY <1>1, <1>3 DEF Clear, HintInv, HintType, SnapshotIsOwn, PreviousIsWhole, PendingIsAsked
<1>4. CASE Wanted(q) /\ ~Clear
  <2>1. PICK s \in Answers(q), package \in Packages : Update(s, package)
    BY <1>4 DEF ReceiveAnswer
  <2>2. s \in Sample /\ s.session = ActiveId(ctl) /\ HasAttempt(ctl)
    BY <1>1, <1>4 DEF Answers, Sample, Query, Wanted, HasAttempt
  <2>3. pending' = FALSE
    BY <1>4 DEF ReceiveAnswer
  <2> QED
    BY <1>1, <2>1, <2>2, <2>3, UpdateKeepsHints
<1> QED
  BY <1>2, <1>3, <1>4

LEMMA HintInvStep == HintInv /\ [HintNext]_allVars => HintInv'
<1> SUFFICES ASSUME HintInv, [HintNext]_allVars
             PROVE  HintInv'
  OBVIOUS
<1>0. Inv'
  BY HintStepIsStep, InvStep DEF HintInv
<1>1. CASE RequestAndClear \/ PollAndClear \/ ExitAndClear \/ Others \/ Time
  BY <1>0, <1>1, RequestKeepsHints, PollKeepsHints, ExitKeepsHints, OthersKeepHints,
     TimeKeepsHints
<1>2. ASSUME NEW k \in Queries, SpawnQuery(k) \/ ReceiveAnswer(k)
      PROVE  HintInv'
  BY <1>0, <1>2, SpawnKeepsHints, ReceiveKeepsHints
<1>3. CASE Expire \/ DeviceGone
  BY <1>3, ForgetKeepsHints DEF Expire, DeviceGone, Forget
<1>4. CASE ReceiveEntry \/ UNCHANGED allVars
  BY <1>4 DEF ReceiveEntry, allVars, HintInv, Inv, HintType, SnapshotIsOwn, PreviousIsWhole,
              PendingIsAsked
<1>5. CASE AppendEntry
  <2>1. UNCHANGED <<ctl, queries, pending>>
    BY <1>5 DEF AppendEntry
  <2>2. \/ snapshot' = {} /\ watch' = [watch EXCEPT !.previous = {}]
        \/ UNCHANGED <<snapshot, watch>>
    BY <1>5 DEF AppendEntry
  <2>3. CASE UNCHANGED <<snapshot, watch>>
    BY <2>1, <2>3 DEF HintInv, Inv, HintType, SnapshotIsOwn, PreviousIsWhole, PendingIsAsked
  <2> QED
    BY <2>1, <2>2, <2>3, ForgetKeepsHints
<1> QED
  BY <1>1, <1>2, <1>3, <1>4, <1>5 DEF HintNext

\* A record is named by a sample of its own attempt, differences are told between
\* whole samples of one attempt and one application, and a pending query is one of
\* the attempt in hand, whatever stops, restarts and late answers come between
\* (set_capture_intent, advance_capture, update_process_snapshot, Watcher::observe).
THEOREM HintsStayCurrent == HintSpec => []HintsAreCurrent
<1>1. HintInit => HintInv
  BY NewIsSound DEF HintInit, ControllerInit, HintInv, Inv, HintType, SnapshotIsOwn, PreviousIsWhole,
                    PendingIsAsked, Packages
<1>2. HintInv => HintsAreCurrent
  BY DEF HintInv, HintsAreCurrent, HintType, Hint, SnapshotIsOwn, PreviousIsWhole, PendingIsAsked
<1> QED
  BY <1>1, <1>2, HintInvStep, PTL DEF HintSpec
===============================================================================
