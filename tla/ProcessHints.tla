----------------------------- MODULE ProcessHints -----------------------------
(***************************************************************************)
(* The names of processes beside the capture (src/src/main.rs,             *)
(* process_watch.rs, spawn_process_query in adb.rs): threads ask the       *)
(* device for its processes while the controller of CaptureController.tla  *)
(* starts, stops and loses attempts; an answer may come late, in another   *)
(* order or after its attempt.  The newest answer names the processes of   *)
(* records received after it, and differences between two of them are      *)
(* reported as observations.                                               *)
(*                                                                         *)
(* Instants are kept as ages.  An answer is of the device of its attempt,  *)
(* so the look at the serial adds nothing to the one at the attempt.  Only *)
(* captures of the default scope are named so; others are left out.        *)
(***************************************************************************)
EXTENDS CaptureController, FiniteSets

CONSTANTS
  Procs,             \* of the model: processes, by pid, in the order of pids
  Owner,             \* of the model: the application of each process
  PROCESS_HINT_TTL,
  MAX_PROCESSES,
  Queries,           \* of the model: queries at once
  MaxAsked           \* of the model: the attempts with queries and records

ASSUME ProcessHintsAssumption ==
  /\ Procs \subseteq Nat /\ IsFiniteSet(Procs)
  /\ {PROCESS_HINT_TTL, MAX_PROCESSES} \subseteq Nat \ {0}

NoPackage == "none"
Packages == {Owner[p] : p \in Procs} \cup {NoPackage}

VARIABLES
  queries,  \* queries in flight
  pending,  \* process_query_pending
  snapshot, \* process_snapshot and processes: at most one
  watch,    \* process_watch: the application, and at most one previous sample
  waiting   \* a record between its receipt and its place in the table

hintVars == <<queries, pending, snapshot, watch, waiting>>
allVars == <<ctl, queries, pending, snapshot, watch, waiting>>

\* Ages up to where comparisons tell them apart.
Oldest == PROCESS_HINT_TTL + 1

Older(age) == IF age < Oldest THEN age + 1 ELSE age

NoQuery == [session |-> NoId]

Lost(s) == s.from >= PROCESS_HINT_TTL

-------------------------------------------------------------------------------
(* What the controller's callers do beside.                                *)

\* clear_processes, with process_query_pending
Clear ==
  /\ snapshot' = {} /\ pending' = FALSE
  /\ watch' = [watch EXCEPT !.previous = {}]

Keep == UNCHANGED <<pending, snapshot, watch>>

\* set_capture_intent
RequestAndClear == DoRequest /\ Clear /\ UNCHANGED <<queries, waiting>>

\* advance_capture
PollAndClear ==
  /\ DoPoll
  /\ IF ctl'.next_id > ctl.next_id THEN Clear ELSE Keep
  /\ UNCHANGED <<queries, waiting>>

\* Logcat events of the attempt
ExitAndClear ==
  /\ DoExited \/ DoCompleted
  /\ IF HasAttempt(ctl) /\ ~HasAttempt(ctl') THEN Clear ELSE Keep
  /\ UNCHANGED <<queries, waiting>>

\* halt_capture keeps what is known.
Others == (DoStarted \/ DoHalt) /\ UNCHANGED hintVars

\* A frame is due when the snapshot expires (next_wake_deadline).
Time ==
  /\ \A s \in snapshot : s.from < Oldest
  /\ DoElapse
  /\ queries' = [k \in Queries |->
       IF queries[k] = NoQuery THEN NoQuery
       ELSE [queries[k] EXCEPT !.from = Older(@)]]
  /\ snapshot' = {[s EXCEPT !.from = @ + 1, !.until = @ + 1] : s \in snapshot}
  /\ waiting' = {[e EXCEPT !.age = Older(@)] : e \in waiting}
  /\ UNCHANGED <<pending, watch>>

-------------------------------------------------------------------------------
(* Queries.                                                                *)

\* schedule_periodic_queries; the interval between two is any.
SpawnQuery(k) ==
  /\ IsActive(ctl) /\ ActiveId(ctl) <= MaxAsked /\ ~pending /\ queries[k] = NoQuery
  /\ pending' = TRUE
  /\ queries' = [queries EXCEPT ![k] = [session |-> ActiveId(ctl), from |-> 0]]
  /\ UNCHANGED <<ctl, snapshot, watch, waiting>>

\* Mutant: an answer is taken whatever attempt asked.
WantedWhileRunning(q) == IsActive(ctl)

Wanted(q) == IsActive(ctl) /\ q.session = ActiveId(ctl)

\* Of the processes of the application the first MAX_PROCESSES.
Watched(name, sample) ==
  LET own == {p \in sample : Owner[p] = name}
  IN {p \in own : Cardinality({o \in own : o < p}) < MAX_PROCESSES}

Capped(name, sample) == Cardinality({p \in sample : Owner[p] = name}) > MAX_PROCESSES

\* Watcher::observe, of a sample; what is kept is what the next is compared with.
Observe(w, name, sample) ==
  LET kept == IF w.package = name THEN w.previous ELSE {}
  IN [package |-> name,
      previous |-> IF name = NoPackage THEN kept
                   ELSE IF Capped(name, sample) THEN {} ELSE {Watched(name, sample)}]

\* update_process_snapshot, for the application the user watches by then: a sample
\* that is older than its worth is not kept.
Update(s, package) ==
  LET old == \A prior \in snapshot : prior.from - s.until >= PROCESS_HINT_TTL
      w == IF old THEN [watch EXCEPT !.previous = {}] ELSE watch
  IN IF Lost(s) THEN /\ snapshot' = {}
                     /\ watch' = [w EXCEPT !.previous = {}]
     ELSE /\ snapshot' = {s}
          /\ watch' = Observe(w, package, s.sample)

\* spawn_process_query: the processes at some time since the query began.
Answers(q) ==
  {[session |-> q.session, from |-> q.from, until |-> until, sample |-> sample] :
     until \in 0..q.from, sample \in SUBSET Procs}

\* BackendEvent::Processes; the query may have failed, too.
ReceiveAnswer(k) ==
  LET q == queries[k] IN
  /\ q # NoQuery
  /\ queries' = [queries EXCEPT ![k] = NoQuery]
  /\ IF ~Wanted(q) THEN Keep
     ELSE \/ Clear
          \/ /\ \E s \in Answers(q), package \in Packages : Update(s, package)
             /\ pending' = FALSE
  /\ UNCHANGED <<ctl, waiting>>

Forget ==
  /\ snapshot # {} /\ snapshot' = {}
  /\ watch' = [watch EXCEPT !.previous = {}]
  /\ UNCHANGED <<ctl, queries, pending, waiting>>

\* expire_processes, at the beginning of a frame
Expire == Forget /\ \E s \in snapshot : Lost(s)

\* reconcile_device_selection, when the device is not listed
DeviceGone == Forget

-------------------------------------------------------------------------------
(* Records.                                                                *)

\* From<LogEntry>: the time is taken before the record waits for its place.
ReceiveEntry ==
  /\ waiting = {} /\ HasAttempt(ctl) /\ ActiveId(ctl) <= MaxAsked
  /\ waiting' = {[session |-> ActiveId(ctl), age |-> 0]}
  /\ UNCHANGED <<ctl, queries, pending, snapshot, watch>>

\* The sample a record's process is named by.
Hint(e) ==
  {s \in snapshot : ~Lost(s) /\ e.age <= s.until /\ s.from - e.age <= PROCESS_HINT_TTL}

\* append_received_entry, or the record is of an attempt that is over
AppendEntry ==
  /\ waiting # {} /\ waiting' = {}
  /\ IF \E e \in waiting, s \in snapshot : e.session = ActiveId(ctl) /\ Lost(s)
     THEN snapshot' = {} /\ watch' = [watch EXCEPT !.previous = {}]
     ELSE UNCHANGED <<snapshot, watch>>
  /\ UNCHANGED <<ctl, queries, pending>>

-------------------------------------------------------------------------------
HintInit ==
  /\ ControllerInit
  /\ pending = FALSE
  /\ queries = [k \in Queries |-> NoQuery]
  /\ snapshot = {} /\ waiting = {}
  /\ watch = [package |-> NoPackage, previous |-> {}]

HintNext ==
  \/ RequestAndClear \/ PollAndClear \/ ExitAndClear \/ Others \/ Time
  \/ \E k \in Queries : SpawnQuery(k) \/ ReceiveAnswer(k)
  \/ Expire \/ DeviceGone \/ ReceiveEntry \/ AppendEntry

HintSpec == HintInit /\ [][HintNext]_allVars

-------------------------------------------------------------------------------
\* A process is named by a sample of the record's own attempt, whatever stops,
\* restarts and late answers came between.  Differences are told only between whole
\* samples of one attempt and one application (Watcher::observe: "A capped
\* observation cannot establish disappearances in the next one").  And
\* process_query_pending never outlives its query while the attempt runs: no
\* answer that is dropped, however late, keeps the next query from being asked.
HintsAreCurrent ==
  /\ \A e \in waiting :
       e.session = ActiveId(ctl) => \A s \in Hint(e) : s.session = e.session
  /\ \A before \in watch.previous :
       \E s \in snapshot :
         /\ s.session = ActiveId(ctl)
         /\ before = {p \in s.sample : Owner[p] = watch.package}
  /\ pending /\ IsActive(ctl) => \E k \in Queries : queries[k].session = ActiveId(ctl)
===============================================================================
