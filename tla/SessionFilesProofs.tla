-------------------------- MODULE SessionFilesProofs ---------------------------
(***************************************************************************)
(* What SessionFiles promises, for any number of workers and clients and   *)
(* any number of records.                                                  *)
(*                                                                         *)
(* The argument has two halves.  Among the workers only the creator of     *)
(* worker.lock ever opens the log or publishes (Owned), so what it counted *)
(* stays true.  Among the clients a closure that was linked never changes  *)
(* (Frozen), so a read that ends by looking for one returns what is in     *)
(* force.                                                                  *)
(***************************************************************************)
EXTENDS SessionFiles, TLAPS

Published == [state : {"active", "stopping", "completed", "failed"}, entries : Nat]

Statuses == Published \cup [state : {"abandoned"}, entries : Nat]

WorkerPlaces ==
  {"none", "lock", "open", "run", "beat", "final", "publish", "failed", "last", "ended"}

ClientPlaces == {"check", "mark", "wait", "close", "recheck", "link", "ended"}

Files ==
  [status : Published, next : BOOLEAN, lock : BOOLEAN, stop : BOOLEAN, closure : SUBSET Published]

WorkerState == [pc : WorkerPlaces, status : Published, writing : BOOLEAN, failed : BOOLEAN]

ClientState ==
  [pc : ClientPlaces, look : {"closure", "status", "again", "act"},
   held : SUBSET Published, snapshot : SUBSET Published,
   result : SUBSET Statuses, effective : SUBSET Statuses, before : SUBSET Statuses]

TypeOK ==
  /\ files \in Files
  /\ flushed \in Nat
  /\ starter \in {"spawn", "waiting", "refused", "prepared", "ended"}
  /\ worker \in [Workers -> WorkerState]
  /\ client \in [Clients -> ClientState]
  /\ reported \in SUBSET Statuses

-------------------------------------------------------------------------------
(* The worker that owns the directory                                      *)

Capturing == {"open", "run", "beat", "final"}

Owning == {"open", "run", "beat", "final", "publish", "failed", "last"}

OwnerHoldsLock == \A w \in Workers : worker[w].pc \in Owning => files.lock

OneOwner ==
  \A w, v \in Workers : worker[w].pc \in Owning /\ worker[v].pc \in Owning => w = v

OwnerWrites == \A w \in Workers : worker[w].writing => worker[w].pc \in Owning

\* Before the capture is over its status is none of those that end it.
Unfinished(w) ==
  /\ worker[w].pc \notin {"final", "publish", "failed", "last"} => ~Final(worker[w].status)
  /\ worker[w].pc = "last" => worker[w].status.state = "failed"

RunsUnfinished == \A w \in Workers : Unfinished(w)

\* The final status counts what will ever be in the file.
CountsAll(w) ==
  worker[w].pc \in {"final", "publish"} /\ worker[w].status.state = "completed" =>
    /\ ~worker[w].writing
    /\ worker[w].status.entries = flushed

CompletedCountsAll == \A w \in Workers : CountsAll(w)

StartedLate ==
  starter \in {"spawn", "refused", "prepared"} => \A w \in Workers : worker[w].pc = "none"

FinalKeepsOut ==
  Final(files.status) => files.lock \/ \A w \in Workers : worker[w].pc = "none"

\* A final status is the last one that is written.
FinalIsLast ==
  /\ \A w \in Workers : worker[w].pc \in {"publish", "last"} => ~Final(files.status)
  /\ starter \in {"spawn", "refused", "prepared"} => ~Final(files.status)

\* Nobody counts records that are not there.
CountsAreFlushed ==
  /\ files.status.entries <= flushed
  /\ \A s \in files.closure : s.entries <= flushed
  /\ \A w \in Workers : worker[w].status.entries <= flushed
  /\ \A c \in Clients : \A s \in client[c].held \cup client[c].snapshot : s.entries <= flushed

Owned ==
  /\ OwnerHoldsLock
  /\ OneOwner
  /\ OwnerWrites
  /\ RunsUnfinished
  /\ CompletedCountsAll
  /\ StartedLate
  /\ FinalKeepsOut
  /\ FinalIsLast
  /\ CountsAreFlushed
  /\ FinalMeansOver

-------------------------------------------------------------------------------
(* The closure and the reads                                               *)

IsOne(set) == \E s \in set : set = {s}

ClosureIsOne == files.closure = {} \/ IsOne(files.closure)

\* Whoever recheckes or links has the one snapshot it took.
SnapshotIsTaken ==
  \A c \in Clients : client[c].pc \in {"recheck", "link"} => IsOne(client[c].snapshot)

\* A status in hand was in force when it was read, unless a closure was there.
HeldWasInForce ==
  \A c \in Clients :
    /\ client[c].look = "again" => IsOne(client[c].held)
    /\ client[c].held # {} => client[c].look = "again"
    /\ files.closure = {} => client[c].held \subseteq client[c].effective

\* An answer that says "abandoned" is the closure.
AbandonedIsClosure ==
  \A c \in Clients :
    \A r \in client[c].result :
      r.state = "abandoned" => \E s \in files.closure : r = Abandoned(s)

\* A client acts only after a read, and has no answer while it reads.
ReadsBeforeActing ==
  \A c \in Clients :
    /\ client[c].pc \in {"mark", "link"} => client[c].look = "act"
    /\ client[c].look \in {"status", "again"} => client[c].result = {}

Frozen ==
  /\ ClosureIsOne
  /\ SnapshotIsTaken
  /\ HeldWasInForce
  /\ AbandonedIsClosure
  /\ ReadsBeforeActing
  /\ ReadsAreEffective

-------------------------------------------------------------------------------
(* What was reported                                                       *)

\* A final answer still is the status or the closure in force.
ReportedIsKept ==
  \A r \in reported :
    /\ Final(r)
    /\ IF r.state = "abandoned" THEN \E s \in files.closure : r = Abandoned(s)
       ELSE r = files.status

BeforeIsReported == \A c \in Clients : client[c].before \subseteq reported

\* A status in hand is read after the answers known when the read began, and if it
\* is final it still is the status.
HeldIsLater ==
  \A c \in Clients :
    /\ \A r \in client[c].held : Final(r) => r = files.status
    /\ client[c].look = "again" =>
      \A r \in client[c].before : r.state = "abandoned" \/ r \in client[c].held

Kept ==
  /\ ReportedIsKept
  /\ BeforeIsReported
  /\ HeldIsLater
  /\ FinalStaysFinal

IInv == TypeOK /\ Owned /\ Frozen /\ Kept

-------------------------------------------------------------------------------
(* Types                                                                   *)

LEMMA EffectiveTyped ==
  ASSUME TypeOK, ClosureIsOne
  PROVE  /\ Effective \in Statuses
         /\ files.closure = {} => Effective = files.status
         /\ \A s \in files.closure : Effective = Abandoned(s)
<1>1. CASE files.closure = {}
  BY <1>1 DEF TypeOK, Files, Effective, Statuses
<1>2. ASSUME NEW s \in files.closure, files.closure = {s}
      PROVE  Effective = Abandoned(s)
  <2>1. {Abandoned(t) : t \in files.closure} = {Abandoned(s)}
    BY <1>2
  <2>2. (CHOOSE closed \in {Abandoned(s)} : TRUE) = Abandoned(s)
    OBVIOUS
  <2> QED
    BY <1>2, <2>1, <2>2 DEF Effective
<1>3. \A s \in Published : Abandoned(s) \in Statuses
  BY DEF Published, Statuses, Abandoned, Status
<1> QED
  BY <1>1, <1>2, <1>3 DEF ClosureIsOne, IsOne, TypeOK, Files

LEMMA ReturnsTyped ==
  ASSUME TypeOK, Effective' \in Statuses, NEW c \in Clients, NEW pc \in ClientPlaces,
         NEW status \in Statuses, pc = "recheck" => status \in Published,
         Goes(c, pc, status)
  PROVE  /\ client' \in [Clients -> ClientState]
         /\ reported' \in SUBSET Statuses
  BY DEF TypeOK, Goes, ClientState, Statuses

\* What At does to a worker.
LEMMA AtMoves ==
  ASSUME TypeOK, NEW w \in Workers, NEW pc \in WorkerPlaces, At(w, pc)
  PROVE  /\ worker' \in [Workers -> WorkerState]
         /\ \A v \in Workers \ {w} : worker'[v] = worker[v]
         /\ worker'[w].pc = pc
         /\ pc # "ended" => /\ worker'[w].status = worker[w].status
                            /\ worker'[w].writing = worker[w].writing
                            /\ worker'[w].failed = worker[w].failed
         /\ pc = "ended" => /\ worker'[w].status = Status("active", 0)
                            /\ ~worker'[w].writing
<1>1. Status("active", 0) \in Published
  BY DEF Status, Published
<1>2. CASE pc = "ended"
  BY <1>1, <1>2 DEF At, Idle, TypeOK, WorkerState, WorkerPlaces
<1>3. CASE pc # "ended"
  BY <1>3 DEF At, TypeOK, WorkerState
<1> QED
  BY <1>2, <1>3

LEMMA WorkersTyped ==
  ASSUME TypeOK, ClosureIsOne, NEW w \in Workers, WorkerNext(w)
  PROVE  TypeOK'
<1> SUFFICES worker' \in [Workers -> WorkerState] /\ files' \in Files /\ flushed' \in Nat
  BY DEF TypeOK, WorkerNext, StartAgain, TakeLock, OpenLogs, Flush, Turn, Heartbeat,
         HeartbeatReplaces, Finalize, FinalPrepares, FinalReplaces, PublishFailure,
         FailureReplaces, Crash, WorkerStep
<1> USE DEF WorkerStep
<1>0. /\ worker \in [Workers -> WorkerState]
      /\ files \in Files
      /\ flushed \in Nat
      /\ worker[w].status \in Published
      /\ \A state \in {"active", "stopping", "completed", "failed"}, n \in Nat :
           Status(state, n) \in Published
  BY DEF TypeOK, WorkerState, Published, Status
<1>a. \A pc \in WorkerPlaces : At(w, pc) => worker' \in [Workers -> WorkerState]
  BY AtMoves
<1>b. /\ {"none", "lock", "open", "run", "beat"} \subseteq WorkerPlaces
      /\ {"final", "publish", "failed", "last", "ended"} \subseteq WorkerPlaces
  BY DEF WorkerPlaces
<1>c. ASSUME NEW status \in Published
      PROVE  /\ [files EXCEPT !.lock = TRUE] \in Files
             /\ [files EXCEPT !.next = TRUE] \in Files
             /\ [files EXCEPT !.next = FALSE] \in Files
             /\ [files EXCEPT !.next = FALSE, !.status = status] \in Files
  BY <1>0 DEF Files
<1>1. CASE StartAgain(w)
  BY <1>0, <1>1, <1>a, <1>b DEF StartAgain
<1>2. CASE TakeLock(w)
  BY <1>0, <1>2, <1>a, <1>b, <1>c DEF TakeLock
<1>3. CASE OpenLogs(w)
  <2>1. [pc |-> "run", status |-> Status("active", 0), writing |-> TRUE, failed |-> FALSE]
          \in WorkerState
    BY <1>0, <1>b DEF WorkerState
  <2> QED
    BY <1>0, <1>3, <1>a, <1>b, <2>1 DEF OpenLogs
<1>4. CASE Flush(w)
  BY <1>0, <1>4 DEF Flush
<1>5. CASE Turn(w)
  <2>1. PICK state \in {"active", "stopping"}, failed \in {worker[w].failed, TRUE} :
          worker' = [worker EXCEPT ![w].status = Status(state, worker[w].status.entries),
                                   ![w].failed = failed]
    BY <1>5 DEF Turn
  <2>2. worker[w].failed \in BOOLEAN /\ worker[w].status.entries \in Nat
    BY <1>0 DEF WorkerState, Published
  <2>3. Status(state, worker[w].status.entries) \in Published /\ failed \in BOOLEAN
    BY <1>0, <2>2
  <2>4. worker' \in [Workers -> WorkerState]
    BY <1>0, <2>1, <2>3 DEF WorkerState
  <2> QED
    BY <1>0, <1>5, <2>4 DEF Turn
<1>6. CASE Heartbeat(w)
  <2> DEFINE seen == [worker EXCEPT ![w].status.entries = flushed]
  <2>0. seen \in [Workers -> WorkerState]
    BY <1>0 DEF WorkerState, Published
  <2> HIDE DEF seen
  <2>1. /\ [seen EXCEPT ![w].pc = "beat"] \in [Workers -> WorkerState]
        /\ [seen EXCEPT ![w].failed = TRUE] \in [Workers -> WorkerState]
    BY <2>0, <1>b DEF WorkerState
  <2> QED
    BY <1>0, <1>6, <2>1, <1>c DEF Heartbeat, Prepares, seen
<1>7. CASE HeartbeatReplaces(w)
  <2>1. [worker EXCEPT ![w].pc = "run", ![w].failed = TRUE] \in [Workers -> WorkerState]
    BY <1>0, <1>b DEF WorkerState
  <2> QED
    BY <1>0, <1>7, <1>a, <1>b, <1>c, <2>1 DEF HeartbeatReplaces, Replaces
<1>8. CASE Finalize(w)
  <2>1. ASSUME NEW state \in {"failed", "completed"}, NEW writing \in BOOLEAN,
               NEW failed \in BOOLEAN
        PROVE  [pc |-> "final", status |-> Status(state, flushed), writing |-> writing,
                failed |-> failed] \in WorkerState
    BY <1>0, <1>b DEF WorkerState
  <2>2. worker[w].failed \in BOOLEAN
    BY <1>0 DEF WorkerState
  <2> QED
    <3>1. PICK failed \in {worker[w].failed, TRUE}, joined \in BOOLEAN :
            worker' = [worker EXCEPT ![w] =
              [pc |-> "final", status |-> Status(IF failed THEN "failed" ELSE "completed", flushed),
               writing |-> ~joined, failed |-> failed]]
      BY <1>8 DEF Finalize
    <3>2. failed \in BOOLEAN /\ (~joined) \in BOOLEAN
      BY <2>2
    <3>3. (IF failed THEN "failed" ELSE "completed") \in {"failed", "completed"}
      OBVIOUS
    <3> QED
      BY <1>0, <1>8, <2>1, <3>1, <3>2, <3>3 DEF Finalize
<1>9. CASE FinalPrepares(w)
  BY <1>0, <1>9, <1>a, <1>b, <1>c DEF FinalPrepares, Prepares
<1>10. CASE FinalReplaces(w)
  BY <1>0, <1>10, <1>a, <1>b, <1>c DEF FinalReplaces, Replaces
<1>11. CASE PublishFailure(w)
  <2>1. Status("failed", Effective.entries) \in Published
    BY <1>0, EffectiveTyped DEF Statuses, Published
  <2>2. [worker EXCEPT ![w].pc = "last", ![w].status = Status("failed", Effective.entries)]
          \in [Workers -> WorkerState]
    BY <1>0, <1>b, <2>1 DEF WorkerState
  <2> QED
    BY <1>0, <1>11, <1>a, <1>b, <1>c, <2>2 DEF PublishFailure, Prepares
<1>12. CASE FailureReplaces(w)
  BY <1>0, <1>12, <1>a, <1>b, <1>c DEF FailureReplaces, Replaces
<1>13. CASE Crash(w)
  BY <1>0, <1>13, <1>a, <1>b DEF Crash
<1> QED
  BY <1>1, <1>2, <1>3, <1>4, <1>5, <1>6, <1>7, <1>8, <1>9, <1>10, <1>11, <1>12, <1>13
     DEF WorkerNext

-------------------------------------------------------------------------------
(* The owner of the directory                                              *)

Others(w) == \A v \in Workers \ {w} : worker'[v] = worker[v]

\* What the owner may do without disturbing Owned.
OwnerMove(w) ==
  /\ worker[w].pc \in Owning
  /\ worker'[w].pc # "none"
  /\ worker'[w].pc \in Capturing => worker[w].pc \in Capturing
  /\ worker'[w].writing =>
       worker'[w].pc \in Owning /\ (worker[w].writing \/ worker[w].pc \in Capturing)
  /\ worker'[w].status.entries <= flushed
  /\ Unfinished(w)'
  /\ CountsAll(w)'
  /\ worker'[w].pc \in {"publish", "last"} => ~Final(files'.status)
  /\ \/ files'.status = files.status
     \/ /\ files'.status = worker[w].status
        /\ Final(worker[w].status) => worker'[w].pc \notin Capturing
        /\ worker[w].status.state = "completed" =>
             worker[w].status.entries = flushed /\ ~worker'[w].writing

LEMMA OwnerMoves ==
  ASSUME TypeOK, TypeOK', Owned, NEW w \in Workers, Others(w), OwnerMove(w),
         UNCHANGED <<client, starter, flushed>>,
         files'.lock = files.lock, files'.closure = files.closure
  PROVE  Owned'
<1> USE DEF Owned, Others, OwnerMove
<1>1. OwnerHoldsLock' /\ OneOwner' /\ OwnerWrites'
  BY DEF OwnerHoldsLock, OneOwner, OwnerWrites
<1>2. RunsUnfinished'
  BY DEF RunsUnfinished, Unfinished
<1>3. CompletedCountsAll'
  BY DEF CompletedCountsAll, CountsAll
<1>4. StartedLate'
  BY DEF StartedLate, Owning
<1>5. FinalKeepsOut'
  BY DEF FinalKeepsOut, OwnerHoldsLock
<1>6. CountsAreFlushed' /\ FinalIsLast'
  BY DEF CountsAreFlushed, FinalIsLast, OneOwner, StartedLate, Owning
<1>7. \A v \in Workers \ {w} : worker[v].pc \notin Owning /\ ~worker[v].writing
  BY DEF OneOwner, OwnerWrites
<1>8. FinalMeansOver'
  <2>1. CASE files'.status = files.status
    BY <1>6, <1>7, <2>1 DEF FinalMeansOver, Owning, Capturing, CountsAreFlushed
  <2>2. CASE files'.status = worker[w].status
    BY <1>6, <1>7, <2>2 DEF FinalMeansOver, Owning, Capturing, CountsAreFlushed
  <2> QED
    BY <2>1, <2>2
<1> QED
  BY <1>1, <1>2, <1>3, <1>4, <1>5, <1>6, <1>8

LEMMA OutsiderMoves ==
  ASSUME TypeOK, TypeOK', Owned, NEW w \in Workers, Others(w), worker[w].pc \notin Owning,
         worker'[w].pc \notin Owning, ~worker'[w].writing, ~Final(worker'[w].status),
         worker'[w].status.entries <= flushed,
         starter \notin {"spawn", "refused", "prepared"},
         \E v \in Workers : worker[v].pc # "none",
         UNCHANGED <<client, starter, flushed, files>>
  PROVE  Owned'
<1> USE DEF Owned, Others, Owning
<1>1. OwnerHoldsLock' /\ OneOwner' /\ OwnerWrites'
  BY DEF OwnerHoldsLock, OneOwner, OwnerWrites
<1>2. RunsUnfinished' /\ CompletedCountsAll'
  BY DEF RunsUnfinished, Unfinished, CompletedCountsAll, CountsAll
<1>3. StartedLate' /\ FinalKeepsOut' /\ CountsAreFlushed' /\ FinalIsLast'
  BY DEF StartedLate, FinalKeepsOut, CountsAreFlushed, FinalIsLast
<1>4. FinalMeansOver'
  BY DEF FinalMeansOver
<1> QED
  BY <1>1, <1>2, <1>3, <1>4

LEMMA WorkersOwned ==
  ASSUME TypeOK, TypeOK', ClosureIsOne, Owned, NEW w \in Workers, WorkerNext(w)
  PROVE  Owned'
<1>a. /\ worker \in [Workers -> WorkerState]
      /\ worker[w] \in WorkerState
      /\ files \in Files
      /\ files.lock \in BOOLEAN
      /\ flushed \in Nat
      /\ 0 <= flushed
  BY DEF TypeOK, Files
<1>b. ASSUME NEW pc \in WorkerPlaces, At(w, pc)
      PROVE  /\ Others(w)
             /\ worker'[w].pc = pc
             /\ pc # "ended" => /\ worker'[w].status = worker[w].status
                                /\ worker'[w].writing = worker[w].writing
             /\ pc = "ended" => /\ worker'[w].status.state = "active"
                                /\ worker'[w].status.entries = 0
                                /\ ~worker'[w].writing
  BY <1>b, AtMoves DEF Status, Others
<1>c. /\ {"none", "lock", "open", "run", "beat"} \subseteq WorkerPlaces
      /\ {"final", "publish", "failed", "last", "ended"} \subseteq WorkerPlaces
  BY DEF WorkerPlaces
<1>d. /\ client' = client
      /\ starter' = starter
  BY DEF WorkerNext, StartAgain, TakeLock, OpenLogs, Flush, Turn, Heartbeat,
         HeartbeatReplaces, Finalize, FinalPrepares, FinalReplaces, PublishFailure,
         FailureReplaces, Crash, WorkerStep
<1>e. /\ Unfinished(w) /\ CountsAll(w)
      /\ worker[w].status.entries <= flushed
      /\ worker[w].writing => worker[w].pc \in Owning
  BY DEF Owned, RunsUnfinished, CompletedCountsAll, CountsAreFlushed, OwnerWrites
<1>1. CASE StartAgain(w)
  <2>1. worker[w].pc = "none" /\ worker'[w].pc = "lock" /\ Others(w)
    BY <1>1, <1>b, <1>c DEF StartAgain, WorkerStep
  <2>2. worker'[w].status = worker[w].status /\ worker'[w].writing = worker[w].writing
    BY <1>1, <1>b, <1>c DEF StartAgain, WorkerStep
  <2>3. \E v \in Workers : worker[v].pc # "none"
    BY <1>1 DEF StartAgain
  <2>4. starter \notin {"spawn", "refused", "prepared"}
    BY <2>3 DEF Owned, StartedLate
  <2>5. UNCHANGED <<client, starter, flushed, files>>
    BY <1>1, <1>d DEF StartAgain
  <2>6. ~Final(worker'[w].status) /\ worker'[w].pc \notin Owning /\ worker[w].pc \notin Owning
    BY <1>e, <2>1, <2>2 DEF Unfinished, Owning
  <2> QED
    BY <1>e, <2>1, <2>2, <2>3, <2>4, <2>5, <2>6, OutsiderMoves
<1>2. CASE TakeLock(w)
  <2>1. worker[w].pc = "lock" /\ worker[w].pc \notin Owning /\ ~worker[w].writing
    BY <1>2, <1>e DEF TakeLock, WorkerStep, Owning
  <2>2. starter \notin {"spawn", "refused", "prepared"}
    BY <2>1 DEF Owned, StartedLate
  <2>3. CASE files.lock
    <3>1. Others(w) /\ worker'[w].pc = "ended"
      BY <1>2, <1>b, <1>c, <2>3 DEF TakeLock
    <3>2. /\ worker'[w].status.state = "active"
          /\ worker'[w].status.entries = 0
          /\ ~worker'[w].writing
      BY <1>2, <1>b, <1>c, <2>3 DEF TakeLock
    <3>3. UNCHANGED <<client, starter, flushed, files>>
      BY <1>2, <1>d, <2>3 DEF TakeLock
    <3> QED
      BY <1>a, <2>1, <2>2, <3>1, <3>2, <3>3, OutsiderMoves DEF Final, Owning
  <2>4. CASE ~files.lock
    <3>1. Others(w) /\ worker'[w].pc = "open"
      BY <1>2, <1>b, <1>c, <2>4 DEF TakeLock
    <3>2. worker'[w].status = worker[w].status /\ ~worker'[w].writing
      BY <1>2, <1>b, <1>c, <2>1, <2>4 DEF TakeLock
    <3>3. /\ UNCHANGED <<client, starter, flushed>>
          /\ files'.lock
          /\ files'.status = files.status
          /\ files'.closure = files.closure
      BY <1>2, <1>a, <1>d, <2>4 DEF TakeLock, Files
    <3>4. \A v \in Workers : worker[v].pc \notin Owning /\ ~worker[v].writing
      BY <2>4 DEF Owned, OwnerHoldsLock, OwnerWrites
    <3>5. ~Final(files.status)
      BY <2>1, <2>4 DEF Owned, FinalKeepsOut
    <3> USE <3>1, <3>2, <3>3 DEF Others
    <3>6. OwnerHoldsLock' /\ OneOwner' /\ OwnerWrites'
      BY <3>4 DEF OwnerHoldsLock, OneOwner, OwnerWrites, Owning
    <3>7. RunsUnfinished' /\ CompletedCountsAll'
      BY <1>e, <2>1 DEF Owned, RunsUnfinished, Unfinished, CompletedCountsAll, CountsAll
    <3>8. StartedLate' /\ FinalKeepsOut' /\ FinalIsLast' /\ CountsAreFlushed' /\ FinalMeansOver'
      BY <2>2, <3>5
         DEF Owned, StartedLate, FinalKeepsOut, FinalIsLast, CountsAreFlushed, FinalMeansOver
    <3> QED
      BY <3>6, <3>7, <3>8 DEF Owned
  <2> QED
    BY <2>3, <2>4
<1>3. CASE OpenLogs(w)
  <2>1. worker[w].pc = "open" /\ UNCHANGED <<files, flushed>>
    BY <1>3 DEF OpenLogs, WorkerStep
  <2>2. Others(w) /\ OwnerMove(w)
    <3>1. CASE At(w, "failed")
      BY <1>b, <1>c, <1>e, <2>1, <3>1 DEF OwnerMove, Owning, Capturing, Unfinished, CountsAll
    <3>2. CASE worker' = [worker EXCEPT ![w] = [pc |-> "run", status |-> Status("active", 0),
                                                writing |-> TRUE, failed |-> FALSE]]
      <4>1. /\ Others(w)
            /\ worker'[w].pc = "run" /\ worker'[w].status.state = "active"
            /\ worker'[w].status.entries = 0
        BY <1>a, <3>2 DEF Others, Status
      <4> QED
        BY <1>a, <2>1, <4>1 DEF OwnerMove, Owning, Capturing, Unfinished, CountsAll, Final
    <3> QED
      BY <1>3, <3>1, <3>2 DEF OpenLogs
  <2> QED
    BY <1>d, <2>1, <2>2, OwnerMoves
<1>4. CASE Flush(w)
  <2>1. /\ worker' = worker /\ files' = files
        /\ flushed' = flushed + 1
        /\ worker[w].writing /\ worker[w].pc \in Owning
    BY <1>4, <1>e DEF Flush
  <2>2. \A v \in Workers : CountsAll(v)'
    BY <1>e, <2>1 DEF Owned, OneOwner, CountsAll, Owning
  <2>3. FinalMeansOver'
    BY <1>a, <2>1 DEF Owned, FinalMeansOver, CountsAreFlushed, Files, Published
  <2>4. CountsAreFlushed'
    <3>1. /\ files.status.entries \in Nat
          /\ \A s \in files.closure : s.entries \in Nat
          /\ \A v \in Workers : worker[v].status.entries \in Nat
          /\ \A c \in Clients :
               \A s \in client[c].held \cup client[c].snapshot : s.entries \in Nat
      BY DEF TypeOK, Files, WorkerState, ClientState, Published
    <3> QED
      BY <1>a, <1>d, <2>1, <3>1 DEF Owned, CountsAreFlushed
  <2> QED
    BY <1>d, <2>1, <2>2, <2>3, <2>4
       DEF Owned, OwnerHoldsLock, OneOwner, OwnerWrites, RunsUnfinished, Unfinished,
           CompletedCountsAll, StartedLate, FinalKeepsOut, FinalIsLast
<1>5. CASE Turn(w)
  <2>1. worker[w].pc = "run" /\ UNCHANGED <<files, flushed>>
    BY <1>5 DEF Turn, WorkerStep
  <2>2. PICK state \in {"active", "stopping"}, failed \in {worker[w].failed, TRUE} :
          worker' = [worker EXCEPT ![w].status = Status(state, worker[w].status.entries),
                                   ![w].failed = failed]
    BY <1>5 DEF Turn
  <2>3. /\ Others(w)
        /\ worker'[w].pc = "run" /\ worker'[w].writing = worker[w].writing
        /\ worker'[w].status.state = state
        /\ worker'[w].status.entries = worker[w].status.entries
    BY <1>a, <2>1, <2>2 DEF Others, Status, WorkerState
  <2>4. OwnerMove(w)
    BY <1>e, <2>1, <2>3 DEF OwnerMove, Owning, Capturing, Unfinished, CountsAll, Final
  <2> QED
    BY <1>d, <2>1, <2>3, <2>4, OwnerMoves
<1>6. CASE Heartbeat(w)
  <2> DEFINE seen == [worker EXCEPT ![w].status.entries = flushed]
  <2>1. /\ \A v \in Workers \ {w} : seen[v] = worker[v]
        /\ seen[w].pc = worker[w].pc /\ seen[w].writing = worker[w].writing
        /\ seen[w].status.state = worker[w].status.state
        /\ seen[w].status.entries = flushed
        /\ seen \in [Workers -> WorkerState]
    BY <1>a DEF WorkerState, Published
  <2>2. /\ worker' = [seen EXCEPT ![w].pc = "beat"] \/ worker' = [seen EXCEPT ![w].failed = TRUE]
        /\ worker[w].pc = "run"
        /\ flushed' = flushed
        /\ files' = files \/ files' = [files EXCEPT !.next = TRUE]
    BY <1>6 DEF Heartbeat, Prepares, WorkerStep
  <2> HIDE DEF seen
  <2>3. /\ Others(w)
        /\ worker'[w].pc \in {"run", "beat"}
        /\ worker'[w].writing = worker[w].writing
        /\ worker'[w].status.state = worker[w].status.state
        /\ worker'[w].status.entries = flushed
    BY <2>1, <2>2 DEF Others, WorkerState
  <2>4. /\ files'.status = files.status /\ files'.lock = files.lock
        /\ files'.closure = files.closure
    BY <1>a, <2>2 DEF Files
  <2>5. OwnerMove(w)
    BY <1>a, <1>e, <2>2, <2>3, <2>4 DEF OwnerMove, Owning, Capturing, Unfinished, CountsAll, Final
  <2> QED
    BY <1>d, <2>2, <2>3, <2>4, <2>5, OwnerMoves
<1>7. CASE HeartbeatReplaces(w)
  <2>1. /\ Others(w)
        /\ worker'[w].pc = "run"
        /\ worker'[w].writing = worker[w].writing
        /\ worker'[w].status = worker[w].status
        /\ worker[w].pc = "beat"
        /\ flushed' = flushed
    <3>1. CASE At(w, "run")
      BY <1>7, <1>b, <1>c, <3>1 DEF HeartbeatReplaces, WorkerStep
    <3>2. CASE worker' = [worker EXCEPT ![w].pc = "run", ![w].failed = TRUE]
      BY <1>7, <1>a, <3>2 DEF HeartbeatReplaces, WorkerStep, Others, WorkerState
    <3> QED
      BY <1>7, <3>1, <3>2 DEF HeartbeatReplaces, Replaces
  <2>2. /\ files'.status = files.status \/ files'.status = worker[w].status
        /\ files'.lock = files.lock /\ files'.closure = files.closure
    BY <1>7, <1>a DEF HeartbeatReplaces, Replaces, Files
  <2>3. OwnerMove(w)
    BY <1>e, <2>1, <2>2 DEF OwnerMove, Owning, Capturing, Unfinished, CountsAll, Final
  <2> QED
    BY <1>d, <2>1, <2>2, <2>3, OwnerMoves
<1>8. CASE Finalize(w)
  <2>1. worker[w].pc = "run" /\ UNCHANGED <<files, flushed>>
    BY <1>8 DEF Finalize, WorkerStep
  <2>2. PICK failed \in {worker[w].failed, TRUE}, joined \in BOOLEAN :
          /\ ~failed => joined
          /\ worker' = [worker EXCEPT ![w] =
               [pc |-> "final", status |-> Status(IF failed THEN "failed" ELSE "completed", flushed),
                writing |-> ~joined, failed |-> failed]]
    BY <1>8 DEF Finalize
  <2>3. /\ Others(w)
        /\ worker'[w].pc = "final"
        /\ worker'[w].status.entries = flushed
        /\ worker'[w].status.state = "completed" => ~worker'[w].writing
    BY <1>a, <2>2 DEF Others, Status
  <2>4. OwnerMove(w)
    BY <1>a, <2>1, <2>3 DEF OwnerMove, Owning, Capturing, Unfinished, CountsAll
  <2> QED
    BY <1>d, <2>1, <2>3, <2>4, OwnerMoves
<1>9. CASE FinalPrepares(w)
  <2>1. /\ At(w, "publish") \/ At(w, "failed")
        /\ files' = files \/ files' = [files EXCEPT !.next = TRUE]
        /\ worker[w].pc = "final"
        /\ flushed' = flushed
    BY <1>9 DEF FinalPrepares, Prepares, WorkerStep
  <2>2. /\ Others(w)
        /\ worker'[w].pc \in {"publish", "failed"}
        /\ worker'[w].status = worker[w].status
        /\ worker'[w].writing = worker[w].writing
    BY <2>1, <1>b, <1>c
  <2>3. /\ files'.status = files.status /\ files'.lock = files.lock
        /\ files'.closure = files.closure
    BY <1>a, <2>1 DEF Files
  <2>4. OwnerMove(w)
    <3>1. ~Final(files.status)
      BY <2>1 DEF Owned, FinalMeansOver
    <3> QED
      BY <1>e, <2>1, <2>2, <2>3, <3>1 DEF OwnerMove, Owning, Capturing, Unfinished, CountsAll, Final
  <2> QED
    BY <1>d, <2>1, <2>2, <2>3, <2>4, OwnerMoves
<1>10. CASE FinalReplaces(w)
  <2>1. /\ At(w, "failed") \/ At(w, "ended")
        /\ worker[w].pc = "publish"
        /\ flushed' = flushed
    BY <1>10 DEF FinalReplaces, Replaces, WorkerStep
  <2>2. /\ files'.status = files.status \/ files'.status = worker[w].status
        /\ files'.lock = files.lock /\ files'.closure = files.closure
    BY <1>10, <1>a DEF FinalReplaces, Replaces, Files
  <2>3. OwnerMove(w) /\ Others(w)
    <3>1. CASE At(w, "failed")
      BY <1>b, <1>c, <1>e, <2>1, <2>2, <3>1 DEF OwnerMove, Owning, Capturing, Unfinished, CountsAll
    <3>2. CASE At(w, "ended")
      BY <1>a, <1>b, <1>c, <1>e, <2>1, <2>2, <3>2
         DEF OwnerMove, Owning, Capturing, Unfinished, CountsAll, Final
    <3> QED
      BY <2>1, <3>1, <3>2
  <2> QED
    BY <1>d, <2>1, <2>2, <2>3, OwnerMoves
<1>11. CASE PublishFailure(w)
  <2>1. /\ worker[w].pc = "failed"
        /\ flushed' = flushed
        /\ files' = files \/ files' = [files EXCEPT !.next = TRUE]
    BY <1>11 DEF PublishFailure, Prepares, WorkerStep
  <2>2. /\ files'.status = files.status /\ files'.lock = files.lock
        /\ files'.closure = files.closure
    BY <1>a, <2>1 DEF Files
  <2>3. Effective.entries <= flushed
    <3>1. \A s \in files.closure : Abandoned(s).entries <= flushed
      BY DEF Owned, CountsAreFlushed, Abandoned, Status
    <3> QED
      BY <3>1, EffectiveTyped DEF Owned, CountsAreFlushed
  <2>4. OwnerMove(w) /\ Others(w)
    <3>1. CASE At(w, "ended")
      BY <1>a, <1>b, <1>c, <2>1, <2>2, <3>1
         DEF OwnerMove, Owning, Capturing, Unfinished, CountsAll, Final
    <3>2. CASE worker' = [worker EXCEPT ![w].pc = "last",
                                        ![w].status = Status("failed", Effective.entries)]
      <4>1. /\ Others(w)
            /\ worker'[w].pc = "last"
            /\ worker'[w].status.state = "failed"
            /\ worker'[w].status.entries = Effective.entries
            /\ worker'[w].writing = worker[w].writing
        BY <1>a, <3>2 DEF Others, Status, WorkerState
      <4>2. ~Final(files.status)
        <5>1. CASE Final(Effective)
          BY <1>11, <1>b, <1>c, <4>1, <5>1 DEF PublishFailure
        <5>2. CASE ~Final(Effective)
          <6>1. files.closure = {}
            BY <5>2, EffectiveTyped DEF Final, Abandoned, Status
          <6> QED
            BY <5>2, <6>1, EffectiveTyped
        <5> QED
          BY <5>1, <5>2
      <4> QED
        BY <2>1, <2>2, <2>3, <4>1, <4>2
           DEF OwnerMove, Owning, Capturing, Unfinished, CountsAll, Final
    <3> QED
      BY <1>11, <3>1, <3>2 DEF PublishFailure, Prepares
  <2> QED
    BY <1>d, <2>1, <2>2, <2>4, OwnerMoves
<1>12. CASE FailureReplaces(w)
  <2>1. /\ At(w, "ended")
        /\ worker[w].pc = "last"
        /\ flushed' = flushed
    BY <1>12 DEF FailureReplaces, Replaces, WorkerStep
  <2>2. /\ files'.status = files.status \/ files'.status = worker[w].status
        /\ files'.lock = files.lock /\ files'.closure = files.closure
    BY <1>12, <1>a DEF FailureReplaces, Replaces, Files
  <2>3. OwnerMove(w) /\ Others(w)
    BY <1>a, <1>b, <1>c, <1>e, <2>1, <2>2
       DEF OwnerMove, Owning, Capturing, Unfinished, CountsAll, Final
  <2> QED
    BY <1>d, <2>1, <2>2, <2>3, OwnerMoves
<1>13. CASE Crash(w)
  <2>1. At(w, "ended") /\ worker[w].pc # "none" /\ UNCHANGED <<files, flushed>>
    BY <1>13 DEF Crash
  <2>2. /\ Others(w)
        /\ worker'[w].pc = "ended"
        /\ worker'[w].status.state = "active"
        /\ worker'[w].status.entries = 0
        /\ ~worker'[w].writing
    BY <2>1, <1>b, <1>c
  <2>3. CASE worker[w].pc \in Owning
    <3>1. OwnerMove(w)
      BY <1>a, <2>1, <2>2, <2>3 DEF OwnerMove, Owning, Capturing, Unfinished, CountsAll, Final
    <3> QED
      BY <1>d, <2>1, <2>2, <3>1, OwnerMoves
  <2>4. CASE worker[w].pc \notin Owning
    <3>1. starter \notin {"spawn", "refused", "prepared"}
      BY <2>1 DEF Owned, StartedLate
    <3> QED
      BY <1>a, <1>d, <2>1, <2>2, <2>4, <3>1, OutsiderMoves DEF Final, Owning
  <2> QED
    BY <2>3, <2>4
<1> QED
  BY <1>1, <1>2, <1>3, <1>4, <1>5, <1>6, <1>7, <1>8, <1>9, <1>10, <1>11, <1>12, <1>13
     DEF WorkerNext

-------------------------------------------------------------------------------
(* What workers and the starter leave to the clients                       *)

\* The status may move on unless it is final; closure and clients stay.
ClientsUndisturbed ==
  /\ Final(files.status) => files'.status = files.status
  /\ files'.closure = files.closure
  /\ UNCHANGED <<client, reported>>

LEMMA WorkersLeaveClients ==
  ASSUME TypeOK, Owned, NEW w \in Workers, WorkerNext(w)
  PROVE  ClientsUndisturbed
<1>1. UNCHANGED <<client, reported>>
  BY DEF WorkerNext, StartAgain, TakeLock, OpenLogs, Flush, Turn, Heartbeat,
         HeartbeatReplaces, Finalize, FinalPrepares, FinalReplaces, PublishFailure,
         FailureReplaces, Crash, WorkerStep
<1>2. \/ UNCHANGED files
      \/ files' = [files EXCEPT !.next = TRUE]
      \/ files' = [files EXCEPT !.lock = TRUE]
      \/ /\ worker[w].pc \in {"beat", "publish", "last"}
         /\ \/ files' = [files EXCEPT !.next = FALSE]
            \/ files' = [files EXCEPT !.next = FALSE, !.status = worker[w].status]
  BY DEF WorkerNext, StartAgain, TakeLock, OpenLogs, Flush, Turn, Heartbeat,
         HeartbeatReplaces, Finalize, FinalPrepares, FinalReplaces, PublishFailure,
         FailureReplaces, Crash, WorkerStep, Prepares, Replaces
<1>3. worker[w].pc \in {"beat", "publish", "last"} => ~Final(files.status)
  BY DEF Owned, FinalIsLast, FinalMeansOver
<1> QED
  BY <1>1, <1>2, <1>3 DEF ClientsUndisturbed, TypeOK, Files

LEMMA ClientsStayRight ==
  ASSUME TypeOK, Owned, Frozen, Kept, ClientsUndisturbed
  PROVE  Frozen' /\ Kept'
<1> USE DEF ClientsUndisturbed
<1>1. Frozen'
  BY DEF Frozen, ClosureIsOne, SnapshotIsTaken, HeldWasInForce, AbandonedIsClosure,
         ReadsBeforeActing, ReadsAreEffective
<1>2. ReportedIsKept'
  BY DEF Kept, ReportedIsKept
<1> QED
  BY <1>1, <1>2 DEF Kept, BeforeIsReported, HeldIsLater, FinalStaysFinal

LEMMA StarterStep ==
  ASSUME IInv, Spawn \/ SpawnFailed \/ StarterTimesOut
  PROVE  IInv'
<1> USE DEF IInv
<1>1. /\ files \in Files
      /\ Status("failed", 0) \in Published
      /\ Status("failed", 0).state = "failed" /\ Status("failed", 0).entries = 0
      /\ worker \in [Workers -> WorkerState]
      /\ flushed \in Nat
  BY DEF TypeOK, Status, Published
<1>2. CASE Spawn
  <2>1. /\ files' = files /\ flushed' = flushed /\ client' = client /\ reported' = reported
        /\ starter = "spawn"
    BY <1>2 DEF Spawn
  <2>2. \A v \in Workers : worker[v].pc = "none"
    BY <2>1 DEF Owned, StartedLate
  <2>3. \/ worker' = worker /\ starter' = "refused"
        \/ /\ starter' = "waiting"
           /\ \E w \in Workers : worker' = [worker EXCEPT ![w].pc = "lock"]
    BY <1>2 DEF Spawn, StarterAt
  <2>4. /\ worker' \in [Workers -> WorkerState]
        /\ \A v \in Workers : /\ worker'[v].pc \in {"none", "lock"}
                              /\ worker'[v].status = worker[v].status
                              /\ worker'[v].writing = worker[v].writing
        /\ starter' # "waiting" => \A v \in Workers : worker'[v].pc = "none"
    BY <1>1, <2>2, <2>3 DEF WorkerState, WorkerPlaces
  <2>5. TypeOK'
    BY <2>1, <2>3, <2>4 DEF TypeOK
  <2>6. ~Final(files.status)
    BY <2>1 DEF Owned, FinalIsLast
  <2>7. Owned'
    BY <2>1, <2>2, <2>3, <2>4, <2>6
       DEF Owned, OwnerHoldsLock, OneOwner, OwnerWrites, RunsUnfinished, Unfinished,
           CompletedCountsAll, CountsAll, StartedLate, FinalKeepsOut, FinalIsLast,
           CountsAreFlushed, FinalMeansOver, Owning
  <2>8. Frozen' /\ Kept'
    BY <2>1, ClientsStayRight DEF ClientsUndisturbed
  <2> QED
    BY <2>5, <2>7, <2>8
<1>3. CASE SpawnFailed
  <2>1. /\ UNCHANGED <<flushed, worker, client, reported>>
        /\ starter \in {"refused", "prepared"}
        /\ starter' \in {"prepared", "ended"}
    BY <1>3 DEF SpawnFailed, Prepares, Replaces, StarterAt
  <2>2. \/ files' = files
        \/ files' = [files EXCEPT !.next = TRUE]
        \/ files' = [files EXCEPT !.next = FALSE]
        \/ /\ files' = [files EXCEPT !.next = FALSE, !.status = Status("failed", 0)]
           /\ starter' = "ended"
    BY <1>3 DEF SpawnFailed, Prepares, Replaces, StarterAt
  <2>3. /\ files' \in Files
        /\ files'.lock = files.lock /\ files'.closure = files.closure
        /\ \/ files'.status = files.status
           \/ /\ files'.status.state = "failed" /\ files'.status.entries = 0
              /\ starter' = "ended"
    BY <1>1, <2>2 DEF Files
  <2>4. /\ \A v \in Workers : worker[v].pc = "none"
        /\ ~Final(files.status)
    BY <2>1 DEF Owned, StartedLate, FinalIsLast
  <2>5. TypeOK'
    BY <2>1, <2>3 DEF TypeOK
  <2>6. Owned'
    BY <1>1, <2>1, <2>3, <2>4
       DEF Owned, OwnerHoldsLock, OneOwner, OwnerWrites, RunsUnfinished, Unfinished,
           CompletedCountsAll, CountsAll, StartedLate, FinalKeepsOut, FinalIsLast,
           CountsAreFlushed, FinalMeansOver, Owning
  <2>7. Frozen' /\ Kept'
    BY <2>1, <2>3, <2>4, ClientsStayRight DEF ClientsUndisturbed
  <2> QED
    BY <2>5, <2>6, <2>7
<1>4. CASE StarterTimesOut
  <2>1. /\ UNCHANGED <<flushed, worker, client, reported>>
        /\ starter = "waiting" /\ starter' = "ended"
        /\ files' = [files EXCEPT !.stop = TRUE]
    BY <1>4 DEF StarterTimesOut, StarterAt
  <2>2. /\ files' \in Files
        /\ files'.lock = files.lock /\ files'.closure = files.closure
        /\ files'.status = files.status
    BY <1>1, <2>1 DEF Files
  <2>3. TypeOK'
    BY <2>1, <2>2 DEF TypeOK
  <2>4. Owned'
    BY <2>1, <2>2
       DEF Owned, OwnerHoldsLock, OneOwner, OwnerWrites, RunsUnfinished, Unfinished,
           CompletedCountsAll, CountsAll, StartedLate, FinalKeepsOut, FinalIsLast,
           CountsAreFlushed, FinalMeansOver
  <2>5. Frozen' /\ Kept'
    BY <2>1, <2>2, ClientsStayRight DEF ClientsUndisturbed
  <2> QED
    BY <2>3, <2>4, <2>5
<1> QED
  BY <1>2, <1>3, <1>4

LEMMA WorkerStepKeeps ==
  ASSUME IInv, NEW w \in Workers, WorkerNext(w)
  PROVE  IInv'
<1>1. TypeOK'
  BY WorkersTyped DEF IInv, Frozen
<1>2. Owned'
  BY <1>1, WorkersOwned DEF IInv, Frozen
<1>3. Frozen' /\ Kept'
  BY WorkersLeaveClients, ClientsStayRight DEF IInv
<1> QED
  BY <1>1, <1>2, <1>3 DEF IInv

-------------------------------------------------------------------------------
(* The clients                                                             *)

LEMMA ReturnsAnswer ==
  ASSUME TypeOK, ReadsBeforeActing, NEW c \in Clients, NEW status, Returns(c, status),
         client[c].look # "act", client[c].pc # "ended"
  PROVE  \E pc \in ClientPlaces :
           /\ Goes(c, pc, status)
           /\ pc \in {"recheck", "link"} => ~Final(status)
           /\ pc = "link" => client[c].pc = "recheck"
<1>1. client[c].pc \in {"check", "wait", "close", "recheck"}
  BY DEF TypeOK, ReadsBeforeActing, ClientState, ClientPlaces
<1> QED
  BY <1>1 DEF Returns, ClientPlaces

LEMMA OwnedLeftAlone ==
  ASSUME Owned, UNCHANGED <<flushed, starter, worker>>, files'.status = files.status,
         files'.lock = files.lock, CountsAreFlushed'
  PROVE  Owned'
BY DEF Owned, OwnerHoldsLock, OneOwner, OwnerWrites, RunsUnfinished, Unfinished,
       CompletedCountsAll, CountsAll, StartedLate, FinalKeepsOut, FinalIsLast, FinalMeansOver

\* A client that gets an answer: what the answer must be for the invariant.
LEMMA AnswerKeeps ==
  ASSUME IInv, NEW c \in Clients, NEW pc \in ClientPlaces, NEW status \in Statuses,
         Goes(c, pc, status), UNCHANGED <<flushed, starter, worker>>,
         files' \in Files, files'.status = files.status, files'.lock = files.lock,
         files.closure \subseteq files'.closure, ClosureIsOne',
         \A s \in files'.closure : s.entries <= flushed,
         Effective' \in Statuses, status.entries <= flushed,
         pc \in {"recheck", "link"} => ~Final(status),
         pc = "link" => client[c].pc = "recheck",
         status = Effective' \/ (client[c].held # {} /\ status \in client[c].effective),
         IF status.state = "abandoned" THEN \E s \in files'.closure : status = Abandoned(s)
         ELSE IF client[c].held = {} THEN status = files.status /\ files'.closure = {}
         ELSE status \in client[c].held /\ files'.closure = {}
  PROVE  IInv'
<1>1. /\ client' \in [Clients -> ClientState]
      /\ reported' \in SUBSET Statuses
  <2>1. pc = "recheck" => status \in Published
    BY DEF Final, Statuses
  <2> QED
    BY <2>1, ReturnsTyped DEF IInv
<1>2. TypeOK'
  BY <1>1 DEF IInv, TypeOK
<1>3. /\ \A d \in Clients \ {c} : client'[d] = client[d]
      /\ client'[c].pc = pc
      /\ client'[c].look = IF pc \in {"mark", "link"} THEN "act" ELSE "closure"
      /\ client'[c].held = {}
      /\ client'[c].result = {status}
      /\ client'[c].effective = {Effective'} \cup IF client[c].held = {} THEN {} ELSE client[c].effective
      /\ client'[c].before = IF client[c].held = {} THEN reported ELSE client[c].before
      /\ client'[c].snapshot = IF pc = "recheck" THEN {status} ELSE client[c].snapshot
  BY DEF Goes, IInv, TypeOK
<1>4. reported' = IF Final(status) THEN reported \cup {status} ELSE reported
  BY DEF Goes
<1>5. Owned'
  <2>1. CountsAreFlushed'
    BY <1>3 DEF IInv, Owned, CountsAreFlushed
  <2> QED
    BY <2>1, OwnedLeftAlone DEF IInv
<1>6. Frozen'
  <2> USE DEF IInv, Frozen
  <2>1. SnapshotIsTaken'
    BY <1>3 DEF SnapshotIsTaken, IsOne
  <2>2. HeldWasInForce'
    BY <1>3 DEF HeldWasInForce
  <2>3. AbandonedIsClosure'
    BY <1>3 DEF AbandonedIsClosure
  <2>4. ReadsBeforeActing'
    BY <1>3 DEF ReadsBeforeActing
  <2>5. ReadsAreEffective'
    BY <1>3 DEF ReadsAreEffective
  <2> QED
    BY <2>1, <2>2, <2>3, <2>4, <2>5
<1>7. Kept'
  <2> USE DEF IInv, Kept
  <2>1. ReportedIsKept'
    <3>1. ASSUME NEW r \in reported, r.state = "abandoned"
          PROVE  \E s \in files'.closure : r = Abandoned(s)
      BY <3>1 DEF ReportedIsKept
    <3>2. ASSUME NEW r \in reported, r.state # "abandoned"
          PROVE  r = files'.status
      BY <3>2 DEF ReportedIsKept
    <3>3. Final(status) /\ status.state # "abandoned" => status = files'.status
      BY DEF HeldIsLater
    <3> QED
      BY <1>4, <3>1, <3>2, <3>3 DEF ReportedIsKept, Final
  <2>2. BeforeIsReported'
    BY <1>3, <1>4 DEF BeforeIsReported
  <2>3. HeldIsLater'
    BY <1>3 DEF HeldIsLater
  <2>4. \A r \in client'[c].before : r.state = "abandoned" => r = status
    <3>1. SUFFICES ASSUME NEW r \in reported, r.state = "abandoned"
                   PROVE  r = status
      BY <1>3 DEF BeforeIsReported
    <3>2. PICK s \in files.closure : r = Abandoned(s)
      BY <3>1 DEF ReportedIsKept
    <3>3. files'.closure = {s}
      BY <3>2 DEF ClosureIsOne, IsOne
    <3> QED
      BY <3>2, <3>3
  <2>5. status.state # "abandoned" =>
          \A r \in client'[c].before : r.state # "abandoned" => r = status
    <3>1. CASE client[c].held = {}
      BY <1>3, <3>1 DEF ReportedIsKept
    <3>2. CASE client[c].held # {}
      BY <1>3, <3>2 DEF HeldIsLater, Frozen, HeldWasInForce, IsOne
    <3> QED
      BY <3>1, <3>2
  <2>6. FinalStaysFinal'
    BY <1>3, <2>4, <2>5 DEF FinalStaysFinal
  <2> QED
    BY <2>1, <2>2, <2>3, <2>6
<1> QED
  BY <1>2, <1>5, <1>6, <1>7 DEF IInv

LEMMA ClientStepKeeps ==
  ASSUME IInv, NEW c \in Clients, ClientNext(c)
  PROVE  IInv'
<1> USE DEF IInv
<1>a. /\ client \in [Clients -> ClientState] /\ client[c] \in ClientState
      /\ files \in Files
  BY DEF TypeOK
<1>b. /\ client[c].pc # "ended"
      /\ UNCHANGED <<flushed, starter, worker>>
  BY DEF ClientNext, LookForClosure, ReadStatus, LookAgain, MarkStop, LinkClosure, ClientStep
<1>c. /\ ClosureIsOne
      /\ Effective \in Statuses
      /\ files.closure = {} => Effective = files.status
      /\ \A s \in files.closure : Effective = Abandoned(s)
  BY EffectiveTyped DEF Frozen
<1>d. /\ files.status.entries <= flushed
      /\ \A s \in files.closure : s.entries <= flushed
      /\ \A s \in client[c].held : s.entries <= flushed
      /\ \A s \in client[c].snapshot : s.entries <= flushed
  BY DEF Owned, CountsAreFlushed
<1>e. \A s \in Published : /\ Abandoned(s) \in Statuses
                           /\ Abandoned(s).state = "abandoned"
                           /\ Abandoned(s).entries = s.entries
                           /\ s.state # "abandoned"
  BY DEF Abandoned, Status, Statuses, Published
<1>f. /\ client[c].look = "again" => IsOne(client[c].held)
      /\ client[c].held # {} => client[c].look = "again"
      /\ files.closure = {} => client[c].held \subseteq client[c].effective
      /\ client[c].held \subseteq Published
      /\ files.closure \subseteq Published
      /\ files.status \in Published
  BY <1>a DEF Frozen, HeldWasInForce, ClientState, Files
\* An answer that leaves the directory as it is.
<1>g. ASSUME files' = files, client[c].look # "act", NEW status \in Statuses,
             Returns(c, status),
             IF files.closure # {} THEN status = Effective ELSE status \in client[c].held
      PROVE  IInv'
  <2>1. PICK pc \in ClientPlaces :
          /\ Goes(c, pc, status)
          /\ pc \in {"recheck", "link"} => ~Final(status)
          /\ pc = "link" => client[c].pc = "recheck"
    BY <1>b, <1>g, ReturnsAnswer DEF Frozen
  <2>2. Effective' = Effective
    BY <1>g DEF Effective
  <2>3. status.entries <= flushed
    BY <1>c, <1>d, <1>e, <1>f, <1>g
  <2>4. IF status.state = "abandoned" THEN \E s \in files.closure : status = Abandoned(s)
        ELSE client[c].held # {} /\ status \in client[c].held /\ files.closure = {}
    BY <1>c, <1>e, <1>f, <1>g
  <2>5. status = Effective \/ (client[c].held # {} /\ status \in client[c].effective)
    BY <1>f, <1>g
  <2>6. ClosureIsOne'
    BY <1>c, <1>g DEF ClosureIsOne
  <2> QED
    BY <1>a, <1>b, <1>c, <1>d, <1>g, <2>1, <2>2, <2>3, <2>4, <2>5, <2>6, AnswerKeeps
<1>1. CASE LookForClosure(c)
  <2>1. files' = files /\ client[c].look = "closure"
    BY <1>1 DEF LookForClosure, ClientStep
  <2>2. CASE files.closure # {}
    BY <1>1, <1>c, <1>g, <2>1, <2>2 DEF LookForClosure
  <2>3. CASE files.closure = {}
    <3>1. /\ client' = [client EXCEPT ![c].look = "status", ![c].before = reported,
                                      ![c].result = {}, ![c].effective = {}]
          /\ reported' = reported
      BY <1>1, <2>3 DEF LookForClosure
    <3>2. /\ client' \in [Clients -> ClientState]
          /\ \A d \in Clients \ {c} : client'[d] = client[d]
          /\ client'[c].pc = client[c].pc
          /\ client'[c].look = "status"
          /\ client'[c].held = {} /\ client'[c].result = {}
          /\ client'[c].snapshot = client[c].snapshot
          /\ client'[c].before = reported
      <4>1. reported \in SUBSET Statuses /\ client[c].held = {}
        BY <1>f, <2>1 DEF TypeOK
      <4> QED
        BY <1>a, <3>1, <4>1 DEF ClientState
    <3>3. client[c].pc \notin {"mark", "link"}
      BY <2>1 DEF Frozen, ReadsBeforeActing
    <3> USE <1>b, <2>1, <3>1, <3>2, <3>3
    <3>4. TypeOK'
      BY DEF TypeOK
    <3>5. Owned'
      <4>1. CountsAreFlushed'
        BY DEF Owned, CountsAreFlushed
      <4> QED
        BY <4>1, OwnedLeftAlone
    <3>6. Frozen'
      BY DEF Frozen, ClosureIsOne, SnapshotIsTaken, HeldWasInForce, AbandonedIsClosure,
             ReadsBeforeActing, ReadsAreEffective
    <3>7. Kept'
      BY DEF Kept, ReportedIsKept, BeforeIsReported, HeldIsLater, FinalStaysFinal
    <3> QED
      BY <3>4, <3>5, <3>6, <3>7
  <2> QED
    BY <2>2, <2>3
<1>2. CASE ReadStatus(c)
  <2>1. /\ files' = files /\ reported' = reported
        /\ client[c].look = "status"
        /\ client' = [client EXCEPT ![c].look = "again", ![c].held = {files.status},
                                    ![c].effective = {Effective}]
    BY <1>2 DEF ReadStatus, ClientStep
  <2>2. /\ client' \in [Clients -> ClientState]
        /\ \A d \in Clients \ {c} : client'[d] = client[d]
        /\ client'[c].pc = client[c].pc
        /\ client'[c].look = "again"
        /\ client'[c].held = {files.status} /\ client'[c].effective = {Effective}
        /\ client'[c].result = client[c].result
        /\ client'[c].snapshot = client[c].snapshot
        /\ client'[c].before = client[c].before
    BY <1>a, <1>c, <1>f, <2>1, ZenonT(40) DEF ClientState
  <2>3. client[c].pc \notin {"mark", "link"} /\ client[c].result = {}
    BY <2>1 DEF Frozen, ReadsBeforeActing
  <2> USE <1>b, <2>1, <2>2, <2>3
  <2>4. TypeOK'
    BY DEF TypeOK
  <2>5. Owned'
    <3>1. CountsAreFlushed'
      BY <1>d DEF Owned, CountsAreFlushed
    <3> QED
      BY <3>1, OwnedLeftAlone
  <2>6. Frozen'
    BY <1>c
       DEF Frozen, ClosureIsOne, SnapshotIsTaken, HeldWasInForce, AbandonedIsClosure,
           ReadsBeforeActing, ReadsAreEffective, IsOne
  <2>7. Kept'
    BY DEF Kept, ReportedIsKept, BeforeIsReported, HeldIsLater, FinalStaysFinal
  <2> QED
    BY <2>4, <2>5, <2>6, <2>7
<1>3. CASE LookAgain(c)
  <2>1. files' = files /\ client[c].look = "again"
    BY <1>3 DEF LookAgain, ClientStep
  <2>2. PICK status \in IF files.closure # {} THEN {Effective} ELSE client[c].held :
          Returns(c, status)
    BY <1>3 DEF LookAgain
  <2>3. status \in Statuses
    BY <1>c, <1>f, <2>2 DEF Statuses
  <2> QED
    BY <1>g, <2>1, <2>2, <2>3
<1>4. CASE MarkStop(c)
  <2>1. /\ files' = [files EXCEPT !.stop = TRUE] /\ reported' = reported
        /\ client[c].look = "act" /\ client[c].pc = "mark"
        /\ client' = [client EXCEPT ![c].pc = "wait", ![c].look = "closure"]
    BY <1>4 DEF MarkStop, ClientStep
  <2>2. /\ files' \in Files
        /\ files'.status = files.status /\ files'.lock = files.lock
        /\ files'.closure = files.closure
    BY <1>a, <2>1 DEF Files
  <2>3. /\ client' \in [Clients -> ClientState]
        /\ \A d \in Clients \ {c} : client'[d] = client[d]
        /\ client'[c].pc = "wait" /\ client'[c].look = "closure"
        /\ client'[c].held = client[c].held /\ client'[c].effective = client[c].effective
        /\ client'[c].result = client[c].result
        /\ client'[c].snapshot = client[c].snapshot
        /\ client'[c].before = client[c].before
    BY <1>a, <2>1 DEF ClientState, ClientPlaces
  <2> USE <1>b, <2>1, <2>2, <2>3
  <2>4. TypeOK'
    BY DEF TypeOK
  <2>5. Owned'
    <3>1. CountsAreFlushed'
      BY DEF Owned, CountsAreFlushed
    <3> QED
      BY <3>1, OwnedLeftAlone
  <2>6. Frozen'
    BY <1>f
       DEF Frozen, ClosureIsOne, SnapshotIsTaken, HeldWasInForce, AbandonedIsClosure,
           ReadsBeforeActing, ReadsAreEffective, IsOne
  <2>7. Kept'
    BY DEF Kept, ReportedIsKept, BeforeIsReported, HeldIsLater, FinalStaysFinal
  <2> QED
    BY <2>4, <2>5, <2>6, <2>7
<1>5. CASE LinkClosure(c)
  <2>1. /\ client[c].look = "act" /\ client[c].pc = "link"
        /\ files' = [files EXCEPT !.closure =
                       IF files.closure = {} THEN client[c].snapshot ELSE files.closure]
    BY <1>5 DEF LinkClosure, ClientStep
  <2>2. PICK snapshot \in files'.closure : Goes(c, "ended", Abandoned(snapshot))
    BY <1>5 DEF LinkClosure
  <2>3. /\ files'.status = files.status /\ files'.lock = files.lock
        /\ files'.closure = IF files.closure = {} THEN client[c].snapshot ELSE files.closure
        /\ files' \in Files
    BY <1>a, <2>1 DEF Files, ClientState
  <2>4. IsOne(files'.closure)
    BY <1>c, <2>1, <2>3 DEF Frozen, SnapshotIsTaken, ClosureIsOne
  <2>5. files'.closure = {snapshot} /\ snapshot \in Published
    BY <2>2, <2>3, <2>4 DEF IsOne, Files
  <2>6. Effective' = Abandoned(snapshot)
    <3>1. {Abandoned(s) : s \in files'.closure} = {Abandoned(snapshot)}
      BY <2>5
    <3>2. (CHOOSE closed \in {Abandoned(snapshot)} : TRUE) = Abandoned(snapshot)
      OBVIOUS
    <3> QED
      BY <2>5, <3>1, <3>2 DEF Effective
  <2>7. \A s \in files'.closure : s.entries <= flushed
    BY <1>d, <2>3
  <2>8. ClosureIsOne' /\ files.closure \subseteq files'.closure
    BY <2>3, <2>4 DEF ClosureIsOne, IsOne
  <2> QED
    BY <1>b, <1>e, <2>2, <2>3, <2>5, <2>6, <2>7, <2>8, AnswerKeeps DEF ClientPlaces
<1> QED
  BY <1>1, <1>2, <1>3, <1>4, <1>5 DEF ClientNext

-------------------------------------------------------------------------------
(* Theorems                                                                *)

LEMMA InitKeeps == Init => IInv
<1> SUFFICES ASSUME Init PROVE IInv
  OBVIOUS
<1> USE DEF Init
<1>1. Status("active", 0) \in Published /\ ~Final(Status("active", 0))
  BY DEF Status, Published, Final
<1>2. TypeOK
  BY <1>1 DEF TypeOK, Files, WorkerState, WorkerPlaces, ClientState, ClientPlaces, Idle
<1>3. Owned
  BY <1>1 DEF Owned, OwnerHoldsLock, OneOwner, OwnerWrites, RunsUnfinished, Unfinished,
              CompletedCountsAll, CountsAll, StartedLate, FinalKeepsOut, FinalIsLast,
              CountsAreFlushed, FinalMeansOver, Owning, Idle, Status
<1>4. Frozen
  BY DEF Frozen, ClosureIsOne, SnapshotIsTaken, HeldWasInForce, AbandonedIsClosure,
         ReadsBeforeActing, ReadsAreEffective
<1>5. Kept
  BY DEF Kept, ReportedIsKept, BeforeIsReported, HeldIsLater, FinalStaysFinal
<1> QED
  BY <1>2, <1>3, <1>4, <1>5 DEF IInv

\* Whatever order the processes of a session run in, the directory and what they
\* know of it satisfy the invariant.
THEOREM SessionInvariant == Spec => []IInv
<1>1. IInv /\ [Next]_vars => IInv'
  <2> SUFFICES ASSUME IInv, [Next]_vars PROVE IInv'
    OBVIOUS
  <2>1. CASE Spawn \/ SpawnFailed \/ StarterTimesOut
    BY <2>1, StarterStep
  <2>2. ASSUME NEW w \in Workers, WorkerNext(w) PROVE IInv'
    BY <2>2, WorkerStepKeeps
  <2>3. ASSUME NEW c \in Clients, ClientNext(c) PROVE IInv'
    BY <2>3, ClientStepKeeps
  <2>4. CASE UNCHANGED vars
    <3>1. ClientsUndisturbed /\ UNCHANGED <<flushed, starter, worker>>
      BY <2>4 DEF vars, ClientsUndisturbed
    <3>2. CountsAreFlushed'
      BY <2>4 DEF IInv, Owned, CountsAreFlushed, vars
    <3>3. TypeOK' /\ Owned'
      BY <2>4, <3>1, <3>2, OwnedLeftAlone DEF IInv, TypeOK, vars
    <3> QED
      BY <3>1, <3>3, ClientsStayRight DEF IInv
  <2> QED
    BY <2>1, <2>2, <2>3, <2>4 DEF Next
<1> QED
  BY <1>1, InitKeeps, PTL DEF Spec

\* A final status file means that no worker captures, and a completed one counts
\* every record of the file, for any number of workers and crashes.
THEOREM FinalAlwaysMeansOver == Spec => []FinalMeansOver
<1>1. IInv => FinalMeansOver
  BY DEF IInv, Owned
<1> QED
  BY <1>1, SessionInvariant, PTL

\* Whatever read_effective returns was in force during the read.
THEOREM ReadsAlwaysEffective == Spec => []ReadsAreEffective
<1>1. IInv => ReadsAreEffective
  BY DEF IInv, Frozen
<1> QED
  BY <1>1, SessionInvariant, PTL

\* All who report a forced closure report the same one.
THEOREM ForcedStopsAlwaysAgree == Spec => []ForcedStopsAgree
<1>1. IInv => ForcedStopsAgree
  BY DEF IInv, Frozen, ClosureIsOne, IsOne, AbandonedIsClosure, ForcedStopsAgree
<1> QED
  BY <1>1, SessionInvariant, PTL

\* A final answer that anyone got is not taken back by a later one, but for a
\* closure.
THEOREM FinalAlwaysStaysFinal == Spec => []FinalStaysFinal
<1>1. IInv => FinalStaysFinal
  BY DEF IInv, Kept
<1> QED
  BY <1>1, SessionInvariant, PTL
===============================================================================
