------------------------------ MODULE Controller ------------------------------
(***************************************************************************)
(* The capture controller of src/src/capture_controller.rs as a value and  *)
(* the transitions its methods make on it.  The desktop application and    *)
(* the headless recorder own one controller each, so the transitions are   *)
(* pure operators here; CaptureController.tla, LiveCapture.tla and         *)
(* CaptureRun.tla keep such a value in a variable.                         *)
(*                                                                         *)
(* Time.  The code stores Instants; a stored Instant is only ever compared *)
(* with the current one.  The model keeps the time LEFT until a deadline   *)
(* (0: reached) and the time SINCE an attempt began to run, saturated at   *)
(* STABLE_RUN where the only comparison on it saturates.  Elapse is one    *)
(* unit of time.  Error texts are left out: only whether there is one.     *)
(***************************************************************************)
EXTENDS Integers

CONSTANTS
  Target,        \* the devices and buffer sets a capture can be asked for
  STOP_TIMEOUT,  \* time a stop has to be confirmed in (5 s)
  STABLE_RUN,    \* running this long resets the retry counter (30 s)
  MaxId          \* largest attempt id (u64::MAX)

ASSUME ControllerAssumption ==
  /\ "Paused" \notin Target
  /\ "Closed" \notin Target
  /\ STOP_TIMEOUT \in Nat \ {0}
  /\ STABLE_RUN \in Nat \ {0}
  /\ MaxId \in Nat \ {0}

MAX_RETRIES == 3

\* Ids are handed out from 1, so 0 stands for "no attempt".
NoId == 0
Id == 1 .. MaxId

Intent == Target \cup {"Paused", "Closed"}

NotRunning == -1

Attempt == [id : Id, target : Target, running : NotRunning .. STABLE_RUN]

RetryDelay(retries) == <<1, 2, 4>>[retries + 1]

Idle == [tag |-> "Idle"]
Active(attempt) == [tag |-> "Active", attempt |-> attempt]
Stopping(attempt, left, late) ==
  [tag |-> "Stopping", attempt |-> attempt, left |-> left, timed_out |-> late]
Backoff(left) == [tag |-> "Backoff", left |-> left]
Failed == [tag |-> "Failed"]

Phase ==
  [tag : {"Idle", "Failed"}]
    \cup [tag : {"Active"}, attempt : Attempt]
    \cup [tag : {"Stopping"}, attempt : Attempt,
          left : 0 .. STOP_TIMEOUT, timed_out : BOOLEAN]
    \cup [tag : {"Backoff"}, left : 0 .. 4]

ControllerState ==
  [intent : Intent, phase : Phase, next_id : 0 .. MaxId,
   retries : 0 .. MAX_RETRIES, failure_after_stop : BOOLEAN]

Controlled(intent, phase, next_id, retries, fault) ==
  [intent |-> intent, phase |-> phase, next_id |-> next_id,
   retries |-> retries, failure_after_stop |-> fault]

NewController == Controlled("Closed", Idle, 0, 0, FALSE)

-------------------------------------------------------------------------------
(* Observers *)

IsActive(c) == c.phase.tag = "Active"
IsStopping(c) == c.phase.tag = "Stopping"
IsFailed(c) == c.phase.tag = "Failed"
HasAttempt(c) == IsActive(c) \/ IsStopping(c)
ActiveId(c) == IF HasAttempt(c) THEN c.phase.attempt.id ELSE NoId
Capturing(c) == c.intent \in Target

\* What the caller's status line says: one case per arm of status().
Status(c) ==
  CASE c.phase.tag = "Idle" -> IF Capturing(c) THEN "Waiting" ELSE c.intent
    [] IsActive(c) -> IF c.phase.attempt.running # NotRunning
                      THEN "Running" ELSE "Starting"
    [] IsStopping(c) -> IF c.failure_after_stop \/ c.phase.timed_out
                        THEN "Failed" ELSE "Stopping"
    [] OTHER -> c.phase.tag

-------------------------------------------------------------------------------
(* Transitions *)

\* Mutant: an attempt that is stopping is stopped again, which restarts its deadline.
RequestStopsAgain(c, intent, restart) ==
  HasAttempt(c) /\ (restart \/ intent # c.phase.attempt.target)

\* request: a Stop is returned exactly when RequestStops holds.
RequestStops(c, intent, restart) ==
  IsActive(c) /\ (restart \/ intent # c.phase.attempt.target)

\* A stop under way keeps its deadline; anything else waits for poll.
Request(c, intent, restart) ==
  LET phase == IF RequestStops(c, intent, restart)
               THEN Stopping(c.phase.attempt, STOP_TIMEOUT, FALSE)
               ELSE IF HasAttempt(c) THEN c.phase ELSE Idle
  IN Controlled(intent, phase, c.next_id, 0, c.failure_after_stop)

\* poll: a Start of the new attempt is returned exactly when PollStarts holds.
Due(c) ==
  \/ c.phase.tag = "Idle"
  \/ c.phase.tag = "Backoff" /\ c.phase.left = 0

PollLaunches(c, target_ready) == Due(c) /\ target_ready /\ Capturing(c)

PollStarts(c, target_ready) ==
  PollLaunches(c, target_ready) /\ c.next_id < MaxId

Fresh(id, target) == [id |-> id, target |-> target, running |-> NotRunning]

\* Mutant: a stop past its deadline is given up for a new attempt.
PollGivesUp(c, target_ready) ==
  IF IsStopping(c) /\ (c.phase.left > 0 \/ ~Capturing(c)) THEN c
  ELSE IF (IsStopping(c) \/ PollStarts(c, target_ready)) /\ c.next_id < MaxId
  THEN Controlled(c.intent, Active(Fresh(c.next_id + 1, c.intent)),
                  c.next_id + 1, c.retries, c.failure_after_stop)
  ELSE c
Poll(c, target_ready) ==
  IF IsStopping(c)
  THEN IF c.phase.left = 0
       THEN [c EXCEPT !.phase = Stopping(c.phase.attempt, 0, TRUE)] ELSE c
  ELSE IF PollStarts(c, target_ready)
  THEN Controlled(c.intent, Active(Fresh(c.next_id + 1, c.intent)),
                  c.next_id + 1, c.retries, c.failure_after_stop)
  ELSE IF PollLaunches(c, target_ready)
  THEN [c EXCEPT !.phase = Failed]
  ELSE c

\* The attempt in hand with another running time.
Aged(c, running) ==
  LET a == c.phase.attempt
      b == [id |-> a.id, target |-> a.target, running |-> running]
  IN IF IsActive(c) THEN [c EXCEPT !.phase = Active(b)]
     ELSE [c EXCEPT !.phase = Stopping(b, c.phase.left, c.phase.timed_out)]

\* started: returns TRUE exactly when StartedCounts holds.
StartedCounts(c, id) ==
  /\ HasAttempt(c)
  /\ c.phase.attempt.id = id
  /\ c.phase.attempt.running = NotRunning

Started(c, id) == IF StartedCounts(c, id) THEN Aged(c, 0) ELSE c

\* halt: returns a Stop exactly when RequestStops(c, "Paused", FALSE) holds.
Halt(c) ==
  LET r == Request(c, "Paused", FALSE)
  IN IF IsStopping(r)
     THEN Controlled(r.intent, r.phase, r.next_id, r.retries, TRUE)
     ELSE [r EXCEPT !.phase = Failed]

\* Mutant: the fault is not looked at.
StoppedExitForgivesFault(c) ==
  Controlled(c.intent, IF c.phase.left = 0 THEN Failed ELSE Idle,
             c.next_id, c.retries, FALSE)

\* exited, of an attempt that was told to stop and of one that was not.
StoppedExit(c) ==
  LET phase == IF c.failure_after_stop \/ c.phase.timed_out \/ c.phase.left = 0
               THEN Failed ELSE Idle
  IN Controlled(c.intent, phase, c.next_id, c.retries, FALSE)

UnexpectedExit(c) ==
  LET used == IF c.phase.attempt.running = STABLE_RUN THEN 0 ELSE c.retries
      after(phase, retries) ==
        Controlled(c.intent, phase, c.next_id, retries, c.failure_after_stop)
  IN IF ~Capturing(c) THEN after(Idle, used)
     ELSE IF used < MAX_RETRIES
     THEN after(Backoff(RetryDelay(used)), used + 1)
     ELSE after(Failed, used)

\* Returns TRUE exactly when id is the current attempt.
Exited(c, id) ==
  IF ~HasAttempt(c) \/ ActiveId(c) # id THEN c
  ELSE IF IsStopping(c) THEN StoppedExit(c) ELSE UnexpectedExit(c)

\* completed: a finite capture that ended well is not restarted.
Completed(c, id) ==
  IF IsActive(c) /\ ActiveId(c) = id
  THEN Exited(Controlled("Paused", c.phase, c.next_id, 0, c.failure_after_stop), id)
  ELSE Exited(c, id)

\* One unit of time.  The age of a stopping attempt is never read again.
Elapse(c) ==
  IF IsActive(c) /\ c.phase.attempt.running \in 0 .. (STABLE_RUN - 1)
  THEN Aged(c, c.phase.attempt.running + 1)
  ELSE IF IsStopping(c) /\ c.phase.left > 0
  THEN [c EXCEPT !.phase = Stopping(c.phase.attempt, c.phase.left - 1,
                                    c.phase.timed_out)]
  ELSE IF c.phase.tag = "Backoff" /\ c.phase.left > 0
  THEN [c EXCEPT !.phase = Backoff(c.phase.left - 1)]
  ELSE c

-------------------------------------------------------------------------------
(* What every reachable controller satisfies *)

\* An attempt that was not told to stop is for what was last asked for.
WantedWhenActive(c) == IsActive(c) => c.intent = c.phase.attempt.target

\* A fault is kept back only while its attempt is stopping.
FaultWaitsForStop(c) == c.failure_after_stop => IsStopping(c)

\* The attempt in hand is the last one handed out.
NewestInHand(c) == HasAttempt(c) => c.phase.attempt.id = c.next_id

\* A pending retry is counted and still wanted.
RetryCounted(c) ==
  c.phase.tag = "Backoff" => c.retries \in 1 .. MAX_RETRIES /\ Capturing(c)

Sound(c) ==
  /\ c \in ControllerState
  /\ WantedWhenActive(c)
  /\ FaultWaitsForStop(c)
  /\ NewestInHand(c)
  /\ RetryCounted(c)
===============================================================================
