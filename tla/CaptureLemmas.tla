---------------------------- MODULE CaptureLemmas -----------------------------
(***************************************************************************)
(* What the two recorders and the controller's own theorems share.         *)
(*                                                                         *)
(* Every method of the controller keeps Sound, and changes what a caller   *)
(* sees of it in one of four ways.  The lemmas are about a controller      *)
(* value, so the modules that own one can all cite them.                   *)
(*                                                                         *)
(* The channel of LogcatChild as its two consumers rely on it, for every   *)
(* number of attempts, lines and queue length: which events of a child may *)
(* be in the queue, in which order, and that none of its lines is missing. *)
(***************************************************************************)
EXTENDS Controller, LogcatChild, SequenceTheorems, TLAPS

-------------------------------------------------------------------------------
(* The controller *)

\* What a phase of each kind carries, and that it is built by its constructor.
LEMMA PhaseFields ==
  ASSUME NEW p \in Phase
  PROVE  /\ p.tag \in {"Idle", "Failed", "Active", "Stopping", "Backoff"}
         /\ p.tag \in {"Active", "Stopping"} => p.attempt \in Attempt
         /\ p.tag = "Stopping" => p.left \in 0 .. STOP_TIMEOUT /\ p.timed_out \in BOOLEAN
         /\ p.tag = "Backoff" => p.left \in 0 .. 4
         /\ p.tag = "Idle" => p = Idle
         /\ p.tag = "Failed" => p = Failed
         /\ p.tag = "Active" => p = Active(p.attempt)
         /\ p.tag = "Stopping" => p = Stopping(p.attempt, p.left, p.timed_out)
         /\ p.tag = "Backoff" => p = Backoff(p.left)
  BY DEF Phase, Active, Stopping, Backoff, Idle, Failed

\* A controller built field by field is sound if its phase fits the rest.
LEMMA ControlledIsSound ==
  ASSUME NEW i \in Intent, NEW p \in Phase, NEW n \in 0 .. MaxId,
         NEW r \in 0 .. MAX_RETRIES, NEW f \in BOOLEAN,
         p.tag = "Active" => i = p.attempt.target,
         f => p.tag = "Stopping",
         p.tag \in {"Active", "Stopping"} => p.attempt.id = n,
         p.tag = "Backoff" => r # 0 /\ i \in Target
  PROVE  Sound(Controlled(i, p, n, r, f))
<1> DEFINE c == Controlled(i, p, n, r, f)
<1>1. c \in ControllerState
  BY DEF Controlled, ControllerState
<1>2. /\ c.intent = i /\ c.phase = p /\ c.next_id = n
      /\ c.retries = r /\ c.failure_after_stop = f
  BY DEF Controlled
<1> HIDE DEF c
<1> QED
  <2> SUFFICES Sound(c)
    BY DEF c
  <2> QED
    BY <1>1, <1>2
       DEF Sound, WantedWhenActive, FaultWaitsForStop, NewestInHand, RetryCounted,
           IsActive, IsStopping, HasAttempt, Capturing, MAX_RETRIES

\* Replacing only the phase of a controller.
LEMMA PhaseChangeIsSound ==
  ASSUME NEW c, Sound(c), NEW p \in Phase,
         p.tag = "Active" => c.intent = p.attempt.target,
         c.failure_after_stop => p.tag = "Stopping",
         p.tag \in {"Active", "Stopping"} => p.attempt.id = c.next_id,
         p.tag = "Backoff" => c.retries # 0 /\ Capturing(c)
  PROVE  Sound([c EXCEPT !.phase = p])
<1>1. c \in ControllerState
  BY DEF Sound
<1>2. [c EXCEPT !.phase = p]
        = Controlled(c.intent, p, c.next_id, c.retries, c.failure_after_stop)
  BY <1>1 DEF Controlled, ControllerState
<1>3. /\ c.intent \in Intent /\ c.next_id \in 0 .. MaxId
      /\ c.retries \in 0 .. MAX_RETRIES /\ c.failure_after_stop \in BOOLEAN
  BY <1>1 DEF ControllerState
<1> QED
  BY <1>2, <1>3, ControlledIsSound DEF Capturing

\* The parts of a sound controller.
LEMMA SoundFields ==
  ASSUME NEW c, Sound(c)
  PROVE  /\ c.intent \in Intent /\ c.next_id \in 0 .. MaxId /\ c.phase \in Phase
         /\ c.retries \in 0 .. MAX_RETRIES /\ c.failure_after_stop \in BOOLEAN
         /\ HasAttempt(c) => /\ c.phase.attempt \in Attempt
                             /\ c.phase.attempt.id = c.next_id
         /\ IsActive(c) => c.phase.attempt.target = c.intent
         /\ IsStopping(c) => /\ c.phase.left \in 0 .. STOP_TIMEOUT
                             /\ c.phase.timed_out \in BOOLEAN
         /\ ~IsStopping(c) => ~c.failure_after_stop
         /\ c.phase.tag = "Backoff" => /\ c.retries # 0 /\ Capturing(c)
                                       /\ c.phase.left \in 0 .. 4
  BY PhaseFields
     DEF Sound, ControllerState, HasAttempt, IsActive, IsStopping, MAX_RETRIES,
         WantedWhenActive, FaultWaitsForStop, NewestInHand, RetryCounted

LEMMA NewIsSound == Sound(NewController)
<1>1. "Closed" \in Intent /\ 0 \in 0 .. MaxId /\ 0 \in 0 .. MAX_RETRIES
  BY ControllerAssumption DEF Intent, MAX_RETRIES
<1>2. Idle \in Phase /\ Idle.tag = "Idle"
  BY DEF Idle, Phase
<1> QED
  BY <1>1, <1>2, ControlledIsSound DEF NewController

LEMMA RequestIsSound ==
  ASSUME NEW c, Sound(c), NEW i \in Intent, NEW restart \in BOOLEAN
  PROVE  Sound(Request(c, i, restart))
<1> DEFINE p == IF RequestStops(c, i, restart)
                THEN Stopping(c.phase.attempt, STOP_TIMEOUT, FALSE)
                ELSE IF HasAttempt(c) THEN c.phase ELSE Idle
<1>1. p \in Phase
  BY SoundFields, ControllerAssumption
     DEF RequestStops, HasAttempt, Stopping, Idle, Phase
<1>2. /\ p.tag = "Active" => i = p.attempt.target
      /\ c.failure_after_stop => p.tag = "Stopping"
      /\ p.tag \in {"Active", "Stopping"} => p.attempt.id = c.next_id
      /\ p.tag # "Backoff"
  BY SoundFields DEF RequestStops, HasAttempt, IsActive, IsStopping, Stopping, Idle
<1>3. 0 \in 0 .. MAX_RETRIES
  BY DEF MAX_RETRIES
<1> HIDE DEF p
<1>4. Sound(Controlled(i, p, c.next_id, 0, c.failure_after_stop))
  BY <1>1, <1>2, <1>3, SoundFields, ControlledIsSound
<1> QED
  BY <1>4 DEF Request, p

LEMMA PollIsSound ==
  ASSUME NEW c, Sound(c), NEW ready \in BOOLEAN
  PROVE  Sound(Poll(c, ready))
<1>1. CASE IsStopping(c) /\ c.phase.left = 0
  <2> DEFINE p == Stopping(c.phase.attempt, 0, TRUE)
  <2>1. p \in Phase /\ p.tag = "Stopping" /\ p.attempt = c.phase.attempt
    BY <1>1, SoundFields, ControllerAssumption DEF HasAttempt, Stopping, Phase
  <2> HIDE DEF p
  <2>2. Sound([c EXCEPT !.phase = p])
    BY <1>1, <2>1, SoundFields, PhaseChangeIsSound DEF HasAttempt
  <2> QED
    BY <1>1, <2>2 DEF Poll, p
<1>2. CASE ~IsStopping(c) /\ PollStarts(c, ready)
  <2> DEFINE n == c.next_id + 1
             p == Active(Fresh(n, c.intent))
  <2>1. n \in Id /\ n \in 0 .. MaxId /\ c.intent \in Target
    BY <1>2, SoundFields, ControllerAssumption DEF PollStarts, PollLaunches, Capturing, Id
  <2>2. /\ p \in Phase /\ p.tag = "Active"
        /\ p.attempt.id = n /\ p.attempt.target = c.intent
    BY <2>1, ControllerAssumption DEF Active, Fresh, Phase, Attempt, NotRunning
  <2> HIDE DEF n, p
  <2>3. Sound(Controlled(c.intent, p, n, c.retries, c.failure_after_stop))
    BY <1>2, <2>1, <2>2, SoundFields, ControlledIsSound
  <2> QED
    BY <1>2, <2>3 DEF Poll, n, p
<1>3. CASE ~IsStopping(c) /\ ~PollStarts(c, ready) /\ PollLaunches(c, ready)
  <2>1. Failed \in Phase /\ Failed.tag = "Failed"
    BY DEF Failed, Phase
  <2>2. Sound([c EXCEPT !.phase = Failed])
    BY <1>3, <2>1, SoundFields, PhaseChangeIsSound
  <2> QED
    BY <1>3, <2>2 DEF Poll
<1> QED
  BY <1>1, <1>2, <1>3 DEF Poll

LEMMA AgedIsSound ==
  ASSUME NEW c, Sound(c), HasAttempt(c), NEW running \in 0 .. STABLE_RUN
  PROVE  Sound(Aged(c, running))
<1> DEFINE a == c.phase.attempt
           b == [id |-> a.id, target |-> a.target, running |-> running]
           p == IF IsActive(c) THEN Active(b)
                ELSE Stopping(b, c.phase.left, c.phase.timed_out)
<1>1. b \in Attempt /\ b.id = a.id /\ b.target = a.target
  BY SoundFields, ControllerAssumption DEF Attempt, NotRunning
<1> HIDE DEF b
<1>2. /\ p \in Phase /\ p.attempt = b
      /\ p.tag = IF IsActive(c) THEN "Active" ELSE "Stopping"
  BY <1>1, SoundFields DEF Active, Stopping, Phase, HasAttempt
<1> HIDE DEF p
<1>3. Sound([c EXCEPT !.phase = p])
  BY <1>1, <1>2, SoundFields, PhaseChangeIsSound DEF HasAttempt, IsActive, IsStopping
<1> QED
  BY <1>3 DEF Aged, p, b

LEMMA StartedIsSound ==
  ASSUME NEW c, Sound(c), NEW id
  PROVE  Sound(Started(c, id))
<1>1. 0 \in 0 .. STABLE_RUN
  BY ControllerAssumption
<1> QED
  BY <1>1, AgedIsSound DEF Started, StartedCounts

LEMMA HaltIsSound ==
  ASSUME NEW c, Sound(c)
  PROVE  Sound(Halt(c))
<1> DEFINE r == Request(c, "Paused", FALSE)
<1>1. Sound(r)
  BY RequestIsSound DEF Intent
<1>2. ~IsActive(r)
  <2>1. IsActive(c) => "Paused" # c.phase.attempt.target
    BY SoundFields, ControllerAssumption DEF HasAttempt, Attempt
  <2> QED
    BY <2>1
       DEF Request, Controlled, RequestStops, Idle, Stopping,
           HasAttempt, IsActive, IsStopping
<1>3. ~IsStopping(r) => ~HasAttempt(r)
  BY <1>2 DEF HasAttempt
<1> HIDE DEF r
<1>4. CASE IsStopping(r)
  <2>1. Sound(Controlled(r.intent, r.phase, r.next_id, r.retries, TRUE))
    BY <1>1, <1>4, SoundFields, ControlledIsSound DEF IsStopping, HasAttempt
  <2> QED
    BY <1>4, <2>1 DEF Halt, r
<1>5. CASE ~IsStopping(r)
  <2>1. Failed \in Phase /\ Failed.tag = "Failed"
    BY DEF Failed, Phase
  <2>2. Sound([r EXCEPT !.phase = Failed])
    BY <1>1, <1>5, <2>1, SoundFields, PhaseChangeIsSound
  <2> QED
    BY <1>5, <2>2 DEF Halt, r
<1> QED
  BY <1>4, <1>5

LEMMA StoppedExitIsSound ==
  ASSUME NEW c, Sound(c)
  PROVE  Sound(StoppedExit(c))
<1> DEFINE p == IF c.failure_after_stop \/ c.phase.timed_out \/ c.phase.left = 0
                THEN Failed ELSE Idle
<1>1. p \in Phase /\ p.tag \in {"Failed", "Idle"}
  BY DEF Failed, Idle, Phase
<1> HIDE DEF p
<1>2. Sound(Controlled(c.intent, p, c.next_id, c.retries, FALSE))
  BY <1>1, SoundFields, ControlledIsSound
<1> QED
  BY <1>2 DEF StoppedExit, p

LEMMA UnexpectedExitIsSound ==
  ASSUME NEW c, Sound(c), ~IsStopping(c)
  PROVE  Sound(UnexpectedExit(c))
<1> DEFINE used == IF c.phase.attempt.running = STABLE_RUN THEN 0 ELSE c.retries
           after(p, r) == Controlled(c.intent, p, c.next_id, r, c.failure_after_stop)
<1>1. used \in 0 .. MAX_RETRIES /\ ~c.failure_after_stop
  BY SoundFields DEF MAX_RETRIES
<1> HIDE DEF used
<1>2. Sound(after(Idle, used)) /\ Sound(after(Failed, used))
  <2>1. Idle \in Phase /\ Idle.tag = "Idle" /\ Failed \in Phase /\ Failed.tag = "Failed"
    BY DEF Idle, Failed, Phase
  <2> QED
    BY <1>1, <2>1, SoundFields, ControlledIsSound
<1>3. ASSUME used < MAX_RETRIES, Capturing(c)
      PROVE  Sound(after(Backoff(RetryDelay(used)), used + 1))
  <2>1. used + 1 \in 0 .. MAX_RETRIES /\ used + 1 # 0 /\ used \in 0 .. 2
    BY <1>1, <1>3 DEF MAX_RETRIES
  <2>2. RetryDelay(used) \in 0 .. 4
    BY <2>1 DEF RetryDelay
  <2>3. /\ Backoff(RetryDelay(used)) \in Phase
        /\ Backoff(RetryDelay(used)).tag = "Backoff"
    BY <2>2 DEF Backoff, Phase
  <2> QED
    BY <1>1, <1>3, <2>1, <2>3, SoundFields, ControlledIsSound DEF Capturing
<1> QED
  BY <1>2, <1>3 DEF UnexpectedExit, used

LEMMA ExitedIsSound ==
  ASSUME NEW c, Sound(c), NEW id
  PROVE  Sound(Exited(c, id))
  BY StoppedExitIsSound, UnexpectedExitIsSound DEF Exited

\* completed drops the request just before the exit: the exit of a controller
\* whose intent was changed to Paused while Active ends Idle.
LEMMA CompletedIsSound ==
  ASSUME NEW c, Sound(c), NEW id
  PROVE  Sound(Completed(c, id))
<1>1. CASE IsActive(c) /\ ActiveId(c) = id
  <2> DEFINE d == Controlled("Paused", c.phase, c.next_id, 0, c.failure_after_stop)
             used == IF d.phase.attempt.running = STABLE_RUN THEN 0 ELSE d.retries
  <2>1. /\ d.intent = "Paused" /\ d.phase = c.phase /\ d.next_id = c.next_id
        /\ d.retries = 0 /\ d.failure_after_stop = c.failure_after_stop
    BY DEF Controlled
  <2>2. /\ HasAttempt(d) /\ ~IsStopping(d) /\ ActiveId(d) = id /\ ~Capturing(d)
    BY <1>1, <2>1, ControllerAssumption
       DEF HasAttempt, IsActive, IsStopping, ActiveId, Capturing
  <2> HIDE DEF d
  <2>3. Exited(d, id) = Controlled("Paused", Idle, c.next_id, used, c.failure_after_stop)
    BY <2>1, <2>2 DEF Exited, UnexpectedExit
  <2>4. used = 0 /\ "Paused" \in Intent /\ 0 \in 0 .. MAX_RETRIES /\ ~c.failure_after_stop
    BY <1>1, <2>1, SoundFields DEF Intent, MAX_RETRIES, IsActive, IsStopping
  <2>5. Idle \in Phase /\ Idle.tag = "Idle"
    BY DEF Idle, Phase
  <2>6. Sound(Controlled("Paused", Idle, c.next_id, 0, c.failure_after_stop))
    BY <2>4, <2>5, SoundFields, ControlledIsSound
  <2> QED
    BY <1>1, <2>3, <2>4, <2>6 DEF Completed, d
<1>2. CASE ~(IsActive(c) /\ ActiveId(c) = id)
  BY <1>2, ExitedIsSound DEF Completed
<1> QED
  BY <1>1, <1>2

LEMMA ElapseIsSound ==
  ASSUME NEW c, Sound(c)
  PROVE  Sound(Elapse(c))
<1>1. CASE IsActive(c) /\ c.phase.attempt.running \in 0 .. (STABLE_RUN - 1)
  <2>1. c.phase.attempt.running + 1 \in 0 .. STABLE_RUN /\ HasAttempt(c)
    BY <1>1, ControllerAssumption DEF HasAttempt
  <2> QED
    BY <1>1, <2>1, AgedIsSound DEF Elapse
<1>2. CASE IsStopping(c) /\ c.phase.left > 0
  <2> DEFINE p == Stopping(c.phase.attempt, c.phase.left - 1, c.phase.timed_out)
  <2>1. ~IsActive(c) /\ HasAttempt(c)
    BY <1>2 DEF IsStopping, IsActive, HasAttempt
  <2>2. p \in Phase /\ p.tag = "Stopping" /\ p.attempt = c.phase.attempt
    BY <1>2, <2>1, SoundFields, ControllerAssumption DEF Stopping, Phase
  <2> HIDE DEF p
  <2>3. Sound([c EXCEPT !.phase = p])
    BY <2>1, <2>2, SoundFields, PhaseChangeIsSound
  <2> QED
    BY <1>2, <2>1, <2>3 DEF Elapse, p
<1>3. CASE c.phase.tag = "Backoff" /\ c.phase.left > 0
  <2> DEFINE p == Backoff(c.phase.left - 1)
  <2>1. ~IsActive(c) /\ ~IsStopping(c)
    BY <1>3 DEF IsStopping, IsActive
  <2>2. p \in Phase /\ p.tag = "Backoff"
    BY <1>3, SoundFields DEF Backoff, Phase
  <2> HIDE DEF p
  <2>3. Sound([c EXCEPT !.phase = p])
    BY <1>3, <2>1, <2>2, SoundFields, PhaseChangeIsSound
  <2> QED
    BY <1>3, <2>1, <2>3 DEF Elapse, p
<1> QED
  BY <1>1, <1>2, <1>3 DEF Elapse

-------------------------------------------------------------------------------
(* What a caller sees of each method *)

HeldFor(c) == IF HasAttempt(c) THEN c.phase.attempt.target ELSE "none"

\* d looks to the caller as c does.
SameView(c, d) ==
  /\ d.intent = c.intent
  /\ ActiveId(d) = ActiveId(c)
  /\ HeldFor(d) = HeldFor(c)
  /\ IsStopping(d) = IsStopping(c)
  /\ d.next_id = c.next_id

\* d is c after its attempt was released.
Released(c, d) ==
  /\ HasAttempt(c)
  /\ ~HasAttempt(d)
  /\ d.next_id = c.next_id
  /\ d.intent = c.intent \/ (~IsStopping(c) /\ d.intent = "Paused")

\* d is c after the caller asked for i.
Asked(c, d, i) ==
  /\ d.intent = i
  /\ ActiveId(d) = ActiveId(c)
  /\ HeldFor(d) = HeldFor(c)
  /\ d.next_id = c.next_id
  /\ IsStopping(c) => IsStopping(d)
  /\ HasAttempt(c) /\ i # HeldFor(c) => IsStopping(d)
  /\ ~HasAttempt(c) => ~HasAttempt(d)

USE DEF HeldFor, SameView, Released, Asked

LEMMA PhaseChange ==
  ASSUME NEW c, Sound(c), NEW p
  PROVE  /\ [c EXCEPT !.phase = p].phase = p
         /\ [c EXCEPT !.phase = p].intent = c.intent
         /\ [c EXCEPT !.phase = p].next_id = c.next_id
         /\ [c EXCEPT !.phase = p].failure_after_stop = c.failure_after_stop
  BY DEF Sound, ControllerState

LEMMA AgedView ==
  ASSUME NEW c, Sound(c), HasAttempt(c), NEW running
  PROVE  SameView(c, Aged(c, running))
<1> DEFINE b == [id |-> c.phase.attempt.id, target |-> c.phase.attempt.target,
                 running |-> running]
           p == IF IsActive(c) THEN Active(b)
                ELSE Stopping(b, c.phase.left, c.phase.timed_out)
           d == [c EXCEPT !.phase = p]
<1>1. /\ p.attempt.id = c.phase.attempt.id /\ p.attempt.target = c.phase.attempt.target
      /\ p.tag = c.phase.tag
  BY DEF Active, Stopping, HasAttempt, IsActive, IsStopping
<1> HIDE DEF p
<1>2. d.phase = p /\ d.intent = c.intent /\ d.next_id = c.next_id
  BY PhaseChange
<1>3. Aged(c, running) = d
  BY DEF Aged, p
<1> HIDE DEF d
<1> QED
  BY <1>1, <1>2, <1>3 DEF HasAttempt, IsActive, IsStopping, ActiveId

LEMMA ElapseView ==
  ASSUME NEW c, Sound(c)
  PROVE  SameView(c, Elapse(c))
<1>1. CASE IsActive(c) /\ c.phase.attempt.running \in 0 .. (STABLE_RUN - 1)
  <2>1. HasAttempt(c)
    BY <1>1 DEF HasAttempt
  <2> QED
    BY <1>1, <2>1, AgedView DEF Elapse
<1>2. CASE IsStopping(c) /\ c.phase.left > 0
  <2> DEFINE p == Stopping(c.phase.attempt, c.phase.left - 1, c.phase.timed_out)
             d == [c EXCEPT !.phase = p]
  <2>1. ~IsActive(c) /\ p.tag = "Stopping" /\ p.attempt = c.phase.attempt
    BY <1>2 DEF IsStopping, IsActive, Stopping
  <2>2. Elapse(c) = d
    BY <1>2, <2>1 DEF Elapse
  <2> HIDE DEF p
  <2>3. d.phase = p /\ d.intent = c.intent /\ d.next_id = c.next_id
    BY PhaseChange
  <2> HIDE DEF d
  <2> QED
    BY <1>2, <2>1, <2>2, <2>3 DEF HasAttempt, IsActive, IsStopping, ActiveId
<1>3. CASE c.phase.tag = "Backoff" /\ c.phase.left > 0
  <2> DEFINE p == Backoff(c.phase.left - 1)
             d == [c EXCEPT !.phase = p]
  <2>1. ~IsActive(c) /\ ~IsStopping(c) /\ p.tag = "Backoff"
    BY <1>3 DEF IsStopping, IsActive, Backoff
  <2>2. Elapse(c) = d
    BY <1>3, <2>1 DEF Elapse
  <2> HIDE DEF p
  <2>3. d.phase = p /\ d.intent = c.intent /\ d.next_id = c.next_id
    BY PhaseChange
  <2> HIDE DEF d
  <2> QED
    BY <2>1, <2>2, <2>3 DEF HasAttempt, IsActive, IsStopping, ActiveId
<1> QED
  BY <1>1, <1>2, <1>3 DEF Elapse

LEMMA ExitedView ==
  ASSUME NEW c, Sound(c), NEW id
  PROVE  Exited(c, id) = c \/ Released(c, Exited(c, id))
<1>1. CASE IsStopping(c) /\ ActiveId(c) = id
  <2> DEFINE p == IF c.failure_after_stop \/ c.phase.timed_out \/ c.phase.left = 0
                  THEN Failed ELSE Idle
  <2>1. p.tag \in {"Failed", "Idle"}
    BY DEF Failed, Idle
  <2>2. HasAttempt(c) => Exited(c, id)
                          = Controlled(c.intent, p, c.next_id, c.retries, FALSE)
    BY <1>1 DEF Exited, StoppedExit
  <2> HIDE DEF p
  <2> QED
    BY <1>1, <2>1, <2>2 DEF Controlled, HasAttempt, IsActive, IsStopping
<1>2. CASE IsActive(c) /\ ActiveId(c) = id
  <2> DEFINE d == Exited(c, id)
  <2>1. HasAttempt(c) /\ ~IsStopping(c)
    BY <1>2 DEF HasAttempt, IsActive, IsStopping
  <2>2. d = UnexpectedExit(c)
    BY <1>2, <2>1 DEF Exited
  <2>3. d.intent = c.intent /\ d.next_id = c.next_id
    BY <2>2 DEF UnexpectedExit, Controlled
  <2>4. d.phase.tag \in {"Idle", "Backoff", "Failed"}
    BY <2>2 DEF UnexpectedExit, Controlled, Idle, Backoff, Failed
  <2> HIDE DEF d
  <2> QED
    BY <2>1, <2>3, <2>4 DEF d, HasAttempt, IsActive, IsStopping
<1> QED
  BY <1>1, <1>2 DEF Exited, HasAttempt

LEMMA CompletedView ==
  ASSUME NEW c, Sound(c), NEW id
  PROVE  Completed(c, id) = c \/ Released(c, Completed(c, id))
<1>1. CASE IsActive(c) /\ ActiveId(c) = id
  <2> DEFINE d == Controlled("Paused", c.phase, c.next_id, 0, c.failure_after_stop)
             e == Exited(d, id)
  <2>1. d.intent = "Paused" /\ d.phase = c.phase /\ d.next_id = c.next_id
    BY DEF Controlled
  <2> HIDE DEF d
  <2>2. HasAttempt(d) /\ ~IsStopping(d) /\ ActiveId(d) = id /\ ~Capturing(d)
        /\ HasAttempt(c) /\ ~IsStopping(c)
    BY <1>1, <2>1, ControllerAssumption
       DEF HasAttempt, IsActive, IsStopping, ActiveId, Capturing
  <2>3. e.intent = "Paused" /\ e.next_id = c.next_id /\ e.phase.tag = "Idle"
    BY <2>1, <2>2 DEF Exited, UnexpectedExit, Controlled, Idle
  <2>4. Completed(c, id) = e
    BY <1>1 DEF Completed, d
  <2> HIDE DEF e
  <2> QED
    BY <2>2, <2>3, <2>4 DEF HasAttempt, IsActive, IsStopping
<1>2. CASE ~(IsActive(c) /\ ActiveId(c) = id)
  BY <1>2, ExitedView DEF Completed
<1> QED
  BY <1>1, <1>2

LEMMA RequestView ==
  ASSUME NEW c, Sound(c), NEW i \in Intent, NEW restart \in BOOLEAN
  PROVE  Asked(c, Request(c, i, restart), i)
<1> DEFINE p == IF RequestStops(c, i, restart)
                THEN Stopping(c.phase.attempt, STOP_TIMEOUT, FALSE)
                ELSE IF HasAttempt(c) THEN c.phase ELSE Idle
           d == Request(c, i, restart)
<1>1. d.intent = i /\ d.phase = p /\ d.next_id = c.next_id
  BY DEF Request, Controlled
<1>2. /\ HasAttempt(c) => /\ p.tag \in {"Active", "Stopping"}
                          /\ p.attempt = c.phase.attempt
      /\ ~HasAttempt(c) => p.tag = "Idle"
      /\ IsStopping(c) => p.tag = "Stopping"
      /\ HasAttempt(c) /\ i # c.phase.attempt.target => p.tag = "Stopping"
  BY DEF RequestStops, HasAttempt, IsActive, IsStopping, Stopping, Idle
<1> HIDE DEF p, d
<1>3. HasAttempt(d) <=> HasAttempt(c)
  BY <1>1, <1>2 DEF HasAttempt, IsActive, IsStopping
<1> QED
  BY <1>1, <1>2, <1>3 DEF d, HasAttempt, IsActive, IsStopping, ActiveId

LEMMA HaltView ==
  ASSUME NEW c, Sound(c)
  PROVE  Asked(c, Halt(c), "Paused")
<1> DEFINE r == Request(c, "Paused", FALSE)
           d == Halt(c)
<1>1. Asked(c, r, "Paused")
  BY RequestView DEF Intent
<1>2. IsActive(c) => "Paused" # c.phase.attempt.target
  BY SoundFields, ControllerAssumption DEF HasAttempt, Attempt
<1>3. Sound(r)
  BY RequestIsSound DEF Intent
<1> HIDE DEF r
<1>4. CASE IsStopping(r)
  <2>1. d.intent = r.intent /\ d.phase = r.phase /\ d.next_id = r.next_id
    BY <1>4 DEF Halt, r, Controlled
  <2> HIDE DEF d
  <2> QED
    BY <1>1, <2>1 DEF d, HasAttempt, IsActive, IsStopping, ActiveId
<1>5. CASE ~IsStopping(r)
  <2>1. d.intent = r.intent /\ d.phase.tag = "Failed" /\ d.next_id = r.next_id
    <3>1. d = [r EXCEPT !.phase = Failed]
      BY <1>5 DEF Halt, r
    <3> QED
      BY <1>3, <3>1, PhaseChange DEF Failed
  <2>2. ~HasAttempt(c)
    BY <1>1, <1>2, <1>5 DEF HasAttempt
  <2> HIDE DEF d
  <2> QED
    BY <1>1, <2>1, <2>2 DEF d, HasAttempt, IsActive, IsStopping, ActiveId
<1> QED
  BY <1>4, <1>5

\* d is c after a new attempt was handed out.
Granted(c, d) ==
  /\ ~HasAttempt(c)
  /\ c.intent \in Target
  /\ c.next_id < MaxId
  /\ d.intent = c.intent
  /\ d.next_id = c.next_id + 1
  /\ ActiveId(d) = c.next_id + 1
  /\ HeldFor(d) = c.intent
  /\ ~IsStopping(d)

USE DEF Granted

LEMMA PollView ==
  ASSUME NEW c, Sound(c), NEW ready \in BOOLEAN
  PROVE  SameView(c, Poll(c, ready)) \/ Granted(c, Poll(c, ready))
<1> DEFINE d == Poll(c, ready)
<1>1. CASE IsStopping(c) /\ c.phase.left = 0
  <2> DEFINE p == Stopping(c.phase.attempt, 0, TRUE)
  <2>1. p.tag = "Stopping" /\ p.attempt = c.phase.attempt
    BY DEF Stopping
  <2>2. d = [c EXCEPT !.phase = p]
    BY <1>1 DEF Poll
  <2> HIDE DEF p, d
  <2>3. d.phase = p /\ d.intent = c.intent /\ d.next_id = c.next_id
    BY <2>2, PhaseChange
  <2> QED
    BY <1>1, <2>1, <2>3 DEF d, HasAttempt, IsActive, IsStopping, ActiveId
<1>2. CASE ~IsStopping(c) /\ PollStarts(c, ready)
  <2> DEFINE p == Active(Fresh(c.next_id + 1, c.intent))
  <2>1. /\ p.tag = "Active" /\ p.attempt.id = c.next_id + 1
        /\ p.attempt.target = c.intent
    BY DEF Active, Fresh
  <2> HIDE DEF p
  <2>2. d.phase = p /\ d.intent = c.intent /\ d.next_id = c.next_id + 1
    BY <1>2 DEF Poll, p, Controlled
  <2>3. ~HasAttempt(c) /\ c.intent \in Target /\ c.next_id < MaxId
    BY <1>2
       DEF PollStarts, PollLaunches, Due, Capturing, HasAttempt, IsActive, IsStopping
  <2> HIDE DEF d
  <2> QED
    BY <2>1, <2>2, <2>3 DEF d, HasAttempt, IsActive, IsStopping, ActiveId
<1>3. CASE ~IsStopping(c) /\ ~PollStarts(c, ready) /\ PollLaunches(c, ready)
  <2>1. d = [c EXCEPT !.phase = Failed]
    BY <1>3 DEF Poll
  <2> HIDE DEF d
  <2>2. d.phase.tag = "Failed" /\ d.intent = c.intent /\ d.next_id = c.next_id
    BY <2>1, PhaseChange DEF Failed
  <2>3. ~HasAttempt(c)
    BY <1>3 DEF PollLaunches, Due, HasAttempt, IsActive, IsStopping
  <2> QED
    BY <2>2, <2>3 DEF d, HasAttempt, IsActive, IsStopping, ActiveId
<1> QED
  BY <1>1, <1>2, <1>3 DEF Poll

\* 0 stands for no attempt, and for nothing else.
LEMMA HolderIsId ==
  ASSUME NEW c, Sound(c)
  PROVE  ActiveId(c) # 0 <=> HasAttempt(c)
<1>1. HasAttempt(c) => c.phase.attempt.id \in 1 .. MaxId
  BY SoundFields DEF Attempt, Id
<1> QED
  BY <1>1, ControllerAssumption DEF ActiveId, NoId

\* The exit of the attempt in hand releases it.
LEMMA ExitedReleases ==
  ASSUME NEW c, Sound(c), HasAttempt(c), NEW id, id = ActiveId(c)
  PROVE  Released(c, Exited(c, id)) /\ Released(c, Completed(c, id))
<1>1. \A i, p, n, r, f : Controlled(i, p, n, r, f).phase = p
  BY DEF Controlled
<1>2. \A d : IsStopping(d) => ~HasAttempt(StoppedExit(d))
  <2> SUFFICES ASSUME NEW d
               PROVE  ~HasAttempt(StoppedExit(d))
    OBVIOUS
  <2> DEFINE p == IF d.failure_after_stop \/ d.phase.timed_out \/ d.phase.left = 0
                  THEN Failed ELSE Idle
  <2>1. p \in {Failed, Idle} /\ StoppedExit(d) = Controlled(d.intent, p, d.next_id, d.retries, FALSE)
    BY DEF StoppedExit
  <2> HIDE DEF p
  <2>2. StoppedExit(d).phase \in {Failed, Idle}
    BY <2>1 DEF Controlled
  <2> QED
    BY <2>2 DEF HasAttempt, IsActive, IsStopping, Failed, Idle
<1>3. \A d : ~HasAttempt(UnexpectedExit(d))
  BY <1>1 DEF UnexpectedExit, HasAttempt, IsActive, IsStopping, Failed, Idle, Backoff
<1>4. ~HasAttempt(Exited(c, id))
  BY <1>2, <1>3 DEF Exited
<1>5. ~HasAttempt(Completed(c, id))
  <2> DEFINE d == Controlled("Paused", c.phase, c.next_id, 0, c.failure_after_stop)
  <2>1. HasAttempt(d) /\ ActiveId(d) = id
    BY <1>1 DEF HasAttempt, IsActive, IsStopping, ActiveId
  <2> HIDE DEF d
  <2>2. ~HasAttempt(Exited(d, id))
    BY <1>2, <1>3, <2>1 DEF Exited
  <2> QED
    BY <1>4, <2>2 DEF Completed, d
<1> QED
  BY <1>4, <1>5, ExitedView, CompletedView

-------------------------------------------------------------------------------
(* The channel *)

\* Attempts up to n were launched.  The entries of a child are in the queue in
\* order and none is after its Exited, which says that nobody writes any more.
ChannelInv(ch, q, n) ==
  /\ ch \in [Id -> Child]
  /\ q \in Seq(Event(Id))
  /\ \A i \in Id : i > n => ch[i] = NoChild
  /\ \A p \in DOMAIN q :
       /\ q[p].id <= n
       /\ q[p].kind = "Entry" => q[p].line <= ch[q[p].id].lines
       /\ q[p].kind = "Exited" =>
            /\ ch[q[p].id].proc = "dead" /\ ch[q[p].id].reader = "done"
            /\ ch[q[p].id].drain = "done"
            /\ \A later \in DOMAIN q : later > p => q[later].id # q[p].id
       /\ q[p].kind = "Entry" =>
            \A later \in DOMAIN q :
              later > p /\ q[later].id = q[p].id /\ q[later].kind = "Entry" =>
                q[p].line < q[later].line
       /\ ch[q[p].id].reader # "new"

\* Of the lines of child i, the ones after the first taken ones are still to come.
OnItsWay(i, taken, ch, q) ==
  /\ taken <= ch[i].lines
  /\ \A p \in DOMAIN q : q[p].id = i /\ q[p].kind = "Entry" => q[p].line > taken
  /\ \A line \in taken + 1 .. ch[i].lines :
       \E p \in DOMAIN q : q[p].id = i /\ q[p].kind = "Entry" /\ q[p].line = line

\* Of every child there is a first line that was not received, and the others follow it.
Flowing(ch, q) == \A i \in Id : \E taken \in 0 .. Lines : OnItsWay(i, taken, ch, q)

\* Child i is done with its stream and last is its last line.
Exhausted(i, last, ch) == ch[i].reader = "done" /\ last = ch[i].lines

-------------------------------------------------------------------------------
(* What happens on the channel *)

\* Streams of former attempts that are done keep their lines.
Frozen(ch, new, n) ==
  \A i \in Id : i <= n /\ ch[i].reader = "done" =>
    new[i].reader = "done" /\ new[i].lines = ch[i].lines

LEMMA ChildFields ==
  ASSUME NEW ch \in [Id -> Child], NEW i \in Id
  PROVE  /\ ch[i] \in Child /\ ch[i].lines \in 0 .. Lines /\ ch[i].lines \in Nat
         /\ ch[i].proc \in {"none", "alive", "dead"}
         /\ ch[i].reader \in {"new", "open", "done"}
         /\ ch[i].drain \in {"none", "works", "done"}
  BY LogcatChildAssumption DEF Child

LEMMA EventFields ==
  ASSUME NEW e \in Event(Id)
  PROVE  /\ e.id \in Id /\ e.kind \in {"Started", "Entry", "Exited"}
         /\ e.kind = "Entry" => e.line \in 1 .. Lines /\ e.line \in Nat
  BY LogcatChildAssumption DEF Event

\* A child that goes on without a word keeps what the channel holds.
LEMMA QuietStep ==
  ASSUME NEW ch, NEW q, NEW n \in Nat, ChannelInv(ch, q, n), NEW i \in Id, NEW c \in Child,
         ch[i] # NoChild, c.lines = ch[i].lines,
         c.reader = "new" => ch[i].reader = "new",
         ch[i].reader = "done" => c.reader = "done",
         ch[i].proc = "dead" => c.proc = "dead",
         c.drain = ch[i].drain
  PROVE  LET new == [ch EXCEPT ![i] = c] IN
         /\ ChannelInv(new, q, n)
         /\ Frozen(ch, new, n)
         /\ \A j \in Id, taken \in Nat : OnItsWay(j, taken, ch, q) => OnItsWay(j, taken, new, q)
<1> DEFINE new == [ch EXCEPT ![i] = c]
<1>1. /\ new \in [Id -> Child] /\ new[i] = c
      /\ \A j \in Id : j # i => new[j] = ch[j]
      /\ \A j \in Id : new[j].lines = ch[j].lines
  BY DEF ChannelInv
<1>2. \A p \in DOMAIN q : q[p] \in Event(Id) /\ q[p].id \in Id
  BY EventFields, LenProperties, ElementOfSeq DEF ChannelInv
<1> HIDE DEF new
<1>3. Frozen(ch, new, n)
  BY <1>1 DEF Frozen
<1>4. \A j \in Id : /\ new[j].reader = "new" => ch[j].reader = "new"
                    /\ ch[j].reader = "done" => new[j].reader = "done"
                    /\ ch[j].proc = "dead" => new[j].proc = "dead"
                    /\ new[j].drain = ch[j].drain
                    /\ j > n => new[j] = NoChild
  BY <1>1 DEF ChannelInv
<1>5. ChannelInv(new, q, n)
  BY <1>1, <1>2, <1>4 DEF ChannelInv
<1>6. \A j \in Id, taken \in Nat : OnItsWay(j, taken, ch, q) => OnItsWay(j, taken, new, q)
  BY <1>1 DEF OnItsWay
<1> QED
  BY <1>3, <1>5, <1>6 DEF new

\* A child that says something puts it behind everything else.
LEMMA SaidStep ==
  ASSUME NEW ch, NEW q, NEW n \in Nat, ChannelInv(ch, q, n), NEW i \in Id, NEW c \in Child,
         NEW e \in Event(Id), e.id = i, i <= n, c.reader # "new",
         ch[i].reader = "done" => c.reader = "done" /\ c.lines = ch[i].lines,
         ch[i].reader # "done" \/ ch[i].drain = "works",
         c.proc = ch[i].proc,
         IF e.kind = "Entry" THEN e.line = ch[i].lines + 1 /\ c.lines = e.line
         ELSE c.lines = ch[i].lines,
         e.kind = "Exited" => c.proc = "dead" /\ c.reader = "done" /\ c.drain = "done"
  PROVE  LET new == [ch EXCEPT ![i] = c] IN
         /\ ChannelInv(new, Append(q, e), n)
         /\ Frozen(ch, new, n)
         /\ \A j \in Id, taken \in Nat :
              OnItsWay(j, taken, ch, q) => OnItsWay(j, taken, new, Append(q, e))
<1> DEFINE new == [ch EXCEPT ![i] = c]
           longer == Append(q, e)
<1>1. new \in [Id -> Child] /\ new[i] = c /\ \A j \in Id : j # i => new[j] = ch[j]
  BY DEF ChannelInv
<1>2. /\ q \in Seq(Event(Id)) /\ Len(q) \in Nat /\ DOMAIN q = 1 .. Len(q)
      /\ \A p \in DOMAIN q : q[p] \in Event(Id) /\ q[p].id \in Id
  BY EventFields, LenProperties, ElementOfSeq DEF ChannelInv
<1>3. /\ longer \in Seq(Event(Id)) /\ Len(longer) = Len(q) + 1
      /\ DOMAIN longer = 1 .. Len(q) + 1
      /\ \A p \in DOMAIN q : longer[p] = q[p]
      /\ longer[Len(q) + 1] = e
  BY <1>2, AppendProperties, LenProperties
<1> HIDE DEF new, longer
<1>4. Frozen(ch, new, n)
  BY <1>1 DEF Frozen
<1>5. \A p \in DOMAIN q : q[p].kind = "Exited" => q[p].id # i
  BY <1>2 DEF ChannelInv
<1>6. \A j \in Id : ch[j].lines \in Nat /\ new[j].lines \in Nat /\ ch[j].lines <= new[j].lines
  BY <1>1, ChildFields DEF ChannelInv
<1>7. ChannelInv(new, longer, n)
  <2>1. \A j \in Id : j > n => new[j] = NoChild
    <3>1. \A j \in Id : j > n => j # i
      BY DEF Id
    <3>2. \A j \in Id : j > n => ch[j] = NoChild
      BY DEF ChannelInv
    <3> QED
      BY <1>1, <3>1, <3>2
  <2> DEFINE Fine(p) ==
        /\ longer[p].id <= n
        /\ longer[p].kind = "Entry" => longer[p].line <= new[longer[p].id].lines
        /\ longer[p].kind = "Exited" =>
             /\ new[longer[p].id].proc = "dead" /\ new[longer[p].id].reader = "done"
             /\ new[longer[p].id].drain = "done"
             /\ \A later \in DOMAIN longer : later > p => longer[later].id # longer[p].id
        /\ longer[p].kind = "Entry" =>
             \A later \in DOMAIN longer :
               later > p /\ longer[later].id = longer[p].id /\ longer[later].kind = "Entry" =>
                 longer[p].line < longer[later].line
        /\ new[longer[p].id].reader # "new"
  <2>2. Fine(Len(q) + 1)
    BY <1>1, <1>2, <1>3, <1>6, EventFields
  <2>3. ASSUME NEW p \in DOMAIN q
        PROVE  Fine(p)
    <3>1. longer[p] = q[p] /\ q[p].id \in Id /\ p < Len(q) + 1
      BY <1>2, <1>3
    <3>2. /\ q[p].id <= n
          /\ q[p].kind = "Entry" => q[p].line <= new[q[p].id].lines
          /\ new[q[p].id].reader # "new"
      <4>1. /\ q[p].id <= n /\ ch[q[p].id].reader # "new"
            /\ q[p].kind = "Entry" => q[p].line <= ch[q[p].id].lines
        BY DEF ChannelInv
      <4>2. new[q[p].id].reader # "new"
        BY <1>1, <3>1, <4>1
      <4>3. q[p] \in Event(Id)
        BY <1>2
      <4>4. q[p].kind = "Entry" => q[p].line \in Nat
        BY <4>3, EventFields
      <4>5. /\ ch[q[p].id].lines \in Nat /\ new[q[p].id].lines \in Nat
            /\ ch[q[p].id].lines <= new[q[p].id].lines
        BY <1>6, <3>1
      <4> QED
        BY <4>1, <4>2, <4>4, <4>5
    <3>3. q[p].kind = "Exited" =>
            /\ new[q[p].id].proc = "dead" /\ new[q[p].id].reader = "done"
            /\ new[q[p].id].drain = "done"
            /\ \A later \in DOMAIN longer : later > p => longer[later].id # q[p].id
      BY <1>1, <1>2, <1>3, <1>5, <3>1, SMTT(20) DEF ChannelInv
    <3>4. q[p].kind = "Entry" =>
            \A later \in DOMAIN longer :
              later > p /\ longer[later].id = q[p].id /\ longer[later].kind = "Entry" =>
                q[p].line < longer[later].line
      <4> SUFFICES ASSUME q[p].kind = "Entry", NEW later \in DOMAIN longer, later > p,
                          longer[later].id = q[p].id, longer[later].kind = "Entry"
                   PROVE  q[p].line < longer[later].line
        OBVIOUS
      <4>1. CASE later \in DOMAIN q
        BY <1>2, <1>3, <3>1, <4>1 DEF ChannelInv
      <4>2. CASE later = Len(q) + 1
        <5>1. q[p].line <= ch[i].lines /\ q[p].line \in Nat /\ ch[i].lines \in Nat
          BY <1>2, <1>3, <1>6, <3>1, <4>2, EventFields DEF ChannelInv
        <5> QED
          BY <1>3, <4>2, <5>1
      <4> QED
        BY <1>2, <1>3, <4>1, <4>2
    <3> QED
      BY <3>1, <3>2, <3>3, <3>4
  <2> HIDE DEF Fine
  <2>4. \A p \in DOMAIN longer : Fine(p)
    BY <1>2, <1>3, <2>2, <2>3
  <2> QED
    BY <1>1, <1>3, <2>1, <2>4 DEF ChannelInv, Fine
<1>8. ASSUME NEW j \in Id, NEW taken \in Nat, OnItsWay(j, taken, ch, q)
      PROVE  OnItsWay(j, taken, new, longer)
  <2>1. taken <= new[j].lines
    BY <1>6, <1>8 DEF OnItsWay
  <2>2. \A p \in DOMAIN longer :
          longer[p].id = j /\ longer[p].kind = "Entry" => longer[p].line > taken
    BY <1>2, <1>3, <1>6, <1>8 DEF OnItsWay
  <2>3. ASSUME NEW line \in taken + 1 .. new[j].lines
        PROVE  \E p \in DOMAIN longer :
                 longer[p].id = j /\ longer[p].kind = "Entry" /\ longer[p].line = line
    <3>1. CASE line <= ch[j].lines
      <4>1. line \in taken + 1 .. ch[j].lines
        BY <1>6, <3>1
      <4>2. PICK p \in DOMAIN q : q[p].id = j /\ q[p].kind = "Entry" /\ q[p].line = line
        BY <1>8, <4>1 DEF OnItsWay
      <4> QED
        BY <1>2, <1>3, <4>2
    <3>2. CASE ~(line <= ch[j].lines)
      <4>1. j = i /\ e.kind = "Entry" /\ line = e.line
        BY <1>1, <1>6, <3>2
      <4> QED
        BY <1>2, <1>3, <4>1
    <3> QED
      BY <3>1, <3>2
  <2> QED
    BY <2>1, <2>2, <2>3 DEF OnItsWay
<1> QED
  BY <1>4, <1>7, <1>8 DEF new, longer

\* What a step of a child leaves for the recorder.
LEMMA ChildActsKeepChannel ==
  ASSUME NEW n \in Nat, ChannelInv(child, queue, n), NEW i \in Id, ChildStep(i)
  PROVE  /\ ChannelInv(child', queue', n)
         /\ Frozen(child, child', n)
         /\ \A j \in Id, taken \in Nat :
              OnItsWay(j, taken, child, queue) => OnItsWay(j, taken, child', queue')
<1>1. /\ child \in [Id -> Child] /\ child[i] \in Child /\ child[i].lines \in 0 .. Lines
      /\ child[i].drain \in {"none", "works", "done"} /\ child[i].lines \in Nat
  BY ChildFields DEF ChannelInv
<1>2. NoChild.reader = "done" /\ NoChild.drain = "none" /\ NoChild.proc = "none"
  BY DEF NoChild, Spawned
<1>3. child[i] # NoChild
  BY <1>2 DEF ChildStep, SendStarted, SendEntry, EndReader, Die, Reap
<1>4. i <= n
  BY <1>3 DEF ChannelInv, Id
<1>5. CASE SendStarted(i)
  <2> DEFINE c == [child[i] EXCEPT !.reader = "open"]
             e == StartedEvent(i)
  <2>1. /\ c \in Child /\ c.reader = "open" /\ c.lines = child[i].lines
        /\ c.proc = child[i].proc /\ c.drain = child[i].drain
    BY <1>1 DEF Child
  <2>2. e \in Event(Id) /\ e.id = i /\ e.kind = "Started"
    BY DEF StartedEvent, Event
  <2>3. child' = [child EXCEPT ![i] = c] /\ queue' = Append(queue, e)
    BY <1>5 DEF SendStarted, Send
  <2>4. child[i].reader = "new"
    BY <1>5 DEF SendStarted
  <2> HIDE DEF c, e
  <2> QED
    BY <1>4, <2>1, <2>2, <2>3, <2>4, SaidStep
<1>6. CASE SendEntry(i)
  <2> DEFINE c == [child[i] EXCEPT !.lines = child[i].lines + 1]
             e == EntryEvent(i, child[i].lines + 1)
  <2>1. child[i].reader = "open" /\ child[i].lines < Lines
    BY <1>6 DEF SendEntry
  <2>2. /\ c \in Child /\ c.reader = "open" /\ c.lines = child[i].lines + 1
        /\ c.proc = child[i].proc /\ c.drain = child[i].drain
    BY <1>1, <2>1, LogcatChildAssumption DEF Child
  <2>3. e \in Event(Id) /\ e.id = i /\ e.kind = "Entry" /\ e.line = child[i].lines + 1
    BY <1>1, <2>1, LogcatChildAssumption DEF EntryEvent, Event
  <2>4. child' = [child EXCEPT ![i] = c] /\ queue' = Append(queue, e)
    BY <1>6 DEF SendEntry, Send
  <2> HIDE DEF c, e
  <2> QED
    BY <1>4, <2>1, <2>2, <2>3, <2>4, SaidStep
<1>7. CASE EndReader(i)
  <2> DEFINE c == [child[i] EXCEPT !.reader = "done"]
  <2>1. /\ c \in Child /\ c.reader = "done" /\ c.lines = child[i].lines
        /\ c.proc = child[i].proc /\ c.drain = child[i].drain
    BY <1>1 DEF Child
  <2>2. child' = [child EXCEPT ![i] = c] /\ queue' = queue
    BY <1>7 DEF EndReader
  <2> HIDE DEF c
  <2> QED
    BY <1>3, <2>1, <2>2, QuietStep
<1>8. CASE Die(i)
  <2> DEFINE c == [child[i] EXCEPT !.proc = "dead"]
  <2>1. /\ c \in Child /\ c.reader = child[i].reader /\ c.lines = child[i].lines
        /\ c.proc = "dead" /\ c.drain = child[i].drain
    BY <1>1 DEF Child
  <2>2. child' = [child EXCEPT ![i] = c] /\ queue' = queue
    BY <1>8 DEF Die
  <2> HIDE DEF c
  <2> QED
    BY <1>3, <2>1, <2>2, QuietStep
<1>9. CASE Reap(i)
  <2>1. PICK clean \in BOOLEAN : queue' = Append(queue, ExitedEvent(i, clean))
    BY <1>9 DEF Reap, Send
  <2> DEFINE c == [child[i] EXCEPT !.drain = "done"]
             e == ExitedEvent(i, clean)
  <2>2. child[i].proc = "dead" /\ child[i].reader = "done" /\ child[i].drain = "works"
    BY <1>9 DEF Reap
  <2>3. /\ c \in Child /\ c.reader = "done" /\ c.lines = child[i].lines
        /\ c.proc = "dead" /\ c.drain = "done"
    BY <1>1, <2>2 DEF Child
  <2>4. e \in Event(Id) /\ e.id = i /\ e.kind = "Exited"
    BY DEF ExitedEvent, Event
  <2>5. child' = [child EXCEPT ![i] = c] /\ queue' = Append(queue, e)
    BY <1>9, <2>1 DEF Reap
  <2> HIDE DEF c, e
  <2> QED
    BY <1>4, <2>2, <2>3, <2>4, <2>5, SaidStep
<1> QED
  BY <1>5, <1>6, <1>7, <1>8, <1>9 DEF ChildStep

\* rest is q without its first.
Shifted(q, rest) ==
  /\ Head(q) = q[1] /\ 1 \in DOMAIN q
  /\ \A p \in DOMAIN q : p \in Nat /\ p >= 1
  /\ \A p \in DOMAIN rest : p \in Nat /\ p >= 1
  /\ \A p \in DOMAIN q : p # 1 => p - 1 \in DOMAIN rest /\ rest[p - 1] = q[p]
  /\ \A p \in DOMAIN rest : p + 1 \in DOMAIN q /\ rest[p] = q[p + 1]

\* Receiving takes the oldest event and leaves the rest in order.
LEMMA ReceivedKeepsChannel ==
  ASSUME NEW ch, NEW q, NEW n \in Nat, ChannelInv(ch, q, n), q # <<>>
  PROVE  /\ ChannelInv(ch, Tail(q), n)
         /\ Head(q) \in Event(Id) /\ Shifted(q, Tail(q))
<1> DEFINE rest == Tail(q)
<1>1. /\ q \in Seq(Event(Id)) /\ Len(q) \in Nat \ {0} /\ DOMAIN q = 1 .. Len(q)
      /\ \A p \in DOMAIN q : q[p] \in Event(Id)
  BY EmptySeq, LenProperties, ElementOfSeq DEF ChannelInv
<1>2. /\ rest \in Seq(Event(Id)) /\ Len(rest) = Len(q) - 1 /\ DOMAIN rest = 1 .. Len(q) - 1
      /\ \A p \in 1 .. Len(q) - 1 : rest[p] = q[p + 1]
  BY <1>1, HeadTailProperties, LenProperties
<1>3. Head(q) = q[1]
  BY <1>1
<1> HIDE DEF rest
<1>4. \A p \in DOMAIN rest : p \in Nat /\ p + 1 \in DOMAIN q /\ rest[p] = q[p + 1]
  BY <1>1, <1>2
<1>5. ChannelInv(ch, rest, n)
  BY <1>1, <1>2, <1>4, SMTT(20) DEF ChannelInv
<1>6. \A p \in DOMAIN q : p # 1 => p - 1 \in DOMAIN rest /\ rest[p - 1] = q[p]
  BY <1>1, <1>2
<1> QED
  BY <1>1, <1>2, <1>3, <1>4, <1>5, <1>6 DEF rest, Shifted

LEMMA SpawnedFields ==
  ASSUME NEW proc \in {"none", "alive", "dead"}, NEW drain \in {"none", "works", "done"}
  PROVE  /\ Spawned(proc, drain) \in Child /\ Spawned(proc, drain).lines = 0
         /\ Spawned(proc, drain).reader = "new" /\ Spawned(proc, drain).proc = proc
         /\ Spawned(proc, drain).drain = drain
  BY LogcatChildAssumption DEF Spawned, Child

LEMMA NoChildFields ==
  /\ NoChild \in Child /\ NoChild.lines = 0 /\ NoChild.reader = "done" /\ NoChild.proc = "none"
  /\ NoChild.drain = "none"
<1> DEFINE c == Spawned("none", "none")
<1>1. c \in Child /\ c.lines = 0 /\ c.proc = "none" /\ c.drain = "none"
  BY SpawnedFields
<1> HIDE DEF c
<1>2. NoChild = [c EXCEPT !.reader = "done"]
  BY DEF NoChild, c
<1> QED
  BY <1>1, <1>2 DEF Child

\* What the outcomes leave: only a start that succeeded has a drain worker.
LEMMA OutcomeFields ==
  ASSUME NEW outcome \in StartOutcome
  PROVE  LET c == ChildOf(outcome) IN
         /\ c \in Child /\ c.lines = 0
         /\ c.drain = IF outcome = "ok" THEN "works" ELSE "none"
<1> DEFINE unread == [NoChild EXCEPT !.proc = "alive"]
<1>1. unread \in Child /\ unread.lines = 0 /\ unread.drain = "none"
  BY NoChildFields DEF Child
<1>2. Spawned("alive", "works") \in Child /\ Spawned("alive", "works").lines = 0
      /\ Spawned("alive", "works").drain = "works"
  BY SpawnedFields
<1>3. Spawned("dead", "none") \in Child /\ Spawned("dead", "none").lines = 0
      /\ Spawned("dead", "none").drain = "none"
  BY SpawnedFields
<1>4. Spawned("alive", "none") \in Child /\ Spawned("alive", "none").lines = 0
      /\ Spawned("alive", "none").drain = "none"
  BY SpawnedFields
<1> HIDE DEF unread
<1> QED
  BY <1>1, <1>2, <1>3, <1>4, NoChildFields DEF ChildOf, StartOutcome, unread

\* A new attempt has said nothing yet.
LEMMA LaunchKeepsChannel ==
  ASSUME NEW ch, NEW q, NEW n \in Nat, ChannelInv(ch, q, n), n + 1 \in Id,
         NEW outcome \in StartOutcome
  PROVE  LET new == [ch EXCEPT ![n + 1] = ChildOf(outcome)] IN
         /\ ChannelInv(new, q, n + 1)
         /\ Frozen(ch, new, n)
         /\ OnItsWay(n + 1, 0, new, q)
         /\ \A j \in Id, taken \in Nat :
              j # n + 1 /\ OnItsWay(j, taken, ch, q) => OnItsWay(j, taken, new, q)
<1> DEFINE c == ChildOf(outcome)
           new == [ch EXCEPT ![n + 1] = c]
<1>1. c \in Child /\ c.lines = 0
  BY OutcomeFields
<1> HIDE DEF c
<1>2. /\ new \in [Id -> Child] /\ new[n + 1].lines = 0
      /\ \A j \in Id : j # n + 1 => new[j] = ch[j]
  BY <1>1 DEF ChannelInv
<1>3. \A p \in DOMAIN q : q[p].id \in Id /\ q[p].id <= n /\ q[p].id # n + 1
  BY EventFields, LenProperties, ElementOfSeq DEF ChannelInv, Id
<1>4. \A j \in Id : j \in Nat
  BY DEF Id
<1> HIDE DEF new
<1>5. \A j \in Id : j > n + 1 => new[j] = NoChild
  BY <1>2, <1>4 DEF ChannelInv
<1>6. \A p \in DOMAIN q : new[q[p].id] = ch[q[p].id] /\ q[p].id <= n + 1
  BY <1>2, <1>3, <1>4
<1>7. ChannelInv(new, q, n + 1)
  BY <1>2, <1>5, <1>6 DEF ChannelInv
<1>8. Frozen(ch, new, n)
  BY <1>2, <1>4 DEF Frozen
<1>9. OnItsWay(n + 1, 0, new, q)
  BY <1>2, <1>3 DEF OnItsWay
<1>10. \A j \in Id, taken \in Nat :
         j # n + 1 /\ OnItsWay(j, taken, ch, q) => OnItsWay(j, taken, new, q)
  BY <1>2 DEF OnItsWay
<1> QED
  BY <1>7, <1>8, <1>9, <1>10 DEF new, c

\* A number that is used up without a process.
LEMMA SkippedKeepsChannel ==
  ASSUME NEW ch, NEW q, NEW n \in Nat, ChannelInv(ch, q, n)
  PROVE  ChannelInv(ch, q, n + 1)
<1>1. \A p \in DOMAIN q : q[p].id \in Nat
  BY EventFields, LenProperties, ElementOfSeq DEF ChannelInv, Id
<1>2. \A i \in Id : i > n + 1 => i > n
  BY DEF Id
<1> QED
  BY <1>1, <1>2 DEF ChannelInv

-------------------------------------------------------------------------------
(* What a consumer takes from it *)

\* An event that is no line of child i leaves its lines on their way.
LEMMA OthersOnTheirWay ==
  ASSUME NEW ch, NEW q, NEW n \in Nat, ChannelInv(ch, q, n), q # <<>>, NEW i, NEW taken,
         Head(q).id # i \/ Head(q).kind # "Entry", OnItsWay(i, taken, ch, q)
  PROVE  OnItsWay(i, taken, ch, Tail(q))
<1> DEFINE rest == Tail(q)
<1>1. Shifted(q, rest)
  BY ReceivedKeepsChannel
<1> HIDE DEF rest
<1>2. \A p \in DOMAIN q : q[p].id = i /\ q[p].kind = "Entry" => p # 1
  BY <1>1 DEF Shifted
<1>3. OnItsWay(i, taken, ch, rest)
  BY <1>1, <1>2 DEF OnItsWay, Shifted
<1> QED
  BY <1>3 DEF rest

\* The first line of child i in the queue is the next one, and the others are behind it.
LEMMA NextOnItsWay ==
  ASSUME NEW ch, NEW q, NEW n \in Nat, ChannelInv(ch, q, n), q # <<>>, NEW i \in Id,
         NEW taken \in Nat,
         Head(q).id = i, Head(q).kind = "Entry", OnItsWay(i, taken, ch, q)
  PROVE  Head(q).line = taken + 1 /\ OnItsWay(i, taken + 1, ch, Tail(q))
<1> DEFINE rest == Tail(q)
<1>1. Head(q) \in Event(Id) /\ Shifted(q, rest)
  BY ReceivedKeepsChannel
<1> HIDE DEF rest
<1>2. /\ Head(q) = q[1] /\ q[1].line \in Nat /\ q[1].line <= ch[i].lines /\ q[1].line > taken
      /\ ch[i].lines \in Nat
  BY <1>1, EventFields, ChildFields DEF ChannelInv, OnItsWay, Shifted
<1>4. \A p \in DOMAIN q :
        p # 1 /\ q[p].id = i /\ q[p].kind = "Entry" => q[1].line < q[p].line
  <2>1. 1 \in DOMAIN q /\ q[1] = Head(q) /\ \A p \in DOMAIN q : p # 1 => p > 1
    BY <1>1 DEF Shifted
  <2>2. \A later \in DOMAIN q :
          later > 1 /\ q[later].id = q[1].id /\ q[later].kind = "Entry" =>
            q[1].line < q[later].line
    BY <2>1 DEF ChannelInv
  <2> QED
    BY <2>1, <2>2
<1>5. q[1].line = taken + 1
  <2>1. taken + 1 \in taken + 1 .. ch[i].lines
    BY <1>2
  <2>2. PICK p \in DOMAIN q : q[p].id = i /\ q[p].kind = "Entry" /\ q[p].line = taken + 1
    BY <2>1 DEF OnItsWay
  <2> QED
    BY <1>2, <1>4, <2>2
<1>6. OnItsWay(i, taken + 1, ch, rest)
  <2>1. taken + 1 <= ch[i].lines
    BY <1>2, <1>5
  <2>2. \A p \in DOMAIN rest : rest[p].id = i /\ rest[p].kind = "Entry" => rest[p].line > taken + 1
    BY <1>1, <1>4, <1>5 DEF Shifted
  <2>3. ASSUME NEW line \in taken + 1 + 1 .. ch[i].lines
        PROVE  \E p \in DOMAIN rest : rest[p].id = i /\ rest[p].kind = "Entry" /\ rest[p].line = line
    <3>1. line \in taken + 1 .. ch[i].lines /\ line # taken + 1
      BY <1>2
    <3>2. PICK p \in DOMAIN q : q[p].id = i /\ q[p].kind = "Entry" /\ q[p].line = line
      BY <3>1 DEF OnItsWay
    <3> QED
      BY <1>1, <1>5, <3>1, <3>2 DEF Shifted
  <2> QED
    BY <2>1, <2>2, <2>3 DEF OnItsWay
<1> QED
  BY <1>2, <1>5, <1>6 DEF rest

\* The exit of child i is behind all its lines.
LEMMA NothingOnItsWay ==
  ASSUME NEW ch, NEW q, NEW n \in Nat, ChannelInv(ch, q, n), q # <<>>, NEW i \in Id,
         NEW taken \in Nat,
         Head(q).id = i, Head(q).kind = "Exited", OnItsWay(i, taken, ch, q)
  PROVE  Exhausted(i, taken, ch)
<1>1. Shifted(q, Tail(q))
  BY ReceivedKeepsChannel
<1>2. Head(q) = q[1] /\ 1 \in DOMAIN q /\ \A p \in DOMAIN q : p # 1 => p > 1
  BY <1>1 DEF Shifted
<1>3. ch[i].reader = "done" /\ \A p \in DOMAIN q : p # 1 => q[p].id # i
  BY <1>2 DEF ChannelInv
<1>4. ~(\E p \in DOMAIN q : q[p].id = i /\ q[p].kind = "Entry")
  BY <1>2, <1>3
<1>5. taken <= ch[i].lines /\ ch[i].lines \in Nat
  BY ChildFields DEF OnItsWay, ChannelInv
<1>6. taken + 1 \notin taken + 1 .. ch[i].lines
  BY <1>4 DEF OnItsWay
<1>7. taken = ch[i].lines
  BY <1>5, <1>6
<1> QED
  BY <1>3, <1>7 DEF Exhausted

LEMMA NothingFlows ==
  ASSUME NEW ch \in [Id -> Child], \A i \in Id : ch[i] = NoChild
  PROVE  Flowing(ch, <<>>)
<1>1. 0 \in 0 .. Lines /\ DOMAIN <<>> = {}
  BY LogcatChildAssumption
<1>2. \A i \in Id : ch[i].lines = 0
  BY NoChildFields
<1>3. \A i \in Id : OnItsWay(i, 0, ch, <<>>)
  BY <1>1, <1>2 DEF OnItsWay
<1> QED
  BY <1>1, <1>3 DEF Flowing

LEMMA LaunchKeepsFlow ==
  ASSUME NEW ch, NEW q, NEW n \in Nat, ChannelInv(ch, q, n), n + 1 \in Id,
         NEW outcome \in StartOutcome, Flowing(ch, q)
  PROVE  Flowing([ch EXCEPT ![n + 1] = ChildOf(outcome)], q)
<1> DEFINE new == [ch EXCEPT ![n + 1] = ChildOf(outcome)]
<1>1. /\ OnItsWay(n + 1, 0, new, q)
      /\ \A j \in Id, taken \in Nat :
           j # n + 1 /\ OnItsWay(j, taken, ch, q) => OnItsWay(j, taken, new, q)
  BY LaunchKeepsChannel
<1> HIDE DEF new
<1>2. 0 \in 0 .. Lines /\ \A taken \in 0 .. Lines : taken \in Nat
  BY LogcatChildAssumption
<1>3. Flowing(new, q)
  BY <1>1, <1>2 DEF Flowing
<1> QED
  BY <1>3 DEF new

\* Whatever is received, of each child a first line that was not is left.
LEMMA ReceivedKeepsFlow ==
  ASSUME NEW ch, NEW q, NEW n \in Nat, ChannelInv(ch, q, n), q # <<>>, Flowing(ch, q)
  PROVE  Flowing(ch, Tail(q))
<1> SUFFICES ASSUME NEW i \in Id
             PROVE  \E taken \in 0 .. Lines : OnItsWay(i, taken, ch, Tail(q))
  BY DEF Flowing
<1>1. PICK taken \in 0 .. Lines : OnItsWay(i, taken, ch, q)
  BY DEF Flowing
<1>2. taken \in Nat
  BY LogcatChildAssumption
<1>3. CASE Head(q).id = i /\ Head(q).kind = "Entry"
  <2>1. OnItsWay(i, taken + 1, ch, Tail(q))
    BY <1>1, <1>2, <1>3, NextOnItsWay
  <2>2. ch[i].lines \in 0 .. Lines
    BY ChildFields DEF ChannelInv
  <2>3. taken + 1 \in 0 .. Lines
    BY <1>2, <2>1, <2>2, LogcatChildAssumption DEF OnItsWay
  <2> QED
    BY <2>1, <2>3
<1>4. CASE Head(q).id # i \/ Head(q).kind # "Entry"
  BY <1>1, <1>4, OthersOnTheirWay
<1> QED
  BY <1>3, <1>4
===============================================================================
