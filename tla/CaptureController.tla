-------------------------- MODULE CaptureController ---------------------------
(***************************************************************************)
(* The controller under every order of calls a caller can make: requests,  *)
(* polls, start and exit reports of any attempt (late and repeated ones    *)
(* too), faults and the passing of time.                                   *)
(***************************************************************************)
EXTENDS Controller

VARIABLE ctl

ctlVars == <<ctl>>

ControllerInit == ctl = NewController

DoRequest == \E i \in Intent, restart \in BOOLEAN : ctl' = Request(ctl, i, restart)
DoPoll == \E ready \in BOOLEAN : ctl' = Poll(ctl, ready)
DoStarted == \E id \in Id : ctl' = Started(ctl, id)
DoHalt == ctl' = Halt(ctl)
DoExited == \E id \in Id : ctl' = Exited(ctl, id)
DoCompleted == \E id \in Id : ctl' = Completed(ctl, id)
DoElapse == ctl' = Elapse(ctl)

ControllerNext ==
  \/ DoRequest
  \/ DoPoll
  \/ DoStarted
  \/ DoHalt
  \/ DoExited
  \/ DoCompleted
  \/ DoElapse

ControllerSpec == ControllerInit /\ [][ControllerNext]_ctlVars

-------------------------------------------------------------------------------
(* Properties *)

ControllerTypeOK == ctl \in ControllerState

\* An attempt that was not told to stop is for the target last asked for:
\* no order of requests, polls and exits leaves a child of an older request
\* running unrevoked (request, poll, completed).
ActiveIsWanted == WantedWhenActive(ctl)

\* The fault kept for after the stop (halt) is consumed by the exit of the
\* attempt it stopped and can never be charged to a later attempt.
FaultBelongsToStop == FaultWaitsForStop(ctl)

\* Their conjunction with the type invariant is inductive.
Inv == Sound(ctl)

\* "never release an unconfirmed child or extend its stop deadline": while an
\* attempt is stopping it stays that attempt, its deadline never moves away
\* and its timeout is never taken back, whatever the user asks for meanwhile.
StopIsFirm ==
  [][IsStopping(ctl) /\ HasAttempt(ctl')
       => /\ IsStopping(ctl')
          /\ ctl'.phase.attempt.id = ctl.phase.attempt.id
          /\ ctl'.phase.left <= ctl.phase.left
          /\ ctl.phase.timed_out => ctl'.phase.timed_out]_ctlVars

\* A fault is kept for the stop of the attempt it happened in and for no other;
\* a stop that was late or followed a fault ends in Failed, and only a request
\* of the user leaves Failed: nothing restarts on its own after it (exited).
StopsAreJudged ==
  [][/\ FaultBelongsToStop
     /\ IsStopping(ctl) /\ ~HasAttempt(ctl')
        /\ (ctl.failure_after_stop \/ ctl.phase.timed_out \/ ctl.phase.left = 0)
        => IsFailed(ctl')
     /\ IsFailed(ctl) => ctl'.phase \in {ctl.phase, Idle}]_ctlVars

\* The contract of ExclusiveAttempt.
Contract == INSTANCE ExclusiveAttempt WITH
  want <- ctl.intent,
  holder <- ActiveId(ctl),
  held_for <- IF HasAttempt(ctl) THEN ctl.phase.attempt.target ELSE "none",
  revoked <- IsStopping(ctl),
  last <- ctl.next_id

ContractSpec == Contract!Spec
===============================================================================
