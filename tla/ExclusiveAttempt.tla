--------------------------- MODULE ExclusiveAttempt ---------------------------
(***************************************************************************)
(* What a capture controller promises to whoever spawns and reaps the adb  *)
(* children (the doc comments of request, exited and completed in          *)
(* src/src/capture_controller.rs): one attempt at a time holds the device, *)
(* a replacement waits until the old attempt is confirmed gone, a revoked  *)
(* attempt is never taken back, an attempt that is not revoked is for what *)
(* was last asked for, and ids are never reused.                           *)
(***************************************************************************)
EXTENDS Naturals

CONSTANTS Target, MaxId

VARIABLES
  want,     \* a target, "Paused" or "Closed": what was asked for last
  holder,   \* id of the attempt that holds the device, 0 for none
  held_for, \* the target of the holder, "none" without a holder
  revoked,  \* the holder was told to stop
  last      \* the last id handed out

vars == <<want, holder, held_for, revoked, last>>

Init ==
  /\ want = "Closed"
  /\ holder = 0
  /\ held_for = "none"
  /\ revoked = FALSE
  /\ last = 0

\* The user asks for something: an attempt for anything else is revoked,
\* and one for the same target may be (a forced restart).
Ask(i) ==
  /\ want' = i
  /\ revoked' \in IF holder = 0 THEN {FALSE}
                  ELSE IF i = held_for THEN {revoked, TRUE} ELSE {TRUE}
  /\ UNCHANGED <<holder, held_for, last>>

Grant ==
  /\ holder = 0
  /\ want \in Target
  /\ last < MaxId
  /\ holder' = last + 1
  /\ last' = last + 1
  /\ held_for' = want
  /\ revoked' = FALSE
  /\ UNCHANGED want

\* The attempt is confirmed gone; a finished one takes its request with it,
\* a revoked one leaves the newer request standing.
Release ==
  /\ holder # 0
  /\ holder' = 0
  /\ held_for' = "none"
  /\ revoked' = FALSE
  /\ want' \in IF revoked THEN {want} ELSE {want, "Paused"}
  /\ UNCHANGED last

Next ==
  \/ \E i \in Target \cup {"Paused", "Closed"} : Ask(i)
  \/ Grant
  \/ Release

Spec == Init /\ [][Next]_vars
===============================================================================
