----------------------------- MODULE CaptureFacts -----------------------------
(***************************************************************************)
(* What the desktop application remembers of its capture, and writes into  *)
(* every document it saves (src/src/capture_facts.rs): not a log, but why  *)
(* the document may be incomplete.  Each method is an operator.            *)
(*                                                                         *)
(* The counters of gaps - interruptions, start failures, resumed pauses,   *)
(* faults, discarded records - only ever grow and are read by whether they *)
(* are positive: "gap" says that one is.  The last 64 observations are     *)
(* texts for the reader and left out.                                      *)
(***************************************************************************)
EXTENDS Integers

NewFacts ==
  [started |-> FALSE, intentional_stop |-> FALSE, resume_pending |-> FALSE, gap |-> FALSE,
   retention_removed |-> 0, cleared_records |-> 0]

\* begin_attempt_with_scope: it takes resume_pending.
BeginAttempt(facts) ==
  [facts EXCEPT !.started = FALSE, !.intentional_stop = FALSE, !.resume_pending = FALSE,
                !.gap = @ \/ facts.resume_pending]

\* Mutant: a stream that starts after it was told to stop is no pause.
StreamStartedAlways(facts) == [facts EXCEPT !.started = TRUE]

\* stream_started
StreamStarted(facts) ==
  [facts EXCEPT !.started = TRUE, !.resume_pending = @ \/ facts.intentional_stop]

\* stop_requested
StopRequested(facts) ==
  IF facts.intentional_stop THEN facts
  ELSE [facts EXCEPT !.intentional_stop = TRUE, !.resume_pending = facts.started]

\* snapshot_completed
SnapshotCompleted(facts) ==
  [facts EXCEPT !.intentional_stop = TRUE, !.resume_pending = facts.started]

\* exited: start_failed, stream_interrupted or stream_stopped
FactsExited(facts) ==
  [facts EXCEPT !.gap = @ \/ ~facts.started \/ ~facts.intentional_stop]

\* fault, record_discarded
GapNoticed(facts) == [facts EXCEPT !.gap = TRUE]

\* retention_removed
RetentionRemoved(facts, count) == [facts EXCEPT !.retention_removed = @ + count]

\* view_cleared
ViewCleared(facts, count) == [facts EXCEPT !.cleared_records = @ + count]

\* snapshot
Completeness(facts) == IF facts.gap THEN "partial" ELSE "unknown"
===============================================================================
