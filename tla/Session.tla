------------------------------- MODULE Session --------------------------------
(***************************************************************************)
(* The record identities of src/src/session.rs: a session numbers its      *)
(* attempts, the stream segments that really started and the records, all  *)
(* with checked u64 counters that refuse instead of wrapping.              *)
(***************************************************************************)
EXTENDS Naturals

CONSTANTS
  MaxCount,  \* largest attempt and segment number (u64::MAX)
  MaxSeq     \* largest record number (u64::MAX)

ASSUME SessionAssumption == MaxCount \in Nat \ {0} /\ MaxSeq \in Nat \ {0}

SessionState(ids) ==
  [id : ids, seq : 0 .. MaxSeq, segment : 0 .. MaxCount,
   attempt : 0 .. MaxCount, started : BOOLEAN]

SessionOf(id, seq, segment, attempt, started) ==
  [id |-> id, seq |-> seq, segment |-> segment, attempt |-> attempt,
   started |-> started]

NewSession(id) == SessionOf(id, 0, 0, 0, FALSE)

\* begin_attempt: None, with started already cleared, when the counter is used up.
CanBegin(s) == s.attempt < MaxCount
BeginAttempt(s) ==
  SessionOf(s.id, s.seq, s.segment,
            IF CanBegin(s) THEN s.attempt + 1 ELSE s.attempt, FALSE)

\* stream_started: None for an attempt that was never begun or has a segment.
CanStartStream(s) == s.attempt # 0 /\ ~s.started /\ s.segment < MaxCount
StreamStarted(s) ==
  IF CanStartStream(s)
  THEN SessionOf(s.id, s.seq, s.segment + 1, s.attempt, TRUE) ELSE s

\* next_record: None before the stream started and when the counter is used up.
CanRecord(s) == s.started /\ s.seq < MaxSeq

Record(s) == SessionOf(s.id, s.seq + 1, s.segment, s.attempt, s.started)
===============================================================================
