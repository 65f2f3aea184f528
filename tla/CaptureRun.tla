------------------------------ MODULE CaptureRun ------------------------------
(***************************************************************************)
(* The headless recorder (src/src/cli/capture.rs): one loop that drives a  *)
(* Controller, drains its adb children and hands encoded records through a *)
(* channel of one packet to a writer thread, with limits, a user who may   *)
(* ask for an end at any time, and a bounded finalization.                 *)
(*                                                                         *)
(* Bytes are left out: whether a record or the footer still fits is a      *)
(* choice.  So are Stderr events, diagnostics, incomplete protobuf frames  *)
(* and the exit code.  The status file is SessionFiles' subject: here, what*)
(* the heartbeat publishes.  After the loop the backend channel is gone;   *)
(* what its senders do then is not modelled.                               *)
(***************************************************************************)
EXTENDS Controller, Session, LogcatChild, FiniteSets

CONSTANTS
  Dumps,       \* scopes a run may have: a finite dump (TRUE), or following
  MAX_ENTRIES, \* config.max_entries
  STOP_WAIT,   \* the recorder's own deadline for a stop (5 s)
  FLUSH_WAIT,  \* the time it gives the output to take the footer, and to end (2 s)
  Outcomes     \* of the model: ways a start can end

ASSUME CaptureRunAssumption ==
  /\ Target # {}  \* the device that was asked for
  /\ Dumps \subseteq BOOLEAN
  /\ MAX_ENTRIES \in Nat \ {0}
  /\ STOP_WAIT \in Nat \ {0}
  /\ FLUSH_WAIT \in Nat \ {0}
  /\ Outcomes \subseteq StartOutcome

VARIABLES
  run,      \* the locals of the loop
  asked,    \* the interrupt flag, the stop file and the clock, as the loop reads them
  packets,  \* the channel to the writer
  writer,   \* the writer thread: what it does, and the packet in its hand
  file,     \* what was written and flushed
  visible   \* Progress: records flushed, as the writer publishes it

output == <<packets, writer, file, visible>>
vars == <<run, asked, output, channel>>

Ask == {"interrupted", "stopped", "duration_limit"}
Reason == Ask \cup {"none", "failed", "max_entries", "max_bytes", "snapshot_complete"}
Failure ==
  {"none", "output_error", "adb_error", "identity_exhausted", "record_error",
   "status_error", "output_backpressure"}

NoPacket == [kind |-> "none"]
Header == [kind |-> "header"]
RecordPacket(seq, attempt, line) ==
  [kind |-> "record", seq |-> seq, attempt |-> attempt, line |-> line]
Footer(count, partial) == [kind |-> "footer", count |-> count, partial |-> partial]

RecordPackets == [kind : {"record"}, seq : 1 .. MaxSeq, attempt : Id, line : 1 .. Lines]
Footers == [kind : {"footer"}, count : 0 .. MaxSeq, partial : BOOLEAN]
Packet == {Header} \cup RecordPackets \cup Footers

Records(doc) == {k \in DOMAIN doc : doc[k].kind = "record"}

RunState ==
  [pc : {"top", "turn", "receive", "finish", "footer", "join", "ended"},
   dump : Dumps,                        \* the scope, of config
   ctl : ControllerState,
   handle : Id \cup {NoId}, stopped : BOOLEAN,  \* child, and its stop flag
   session : SessionState({1}),
   stopping : BOOLEAN, left : 0 .. STOP_WAIT + FLUSH_WAIT,  \* time to the deadline
   reason : Reason, failure : Failure, done : BOOLEAN,     \* writer_done is known
   pending : {NoPacket} \cup RecordPackets,
   encoded : 0 .. MaxSeq,               \* the count in the kept encoder
   closing : {NoPacket} \cup Footers,   \* the footer still to be sent
   received : Nat, reconnects : Nat, ready : BOOLEAN, backend_error : BOOLEAN,
   published : 0 .. MaxSeq]             \* entries in the status last written

Start(dump) ==
  [pc |-> "top", dump |-> dump, ctl |-> Request(NewController, CHOOSE t \in Target : TRUE, FALSE),
   handle |-> NoId, stopped |-> FALSE, session |-> NewSession(1),
   stopping |-> FALSE, left |-> 0, reason |-> "none", failure |-> "none", done |-> FALSE,
   pending |-> NoPacket, encoded |-> 0, closing |-> NoPacket, received |-> 0,
   reconnects |-> 0, ready |-> FALSE, backend_error |-> FALSE, published |-> 0]

-------------------------------------------------------------------------------
(* Parts of an iteration: the locals after them *)

\* get_or_insert: the first failure is kept.
Fail(r, code) == IF r.failure = "none" THEN [r EXCEPT !.failure = code] ELSE r

At(r, pc) == [r EXCEPT !.pc = pc]

\* The writer's end has arrived, in whatever way.
WriterTold == writer.state \in {"ok", "error"}
WriterGone == writer.state \in {"failing", "ok", "error"}

SeeWriter(r) ==
  IF r.done \/ ~WriterTold THEN r ELSE [Fail(r, "output_error") EXCEPT !.done = TRUE]

StopReason(r) ==
  IF r.failure # "none" THEN "failed" ELSE IF asked # "none" THEN asked ELSE r.reason

BeginStop(r, reason) ==
  [r EXCEPT !.reason = reason, !.stopping = TRUE, !.left = STOP_WAIT,
            !.pending = NoPacket,
            !.ctl = Request(r.ctl, "Closed", FALSE),
            !.stopped = @ \/ r.handle # NoId]

HasRoom == packets = <<>>

\* The locals after try_send of the pending packet.
Offered(r) ==
  IF r.pending = NoPacket THEN r
  ELSE IF WriterGone THEN Fail([r EXCEPT !.pending = NoPacket], "output_error")
  ELSE IF ~HasRoom THEN r
  ELSE LET sent == [r EXCEPT !.pending = NoPacket, !.encoded = @ + 1]
       IN IF sent.encoded >= MAX_ENTRIES THEN [sent EXCEPT !.reason = "max_entries"] ELSE sent

Sends(r) == r.pending # NoPacket /\ ~WriterGone /\ HasRoom

\* Mutant: a stop is waited for without end.
GivesUpNever(r) == FALSE

StopDone(r) == r.stopping /\ ~HasAttempt(r.ctl)

GivesUp(r) == r.stopping /\ r.left = 0

\* poll and the start it asks for; cancelled: the start was interrupted.
Launch(r, outcome, cancelled) ==
  LET id == r.ctl.next_id + 1
      b == [r EXCEPT !.ctl = Poll(r.ctl, TRUE), !.session = BeginAttempt(r.session)]
  IN IF outcome = "ok" THEN [b EXCEPT !.handle = id, !.stopped = FALSE]
     ELSE [b EXCEPT !.ctl = Exited(b.ctl, id), !.backend_error = @ \/ ~cancelled]

\* A Failed controller ends the run; beat: the heartbeat is due.
Watched(r, beat, written) ==
  LET b == IF Status(r.ctl) = "Failed" THEN Fail(r, "adb_error") ELSE r
      c == IF beat THEN [b EXCEPT !.published = visible] ELSE b
  IN IF beat /\ ~written THEN Fail(b, "status_error") ELSE c

OnStarted(r, id) ==
  IF ~CanStartStream(r.session) THEN [r EXCEPT !.failure = "identity_exhausted"]
  ELSE [r EXCEPT !.session = StreamStarted(r.session),
                 !.ctl = Started(r.ctl, id), !.ready = TRUE]

\* over: the record and the footer's reserve exceed max_bytes.
OnEntry(r, id, line, over) ==
  LET s == Record(r.session)
      b == [r EXCEPT !.received = @ + 1]
  IN IF r.stopping \/ r.reason # "none" \/ r.failure # "none" THEN b
     ELSE IF ~CanRecord(r.session) THEN [b EXCEPT !.failure = "record_error"]
     ELSE IF over THEN [b EXCEPT !.session = s, !.reason = "max_bytes"]
     ELSE [b EXCEPT !.session = s, !.pending = RecordPacket(s.seq, id, line)]

\* said: the exit carries an error text; it is none of a clean one's.
OnExited(r, id, clean, said) ==
  LET b == [r EXCEPT !.handle = NoId, !.stopped = FALSE]
  IN IF ~r.stopping /\ r.dump /\ clean
     THEN [b EXCEPT !.ctl = Completed(r.ctl, id), !.reason = "snapshot_complete"]
     ELSE LET c == [b EXCEPT !.ctl = Exited(r.ctl, id)]
          IN IF ~r.stopping
             THEN [c EXCEPT !.backend_error = TRUE, !.reconnects = @ + 1]
             ELSE IF said /\ ~clean THEN Fail(c, "adb_error") ELSE c

Received(r, event) ==
  IF ActiveId(r.ctl) # event.id THEN {r}
  ELSE CASE event.kind = "Started" -> {OnStarted(r, event.id)}
         [] event.kind = "Entry" ->
              {OnEntry(r, event.id, event.line, over) : over \in BOOLEAN}
         [] OTHER -> {OnExited(r, event.id, event.clean, said) : said \in BOOLEAN}

\* The first lines after the loop.
Judged(r) ==
  IF (~r.ready \/ (r.encoded = 0 /\ r.reconnects > 0)) /\ r.backend_error
  THEN Fail(r, "adb_error") ELSE r

FooterOf(r) ==
  Footer(r.encoded, r.received > r.encoded \/ r.reconnects > 0 \/ r.failure # "none")

\* Mutant: an output that does not answer is taken to have finished.
EndedTrusting(r) ==
  At(IF writer.state = "error" THEN Fail(r, "output_error") ELSE r, "ended")

\* The writer's result, or its silence; then the final status.
Ended(r) ==
  At(IF r.done \/ writer.state = "ok" THEN r
     ELSE Fail(r, IF writer.state = "error" THEN "output_error" ELSE "output_backpressure"),
     "ended")

-------------------------------------------------------------------------------
(* Steps of the loop *)

Init ==
  /\ run \in {Start(dump) : dump \in Dumps}
  /\ asked = "none"
  /\ packets = <<Header>>
  /\ writer = [state |-> "idle", packet |-> NoPacket]
  /\ file = <<>>
  /\ visible = 0
  /\ ChannelInit(Id)

\* From the writer's result to the decision to stop.
Top ==
  /\ run.pc = "top"
  /\ LET r == SeeWriter(run)
         reason == StopReason(r)
     IN run' = At(IF r.stopping \/ reason = "none" THEN r ELSE BeginStop(r, reason), "turn")
  /\ UNCHANGED <<asked, output, channel>>

\* From try_send to the heartbeat.
Turn ==
  /\ run.pc = "turn"
  /\ packets' = IF Sends(run) THEN Append(packets, run.pending) ELSE packets
  /\ LET r == Offered(run) IN
     IF StopDone(r)
     THEN run' = At(r, "finish") /\ UNCHANGED child
     ELSE IF GivesUp(r)
     THEN run' = At(Fail(r, "adb_error"), "finish") /\ UNCHANGED child
     ELSE IF PollStarts(r.ctl, TRUE) /\ ~CanBegin(r.session)
     THEN /\ run' = At([r EXCEPT !.failure = "identity_exhausted",
                                 !.ctl = Exited(Poll(r.ctl, TRUE), r.ctl.next_id + 1)], "top")
          /\ UNCHANGED child
     ELSE \E beat, written \in BOOLEAN :
            IF PollStarts(r.ctl, TRUE)
            THEN \E outcome \in Outcomes :
                   /\ run' = At(Watched(Launch(r, outcome, asked \in {"interrupted", "stopped"}),
                                        beat, written), "receive")
                   /\ child' = [child EXCEPT ![r.ctl.next_id + 1] = ChildOf(outcome)]
            ELSE /\ run' = At(Watched([r EXCEPT !.ctl = Poll(r.ctl, TRUE)], beat, written),
                              "receive")
                 /\ UNCHANGED child
  /\ UNCHANGED <<asked, writer, file, visible, queue>>

\* Mutant: events are received while a record waits for the writer.
ReceiveAlways ==
  /\ run.pc = "receive"
  /\ IF queue = <<>>
     THEN run' = At(run, "top") /\ UNCHANGED queue
     ELSE /\ \E r \in Received(run, Head(queue)) : run' = At(r, "top")
          /\ queue' = Tail(queue)
  /\ UNCHANGED <<asked, output, child>>

\* recv_timeout, unless a record waits for the writer.
Receive ==
  /\ run.pc = "receive"
  /\ IF run.pending # NoPacket \/ queue = <<>>
     THEN run' = At(run, "top") /\ UNCHANGED queue
     ELSE /\ \E r \in Received(run, Head(queue)) : run' = At(r, "top")
          /\ queue' = Tail(queue)
  /\ UNCHANGED <<asked, output, child>>

\* After the loop: no footer if the writer has ended, or it does not fit.
Finish ==
  /\ run.pc = "finish"
  /\ \E fits \in BOOLEAN :
       LET r == [Judged(run) EXCEPT !.stopped = @ \/ run.handle # NoId, !.left = FLUSH_WAIT]
       IN run' = IF r.done THEN At(r, "join")
                 ELSE IF fits THEN At([r EXCEPT !.closing = FooterOf(r)], "footer")
                 ELSE At(Fail(r, "record_error"), "join")
  /\ UNCHANGED <<asked, output, channel>>

SendFooter ==
  /\ run.pc = "footer"
  /\ LET r == [run EXCEPT !.closing = NoPacket, !.left = FLUSH_WAIT] IN
     \/ /\ WriterGone \/ HasRoom
        /\ packets' = IF WriterGone THEN packets ELSE Append(packets, run.closing)
        /\ run' = At(r, "join")
     \/ /\ ~WriterGone /\ ~HasRoom /\ run.left = 0
        /\ run' = At(Fail(r, "output_backpressure"), "join")
        /\ UNCHANGED packets
  /\ UNCHANGED <<asked, writer, file, visible, channel>>

\* The packets' sender is dropped; the final status is written.
Join ==
  /\ run.pc = "join"
  /\ run.done \/ WriterTold \/ run.left = 0
  /\ \E written \in BOOLEAN :
       run' = IF written THEN [Ended(run) EXCEPT !.published = visible]
              ELSE Fail(Ended(run), "status_error")
  /\ UNCHANGED <<asked, output, channel>>

Loop == Top \/ Turn \/ Receive \/ Finish \/ SendFooter \/ Join

-------------------------------------------------------------------------------
(* The writer, the children, the user and the clock *)

SenderDropped == run.pc \in {"join", "ended"}

TakePacket ==
  /\ writer.state = "idle"
  /\ packets # <<>>
  /\ writer' = [state |-> "writing", packet |-> Head(packets)]
  /\ packets' = <<>>
  /\ UNCHANGED <<file, visible>>

\* write_all and flush
WritePacket ==
  /\ writer.state = "writing"
  /\ writer' = [writer EXCEPT !.state = "written"]
  /\ file' = Append(file, writer.packet)
  /\ UNCHANGED <<packets, visible>>

Publish ==
  /\ writer.state = "written"
  /\ writer' = [state |-> "idle", packet |-> NoPacket]
  /\ visible' = Cardinality(Records(file))
  /\ UNCHANGED <<packets, file>>

\* A write fails: the receiver is dropped first, then the result is sent.
FailWrite ==
  /\ writer.state = "writing"
  /\ writer' = [writer EXCEPT !.state = "failing"]
  /\ packets' = <<>>
  /\ UNCHANGED <<file, visible>>

TellFailure ==
  /\ writer.state = "failing"
  /\ writer' = [writer EXCEPT !.state = "error"]
  /\ UNCHANGED <<packets, file, visible>>

EndWriter ==
  /\ writer.state = "idle"
  /\ packets = <<>>
  /\ SenderDropped
  /\ \E state \in {"ok", "failing"} : writer' = [writer EXCEPT !.state = state]
  /\ UNCHANGED <<packets, file, visible>>

WriterStep ==
  /\ TakePacket \/ WritePacket \/ Publish \/ FailWrite \/ TellFailure \/ EndWriter
  /\ UNCHANGED <<run, asked, channel>>

ChildActs == (\E i \in Id : ChildStep(i)) /\ UNCHANGED <<run, asked, output>>

AskEnd ==
  /\ asked = "none"
  /\ asked' \in Ask
  /\ UNCHANGED <<run, output, channel>>

Tick ==
  /\ run' = [run EXCEPT !.ctl = Elapse(run.ctl), !.left = IF @ = 0 THEN 0 ELSE @ - 1]
  /\ UNCHANGED <<asked, output, channel>>

Next == Loop \/ WriterStep \/ ChildActs \/ AskEnd \/ Tick

Spec == Init /\ [][Next]_vars

\* The loop runs and time passes; the output and adb may hang for ever.
FairSpec == Spec /\ WF_vars(Loop) /\ WF_vars(Tick)

-------------------------------------------------------------------------------
(* Properties *)

TypeOK ==
  /\ run \in RunState
  /\ asked \in Ask \cup {"none"}
  /\ packets \in Seq(Packet) /\ Len(packets) <= 1
  /\ writer.state \in {"idle", "writing", "written", "failing", "ok", "error"}
  /\ writer.packet \in Packet \cup {NoPacket}
  /\ file \in Seq(Packet)
  /\ visible \in 0 .. MaxSeq
  /\ ChannelType(Id)

InHand == IF writer.state = "writing" THEN <<writer.packet>> ELSE <<>>

\* All that was handed over, in the order it will be in the file.
Document == file \o InHand \o packets
Succeeded == run.pc = "ended" /\ run.failure = "none"

\* What is in the file is a prefix of what the children sent, over reconnects
\* and whatever stopped the run: a header, records numbered from 1 without a
\* gap, every line of an attempt before the next attempt's first, and nothing
\* after a footer, which counts the records (write_packets, record_bytes).  The
\* record that reaches the limit is the last, with another already received.
\* What the status tells a reader meanwhile is written and flushed (progress).
DocumentIsPrefix ==
  /\ run.published <= visible /\ visible <= Cardinality(Records(file))
  /\ \A k \in DOMAIN Document :
       LET item == Document[k]
           last == Document[k - 1]
       IN /\ item.kind = "header" <=> k = 1
          /\ item.kind = "footer" => k = Len(Document) /\ item.count = k - 2
          /\ item.kind = "record" =>
               /\ item.seq = k - 1 /\ item.seq <= MAX_ENTRIES
               /\ k > 2 =>
                    IF item.attempt = last.attempt THEN item.line = last.line + 1
                    ELSE item.line = 1 /\ last.line = child[last.attempt].lines

\* A run that reports success left a finished document: its footer was
\* written, counts what the final status counts, and is honest about gaps
\* ("failed output intentionally has no footer").  It left no process behind
\* but those whose start and its cleanup had failed (failed_logcat_start), and one
\* whose stream never began was asked to end (finalization).  A snapshot
\* that reports completion holds every line its last attempt wrote: no record is
\* still waiting when the clean exit is taken (Exited).
SuccessIsFinalized ==
  Succeeded =>
    LET footer == file[Len(file)]
    IN /\ file # <<>> /\ footer.kind = "footer"
       /\ footer.count = run.published
       /\ packets = <<>> /\ writer.state = "ok"
       /\ ~footer.partial => footer.count = run.received
       /\ \A i \in Id : child[i].proc = "alive" => Abandoned(i)
       /\ ~run.ready => asked # "none"
       /\ run.reason = "snapshot_complete" =>
            LET i == run.ctl.next_id IN
            /\ run.published = run.received
            /\ child[i].lines = Cardinality({k \in Records(file) : file[k].attempt = i})

\* The recorder ends once it was asked to, or hit a limit or a failure, even
\* if adb cannot be killed and the output never takes another byte.
RunEnds ==
  (asked # "none" \/ run.reason # "none" \/ run.failure # "none") ~> run.pc = "ended"
===============================================================================
