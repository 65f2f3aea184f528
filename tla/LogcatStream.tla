----------------------------- MODULE LogcatStream -----------------------------
(***************************************************************************)
(* One adb child in detail (src/src/adb.rs, start_logcat_with_scope, and   *)
(* wake_signal.rs): the process, the threads that read its two pipes, the  *)
(* drain worker that reaps it, the byte budget and the bounded channel in  *)
(* front of the consumer, the timer that merges wake-ups and the frames of *)
(* the desktop application, which polls the channel only when it was asked *)
(* to repaint.  LogcatChild is what other modules assume of all this.      *)
(*                                                                         *)
(* Other reasons to repaint (timers, input) only make events be seen       *)
(* sooner and are left out.  A pipe ends with the process.  The receiver   *)
(* lives as long as the threads do.                                        *)
(***************************************************************************)
EXTENDS Integers, Sequences

CONSTANTS
  Sizes,        \* of the model: for each row the child may write, its bytes
  QUEUE_BYTES,
  QueueCap,     \* capacity of the sync_channel
  MaxMishaps    \* of the model: calls that fail (read, try_wait, kill) and lines on stderr

ASSUME LogcatStreamAssumption ==
  /\ Sizes \in Seq(Nat \ {0})
  /\ {QUEUE_BYTES, QueueCap} \subseteq Nat \ {0}
  /\ MaxMishaps \in Nat

VARIABLES
  proc,   \* the process: what it wrote to stdout, and how it ended
  out,    \* the stdout reader, of text or of protobuf frames
  err,    \* the stderr reader
  drain,  \* the drain worker
  stopped,
  used,   \* QueueBudget::used
  queue,  \* the channel
  timer,  \* the coalescing timer and its worker
  ui,     \* the consumer: a repaint asked for, a frame being drawn
  mishaps \* of the model

vars == <<proc, out, err, drain, stopped, used, queue, timer, ui, mishaps>>

Rows == Len(Sizes)

\* From<LogEntry>: a row larger than the budget could never be admitted.
Bytes(row) == IF Sizes[row] < QUEUE_BYTES THEN Sizes[row] ELSE QUEUE_BYTES

\* Rows a reader of the pipe gets: a line is one without its end too.
Readable == proc.written + (IF proc.cut = "line" THEN 1 ELSE 0)

AtEnd == proc.closed /\ out.read = Readable

Mishap == mishaps < MaxMishaps /\ mishaps' = mishaps + 1

-------------------------------------------------------------------------------
(* The process.                                                            *)

\* It may end, by itself or killed, in the middle of a row: of a line if it
\* writes text, of a frame if it writes protobuf.
Ended(code) ==
  \E cut \in {"none", "line", "frame"} :
    /\ cut # "none" => (~proc.closed /\ proc.written < Rows)
    /\ proc' = [proc EXCEPT !.alive = FALSE, !.closed = TRUE, !.code = code, !.cut = cut]

Write ==
  /\ proc.alive /\ ~proc.closed /\ proc.written < Rows
  /\ proc' = [proc EXCEPT !.written = @ + 1]
  /\ UNCHANGED <<out, err, drain, stopped, used, queue, timer, ui, mishaps>>

\* stdout ends while the process goes on.
CloseOutput ==
  /\ proc.alive /\ ~proc.closed
  /\ proc' = [proc EXCEPT !.closed = TRUE]
  /\ UNCHANGED <<out, err, drain, stopped, used, queue, timer, ui, mishaps>>

Die ==
  /\ proc.alive
  /\ \E code \in {"zero", "other"} : Ended(code)
  /\ UNCHANGED <<out, err, drain, stopped, used, queue, timer, ui, mishaps>>

\* LogcatHandle::stop; a failing kill is not looked at.  A start that failed gave
\* no handle.
Stop ==
  /\ drain.pc # "never" /\ ~stopped
  /\ stopped' = TRUE
  /\ IF proc.alive
     THEN \/ Ended("other") /\ UNCHANGED mishaps
          \/ UNCHANGED proc /\ Mishap
     ELSE UNCHANGED <<proc, mishaps>>
  /\ UNCHANGED <<out, err, drain, used, queue, timer, ui>>

-------------------------------------------------------------------------------
(* Readers.                                                                *)

Send(event) == Len(queue) < QueueCap /\ queue' = Append(queue, event)

Event(kind) == [kind |-> kind, bytes |-> 0, row |-> 0]

OutStep(next) ==
  /\ out' = next
  /\ UNCHANGED <<proc, err, drain, stopped, mishaps>>

SendStarted ==
  /\ out.pc = "begin"
  /\ Send(Event("Started"))
  /\ OutStep([out EXCEPT !.pc = "wake"])
  /\ UNCHANGED <<used, timer, ui>>

WakeStarted ==
  /\ out.pc = "wake"
  /\ ui' = [ui EXCEPT !.repaint = TRUE]
  /\ OutStep([out EXCEPT !.pc = "read"])
  /\ UNCHANGED <<used, queue, timer>>

ReadRow ==
  /\ out.pc = "read" /\ out.read < Readable
  /\ OutStep([out EXCEPT !.pc = "reserve", !.read = @ + 1])
  /\ UNCHANGED <<used, queue, timer, ui>>

\* QueueBudget::reserve, which waits
Reserve ==
  /\ out.pc = "reserve" /\ used + Bytes(out.read) <= QUEUE_BYTES
  /\ used' = used + Bytes(out.read)
  /\ OutStep([out EXCEPT !.pc = "send"])
  /\ UNCHANGED <<queue, timer, ui>>

SendEntry ==
  /\ out.pc = "send"
  /\ Send([kind |-> "Entry", bytes |-> Bytes(out.read), row |-> out.read])
  /\ OutStep([out EXCEPT !.pc = "notify", !.sent = @ + 1])
  /\ UNCHANGED <<used, timer, ui>>

\* Timer::notify: a deadline that is set is not moved.
NotifyEntry ==
  /\ out.pc = "notify"
  /\ timer' = IF timer.deadline THEN timer
              ELSE [timer EXCEPT !.deadline = TRUE,
                                 !.worker = IF @ \in {"waits", "sleeps"} THEN "looks" ELSE @]
  /\ OutStep([out EXCEPT !.pc = "read"])
  /\ UNCHANGED <<used, queue, ui>>

\* The end of the stream: a protobuf frame that is not whole is a failure.
EndOutput ==
  /\ out.pc = "read" /\ AtEnd
  /\ OutStep([out EXCEPT !.pc = "drop", !.failure = IF proc.cut = "frame" THEN "cut" ELSE "none"])
  /\ UNCHANGED <<used, queue, timer, ui>>

FailOutput ==
  /\ out.pc = "read" /\ Mishap
  /\ out' = [out EXCEPT !.pc = "drop", !.failure = "io"]
  /\ UNCHANGED <<proc, err, drain, stopped, used, queue, timer, ui>>

\* Drop for Timer, then the thread is finished.
DropTimer ==
  /\ out.pc = "drop"
  /\ timer' = [timer EXCEPT !.closed = TRUE,
                            !.worker = IF @ \in {"waits", "sleeps"} THEN "looks" ELSE @]
  /\ OutStep([out EXCEPT !.pc = "done"])
  /\ UNCHANGED <<used, queue, ui>>

\* Its wake-up follows at once and, unlike the others, is part of the step.
SendDiagnostic ==
  /\ err.pc = "read" /\ Mishap
  /\ Send(Event("Stderr"))
  /\ ui' = [ui EXCEPT !.repaint = TRUE]
  /\ UNCHANGED <<proc, out, err, drain, stopped, used, timer>>

EndDiagnostics ==
  /\ err.pc = "read"
  /\ \/ ~proc.alive /\ err' = [err EXCEPT !.pc = "done"] /\ UNCHANGED mishaps
     \/ Mishap /\ err' = [err EXCEPT !.pc = "done", !.failure = "io"]
  /\ UNCHANGED <<proc, out, drain, stopped, used, queue, timer, ui>>

-------------------------------------------------------------------------------
(* The worker of the timer.  It waits for a notification or sleeps until   *)
(* the deadline; either may also end for no reason.                        *)

TimerStep(next) ==
  /\ timer' = next
  /\ UNCHANGED <<proc, out, err, drain, stopped, used, queue, mishaps>>

\* A look at the state, with the lock.
Look ==
  /\ timer.worker = "looks"
  /\ IF timer.deadline /\ timer.closed THEN
       TimerStep([timer EXCEPT !.deadline = FALSE, !.worker = "fires"])
     ELSE TimerStep([timer EXCEPT !.worker = CASE timer.deadline -> "sleeps"
                                               [] timer.closed -> "over"
                                               [] OTHER -> "waits"])
  /\ UNCHANGED ui

\* The interval is over.
Expire ==
  /\ timer.worker = "sleeps"
  /\ TimerStep([timer EXCEPT !.deadline = FALSE, !.worker = "fires"])
  /\ UNCHANGED ui

\* target.notify, without the lock
Fire ==
  /\ timer.worker = "fires"
  /\ ui' = [ui EXCEPT !.repaint = TRUE]
  /\ TimerStep([timer EXCEPT !.worker = "looks"])

-------------------------------------------------------------------------------
(* The drain worker.                                                       *)

\* record_reader_failure
Recorded(d, reader, pipe) ==
  IF reader.failure = "none" THEN d
  ELSE LET incomplete == pipe = "stdout" /\ reader.failure = "cut"
       IN [d EXCEPT !.error = TRUE,
                    !.incomplete = IF d.error THEN @ /\ incomplete ELSE incomplete]

OutJoined(d) == [Recorded(d, out, "stdout") EXCEPT !.out_joined = TRUE]
ErrJoined(d) == [Recorded(d, err, "stderr") EXCEPT !.err_joined = TRUE]

Faulty(d) == [d EXCEPT !.error = TRUE, !.incomplete = FALSE]

DrainStep(next) ==
  /\ drain' = next
  /\ UNCHANGED <<out, err, stopped, used, timer>>

\* The top of the loop: what is finished is joined.
LookAtReaders ==
  /\ drain.pc = "readers"
  /\ LET first == IF out.pc = "done" /\ ~drain.out_joined THEN OutJoined(drain) ELSE drain
         second == IF err.pc = "done" /\ ~drain.err_joined THEN ErrJoined(first) ELSE first
     IN DrainStep([second EXCEPT !.pc = "child"])
  /\ UNCHANGED <<proc, queue, ui, mishaps>>

\* try_wait reports a status
Reaped ==
  /\ drain.pc = "child" /\ ~proc.alive
  /\ DrainStep([drain EXCEPT !.pc = "join"])
  /\ UNCHANGED <<proc, queue, ui, mishaps>>

\* What follows: after an error or a stop the process is killed.
Goes(d) ==
  /\ IF proc.alive /\ (stopped \/ d.error) THEN Ended("other") ELSE UNCHANGED proc
  /\ DrainStep([d EXCEPT !.pc = "readers"])
  /\ UNCHANGED <<queue, ui>>

\* ... or none yet, or fails
StillAlive ==
  /\ drain.pc = "child"
  /\ \/ proc.alive /\ Goes(drain) /\ UNCHANGED mishaps
     \/ Mishap /\ Goes(Faulty(drain))

\* ... or none yet although stdout ended a while (250 ms) ago
OutputOverdue ==
  /\ drain.pc = "child" /\ proc.alive /\ drain.out_joined
  /\ Goes(Faulty(drain)) /\ UNCHANGED mishaps

\* There is none yet, the process is told to go, by a stop, an error or as overdue,
\* and the kill fails.
StillAliveAfterKill ==
  /\ drain.pc = "child" /\ proc.alive /\ Mishap
  /\ stopped \/ drain.error \/ drain.out_joined
  /\ DrainStep([Faulty(drain) EXCEPT !.pc = "readers"])
  /\ UNCHANGED <<proc, queue, ui>>

\* Mutant: a failure of a reader is only looked at while the process runs.
JoinQuietly ==
  /\ drain.pc = "join" /\ out.pc = "done" /\ err.pc = "done"
  /\ DrainStep([drain EXCEPT !.pc = "exit", !.out_joined = TRUE, !.err_joined = TRUE])
  /\ UNCHANGED <<proc, queue, ui, mishaps>>

\* Mutant: a reader may still be sending.
JoinNothing ==
  /\ drain.pc = "join"
  /\ DrainStep([drain EXCEPT !.pc = "exit"])
  /\ UNCHANGED <<proc, queue, ui, mishaps>>

\* What is left to be joined is waited for.
Join ==
  /\ drain.pc = "join" /\ out.pc = "done" /\ err.pc = "done"
  /\ LET first == IF drain.out_joined THEN drain ELSE OutJoined(drain)
         second == IF drain.err_joined THEN first ELSE ErrJoined(first)
     IN DrainStep([second EXCEPT !.pc = "exit"])
  /\ UNCHANGED <<proc, queue, ui, mishaps>>

SendExited ==
  /\ drain.pc = "exit"
  /\ Send([kind |-> "Exited", bytes |-> 0, row |-> 0,
           clean |-> proc.code = "zero" /\ ~drain.error, incomplete |-> drain.incomplete])
  /\ DrainStep([drain EXCEPT !.pc = "wake"])
  /\ UNCHANGED <<proc, ui, mishaps>>

WakeExited ==
  /\ drain.pc = "wake"
  /\ ui' = [ui EXCEPT !.repaint = TRUE]
  /\ DrainStep([drain EXCEPT !.pc = "done"])
  /\ UNCHANGED <<proc, queue, mishaps>>

-------------------------------------------------------------------------------
(* The consumer.                                                           *)

UiStep(next) ==
  /\ ui' = next
  /\ UNCHANGED <<proc, out, err, drain, stopped, timer, mishaps>>

BeginFrame ==
  /\ ui.repaint /\ ~ui.frame
  /\ UiStep([ui EXCEPT !.repaint = FALSE, !.frame = TRUE])
  /\ UNCHANGED <<used, queue>>

Polled(next) ==
  /\ ui.frame /\ queue # <<>>
  /\ queue' = Tail(queue)
  /\ used' = used - Head(queue).bytes
  /\ UiStep([next EXCEPT !.exited = @ \/ Head(queue).kind = "Exited"])

\* Mutant: ... which asks for no other.
PollEventAndStop == \E last \in BOOLEAN : Polled([ui EXCEPT !.frame = ~last])

\* poll_backend: any event may be the last of a frame, by BACKEND_EVENTS_PER_FRAME
\* or by BACKEND_FRAME_BUDGET, which then asks for another frame.  Dropping the
\* event returns its permit.
PollEvent ==
  \E last \in BOOLEAN : Polled([ui EXCEPT !.frame = ~last, !.repaint = @ \/ last])

EndFrame ==
  /\ ui.frame /\ queue = <<>>
  /\ UiStep([ui EXCEPT !.frame = FALSE])
  /\ UNCHANGED <<used, queue>>

-------------------------------------------------------------------------------
\* A child that had time to write, and was killed, in the middle of a row perhaps,
\* or goes on.
Spawned(alive, written, cut) ==
  [alive |-> alive, closed |-> ~alive, code |-> IF alive THEN "none" ELSE "other",
   written |-> written, cut |-> cut]

\* The handle was returned; or the drain worker could not be created: the child is
\* killed and reaped, or the kill fails too, and its readers run.
Init ==
  /\ \E ok \in BOOLEAN :
       /\ IF ok THEN proc = Spawned(TRUE, 0, "none")
          ELSE \E alive \in BOOLEAN, written \in 0 .. Rows, cut \in {"none", "line", "frame"} :
                 /\ cut # "none" => ~alive /\ written < Rows
                 /\ proc = Spawned(alive, written, cut)
       /\ drain = [pc |-> IF ok THEN "readers" ELSE "never", out_joined |-> FALSE,
                   err_joined |-> FALSE, error |-> FALSE, incomplete |-> FALSE]
  /\ stopped = FALSE
  /\ out = [pc |-> "begin", read |-> 0, sent |-> 0, failure |-> "none"]
  /\ err = [pc |-> "read", failure |-> "none"]
  /\ used = 0 /\ queue = <<>> /\ mishaps = 0
  /\ timer = [deadline |-> FALSE, closed |-> FALSE, worker |-> "looks"]
  /\ ui = [repaint |-> FALSE, frame |-> FALSE, exited |-> FALSE]

Output ==
  SendStarted \/ WakeStarted \/ ReadRow \/ Reserve \/ SendEntry \/ NotifyEntry \/ EndOutput
    \/ DropTimer

Diagnostics == SendDiagnostic \/ EndDiagnostics

Wakes == Look \/ Expire \/ Fire

Drains ==
  LookAtReaders \/ Reaped \/ StillAlive \/ OutputOverdue \/ StillAliveAfterKill \/ Join
    \/ SendExited \/ WakeExited

Frames == BeginFrame \/ PollEvent \/ EndFrame

Next ==
  Write \/ CloseOutput \/ Die \/ Stop \/ Output \/ FailOutput \/ Diagnostics \/ Wakes \/ Drains
    \/ Frames

Spec == Init /\ [][Next]_vars

\* Threads run, frames are drawn, time passes: once stdout ended long enough ago
\* every look at the process finds so.  The process need not write, nor end by
\* itself, and no call need fail.
FairSpec ==
  /\ Spec
  /\ WF_vars(Output) /\ WF_vars(EndDiagnostics /\ UNCHANGED mishaps)
  /\ WF_vars(Wakes) /\ WF_vars(Drains)
  /\ WF_vars(Frames) /\ SF_vars(OutputOverdue)

-------------------------------------------------------------------------------
(* Properties.                                                             *)

\* What LogcatChild, and with it the models of both consumers, sees of this.
AbsChild ==
  [i \in {1} |->
    [proc |-> IF proc.alive THEN "alive" ELSE "dead",
     reader |-> CASE out.pc = "begin" -> "new" [] out.pc = "done" -> "done" [] OTHER -> "open",
     lines |-> out.sent,
     drain |-> CASE drain.pc = "never" -> "none"
                 [] drain.pc \in {"readers", "child", "join", "exit"} -> "works"
                 [] OTHER -> "done"]]

AbsEvent(event) ==
  CASE event.kind = "Started" -> [id |-> 1, kind |-> "Started"]
    [] event.kind = "Entry" -> [id |-> 1, kind |-> "Entry", line |-> event.row]
    [] OTHER -> [id |-> 1, kind |-> "Exited", clean |-> event.clean]

\* All events but Stderr, which LogcatChild leaves out.
Told(events) ==
  LET told[k \in 0 .. Len(events)] ==
        IF k = 0 THEN <<>>
        ELSE IF events[k].kind = "Stderr" THEN told[k - 1]
        ELSE Append(told[k - 1], AbsEvent(events[k]))
  IN told[Len(events)]

AbsQueue == Told(queue)

Contract == INSTANCE LogcatChild WITH Lines <- Rows, child <- AbsChild, queue <- AbsQueue

\* An event is received.
Received ==
  /\ AbsQueue # <<>>
  /\ AbsQueue' = Tail(AbsQueue) /\ UNCHANGED AbsChild

\* The threads do to the channel what LogcatChild says a child does: Started is
\* first, rows follow in order and without a gap, Exited is sent once the process
\* is dead and its output read to the end, and nothing follows it.
ChildContract == [][Contract!ChildStep(1) \/ Received]_<<AbsChild, AbsQueue>>

\* The permits that the events of the queue hold.
Charged(events) ==
  LET sum[k \in 0 .. Len(events)] == IF k = 0 THEN 0 ELSE sum[k - 1] + events[k].bytes
  IN sum[Len(events)]

\* An exit that is reported without an error and with code 0 comes after every
\* row the process wrote, a last one without its end included; one that is
\* reported as an incomplete frame, after every row before that frame.  Until
\* then the bytes of rows that are waiting are what the budget counts, and within
\* it.
ExitTellsWhatIsMissing ==
  /\ \A k \in DOMAIN queue :
       queue[k].kind = "Exited" =>
         /\ queue[k].clean => out.sent = Readable /\ proc.cut # "frame"
         /\ queue[k].incomplete => out.sent = proc.written /\ proc.cut = "frame"
  /\ used = Charged(queue) + (IF out.pc = "send" THEN Bytes(out.read) ELSE 0)
  /\ used <= QUEUE_BYTES

\* No wake-up is lost, no permit and no place in the channel is waited for in
\* vain: what was sent is polled, and once the process ended, stopped or not, or
\* only its output ended, the exit is, or, where no drain worker could be created,
\* the rows it read.
EventsArePolled ==
  /\ queue # <<>> ~> queue = <<>>
  /\ (stopped \/ proc.closed)
       ~> \/ ui.exited
          \/ drain.pc = "never" /\ out.pc = "done" /\ queue = <<>>
===============================================================================
