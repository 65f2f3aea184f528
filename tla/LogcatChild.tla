----------------------------- MODULE LogcatChild ------------------------------
(***************************************************************************)
(* The adb children of src/src/adb.rs (start_logcat_with_scope) and the    *)
(* bounded channel their threads send into: per attempt one process, one   *)
(* stdout reader and one drain worker that reaps the process, waits for    *)
(* the reader and sends the final Exited.  The desktop application and the *)
(* headless recorder spawn, stop and consume them.                         *)
(*                                                                         *)
(* Left out: Stderr events (a text the consumer shows), the byte budget of *)
(* the channel (LogcatStream.tla), the wake-up notifications.               *)
(***************************************************************************)
EXTENDS Naturals, Sequences

CONSTANTS
  Lines,    \* bound of the model: log entries one child writes
  QueueCap  \* capacity of the sync_channel (GUI 4096, CLI 128)

ASSUME LogcatChildAssumption == Lines \in Nat /\ QueueCap \in Nat \ {0}

VARIABLES
  child,  \* what each attempt spawned
  queue   \* events sent and not yet received

channel == <<child, queue>>

Child ==
  [proc : {"none", "alive", "dead"},  \* dead: try_wait reports a status
   reader : {"new", "open", "done"},  \* the stdout worker
   lines : 0 .. Lines,                \* entries it has sent
   drain : {"none", "works", "done"}] \* the drain worker: done when Exited is sent

Spawned(proc, drain) ==
  [proc |-> proc, reader |-> "new", lines |-> 0, drain |-> drain]

NoChild == [Spawned("none", "none") EXCEPT !.reader = "done"]

\* How a start can end.  The handle is returned, or the caller gets an error:
\* nothing is left of it ("refused"); or a thread could not be created after the
\* process was spawned, and the process is killed and reaped (failed_logcat_start),
\* which may fail too.  If it was the drain worker, the stdout reader runs already
\* and nobody will send Exited, of a dead process ("orphaned") or of one that goes
\* on ("abandoned"); before that nobody reads one that goes on ("unread").
StartOutcome == {"ok", "refused", "orphaned", "abandoned", "unread"}

ChildOf(outcome) ==
  CASE outcome = "ok" -> Spawned("alive", "works")
    [] outcome = "orphaned" -> Spawned("dead", "none")
    [] outcome = "abandoned" -> Spawned("alive", "none")
    [] outcome = "unread" -> [NoChild EXCEPT !.proc = "alive"]
    [] OTHER -> NoChild

\* It runs and has no worker that reaps it: its start failed, and so did the kill.
Abandoned(i) == child[i].proc = "alive" /\ child[i].drain = "none"

StartedEvent(i) == [id |-> i, kind |-> "Started"]
EntryEvent(i, line) == [id |-> i, kind |-> "Entry", line |-> line]
ExitedEvent(i, clean) == [id |-> i, kind |-> "Exited", clean |-> clean]

Event(ids) ==
  [id : ids, kind : {"Started"}]
    \cup [id : ids, kind : {"Entry"}, line : 1 .. Lines]
    \cup [id : ids, kind : {"Exited"}, clean : BOOLEAN]

ChannelType(ids) ==
  /\ child \in [ids -> Child]
  /\ queue \in Seq(Event(ids))
  /\ Len(queue) <= QueueCap

ChannelInit(ids) ==
  /\ child = [i \in ids |-> NoChild]
  /\ queue = <<>>

-------------------------------------------------------------------------------
\* A sender blocks until the channel has room.
Send(event) ==
  /\ Len(queue) < QueueCap
  /\ queue' = Append(queue, event)

SendStarted(i) ==
  /\ child[i].reader = "new"
  /\ Send(StartedEvent(i))
  /\ child' = [child EXCEPT ![i].reader = "open"]

SendEntry(i) ==
  /\ child[i].reader = "open"
  /\ child[i].lines < Lines
  /\ Send(EntryEvent(i, child[i].lines + 1))
  /\ child' = [child EXCEPT ![i].lines = @ + 1]

\* The reader meets the end of the stream or fails.
EndReader(i) ==
  /\ child[i].reader = "open"
  /\ child' = [child EXCEPT ![i].reader = "done"]
  /\ UNCHANGED queue

\* The process ends, by itself or killed.
Die(i) ==
  /\ child[i].proc = "alive"
  /\ child' = [child EXCEPT ![i].proc = "dead"]
  /\ UNCHANGED queue

\* Mutant: Exited is sent before the process is known to be dead.
ReapUnconfirmed(i) ==
  /\ child[i].drain = "works"
  /\ child[i].reader = "done"
  /\ \E clean \in BOOLEAN : Send(ExitedEvent(i, clean))
  /\ child' = [child EXCEPT ![i].drain = "done"]

\* The drain worker confirms the reap, joins the reader and says so last;
\* clean: exit code 0 and no error seen.
Reap(i) ==
  /\ child[i].drain = "works"
  /\ child[i].proc = "dead"
  /\ child[i].reader = "done"
  /\ \E clean \in BOOLEAN : Send(ExitedEvent(i, clean))
  /\ child' = [child EXCEPT ![i].drain = "done"]

ChildStep(i) ==
  \/ SendStarted(i)
  \/ SendEntry(i)
  \/ EndReader(i)
  \/ Die(i)
  \/ Reap(i)

\* Threads run, and a reader of a dead process meets the end of its pipe.
ChildFairness(i) ==
  /\ WF_channel(SendStarted(i))
  /\ WF_channel(child[i].proc = "dead" /\ EndReader(i))
  /\ WF_channel(Reap(i))

===============================================================================
