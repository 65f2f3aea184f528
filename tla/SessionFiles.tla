----------------------------- MODULE SessionFiles -----------------------------
(***************************************************************************)
(* The files through which the processes of one recorded session meet      *)
(* (src/src/cli/mod.rs, cli/session_management.rs): the starter, its       *)
(* worker and one started twice by mistake, and the commands status, stop  *)
(* and stop --force, run by anyone at any time.  There is no lock between  *)
(* them but files that only one process can create.                        *)
(*                                                                         *)
(* A step is one access to the directory.  A process may stand still       *)
(* between any two of its steps, and a worker may be killed.  Writing or   *)
(* renaming may fail.  The recorder's loop is CaptureRun's subject; here   *)
(* it flushes records and publishes its status.                            *)
(*                                                                         *)
(* Left out: readiness, the age that turns a silent status into "unknown"  *)
(* (which is no final state either), invalid files, diagnostics.           *)
(***************************************************************************)
EXTENDS Naturals, FiniteSets

CONSTANTS
  Workers,     \* processes started with __worker
  Clients,     \* processes that run status or stop
  MaxEntries   \* of the model: records the session flushes

ASSUME SessionFilesAssumption == MaxEntries \in Nat

VARIABLES
  files,     \* the session directory
  flushed,   \* records in logs.jsonl
  starter,   \* the process of the start command
  worker,    \* of each worker: where it is, and its Status in memory
  client,    \* of each client: where it is, and what it read
  reported   \* of the model: final statuses that were returned to anyone

vars == <<files, flushed, starter, worker, client, reported>>

\* state: "active" is starting, running or reconnecting.
Status(state, entries) == [state |-> state, entries |-> entries]

Final(status) == status.state \in {"completed", "failed", "abandoned"}

\* closure_status: the snapshot of a closure, whatever its state was.
Abandoned(snapshot) == Status("abandoned", snapshot.entries)

\* What read_effective returns if nothing changes meanwhile.
Effective ==
  IF files.closure = {} THEN files.status
  ELSE CHOOSE closed \in {Abandoned(s) : s \in files.closure} : TRUE

-------------------------------------------------------------------------------
(* write_status, in the two steps between which others see status.next.    *)

\* status.next is created, which fails if it exists, and written; a failed write
\* leaves it there, and no later status can be written.
Prepares(Ready, Refused) ==
  \/ ~files.next /\ files' = [files EXCEPT !.next = TRUE] /\ (Ready \/ Refused)
  \/ UNCHANGED files /\ Refused

Replaces(status, Done, Refused) ==
  \/ files' = [files EXCEPT !.next = FALSE, !.status = status] /\ Done
  \/ files' = [files EXCEPT !.next = FALSE] /\ Refused

-------------------------------------------------------------------------------
(* start                                                                   *)

StarterAt(pc) == starter' = pc

\* The directory is new: nobody else is there before the worker is spawned.
Spawn ==
  /\ starter = "spawn"
  /\ \/ /\ StarterAt("waiting")
        /\ \E w \in Workers : worker' = [worker EXCEPT ![w].pc = "lock"]
     \/ StarterAt("refused") /\ UNCHANGED worker
  /\ UNCHANGED <<files, flushed, client, reported>>

SpawnFailed ==
  /\ \/ starter = "refused" /\ Prepares(StarterAt("prepared"), StarterAt("ended"))
     \/ /\ starter = "prepared"
        /\ Replaces(Status("failed", 0), StarterAt("ended"), StarterAt("ended"))
  /\ UNCHANGED <<flushed, worker, client, reported>>

\* Waiting for readiness takes too long.  It changes nothing when it ends well.
StarterTimesOut ==
  /\ starter = "waiting"
  /\ StarterAt("ended")
  /\ files' = [files EXCEPT !.stop = TRUE]
  /\ UNCHANGED <<flushed, worker, client, reported>>

-------------------------------------------------------------------------------
(* __worker                                                                *)

Idle(pc) == [pc |-> pc, status |-> Status("active", 0), writing |-> FALSE, failed |-> FALSE]

\* The end of the process ends its writer thread too.
At(w, pc) ==
  worker' = [worker EXCEPT ![w] = IF pc = "ended" THEN Idle(pc) ELSE [worker[w] EXCEPT !.pc = pc]]

WorkerStep(w, pc) == worker[w].pc = pc /\ UNCHANGED <<starter, client, reported>>

\* Someone runs the worker of the same directory again.
StartAgain(w) ==
  /\ starter # "spawn"
  /\ \E other \in Workers : worker[other].pc # "none"
  /\ WorkerStep(w, "none")
  /\ At(w, "lock")
  /\ UNCHANGED <<files, flushed>>

\* Mutant: a duplicate worker publishes that it failed.
TakeLockOrFail(w) ==
  /\ WorkerStep(w, "lock")
  /\ IF files.lock THEN UNCHANGED files /\ At(w, "failed")
     ELSE files' = [files EXCEPT !.lock = TRUE] /\ At(w, "open")
  /\ UNCHANGED flushed

TakeLock(w) ==
  /\ WorkerStep(w, "lock")
  /\ IF files.lock THEN UNCHANGED files /\ At(w, "ended")
     ELSE files' = [files EXCEPT !.lock = TRUE] /\ At(w, "open")
  /\ UNCHANGED flushed

\* The configuration is read, and logs.jsonl created; either may fail.
OpenLogs(w) ==
  /\ WorkerStep(w, "open")
  /\ \/ worker' = [worker EXCEPT ![w] = [pc |-> "run", status |-> Status("active", 0),
                                         writing |-> TRUE, failed |-> FALSE]]
     \/ At(w, "failed")
  /\ UNCHANGED <<files, flushed>>

\* The writer thread; nobody waits for it to end when the capture failed.
Flush(w) ==
  /\ worker[w].writing
  /\ flushed < MaxEntries
  /\ flushed' = flushed + 1
  /\ UNCHANGED <<files, starter, worker, client, reported>>

\* One turn of the recorder's loop up to its heartbeat.  A stop file or a known
\* failure makes it stop, or a reason of its own; it may fail now.
Turn(w) ==
  /\ WorkerStep(w, "run")
  /\ \E state \in {"active", "stopping"}, failed \in {worker[w].failed, TRUE} :
       /\ files.stop \/ worker[w].failed \/ worker[w].status.state = "stopping" =>
            state = "stopping"
       /\ worker' = [worker EXCEPT ![w].status = Status(state, worker[w].status.entries),
                                   ![w].failed = failed]
  /\ UNCHANGED <<files, flushed>>

\* A heartbeat publishes what is flushed; a failed one fails the capture.
Heartbeat(w) ==
  /\ WorkerStep(w, "run")
  /\ LET seen == [worker EXCEPT ![w].status.entries = flushed]
     IN Prepares(worker' = [seen EXCEPT ![w].pc = "beat"],
                 worker' = [seen EXCEPT ![w].failed = TRUE])
  /\ UNCHANGED flushed

HeartbeatReplaces(w) ==
  /\ WorkerStep(w, "beat")
  /\ Replaces(worker[w].status, At(w, "run"),
              worker' = [worker EXCEPT ![w].pc = "run", ![w].failed = TRUE])
  /\ UNCHANGED flushed

\* The loop is left, the footer written and the writer joined, or a failure
\* known; then the final status is written.
Finalize(w) ==
  /\ WorkerStep(w, "run")
  /\ worker[w].status.state = "stopping"
  /\ \E failed \in {worker[w].failed, TRUE}, joined \in BOOLEAN :
       /\ ~failed => joined
       /\ LET state == IF failed THEN "failed" ELSE "completed"
          IN worker' = [worker EXCEPT ![w] = [pc |-> "final", status |-> Status(state, flushed),
                                              writing |-> ~joined, failed |-> failed]]
  /\ UNCHANGED <<files, flushed>>

FinalPrepares(w) ==
  /\ WorkerStep(w, "final")
  /\ Prepares(At(w, "publish"), At(w, "failed"))
  /\ UNCHANGED flushed

\* run returns an error if the capture failed or was interrupted.
FinalReplaces(w) ==
  /\ WorkerStep(w, "publish")
  /\ Replaces(worker[w].status,
              At(w, "failed") \/ (~worker[w].failed /\ At(w, "ended")), At(w, "failed"))
  /\ UNCHANGED flushed

\* Mutant: the failure replaces whatever status is there.
PublishFailureAlways(w) ==
  /\ WorkerStep(w, "failed")
  /\ Prepares(worker' = [worker EXCEPT ![w].pc = "last",
                                       ![w].status = Status("failed", Effective.entries)],
              At(w, "ended"))
  /\ UNCHANGED flushed

\* An error of the capture is published unless a final status is there.  What
\* the status file holds is read first, in steps that LookAgain has as well:
\* that they amount to one is ReadsAreEffective.
PublishFailure(w) ==
  /\ WorkerStep(w, "failed")
  /\ IF Final(Effective) THEN At(w, "ended") /\ UNCHANGED files
     ELSE Prepares(worker' = [worker EXCEPT ![w].pc = "last",
                                            ![w].status = Status("failed", Effective.entries)],
                   At(w, "ended"))
  /\ UNCHANGED flushed

FailureReplaces(w) ==
  /\ WorkerStep(w, "last")
  /\ Replaces(worker[w].status, At(w, "ended"), At(w, "ended"))
  /\ UNCHANGED flushed

Crash(w) ==
  /\ worker[w].pc \notin {"none", "ended"}
  /\ At(w, "ended")
  /\ UNCHANGED <<files, flushed, starter, client, reported>>

-------------------------------------------------------------------------------
(* status, stop and stop --force                                           *)

ClientStep(c, look) ==
  /\ client[c].look = look
  /\ client[c].pc # "ended"
  /\ starter # "spawn"
  /\ UNCHANGED <<flushed, starter, worker>>

\* What a client does with the status it has read.
Goes(c, pc, status) ==
  /\ LET was == client[c]
         first == was.held = {}
     IN client' = [client EXCEPT ![c] =
          [pc |-> pc, look |-> IF pc \in {"mark", "link"} THEN "act" ELSE "closure",
           held |-> {}, result |-> {status},
           effective |-> {Effective'} \cup IF first THEN {} ELSE was.effective,
           before |-> IF first THEN reported ELSE was.before,
           snapshot |-> IF pc = "recheck" THEN {status} ELSE was.snapshot]]
  /\ reported' = IF Final(status) THEN reported \cup {status} ELSE reported

\* check: status returns what it reads, stop goes on; wait: the loop goes on, or
\* the time is over, and stop ends or forces a closure; close: the temporary
\* file of the closure may fail.
Returns(c, status) ==
  \E next \in
       IF Final(status) THEN {"ended"}
       ELSE CASE client[c].pc = "check" -> {"mark", "ended"}
              [] client[c].pc = "wait" -> {"wait", "close", "ended"}
              [] client[c].pc = "close" -> {"recheck", "ended"}
              [] client[c].pc = "recheck" -> {"link"} :
    Goes(c, next, status)

\* read_effective looks for a closure, reads the status, and looks again.
LookForClosure(c) ==
  /\ ClientStep(c, "closure")
  /\ UNCHANGED files
  /\ IF files.closure # {} THEN Returns(c, Effective)
     ELSE /\ client' = [client EXCEPT ![c].look = "status", ![c].before = reported,
                                      ![c].result = {}, ![c].effective = {}]
          /\ UNCHANGED reported

ReadStatus(c) ==
  /\ ClientStep(c, "status")
  /\ client' = [client EXCEPT ![c].look = "again", ![c].held = {files.status},
                              ![c].effective = {Effective}]
  /\ UNCHANGED <<files, reported>>

\* Mutant: the status that was read is returned without another look.
LookAgainNever(c) ==
  /\ ClientStep(c, "again")
  /\ UNCHANGED files
  /\ \E status \in client[c].held : Returns(c, status)

LookAgain(c) ==
  /\ ClientStep(c, "again")
  /\ UNCHANGED files
  /\ \E status \in IF files.closure # {} THEN {Effective} ELSE client[c].held : Returns(c, status)

\* The stop file is created unless it exists.
MarkStop(c) ==
  /\ ClientStep(c, "act")
  /\ client[c].pc = "mark"
  /\ files' = [files EXCEPT !.stop = TRUE]
  /\ client' = [client EXCEPT ![c].pc = "wait", ![c].look = "closure"]
  /\ UNCHANGED reported

\* Mutant: the closer reports the snapshot it took itself.
LinkAndReportOwn(c) ==
  /\ ClientStep(c, "act")
  /\ client[c].pc = "link"
  /\ files' = [files EXCEPT !.closure = IF @ = {} THEN client[c].snapshot ELSE @]
  /\ \E snapshot \in client[c].snapshot : Goes(c, "ended", Abandoned(snapshot))

\* The hard link of a closure fails if there is one, whoever made it; what is
\* there then is reported, and never changes.
LinkClosure(c) ==
  /\ ClientStep(c, "act")
  /\ client[c].pc = "link"
  /\ files' = [files EXCEPT !.closure = IF @ = {} THEN client[c].snapshot ELSE @]
  /\ \E snapshot \in files'.closure : Goes(c, "ended", Abandoned(snapshot))

-------------------------------------------------------------------------------
Init ==
  /\ files = [status |-> Status("active", 0), next |-> FALSE, lock |-> FALSE,
              stop |-> FALSE, closure |-> {}]
  /\ flushed = 0
  /\ starter = "spawn"
  /\ worker = [w \in Workers |-> Idle("none")]
  /\ client = [c \in Clients |->
                [pc |-> "check", look |-> "closure", held |-> {},
                 snapshot |-> {}, result |-> {}, effective |-> {}, before |-> {}]]
  /\ reported = {}

WorkerNext(w) ==
  \/ StartAgain(w)
  \/ TakeLock(w)
  \/ OpenLogs(w)
  \/ Flush(w)
  \/ Turn(w)
  \/ Heartbeat(w)
  \/ HeartbeatReplaces(w)
  \/ Finalize(w)
  \/ FinalPrepares(w)
  \/ FinalReplaces(w)
  \/ PublishFailure(w)
  \/ FailureReplaces(w)
  \/ Crash(w)

ClientNext(c) ==
  \/ LookForClosure(c)
  \/ ReadStatus(c)
  \/ LookAgain(c)
  \/ MarkStop(c)
  \/ LinkClosure(c)

Next ==
  \/ Spawn
  \/ SpawnFailed
  \/ StarterTimesOut
  \/ \E w \in Workers : WorkerNext(w)
  \/ \E c \in Clients : ClientNext(c)

Spec == Init /\ [][Next]_vars

-------------------------------------------------------------------------------
(* Properties.                                                             *)

\* Whatever a command returns was in force at a moment of its read: a status
\* that a slow worker published after a closure is never returned, so nobody
\* reads beyond the frozen prefix (read_effective: "prefer a closure that won
\* while status.json was being read").
ReadsAreEffective ==
  \A c \in Clients : client[c].result \subseteq client[c].effective

\* Everyone who reports the session as closed reports the same closure, also
\* two forced stops at the same time ("atomic first-writer-wins publication").
ForcedStopsAgree ==
  \A c, d \in Clients :
    \A r \in client[c].result, s \in client[d].result :
      r.state = "abandoned" /\ s.state = "abandoned" => r = s

\* A final status that was returned to anyone is not taken back: later reads
\* return it, or a closure that was forced at the same time; a closure is the
\* last word ("Only the owner may publish failure", close_administratively).
FinalStaysFinal ==
  \A c \in Clients :
    \A r \in client[c].result :
      client[c].before # {} =>
        \/ r \in client[c].before
        \/ r.state = "abandoned" /\ \A s \in client[c].before : s.state # "abandoned"

\* When the status file says that the capture is over, no worker captures, and
\* a completed one counts every record of logs.jsonl - over crashes, failed
\* writes and a worker started twice.
FinalMeansOver ==
  Final(files.status) =>
    /\ \A w \in Workers : worker[w].pc \notin {"open", "run", "beat", "final"}
    /\ files.status.state = "completed" =>
         /\ files.status.entries = flushed
         /\ \A w \in Workers : ~worker[w].writing
    /\ files.status.entries <= flushed
===============================================================================
