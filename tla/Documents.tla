------------------------------ MODULE Documents -------------------------------
(***************************************************************************)
(* From the rows on screen to a file and back: the retained rows of the    *)
(* live capture (main.rs, LogStore, CaptureFacts), a file job on its own   *)
(* thread (file_ui.rs) that saves or exports what is shown, or opens a     *)
(* file, the document it works on (document.rs, DocumentCodec) and the     *)
(* publication of a new file (file_io.rs).                                 *)
(*                                                                         *)
(* A saved file meets what files meet: another process may create one      *)
(* under the same name, lose, repeat, reorder, append or cut lines of it,  *)
(* and the application may be killed at any moment.                        *)
(*                                                                         *)
(* The capture is an environment here: its attempts start, end, fail and   *)
(* discard in any order the controller allows (LiveCapture).  A stop asked *)
(* for between two attempts follows an interruption, which is a gap        *)
(* already, and is left out.  How an opened file replaces the live view is *)
(* SourceReplace's; here it does so once the capture has stopped.  The     *)
(* memory budget of a load is one of the reasons a job may fail.           *)
(***************************************************************************)
EXTENDS LogStore, CaptureFacts, DocumentCodec

CONSTANTS
  Budget, Target,   \* memory_budget_bytes and nine tenths of it
  LiveRows,         \* rows the device may send, without identity
  Specs,            \* filters: each the texts it selects
  Paths,
  Foreign,          \* files other processes may put there, as lines
  MaxJobs,          \* of the model: file jobs asked for
  MaxSaves,         \* of the model: ... of them, of the live view
  MaxBeside         \* of the model: files put or damaged, crashes, and live steps beside jobs

HeaderLine(header) == [line |-> "document", header |-> header]
RecordLine(record) == [line |-> "record", record |-> record]
EndLine(end) == [line |-> "artifact_end", end |-> end]
TornLine == [line |-> "torn"]

\* A line of a file that a reader can take apart, or one that it cannot.
FileLines ==
  [line : {"document"}, header : Headers] \cup [line : {"artifact_end"}, end : Ends]
    \cup [line : {"record"}, record : WireLines \cup CompactLines] \cup {TornLine}

\* The desktop application receives text: rows without protobuf evidence, whose
\* process, if any, is from a snapshot of ps.
ASSUME DocumentsAssumption ==
  /\ {Budget, Target, MaxJobs, MaxSaves, MaxBeside} \subseteq Nat
  /\ Target <= Budget
  /\ MaxSeq \in Nat /\ Texts \subseteq DOMAIN TextBytes
  /\ \E session \in Sessions : Sessions = {session}
  /\ \A row \in LiveRows :
       /\ row \in Entries /\ row.identity = {} /\ row.proto = {}
       /\ SourceFits(row, [process_source |-> {}])
  /\ Specs \subseteq SUBSET Texts
  /\ Foreign \subseteq Seq(FileLines)

VARIABLES
  live,     \* the capture and the view of it
  sent,     \* history: the rows received since the view was cleared
  broken,   \* history: what happened to the session's capture
  opened,   \* Files::document, at most one, and the lines it was read from
  job,      \* Files::job, at most one
  disk,     \* of each path: the lines of its file, none if there is no file
  saved,    \* history, of each path: what was asked to be saved there
  counts    \* of the model

vars == <<live, sent, broken, opened, job, disk, saved, counts>>

Only(option) == CHOOSE x \in option : TRUE

-------------------------------------------------------------------------------
(* Documents.                                                              *)

Document(header, entries, metadata, end) ==
  [header |-> header, entries |-> entries, metadata |-> metadata, end |-> end]

EntriesOf(document) == Rows(document.entries)

\* validate_cancellable and validate_encoded_cancellable
IsValid(document) ==
  LET entries == EntriesOf(document)
      metadata == document.metadata
  IN /\ HeaderIsValid(document.header)
     /\ Len(entries) = Len(metadata)
     /\ \A k \in DOMAIN entries :
          /\ RowFits(document.header, entries[k], metadata[k],
                     IF k = 1 THEN 0 ELSE metadata[k - 1].seq)
          /\ EncodeRecord(document.header, entries[k], metadata[k]) # {}
     /\ EndIsValid(document.header, document.end, Len(metadata), First(metadata),
                   Final(metadata))

PlainMeta(entry) ==
  [seq |-> Only(entry.identity).seq,
   event_kind |-> IF entry.kind = "marker" THEN {"logcat_marker"} ELSE {},
   process_source |-> {}, ext |-> {}, reserved |-> FALSE]

\* from_snapshot_cancellable: at most one document.
FromSnapshot(snapshot) ==
  LET entries == Rows(snapshot.entries)
      metadata == [k \in DOMAIN entries |-> PlainMeta(entries[k])]
      scope == [snapshot.scope EXCEPT !.first = First(metadata), !.last = Final(metadata),
                                      !.count = Len(metadata)]
      document == Document(snapshot.header, snapshot.entries, metadata,
                           MakeEnd(snapshot.header, metadata, scope, snapshot.capture))
  IN IF \E k \in DOMAIN entries : entries[k].identity = {} THEN {}
     ELSE {d \in {document} : IsValid(d)}

\* The indices of the rows of a store that spec selects, and a store of the rows
\* at some indices.
IndicesOf(store, spec) ==
  Joined([k \in 1 .. store.len |-> IF At(store, k - 1).text \in spec THEN <<k - 1>> ELSE <<>>])

RowsAt(store, indices) ==
  LET rows[n \in 0 .. Len(indices)] ==
        IF n = 0 THEN NewStore ELSE Push(rows[n - 1], At(store, indices[n]))
  IN rows[Len(indices)]

\* Mutant: an export counts what it selected as its source.
SelectedOfItself(document, spec, artifact) ==
  LET indices == IndicesOf(document.entries, spec)
      metadata == [k \in DOMAIN indices |-> document.metadata[indices[k] + 1]]
      header == [document.header EXCEPT !.derived = {document.header.artifact},
                                        !.artifact = artifact]
      scope == [document.end.scope EXCEPT !.kind = "filtered", !.filter = Append(@, spec),
                  !.count = Len(metadata)]
      result == Document(header, RowsAt(document.entries, indices), metadata,
                         MakeEnd(header, metadata, scope, document.end.capture))
  IN {d \in {result} : IsValid(d)}

\* select_cancellable with the indices of the rows that spec selects.
Selected(document, spec, artifact) ==
  LET indices == IndicesOf(document.entries, spec)
      metadata == [k \in DOMAIN indices |-> document.metadata[indices[k] + 1]]
      header == [document.header EXCEPT !.derived = {document.header.artifact},
                                        !.artifact = artifact]
      scope == [document.end.scope EXCEPT !.kind = "filtered", !.filter = Append(@, spec)]
      result == Document(header, RowsAt(document.entries, indices), metadata,
                         MakeEnd(header, metadata, scope, document.end.capture))
  IN {d \in {result} : IsValid(d)}

\* write_snapshot: the lines, in the order they are written.
Lines(document) ==
  LET entries == EntriesOf(document)
      Record(k) == RecordLine(Layout(entries[k], document.metadata[k]))
  IN <<HeaderLine(document.header)>> \o [k \in DOMAIN entries |-> Record(k)]
       \o <<EndLine(document.end)>>

\* load: a reader that has seen some lines and accepts one more.
Unread == [ok |-> TRUE, header |-> {}, footer |-> {}, store |-> NewStore, metadata |-> <<>>]

\* Mutant: what follows the footer is not looked at.
ReadToFooter(reader, line) ==
  IF reader.footer # {} \/ ~reader.ok THEN reader
  ELSE IF reader.header = {} THEN
    IF line.line = "document" /\ HeaderIsValid(line.header)
    THEN [reader EXCEPT !.header = {line.header}] ELSE [reader EXCEPT !.ok = FALSE]
  ELSE IF line.line = "artifact_end" THEN [reader EXCEPT !.footer = {line.end}]
  ELSE LET rows == IF line.line # "record" THEN {}
                   ELSE DecodeRecord(line.record, Only(reader.header), 0)
       IN IF rows = {} THEN [reader EXCEPT !.ok = FALSE]
          ELSE [reader EXCEPT !.store = Push(@, Only(rows).entry),
                              !.metadata = Append(@, Only(rows).meta)]

Read(reader, line) ==
  LET header == Only(reader.header)
      previous == IF reader.metadata = <<>> THEN 0 ELSE Last(reader.metadata).seq
      rows == IF line.line # "record" THEN {} ELSE DecodeRecord(line.record, header, previous)
      refused == [reader EXCEPT !.ok = FALSE]
  IN IF ~reader.ok \/ reader.footer # {} THEN refused
     ELSE IF reader.header = {} THEN
       IF line.line = "document" /\ HeaderIsValid(line.header)
       THEN [reader EXCEPT !.header = {line.header}] ELSE refused
     ELSE IF line.line = "artifact_end" THEN
       IF EndIsValid(header, line.end, line.end.record_count, line.end.first_seq,
                     line.end.last_seq)
       THEN [reader EXCEPT !.footer = {line.end}] ELSE refused
     ELSE IF rows = {} THEN refused
     ELSE [reader EXCEPT !.store = Push(@, Only(rows).entry),
                         !.metadata = Append(@, Only(rows).meta)]

ReadAll(lines) ==
  LET reader[n \in 0 .. Len(lines)] == IF n = 0 THEN Unread ELSE Read(reader[n - 1], lines[n])
  IN reader[Len(lines)]

Load(lines) ==
  LET reader == ReadAll(lines)
      header == Only(reader.header)
      end == Only(reader.footer)
  IN IF /\ reader.ok /\ reader.header # {} /\ reader.footer # {}
        /\ EndIsValid(header, end, Len(reader.metadata), First(reader.metadata),
                      Final(reader.metadata))
     THEN {Document(header, reader.store, reader.metadata, end)}
     ELSE {}

-------------------------------------------------------------------------------
(* The live view.                                                          *)

NewLive ==
  [store |-> NewStore, last_seq |-> 0, phase |-> "idle", stopping |-> FALSE, facts |-> NewFacts]

NewHistory == [streamed |-> FALSE, gap |-> FALSE]

\* A step of the capture or of the view, never while a file is shown; of the model,
\* before or beside jobs.
LiveStep ==
  /\ opened = {}
  /\ counts.jobs = 0 \/ (job # {} /\ counts.beside < MaxBeside)
  /\ counts' = IF counts.jobs = 0 THEN counts ELSE [counts EXCEPT !.beside = @ + 1]
  /\ UNCHANGED <<opened, job, disk, saved>>

\* advance_capture
Begin ==
  /\ live.phase = "idle"
  /\ live' = [live EXCEPT !.phase = "attempt", !.facts = BeginAttempt(@)]
  /\ broken' = [broken EXCEPT !.gap = @ \/ broken.streamed]
  /\ LiveStep /\ UNCHANGED sent

\* Started, also after a stop was asked for.
Start ==
  /\ live.phase = "attempt"
  /\ live' = [live EXCEPT !.phase = "streaming", !.facts = StreamStarted(@)]
  /\ broken' = [broken EXCEPT !.streamed = TRUE]
  /\ LiveStep /\ UNCHANGED sent

\* set_capture_intent, stop_snapshot_if_limited
Stop ==
  /\ live.phase # "idle" /\ ~live.stopping
  /\ live' = [live EXCEPT !.stopping = TRUE, !.facts = StopRequested(@)]
  /\ LiveStep /\ UNCHANGED <<sent, broken>>

\* Exited; a finite scope that ended well and was not stopped has completed.
Exit(completed) ==
  /\ live.phase # "idle" /\ (completed => ~live.stopping)
  /\ LET facts == IF completed THEN SnapshotCompleted(live.facts) ELSE live.facts
     IN live' = [live EXCEPT !.phase = "idle", !.stopping = FALSE, !.facts = FactsExited(facts)]
  /\ broken' = [broken EXCEPT !.gap = \/ @
                                      \/ live.phase # "streaming"
                                      \/ ~live.stopping /\ ~completed]
  /\ LiveStep /\ UNCHANGED sent

\* halt_capture
Fault ==
  /\ live.phase # "idle"
  /\ live' = [live EXCEPT !.stopping = TRUE, !.facts = GapNoticed(@)]
  /\ broken' = [broken EXCEPT !.gap = TRUE]
  /\ LiveStep /\ UNCHANGED sent

\* A record beyond the budget of a finite scope; the first one stops it.
Discard ==
  /\ live.phase = "streaming"
  /\ LET facts == GapNoticed(live.facts)
     IN live' = [live EXCEPT !.stopping = TRUE,
                             !.facts = IF live.stopping THEN facts ELSE StopRequested(facts)]
  /\ broken' = [broken EXCEPT !.gap = TRUE]
  /\ LiveStep /\ UNCHANGED sent

\* append_received_entry, trim_old_entries and rebase_after_trim
Received(l, entry) ==
  LET pushed == Push(l.store, entry)
      store == IF pushed.bytes > Budget THEN TrimToBytes(pushed, Target) ELSE pushed
  IN [l EXCEPT !.last_seq = @ + 1, !.store = store,
               !.facts = RetentionRemoved(@, pushed.len - store.len)]

Receive ==
  /\ live.phase = "streaming" /\ live.last_seq < MaxSeq
  /\ \E row \in LiveRows, session \in Sessions :
       LET identity == [session |-> session, seq |-> live.last_seq + 1, in_order |-> TRUE]
           entry == [row EXCEPT !.identity = {identity}]
       IN live' = Received(live, entry) /\ sent' = Append(sent, entry)
  /\ LiveStep /\ UNCHANGED broken

\* clear_logs by the user
Clear ==
  /\ live.store.len > 0
  /\ live' = [live EXCEPT !.store = NewStore, !.facts = ViewCleared(@, live.store.len)]
  /\ sent' = <<>>
  /\ LiveStep /\ UNCHANGED broken

-------------------------------------------------------------------------------
(* File jobs.                                                              *)

\* The rows on screen, by the history of what was received.
Shown == SubSeq(sent, Len(sent) - live.store.len + 1, Len(sent))

\* snapshot_for_save of the live view, with the name of the new artifact.
LiveSnapshot(artifact) ==
  [header |-> [artifact |-> artifact, session |-> Sessions, derived |-> {}, current |-> TRUE],
   entries |-> live.store,
   scope |-> [kind |-> "retained", first |-> {}, last |-> {}, count |-> 0,
              omitted |-> {live.last_seq - live.store.len}, filter |-> <<>>,
              removed |-> live.facts.retention_removed,
              cleared |-> live.facts.cleared_records],
   capture |-> Completeness(live.facts)]

\* What is asked for: the rows, the lines if they are known, whether the
\* capture had a gap, and the filters that applied.
Order(rows, lines, gap, filters, omitted) ==
  [rows |-> rows, lines |-> lines, gap |-> gap, filters |-> filters, omitted |-> omitted,
   intact |-> TRUE]

Chosen(rows, spec) ==
  Joined([k \in DOMAIN rows |->
            IF spec = {} \/ rows[k].text \in Only(spec) THEN <<rows[k]>> ELSE <<>>])

Asked(spec) ==
  IF opened = {}
  THEN Order(Chosen(Shown, spec), <<>>, broken.gap,
             IF spec = {} THEN <<>> ELSE <<Only(spec)>>, {live.last_seq - Len(Shown)})
  ELSE LET from == Only(opened)
           end == from.document.end
       IN Order(Chosen(EntriesOf(from.document), spec),
                IF spec = {} THEN from.lines ELSE <<>>, end.capture = "partial",
                IF spec = {} THEN end.scope.filter ELSE Append(end.scope.filter, Only(spec)),
                end.scope.omitted)

NewJob(action, path, source, spec, order) ==
  [action |-> action, path |-> path, source |-> source, spec |-> spec, order |-> order,
   pc |-> "begin", lines |-> <<>>, written |-> 0, cancelled |-> FALSE]

Asks(new) ==
  /\ job = {} /\ counts.jobs < MaxJobs
  /\ job' = {new}
  /\ counts' = [counts EXCEPT !.jobs = @ + 1, !.saves = @ + One(new.action = "save")]
  /\ UNCHANGED <<live, sent, broken, opened, disk, saved>>

\* start_file_job: the snapshot is taken here, not in the thread.  A live
\* capture can be saved once it has a device.
Save ==
  \E path \in Paths, spec \in AtMostOne(Specs) :
    LET source == IF opened = {} THEN LiveSnapshot(counts.jobs)
                  ELSE Only(opened).document
    IN /\ opened = {} => counts.saves < MaxSaves
       /\ Asks(NewJob(IF opened = {} THEN "save" ELSE "copy", path, source, spec, Asked(spec)))

Open == \E path \in Paths : disk[path] # <<>> /\ Asks(NewJob("open", path, {}, {}, {}))

Cancel ==
  /\ \E j \in job : ~j.cancelled /\ job' = {[j EXCEPT !.cancelled = TRUE]}
  /\ UNCHANGED <<live, sent, broken, opened, disk, saved, counts>>

Works(j) ==
  /\ job' = {j}
  /\ UNCHANGED <<live, sent, broken, opened, disk, saved, counts>>

\* The document a save or an export writes: at most one.
Built(j) ==
  LET whole == IF j.action = "save" THEN FromSnapshot(j.source) ELSE {j.source}
  IN IF whole = {} \/ j.spec = {} THEN whole
     ELSE Selected(Only(whole), Only(j.spec), MaxJobs + counts.jobs)

Build ==
  \E j \in job :
    /\ j.pc = "begin" /\ j.action # "open" /\ ~j.cancelled
    /\ LET built == Built(j)
       IN Works(IF built = {} THEN [j EXCEPT !.pc = "refused"]
                ELSE [j EXCEPT !.pc = "create", !.lines = Lines(Only(built))])

\* write_new_file up to the temporary file
CreateTemporary ==
  \E j \in job :
    /\ j.pc = "create" /\ ~j.cancelled
    /\ Works([j EXCEPT !.pc = IF disk[j.path] # <<>> THEN "failed" ELSE "write"])

\* write, all of its lines: where in them it fails or is cancelled makes no
\* difference, the temporary file is removed.
WriteLines ==
  \E j \in job :
    /\ j.pc = "write" /\ ~j.cancelled /\ j.written < Len(j.lines)
    /\ Works([j EXCEPT !.written = Len(j.lines)])

\* flush, sync_all and the last look at the cancellation
Sync ==
  \E j \in job :
    /\ j.pc = "write" /\ ~j.cancelled /\ j.written = Len(j.lines)
    /\ Works([j EXCEPT !.pc = "link"])

Published(j) ==
  /\ disk' = [disk EXCEPT ![j.path] = SubSeq(j.lines, 1, j.written)]
  /\ saved' = [saved EXCEPT ![j.path] = {j.order}]
  /\ job' = {[j EXCEPT !.pc = "done"]}
  /\ UNCHANGED <<live, sent, broken, opened, counts>>

\* Mutant: rename, which replaces what is there.
Rename == \E j \in job : j.pc = "link" /\ Published(j)

\* hard_link, which does not replace a file that appeared meanwhile
HardLink ==
  \E j \in job :
    /\ j.pc = "link"
    /\ IF disk[j.path] = <<>> THEN Published(j) ELSE Works([j EXCEPT !.pc = "failed"])

LoadFile ==
  \E j \in job :
    /\ j.pc = "begin" /\ j.action = "open" /\ ~j.cancelled
    /\ LET loaded == Load(disk[j.path])
       IN Works(IF loaded = {} THEN [j EXCEPT !.pc = "failed"]
                ELSE [j EXCEPT !.pc = "done", !.source = loaded, !.lines = disk[j.path]])

\* The cancellation is seen at the next look at it; an error can come anywhere
\* before the link and at it.
GiveUp ==
  \E j \in job : j.pc \in {"begin", "create", "write", "link"} /\ Works([j EXCEPT !.pc = "failed"])

Finished(j) == j.pc \in {"done", "failed", "refused"}

Replaced(document) ==
  /\ live' = NewLive /\ sent' = <<>> /\ broken' = NewHistory
  /\ opened' = document
  /\ job' = {}
  /\ UNCHANGED <<disk, saved, counts>>

\* poll_files, and install_candidate once the user chose and the capture ended
PollFiles ==
  \E j \in job :
    /\ Finished(j)
    /\ IF j.action = "open" /\ j.pc = "done" /\ ~j.cancelled
       THEN /\ live.phase = "idle"
            /\ Replaced({[document |-> Only(j.source), lines |-> j.lines]})
       ELSE job' = {} /\ UNCHANGED <<live, sent, broken, opened, disk, saved, counts>>

CloseFile == opened # {} /\ job = {} /\ Replaced({})

-------------------------------------------------------------------------------
(* What happens to files and to the application.                           *)

Meddles ==
  /\ counts.beside < MaxBeside
  /\ counts' = [counts EXCEPT !.beside = @ + 1]
  /\ UNCHANGED <<live, sent, broken, opened, job>>

\* Another process creates a file: of the model, before the capture or once a
\* job was asked for.
PutFile ==
  /\ counts.jobs > 0 \/ live = NewLive
  /\ \E path \in Paths, lines \in Foreign :
       /\ disk[path] = <<>>
       /\ disk' = [disk EXCEPT ![path] = lines]
  /\ Meddles /\ UNCHANGED saved

Swapped(lines, k) == [lines EXCEPT ![k] = lines[k + 1], ![k + 1] = lines[k]]

\* Files in which a line was lost, repeated, exchanged with the next one, cut,
\* or put after the end.
Damages(lines) ==
  LET n == Len(lines)
  IN {RemoveAt(lines, k) : k \in 1 .. n}
       \cup {InsertAt(lines, k, lines[k]) : k \in 1 .. n}
       \cup {Swapped(lines, k) : k \in 1 .. n - 1}
       \cup {Append(SubSeq(lines, 1, k - 1), TornLine) : k \in 1 .. n}
       \cup {Append(lines, lines[k]) : k \in 1 .. n}

Damage ==
  \E path \in Paths, order \in UNION Range(saved) :
    /\ saved[path] = {order} /\ order.intact
    /\ \E lines \in Damages(disk[path]) \ {<<>>} :
         disk' = [disk EXCEPT ![path] = lines]
    /\ saved' = [saved EXCEPT ![path] = {[order EXCEPT !.intact = FALSE]}]
    /\ Meddles

\* The application is killed and started again: only files survive, and a
\* temporary file that nothing reads.
Crash ==
  /\ job # {} /\ counts.beside < MaxBeside
  /\ live' = NewLive /\ sent' = <<>> /\ broken' = NewHistory
  /\ opened' = {} /\ job' = {}
  /\ counts' = [counts EXCEPT !.beside = @ + 1]
  /\ UNCHANGED <<disk, saved>>

Init ==
  /\ live = NewLive /\ sent = <<>> /\ broken = NewHistory
  /\ opened = {} /\ job = {}
  /\ disk = [path \in Paths |-> <<>>]
  /\ saved = [path \in Paths |-> {}]
  /\ counts = [jobs |-> 0, saves |-> 0, beside |-> 0]

Next ==
  \/ Begin \/ Start \/ Stop \/ (\E completed \in BOOLEAN : Exit(completed)) \/ Fault \/ Discard
  \/ Receive \/ Clear
  \/ Save \/ Open \/ Cancel \/ Build \/ CreateTemporary \/ WriteLines \/ Sync \/ HardLink
  \/ LoadFile \/ GiveUp \/ PollFiles \/ CloseFile
  \/ PutFile \/ Damage \/ Crash

Spec == Init /\ [][Next]_vars

-------------------------------------------------------------------------------
(* Properties.                                                             *)

\* Trimming to a budget takes rows from the front, whole chunks and parts of
\* one: what is left is what was received last, an index still refers to the row
\* it referred to, every counter is that of the rows that are left, the budget
\* holds after each record, and what is missing of the session is accounted for.
StoreIsExact ==
  LET store == live.store IN
  /\ IndexIsExact(store)
  /\ CountersAreExact(store)
  /\ FindsNearest(store)
  /\ Rows(store) = Shown
  /\ store.bytes <= Budget
  /\ live.last_seq - store.len = live.facts.retention_removed + live.facts.cleared_records

\* A file that was saved loads again, as the rows that were shown when it was
\* asked for and with what was left out of them, whatever the capture, the view
\* and other files did before it was there.  A copy of an opened file is the file,
\* what newer writers put into it included.  No snapshot and no selection is
\* refused as an invalid document: not an empty one, one of a trimmed view or one
\* of a file that was itself a selection.
SavedIsTheSnapshot ==
  /\ \A j \in job : j.pc # "refused"
  /\ \A path \in Paths : \A order \in saved[path] :
       order.intact => \E document \in Load(disk[path]) :
         /\ EntriesOf(document) = order.rows
         /\ document.end.scope.filter = order.filters
         /\ document.end.scope.omitted = order.omitted
         /\ order.lines # <<>> => disk[path] = order.lines

\* Under its name a file is there at once and whole, or it is not there: a job
\* that fails, is cancelled or is killed leaves nothing, and a file that another
\* process created meanwhile is not replaced.
OnlyWholeFilesAppear ==
  [][\A path \in Paths :
       disk'[path] # disk[path] =>
         \/ counts'.beside # counts.beside
         \/ disk[path] = <<>> /\ Load(disk'[path]) # {}]_vars

\* A saved file that lost, repeated or exchanged a line, was cut or got a line
\* more is not shown as a document.
DamagedNeverLoads ==
  \A path \in Paths : \A order \in saved[path] : ~order.intact => Load(disk[path]) = {}

\* The application, and every document it saved, call the capture partial exactly
\* if something was or may have been missed: an attempt that failed, was
\* interrupted or resumed after a pause, a fault, a discarded record.
GapsAreTold ==
  /\ Completeness(live.facts) = "partial" <=> broken.gap
  /\ \A path \in Paths : \A order \in saved[path] :
       order.intact => \A document \in Load(disk[path]) :
         document.end.capture = "partial" <=> order.gap
===============================================================================
