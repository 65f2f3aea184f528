----------------------------- MODULE QuerySource ------------------------------
(***************************************************************************)
(* The archive a query reads (src/src/cli/query/source.rs), while others   *)
(* write, close, cut or replace it.  A recorder appends lines to the file  *)
(* and then publishes how far a reader may go; stop --force freezes what   *)
(* was published.  A reader opens the file, binds itself to its identity   *)
(* and reads no further than its fence.                                    *)
(*                                                                         *)
(* A line counts one: an offset is the number of lines before it, the      *)
(* hashed 64 bytes before an offset are the line that ends there, and the  *)
(* prefix that identifies a file is its first Prefix lines.  A hash is the *)
(* lines themselves.  Time is counted in records: each is received at the  *)
(* time that is its number.  How status, closure and recorder come about   *)
(* is the subject of SessionFiles and CaptureRun; here they take the steps *)
(* a reader can tell apart.  Left out: lines over a byte limit, files that *)
(* are no regular ones, the status fields that are only passed on.         *)
(***************************************************************************)
EXTENDS Naturals, Sequences, FiniteSets

CONSTANTS
  Prefix,       \* lines of the identity prefix (512 bytes)
  MaxRecords    \* of the model: records the session writes

ASSUME QuerySourceAssumption == Prefix \in Nat \ {0} /\ MaxRecords \in Nat

VARIABLES
  files,     \* the lines of each file, by its identity
  path,      \* the identity of the file that has the name
  status,    \* status.json
  closure,   \* the snapshot in management-closure.json, at most one
  closer,    \* the snapshot a stop --force is about to put there, at most one
  recorder,  \* where the worker of the session is
  harmed,    \* of the model: the file was cut or replaced
  history    \* of the model: all lines ever written, by artifact

sourceVars == <<files, path, status, closure, closer, recorder, harmed, history>>

Id == {1, 2}
Artifacts == {"recorded", "other"}

Line(kind, artifact, seq, count) ==
  [kind |-> kind, artifact |-> artifact, seq |-> seq, count |-> count]

Header(a) == Line("header", a, 0, 0)
Record(a, seq) == Line("record", a, seq, 0)
End(a, seq, count) == Line("end", a, seq, count)
Hole == Line("hole", "none", 0, 0)

Boundary(offset, seq) == [offset |-> offset, seq |-> seq]
Start == 1   \* data_start: the header is before it

\* What a loop over lines collects: those at the places of a set, in order.
Picked(lines, places) ==
  [k \in 1 .. Cardinality(places) |->
     lines[CHOOSE i \in places : Cardinality({j \in places : j <= i}) = k]]

Records(lines) == Picked(lines, {i \in DOMAIN lines : lines[i].kind = "record"})
Now == Len(Records(history["recorded"]))
LastSeq(lines) == IF Records(lines) = <<>> THEN 0 ELSE Records(lines)[Len(Records(lines))].seq

\* What a status publishes of these lines (progress in cli/capture.rs).
StatusOf(a, lines, final) ==
  [artifact |-> a, end |-> Boundary(Len(lines), LastSeq(lines)),
   entries |-> Len(Records(lines)), final |-> final]

\* read_effective_query_status: a closure goes first.
Effective == IF closure = {} THEN status ELSE CHOOSE closed \in closure : TRUE

\* A finished session of another artifact.
Other == <<Header("other"), Record("other", 1), Record("other", 2), End("other", 2, 2)>>

SourceInit ==
  /\ files = [id \in Id |-> IF id = 1 THEN <<Header("recorded")>> ELSE <<>>]
  /\ path = 1
  /\ status = StatusOf("recorded", <<>>, FALSE)
  /\ closure = {}
  /\ closer = {}
  /\ recorder = "running"
  /\ harmed = FALSE
  /\ history = [a \in Artifacts |-> IF a = "recorded" THEN <<Header(a)>> ELSE Other]

-------------------------------------------------------------------------------
(* Those who write                                                         *)

\* The recorder writes where it left off: what was cut before is a hole.
Extended(lines, line) ==
  [i \in 1 .. Len(history["recorded"]) + 1 |->
     IF i <= Len(lines) THEN lines[i]
     ELSE IF i <= Len(history["recorded"]) THEN Hole ELSE line]

Appends(line) ==
  /\ files' = [files EXCEPT ![1] = Extended(files[1], line)]
  /\ history' = [history EXCEPT !["recorded"] = Append(history["recorded"], line)]

AppendRecord ==
  /\ recorder = "running"
  /\ LET n == Len(Records(history["recorded"]))
     IN n < MaxRecords /\ Appends(Record("recorded", n + 1))
  /\ UNCHANGED <<path, status, closure, closer, recorder, harmed>>

AppendEnd ==
  /\ recorder = "running"
  /\ LET n == Len(Records(history["recorded"])) IN Appends(End("recorded", n, n))
  /\ recorder' = "ending"
  /\ UNCHANGED <<path, status, closure, closer, harmed>>

\* What is flushed is published, and the final status once the footer is.
PublishStatus ==
  /\ recorder \in {"running", "ending"}
  /\ status' = StatusOf("recorded", history["recorded"], recorder = "ending")
  /\ recorder' = IF recorder = "ending" THEN "ended" ELSE recorder
  /\ UNCHANGED <<files, path, closure, closer, harmed, history>>

RecorderDies ==
  /\ recorder \in {"running", "ending"}
  /\ recorder' = "ended"
  /\ UNCHANGED <<files, path, status, closure, closer, harmed, history>>

\* stop --force freezes the status it read, which may be an older one by then.
ReadToClose ==
  /\ closure = {} /\ closer = {}
  /\ ~status.final
  /\ closer' = {status}
  /\ UNCHANGED <<files, path, status, closure, recorder, harmed, history>>

LinkClosure ==
  /\ closer # {} /\ closure = {}
  /\ closure' = closer
  /\ UNCHANGED <<files, path, status, closer, recorder, harmed, history>>

\* Someone cuts the file, or puts another session where this one was; its file
\* may get the identity of one that is gone.
Cut ==
  /\ ~harmed
  /\ \E n \in 1 .. Len(files[path]) - 1 :
       files' = [files EXCEPT ![path] = SubSeq(files[path], 1, n)]
  /\ harmed' = TRUE
  /\ UNCHANGED <<path, status, closure, closer, recorder, history>>

Replace(open) ==
  /\ ~harmed
  /\ recorder = "ended"
  /\ \E id \in Id \ open :
       /\ files' = [files EXCEPT ![id] = Other]
       /\ path' = id
  /\ status' = StatusOf("other", Other, TRUE)
  /\ closure' = {}
  /\ closer' = {}
  /\ harmed' = TRUE
  /\ UNCHANGED <<recorder, history>>

Surroundings(open) ==
  \/ AppendRecord \/ AppendEnd \/ PublishStatus \/ RecorderDies
  \/ ReadToClose \/ LinkClosure
  \/ Cut \/ Replace(open)

-------------------------------------------------------------------------------
(* A source: what a reader has open                                        *)

NoBoundary == Boundary(0, 0)

NoSource ==
  [id |-> 0, session |-> FALSE, artifact |-> "none", prefix |-> <<>>,
   upper |-> NoBoundary, fence |-> NoBoundary, published |-> 0]

Binding(s) == [id |-> s.id, session |-> s.session, artifact |-> s.artifact, prefix |-> s.prefix]

\* A file on its own is read to its length, and its footer says where that is.
OfflineEnd(lines) == Boundary(Len(lines), lines[Len(lines)].seq)

AtMost(n, m) == IF n < m THEN n ELSE m

\* A token's source is identified by as much as when the token was made.
PrefixLength(upper, expected) ==
  IF expected = {} THEN AtMost(upper.offset, Prefix)
  ELSE CHOOSE n \in {Len(b.prefix) : b \in expected} : TRUE

\* Source::open with the status that was read (none for --file) and the binding
\* a token expects (at most one): the source, or why there is none.
Opened(session, read, expected) ==
  LET lines == files[path]
      upper == IF session THEN read.end ELSE OfflineEnd(lines)
      source == [id |-> path, session |-> session, artifact |-> lines[1].artifact,
                 prefix |-> SubSeq(lines, 1, PrefixLength(upper, expected)),
                 upper |-> upper, fence |-> upper,
                 published |-> IF session THEN read.entries ELSE 0]
      Fails(why) == [source |-> NoSource, error |-> why]
  IN IF upper.offset = 0 THEN Fails("not_ready")
     ELSE IF upper.offset > Len(lines) THEN Fails("stale")
     ELSE IF \E b \in expected : b.id # path \/ b.session # session \/ Len(b.prefix) > upper.offset
       THEN Fails("stale")
     ELSE IF session /\ read.artifact # lines[1].artifact THEN Fails("stale")
     ELSE IF ~session /\ lines[Len(lines)].kind # "end" THEN Fails("invalid")
     ELSE IF \E b \in expected : b # Binding(source) THEN Fails("stale")
     ELSE [source |-> source, error |-> "none"]

\* pin_boundary
Pinnable(s, upper) ==
  /\ upper.offset <= s.upper.offset /\ upper.seq <= s.upper.seq
  /\ Start <= upper.offset

Pinned(s, upper) == [s EXCEPT !.fence = upper]

\* A line below the fence, read through the open file; a cut file ends early.
LineAt(s, offset) ==
  LET lines == files[s.id] IN IF offset < Len(lines) THEN lines[offset + 1] ELSE Hole

\* anchor
Anchor(s, offset) == [at |-> offset, line |-> LineAt(s, offset - 1)]
Anchored(s, anchor) == anchor.at <= s.fence.offset /\ LineAt(s, anchor.at - 1) = anchor.line

\* row: what may be read as a record after the previous one
IsRow(s, line, previous) ==
  line.kind = "record" /\ line.seq > previous /\ line.seq <= s.fence.seq

\* Mutant: a closure only limits what later commands see.
CurrentUnlessClosed(s, upper) == path = s.id /\ upper.offset <= Len(files[path])

\* check_current, when the answer is ready: no closure came before the boundary,
\* and the file still has the name and the length.  No row read is beyond the
\* boundary (IsRow), so highest_seen_seq is never what fails.
Current(s, upper) ==
  /\ s.session => \A closed \in closure :
       upper.offset <= closed.end.offset /\ upper.seq <= closed.end.seq
  /\ path = s.id
  /\ upper.offset <= Len(files[path])

\* end_start: how many records are published before the end, the first of them
\* and whether the footer is there; and whether all this agrees.
EndStart(s) ==
  LET last == LineAt(s, s.upper.offset - 1)
      footer == s.upper.offset > Start /\ last.kind = "end"
      end == IF footer THEN s.upper.offset - 1 ELSE s.upper.offset
      first == LineAt(s, Start)
      final == LineAt(s, end - 1)
      count == s.published
  IN [count |-> count, footer |-> footer, first |-> IF end = Start THEN 0 ELSE first.seq,
      agrees |->
        /\ footer => last.count = count
        /\ IF end = Start THEN count = 0 /\ s.upper.seq = 0
           ELSE /\ first.kind = "record" /\ final.kind = "record"
                /\ s.upper.seq = final.seq
                /\ count \in 1 .. final.seq + 1 - first.seq
                /\ end = Start + 1 => count = 1
                /\ end > Start + 1 => count >= 2 /\ first.seq < final.seq]
===============================================================================
