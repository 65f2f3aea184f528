----------------------------- MODULE MCDocuments ------------------------------
EXTENDS Documents, TLC

CONSTANTS p1, p2

MCPaths == Permutations({p1, p2})

MCTextBytes == [x |-> 1, y |-> 4]

LogRow(text, process, source) ==
  [kind |-> "log", text |-> text, identity |-> {}, process |-> process,
   process_source |-> source, text_loss |-> {"none"}, proto |-> {}]

MCLiveRows ==
  {LogRow("x", {}, {}), [LogRow("y", {"n"}, {"ps_snapshot"}) EXCEPT !.text_loss = {"truncated"}]}

-------------------------------------------------------------------------------
(* Files of other writers: rows with protobuf evidence and with members a   *)
(* newer version added, and files that break a rule each.                   *)

Header == [artifact |-> 100, session |-> {1}, derived |-> {}, current |-> TRUE]

Identity(seq) == {[session |-> 1, seq |-> seq, in_order |-> TRUE]}

Meta(seq, ext) ==
  [seq |-> seq, event_kind |-> {}, process_source |-> {}, ext |-> ext, reserved |-> FALSE]

Payload ==
  [decodes |-> TRUE, kind |-> "log", text |-> "x", process |-> {"n"}, loss |-> "none"]

Compact ==
  CompactLine([Project(Payload) EXCEPT !.identity = Identity(2), !.text_loss = {}],
              Meta(2, {"process", "projection"}), Payload)

Newer ==
  [WireLine([LogRow("y", {"n"}, {}) EXCEPT !.identity = Identity(3)], Meta(3, {"record"}))
     EXCEPT !.source = {"newer"}]

Event ==
  WireLine([LogRow("y", {}, {}) EXCEPT !.identity = Identity(1), !.kind = "marker"],
           [Meta(1, {}) EXCEPT !.event_kind = {"other"}])

File(records, first, last) ==
  LET count == Len(records)
      scope == [kind |-> "filtered", first |-> {1}, last |-> {3}, count |-> 3, omitted |-> {},
                filter |-> <<{"x", "y"}>>, removed |-> 0, cleared |-> 0]
  IN <<HeaderLine(Header)>> \o [k \in 1 .. count |-> RecordLine(records[k])]
       \o <<EndLine([artifact |-> 100, finalized |-> TRUE, record_count |-> count,
                     first_seq |-> first, last_seq |-> last, scope |-> scope,
                     capture |-> "partial"])>>

MCForeign ==
  {File(<<Event, Compact, Newer>>, {1}, {3}),
   File(<<Event, [Compact EXCEPT !.redundant = TRUE]>>, {1}, {2})}
===============================================================================
