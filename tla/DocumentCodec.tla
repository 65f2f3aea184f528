---------------------------- MODULE DocumentCodec -----------------------------
(***************************************************************************)
(* The native document as lines (src/src/document.rs): what is written for *)
(* a header, a row and a footer, and what a reader makes of a line and     *)
(* when it refuses it.  Every option is a set of at most one value, and so *)
(* is every result that may be refused.                                    *)
(*                                                                         *)
(* A row is an entry and, beside it, what its line held that entries have  *)
(* no room for: unknown members of the line and of the objects in it are   *)
(* kept by the name of their parent ("ext").  A row with protobuf evidence *)
(* is stored as the raw payload only (compact), any other with its display *)
(* fields (wire).  A payload stands for its bytes: it names what decoding  *)
(* and projecting them gives (src/src/protobuf/projection.rs).             *)
(*                                                                         *)
(* Not told apart: the wording of errors, sizes and the 8 MiB limit of a   *)
(* line, JSON syntax and nesting, and the values of fields that are only   *)
(* carried along.  What a header must declare (schema, encoding, profile,  *)
(* source) is one flag, "current".                                         *)
(***************************************************************************)
EXTENDS Integers, Sequences

CONSTANTS
  Texts,      \* what a row says
  Names,      \* process names
  Sessions,
  MaxSeq      \* of the model: the last sequence number

Kinds == {"log", "marker", "unparsed"}

Losses == {"none", "truncated", "replaced"}  \* TextLoss

AtMostOne(S) == {{}} \cup {{x} : x \in S}

Payloads ==
  [decodes : BOOLEAN, kind : {"log", "unparsed"}, text : Texts, process : AtMostOne(Names),
   loss : {"none", "replaced"}]

Identities ==
  [session : Sessions, seq : 0 .. MaxSeq, in_order : BOOLEAN]  \* attempt >= segment > 0

Entries ==
  [kind : Kinds, text : Texts, identity : AtMostOne(Identities), process : AtMostOne(Names),
   process_source : AtMostOne({"ps_snapshot", "device_process_cache"}),
   text_loss : AtMostOne(Losses), proto : AtMostOne(Payloads)]

\* Parents of unknown members; "projection" is projection_extensions.
Parents == {"record", "device_time", "process", "provenance", "text_loss", "proto", "projection"}

Events == AtMostOne({"logcat_marker", "other"})

Sources == AtMostOne({"ps_snapshot", "device_process_cache", "newer"})

\* RecordMetadata.  reserved: an unknown member has a name the format defines.
Metadata ==
  [seq : 0 .. MaxSeq, event_kind : Events, process_source : Sources, ext : SUBSET Parents,
   reserved : BOOLEAN]

Types == {"entry", "event", "unparsed", "other"}

\* What a line may hold before anything of it is checked: WireRecord, CompactRecord,
\* DocumentHeader, ExportScope and ArtifactEnd.
WireLines ==
  [layout : {"wire"}, current : BOOLEAN, type : Types, seq : 0 .. MaxSeq,
   provenance : AtMostOne(Identities), text_loss : AtMostOne(Losses), fields : {"all", "some", "none"},
   message : Texts, process : AtMostOne(Names), source : Sources, event_kind : Events,
   ext : SUBSET Parents, reserved : BOOLEAN]

CompactLines ==
  [layout : {"compact"}, current : BOOLEAN, type : Types, seq : 0 .. MaxSeq,
   provenance : AtMostOne(Identities), text_loss : AtMostOne(Losses), payload : Payloads,
   event_kind : Events, ext : SUBSET Parents, reserved : BOOLEAN, redundant : BOOLEAN]

Headers == [artifact : Nat, session : SUBSET Sessions, derived : SUBSET Nat, current : BOOLEAN]

Scopes ==
  [kind : {"retained", "filtered", "other"}, first : SUBSET Nat, last : SUBSET Nat,
   count : Nat, omitted : SUBSET Nat, filter : Seq(SUBSET Texts), removed : Nat, cleared : Nat]

Ends ==
  [artifact : Nat, finalized : BOOLEAN, record_count : Nat, first_seq : SUBSET Nat,
   last_seq : SUBSET Nat, scope : Scopes, capture : {"unknown", "partial", "other"}]

Row(entry, meta) == [entry |-> entry, meta |-> meta]

-------------------------------------------------------------------------------
(* Rules for rows.                                                         *)

\* project
Project(payload) ==
  LET named == payload.kind = "log" /\ payload.process # {}
  IN [kind |-> payload.kind, text |-> payload.text, identity |-> {},
      process |-> IF named THEN payload.process ELSE {},
      process_source |-> IF named THEN {"device_process_cache"} ELSE {},
      text_loss |-> {payload.loss}, proto |-> {payload}]

\* Unknown members without the object they stand in.
Orphans(entry) ==
  (IF entry.kind # "log" THEN {"device_time"} ELSE {})
    \cup (IF entry.process = {} THEN {"process"} ELSE {})
    \cup (IF entry.identity = {} THEN {"provenance"} ELSE {})
    \cup (IF entry.text_loss = {} THEN {"text_loss"} ELSE {})
    \cup (IF entry.proto = {} THEN {"proto", "projection"} ELSE {})

SourceFits(entry, meta) ==
  LET sources == entry.process_source \cup meta.process_source
  IN /\ entry.process = {} => sources = {}
     /\ entry.kind # "log" => entry.process = {}
     /\ IF entry.proto # {}
        THEN meta.process_source \subseteq {"device_process_cache"}
        ELSE "device_process_cache" \notin sources

\* validate_row_fields
RowFits(header, entry, meta, previous) ==
  /\ ~meta.reserved
  /\ meta.seq > previous
  /\ \E i \in entry.identity :
       header.session = {i.session} /\ i.seq = meta.seq /\ i.in_order
  /\ entry.kind = "marker" <=> meta.event_kind # {}
  /\ SourceFits(entry, meta)
  /\ meta.ext \cap Orphans(entry) = {}

\* validate_proto
ProtoFits(entry) ==
  \A payload \in entry.proto :
    LET row == Project(payload)
    IN /\ payload.decodes
       /\ entry.kind = row.kind /\ entry.text = row.text
       /\ row.kind = "log" => entry.process = row.process
                              /\ entry.process_source = row.process_source
       /\ entry.text_loss \subseteq row.text_loss

\* validate_row
RowIsValid(header, entry, meta, previous) ==
  RowFits(header, entry, meta, previous) /\ ProtoFits(entry)

-------------------------------------------------------------------------------
(* Lines of rows.                                                          *)

TypeName(kind) ==
  CASE kind = "log" -> "entry" [] kind = "marker" -> "event" [] OTHER -> "unparsed"

\* WireRecord::from_row.  fields: device_time, pid, tid, level and tag.
WireLine(entry, meta) ==
  [layout |-> "wire", current |-> TRUE, type |-> TypeName(entry.kind), seq |-> meta.seq,
   provenance |-> entry.identity, text_loss |-> entry.text_loss,
   fields |-> IF entry.kind = "log" THEN "all" ELSE "none", message |-> entry.text,
   process |-> entry.process,
   source |-> IF entry.process_source # {} THEN entry.process_source
              ELSE IF entry.process # {} THEN meta.process_source ELSE {},
   event_kind |-> meta.event_kind, ext |-> meta.ext, reserved |-> meta.reserved]

\* CompactRecordRef.  redundant: it also holds display fields.
CompactLine(entry, meta, payload) ==
  [layout |-> "compact", current |-> TRUE,
   type |-> IF entry.kind = "log" THEN "entry" ELSE "unparsed", seq |-> meta.seq,
   provenance |-> entry.identity, text_loss |-> entry.text_loss, payload |-> payload,
   event_kind |-> meta.event_kind, ext |-> meta.ext, reserved |-> meta.reserved,
   redundant |-> FALSE]

\* encode_record_layout
Layout(entry, meta) ==
  IF entry.proto # {}
  THEN CompactLine(entry, meta, CHOOSE payload \in entry.proto : TRUE)
  ELSE WireLine(entry, meta)

\* encode_record
EncodeRecord(header, entry, meta) ==
  IF RowIsValid(header, entry, meta, 0) THEN {Layout(entry, meta)} ELSE {}

MetaOf(line, source) ==
  [seq |-> line.seq, event_kind |-> line.event_kind, process_source |-> source,
   ext |-> line.ext, reserved |-> line.reserved]

\* WireRecord::into_row
WireRow(line) ==
  LET kind == CASE line.type = "entry" -> "log" [] line.type = "event" -> "marker"
                [] OTHER -> "unparsed"
  IN IF \/ ~line.current
        \/ line.type \notin {"entry", "event", "unparsed"}
        \/ line.type = "entry" /\ line.fields # "all"
        \/ line.type # "entry" /\ (line.fields # "none" \/ line.process # {})
     THEN {}
     ELSE {Row([kind |-> kind, text |-> line.message, identity |-> line.provenance,
                process |-> line.process, process_source |-> line.source \ {"newer"},
                text_loss |-> line.text_loss, proto |-> {}],
               MetaOf(line, line.source))}

\* CompactRecord::into_row
CompactRow(line) ==
  LET row == Project(line.payload)
  IN IF \/ ~line.current \/ line.redundant \/ ~line.payload.decodes
        \/ line.type # (IF row.kind = "log" THEN "entry" ELSE "unparsed")
        \/ "device_time" \in line.ext /\ row.kind # "log"
        \/ "process" \in line.ext /\ row.process = {}
        \/ line.text_loss # {} /\ line.text_loss # row.text_loss
     THEN {}
     ELSE {Row([row EXCEPT !.identity = line.provenance, !.text_loss = line.text_loss],
               MetaOf(line, row.process_source))}

\* decode_record; that a compact row's payload fits was seen while decoding it.
DecodeRecord(line, header, previous) ==
  IF line.layout = "compact"
  THEN {row \in CompactRow(line) : RowFits(header, row.entry, row.meta, previous)}
  ELSE {row \in WireRow(line) : RowIsValid(header, row.entry, row.meta, previous)}

-------------------------------------------------------------------------------
(* Headers and footers.                                                    *)

\* validate_header
HeaderIsValid(header) == header.current /\ header.session # {}

First(metadata) == IF metadata = <<>> THEN {} ELSE {metadata[1].seq}
Final(metadata) == IF metadata = <<>> THEN {} ELSE {metadata[Len(metadata)].seq}

\* make_end
MakeEnd(header, metadata, scope, capture) ==
  [artifact |-> header.artifact, finalized |-> TRUE, record_count |-> Len(metadata),
   first_seq |-> First(metadata), last_seq |-> Final(metadata),
   scope |-> scope, capture |-> capture]

\* Bounds of a range of count numbers.
RangeFits(count, first, last) ==
  /\ (count = 0) <=> (first = {} /\ last = {})
  /\ count > 0 => \E f \in first, l \in last : 0 < f /\ f <= l /\ count <= l - f + 1

Within(first, last, scope) ==
  \E f \in scope.first, l \in scope.last :
    (\A s \in first : s >= f) /\ (\A s \in last : s <= l)

\* validate_end_summary
EndIsValid(header, end, count, first, last) ==
  /\ HeaderIsValid(header)
  /\ end.finalized /\ end.artifact = header.artifact
  /\ end.record_count = count /\ end.first_seq = first /\ end.last_seq = last
  /\ RangeFits(count, first, last)
  /\ end.capture \in {"unknown", "partial"}
  /\ end.scope.kind \in {"retained", "filtered"}
  /\ end.scope.kind = "filtered" <=> end.scope.filter # <<>>
  /\ end.scope.count >= end.record_count
  /\ RangeFits(end.scope.count, end.scope.first, end.scope.last)
  /\ end.scope.count > 0 => Within(first, last, end.scope)
  /\ end.scope.kind # "filtered" =>
       /\ end.scope.count = end.record_count
       /\ end.scope.first = end.first_seq /\ end.scope.last = end.last_seq
===============================================================================
