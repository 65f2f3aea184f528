------------------------------- MODULE LogStore -------------------------------
(***************************************************************************)
(* The retained rows of the desktop application and of an opened file      *)
(* (src/src/log_store.rs): chunks of a fixed number of rows, of which the  *)
(* first may be partly drained, with counters kept per chunk and for the   *)
(* whole store.  A store is a value here: Arc::make_mut copies a chunk     *)
(* that a snapshot still shares, so a snapshot never sees a change; how    *)
(* often it copies is not modelled, nor is set_process, which only tests   *)
(* call.  Indices count from 0.                                            *)
(***************************************************************************)
EXTENDS Integers, Sequences, SequencesExt

CONSTANTS
  CHUNK_SIZE,
  CHUNK_BYTES,
  TextBytes,   \* the owned bytes of a row with a text, for each text
  NameBytes,   \* ... and those of a process name
  Incidents    \* texts in which a log carries a known signature (incident::classify)

ASSUME LogStoreAssumption ==
  /\ CHUNK_SIZE \in Nat \ {0}
  /\ {CHUNK_BYTES, NameBytes} \subseteq Nat
  /\ TextBytes \in [DOMAIN TextBytes -> Nat \ {0}]

\* LogEntry::payload_bytes, is_unresolved_process
PayloadBytes(entry) == TextBytes[entry.text] + (IF entry.process = {} THEN 0 ELSE NameBytes)

Unresolved(entry) == entry.kind = "log" /\ entry.process = {}

Incident(entry) == entry.kind = "log" /\ entry.text \in Incidents

One(condition) == IF condition THEN 1 ELSE 0

Total(numbers) ==
  LET total[n \in 0 .. Len(numbers)] == IF n = 0 THEN 0 ELSE total[n - 1] + numbers[n]
  IN total[Len(numbers)]

Joined(parts) ==
  LET joined[n \in 0 .. Len(parts)] == IF n = 0 THEN <<>> ELSE joined[n - 1] \o parts[n]
  IN joined[Len(parts)]

\* What rows take, and how many of them are unresolved or carry a signature.
OwnedBytes(entries) == Total([k \in DOMAIN entries |-> PayloadBytes(entries[k])])
Unknowns(entries) == Total([k \in DOMAIN entries |-> One(Unresolved(entries[k]))])
Marks(entries) == Total([k \in DOMAIN entries |-> One(Incident(entries[k]))])

NewChunk == [entries |-> <<>>, payload_bytes |-> 0, unresolved |-> 0, incidents |-> 0]

NewStore ==
  [chunks |-> <<>>, offset |-> 0, len |-> 0, bytes |-> 0, unresolved |-> 0, incidents |-> 0]

\* iter
Rows(store) == Joined([c \in DOMAIN store.chunks |-> store.chunks[c].entries])

\* Mutant: what was drained from the only chunk is room again.
NeedsChunkByRows(store) ==
  store.chunks = <<>> \/ Len(Last(store.chunks).entries) = CHUNK_SIZE

NeedsChunk(store) ==
  \/ store.chunks = <<>>
  \/ Len(Last(store.chunks).entries) + (IF Len(store.chunks) = 1 THEN store.offset ELSE 0)
       = CHUNK_SIZE

Added(chunk, entry) ==
  [entries |-> Append(chunk.entries, entry),
   payload_bytes |-> chunk.payload_bytes + PayloadBytes(entry),
   unresolved |-> chunk.unresolved + One(Unresolved(entry)),
   incidents |-> chunk.incidents + One(Incident(entry))]

Push(store, entry) ==
  LET new == NeedsChunk(store)
      chunks == IF new THEN Append(store.chunks, NewChunk) ELSE store.chunks
      last == Len(chunks)
  IN [chunks |-> [chunks EXCEPT ![last] = Added(@, entry)],
      offset |-> store.offset,
      len |-> store.len + 1,
      bytes |-> store.bytes + PayloadBytes(entry) + (IF new THEN CHUNK_BYTES ELSE 0),
      unresolved |-> store.unresolved + One(Unresolved(entry)),
      incidents |-> store.incidents + One(Incident(entry))]

DropFrontChunk(store) ==
  LET front == Head(store.chunks)
  IN [chunks |-> Tail(store.chunks),
      offset |-> 0,
      len |-> store.len - Len(front.entries),
      bytes |-> store.bytes - (CHUNK_BYTES + front.payload_bytes),
      unresolved |-> store.unresolved - front.unresolved,
      incidents |-> store.incidents - front.incidents]

\* drain_front, of at most the first chunk, which is all that trimming asks for.
DrainFront(store, count) ==
  LET front == Head(store.chunks)
      gone == SubSeq(front.entries, 1, count)
      left == [entries |-> SubSeq(front.entries, count + 1, Len(front.entries)),
               payload_bytes |-> front.payload_bytes - OwnedBytes(gone),
               unresolved |-> front.unresolved - Unknowns(gone),
               incidents |-> front.incidents - Marks(gone)]
  IN IF count >= Len(front.entries) THEN DropFrontChunk(store)
     ELSE [chunks |-> <<left>> \o Tail(store.chunks),
           offset |-> store.offset + count,
           len |-> store.len - count,
           bytes |-> store.bytes - OwnedBytes(gone),
           unresolved |-> store.unresolved - Unknowns(gone),
           incidents |-> store.incidents - Marks(gone)]

\* The fewest rows of the first chunk whose removal reaches the target.
RowsToDrain(store, target) ==
  LET front == Head(store.chunks)
      Enough(count) ==
        store.bytes - OwnedBytes(SubSeq(front.entries, 1, count)) <= target
  IN CHOOSE count \in 1 .. Len(front.entries) :
       /\ Enough(count) \/ count = Len(front.entries)
       /\ \A less \in 1 .. count - 1 : ~Enough(less)

\* trim_to_bytes: a round of its loop takes a chunk or is the last.
TrimRound(store, target) ==
  IF store.bytes <= target \/ store.len = 0 THEN store
  ELSE IF store.bytes - (CHUNK_BYTES + Head(store.chunks).payload_bytes) >= target
  THEN DropFrontChunk(store)
  ELSE DrainFront(store, RowsToDrain(store, target))

TrimToBytes(store, target) ==
  LET trimmed[n \in 0 .. Len(store.chunks)] ==
        IF n = 0 THEN store ELSE TrimRound(trimmed[n - 1], target)
  IN trimmed[Len(store.chunks)]

\* Index
At(store, index) ==
  LET absolute == store.offset + index
      chunk == absolute \div CHUNK_SIZE
  IN store.chunks[chunk + 1].entries[(IF chunk = 0 THEN index ELSE absolute % CHUNK_SIZE) + 1]

\* How many rows are in front of a chunk.
Base(store, c) == Total([d \in 1 .. c - 1 |-> Len(store.chunks[d].entries)])

\* The first row with a signature from .. below; chunks without one are skipped.
FindIncident(store, from, below) ==
  LET found == UNION {
        {Base(store, c) + k - 1 : k \in {j \in DOMAIN store.chunks[c].entries :
                                    Incident(store.chunks[c].entries[j])}}
          : c \in {d \in DOMAIN store.chunks : store.chunks[d].incidents > 0}}
      inside == {i \in found : from <= i /\ i < below}
  IN IF inside = {} THEN {} ELSE {CHOOSE i \in inside : \A j \in inside : i <= j}

\* next_incident, after: at most one index.
NextIncident(store, after) ==
  LET start == IF after = {} THEN 0
               ELSE LET next == (CHOOSE i \in after : TRUE) + 1
                    IN IF next < store.len THEN next ELSE store.len
      ahead == FindIncident(store, start, store.len)
  IN IF store.incidents = 0 THEN {}
     ELSE IF ahead # {} THEN ahead ELSE FindIncident(store, 0, start)

-------------------------------------------------------------------------------
(* What a store promises, of the rows it should hold.                      *)

CountersAreExact(store) ==
  /\ store.len = Len(Rows(store))
  /\ store.bytes = Len(store.chunks) * CHUNK_BYTES + OwnedBytes(Rows(store))
  /\ store.unresolved = Unknowns(Rows(store))
  /\ store.incidents = Marks(Rows(store))
  /\ \A c \in DOMAIN store.chunks :
       LET chunk == store.chunks[c] IN
       /\ chunk.entries # <<>>
       /\ chunk.payload_bytes = OwnedBytes(chunk.entries)
       /\ chunk.incidents = Marks(chunk.entries)

\* The next row with a signature is the nearest one after the given row, going
\* round once.
FindsNearest(store) ==
  LET rows == Rows(store)
      Steps(from, to) == (to - from - 1 + store.len) % store.len
  IN \A from \in 0 .. store.len - 1 :
       LET hits == {i \in 0 .. store.len - 1 : Incident(rows[i + 1])}
       IN NextIncident(store, {from})
            = {i \in hits : \A j \in hits : Steps(from, i) <= Steps(from, j)}

\* An index refers to the row that iterating reaches: all chunks but the last
\* are full, with what was drained from the first.
IndexIsExact(store) ==
  /\ \A c \in DOMAIN store.chunks :
       LET used == Len(store.chunks[c].entries) + (IF c = 1 THEN store.offset ELSE 0)
       IN used = CHUNK_SIZE \/ (c = Len(store.chunks) /\ used < CHUNK_SIZE)
  /\ \A index \in 0 .. store.len - 1 : At(store, index) = Rows(store)[index + 1]
===============================================================================
