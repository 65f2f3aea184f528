--------------------------- MODULE CaptureRunProofs ----------------------------
(***************************************************************************)
(* The recorder's document, for every number of attempts, lines, queue     *)
(* length and limit.  Three invariants carry it: what the channel holds    *)
(* of each child (ChannelInv), how the loop's counters go together         *)
(* (Counted), and how what was handed to the writer, the record that still *)
(* waits and the lines on their way continue one another (InStep).  What   *)
(* success reports rests on a fourth, FinalInv: every line received is     *)
(* recorded, waits, or is told of; a snapshot's lines are in the document, *)
(* on their way, or counted; and a document handed over is sealed by the   *)
(* footer that counts it.                                                  *)
(***************************************************************************)
EXTENDS CaptureRun, CaptureLemmas, FiniteSetTheorems

-------------------------------------------------------------------------------
(* The loop's locals *)

RunFields ==
  {"pc", "dump", "ctl", "handle", "stopped", "session", "stopping", "left", "reason",
   "failure", "done", "pending", "encoded", "closing", "received", "reconnects", "ready",
   "backend_error", "published"}

RecordItem == [kind : {"record"}, seq : Nat, attempt : Id, line : Nat]
FooterItem == [kind : {"footer"}, count : Nat, partial : BOOLEAN]
Item == {Header} \cup RecordItem \cup FooterItem

\* Nothing has ended the recording yet.
Recording(r) == r.reason = "none" /\ r.failure = "none" /\ ~r.stopping
Waiting(r) == r.pending # NoPacket
Handed(r) == IF Waiting(r) THEN r.encoded + 1 ELSE r.encoded

Formed(r) == DOMAIN r = RunFields /\ Sound(r.ctl) /\ r.session.seq \in Nat

\* The numbers of records that were made and handed over go together, and the
\* limit is reached once.
Counted(r) ==
  /\ Formed(r)
  /\ r.encoded \in 0 .. MAX_ENTRIES
  /\ r.encoded = MAX_ENTRIES => r.reason # "none"
  /\ Waiting(r) =>
       /\ r.pending \in RecordItem /\ r.pending.attempt <= r.ctl.next_id
       /\ r.pending.seq = r.encoded + 1 /\ r.encoded < MAX_ENTRIES
       /\ ~r.stopping
  /\ Recording(r) => r.session.seq = Handed(r)
  /\ r.pc \in {"finish", "footer", "join", "ended"} => r.stopping
  /\ r.pc = "footer" => r.closing \in FooterItem /\ r.closing.count = r.encoded

-------------------------------------------------------------------------------
(* The document *)

\* item may come after last: the next line of its attempt, or the first of a later
\* attempt after the last line of the former.
Follows(last, item, ch) ==
  /\ last.kind = "header" => item.line = 1
  /\ last.kind = "record" =>
       IF item.attempt = last.attempt THEN item.line = last.line + 1
       ELSE item.line = 1 /\ item.attempt > last.attempt
            /\ Exhausted(last.attempt, last.line, ch)

Chained(doc, ch, n) ==
  /\ doc \in Seq(Item)
  /\ \A k \in DOMAIN doc :
       /\ doc[k].kind = "header" <=> k = 1
       /\ doc[k].kind = "footer" => k = Len(doc) /\ doc[k].count = k - 2
       /\ doc[k].kind = "record" =>
            /\ doc[k].seq = k - 1 /\ doc[k].seq <= MAX_ENTRIES
            /\ doc[k].attempt <= n
            /\ Follows(doc[k - 1], doc[k], ch)

Newest(r, doc) == IF Waiting(r) THEN r.pending ELSE doc[Len(doc)]

TakenOf(i, item) == IF item.kind = "record" /\ item.attempt = i THEN item.line ELSE 0

\* While the writer takes packets and the footer is not sent: what was handed over,
\* what waits and what is on its way continue one another.
InStep(r, doc, ch, q) ==
  /\ Len(doc) = r.encoded + 1
  /\ doc[Len(doc)].kind # "footer"
  /\ Waiting(r) => Follows(doc[Len(doc)], r.pending, ch)
  /\ Recording(r) =>
       LET item == Newest(r, doc)
           i == ActiveId(r.ctl)
       IN /\ item.kind = "record" /\ item.attempt # i => Exhausted(item.attempt, item.line, ch)
          /\ HasAttempt(r.ctl) => OnItsWay(i, TakenOf(i, item), ch, q)

WriterStates == {"idle", "writing", "written", "failing", "ok", "error"}

\* The file, the packet in the writer's hand and the one in the channel.
OutputInv ==
  /\ DOMAIN writer = {"state", "packet"} /\ writer.state \in WriterStates
  /\ writer.state = "writing" => writer.packet \in Item
  /\ file \in Seq(Item)
  /\ packets \in Seq(Item) /\ Len(packets) <= 1
  /\ WriterGone => packets = <<>>
  /\ visible \in Nat /\ run.published \in Nat
  /\ run.published <= visible /\ visible <= Cardinality(Records(file))

\* open: the writer takes packets and the footer is not sent.
Coherent(r, doc, ch, q, open) ==
  /\ ChannelInv(ch, q, r.ctl.next_id)
  /\ Counted(r)
  /\ Chained(doc, ch, r.ctl.next_id)
  /\ open => InStep(r, doc, ch, q)

Open == ~WriterGone /\ run.pc \notin {"join", "ended"}

DocumentInv == OutputInv /\ Coherent(run, Document, child, queue, Open)

-------------------------------------------------------------------------------
(* What happens to the document *)

LEMMA ItemFields ==
  ASSUME NEW item \in Item
  PROVE  /\ item.kind \in {"header", "record", "footer"}
         /\ item.kind = "record" =>
              /\ item.seq \in Nat /\ item.attempt \in Id /\ item.attempt \in Nat
              /\ item.line \in Nat
         /\ item.kind = "footer" => item.count \in Nat
  BY DEF Item, Header, RecordItem, FooterItem, Id

LEMMA ChainedFields ==
  ASSUME NEW doc, NEW ch, NEW n, Chained(doc, ch, n)
  PROVE  /\ doc \in Seq(Item) /\ Len(doc) \in Nat /\ DOMAIN doc = 1 .. Len(doc)
         /\ \A k \in DOMAIN doc : doc[k] \in Item
  BY LenProperties, ElementOfSeq DEF Chained

\* The record before a record is none that follows a footer.
LEMMA FollowsFrozen ==
  ASSUME NEW last \in Item, NEW item \in RecordItem, NEW ch, NEW new, NEW n \in Nat,
         item.attempt <= n, Follows(last, item, ch), Frozen(ch, new, n)
  PROVE  Follows(last, item, new)
  BY ItemFields DEF Follows, Frozen, Exhausted, RecordItem, Id

LEMMA ChainedFrozen ==
  ASSUME NEW doc, NEW ch, NEW new, NEW n \in Nat, NEW m \in Nat, n <= m,
         Chained(doc, ch, n), Frozen(ch, new, n)
  PROVE  Chained(doc, new, m)
<1>1. /\ doc \in Seq(Item) /\ Len(doc) \in Nat /\ DOMAIN doc = 1 .. Len(doc)
      /\ \A k \in DOMAIN doc : doc[k] \in Item
  BY ChainedFields
<1>2. ASSUME NEW k \in DOMAIN doc, doc[k].kind = "record"
      PROVE  doc[k].attempt <= m /\ Follows(doc[k - 1], doc[k], new)
  <2>1. doc[k] \in RecordItem /\ doc[k].attempt <= n /\ doc[k].attempt \in Nat
    BY <1>1, <1>2, ItemFields DEF Chained, Item, Header, FooterItem
  <2>2. k # 1 /\ k - 1 \in DOMAIN doc
    BY <1>1, <1>2 DEF Chained
  <2>3. Follows(doc[k - 1], doc[k], ch)
    BY <1>2 DEF Chained
  <2> QED
    BY <1>1, <2>1, <2>2, <2>3, FollowsFrozen
<1> QED
  BY <1>1, <1>2 DEF Chained

\* What comes next may be added.
LEMMA ChainedAppend ==
  ASSUME NEW doc, NEW ch, NEW n \in Nat, Chained(doc, ch, n), Len(doc) # 0,
         doc[Len(doc)].kind # "footer",
         NEW item \in Item, item.kind # "header",
         item.kind = "footer" => item.count = Len(doc) - 1,
         item.kind = "record" =>
           /\ item.seq = Len(doc) /\ item.seq <= MAX_ENTRIES /\ item.attempt <= n
           /\ Follows(doc[Len(doc)], item, ch)
  PROVE  Chained(Append(doc, item), ch, n)
<1> DEFINE longer == Append(doc, item)
<1>1. /\ doc \in Seq(Item) /\ Len(doc) \in Nat \ {0} /\ DOMAIN doc = 1 .. Len(doc)
      /\ \A k \in DOMAIN doc : doc[k] \in Item
  BY ChainedFields
<1>2. /\ longer \in Seq(Item) /\ Len(longer) = Len(doc) + 1
      /\ DOMAIN longer = 1 .. Len(doc) + 1
      /\ \A k \in DOMAIN doc : longer[k] = doc[k]
      /\ longer[Len(doc) + 1] = item
  BY <1>1, AppendProperties, LenProperties
<1> HIDE DEF longer
<1> DEFINE Fine(k) ==
      /\ longer[k].kind = "header" <=> k = 1
      /\ longer[k].kind = "footer" => k = Len(longer) /\ longer[k].count = k - 2
      /\ longer[k].kind = "record" =>
           /\ longer[k].seq = k - 1 /\ longer[k].seq <= MAX_ENTRIES
           /\ longer[k].attempt <= n
           /\ Follows(longer[k - 1], longer[k], ch)
<1>3. Fine(Len(doc) + 1)
  BY <1>1, <1>2
<1>4. ASSUME NEW k \in DOMAIN doc
      PROVE  Fine(k)
  <2>1. k > 1 => k - 1 \in DOMAIN doc /\ longer[k - 1] = doc[k - 1]
    BY <1>1, <1>2
  <2>2. doc[k].kind # "footer"
    BY <1>1 DEF Chained
  <2>3. doc[k].kind = "record" => k > 1
    BY <1>1 DEF Chained
  <2> QED
    BY <1>2, <2>1, <2>2, <2>3 DEF Chained
<1> HIDE DEF Fine
<1>5. \A k \in DOMAIN longer : Fine(k)
  BY <1>1, <1>2, <1>3, <1>4
<1> QED
  BY <1>2, <1>5 DEF Chained, Fine, longer

\* What was written before is a document of its own.
LEMMA ChainedPrefix ==
  ASSUME NEW a \in Seq(Item), NEW b \in Seq(Item), NEW ch, NEW n, Chained(a \o b, ch, n)
  PROVE  Chained(a, ch, n)
<1>1. /\ Len(a) \in Nat /\ Len(b) \in Nat
      /\ DOMAIN a = 1 .. Len(a) /\ DOMAIN (a \o b) = 1 .. Len(a) + Len(b)
      /\ Len(a \o b) = Len(a) + Len(b)
      /\ \A k \in DOMAIN a : (a \o b)[k] = a[k]
  BY ConcatProperties, LenProperties
<1> DEFINE doc == a \o b
<1> HIDE DEF doc
<1>2. /\ \A k \in DOMAIN a : k \in DOMAIN doc /\ doc[k] = a[k]
      /\ \A k \in DOMAIN a : k - 1 \in DOMAIN a \/ k = 1
      /\ \A k \in DOMAIN a : k = Len(doc) => k = Len(a)
      /\ Chained(doc, ch, n)
  BY <1>1 DEF doc
<1>3. \A k \in DOMAIN a : a[k].kind = "record" => k # 1
  BY <1>2 DEF Chained
<1> QED
  BY <1>2, <1>3 DEF Chained

-------------------------------------------------------------------------------
(* What the writer does *)

LEMMA RecordsAreFinite ==
  ASSUME NEW doc \in Seq(Item)
  PROVE  /\ IsFiniteSet(Records(doc)) /\ Cardinality(Records(doc)) \in Nat
         /\ \A item \in Item : Cardinality(Records(doc)) <= Cardinality(Records(Append(doc, item)))
<1>1. ASSUME NEW d \in Seq(Item)
      PROVE  IsFiniteSet(Records(d)) /\ Cardinality(Records(d)) \in Nat
  <2>1. Records(d) \in SUBSET (1 .. Len(d)) /\ Len(d) \in Nat
    BY <1>1, LenProperties DEF Records
  <2>2. IsFiniteSet(1 .. Len(d))
    BY <2>1, FS_Interval
  <2> QED
    BY <2>1, <2>2, FS_Subset, FS_CardinalityType
<1>2. ASSUME NEW item \in Item
      PROVE  Cardinality(Records(doc)) <= Cardinality(Records(Append(doc, item)))
  <2> DEFINE longer == Append(doc, item)
  <2>1. /\ longer \in Seq(Item) /\ DOMAIN doc \subseteq DOMAIN longer
        /\ \A k \in DOMAIN doc : longer[k] = doc[k]
    BY <1>2, AppendProperties, LenProperties
  <2> HIDE DEF longer
  <2>2. Records(doc) \in SUBSET Records(longer)
    BY <2>1 DEF Records
  <2> QED
    BY <1>1, <2>1, <2>2, FS_Subset DEF longer
<1> QED
  BY <1>1, <1>2

LEMMA DocumentParts ==
  ASSUME OutputInv
  PROVE  /\ InHand \in Seq(Item) /\ Document \in Seq(Item)
         /\ Document = file \o (InHand \o packets)
         /\ InHand \o packets \in Seq(Item)
         /\ WriterGone => Document = file
<1>1. InHand \in Seq(Item)
  BY EmptySeq DEF OutputInv, InHand
<1>2. Document = file \o (InHand \o packets) /\ InHand \o packets \in Seq(Item)
  <2>1. packets \in Seq(Item) /\ file \in Seq(Item)
    BY DEF OutputInv
  <2>2. (file \o InHand) \o packets = file \o (InHand \o packets)
    BY <1>1, <2>1, ConcatAssociative
  <2>3. InHand \o packets \in Seq(Item)
    BY <1>1, <2>1, ConcatProperties
  <2> QED
    BY <2>2, <2>3 DEF Document
<1>3. Document \in Seq(Item)
  BY <1>2, ConcatProperties DEF OutputInv
<1>4. WriterGone => InHand = <<>> /\ packets = <<>>
  BY DEF WriterGone, OutputInv, InHand
<1>5. WriterGone => Document = file
  BY <1>2, <1>4, EmptySeq, ConcatEmptySeq DEF OutputInv
<1> QED
  BY <1>1, <1>2, <1>3, <1>5

\* The writer moves the document along; when it fails, what it did not write is lost.
LEMMA WriterKeepsOutput ==
  ASSUME OutputInv, WriterStep
  PROVE  /\ OutputInv'
         /\ WriterGone => WriterGone'
         /\ \/ Document' = Document
            \/ WriterGone' /\ Document' = file
<1>0. UNCHANGED run
  BY DEF WriterStep
<1>1. InHand \in Seq(Item) /\ file \in Seq(Item) /\ packets \in Seq(Item) /\ Len(packets) <= 1
  BY DocumentParts DEF OutputInv
<1>2. CASE TakePacket
  <2>1. PICK p \in Item : packets = <<p>> /\ Head(packets) = p
    <3>1. packets \in Seq(Item) /\ Len(packets) = 1
      <4>1. packets # <<>>
        BY <1>2 DEF TakePacket
      <4>2. Len(packets) \in Nat \ {0}
        BY <1>1, <4>1, EmptySeq
      <4> QED
        BY <1>1, <4>2
    <3>2. packets[1] \in Item
      BY <3>1, ElementOfSeq
    <3>3. <<packets[1]>> \in Seq(Item) /\ Len(<<packets[1]>>) = 1
          /\ <<packets[1]>>[1] = packets[1]
      BY <3>2
    <3>4. packets = <<packets[1]>>
      BY <3>1, <3>3, SeqEqual
    <3>5. Head(packets) = packets[1]
      BY <3>1
    <3> QED
      BY <3>2, <3>4, <3>5
  <2>2. /\ writer.state = "idle" /\ writer' = [state |-> "writing", packet |-> p]
        /\ packets' = <<>> /\ UNCHANGED <<file, visible>>
    BY <1>2, <2>1 DEF TakePacket
  <2>3. InHand = <<>> /\ InHand' = <<p>>
    BY <2>2 DEF InHand
  <2>4. <<p>> \in Seq(Item)
    OBVIOUS
  <2>5. Document' = Document
    BY <1>1, <2>1, <2>2, <2>3, <2>4, EmptySeq, ConcatEmptySeq, ConcatProperties DEF Document
  <2>6. OutputInv'
    BY <1>0, <2>2, EmptySeq DEF OutputInv, WriterStates, WriterGone
  <2>7. ~WriterGone
    BY <2>2 DEF WriterGone
  <2> QED
    BY <2>5, <2>6, <2>7
<1>3. CASE WritePacket
  <2> DEFINE p == writer.packet
  <2>1. /\ writer.state = "writing" /\ writer' = [writer EXCEPT !.state = "written"]
        /\ file' = Append(file, p) /\ UNCHANGED <<packets, visible>>
    BY <1>3 DEF WritePacket
  <2>2. p \in Item /\ InHand = <<p>>
    BY <2>1 DEF OutputInv, InHand
  <2>3. /\ DOMAIN writer' = {"state", "packet"} /\ writer'.state = "written"
    BY <2>1 DEF OutputInv
  <2>4. InHand' = <<>>
    BY <2>3 DEF InHand
  <2>5. file' \in Seq(Item) /\ file' = file \o <<p>>
    BY <1>1, <2>1, <2>2, AppendProperties, AppendIsConcat
  <2>6. Document' = Document
    BY <1>1, <2>1, <2>2, <2>4, <2>5, ConcatEmptySeq DEF Document
  <2>7. Cardinality(Records(file)) <= Cardinality(Records(file'))
    BY <1>1, <2>1, <2>2, RecordsAreFinite
  <2>8. Cardinality(Records(file)) \in Nat /\ Cardinality(Records(file')) \in Nat
    BY <1>1, <2>5, RecordsAreFinite
  <2>9. OutputInv'
    BY <1>0, <2>1, <2>3, <2>5, <2>7, <2>8 DEF OutputInv, WriterStates, WriterGone
  <2>10. ~WriterGone
    BY <2>1 DEF WriterGone
  <2> QED
    BY <2>6, <2>9, <2>10
<1>4. CASE Publish
  <2>1. /\ writer.state = "written" /\ writer' = [state |-> "idle", packet |-> NoPacket]
        /\ visible' = Cardinality(Records(file)) /\ UNCHANGED <<packets, file>>
    BY <1>4 DEF Publish
  <2>2. InHand = <<>> /\ InHand' = <<>> /\ ~WriterGone
    BY <2>1 DEF InHand, WriterGone
  <2>3. Document' = Document
    BY <2>1, <2>2 DEF Document
  <2>4. Cardinality(Records(file)) \in Nat
    BY <1>1, RecordsAreFinite
  <2>5. OutputInv'
    BY <1>0, <2>1, <2>4 DEF OutputInv, WriterStates, WriterGone
  <2> QED
    BY <2>2, <2>3, <2>5
<1>5. CASE FailWrite \/ TellFailure \/ EndWriter
  <2>1. /\ \E state \in {"failing", "error", "ok"} : writer' = [writer EXCEPT !.state = state]
        /\ packets' = <<>> /\ UNCHANGED <<file, visible>>
    BY <1>5 DEF FailWrite, TellFailure, EndWriter, OutputInv, WriterGone
  <2>2. DOMAIN writer' = {"state", "packet"} /\ writer'.state \in {"failing", "error", "ok"}
    BY <2>1 DEF OutputInv
  <2>3. OutputInv' /\ WriterGone'
    BY <1>0, <2>1, <2>2, EmptySeq DEF OutputInv, WriterStates, WriterGone
  <2>4. Document' = file
    BY <1>1, <2>1, <2>2, EmptySeq, ConcatEmptySeq DEF Document, InHand
  <2> QED
    BY <2>3, <2>4
<1> QED
  BY <1>2, <1>3, <1>4, <1>5 DEF WriterStep

-------------------------------------------------------------------------------
(* What the loop does to its locals *)

\* s has handed over what r has.  It may have stopped recording and then have
\* dropped the record that waits.
Keeps(r, s) ==
  /\ Formed(s)
  /\ s.ctl.next_id >= r.ctl.next_id
  /\ s.encoded = r.encoded
  /\ s.pending = r.pending \/ (s.pending = NoPacket /\ ~Recording(s))
  /\ Waiting(s) => s.stopping = r.stopping
  /\ r.stopping => s.stopping
  /\ r.reason # "none" => s.reason # "none"
  /\ Recording(s) =>
       Recording(r) /\ s.session.seq = r.session.seq /\ ActiveId(s.ctl) = ActiveId(r.ctl)

LEMMA NextIds ==
  ASSUME NEW r, Formed(r)
  PROVE  r.ctl.next_id \in Nat /\ r.ctl.next_id \in 0 .. MaxId
  BY SoundFields, ControllerAssumption DEF Formed

LEMMA KeepsSelf ==
  ASSUME NEW r, Formed(r)
  PROVE  Keeps(r, r)
  BY NextIds DEF Keeps

LEMMA KeepsTwice ==
  ASSUME NEW r, NEW s, NEW t, Formed(r), Keeps(r, s), Keeps(s, t)
  PROVE  Keeps(r, t)
  BY NextIds DEF Keeps, Waiting, Recording

LEMMA FailKeeps ==
  ASSUME NEW r, Formed(r), NEW code, code # "none"
  PROVE  Keeps(r, Fail(r, code)) /\ Fail(r, code).published = r.published
         /\ Fail(r, code).stopping = r.stopping /\ Fail(r, code).pc = r.pc
         /\ Fail(r, code).ctl = r.ctl /\ Fail(r, code).failure # "none"
  BY NextIds DEF Fail, Keeps, Formed, RunFields, Recording, Waiting

LEMMA AtKeeps ==
  ASSUME NEW r, Formed(r), NEW pc
  PROVE  Keeps(r, At(r, pc)) /\ At(r, pc).published = r.published
         /\ At(r, pc).stopping = r.stopping /\ At(r, pc).pc = pc
         /\ At(r, pc).ctl = r.ctl
  BY NextIds DEF At, Keeps, Formed, RunFields, Recording, Waiting

LEMMA SeeWriterKeeps ==
  ASSUME NEW r, Formed(r)
  PROVE  Keeps(r, SeeWriter(r)) /\ SeeWriter(r).published = r.published
         /\ SeeWriter(r).stopping = r.stopping
<1> DEFINE s == Fail(r, "output_error")
<1>1. Keeps(r, s) /\ s.published = r.published /\ s.stopping = r.stopping
  BY FailKeeps
<1>2. Keeps(r, r)
  BY KeepsSelf
<1> HIDE DEF s
<1>3. Keeps(s, [s EXCEPT !.done = TRUE]) /\ [s EXCEPT !.done = TRUE].published = s.published
      /\ [s EXCEPT !.done = TRUE].stopping = s.stopping
  BY <1>1, NextIds DEF Keeps, Formed, RunFields, Recording, Waiting
<1> QED
  BY <1>1, <1>2, <1>3, KeepsTwice DEF SeeWriter, s

LEMMA BeginStopKeeps ==
  ASSUME NEW r, Formed(r), NEW reason, reason # "none"
  PROVE  Keeps(r, BeginStop(r, reason)) /\ BeginStop(r, reason).published = r.published
<1> DEFINE c == Request(r.ctl, "Closed", FALSE)
<1>1. Sound(c) /\ c.next_id = r.ctl.next_id
  BY RequestIsSound, RequestView DEF Formed, Intent, Asked
<1> HIDE DEF c
<1>2. BeginStop(r, reason)
        = [r EXCEPT !.reason = reason, !.stopping = TRUE, !.left = STOP_WAIT,
                    !.pending = NoPacket, !.ctl = c,
                    !.stopped = r.stopped \/ r.handle # NoId]
  BY DEF BeginStop, c
<1> QED
  BY <1>1, <1>2, NextIds DEF Keeps, Formed, RunFields, Recording, Waiting

LEMMA JudgedKeeps ==
  ASSUME NEW r, Formed(r)
  PROVE  Keeps(r, Judged(r)) /\ Judged(r).published = r.published
         /\ Judged(r).stopping = r.stopping
  BY FailKeeps, KeepsSelf DEF Judged

LEMMA EndedKeeps ==
  ASSUME NEW r, Formed(r)
  PROVE  Keeps(r, Ended(r)) /\ Ended(r).published = r.published
         /\ Ended(r).stopping = r.stopping /\ Ended(r).pc = "ended"
<1> DEFINE s == IF r.done \/ writer.state = "ok" THEN r
                ELSE Fail(r, IF writer.state = "error" THEN "output_error"
                             ELSE "output_backpressure")
<1>1. Keeps(r, s) /\ s.published = r.published /\ s.stopping = r.stopping
  BY FailKeeps, KeepsSelf
<1> HIDE DEF s
<1>2. Ended(r) = At(s, "ended")
  BY DEF Ended, s
<1> QED
  BY <1>1, <1>2, AtKeeps, KeepsTwice DEF Keeps

LEMMA WatchedKeeps ==
  ASSUME NEW r, Formed(r), NEW beat \in BOOLEAN, NEW written \in BOOLEAN
  PROVE  LET s == Watched(r, beat, written) IN
         /\ Keeps(r, s) /\ s.published \in {r.published, visible}
         /\ s.ctl = r.ctl
<1> DEFINE b == IF Status(r.ctl) = "Failed" THEN Fail(r, "adb_error") ELSE r
           c == [b EXCEPT !.published = visible]
           d == Fail(b, "status_error")
<1>1. Keeps(r, b) /\ b.published = r.published /\ b.ctl = r.ctl
  BY FailKeeps, KeepsSelf
<1> HIDE DEF b
<1>2. Keeps(b, c) /\ c.published = visible /\ c.ctl = b.ctl
  BY <1>1, NextIds DEF Keeps, Formed, RunFields, Recording, Waiting
<1>3. Keeps(b, d) /\ d.published = b.published /\ d.ctl = b.ctl
  BY <1>1, FailKeeps DEF Keeps
<1>4. Keeps(r, c) /\ Keeps(r, d)
  BY <1>1, <1>2, <1>3, KeepsTwice
<1> HIDE DEF c, d
<1>5. Watched(r, beat, written) = IF beat /\ ~written THEN d ELSE IF beat THEN c ELSE b
  BY DEF Watched, b, c, d
<1> QED
  BY <1>1, <1>2, <1>3, <1>4, <1>5

\* What stays coherent when the locals only keep what was handed over.
LEMMA KeepsCoherent ==
  ASSUME NEW r, NEW s, NEW doc, NEW ch, NEW q, NEW open \in BOOLEAN,
         Coherent(r, doc, ch, q, open), Keeps(r, s), s.ctl.next_id = r.ctl.next_id,
         s.pc \in {"finish", "footer", "join", "ended"} => s.stopping,
         s.pc = "footer" => s.closing \in FooterItem /\ s.closing.count = s.encoded
  PROVE  Coherent(s, doc, ch, q, open)
<1>1. Counted(s)
  BY DEF Coherent, Counted, Keeps, Recording, Waiting, Handed
<1>2. open => InStep(s, doc, ch, q)
  <2>1. Recording(s) => Newest(s, doc) = Newest(r, doc) /\ (HasAttempt(s.ctl) <=> HasAttempt(r.ctl))
    BY HolderIsId DEF Coherent, Counted, Keeps, Formed, Newest, Waiting
  <2> QED
    BY <2>1 DEF Coherent, InStep, Keeps, Waiting
<1> QED
  BY <1>1, <1>2 DEF Coherent

\* The record that waits is the next of the document.
LEMMA NewestFields ==
  ASSUME NEW r, NEW doc, NEW ch, NEW q, Coherent(r, doc, ch, q, TRUE)
  PROVE  /\ Len(doc) = r.encoded + 1 /\ Len(doc) \in DOMAIN doc /\ doc[Len(doc)] \in Item
         /\ doc \in Seq(Item)
         /\ Newest(r, doc) \in Item
         /\ Newest(r, doc).kind = "record" =>
              Newest(r, doc).attempt \in Id /\ Newest(r, doc).attempt <= r.ctl.next_id
<1>1. /\ doc \in Seq(Item) /\ Len(doc) \in Nat /\ DOMAIN doc = 1 .. Len(doc)
      /\ \A k \in DOMAIN doc : doc[k] \in Item
  BY ChainedFields DEF Coherent
<1>2. Len(doc) = r.encoded + 1 /\ r.encoded \in Nat
  BY CaptureRunAssumption DEF Coherent, InStep, Counted
<1>3. Len(doc) \in DOMAIN doc
  BY <1>1, <1>2
<1>4. Waiting(r) => r.pending \in RecordItem /\ r.pending.attempt <= r.ctl.next_id
  BY DEF Coherent, Counted
<1>5. doc[Len(doc)].kind = "record" => doc[Len(doc)].attempt <= r.ctl.next_id
  BY <1>3 DEF Coherent, Chained
<1> QED
  BY <1>1, <1>2, <1>3, <1>4, <1>5, ItemFields DEF Newest, Item, RecordItem

\* try_send: the record that waited is now the last of the document.
LEMMA OfferedCoherent ==
  ASSUME NEW r, NEW doc, NEW ch, NEW q, NEW open \in BOOLEAN, open = ~WriterGone,
         r.pc = "turn", Coherent(r, doc, ch, q, open)
  PROVE  LET s == Offered(r) IN
         /\ Coherent(s, IF Sends(r) THEN Append(doc, r.pending) ELSE doc, ch, q, open)
         /\ s.pc = "turn" /\ s.published = r.published
         /\ Sends(r) => r.pending \in Item
<1> DEFINE s == Offered(r)
<1>0. Formed(r) /\ Counted(r)
  BY DEF Coherent, Counted
<1>1. CASE ~Sends(r) /\ (r.pending = NoPacket \/ ~WriterGone)
  BY <1>1 DEF Sends, Offered
<1>2. CASE r.pending # NoPacket /\ WriterGone
  <2> DEFINE b == [r EXCEPT !.pending = NoPacket]
  <2>1. Formed(b) /\ DOMAIN b = RunFields /\ b.pc = "turn" /\ b.published = r.published
    BY <1>0 DEF Formed, RunFields
  <2>2. s = Fail(b, "output_error")
    BY <1>2 DEF Offered
  <2>3. /\ b.pending = NoPacket /\ b.ctl = r.ctl /\ b.encoded = r.encoded
        /\ b.reason = r.reason /\ b.stopping = r.stopping
    BY <1>0 DEF Formed, RunFields
  <2> HIDE DEF s, b
  <2>4. Keeps(b, s) /\ s.published = b.published /\ s.pc = "turn" /\ s.ctl = b.ctl
        /\ s.failure # "none"
    BY <2>1, <2>2, FailKeeps
  <2>5. Keeps(r, s)
    BY <1>0, <2>3, <2>4, NextIds DEF Keeps, Recording, Waiting
  <2>6. Coherent(s, doc, ch, q, open)
    BY <1>0, <2>3, <2>4, <2>5, KeepsCoherent
  <2> QED
    BY <1>2, <2>1, <2>3, <2>4, <2>6 DEF Sends, s
<1>3. CASE Sends(r)
  <2> DEFINE b == [r EXCEPT !.pending = NoPacket, !.encoded = @ + 1]
             longer == Append(doc, r.pending)
  <2>1. /\ DOMAIN b = RunFields /\ b.pending = NoPacket /\ b.encoded = r.encoded + 1
        /\ b.ctl = r.ctl /\ b.session = r.session /\ b.reason = r.reason
        /\ b.failure = r.failure /\ b.stopping = r.stopping /\ b.pc = r.pc
        /\ b.published = r.published
    BY <1>0 DEF Formed, RunFields
  <2>2. s = IF b.encoded >= MAX_ENTRIES THEN [b EXCEPT !.reason = "max_entries"] ELSE b
    BY <1>3 DEF Offered, Sends
  <2> HIDE DEF b
  <2>3. /\ DOMAIN s = RunFields /\ s.pending = NoPacket /\ s.encoded = r.encoded + 1
        /\ s.ctl = r.ctl /\ s.session = r.session
        /\ s.failure = r.failure /\ s.stopping = r.stopping /\ s.pc = "turn"
        /\ s.published = r.published
        /\ s.reason = r.reason \/ s.reason = "max_entries"
        /\ r.encoded + 1 >= MAX_ENTRIES => s.reason = "max_entries"
    BY <2>1, <2>2 DEF RunFields
  <2> HIDE DEF s
  <2>4. /\ Waiting(r) /\ r.pending \in RecordItem /\ r.pending \in Item
        /\ r.pending.kind = "record" /\ r.pending.seq = r.encoded + 1
        /\ r.pending.attempt <= r.ctl.next_id /\ r.encoded < MAX_ENTRIES
        /\ ~Waiting(s) /\ r.encoded \in Nat
    BY <1>0, <1>3, <2>3, CaptureRunAssumption
       DEF Sends, Waiting, Counted, RecordItem, Item
  <2>5. open
    BY <1>3 DEF Sends
  <2>6. Len(doc) = r.encoded + 1 /\ doc \in Seq(Item)
    BY <2>5, NewestFields
  <2>7. Chained(longer, ch, r.ctl.next_id)
    <3>1. doc[Len(doc)].kind # "footer" /\ Follows(doc[Len(doc)], r.pending, ch)
      BY <2>4, <2>5 DEF Coherent, InStep
    <3> QED
      BY <1>0, <2>4, <2>6, <3>1, ChainedAppend, NextIds, CaptureRunAssumption
         DEF Coherent
  <2>8. Len(longer) = r.encoded + 2 /\ longer[Len(longer)] = r.pending
    BY <2>4, <2>6, AppendProperties
  <2> HIDE DEF longer
  <2>9. Counted(s)
    BY <1>0, <2>3, <2>4, CaptureRunAssumption
       DEF Counted, Formed, Recording, Waiting, Handed
  <2>10. InStep(s, longer, ch, q)
    <3>1. Newest(s, longer) = r.pending /\ Newest(r, doc) = r.pending
      BY <2>4, <2>8 DEF Newest
    <3>2. Recording(s) => Recording(r)
      BY <2>3 DEF Recording
    <3> QED
      BY <2>3, <2>4, <2>5, <2>8, <3>1, <3>2 DEF InStep, Coherent
  <2>11. Coherent(s, longer, ch, q, open)
    BY <2>3, <2>7, <2>9, <2>10 DEF Coherent
  <2> QED
    BY <1>3, <2>3, <2>4, <2>11 DEF s, longer
<1> QED
  BY <1>1, <1>2, <1>3 DEF Sends

\* What the children do leaves the document and the locals coherent.
LEMMA FrozenCoherent ==
  ASSUME NEW r, NEW doc, NEW ch, NEW q, NEW open \in BOOLEAN, NEW new, NEW rest,
         Coherent(r, doc, ch, q, open), Frozen(ch, new, r.ctl.next_id),
         ChannelInv(new, rest, r.ctl.next_id),
         \A j \in Id, taken \in Nat : OnItsWay(j, taken, ch, q) => OnItsWay(j, taken, new, rest)
  PROVE  Coherent(r, doc, new, rest, open)
<1>1. Counted(r) /\ Formed(r) /\ r.ctl.next_id \in Nat
  BY NextIds DEF Coherent, Counted
<1>2. Chained(doc, new, r.ctl.next_id)
  BY <1>1, ChainedFrozen DEF Coherent
<1>3. ASSUME open
      PROVE  InStep(r, doc, new, rest)
  <2> DEFINE item == Newest(r, doc)
             i == ActiveId(r.ctl)
  <2>1. /\ doc[Len(doc)] \in Item /\ item \in Item
        /\ item.kind = "record" => item.attempt \in Id /\ item.attempt <= r.ctl.next_id
    BY <1>3, NewestFields
  <2>2. Waiting(r) => Follows(doc[Len(doc)], r.pending, new)
    <3> SUFFICES ASSUME Waiting(r)
                 PROVE  Follows(doc[Len(doc)], r.pending, new)
      OBVIOUS
    <3>1. r.pending \in RecordItem /\ r.pending.attempt <= r.ctl.next_id
      BY <1>1 DEF Counted
    <3>2. Follows(doc[Len(doc)], r.pending, ch)
      BY <1>3 DEF Coherent, InStep
    <3> QED
      BY <1>1, <2>1, <3>1, <3>2, FollowsFrozen
  <2>3. ASSUME Recording(r)
        PROVE  /\ item.kind = "record" /\ item.attempt # i => Exhausted(item.attempt, item.line, new)
               /\ HasAttempt(r.ctl) => OnItsWay(i, TakenOf(i, item), new, rest)
    <3>1. /\ item.kind = "record" /\ item.attempt # i => Exhausted(item.attempt, item.line, ch)
          /\ HasAttempt(r.ctl) => OnItsWay(i, TakenOf(i, item), ch, q)
      BY <1>3, <2>3 DEF Coherent, InStep
    <3>2. TakenOf(i, item) \in Nat
      BY <2>1, ItemFields DEF TakenOf
    <3>3. HasAttempt(r.ctl) => i \in Id
      BY <1>1, SoundFields DEF Formed, ActiveId, Attempt
    <3> HIDE DEF i, item
    <3> QED
      BY <2>1, <3>1, <3>2, <3>3 DEF Exhausted, Frozen
  <2> QED
    BY <1>3, <2>2, <2>3 DEF InStep, Coherent
<1> QED
  BY <1>1, <1>2, <1>3 DEF Coherent

\* A number that is used up without a process.
LEMMA SkippedCoherent ==
  ASSUME NEW r, NEW s, NEW doc, NEW ch, NEW q, NEW open \in BOOLEAN,
         Coherent(r, doc, ch, q, open), Keeps(r, s), s.ctl.next_id = r.ctl.next_id + 1,
         ~Recording(s), s.pc \notin {"finish", "footer", "join", "ended"}
  PROVE  Coherent(s, doc, ch, q, open)
<1>1. Counted(r) /\ Formed(r) /\ r.ctl.next_id \in Nat
  BY NextIds DEF Coherent, Counted
<1>2. Counted(s)
  <2>1. r.pending \in RecordItem => r.pending.attempt \in Nat
    BY DEF RecordItem, Id
  <2> QED
    BY <1>1, <2>1 DEF Counted, Keeps, Recording, Waiting, Handed
<1>3. ChannelInv(ch, q, s.ctl.next_id)
  BY <1>1, SkippedKeepsChannel DEF Coherent
<1>4. Frozen(ch, ch, r.ctl.next_id)
  BY DEF Frozen
<1>5. Chained(doc, ch, s.ctl.next_id)
  BY <1>1, <1>4, ChainedFrozen DEF Coherent
<1>6. open => InStep(s, doc, ch, q)
  BY DEF Coherent, InStep, Keeps, Waiting
<1> QED
  BY <1>2, <1>3, <1>5, <1>6 DEF Coherent

\* poll and a start.
Launched(r, s, succeeded) ==
  /\ Formed(s) /\ r.ctl.next_id + 1 \in Id
  /\ s.ctl.next_id = r.ctl.next_id + 1 /\ s.session.seq = r.session.seq
  /\ ~HasAttempt(r.ctl)
  /\ IF succeeded THEN ActiveId(s.ctl) = s.ctl.next_id ELSE ~HasAttempt(s.ctl)
  /\ s.encoded = r.encoded /\ s.pending = r.pending /\ s.stopping = r.stopping
  /\ s.reason = r.reason /\ s.failure = r.failure /\ s.published = r.published
  /\ s.pc = r.pc

LEMMA LaunchFields ==
  ASSUME NEW r, Formed(r), PollStarts(r.ctl, TRUE), NEW outcome, NEW cancelled
  PROVE  Launched(r, Launch(r, outcome, cancelled), outcome = "ok")
<1> DEFINE id == r.ctl.next_id + 1
           c == Poll(r.ctl, TRUE)
           b == [r EXCEPT !.ctl = c, !.session = BeginAttempt(r.session)]
           ok == [b EXCEPT !.handle = id, !.stopped = FALSE]
           bad == [b EXCEPT !.ctl = Exited(c, id), !.backend_error = b.backend_error \/ ~cancelled]
<1>1. /\ Sound(c) /\ Granted(r.ctl, c)
  <2>1. ~IsStopping(r.ctl)
    BY DEF PollStarts, PollLaunches, Due, IsStopping
  <2>2. c.next_id = id
    BY <2>1 DEF Poll, Controlled
  <2>3. r.ctl.next_id \in Nat
    BY NextIds
  <2>4. SameView(r.ctl, c) \/ Granted(r.ctl, c)
    BY PollView DEF Formed
  <2>5. Sound(c)
    BY PollIsSound DEF Formed
  <2> HIDE DEF c
  <2> QED
    BY <2>2, <2>3, <2>4, <2>5 DEF SameView
<1>2. id \in Id /\ id \in Nat
  BY <1>1, NextIds, ControllerAssumption DEF Granted, Id
<1>3. BeginAttempt(r.session).seq = r.session.seq
  BY DEF BeginAttempt, SessionOf
<1>4. Sound(Exited(c, id)) /\ Exited(c, id).next_id = c.next_id /\ ~HasAttempt(Exited(c, id))
  <2>1. Sound(Exited(c, id)) /\ (Exited(c, id) = c \/ Released(c, Exited(c, id)))
    BY <1>1, ExitedIsSound, ExitedView
  <2> HIDE DEF c
  <2>2. HasAttempt(c) /\ ActiveId(c) = id
    BY <1>1, <1>2, HolderIsId DEF Granted, Id
  <2>3. c.next_id = id
    BY <1>1 DEF Granted
  <2>4. ~HasAttempt(Exited(c, id))
    <3>1. StoppedExit(c).phase.tag \in {"Failed", "Idle"}
      BY DEF StoppedExit, Controlled, Failed, Idle
    <3>2. UnexpectedExit(c).phase.tag \in {"Failed", "Idle", "Backoff"}
      BY DEF UnexpectedExit, Controlled, Failed, Idle, Backoff
    <3> HIDE DEF id
    <3> QED
      BY <2>2, <3>1, <3>2 DEF Exited, HasAttempt, IsActive, IsStopping
  <2> QED
    BY <2>1, <2>4 DEF Released
<1> DEFINE gone == Exited(c, id)
           begun == BeginAttempt(r.session)
<1> HIDE DEF c, gone, begun
<1>5. DOMAIN b = RunFields /\ b.ctl = c /\ b.session = begun
      /\ b.encoded = r.encoded /\ b.pending = r.pending /\ b.stopping = r.stopping
      /\ b.reason = r.reason /\ b.failure = r.failure /\ b.published = r.published
      /\ b.pc = r.pc
  BY DEF Formed, RunFields, begun
<1> HIDE DEF b
<1>6. DOMAIN ok = RunFields /\ ok.ctl = c /\ ok.session = begun
      /\ ok.encoded = r.encoded /\ ok.pending = r.pending /\ ok.stopping = r.stopping
      /\ ok.reason = r.reason /\ ok.failure = r.failure /\ ok.published = r.published
      /\ ok.pc = r.pc
  BY <1>5 DEF RunFields
<1>7. DOMAIN bad = RunFields /\ bad.ctl = gone /\ bad.session = begun
      /\ bad.encoded = r.encoded /\ bad.pending = r.pending /\ bad.stopping = r.stopping
      /\ bad.reason = r.reason /\ bad.failure = r.failure /\ bad.published = r.published
      /\ bad.pc = r.pc
  BY <1>5 DEF RunFields, gone
<1>8. Launch(r, outcome, cancelled) = IF outcome = "ok" THEN ok ELSE bad
  BY <1>5 DEF Launch, ok, bad, b, c
<1> HIDE DEF ok, bad
<1> QED
  BY <1>1, <1>2, <1>3, <1>4, <1>6, <1>7, <1>8 DEF Launched, Formed, gone, begun, Granted

\* The new attempt has all its lines before it.
LEMMA LaunchedCoherent ==
  ASSUME NEW r, NEW doc, NEW ch, NEW q, NEW open \in BOOLEAN,
         Coherent(r, doc, ch, q, open), r.pc = "turn", PollStarts(r.ctl, TRUE),
         NEW outcome \in StartOutcome, NEW cancelled
  PROVE  LET new == [ch EXCEPT ![r.ctl.next_id + 1] = ChildOf(outcome)]
         IN Coherent(Launch(r, outcome, cancelled), doc, new, q, open)
<1> DEFINE s == Launch(r, outcome, cancelled)
           n == r.ctl.next_id
           new == [ch EXCEPT ![n + 1] = ChildOf(outcome)]
<1>1. Counted(r) /\ Formed(r) /\ n \in Nat
  BY NextIds DEF Coherent, Counted
<1>2. /\ Formed(s) /\ n + 1 \in Id
      /\ s.ctl.next_id = n + 1 /\ s.session.seq = r.session.seq
      /\ ~HasAttempt(r.ctl)
      /\ IF outcome = "ok" THEN ActiveId(s.ctl) = s.ctl.next_id ELSE ~HasAttempt(s.ctl)
      /\ s.encoded = r.encoded /\ s.pending = r.pending /\ s.stopping = r.stopping
      /\ s.reason = r.reason /\ s.failure = r.failure /\ s.published = r.published
      /\ s.pc = "turn"
  <2>1. Launched(r, s, outcome = "ok")
    BY <1>1, LaunchFields
  <2> HIDE DEF s
  <2> QED
    BY <2>1 DEF Launched
<1> HIDE DEF s
<1>3. /\ ChannelInv(new, q, n + 1)
      /\ Frozen(ch, new, n)
      /\ outcome = "ok" => OnItsWay(n + 1, 0, new, q)
  BY <1>1, <1>2, LaunchKeepsChannel DEF Coherent
<1> HIDE DEF new
<1>4. Chained(doc, new, n + 1)
  BY <1>1, <1>3, ChainedFrozen DEF Coherent
<1>5. Counted(s)
  <2>1. r.pending \in RecordItem => r.pending.attempt \in Nat
    BY DEF RecordItem, Id
  <2> QED
    BY <1>1, <1>2, <2>1 DEF Counted, Recording, Waiting, Handed
<1>6. ASSUME open
      PROVE  InStep(s, doc, new, q)
  <2> DEFINE item == Newest(r, doc)
  <2>1. /\ doc[Len(doc)] \in Item /\ item \in Item
        /\ item.kind = "record" => item.attempt \in Id /\ item.attempt <= n
    BY <1>6, NewestFields
  <2>2. Newest(s, doc) = item
    BY <1>2 DEF Newest, Waiting
  <2>3. Waiting(r) => Follows(doc[Len(doc)], r.pending, new)
    <3> SUFFICES ASSUME Waiting(r)
                 PROVE  Follows(doc[Len(doc)], r.pending, new)
      OBVIOUS
    <3>1. r.pending \in RecordItem /\ r.pending.attempt <= n
      BY <1>1 DEF Counted
    <3>2. Follows(doc[Len(doc)], r.pending, ch)
      BY <1>6 DEF Coherent, InStep
    <3> QED
      BY <1>1, <1>3, <2>1, <3>1, <3>2, FollowsFrozen
  <2>4. ASSUME Recording(r), item.kind = "record"
        PROVE  Exhausted(item.attempt, item.line, new)
    <3>1. ActiveId(r.ctl) \notin Id
      BY <1>2, ControllerAssumption DEF ActiveId, NoId, Id
    <3>2. Exhausted(item.attempt, item.line, ch)
      BY <1>6, <2>1, <2>4, <3>1 DEF Coherent, InStep
    <3> QED
      BY <1>3, <2>1, <2>4, <3>2 DEF Exhausted, Frozen
  <2>5. Recording(s) <=> Recording(r)
    BY <1>2 DEF Recording
  <2>6. HasAttempt(s.ctl) => outcome = "ok" /\ TakenOf(n + 1, item) = 0
    BY <1>1, <1>2, <2>1 DEF TakenOf, Id
  <2> HIDE DEF item
  <2> QED
    BY <1>2, <1>3, <1>6, <2>2, <2>3, <2>4, <2>5, <2>6 DEF InStep, Coherent, Waiting
<1>7. Coherent(s, doc, new, q, open)
  BY <1>2, <1>3, <1>4, <1>5, <1>6 DEF Coherent
<1> QED
  BY <1>7 DEF s, new

\* poll without a start.
LEMMA PollKeeps ==
  ASSUME NEW r, Formed(r), ~PollStarts(r.ctl, TRUE)
  PROVE  LET s == [r EXCEPT !.ctl = Poll(r.ctl, TRUE)] IN
         /\ Keeps(r, s) /\ s.ctl.next_id = r.ctl.next_id /\ s.published = r.published
         /\ s.pc = r.pc
<1> DEFINE c == Poll(r.ctl, TRUE)
<1>1. c.next_id = r.ctl.next_id
  <2>1. \A p : [r.ctl EXCEPT !.phase = p].next_id = r.ctl.next_id
    BY PhaseChange DEF Formed
  <2> QED
    BY <2>1 DEF Poll
<1>2. Sound(c) /\ (SameView(r.ctl, c) \/ Granted(r.ctl, c))
  BY PollIsSound, PollView DEF Formed
<1>3. r.ctl.next_id \in Nat
  BY NextIds
<1> HIDE DEF c
<1>4. ActiveId(c) = ActiveId(r.ctl)
  BY <1>1, <1>2, <1>3 DEF SameView, Granted
<1> DEFINE s == [r EXCEPT !.ctl = c]
<1>5. Keeps(r, s) /\ s.ctl.next_id = r.ctl.next_id /\ s.published = r.published
      /\ s.pc = r.pc
  BY <1>1, <1>2, <1>3, <1>4 DEF Keeps, Formed, RunFields, Recording, Waiting
<1> QED
  BY <1>5 DEF c

-------------------------------------------------------------------------------
(* What the loop receives *)

LEMMA OnStartedKeeps ==
  ASSUME NEW r, Formed(r), NEW id
  PROVE  LET s == OnStarted(r, id) IN
         /\ Keeps(r, s) /\ s.ctl.next_id = r.ctl.next_id /\ s.published = r.published
         /\ s.pc = r.pc
<1> DEFINE c == Started(r.ctl, id)
           begun == StreamStarted(r.session)
           bad == [r EXCEPT !.failure = "identity_exhausted"]
           good == [r EXCEPT !.session = begun, !.ctl = c, !.ready = TRUE]
<1>1. Sound(c) /\ SameView(r.ctl, c)
  BY StartedIsSound, AgedView DEF Formed, Started, StartedCounts, SameView
<1>2. begun.seq = r.session.seq
  BY DEF StreamStarted, SessionOf
<1> HIDE DEF c, begun
<1>3. Keeps(r, bad) /\ bad.ctl = r.ctl /\ bad.published = r.published /\ bad.pc = r.pc
  BY NextIds DEF Keeps, Formed, RunFields, Recording, Waiting
<1>4. Keeps(r, good) /\ good.ctl = c /\ good.published = r.published /\ good.pc = r.pc
  BY <1>1, <1>2, NextIds DEF Keeps, Formed, RunFields, Recording, Waiting, SameView
<1> HIDE DEF bad, good
<1>5. OnStarted(r, id) = IF ~CanStartStream(r.session) THEN bad ELSE good
  BY DEF OnStarted, bad, good, c, begun
<1> QED
  BY <1>1, <1>3, <1>4, <1>5 DEF SameView

\* An event that brings no line to the recording.
LEMMA StillCoherent ==
  ASSUME NEW r, NEW doc, NEW ch, NEW q, NEW open \in BOOLEAN,
         Coherent(r, doc, ch, q, open), q # <<>>,
         ~Recording(r) \/ ActiveId(r.ctl) # Head(q).id \/ Head(q).kind # "Entry"
  PROVE  Coherent(r, doc, ch, Tail(q), open)
<1>1. r.ctl.next_id \in Nat
  BY NextIds DEF Coherent, Counted
<1>2. ChannelInv(ch, Tail(q), r.ctl.next_id)
  BY <1>1, ReceivedKeepsChannel DEF Coherent
<1>3. ASSUME open
      PROVE  InStep(r, doc, ch, Tail(q))
  <2>1. ASSUME Recording(r), HasAttempt(r.ctl)
        PROVE  LET i == ActiveId(r.ctl)
               IN OnItsWay(i, TakenOf(i, Newest(r, doc)), ch, Tail(q))
    <3> DEFINE i == ActiveId(r.ctl)
               taken == TakenOf(i, Newest(r, doc))
    <3>1. OnItsWay(i, taken, ch, q)
      BY <1>3, <2>1 DEF Coherent, InStep
    <3>2. Head(q).id # i \/ Head(q).kind # "Entry"
      BY <2>1
    <3> HIDE DEF i, taken
    <3>3. OnItsWay(i, taken, ch, Tail(q))
      BY <1>1, <3>1, <3>2, OthersOnTheirWay DEF Coherent
    <3> QED
      BY <3>3 DEF i, taken
  <2> QED
    BY <1>3, <2>1 DEF Coherent, InStep
<1> QED
  BY <1>2, <1>3 DEF Coherent

\* A line of the attempt in hand is the record that comes next.
LEMMA RecordedCoherent ==
  ASSUME NEW r, NEW s, NEW doc, NEW ch, NEW q, NEW open \in BOOLEAN,
         Coherent(r, doc, ch, q, open), q # <<>>, r.pending = NoPacket, Recording(r),
         r.pc = "receive",
         ActiveId(r.ctl) = Head(q).id, Head(q).kind = "Entry",
         Formed(s), s.ctl = r.ctl, s.encoded = r.encoded, s.reason = r.reason,
         s.failure = r.failure, s.stopping = r.stopping, s.pc = r.pc,
         s.session.seq = r.session.seq + 1,
         s.pending = RecordPacket(r.session.seq + 1, Head(q).id, Head(q).line)
  PROVE  Coherent(s, doc, ch, Tail(q), open)
<1> DEFINE i == Head(q).id
           n == r.ctl.next_id
           line == Head(q).line
           item == doc[Len(doc)]
<1>1. Counted(r) /\ Formed(r) /\ n \in Nat
  BY NextIds DEF Coherent, Counted
<1>2. ChannelInv(ch, Tail(q), n) /\ Head(q) \in Event(Id) /\ i \in Id /\ line \in Nat
  BY <1>1, ReceivedKeepsChannel, EventFields DEF Coherent
<1>3. HasAttempt(r.ctl) /\ i = n
  <2>1. i # 0
    BY <1>2, ControllerAssumption DEF Id
  <2>2. HasAttempt(r.ctl)
    BY <1>1, <2>1, HolderIsId DEF Formed
  <2> QED
    BY <1>1, <2>2, SoundFields DEF Formed, ActiveId
<1>4. /\ ~Waiting(r) /\ Waiting(s) /\ s.pending.kind = "record"
      /\ s.pending.line = line /\ s.pending.attempt = i
      /\ s.pending.seq = r.session.seq + 1 /\ s.pending \in RecordItem
  BY <1>1, <1>2 DEF Waiting, RecordPacket, NoPacket, RecordItem, Formed
<1>5. Counted(s)
  <2>1. r.encoded < MAX_ENTRIES
    BY <1>1, CaptureRunAssumption DEF Counted, Recording
  <2>2. r.session.seq = r.encoded
    BY <1>1, <1>4 DEF Counted, Handed
  <2> QED
    BY <1>1, <1>3, <1>4, <2>1, <2>2 DEF Counted, Handed, Recording
<1>6. ASSUME open
      PROVE  InStep(s, doc, ch, Tail(q))
  <2>1. /\ item \in Item
        /\ item.kind = "record" => item.attempt \in Id /\ item.attempt <= n
    BY <1>4, <1>6, NewestFields DEF Newest
  <2>2. /\ item.kind = "record" /\ item.attempt # i => Exhausted(item.attempt, item.line, ch)
        /\ OnItsWay(i, TakenOf(i, item), ch, q)
        /\ Len(doc) = r.encoded + 1 /\ item.kind # "footer"
    BY <1>3, <1>4, <1>6 DEF Coherent, InStep, Newest
  <2>3. TakenOf(i, item) \in Nat
    BY <2>1, ItemFields DEF TakenOf
  <2>4. line = TakenOf(i, item) + 1 /\ OnItsWay(i, line, ch, Tail(q))
    BY <1>1, <1>2, <2>2, <2>3, NextOnItsWay DEF Coherent
  <2>5. Follows(item, s.pending, ch)
    <3>1. item.kind = "record" /\ item.attempt # i => i > item.attempt
      BY <1>1, <1>3, <2>1 DEF Id
    <3> QED
      BY <1>4, <2>2, <2>4, <3>1 DEF Follows, TakenOf
  <2>6. Newest(s, doc) = s.pending /\ TakenOf(i, s.pending) = line
    BY <1>4 DEF Newest, TakenOf
  <2> QED
    BY <1>4, <2>2, <2>4, <2>5, <2>6 DEF InStep
<1> QED
  BY <1>2, <1>5, <1>6 DEF Coherent

LEMMA OnEntryCoherent ==
  ASSUME NEW r, NEW doc, NEW ch, NEW q, NEW open \in BOOLEAN,
         Coherent(r, doc, ch, q, open), q # <<>>, r.pending = NoPacket,
         r.pc = "receive",
         ActiveId(r.ctl) = Head(q).id, Head(q).kind = "Entry", NEW over \in BOOLEAN,
         NEW s, s = OnEntry(r, Head(q).id, Head(q).line, over)
  PROVE  Coherent(s, doc, ch, Tail(q), open) /\ s.pc = r.pc /\ s.published = r.published
<1> DEFINE b == [r EXCEPT !.received = @ + 1]
           next == Record(r.session)
           wrong == [b EXCEPT !.failure = "record_error"]
           full == [b EXCEPT !.session = next, !.reason = "max_bytes"]
           record == RecordPacket(next.seq, Head(q).id, Head(q).line)
           good == [b EXCEPT !.session = next, !.pending = record]
<1>1. Formed(r) /\ r.session.seq \in Nat
  BY DEF Coherent, Counted, Formed
<1>2. next.seq = r.session.seq + 1 /\ next.seq \in Nat
  BY <1>1 DEF Record, SessionOf
<1>3. s = IF ~Recording(r) THEN b
          ELSE IF ~CanRecord(r.session) THEN wrong ELSE IF over THEN full ELSE good
  BY DEF OnEntry, Recording
<1> HIDE DEF next
<1>4. /\ DOMAIN b = RunFields /\ b.ctl = r.ctl /\ b.session = r.session
      /\ b.encoded = r.encoded /\ b.pending = r.pending /\ b.reason = r.reason
      /\ b.failure = r.failure /\ b.stopping = r.stopping /\ b.pc = r.pc
      /\ b.published = r.published
  BY <1>1 DEF Formed, RunFields
<1> HIDE DEF b
<1>5. CASE s = b /\ ~Recording(r)
  <2>1. Keeps(r, s) /\ ~Recording(s) /\ s.ctl = r.ctl
    BY <1>1, <1>4, <1>5, NextIds DEF Keeps, Formed, Recording, Waiting
  <2>2. Coherent(s, doc, ch, q, open)
    BY <1>4, <1>5, <2>1, KeepsCoherent
  <2> QED
    BY <1>4, <1>5, <2>1, <2>2, StillCoherent
<1>6. CASE s = wrong \/ s = full
  <2>1. /\ Keeps(r, s) /\ ~Recording(s) /\ s.ctl = r.ctl /\ s.pc = r.pc
        /\ s.published = r.published
    <3>1. CASE s = wrong
      <4>1. /\ DOMAIN s = RunFields /\ s.ctl = r.ctl /\ s.session = r.session
            /\ s.encoded = r.encoded /\ s.pending = r.pending /\ s.reason = r.reason
            /\ s.failure = "record_error" /\ s.stopping = r.stopping /\ s.pc = r.pc
            /\ s.published = r.published
        BY <1>4, <3>1 DEF RunFields
      <4> QED
        BY <1>1, <4>1, NextIds DEF Keeps, Formed, Recording, Waiting
    <3>2. CASE s = full
      <4>1. /\ DOMAIN s = RunFields /\ s.ctl = r.ctl /\ s.session = next
            /\ s.encoded = r.encoded /\ s.pending = r.pending /\ s.reason = "max_bytes"
            /\ s.stopping = r.stopping /\ s.pc = r.pc
            /\ s.published = r.published
        BY <1>4, <3>2 DEF RunFields
      <4> QED
        BY <1>1, <1>2, <4>1, NextIds DEF Keeps, Formed, Recording, Waiting
    <3> QED
      BY <1>6, <3>1, <3>2
  <2>2. Coherent(s, doc, ch, q, open)
    BY <2>1, KeepsCoherent
  <2> QED
    BY <2>1, <2>2, StillCoherent
<1>7. CASE s = good /\ Recording(r)
  <2>1. /\ DOMAIN s = RunFields /\ s.ctl = r.ctl /\ s.session = next
        /\ s.encoded = r.encoded /\ s.pending = record /\ s.reason = r.reason
        /\ s.failure = r.failure /\ s.stopping = r.stopping /\ s.pc = r.pc
        /\ s.published = r.published
    BY <1>4, <1>7 DEF RunFields
  <2>2. Formed(s) /\ s.session.seq = r.session.seq + 1
        /\ s.pending = RecordPacket(r.session.seq + 1, Head(q).id, Head(q).line)
    BY <1>1, <1>2, <2>1 DEF Formed
  <2> QED
    BY <1>7, <2>1, <2>2, RecordedCoherent
<1> QED
  BY <1>3, <1>5, <1>6, <1>7

\* The exit of the attempt in hand comes after its last line.
LEMMA ReleasedCoherent ==
  ASSUME NEW r, NEW s, NEW doc, NEW ch, NEW q, NEW open \in BOOLEAN,
         Coherent(r, doc, ch, q, open), q # <<>>, r.pending = NoPacket,
         r.pc = "receive",
         ActiveId(r.ctl) = Head(q).id, Head(q).kind = "Exited",
         Formed(s), s.ctl = r.ctl \/ Released(r.ctl, s.ctl), s.session = r.session,
         s.encoded = r.encoded, s.pending = r.pending, s.stopping = r.stopping,
         r.reason # "none" => s.reason # "none", r.failure # "none" => s.failure # "none",
         s.pc = r.pc
  PROVE  Coherent(s, doc, ch, Tail(q), open)
<1> DEFINE i == Head(q).id
           n == r.ctl.next_id
           item == doc[Len(doc)]
<1>1. Counted(r) /\ Formed(r) /\ n \in Nat
  BY NextIds DEF Coherent, Counted
<1>2. Coherent(r, doc, ch, Tail(q), open)
  BY StillCoherent
<1>3. s.ctl.next_id = n
  BY DEF Released
<1>4. Recording(s) => Recording(r)
  BY DEF Recording
<1>5. Counted(s)
  BY <1>1, <1>3, <1>4 DEF Counted, Handed, Waiting
<1>6. ASSUME open
      PROVE  InStep(s, doc, ch, Tail(q))
  <2>1. ~Waiting(r) /\ ~Waiting(s) /\ Newest(r, doc) = item /\ Newest(s, doc) = item
    BY DEF Waiting, Newest
  <2>2. CASE s.ctl = r.ctl \/ ~Recording(s)
    BY <1>2, <1>4, <1>6, <2>1, <2>2 DEF Coherent, InStep
  <2>3. CASE Released(r.ctl, s.ctl) /\ Recording(s)
    <3>1. ~HasAttempt(s.ctl) /\ HasAttempt(r.ctl)
      BY <2>3 DEF Released
    <3>2. i \in Id
      BY <1>1, <3>1, SoundFields DEF Formed, ActiveId, Attempt
    <3>3. item \in Item
      BY <1>6, NewestFields
    <3>4. TakenOf(i, item) \in Nat
      BY <3>3, ItemFields DEF TakenOf
    <3>5. OnItsWay(i, TakenOf(i, item), ch, q)
      BY <1>4, <1>6, <2>1, <2>3, <3>1 DEF Coherent, InStep
    <3>6. Exhausted(i, TakenOf(i, item), ch)
      BY <1>1, <3>2, <3>4, <3>5, NothingOnItsWay DEF Coherent
    <3>7. item.kind = "record" => Exhausted(item.attempt, item.line, ch)
      BY <1>4, <1>6, <2>1, <2>3, <3>6 DEF Coherent, InStep, TakenOf
    <3> QED
      BY <1>6, <2>1, <3>1, <3>7 DEF Coherent, InStep
  <2> QED
    BY <2>2, <2>3
<1> QED
  BY <1>2, <1>3, <1>5, <1>6 DEF Coherent

LEMMA OnExitedCoherent ==
  ASSUME NEW r, NEW doc, NEW ch, NEW q, NEW open \in BOOLEAN,
         Coherent(r, doc, ch, q, open), q # <<>>, r.pending = NoPacket,
         r.pc = "receive",
         ActiveId(r.ctl) = Head(q).id, Head(q).kind = "Exited",
         NEW clean, NEW said,
         NEW s, s = OnExited(r, Head(q).id, clean, said)
  PROVE  Coherent(s, doc, ch, Tail(q), open) /\ s.pc = r.pc /\ s.published = r.published
<1> DEFINE id == Head(q).id
           done == Completed(r.ctl, id)
           gone == Exited(r.ctl, id)
           b == [r EXCEPT !.handle = NoId, !.stopped = FALSE]
           all == [b EXCEPT !.ctl = done, !.reason = "snapshot_complete"]
           c == [b EXCEPT !.ctl = gone]
           again == [c EXCEPT !.backend_error = TRUE, !.reconnects = @ + 1]
           wrong == Fail(c, "adb_error")
           Same(t) == /\ Formed(t) /\ t.session = r.session
                      /\ t.ctl = r.ctl \/ Released(r.ctl, t.ctl)
                      /\ t.encoded = r.encoded /\ t.pending = r.pending
                      /\ t.stopping = r.stopping
                      /\ r.reason # "none" => t.reason # "none"
                      /\ r.failure # "none" => t.failure # "none"
                      /\ t.pc = r.pc /\ t.published = r.published
<1>1. Formed(r)
  BY DEF Coherent, Counted
<1>2. /\ Sound(done) /\ (done = r.ctl \/ Released(r.ctl, done))
      /\ Sound(gone) /\ (gone = r.ctl \/ Released(r.ctl, gone))
  BY <1>1, CompletedIsSound, CompletedView, ExitedIsSound, ExitedView DEF Formed
<1>3. s = IF ~r.stopping /\ r.dump /\ clean THEN all
          ELSE IF ~r.stopping THEN again ELSE IF said /\ ~clean THEN wrong ELSE c
  BY DEF OnExited
<1> HIDE DEF done, gone
<1>4. /\ DOMAIN b = RunFields /\ b.ctl = r.ctl /\ b.session = r.session
      /\ b.encoded = r.encoded /\ b.pending = r.pending /\ b.reason = r.reason
      /\ b.failure = r.failure /\ b.stopping = r.stopping /\ b.pc = r.pc
      /\ b.published = r.published
  BY <1>1 DEF Formed, RunFields
<1> HIDE DEF b
<1>5. Same(all)
  <2>1. /\ DOMAIN all = RunFields /\ all.ctl = done /\ all.session = r.session
        /\ all.encoded = r.encoded /\ all.pending = r.pending /\ all.reason = "snapshot_complete"
        /\ all.failure = r.failure /\ all.stopping = r.stopping /\ all.pc = r.pc
        /\ all.published = r.published
    BY <1>4 DEF RunFields
  <2> QED
    BY <1>1, <1>2, <2>1 DEF Formed
<1>6. /\ DOMAIN c = RunFields /\ c.ctl = gone /\ c.session = r.session
      /\ c.encoded = r.encoded /\ c.pending = r.pending /\ c.reason = r.reason
      /\ c.failure = r.failure /\ c.stopping = r.stopping /\ c.pc = r.pc
      /\ c.published = r.published
  BY <1>4 DEF RunFields
<1> HIDE DEF c
<1>7. Same(c)
  BY <1>1, <1>2, <1>6 DEF Formed
<1>8. Same(again)
  <2>1. /\ DOMAIN again = RunFields /\ again.ctl = gone /\ again.session = r.session
        /\ again.encoded = r.encoded /\ again.pending = r.pending /\ again.reason = r.reason
        /\ again.failure = r.failure /\ again.stopping = r.stopping /\ again.pc = r.pc
        /\ again.published = r.published
    BY <1>6 DEF RunFields
  <2> QED
    BY <1>1, <1>2, <2>1 DEF Formed
<1>9. Same(wrong)
  <2>1. wrong = c \/ wrong = [c EXCEPT !.failure = "adb_error"]
    BY DEF Fail
  <2>2. CASE wrong = [c EXCEPT !.failure = "adb_error"]
    <3>1. /\ DOMAIN wrong = RunFields /\ wrong.ctl = gone /\ wrong.session = r.session
          /\ wrong.encoded = r.encoded /\ wrong.pending = r.pending
          /\ wrong.reason = r.reason /\ wrong.failure = "adb_error"
          /\ wrong.stopping = r.stopping /\ wrong.pc = r.pc
          /\ wrong.published = r.published
      BY <1>6, <2>2 DEF RunFields
    <3> QED
      BY <1>1, <1>2, <3>1 DEF Formed
  <2> QED
    BY <1>7, <2>1, <2>2
<1> HIDE DEF all, again, wrong
<1>10. Same(s)
  BY <1>3, <1>5, <1>7, <1>8, <1>9
<1> QED
  BY <1>10, ReleasedCoherent

LEMMA ReceivedCoherent ==
  ASSUME NEW r, NEW doc, NEW ch, NEW q, NEW open \in BOOLEAN,
         Coherent(r, doc, ch, q, open), q # <<>>, r.pending = NoPacket,
         r.pc = "receive", NEW s \in Received(r, Head(q))
  PROVE  Coherent(s, doc, ch, Tail(q), open) /\ s.pc = r.pc /\ s.published = r.published
<1> DEFINE e == Head(q)
<1>1. Formed(r) /\ r.ctl.next_id \in Nat
  BY NextIds DEF Coherent, Counted
<1>2. e \in Event(Id)
  BY <1>1, ReceivedKeepsChannel DEF Coherent
<1>3. CASE ActiveId(r.ctl) # e.id
  <2>1. s = r
    BY <1>3 DEF Received
  <2> QED
    BY <1>3, <2>1, StillCoherent
<1>4. CASE ActiveId(r.ctl) = e.id /\ e.kind = "Started"
  <2>1. s = OnStarted(r, e.id)
    BY <1>4 DEF Received
  <2>2. Coherent(r, doc, ch, Tail(q), open)
    BY <1>4, StillCoherent
  <2>3. /\ Keeps(r, s) /\ s.ctl.next_id = r.ctl.next_id /\ s.published = r.published
        /\ s.pc = r.pc
    BY <1>1, <2>1, OnStartedKeeps
  <2> QED
    BY <2>2, <2>3, KeepsCoherent
<1>5. CASE ActiveId(r.ctl) = e.id /\ e.kind = "Entry"
  <2>1. PICK over \in BOOLEAN : s = OnEntry(r, e.id, e.line, over)
    BY <1>5 DEF Received
  <2> QED
    BY <1>5, <2>1, OnEntryCoherent
<1>6. CASE ActiveId(r.ctl) = e.id /\ e.kind = "Exited"
  <2>1. PICK said \in BOOLEAN : s = OnExited(r, e.id, e.clean, said)
    BY <1>6 DEF Received
  <2> QED
    BY <1>6, <2>1, OnExitedCoherent
<1> QED
  BY <1>2, <1>3, <1>4, <1>5, <1>6, EventFields

-------------------------------------------------------------------------------
(* The steps *)

Late == {"finish", "footer", "join", "ended"}

\* A step of the loop that hands nothing over.
LEMMA KeepsDocument ==
  ASSUME DocumentInv, Keeps(run, run'), run'.ctl.next_id = run.ctl.next_id,
         UNCHANGED <<output, channel>>,
         run'.published \in {run.published, visible},
         run'.pc \in Late => run'.stopping,
         run.pc \in {"join", "ended"} => run'.pc \in {"join", "ended"},
         run'.pc = "footer" => run'.closing \in FooterItem /\ run'.closing.count = run'.encoded
  PROVE  DocumentInv'
<1>1. UNCHANGED <<packets, writer, file, visible>> /\ UNCHANGED <<child, queue>>
  BY DEF output, channel
<1>2. OutputInv'
  <2>1. visible \in Nat /\ run'.published \in Nat /\ run'.published <= visible
    BY DEF DocumentInv, OutputInv
  <2> QED
    BY <1>1, <2>1 DEF DocumentInv, OutputInv, WriterGone
<1>3. Coherent(run', Document, child, queue, Open)
  BY KeepsCoherent DEF DocumentInv, Open, Late
<1>4. Document' = Document /\ (Open' => Open)
  BY <1>1 DEF Document, InHand, Open, WriterGone
<1>5. Coherent(run', Document', child', queue', Open')
  BY <1>1, <1>3, <1>4 DEF Coherent
<1> QED
  BY <1>2, <1>5 DEF DocumentInv

LEMMA RunIsFormed ==
  ASSUME DocumentInv
  PROVE  Formed(run) /\ (run.pc \in Late => run.stopping) /\ Counted(run)
  BY DEF DocumentInv, Coherent, Counted, Late

LEMMA TopKeepsDocument == DocumentInv /\ Top => DocumentInv'
<1> SUFFICES ASSUME DocumentInv, Top
             PROVE  DocumentInv'
  OBVIOUS
<1> DEFINE r == SeeWriter(run)
           reason == StopReason(r)
           s == IF r.stopping \/ reason = "none" THEN r ELSE BeginStop(r, reason)
<1>1. Formed(run)
  BY RunIsFormed
<1>2. run' = At(s, "turn") /\ UNCHANGED <<output, channel>> /\ run.pc = "top"
  BY DEF Top
<1>3. Keeps(run, r) /\ r.published = run.published /\ r.ctl.next_id = run.ctl.next_id
  <2>1. SeeWriter(run).ctl = run.ctl
    <3>1. \A code : Fail(run, code).ctl = run.ctl /\ DOMAIN Fail(run, code) = RunFields
      BY <1>1 DEF Fail, Formed, RunFields
    <3> QED
      BY <3>1 DEF SeeWriter, RunFields
  <2> QED
    BY <1>1, <2>1, SeeWriterKeeps
<1> HIDE DEF r, reason
<1>4. Keeps(r, s) /\ s.published = r.published /\ s.ctl.next_id = r.ctl.next_id
  <2>1. CASE s = r
    BY <1>3, <2>1, KeepsSelf DEF Keeps
  <2>2. CASE s # r
    <3>1. reason # "none" /\ s = BeginStop(r, reason)
      BY <2>2
    <3>2. Keeps(r, s) /\ s.published = r.published
      BY <1>3, <3>1, BeginStopKeeps DEF Keeps
    <3>3. s.ctl = Request(r.ctl, "Closed", FALSE)
      BY <1>3, <3>1 DEF BeginStop, Keeps, Formed, RunFields
    <3>4. s.ctl.next_id = r.ctl.next_id
      BY <3>3 DEF Request, Controlled
    <3> QED
      BY <3>2, <3>4
  <2> QED
    BY <2>1, <2>2
<1> HIDE DEF s
<1>5. Keeps(run, s)
  BY <1>1, <1>3, <1>4, KeepsTwice
<1>6. Formed(s)
  BY <1>5 DEF Keeps
<1>7. Keeps(run, run') /\ run'.published = s.published /\ run'.ctl = s.ctl /\ run'.pc = "turn"
  BY <1>1, <1>2, <1>5, <1>6, AtKeeps, KeepsTwice
<1> QED
  BY <1>2, <1>3, <1>4, <1>7, KeepsDocument DEF Late

LEMMA FinishKeepsDocument == DocumentInv /\ Finish => DocumentInv'
<1> SUFFICES ASSUME DocumentInv, Finish
             PROVE  DocumentInv'
  OBVIOUS
<1> DEFINE j == Judged(run)
           b == run.handle # NoId
           r == [j EXCEPT !.stopped = @ \/ b, !.left = FLUSH_WAIT]
           c == [r EXCEPT !.closing = FooterOf(r)]
           d == Fail(r, "record_error")
<1>1. Formed(run) /\ run.pc = "finish" /\ run.stopping /\ run.encoded \in Nat
  BY RunIsFormed, CaptureRunAssumption DEF Finish, Late, Counted
<1>2. Keeps(run, j) /\ j.published = run.published /\ j.stopping = run.stopping
      /\ j.ctl = run.ctl
  BY <1>1, JudgedKeeps, FailKeeps DEF Judged
<1>3. /\ run' \in {At(r, "join"), At(c, "footer"), At(d, "join")}
      /\ UNCHANGED <<output, channel>>
  BY DEF Finish
<1> HIDE DEF j
<1>4. /\ Keeps(j, r) /\ r.published = j.published /\ r.stopping = j.stopping
      /\ r.ctl = j.ctl
  BY <1>2, NextIds DEF Keeps, Formed, RunFields, Recording, Waiting
<1>5. r.encoded \in Nat
  BY <1>1, <1>2, <1>4 DEF Keeps
<1>6. FooterOf(r) \in FooterItem /\ FooterOf(r).count = r.encoded
  BY <1>5 DEF FooterOf, Footer, FooterItem
<1> DEFINE footer == FooterOf(r)
<1> HIDE DEF r, footer
<1>7. /\ Keeps(r, c) /\ c.published = r.published /\ c.stopping = r.stopping
      /\ c.ctl = r.ctl /\ c.closing = footer /\ c.encoded = r.encoded
      /\ DOMAIN c = RunFields
  <2>1. c = [r EXCEPT !.closing = footer]
    BY DEF footer
  <2> QED
    BY <1>4, <2>1, NextIds DEF Keeps, Formed, RunFields, Recording, Waiting
<1>8. /\ Keeps(r, d) /\ d.published = r.published /\ d.stopping = r.stopping
      /\ d.ctl = r.ctl
  BY <1>4, FailKeeps DEF Keeps
<1> HIDE DEF c, d
<1>9. ASSUME NEW s \in {r, c, d}, NEW pc \in {"join", "footer"}, run' = At(s, pc),
             pc = "footer" => s = c
      PROVE  DocumentInv'
  <2>1. Keeps(run, s) /\ s.published = run.published /\ s.stopping /\ s.ctl = run.ctl
    <3>1. Keeps(run, r)
      BY <1>1, <1>2, <1>4, KeepsTwice
    <3>2. Keeps(run, c) /\ Keeps(run, d)
      BY <1>1, <1>7, <1>8, <3>1, KeepsTwice
    <3> QED
      BY <1>1, <1>2, <1>4, <1>7, <1>8, <1>9, <3>1, <3>2
  <2>2. Formed(s)
    BY <2>1 DEF Keeps
  <2>3. /\ Keeps(run, run') /\ run'.published = s.published /\ run'.stopping = s.stopping
        /\ run'.pc = pc /\ run'.ctl = s.ctl
    BY <1>1, <1>9, <2>1, <2>2, AtKeeps, KeepsTwice
  <2>4. pc = "footer" => run'.closing = c.closing /\ run'.encoded = c.encoded
    BY <1>7, <1>9 DEF At, RunFields
  <2>5. pc = "footer" => run'.closing \in FooterItem /\ run'.closing.count = run'.encoded
    BY <1>6, <1>7, <2>4 DEF footer
  <2> QED
    BY <1>1, <1>3, <1>9, <2>1, <2>3, <2>5, KeepsDocument
<1> QED
  BY <1>3, <1>9

LEMMA JoinKeepsDocument == DocumentInv /\ Join => DocumentInv'
<1> SUFFICES ASSUME DocumentInv, Join
             PROVE  DocumentInv'
  OBVIOUS
<1> DEFINE e == Ended(run)
           good == [e EXCEPT !.published = visible]
           bad == Fail(e, "status_error")
<1>1. Formed(run) /\ run.pc = "join" /\ run.stopping
  BY RunIsFormed DEF Join, Late
<1>2. run' \in {good, bad} /\ UNCHANGED <<output, channel>>
  BY DEF Join
<1>3. /\ Keeps(run, e) /\ e.published = run.published /\ e.stopping = run.stopping
      /\ e.pc = "ended"
  BY <1>1, EndedKeeps
<1>4. e.ctl = run.ctl
  <2>1. \A code : Fail(run, code).ctl = run.ctl /\ DOMAIN Fail(run, code) = RunFields
    BY <1>1 DEF Fail, Formed, RunFields
  <2> QED
    BY <1>1, <2>1 DEF Ended, At, Formed, RunFields
<1> HIDE DEF e
<1>5. /\ Keeps(e, good) /\ good.published = visible /\ good.stopping = e.stopping
      /\ good.pc = e.pc /\ good.ctl = e.ctl
  BY <1>3, NextIds DEF Keeps, Formed, RunFields, Recording, Waiting
<1>6. /\ Keeps(e, bad) /\ bad.published = e.published /\ bad.stopping = e.stopping
      /\ bad.pc = e.pc /\ bad.ctl = e.ctl
  BY <1>3, FailKeeps DEF Keeps
<1> HIDE DEF good, bad
<1>7. Keeps(run, good) /\ Keeps(run, bad)
  BY <1>1, <1>3, <1>5, <1>6, KeepsTwice
<1> QED
  BY <1>1, <1>2, <1>3, <1>4, <1>5, <1>6, <1>7, KeepsDocument

LEMMA TickKeepsDocument == DocumentInv /\ Tick => DocumentInv'
<1> SUFFICES ASSUME DocumentInv, Tick
             PROVE  DocumentInv'
  OBVIOUS
<1> DEFINE c == Elapse(run.ctl)
           left == IF run.left = 0 THEN 0 ELSE run.left - 1
<1>1. Formed(run) /\ (run.pc \in Late => run.stopping) /\ Counted(run)
  BY RunIsFormed
<1>2. Sound(c) /\ SameView(run.ctl, c)
  BY <1>1, ElapseIsSound, ElapseView DEF Formed
<1>3. run' = [run EXCEPT !.ctl = c, !.left = left] /\ UNCHANGED <<output, channel>>
  BY DEF Tick
<1> HIDE DEF c, left
<1>4. /\ Keeps(run, run') /\ run'.ctl = c /\ run'.published = run.published
      /\ run'.pc = run.pc /\ run'.stopping = run.stopping /\ run'.closing = run.closing
      /\ run'.encoded = run.encoded
  BY <1>1, <1>2, <1>3, NextIds DEF Keeps, Formed, RunFields, Recording, Waiting, SameView
<1> QED
  BY <1>1, <1>2, <1>3, <1>4, KeepsDocument DEF SameView, Counted

\* Handing over puts an item behind the others.
LEMMA SentDocument ==
  ASSUME OutputInv, ~WriterGone, packets = <<>>, NEW item \in Item,
         packets' = Append(packets, item), UNCHANGED <<writer, file, visible>>
  PROVE  /\ Document' = Append(Document, item)
         /\ packets' \in Seq(Item) /\ Len(packets') <= 1 /\ ~WriterGone'
<1>1. InHand' = InHand /\ InHand \in Seq(Item) /\ file \in Seq(Item)
  BY DocumentParts DEF InHand, OutputInv
<1>2. packets' = <<item>> /\ <<item>> \in Seq(Item)
  OBVIOUS
<1> DEFINE before == file \o InHand
<1>3. before \in Seq(Item) /\ before' = before
  BY <1>1, ConcatProperties
<1> HIDE DEF before
<1>4. Document = before /\ Document' = before \o <<item>>
  <2>1. Document = before \o <<>> /\ Document' = before' \o packets'
    BY DEF Document, before
  <2> QED
    BY <1>2, <1>3, <2>1, ConcatEmptySeq
<1>5. Append(before, item) = before \o <<item>>
  BY <1>3, AppendIsConcat
<1>6. Document' = Append(Document, item)
  BY <1>4, <1>5
<1>7. packets' \in Seq(Item) /\ Len(packets') <= 1
  BY <1>2
<1> QED
  BY <1>6, <1>7 DEF WriterGone

LEMMA SendFooterKeepsDocument == DocumentInv /\ SendFooter => DocumentInv'
<1> SUFFICES ASSUME DocumentInv, SendFooter
             PROVE  DocumentInv'
  OBVIOUS
<1> DEFINE r == [run EXCEPT !.closing = NoPacket, !.left = FLUSH_WAIT]
           d == Fail(r, "output_backpressure")
<1>1. Formed(run) /\ run.pc = "footer" /\ run.stopping /\ Counted(run)
  BY RunIsFormed DEF SendFooter, Late
<1>2. /\ Keeps(run, r) /\ r.published = run.published /\ r.stopping = run.stopping
      /\ r.ctl = run.ctl
  <2>1. /\ DOMAIN r = RunFields /\ r.ctl = run.ctl /\ r.session = run.session
        /\ r.encoded = run.encoded /\ r.pending = run.pending /\ r.reason = run.reason
        /\ r.failure = run.failure /\ r.stopping = run.stopping
        /\ r.published = run.published
    BY <1>1 DEF Formed, RunFields
  <2> HIDE DEF r
  <2> QED
    BY <1>1, <2>1, NextIds DEF Keeps, Formed, Recording, Waiting
<1>3. UNCHANGED <<writer, file, visible>> /\ UNCHANGED channel
  BY DEF SendFooter
<1>4. run' \in {At(r, "join"), At(d, "join")}
  BY DEF SendFooter
<1> HIDE DEF r
<1>5. /\ Keeps(r, d) /\ d.published = r.published /\ d.stopping = r.stopping
      /\ d.ctl = r.ctl
  BY <1>2, FailKeeps DEF Keeps
<1> HIDE DEF d
<1>6. Keeps(run, d)
  BY <1>1, <1>2, <1>5, KeepsTwice
<1>7. /\ Keeps(run, run') /\ run'.published = run.published /\ run'.stopping = run.stopping
      /\ run'.ctl = run.ctl /\ run'.pc = "join"
  <2>1. ASSUME NEW s \in {r, d}, run' = At(s, "join")
        PROVE  /\ Keeps(run, run') /\ run'.published = s.published
               /\ run'.stopping = s.stopping /\ run'.ctl = s.ctl /\ run'.pc = "join"
    <3>1. Formed(s) /\ Keeps(run, s)
      BY <1>2, <1>6 DEF Keeps
    <3> QED
      BY <1>1, <2>1, <3>1, AtKeeps, KeepsTwice
  <2> QED
    BY <1>2, <1>4, <1>5, <2>1
<1>8. CASE UNCHANGED packets
  <2>1. UNCHANGED <<output, channel>>
    BY <1>3, <1>8 DEF output
  <2> QED
    BY <1>1, <1>7, <2>1, KeepsDocument
<1>9. CASE ~WriterGone /\ HasRoom /\ packets' = Append(packets, run.closing)
  <2>1. run.closing \in FooterItem /\ run.closing.count = run.encoded
    BY <1>1 DEF Counted
  <2>2. run.closing \in Item /\ run.closing.kind = "footer"
    BY <2>1 DEF FooterItem, Item
  <2>3. /\ Document' = Append(Document, run.closing)
        /\ packets' \in Seq(Item) /\ Len(packets') <= 1 /\ ~WriterGone'
    BY <1>3, <1>9, <2>2, SentDocument DEF DocumentInv, HasRoom
  <2>4. Open
    BY <1>1, <1>9 DEF Open
  <2>5. /\ Len(Document) = run.encoded + 1 /\ Document[Len(Document)].kind # "footer"
        /\ Chained(Document, child, run.ctl.next_id) /\ run.encoded \in Nat
    BY <1>1, <2>4, CaptureRunAssumption DEF DocumentInv, Coherent, InStep, Counted
  <2>6. Chained(Append(Document, run.closing), child, run.ctl.next_id)
    <3>1. run.ctl.next_id \in Nat
      BY <1>1, NextIds
    <3>2. Len(Document) # 0 /\ run.closing.count = Len(Document) - 1
      BY <2>1, <2>5
    <3> QED
      BY <2>2, <2>5, <3>1, <3>2, ChainedAppend
  <2>7. Coherent(run', Document, child, queue, FALSE)
    <3>1. Coherent(run, Document, child, queue, FALSE)
      BY DEF DocumentInv, Coherent
    <3> QED
      BY <1>1, <1>7, <3>1, KeepsCoherent
  <2>8. UNCHANGED <<child, queue>> /\ ~Open'
    BY <1>3, <1>7 DEF channel, Open
  <2>9. Coherent(run', Document', child', queue', Open')
    BY <1>7, <2>3, <2>6, <2>7, <2>8 DEF Coherent
  <2>10. OutputInv'
    BY <1>3, <1>7, <2>3 DEF DocumentInv, OutputInv, WriterGone
  <2> QED
    BY <2>9, <2>10 DEF DocumentInv
<1> QED
  BY <1>8, <1>9 DEF SendFooter

LEMMA ReceiveKeepsDocument == DocumentInv /\ Receive => DocumentInv'
<1> SUFFICES ASSUME DocumentInv, Receive
             PROVE  DocumentInv'
  OBVIOUS
<1>1. Formed(run) /\ run.pc = "receive" /\ UNCHANGED output /\ UNCHANGED child
  BY RunIsFormed DEF Receive
<1>2. ASSUME NEW s, Coherent(s, Document, child, queue', Open), run' = At(s, "top"),
             s.published = run.published
      PROVE  DocumentInv'
  <2>1. Formed(s)
    BY <1>2 DEF Coherent, Counted
  <2>2. /\ Keeps(s, run') /\ run'.published = run.published /\ run'.pc = "top"
        /\ run'.ctl = s.ctl
    BY <1>2, <2>1, AtKeeps
  <2>3. Open \in BOOLEAN
    BY DEF Open
  <2>4. Coherent(run', Document, child, queue', Open)
    BY <1>2, <2>2, <2>3, KeepsCoherent
  <2>5. UNCHANGED <<packets, writer, file, visible>>
    BY <1>1 DEF output
  <2>6. Document' = Document /\ (Open' <=> Open)
    BY <1>1, <2>2, <2>5 DEF Document, InHand, Open, WriterGone
  <2>7. OutputInv'
    BY <2>2, <2>5 DEF DocumentInv, OutputInv, WriterGone
  <2>8. Coherent(run', Document', child', queue', Open')
    BY <1>1, <2>4, <2>6 DEF Coherent
  <2> QED
    BY <2>7, <2>8 DEF DocumentInv
<1>3. CASE run' = At(run, "top") /\ UNCHANGED queue
  <2>1. Coherent(run, Document, child, queue', Open)
    BY <1>3 DEF DocumentInv
  <2> QED
    BY <1>2, <1>3, <2>1
<1>4. CASE /\ run.pending = NoPacket /\ queue # <<>>
           /\ \E r \in Received(run, Head(queue)) : run' = At(r, "top")
           /\ queue' = Tail(queue)
  <2>1. PICK r \in Received(run, Head(queue)) : run' = At(r, "top")
    BY <1>4
  <2>2. Open \in BOOLEAN
    BY DEF Open
  <2>3. /\ Coherent(r, Document, child, Tail(queue), Open)
        /\ r.published = run.published
    BY <1>1, <1>4, <2>2, ReceivedCoherent DEF DocumentInv
  <2> QED
    BY <1>2, <1>4, <2>1, <2>3
<1> QED
  BY <1>3, <1>4 DEF Receive

LEMMA TurnKeepsDocument == DocumentInv /\ Turn => DocumentInv'
<1> SUFFICES ASSUME DocumentInv, Turn
             PROVE  DocumentInv'
  OBVIOUS
<1> DEFINE open == ~WriterGone
           r == Offered(run)
           doc == IF Sends(run) THEN Append(Document, run.pending) ELSE Document
           n == r.ctl.next_id
<1>1. Formed(run) /\ run.pc = "turn" /\ UNCHANGED <<asked, writer, file, visible, queue>>
  BY RunIsFormed DEF Turn
<1>2. Open = open
  BY <1>1 DEF Open
<1>3. /\ Coherent(r, doc, child, queue, open)
      /\ r.pc = "turn" /\ r.published = run.published
      /\ Sends(run) => run.pending \in Item
  <2>1. Coherent(run, Document, child, queue, open)
    BY <1>2 DEF DocumentInv
  <2>2. open \in BOOLEAN
    OBVIOUS
  <2> HIDE DEF open
  <2>3. open = ~WriterGone
    BY DEF open
  <2> QED
    BY <1>1, <2>1, <2>2, <2>3, OfferedCoherent
<1>4. /\ Document' = doc /\ packets' \in Seq(Item) /\ Len(packets') <= 1
      /\ (WriterGone' <=> WriterGone) /\ (WriterGone => packets' = <<>>)
  <2>1. CASE Sends(run)
    <3>1. ~WriterGone /\ packets = <<>> /\ packets' = Append(packets, run.pending)
      BY <2>1 DEF Turn, Sends, HasRoom
    <3>2. /\ Document' = Append(Document, run.pending)
          /\ packets' \in Seq(Item) /\ Len(packets') <= 1 /\ ~WriterGone'
      BY <1>1, <1>3, <2>1, <3>1, SentDocument DEF DocumentInv
    <3> QED
      BY <2>1, <3>1, <3>2
  <2>2. CASE ~Sends(run)
    <3>1. packets' = packets
      BY <2>2 DEF Turn
    <3>2. Document' = Document
      BY <1>1, <3>1 DEF Document, InHand
    <3> QED
      BY <1>1, <2>2, <3>1, <3>2 DEF DocumentInv, OutputInv, WriterGone
  <2> QED
    BY <2>1, <2>2
<1>5. Formed(r)
  BY <1>3 DEF Coherent, Counted
<1> HIDE DEF doc
<1>6. ASSUME NEW s, NEW pc \in {"top", "receive", "finish"}, run' = At(s, pc),
             Coherent(s, doc, child', queue, open), s.published \in {run.published, visible},
             pc = "finish" => s.stopping
      PROVE  DocumentInv'
  <2>1. Formed(s) /\ open \in BOOLEAN
    BY <1>6 DEF Coherent, Counted
  <2>2. /\ Keeps(s, run') /\ run'.published = s.published /\ run'.pc = pc
        /\ run'.ctl = s.ctl /\ run'.stopping = s.stopping
    BY <1>6, <2>1, AtKeeps
  <2>3. Coherent(run', doc, child', queue, open)
    BY <1>6, <2>1, <2>2, KeepsCoherent
  <2>4. Open' => open
    BY <1>4 DEF Open
  <2>5. Coherent(run', Document', child', queue', Open')
    BY <1>1, <1>4, <2>3, <2>4 DEF Coherent
  <2>6. OutputInv'
    <3>1. visible \in Nat /\ run'.published \in Nat /\ run'.published <= visible
      BY <1>6, <2>2 DEF DocumentInv, OutputInv
    <3> QED
      BY <1>1, <1>4, <3>1 DEF DocumentInv, OutputInv
  <2> QED
    BY <2>5, <2>6 DEF DocumentInv
<1> HIDE DEF r, open
<1>7. open \in BOOLEAN
  BY DEF open
<1>8. CASE StopDone(r) /\ run' = At(r, "finish") /\ UNCHANGED child
  BY <1>3, <1>6, <1>8 DEF StopDone
<1>9. CASE GivesUp(r) /\ run' = At(Fail(r, "adb_error"), "finish") /\ UNCHANGED child
  <2> DEFINE s == Fail(r, "adb_error")
  <2>1. /\ Keeps(r, s) /\ s.published = r.published /\ s.ctl = r.ctl /\ s.pc = r.pc
        /\ s.stopping = r.stopping
    BY <1>5, FailKeeps
  <2>2. run' = At(s, "finish") /\ child' = child
    BY <1>9
  <2> HIDE DEF s
  <2>3. Coherent(s, doc, child, queue, open)
    BY <1>3, <1>7, <2>1, KeepsCoherent
  <2> QED
    BY <1>3, <1>6, <1>9, <2>1, <2>2, <2>3 DEF GivesUp
<1>10. CASE /\ PollStarts(r.ctl, TRUE)
            /\ run' = At([r EXCEPT !.failure = "identity_exhausted",
                                   !.ctl = Exited(Poll(r.ctl, TRUE), n + 1)], "top")
            /\ UNCHANGED child
  <2> DEFINE c == Exited(Poll(r.ctl, TRUE), n + 1)
             s == [r EXCEPT !.failure = "identity_exhausted", !.ctl = c]
  <2>1. Sound(c) /\ c.next_id = n + 1
    <3> DEFINE p == Poll(r.ctl, TRUE)
    <3>1. Sound(p) /\ p.next_id = n + 1
      <4>1. ~IsStopping(r.ctl)
        BY <1>10 DEF PollStarts, PollLaunches, Due, IsStopping
      <4> QED
        BY <1>5, <1>10, <4>1, PollIsSound DEF Formed, Poll, Controlled
    <3> HIDE DEF p
    <3> QED
      BY <3>1, ExitedIsSound, ExitedView DEF Released, p
  <2> HIDE DEF c
  <2>2. /\ DOMAIN s = RunFields /\ s.ctl = c /\ s.session = r.session
        /\ s.encoded = r.encoded /\ s.pending = r.pending /\ s.reason = r.reason
        /\ s.failure = "identity_exhausted" /\ s.stopping = r.stopping /\ s.pc = r.pc
        /\ s.published = r.published
    BY <1>5 DEF Formed, RunFields
  <2>3. run' = At(s, "top") /\ child' = child
    BY <1>10 DEF c
  <2> HIDE DEF s
  <2>4. Keeps(r, s) /\ ~Recording(s)
    BY <1>5, <2>1, <2>2, NextIds DEF Keeps, Formed, Recording, Waiting
  <2>5. Coherent(s, doc, child, queue, open)
    BY <1>3, <1>7, <2>1, <2>2, <2>4, SkippedCoherent
  <2> QED
    BY <1>3, <1>6, <2>2, <2>3, <2>5
<1>11. ASSUME NEW s, NEW beat \in BOOLEAN, NEW written \in BOOLEAN,
              run' = At(Watched(s, beat, written), "receive"),
              Coherent(s, doc, child', queue, open), s.published = r.published,
              s.pc = "turn"
       PROVE  DocumentInv'
  <2> DEFINE w == Watched(s, beat, written)
  <2>1. Formed(s)
    BY <1>11 DEF Coherent, Counted
  <2>2. Keeps(s, w) /\ w.published \in {s.published, visible} /\ w.ctl = s.ctl
    BY <2>1, WatchedKeeps
  <2>3. w.pc = "turn"
    <3>1. \A code : Fail(s, code).pc = "turn" /\ DOMAIN Fail(s, code) = RunFields
      BY <1>11, <2>1 DEF Fail, Formed, RunFields
    <3>2. \A t : t.pc = "turn" /\ DOMAIN t = RunFields =>
            [t EXCEPT !.published = visible].pc = "turn" /\ Fail(t, "status_error").pc = "turn"
      BY DEF Fail, RunFields
    <3> QED
      BY <1>11, <2>1, <3>1, <3>2 DEF Watched, Formed
  <2> HIDE DEF w
  <2>4. Coherent(w, doc, child', queue, open)
    BY <1>7, <1>11, <2>2, <2>3, KeepsCoherent
  <2>5. run' = At(w, "receive")
    BY <1>11 DEF w
  <2> QED
    BY <1>3, <1>6, <1>11, <2>2, <2>4, <2>5
<1>12. CASE /\ PollStarts(r.ctl, TRUE)
            /\ \E beat, written \in BOOLEAN, outcome \in Outcomes :
                 /\ run' = At(Watched(Launch(r, outcome, asked \in {"interrupted", "stopped"}),
                                      beat, written), "receive")
                 /\ child' = [child EXCEPT ![n + 1] = ChildOf(outcome)]
  <2>1. PICK beat \in BOOLEAN, written \in BOOLEAN, outcome \in Outcomes :
          /\ run' = At(Watched(Launch(r, outcome, asked \in {"interrupted", "stopped"}),
                               beat, written), "receive")
          /\ child' = [child EXCEPT ![n + 1] = ChildOf(outcome)]
    BY <1>12
  <2> DEFINE cancelled == asked \in {"interrupted", "stopped"}
             s == Launch(r, outcome, cancelled)
  <2>2. outcome \in StartOutcome
    BY CaptureRunAssumption
  <2>3. run' = At(Watched(s, beat, written), "receive")
    BY <2>1
  <2> HIDE DEF cancelled
  <2>4. Coherent(s, doc, child', queue, open)
    <3>1. Coherent(s, doc, [child EXCEPT ![n + 1] = ChildOf(outcome)], queue, open)
      <4>1. PollStarts(r.ctl, TRUE) /\ r.pc = "turn" /\ Coherent(r, doc, child, queue, open)
        BY <1>3, <1>12
      <4> QED
        BY <1>7, <2>2, <4>1, LaunchedCoherent
    <3> QED
      BY <2>1, <3>1
  <2>5. Launched(r, s, outcome = "ok")
    BY <1>5, <1>12, LaunchFields
  <2> HIDE DEF s
  <2>6. s.pc = "turn" /\ s.published = r.published
    BY <1>3, <2>5 DEF Launched
  <2> QED
    BY <1>11, <2>3, <2>4, <2>6
<1>13. CASE /\ ~PollStarts(r.ctl, TRUE)
            /\ \E beat, written \in BOOLEAN :
                 run' = At(Watched([r EXCEPT !.ctl = Poll(r.ctl, TRUE)], beat, written), "receive")
            /\ UNCHANGED child
  <2> DEFINE s == [r EXCEPT !.ctl = Poll(r.ctl, TRUE)]
  <2>1. PICK beat \in BOOLEAN, written \in BOOLEAN :
          run' = At(Watched(s, beat, written), "receive")
    BY <1>13
  <2>2. /\ Keeps(r, s) /\ s.ctl.next_id = r.ctl.next_id /\ s.published = r.published
        /\ s.pc = r.pc
    BY <1>5, <1>13, PollKeeps
  <2> HIDE DEF s
  <2>3. Coherent(s, doc, child, queue, open)
    BY <1>3, <1>7, <2>2, KeepsCoherent
  <2>4. child' = child
    BY <1>13
  <2> QED
    BY <1>3, <1>11, <2>1, <2>2, <2>3, <2>4
<1> QED
  BY <1>8, <1>9, <1>10, <1>12, <1>13 DEF Turn, r

LEMMA WriterKeepsDocument == DocumentInv /\ WriterStep => DocumentInv'
<1> SUFFICES ASSUME DocumentInv, WriterStep
             PROVE  DocumentInv'
  OBVIOUS
<1>1. UNCHANGED <<run, asked>> /\ UNCHANGED <<child, queue>>
  BY DEF WriterStep, channel
<1>2. /\ OutputInv'
      /\ WriterGone => WriterGone'
      /\ \/ Document' = Document
         \/ WriterGone' /\ Document' = file
  BY WriterKeepsOutput DEF DocumentInv
<1>3. Chained(file, child, run.ctl.next_id)
  <2>1. Document = file \o (InHand \o packets) /\ InHand \o packets \in Seq(Item)
        /\ file \in Seq(Item)
    BY DocumentParts DEF DocumentInv, OutputInv
  <2>2. Chained(file \o (InHand \o packets), child, run.ctl.next_id)
    BY <2>1 DEF DocumentInv, Coherent
  <2> QED
    BY <2>1, <2>2, ChainedPrefix
<1>4. Open' => Open /\ Document' = Document
  BY <1>1, <1>2 DEF Open
<1>5. Coherent(run', Document', child', queue', Open')
  BY <1>1, <1>2, <1>3, <1>4 DEF DocumentInv, Coherent
<1> QED
  BY <1>2, <1>5 DEF DocumentInv

LEMMA ChildKeepsDocument == DocumentInv /\ ChildActs => DocumentInv'
<1> SUFFICES ASSUME DocumentInv, ChildActs
             PROVE  DocumentInv'
  OBVIOUS
<1>1. PICK i \in Id : ChildStep(i)
  BY DEF ChildActs
<1>2. UNCHANGED run /\ UNCHANGED <<packets, writer, file, visible>>
  BY DEF ChildActs, output
<1>3. run.ctl.next_id \in Nat
  BY RunIsFormed, NextIds
<1>4. /\ ChannelInv(child', queue', run.ctl.next_id)
      /\ Frozen(child, child', run.ctl.next_id)
      /\ \A j \in Id, taken \in Nat :
           OnItsWay(j, taken, child, queue) => OnItsWay(j, taken, child', queue')
  BY <1>1, <1>3, ChildActsKeepChannel DEF DocumentInv, Coherent
<1>5. Open \in BOOLEAN
  BY DEF Open
<1>6. Coherent(run, Document, child', queue', Open)
  BY <1>4, <1>5, FrozenCoherent DEF DocumentInv
<1>7. Document' = Document /\ (Open' <=> Open) /\ OutputInv'
  BY <1>2 DEF Document, InHand, Open, WriterGone, DocumentInv, OutputInv
<1> QED
  BY <1>2, <1>6, <1>7 DEF DocumentInv, Coherent

LEMMA QuietKeepsDocument ==
  DocumentInv /\ UNCHANGED <<run, output, channel>> => DocumentInv'
  BY DEF DocumentInv, output, channel, OutputInv, WriterGone, Open, Document, InHand

LEMMA InitHasDocument == Init => DocumentInv
<1> SUFFICES ASSUME Init
             PROVE  DocumentInv
  OBVIOUS
<1>1. PICK dump \in Dumps : run = Start(dump)
  BY DEF Init
<1> DEFINE c == Request(NewController, CHOOSE t \in Target : TRUE, FALSE)
<1>2. Sound(c) /\ c.next_id = 0 /\ ~HasAttempt(c)
  <2>1. (CHOOSE t \in Target : TRUE) \in Intent
    BY CaptureRunAssumption DEF Intent
  <2>2. Sound(NewController) /\ NewController.next_id = 0 /\ ~HasAttempt(NewController)
    BY NewIsSound DEF NewController, Controlled, Idle, HasAttempt, IsActive, IsStopping
  <2>3. Sound(c) /\ Asked(NewController, c, CHOOSE t \in Target : TRUE)
    BY <2>1, <2>2, RequestIsSound, RequestView
  <2> HIDE DEF c
  <2> QED
    BY <2>2, <2>3 DEF Asked
<1> HIDE DEF c
<1>3. /\ DOMAIN run = RunFields /\ run.pc = "top" /\ run.ctl = c
      /\ run.session = NewSession(1) /\ run.stopping = FALSE
      /\ run.reason = "none" /\ run.failure = "none" /\ run.pending = NoPacket
      /\ run.encoded = 0 /\ run.published = 0
  BY <1>1 DEF Start, RunFields, c
<1>4. run.session.seq = 0
  BY <1>3 DEF NewSession, SessionOf
<1>5. Counted(run)
  BY <1>2, <1>3, <1>4, CaptureRunAssumption DEF Counted, Formed, Recording, Waiting, Handed
<1>6. /\ packets = <<Header>> /\ file = <<>> /\ visible = 0
      /\ writer.state = "idle" /\ DOMAIN writer = {"state", "packet"}
      /\ child = [i \in Id |-> NoChild] /\ queue = <<>>
  BY DEF Init, ChannelInit
<1>7. ChannelInv(child, queue, 0)
  <2>1. queue \in Seq(Event(Id)) /\ DOMAIN queue = {}
    BY <1>6, EmptySeq
  <2>2. child \in [Id -> Child] /\ \A i \in Id : child[i] = NoChild
    BY <1>6, NoChildFields
  <2> QED
    BY <2>1, <2>2 DEF ChannelInv
<1>8. Header \in Item /\ Header.kind = "header"
  BY DEF Header, Item
<1>9. Document = <<Header>>
  <2>1. InHand = <<>> /\ <<Header>> \in Seq(Item) /\ <<>> \in Seq(Item)
    BY <1>6, <1>8, EmptySeq DEF InHand
  <2>2. file \o InHand = <<>>
    BY <1>6, <2>1, ConcatEmptySeq
  <2> QED
    BY <1>6, <2>1, <2>2, ConcatEmptySeq DEF Document
<1>10. Chained(Document, child, 0)
  BY <1>8, <1>9 DEF Chained
<1>11. InStep(run, Document, child, queue)
  <2>1. Newest(run, Document) = Header /\ Document[Len(Document)] = Header /\ Len(Document) = 1
    BY <1>3, <1>9 DEF Newest, Waiting
  <2> QED
    BY <1>2, <1>3, <1>8, <2>1 DEF InStep, Waiting
<1>12. OutputInv
  <2>1. file \in Seq(Item) /\ packets \in Seq(Item) /\ Len(packets) <= 1
    BY <1>6, <1>8, EmptySeq
  <2>2. Records(file) = {}
    BY <1>6 DEF Records
  <2>3. Cardinality(Records(file)) = 0
    BY <2>2, FS_EmptySet
  <2> QED
    BY <1>3, <1>6, <2>1, <2>3 DEF OutputInv, WriterStates, WriterGone
<1> QED
  BY <1>2, <1>3, <1>5, <1>7, <1>10, <1>11, <1>12 DEF DocumentInv, Coherent

\* What the invariant says of the document that a reader sees.
LEMMA DocumentInvImplies == DocumentInv => DocumentIsPrefix
<1> SUFFICES ASSUME DocumentInv
             PROVE  DocumentIsPrefix
  OBVIOUS
<1> DEFINE n == run.ctl.next_id
<1>1. Chained(Document, child, n)
  BY DEF DocumentInv, Coherent
<1>2. run.published <= visible /\ visible <= Cardinality(Records(file))
  BY DEF DocumentInv, OutputInv
<1>3. /\ DOMAIN Document = 1 .. Len(Document) /\ Len(Document) \in Nat
      /\ \A k \in DOMAIN Document : Document[k] \in Item
  BY <1>1, ChainedFields
<1>4. ASSUME NEW k \in DOMAIN Document, Document[k].kind = "record", k > 2
      PROVE  IF Document[k].attempt = Document[k - 1].attempt
             THEN Document[k].line = Document[k - 1].line + 1
             ELSE /\ Document[k].line = 1
                  /\ Document[k - 1].line = child[Document[k - 1].attempt].lines
  <2>1. k - 1 \in DOMAIN Document /\ k - 1 # 1 /\ k - 1 # Len(Document)
    BY <1>3, <1>4
  <2>2. Document[k - 1].kind = "record"
    BY <1>1, <1>3, <2>1, ItemFields DEF Chained
  <2>3. Follows(Document[k - 1], Document[k], child)
    BY <1>1, <1>4 DEF Chained
  <2> QED
    BY <2>2, <2>3 DEF Follows, Exhausted
<1> HIDE DEF n
<1>5. \A k \in DOMAIN Document :
        /\ Document[k].kind = "header" <=> k = 1
        /\ Document[k].kind = "footer" => k = Len(Document) /\ Document[k].count = k - 2
        /\ Document[k].kind = "record" =>
             Document[k].seq = k - 1 /\ Document[k].seq <= MAX_ENTRIES
  BY <1>1 DEF Chained
<1> QED
  BY <1>2, <1>4, <1>5 DEF DocumentIsPrefix

LEMMA DocumentKept == DocumentInv /\ [Next]_vars => DocumentInv'
<1> SUFFICES ASSUME DocumentInv, [Next]_vars
             PROVE  DocumentInv'
  OBVIOUS
<1>1. CASE Loop
  BY <1>1, TopKeepsDocument, TurnKeepsDocument, ReceiveKeepsDocument,
     FinishKeepsDocument, SendFooterKeepsDocument, JoinKeepsDocument DEF Loop
<1>2. CASE WriterStep
  BY <1>2, WriterKeepsDocument
<1>3. CASE ChildActs
  BY <1>3, ChildKeepsDocument
<1>4. CASE AskEnd
  BY <1>4, QuietKeepsDocument DEF AskEnd
<1>5. CASE Tick
  BY <1>5, TickKeepsDocument
<1>6. CASE UNCHANGED vars
  BY <1>6, QuietKeepsDocument DEF vars
<1> QED
  BY <1>1, <1>2, <1>3, <1>4, <1>5, <1>6 DEF Next

\* For every number of attempts, lines and records: whatever stops the run, and at
\* every moment, the file and what is handed over are a header, the records in order
\* without a gap, each attempt's lines whole before the next attempt's, and at most one
\* footer with the right count; the status never tells more than what is flushed
\* (write_packets, record_bytes, run_capture).
THEOREM DocumentStaysPrefix == Spec => []DocumentIsPrefix
<1>1. Init => DocumentInv
  BY InitHasDocument
<1>2. DocumentInv /\ [Next]_vars => DocumentInv'
  BY DocumentKept
<1>3. DocumentInv => DocumentIsPrefix
  BY DocumentInvImplies
<1> QED
  BY <1>1, <1>2, <1>3, PTL DEF Spec

-------------------------------------------------------------------------------
(* Success: the invariants *)

\* No failure, stop or limit has come between the lines received and the recording.
Unbroken(r) ==
  r.failure = "none" /\ ~r.stopping /\ (r.reason = "none" \/ r.pc = "receive")

\* A snapshot ended by itself and nothing failed.
Whole(r) == r.reason = "snapshot_complete" /\ r.failure = "none"

Booked(r) ==
  /\ r.received \in Nat
  /\ r.done => r.failure # "none"
  /\ Handed(r) <= r.received
  /\ r.session.started \/ Waiting(r) => r.ready
  /\ r.stopping => r.reason # "none"

\* What was received is accounted for, and the loop ends as its locals say.
Accounted(r) ==
  /\ Booked(r)
  /\ Unbroken(r) => r.received = Handed(r)
  /\ r.pc = "turn" /\ ~r.stopping => Recording(r)
  /\ r.pc \in Late /\ r.failure = "none" => ~HasAttempt(r.ctl)
  /\ Whole(r) =>
       /\ r.received = r.encoded /\ ~Waiting(r) /\ ~HasAttempt(r.ctl)
       /\ r.pc = "top" \/ (r.stopping /\ r.pc # "receive")
  /\ r.pc = "footer" /\ r.failure = "none" => r.closing = FooterOf(r)

\* A recorder whose stream never began ends for somebody who asked, or fails.
Explained(r, ask) == r.reason # "none" => r.ready \/ r.failure # "none" \/ ask # "none"

\* The first event of child i is still to come, and it is Started.
Unsaid(i, ch, q) ==
  \/ ch[i].reader = "new"
  \/ \E p \in DOMAIN q :
       /\ q[p].id = i /\ q[p].kind = "Started"
       /\ \A earlier \in DOMAIN q : earlier < p => q[earlier].id # i

\* Child i runs, and its start did not fail.
Tended(i, ch) == ch[i].proc = "alive" /\ ch[i].drain # "none"

\* No such process but the attempt's runs, and the loop knows whether its stream began.
Attended(r, ch, q) ==
  /\ \A i \in Id : Tended(i, ch) => ActiveId(r.ctl) = i
  /\ HasAttempt(r.ctl) /\ ~r.ready /\ r.failure = "none" => Unsaid(ActiveId(r.ctl), ch, q)

OfAttempt(doc, i) == {k \in Records(doc) : doc[k].attempt = i}

\* The number of a line is how many of its attempt's lines are there up to it.
Tallied(doc) ==
  \A k \in Records(doc) :
    /\ \A j \in Records(doc) : j <= k => doc[j].attempt <= doc[k].attempt
    /\ Cardinality({j \in OfAttempt(doc, doc[k].attempt) : j <= k}) = doc[k].line

\* A whole snapshot is in the document, and until then its lines are on their way.
Gathered(r, doc, ch, q) ==
  /\ Whole(r) =>
       /\ r.ctl.next_id \in Id /\ ch[r.ctl.next_id].reader = "done"
       /\ ch[r.ctl.next_id].lines = Cardinality(OfAttempt(doc, r.ctl.next_id))
  /\ Unbroken(r) /\ HasAttempt(r.ctl) =>
       OnItsWay(ActiveId(r.ctl), TakenOf(ActiveId(r.ctl), Newest(r, doc)), ch, q)

Failing == writer.state \in {"failing", "error"}

\* The writer ends after the loop, and a document that ends well ends with its footer.
Sealed ==
  /\ writer.state = "ok" => run.pc \in {"join", "ended"}
  /\ writer.state # "written" => visible = Cardinality(Records(file))
  /\ run.pc \in {"join", "ended"} /\ run.failure = "none" /\ ~Failing =>
       Document # <<>> /\ Document[Len(Document)] = FooterOf(run)
  /\ run.pc = "ended" /\ run.failure = "none" =>
       writer.state = "ok" /\ run.published = visible

FinalInv ==
  /\ asked \in Ask \cup {"none"}
  /\ Accounted(run)
  /\ Explained(run, asked)
  /\ Attended(run, child, queue)
  /\ Tallied(Document)
  /\ ~Failing => Gathered(run, Document, child, queue)
  /\ Sealed

-------------------------------------------------------------------------------
(* Success: what a step of the loop passes on *)

\* s has what r has, but for where it is and whether it failed.
Stays(r, s) ==
  /\ DOMAIN s = RunFields
  /\ s.ctl = r.ctl /\ s.session = r.session /\ s.stopping = r.stopping
  /\ s.reason = r.reason /\ s.pending = r.pending /\ s.encoded = r.encoded
  /\ s.received = r.received /\ s.reconnects = r.reconnects /\ s.ready = r.ready
  /\ s.closing = r.closing /\ s.dump = r.dump
  /\ r.failure # "none" => s.failure # "none"

LEMMA AtStays ==
  ASSUME NEW r, Formed(r), NEW pc
  PROVE  /\ Stays(r, At(r, pc)) /\ At(r, pc).pc = pc /\ At(r, pc).failure = r.failure
         /\ At(r, pc).done = r.done /\ At(r, pc).published = r.published
  BY DEF At, Stays, Formed, RunFields

LEMMA FailStays ==
  ASSUME NEW r, Formed(r), NEW code, code # "none"
  PROVE  /\ Stays(r, Fail(r, code)) /\ Fail(r, code).pc = r.pc
         /\ Fail(r, code).failure # "none"
         /\ Fail(r, code).done = r.done /\ Fail(r, code).published = r.published
  BY DEF Fail, Stays, Formed, RunFields

LEMMA StaysFormed ==
  ASSUME NEW r, NEW s, Formed(r), Stays(r, s)
  PROVE  Formed(s)
  BY DEF Formed, Stays

LEMMA StaysTwice ==
  ASSUME NEW r, NEW s, NEW t, Stays(r, s), Stays(s, t)
  PROVE  Stays(r, t)
  BY DEF Stays

\* A failure ends every claim but those on the books.
LEMMA FailedAccounted ==
  ASSUME NEW r, Booked(r), r.failure # "none", r.pc = "turn" => r.stopping
  PROVE  Accounted(r)
  BY DEF Accounted, Unbroken, Whole

\* The attempt in hand is as it was, and no claim is new.
Passes(r, s) ==
  /\ s.ctl.next_id = r.ctl.next_id /\ ActiveId(s.ctl) = ActiveId(r.ctl)
  /\ r.failure # "none" => s.failure # "none"
  /\ r.ready => s.ready
  /\ Whole(s) => Whole(r)
  /\ Unbroken(s) => Unbroken(r) /\ s.pending = r.pending

LEMMA PassesOn ==
  ASSUME NEW r, NEW s, Formed(r), Formed(s), Passes(r, s), NEW doc, NEW ch, NEW q
  PROVE  /\ Attended(r, ch, q) => Attended(s, ch, q)
         /\ Gathered(r, doc, ch, q) => Gathered(s, doc, ch, q)
<1>1. HasAttempt(s.ctl) <=> HasAttempt(r.ctl)
  BY HolderIsId DEF Formed, Passes
<1>2. Unbroken(s) => Newest(s, doc) = Newest(r, doc)
  BY DEF Passes, Newest, Waiting
<1> QED
  BY <1>1, <1>2 DEF Attended, Gathered, Passes

\* A step of the loop that neither hands over nor ends.
LEMMA LoopPasses ==
  ASSUME FinalInv, Formed(run), Formed(run'), UNCHANGED <<asked, output, channel>>,
         Passes(run, run'), Accounted(run'), Explained(run', asked),
         run.pc \notin {"join", "ended"}, run'.pc # "ended",
         run'.pc = "join" => run'.failure # "none"
  PROVE  FinalInv'
<1>1. /\ UNCHANGED <<asked, packets, writer, file, visible, child, queue>>
      /\ Document' = Document /\ (Failing' <=> Failing)
  BY DEF output, channel, Document, InHand, Failing
<1>2. Attended(run', child, queue) /\ (~Failing => Gathered(run', Document, child, queue))
  BY PassesOn DEF FinalInv
<1>3. Sealed'
  BY <1>1 DEF FinalInv, Sealed
<1>4. Attended(run, child, queue)' /\ (~Failing => Gathered(run, Document, child, queue))'
  BY <1>1, <1>2 DEF Attended, Gathered, Failing
<1> QED
  BY <1>1, <1>2, <1>3 DEF FinalInv

LEMMA SeeWriterStays ==
  ASSUME NEW r, Formed(r), r.done => r.failure # "none"
  PROVE  LET s == SeeWriter(r) IN
         Stays(r, s) /\ s.pc = r.pc /\ (s.done => s.failure # "none")
<1> DEFINE b == Fail(r, "output_error")
<1>1. Stays(r, b) /\ b.pc = r.pc /\ b.failure # "none"
  BY FailStays
<1>2. Stays(r, r)
  BY DEF Stays, Formed
<1> HIDE DEF b
<1>3. LET s == [b EXCEPT !.done = TRUE] IN
      Stays(r, s) /\ s.pc = r.pc /\ s.failure # "none"
  BY <1>1 DEF Stays, RunFields
<1> QED
  BY <1>2, <1>3 DEF SeeWriter, b

LEMMA BeginStopFields ==
  ASSUME NEW r, Formed(r), NEW reason
  PROVE  LET s == BeginStop(r, reason) IN
         /\ DOMAIN s = RunFields /\ s.ctl = Request(r.ctl, "Closed", FALSE)
         /\ s.session = r.session /\ s.stopping = TRUE /\ s.reason = reason
         /\ s.pending = NoPacket /\ s.encoded = r.encoded /\ s.received = r.received
         /\ s.ready = r.ready /\ s.failure = r.failure /\ s.done = r.done
         /\ s.pc = r.pc
<1> DEFINE c == Request(r.ctl, "Closed", FALSE)
<1> HIDE DEF c
<1>1. BeginStop(r, reason)
        = [r EXCEPT !.reason = reason, !.stopping = TRUE, !.left = STOP_WAIT,
                    !.pending = NoPacket, !.ctl = c,
                    !.stopped = r.stopped \/ r.handle # NoId]
  BY DEF BeginStop, c
<1> DEFINE b == r.stopped \/ r.handle # NoId
<1> HIDE DEF b
<1>2. BeginStop(r, reason)
        = [r EXCEPT !.reason = reason, !.stopping = TRUE, !.left = STOP_WAIT,
                    !.pending = NoPacket, !.ctl = c, !.stopped = b]
  BY <1>1 DEF b
<1> QED
  BY <1>2 DEF Formed, RunFields, c

LEMMA TopIsFinal == DocumentInv /\ FinalInv /\ Top => FinalInv'
<1> SUFFICES ASSUME DocumentInv, FinalInv, Top
             PROVE  FinalInv'
  OBVIOUS
<1> DEFINE r == SeeWriter(run)
           reason == StopReason(r)
           ends == ~(r.stopping \/ reason = "none")
           s == IF ends THEN BeginStop(r, reason) ELSE r
<1>1. Formed(run) /\ Counted(run) /\ run.encoded \in Nat
  BY RunIsFormed, CaptureRunAssumption DEF Counted
<1>2. /\ run' = At(s, "turn") /\ UNCHANGED <<asked, output, channel>> /\ run.pc = "top"
      /\ reason = IF r.failure # "none" THEN "failed" ELSE IF asked # "none" THEN asked ELSE r.reason
  BY DEF Top, StopReason
<1>3. /\ Accounted(run) /\ Booked(run) /\ Explained(run, asked)
      /\ asked \in {"none", "interrupted", "stopped", "duration_limit"}
  BY DEF FinalInv, Accounted, Ask
<1>4. Stays(run, r) /\ r.pc = "top" /\ (r.done => r.failure # "none") /\ Formed(r)
  BY <1>1, <1>2, <1>3, SeeWriterStays, StaysFormed DEF Booked
<1> HIDE DEF r, reason
<1>5. /\ Formed(s) /\ ActiveId(s.ctl) = ActiveId(run.ctl) /\ s.ctl.next_id = run.ctl.next_id
      /\ HasAttempt(s.ctl) => HasAttempt(run.ctl)
      /\ s.session = run.session /\ s.encoded = run.encoded /\ s.received = run.received
      /\ s.ready = run.ready /\ s.failure = r.failure /\ (s.done => s.failure # "none")
      /\ IF ends THEN s.stopping /\ s.reason = reason /\ s.pending = NoPacket
         ELSE s.stopping = run.stopping /\ s.reason = run.reason /\ s.pending = run.pending
  <2>1. CASE ends
    <3> DEFINE c == Request(r.ctl, "Closed", FALSE)
    <3>1. Sound(c) /\ Asked(r.ctl, c, "Closed")
      BY <1>4, RequestIsSound, RequestView DEF Formed, Intent
    <3>2. s = BeginStop(r, reason)
      BY <2>1
    <3> HIDE DEF s
    <3>3. s.ctl = c
      BY <1>4, <3>2, BeginStopFields
    <3> HIDE DEF c, ends
    <3>4. /\ DOMAIN s = RunFields
          /\ s.session = r.session /\ s.stopping = TRUE /\ s.reason = reason
          /\ s.pending = NoPacket /\ s.encoded = r.encoded /\ s.received = r.received
          /\ s.ready = r.ready /\ s.failure = r.failure /\ s.done = r.done
      BY <1>4, <3>2, BeginStopFields, ZenonT(40)
    <3> QED
      BY <1>4, <2>1, <3>1, <3>3, <3>4 DEF Stays, Formed, Asked
  <2>2. CASE ~ends
    BY <1>4, <2>2 DEF Stays
  <2> QED
    BY <2>1, <2>2
<1> HIDE DEF s
<1>6. /\ Stays(s, run') /\ run'.pc = "turn" /\ run'.failure = s.failure
      /\ run'.done = s.done /\ Formed(run')
  BY <1>2, <1>5, AtStays, StaysFormed
<1>7. run.failure # "none" => s.failure # "none"
  BY <1>4, <1>5 DEF Stays
<1>8. ends => reason # "none"
  BY DEF ends
<1>9. ~ends => s.stopping \/ (s.reason = "none" /\ s.failure = "none")
  BY <1>2, <1>4, <1>5 DEF ends, Stays
<1>10. s.reason = "snapshot_complete" /\ s.failure = "none" => Whole(run)
  BY <1>2, <1>3, <1>4, <1>5 DEF Whole, Stays
<1>11. Whole(run) /\ s.reason = "snapshot_complete" => s.stopping
  BY <1>5, <1>8, <1>9
<1> HIDE DEF ends
<1>12. Booked(run')
  BY <1>1, <1>3, <1>5, <1>6, <1>8 DEF Booked, Stays, Handed, Waiting
<1>13. Accounted(run')
  <2>1. Unbroken(run') => Unbroken(run) /\ run'.pending = run.pending
    BY <1>5, <1>6, <1>7, <1>8 DEF Unbroken, Stays
  <2>2. Unbroken(run') => run'.received = Handed(run')
    BY <1>3, <1>5, <1>6, <2>1 DEF Accounted, Stays, Handed, Waiting
  <2>3. Whole(run') => Whole(run) /\ run'.stopping
    BY <1>6, <1>10, <1>11 DEF Whole, Stays
  <2>4. Whole(run') => run'.received = run'.encoded /\ ~Waiting(run') /\ ~HasAttempt(run'.ctl)
    BY <1>3, <1>5, <1>6, <2>3 DEF Accounted, Stays, Waiting
  <2>5. ~run'.stopping => Recording(run')
    BY <1>5, <1>6, <1>9 DEF Recording, Stays
  <2> QED
    BY <1>6, <1>12, <2>2, <2>3, <2>4, <2>5 DEF Accounted, Late
<1>14. Explained(run', asked)
  BY <1>2, <1>3, <1>4, <1>5, <1>6, <1>7 DEF Explained, Stays
<1>15. Passes(run, run')
  BY <1>5, <1>6, <1>7, <1>8, <1>10 DEF Passes, Stays, Whole, Unbroken
<1> QED
  BY <1>1, <1>2, <1>6, <1>13, <1>14, <1>15, LoopPasses

\* What a footer says depends on the counts and on whether the run failed.
LEMMA FooterStays ==
  ASSUME NEW r, NEW s, s.encoded = r.encoded, s.received = r.received,
         s.reconnects = r.reconnects, s.failure = "none" <=> r.failure = "none"
  PROVE  FooterOf(s) = FooterOf(r)
  BY DEF FooterOf

LEMMA TickIsFinal == DocumentInv /\ FinalInv /\ Tick => FinalInv'
<1> SUFFICES ASSUME DocumentInv, FinalInv, Tick
             PROVE  FinalInv'
  OBVIOUS
<1> DEFINE c == Elapse(run.ctl)
           left == IF run.left = 0 THEN 0 ELSE run.left - 1
<1>1. Formed(run)
  BY RunIsFormed
<1>2. Sound(c) /\ SameView(run.ctl, c) /\ (HasAttempt(c) <=> HasAttempt(run.ctl))
  <2>1. Sound(c) /\ SameView(run.ctl, c)
    BY <1>1, ElapseIsSound, ElapseView DEF Formed
  <2> HIDE DEF c
  <2> QED
    BY <1>1, <2>1, HolderIsId DEF Formed, SameView
<1>3. run' = [run EXCEPT !.ctl = c, !.left = left] /\ UNCHANGED <<asked, output, channel>>
  BY DEF Tick
<1> HIDE DEF c, left
<1>4. /\ DOMAIN run' = RunFields /\ run'.ctl = c
      /\ run'.pc = run.pc /\ run'.session = run.session /\ run'.stopping = run.stopping
      /\ run'.reason = run.reason /\ run'.pending = run.pending
      /\ run'.encoded = run.encoded /\ run'.received = run.received
      /\ run'.reconnects = run.reconnects /\ run'.ready = run.ready
      /\ run'.closing = run.closing /\ run'.failure = run.failure /\ run'.done = run.done
      /\ run'.published = run.published
  BY <1>1, <1>3 DEF Formed, RunFields
<1>5. Formed(run')
  BY <1>1, <1>2, <1>4 DEF Formed
<1>6. FooterOf(run') = FooterOf(run)
  BY <1>4, FooterStays
<1>7. Accounted(run') /\ Explained(run', asked)
  BY <1>2, <1>4, <1>6
     DEF FinalInv, Accounted, Booked, Explained, Unbroken, Whole, Recording, Handed, Waiting
<1>8. Passes(run, run')
  BY <1>2, <1>4 DEF Passes, SameView, Whole, Unbroken
<1>9. Attended(run', child, queue) /\ (~Failing => Gathered(run', Document, child, queue))
  BY <1>1, <1>5, <1>8, PassesOn DEF FinalInv
<1>10. /\ UNCHANGED <<asked, packets, writer, file, visible, child, queue>>
       /\ Document' = Document /\ (Failing' <=> Failing)
  BY <1>3 DEF output, channel, Document, InHand, Failing
<1>11. Sealed'
  BY <1>4, <1>6, <1>10 DEF FinalInv, Sealed
<1> QED
  BY <1>7, <1>9, <1>10, <1>11 DEF FinalInv

LEMMA AskIsFinal == FinalInv /\ AskEnd => FinalInv'
<1> SUFFICES ASSUME FinalInv, AskEnd
             PROVE  FinalInv'
  OBVIOUS
<1>1. /\ UNCHANGED <<run, packets, writer, file, visible, child, queue>>
      /\ Document' = Document /\ asked' \in Ask
  BY DEF AskEnd, output, channel, Document, InHand
<1>2. asked' # "none"
  BY <1>1 DEF Ask
<1> QED
  BY <1>1, <1>2 DEF FinalInv, Explained, Sealed, Failing

LEMMA IdleIsFinal == FinalInv /\ UNCHANGED vars => FinalInv'
<1> SUFFICES ASSUME FinalInv, UNCHANGED vars
             PROVE  FinalInv'
  OBVIOUS
<1>1. /\ UNCHANGED <<run, asked, packets, writer, file, visible, child, queue>>
      /\ Document' = Document
  BY DEF vars, output, channel, Document, InHand
<1> QED
  BY <1>1 DEF FinalInv, Sealed, Failing

LEMMA FinishIsFinal == DocumentInv /\ FinalInv /\ Finish => FinalInv'
<1> SUFFICES ASSUME DocumentInv, FinalInv, Finish
             PROVE  FinalInv'
  OBVIOUS
<1> DEFINE j == Judged(run)
           b == run.handle # NoId
           r == [j EXCEPT !.stopped = @ \/ b, !.left = FLUSH_WAIT]
           footer == FooterOf(r)
           c == [r EXCEPT !.closing = footer]
           d == Fail(r, "record_error")
<1>1. Formed(run) /\ run.pc = "finish" /\ run.stopping
  BY RunIsFormed DEF Finish, Late
<1>2. Accounted(run) /\ Booked(run) /\ Explained(run, asked)
  BY DEF FinalInv, Accounted
<1>3. /\ \/ run' = At(r, "join") /\ r.done
         \/ run' = At(c, "footer")
         \/ run' = At(d, "join")
      /\ UNCHANGED <<asked, output, channel>>
  BY DEF Finish
<1>4. Stays(run, j) /\ j.done = run.done
  <2>1. Stays(run, run)
    BY <1>1 DEF Stays, Formed
  <2> QED
    BY <1>1, <2>1, FailStays DEF Judged
<1> HIDE DEF j
<1>5. Stays(run, r) /\ r.done = run.done /\ Formed(r)
  <2>1. Stays(run, r) /\ r.done = run.done
    BY <1>4 DEF Stays, RunFields
  <2> QED
    BY <1>1, <2>1, StaysFormed
<1> DEFINE Ends(s) ==
      /\ Formed(s) /\ DOMAIN s = RunFields
      /\ s.ctl = run.ctl /\ s.session = run.session /\ s.stopping
      /\ s.reason = run.reason /\ s.pending = run.pending /\ s.encoded = run.encoded
      /\ s.received = run.received /\ s.reconnects = run.reconnects /\ s.ready = run.ready
      /\ run.failure # "none" => s.failure # "none"
      /\ s.done = run.done
<1>6. Ends(c) /\ c.closing = footer /\ c.failure = r.failure
  <2> HIDE DEF r, footer
  <2>1. /\ DOMAIN c = RunFields
        /\ c.ctl = r.ctl /\ c.session = r.session /\ c.stopping = r.stopping
        /\ c.reason = r.reason /\ c.pending = r.pending /\ c.encoded = r.encoded
        /\ c.received = r.received /\ c.reconnects = r.reconnects /\ c.ready = r.ready
        /\ c.closing = footer /\ c.failure = r.failure /\ c.done = r.done
    BY <1>5 DEF Stays, RunFields
  <2> HIDE DEF c
  <2> QED
    BY <1>1, <1>5, <2>1 DEF Stays, Formed
<1>7. FooterOf(c) = footer
  <2> HIDE DEF r
  <2>1. c.encoded = r.encoded /\ c.received = r.received /\ c.reconnects = r.reconnects
        /\ c.failure = r.failure
    BY <1>5 DEF Stays, RunFields
  <2> HIDE DEF c
  <2> QED
    BY <2>1, FooterStays
<1> HIDE DEF r, footer, c
<1>8. Ends(r)
  BY <1>1, <1>5 DEF Stays
<1>9. Ends(d) /\ d.failure # "none"
  <2>1. Stays(r, d) /\ d.failure # "none" /\ d.done = r.done
    BY <1>5, FailStays
  <2> HIDE DEF d
  <2>2. Formed(d)
    BY <1>5, <2>1, StaysFormed
  <2> QED
    BY <1>1, <1>5, <2>1, <2>2 DEF Stays
<1> HIDE DEF d
<1>10. ASSUME NEW s, Ends(s), NEW pc \in {"join", "footer"}, run' = At(s, pc),
              IF pc = "join" THEN s.failure # "none"
              ELSE s.failure = "none" => s.closing = FooterOf(s)
       PROVE  FinalInv'
  <2>1. /\ Stays(s, run') /\ run'.pc = pc /\ run'.failure = s.failure
        /\ run'.done = s.done /\ Formed(run')
    BY <1>10, AtStays, StaysFormed
  <2>2. FooterOf(run') = FooterOf(s)
    BY <2>1, FooterStays DEF Stays
  <2>3. Booked(run')
    BY <1>1, <1>2, <1>10, <2>1 DEF Booked, Stays, Handed, Waiting
  <2>4. Accounted(run')
    BY <1>1, <1>2, <1>10, <2>1, <2>2, <2>3
       DEF Accounted, Stays, Unbroken, Whole, Late, Waiting
  <2>5. Explained(run', asked)
    BY <1>2, <1>10, <2>1 DEF Explained, Stays
  <2>6. Passes(run, run')
    BY <1>10, <2>1 DEF Passes, Stays, Whole, Unbroken
  <2> QED
    BY <1>1, <1>3, <1>10, <2>1, <2>4, <2>5, <2>6, LoopPasses
<1>11. r.done => r.failure # "none"
  BY <1>2, <1>5 DEF Booked, Stays
<1> QED
  BY <1>3, <1>6, <1>7, <1>8, <1>9, <1>10, <1>11

LEMMA JoinIsFinal == DocumentInv /\ FinalInv /\ Join => FinalInv'
<1> SUFFICES ASSUME DocumentInv, FinalInv, Join
             PROVE  FinalInv'
  OBVIOUS
<1> DEFINE e == Ended(run)
           good == [e EXCEPT !.published = visible]
           bad == Fail(e, "status_error")
<1>1. Formed(run) /\ run.pc = "join" /\ run.stopping
  BY RunIsFormed DEF Join, Late
<1>2. Accounted(run) /\ Booked(run) /\ Explained(run, asked)
  BY DEF FinalInv, Accounted
<1>3. run' \in {good, bad} /\ UNCHANGED <<asked, output, channel>>
  BY DEF Join
<1>4. /\ Stays(run, e) /\ e.done = run.done /\ e.pc = "ended" /\ Formed(e)
      /\ e.failure = "none" => writer.state = "ok"
  <2> DEFINE s == IF run.done \/ writer.state = "ok" THEN run
                  ELSE Fail(run, IF writer.state = "error" THEN "output_error"
                                 ELSE "output_backpressure")
  <2>1. /\ Stays(run, s) /\ s.done = run.done
        /\ s.failure = "none" => writer.state = "ok"
    <3>1. Stays(run, run)
      BY <1>1 DEF Stays, Formed
    <3> QED
      BY <1>1, <1>2, <3>1, FailStays DEF Booked
  <2> HIDE DEF s
  <2>2. Formed(s)
    BY <1>1, <2>1, StaysFormed
  <2>3. e = At(s, "ended")
    BY DEF Ended, s
  <2> QED
    BY <1>1, <2>1, <2>2, <2>3, AtStays, StaysTwice, StaysFormed
<1> HIDE DEF e
<1>5. /\ Stays(run, run') /\ run'.done = run.done /\ run'.pc = "ended" /\ Formed(run')
      /\ run'.failure = "none" => e.failure = "none" /\ run'.published = visible
  <2>1. CASE run' = good
    <3>1. /\ Stays(e, good) /\ good.done = e.done /\ good.pc = e.pc
          /\ good.failure = e.failure /\ good.published = visible
      BY <1>4 DEF Stays, RunFields
    <3> QED
      BY <1>1, <1>4, <2>1, <3>1, StaysTwice, StaysFormed
  <2>2. CASE run' = bad
    <3>1. Stays(e, bad) /\ bad.pc = e.pc /\ bad.failure # "none" /\ bad.done = e.done
      BY <1>4, FailStays
    <3> QED
      BY <1>1, <1>4, <2>2, <3>1, StaysTwice, StaysFormed
  <2> QED
    BY <1>3, <2>1, <2>2
<1>6. Accounted(run') /\ Explained(run', asked)
  BY <1>1, <1>2, <1>5
     DEF Accounted, Booked, Explained, Stays, Unbroken, Whole, Handed, Waiting, Late
<1>7. Passes(run, run')
  BY <1>1, <1>5 DEF Passes, Stays, Whole, Unbroken
<1>8. /\ UNCHANGED <<asked, packets, writer, file, visible, child, queue>>
      /\ Document' = Document /\ (Failing' <=> Failing)
  BY <1>3 DEF output, channel, Document, InHand, Failing
<1>9. Attended(run', child, queue) /\ (~Failing => Gathered(run', Document, child, queue))
  BY <1>1, <1>5, <1>7, PassesOn DEF FinalInv
<1>10. run'.failure = "none" => run.failure = "none" /\ FooterOf(run') = FooterOf(run)
  BY <1>5, FooterStays DEF Stays
<1>11. Sealed'
  BY <1>1, <1>4, <1>5, <1>8, <1>10 DEF FinalInv, Sealed
<1> QED
  BY <1>6, <1>8, <1>9, <1>11 DEF FinalInv

-------------------------------------------------------------------------------
(* Success: how many lines of an attempt a document holds *)

LEMMA RecordsFields ==
  ASSUME NEW doc \in Seq(Item)
  PROVE  /\ \A k \in Records(doc) :
              /\ k \in Nat /\ k >= 1 /\ k <= Len(doc) /\ k \in DOMAIN doc
              /\ doc[k].kind = "record" /\ doc[k].attempt \in Nat /\ doc[k].line \in Nat
         /\ \A i : IsFiniteSet(OfAttempt(doc, i))
<1>1. Len(doc) \in Nat /\ DOMAIN doc = 1 .. Len(doc) /\ \A k \in DOMAIN doc : doc[k] \in Item
  BY LenProperties, ElementOfSeq
<1>2. \A i : OfAttempt(doc, i) \in SUBSET Records(doc)
  BY DEF OfAttempt
<1>3. \A k \in Records(doc) : k \in DOMAIN doc /\ doc[k].kind = "record"
  BY DEF Records
<1>4. \A i : IsFiniteSet(OfAttempt(doc, i))
  BY <1>2, RecordsAreFinite, FS_Subset
<1> QED
  BY <1>1, <1>3, <1>4, ItemFields

\* An attempt that is not older than the last record's has as many lines in the document
\* as the last record says.
LEMMA LastTally ==
  ASSUME NEW doc, NEW ch, NEW n, Chained(doc, ch, n), Tallied(doc), Len(doc) # 0,
         doc[Len(doc)].kind # "footer", NEW i \in Nat,
         doc[Len(doc)].kind = "record" => doc[Len(doc)].attempt <= i
  PROVE  Cardinality(OfAttempt(doc, i)) = TakenOf(i, doc[Len(doc)])
<1> DEFINE l == Len(doc)
           last == doc[l]
<1>1. /\ doc \in Seq(Item) /\ l \in Nat /\ l \in DOMAIN doc /\ last \in Item
  BY ChainedFields
<1>2. \A k \in Records(doc) : k \in Nat /\ k <= l /\ k \in DOMAIN doc /\ doc[k].attempt \in Nat
  BY <1>1, RecordsFields
<1>3. CASE last.kind = "header"
  <2>1. l = 1
    BY <1>1, <1>3 DEF Chained
  <2>2. Records(doc) = {}
    <3>1. \A k \in DOMAIN doc : k = 1
      BY <1>1, <2>1, ChainedFields
    <3> QED
      BY <1>3, <2>1, <3>1 DEF Records
  <2>3. OfAttempt(doc, i) = {}
    BY <2>2 DEF OfAttempt
  <2> QED
    BY <1>3, <2>3, FS_EmptySet DEF TakenOf
<1>4. CASE last.kind = "record"
  <2>1. l \in Records(doc) /\ last.attempt \in Nat
    BY <1>1, <1>2, <1>4 DEF Records
  <2>2. \A j \in Records(doc) : doc[j].attempt <= last.attempt
    BY <1>2, <2>1 DEF Tallied
  <2>3. Cardinality({j \in OfAttempt(doc, last.attempt) : j <= l}) = last.line
    BY <2>1 DEF Tallied
  <2>4. {j \in OfAttempt(doc, last.attempt) : j <= l} = OfAttempt(doc, last.attempt)
    BY <1>2 DEF OfAttempt
  <2>5. CASE last.attempt = i
    BY <1>4, <2>3, <2>4, <2>5 DEF TakenOf
  <2>6. CASE last.attempt # i
    <3>1. OfAttempt(doc, i) = {}
      BY <1>2, <1>4, <2>1, <2>2, <2>6 DEF OfAttempt
    <3> QED
      BY <2>6, <3>1, FS_EmptySet DEF TakenOf
  <2> QED
    BY <2>5, <2>6
<1> QED
  BY <1>1, <1>3, <1>4, ItemFields

\* What stands before is not touched by what is added behind it.
LEMMA TallyStands ==
  ASSUME NEW a \in Seq(Item), NEW b \in Seq(Item), Len(a) <= Len(b),
         \A k \in DOMAIN a : k \in DOMAIN b /\ b[k] = a[k],
         NEW k \in Records(a)
  PROVE  /\ k \in Records(b)
         /\ \A j \in Records(b) : j <= k => j \in Records(a) /\ b[j] = a[j]
         /\ {j \in OfAttempt(b, b[k].attempt) : j <= k}
              = {j \in OfAttempt(a, a[k].attempt) : j <= k}
<1>1. /\ DOMAIN a = 1 .. Len(a) /\ Len(a) \in Nat
      /\ DOMAIN b = 1 .. Len(b) /\ Len(b) \in Nat
  BY LenProperties
<1>2. k \in DOMAIN a /\ a[k].kind = "record" /\ b[k] = a[k]
  BY DEF Records
<1>3. k \in Records(b)
  BY <1>2 DEF Records
<1>4. \A j \in Records(b) : j <= k => j \in Records(a) /\ b[j] = a[j]
  <2> SUFFICES ASSUME NEW j \in Records(b), j <= k
               PROVE  j \in Records(a) /\ b[j] = a[j]
    OBVIOUS
  <2>1. j \in DOMAIN a
    BY <1>1, <1>2 DEF Records
  <2> QED
    BY <2>1 DEF Records
<1>5. \A j \in Records(a) : j \in Records(b) /\ b[j] = a[j]
  BY DEF Records
<1>6. {j \in OfAttempt(b, b[k].attempt) : j <= k} = {j \in OfAttempt(a, a[k].attempt) : j <= k}
  BY <1>2, <1>4, <1>5 DEF OfAttempt
<1> QED
  BY <1>3, <1>4, <1>6

LEMMA TalliedPrefix ==
  ASSUME NEW a \in Seq(Item), NEW b \in Seq(Item), Tallied(a \o b)
  PROVE  Tallied(a)
<1> DEFINE doc == a \o b
<1>1. /\ doc \in Seq(Item) /\ Len(a) <= Len(doc)
      /\ \A k \in DOMAIN a : k \in DOMAIN doc /\ doc[k] = a[k]
  BY ConcatProperties, LenProperties
<1>2. Tallied(doc)
  OBVIOUS
<1> HIDE DEF doc
<1> SUFFICES ASSUME NEW k \in Records(a)
             PROVE  /\ \A j \in Records(a) : j <= k => a[j].attempt <= a[k].attempt
                    /\ Cardinality({j \in OfAttempt(a, a[k].attempt) : j <= k}) = a[k].line
  BY DEF Tallied
<1>3. /\ k \in Records(doc) /\ doc[k] = a[k]
      /\ {j \in OfAttempt(doc, doc[k].attempt) : j <= k}
           = {j \in OfAttempt(a, a[k].attempt) : j <= k}
  BY <1>1, TallyStands DEF Records
<1>4. \A j \in Records(a) : j \in Records(doc) /\ doc[j] = a[j]
  BY <1>1 DEF Records
<1> QED
  BY <1>2, <1>3, <1>4 DEF Tallied

LEMMA TalliedAppend ==
  ASSUME NEW doc, NEW ch, NEW n \in Nat, Chained(doc, ch, n), Tallied(doc), Len(doc) # 0,
         doc[Len(doc)].kind # "footer",
         NEW item \in Item,
         item.kind = "record" => Follows(doc[Len(doc)], item, ch)
  PROVE  /\ Tallied(Append(doc, item))
         /\ item.kind # "record" => \A i : OfAttempt(Append(doc, item), i) = OfAttempt(doc, i)
<1> DEFINE longer == Append(doc, item)
           l == Len(doc) + 1
           last == doc[Len(doc)]
<1>1. /\ doc \in Seq(Item) /\ Len(doc) \in Nat /\ DOMAIN doc = 1 .. Len(doc)
      /\ last \in Item
  BY ChainedFields
<1>2. /\ longer \in Seq(Item) /\ Len(longer) = l /\ DOMAIN longer = 1 .. l
      /\ \A k \in DOMAIN doc : k \in DOMAIN longer /\ longer[k] = doc[k]
      /\ longer[l] = item
  BY <1>1, AppendProperties, LenProperties
<1> HIDE DEF longer
<1>3. \A k \in Records(longer) : k \in Records(doc) \/ (k = l /\ item.kind = "record")
  <2> SUFFICES ASSUME NEW k \in Records(longer), k # l
               PROVE  k \in Records(doc)
    BY <1>2 DEF Records
  <2>1. k \in DOMAIN doc
    BY <1>1, <1>2 DEF Records
  <2> QED
    BY <1>2, <2>1 DEF Records
<1>4. \A k \in Records(doc) : k \in Records(longer) /\ longer[k] = doc[k] /\ k < l
  BY <1>1, <1>2 DEF Records
<1> DEFINE Fine(k) ==
      /\ \A j \in Records(longer) : j <= k => longer[j].attempt <= longer[k].attempt
      /\ Cardinality({j \in OfAttempt(longer, longer[k].attempt) : j <= k}) = longer[k].line
<1>5. ASSUME NEW k \in Records(doc)
      PROVE  Fine(k)
  <2>1. /\ \A j \in Records(longer) : j <= k => j \in Records(doc) /\ longer[j] = doc[j]
        /\ {j \in OfAttempt(longer, longer[k].attempt) : j <= k}
             = {j \in OfAttempt(doc, doc[k].attempt) : j <= k}
    BY <1>1, <1>2, TallyStands
  <2> QED
    BY <1>4, <2>1 DEF Tallied
<1>6. ASSUME item.kind = "record"
      PROVE  Fine(l)
  <2> DEFINE i == item.attempt
             before == OfAttempt(doc, i)
  <2>1. i \in Nat /\ item.line \in Nat
    BY <1>6, ItemFields
  <2>2. last.kind = "record" => last.attempt \in Nat /\ last.attempt <= i
    BY <1>1, <1>6, <2>1, ItemFields DEF Follows
  <2>3. item.line = TakenOf(i, last) + 1
    BY <1>1, <1>6, <2>1, <2>2, ItemFields DEF Follows, TakenOf
  <2>4. Cardinality(before) = TakenOf(i, last)
    BY <2>1, <2>2, LastTally
  <2>5. {j \in OfAttempt(longer, i) : j <= l} = before \cup {l}
    <3>1. l \in Records(longer) /\ longer[l].attempt = i
      BY <1>1, <1>2, <1>6 DEF Records
    <3>2. \A k \in Records(longer) : k <= l
      BY <1>1, <1>2 DEF Records
    <3> HIDE DEF l
    <3>3. {j \in OfAttempt(longer, i) : j <= l} \subseteq before \cup {l}
      BY <1>3, <1>4 DEF OfAttempt
    <3>4. before \cup {l} \subseteq {j \in OfAttempt(longer, i) : j <= l}
      BY <1>4, <3>1, <3>2 DEF OfAttempt
    <3> QED
      BY <3>3, <3>4
  <2>6. l \notin before /\ IsFiniteSet(before)
    <3>1. l \notin Records(doc)
      BY <1>1 DEF Records
    <3> QED
      BY <1>1, <3>1, RecordsFields DEF OfAttempt
  <2>7. Cardinality(before \cup {l}) = Cardinality(before) + 1
    BY <2>6, FS_AddElement
  <2>8. ASSUME NEW j \in Records(longer)
        PROVE  longer[j].attempt <= i
    <3>1. CASE j = l
      BY <1>2, <2>1, <3>1
    <3>2. CASE j \in Records(doc)
      <4>1. last.kind = "record"
        <5>1. last.kind # "header"
          <6>1. j \in 1 .. Len(doc) /\ doc[j].kind = "record"
            BY <1>1, <3>2 DEF Records
          <6>2. j # 1
            BY <1>1, <6>1 DEF Chained
          <6> QED
            BY <1>1, <6>1, <6>2 DEF Chained
        <5> QED
          BY <1>1, <5>1, ItemFields
      <4>2. Len(doc) \in Records(doc)
        BY <1>1, <4>1 DEF Records
      <4>3. doc[j].attempt \in Nat /\ j <= Len(doc)
        BY <1>1, <3>2, RecordsFields
      <4>4. doc[j].attempt <= last.attempt
        BY <3>2, <4>2, <4>3 DEF Tallied
      <4> QED
        BY <1>4, <2>1, <2>2, <3>2, <4>1, <4>3, <4>4
    <3> QED
      BY <1>3, <3>1, <3>2
  <2> HIDE DEF before
  <2> QED
    BY <1>2, <2>3, <2>4, <2>5, <2>7, <2>8
<1> HIDE DEF Fine
<1>7. \A k \in Records(longer) : Fine(k)
  BY <1>3, <1>5, <1>6
<1>8. Tallied(longer)
  BY <1>7 DEF Tallied, Fine
<1>9. item.kind # "record" => \A i : OfAttempt(longer, i) = OfAttempt(doc, i)
  BY <1>3, <1>4 DEF OfAttempt
<1> QED
  BY <1>8, <1>9 DEF longer

-------------------------------------------------------------------------------
(* Success: the steps of the writer, and the footer *)

LEMMA WriterIsFinal == DocumentInv /\ FinalInv /\ WriterStep => FinalInv'
<1> SUFFICES ASSUME DocumentInv, FinalInv, WriterStep
             PROVE  FinalInv'
  OBVIOUS
<1>1. UNCHANGED <<run, asked, child, queue>> /\ OutputInv
  BY DEF WriterStep, channel, DocumentInv
<1>2. /\ file \in Seq(Item) /\ InHand \o packets \in Seq(Item)
      /\ Document = file \o (InHand \o packets)
      /\ DOMAIN writer = {"state", "packet"} /\ writer.state \in WriterStates
  BY <1>1, DocumentParts DEF OutputInv
<1>3. Document' = Document \/ (Failing' /\ Document' = file)
  <2>1. CASE TakePacket \/ WritePacket \/ Publish
    <3>1. ~WriterGone'
      BY <1>2, <2>1 DEF TakePacket, WritePacket, Publish, WriterGone
    <3> QED
      BY <1>1, <3>1, WriterKeepsOutput
  <2>2. CASE FailWrite \/ TellFailure
    <3>1. Failing' /\ WriterGone'
      BY <1>2, <2>2 DEF FailWrite, TellFailure, Failing, WriterGone
    <3> QED
      BY <1>1, <3>1, WriterKeepsOutput
  <2>3. CASE EndWriter
    <3>1. InHand = <<>> /\ packets = <<>>
      BY <2>3 DEF EndWriter, InHand
    <3>2. Document = file
      BY <1>2, <3>1, EmptySeq, ConcatEmptySeq
    <3> QED
      BY <1>1, <3>2, WriterKeepsOutput
  <2> QED
    BY <2>1, <2>2, <2>3 DEF WriterStep
<1>4. Failing => Failing'
  BY <1>2 DEF WriterStep, TakePacket, WritePacket, Publish, FailWrite, TellFailure, EndWriter,
              Failing
<1>5. Tallied(Document')
  <2>1. Tallied(file \o (InHand \o packets))
    BY <1>2 DEF FinalInv
  <2>2. Tallied(file)
    BY <1>2, <2>1, TalliedPrefix
  <2> QED
    BY <1>2, <1>3, <2>1, <2>2
<1>6. Sealed'
  <2>1. /\ writer'.state = "ok" => writer.state = "ok" \/ SenderDropped
        /\ writer.state = "ok" => FALSE
    BY <1>2 DEF WriterStep, TakePacket, WritePacket, Publish, FailWrite, TellFailure, EndWriter
  <2>2. writer'.state # "written" => visible' = Cardinality(Records(file'))
    <3>1. CASE WritePacket
      BY <1>2, <3>1 DEF WritePacket
    <3>2. CASE Publish
      BY <3>2 DEF Publish
    <3>3. CASE TakePacket \/ FailWrite \/ TellFailure \/ EndWriter
      <4>1. UNCHANGED <<file, visible>> /\ writer.state # "written"
        BY <3>3 DEF TakePacket, FailWrite, TellFailure, EndWriter
      <4> QED
        BY <4>1 DEF FinalInv, Sealed
    <3> QED
      BY <3>1, <3>2, <3>3 DEF WriterStep
  <2>3. ~Failing' => ~Failing /\ Document' = Document
    BY <1>3, <1>4
  <2> QED
    BY <1>1, <2>1, <2>2, <2>3 DEF FinalInv, Sealed, SenderDropped
<1>7. ~Failing' => Gathered(run, Document', child, queue)
  BY <1>3, <1>4 DEF FinalInv
<1> QED
  BY <1>1, <1>5, <1>6, <1>7 DEF FinalInv, Accounted, Booked, Attended, Gathered, Explained

LEMMA SendFooterIsFinal == DocumentInv /\ FinalInv /\ SendFooter => FinalInv'
<1> SUFFICES ASSUME DocumentInv, FinalInv, SendFooter
             PROVE  FinalInv'
  OBVIOUS
<1> DEFINE r == [run EXCEPT !.closing = NoPacket, !.left = FLUSH_WAIT]
           d == Fail(r, "output_backpressure")
<1>1. Formed(run) /\ Counted(run) /\ run.pc = "footer" /\ run.stopping
  BY RunIsFormed DEF SendFooter, Late
<1>2. Accounted(run) /\ Booked(run) /\ Explained(run, asked) /\ Sealed
  BY DEF FinalInv, Accounted
<1>3. /\ UNCHANGED <<asked, writer, file, visible, child, queue>>
      /\ \/ WriterGone /\ packets' = packets /\ run' = At(r, "join")
         \/ /\ ~WriterGone /\ HasRoom /\ packets' = Append(packets, run.closing)
            /\ run' = At(r, "join")
         \/ packets' = packets /\ run' = At(d, "join")
  BY DEF SendFooter, channel
<1> DEFINE Ends(s) ==
      /\ Formed(s) /\ DOMAIN s = RunFields
      /\ s.ctl = run.ctl /\ s.session = run.session /\ s.stopping
      /\ s.reason = run.reason /\ s.pending = run.pending /\ s.encoded = run.encoded
      /\ s.received = run.received /\ s.reconnects = run.reconnects /\ s.ready = run.ready
      /\ run.failure # "none" => s.failure # "none"
      /\ s.done = run.done
<1>4. Ends(r) /\ r.failure = run.failure
  <2>1. /\ DOMAIN r = RunFields
        /\ r.ctl = run.ctl /\ r.session = run.session /\ r.stopping = run.stopping
        /\ r.reason = run.reason /\ r.pending = run.pending /\ r.encoded = run.encoded
        /\ r.received = run.received /\ r.reconnects = run.reconnects /\ r.ready = run.ready
        /\ r.failure = run.failure /\ r.done = run.done
    BY <1>1 DEF Formed, RunFields
  <2> HIDE DEF r
  <2> QED
    BY <1>1, <2>1 DEF Formed
<1> HIDE DEF r
<1>5. Ends(d) /\ d.failure # "none"
  <2>1. Stays(r, d) /\ d.failure # "none" /\ d.done = r.done /\ Formed(d)
    BY <1>4, FailStays, StaysFormed
  <2> HIDE DEF d
  <2> QED
    BY <1>1, <1>4, <2>1 DEF Stays
<1> HIDE DEF d
<1>6. /\ Ends(run') /\ run'.pc = "join"
      /\ run' = At(r, "join") => run'.failure = run.failure
      /\ run' = At(d, "join") => run'.failure # "none"
  <2>1. ASSUME NEW s, Ends(s), run' = At(s, "join")
        PROVE  Ends(run') /\ run'.pc = "join" /\ run'.failure = s.failure
    <3>1. /\ Stays(s, run') /\ run'.pc = "join" /\ run'.failure = s.failure
          /\ run'.done = s.done /\ Formed(run')
      BY <2>1, AtStays, StaysFormed
    <3> QED
      BY <2>1, <3>1 DEF Stays
  <2> QED
    BY <1>3, <1>4, <1>5, <2>1
<1>7. Accounted(run') /\ Explained(run', asked)
  <2>1. Booked(run')
    BY <1>1, <1>2, <1>6 DEF Booked, Handed, Waiting
  <2> QED
    BY <1>1, <1>2, <1>6, <2>1 DEF Accounted, Explained, Unbroken, Whole, Late, Waiting
<1>8. Passes(run, run')
  BY <1>1, <1>6 DEF Passes, Whole, Unbroken
<1>9. Attended(run', child, queue) /\ (~Failing => Gathered(run', Document, child, queue))
  BY <1>1, <1>6, <1>8, PassesOn DEF FinalInv
<1>10. Failing' <=> Failing
  BY <1>3 DEF Failing
<1>11. WriterGone <=> Failing
  BY <1>1, <1>2 DEF WriterGone, Failing, Sealed
<1>12. CASE packets' = packets /\ (WriterGone \/ run'.failure # "none")
  <2>1. Document' = Document
    BY <1>3, <1>12 DEF Document, InHand
  <2>2. Sealed'
    BY <1>1, <1>2, <1>3, <1>6, <1>10, <1>11, <1>12 DEF Sealed
  <2> QED
    BY <1>3, <1>7, <1>9, <1>10, <2>1, <2>2 DEF FinalInv
<1>13. CASE ~WriterGone /\ HasRoom /\ packets' = Append(packets, run.closing)
            /\ run'.failure = run.failure
  <2>1. run.closing \in Item /\ run.closing.kind = "footer"
    BY <1>1 DEF Counted, FooterItem, Item
  <2>2. Document' = Append(Document, run.closing)
    BY <1>3, <1>13, <2>1, SentDocument DEF DocumentInv, HasRoom
  <2>3. /\ Chained(Document, child, run.ctl.next_id) /\ run.ctl.next_id \in Nat
        /\ Document[Len(Document)].kind # "footer" /\ Len(Document) # 0
        /\ Document \in Seq(Item) /\ Tallied(Document)
    <3>1. Open
      BY <1>1, <1>13 DEF Open
    <3>2. InStep(run, Document, child, queue) /\ Chained(Document, child, run.ctl.next_id)
      BY <3>1 DEF DocumentInv, Coherent
    <3>3. run.encoded \in Nat
      BY <1>1, CaptureRunAssumption DEF Counted
    <3> QED
      BY <1>1, <3>2, <3>3, NextIds, ChainedFields DEF InStep, FinalInv
  <2>4. /\ Tallied(Document')
        /\ \A i : OfAttempt(Document', i) = OfAttempt(Document, i)
    BY <2>1, <2>2, <2>3, TalliedAppend
  <2>5. Document' # <<>> /\ Document'[Len(Document')] = run.closing
    BY <2>1, <2>2, <2>3, AppendProperties, EmptySeq
  <2>6. run.failure = "none" => run.closing = FooterOf(run')
    BY <1>1, <1>2, <1>6, <1>13, FooterStays DEF Accounted
  <2>7. Sealed'
    BY <1>1, <1>2, <1>3, <1>6, <1>10, <1>13, <2>5, <2>6 DEF Sealed
  <2>8. ~Failing => Gathered(run', Document', child, queue)
    BY <1>6, <1>9, <2>4 DEF Gathered, Unbroken
  <2> QED
    BY <1>3, <1>7, <1>9, <1>10, <2>4, <2>7, <2>8 DEF FinalInv
<1> QED
  BY <1>3, <1>6, <1>12, <1>13

-------------------------------------------------------------------------------
(* Success: the steps of the children *)

LEMMA UnsaidKept ==
  ASSUME NEW n \in Nat, ChannelInv(child, queue, n), NEW i \in Id, ChildStep(i),
         NEW j \in Id, Unsaid(j, child, queue)
  PROVE  Unsaid(j, child', queue')
<1>1. /\ child \in [Id -> Child] /\ queue \in Seq(Event(Id))
      /\ DOMAIN queue = 1 .. Len(queue) /\ Len(queue) \in Nat
  BY LenProperties DEF ChannelInv
<1>2. child' \in [Id -> Child]
  BY ChildActsKeepChannel DEF ChannelInv
<1>3. \/ queue' = queue
      \/ \E e : queue' = Append(queue, e) /\ e \in Event(Id)
  <2>1. CASE queue' # queue /\ \E e : queue' = Append(queue, e)
    <3>1. PICK e : queue' = Append(queue, e)
      BY <2>1
    <3>2. queue' \in Seq(Event(Id))
      BY ChildActsKeepChannel DEF ChannelInv
    <3>3. e \in Event(Id)
      <4>1. \/ e = StartedEvent(i)
            \/ e = EntryEvent(i, child[i].lines + 1) /\ child[i].lines < Lines
            \/ \E clean \in BOOLEAN : e = ExitedEvent(i, clean)
        <5>1. \A f : queue' = Append(queue, f) => e = f
          <6> SUFFICES ASSUME NEW f, queue' = Append(queue, f)
                       PROVE  e = f
            OBVIOUS
          <6> DEFINE p == Len(queue) + 1
          <6>1. Append(queue, e)[p] = e /\ Append(queue, f)[p] = f
            BY <1>1
          <6>2. Append(queue, e) = Append(queue, f)
            BY <3>1
          <6> HIDE DEF p
          <6> QED
            BY <6>1, <6>2, Zenon
        <5> QED
          BY <2>1, <5>1 DEF ChildStep, SendStarted, SendEntry, EndReader, Die, Reap, Send
      <4>2. child[i].lines \in Nat
        BY <1>1, ChildFields
      <4> QED
        BY <4>1, <4>2, LogcatChildAssumption
           DEF Event, StartedEvent, EntryEvent, ExitedEvent
    <3> QED
      BY <3>1, <3>3
  <2> QED
    BY <2>1 DEF ChildStep, SendStarted, SendEntry, EndReader, Die, Reap, Send
<1>4. /\ DOMAIN queue \subseteq DOMAIN queue' /\ DOMAIN queue' \subseteq Nat
      /\ \A p \in DOMAIN queue : queue'[p] = queue[p]
      /\ \A p \in DOMAIN queue' : p \notin DOMAIN queue => p = Len(queue) + 1
  BY <1>1, <1>3, AppendProperties, LenProperties
<1>5. CASE \E p \in DOMAIN queue :
             /\ queue[p].id = j /\ queue[p].kind = "Started"
             /\ \A earlier \in DOMAIN queue : earlier < p => queue[earlier].id # j
  <2>1. PICK p \in DOMAIN queue :
          /\ queue[p].id = j /\ queue[p].kind = "Started"
          /\ \A earlier \in DOMAIN queue : earlier < p => queue[earlier].id # j
    BY <1>5
  <2>2. \A earlier \in DOMAIN queue' : earlier < p => earlier \in DOMAIN queue
    BY <1>1, <1>4
  <2> QED
    BY <1>4, <2>1, <2>2 DEF Unsaid
<1>6. CASE child[j].reader = "new"
  <2>1. \A p \in DOMAIN queue : queue[p].id # j
    BY <1>6 DEF ChannelInv
  <2>2. CASE SendStarted(i) /\ i = j
    <3>1. queue' = Append(queue, StartedEvent(j))
      BY <2>2 DEF SendStarted, Send
    <3> DEFINE p == Len(queue) + 1
    <3>2. p \in DOMAIN queue' /\ queue'[p] = StartedEvent(j)
      BY <1>1, <3>1
    <3>3. queue'[p].id = j /\ queue'[p].kind = "Started"
      BY <3>2 DEF StartedEvent
    <3>4. \A earlier \in DOMAIN queue' : earlier < p => queue'[earlier].id # j
      BY <1>1, <1>4, <2>1
    <3> HIDE DEF p
    <3> QED
      BY <3>2, <3>3, <3>4 DEF Unsaid
  <2>3. CASE ~(SendStarted(i) /\ i = j)
    <3>1. child'[j].reader = "new"
      BY <1>1, <1>2, <1>6, <2>3
         DEF ChildStep, SendStarted, SendEntry, EndReader, Die, Reap, Send, Child
    <3> QED
      BY <3>1 DEF Unsaid
  <2> QED
    BY <2>2, <2>3
<1> QED
  BY <1>5, <1>6 DEF Unsaid

LEMMA ChildIsFinal == DocumentInv /\ FinalInv /\ ChildActs => FinalInv'
<1> SUFFICES ASSUME DocumentInv, FinalInv, ChildActs
             PROVE  FinalInv'
  OBVIOUS
<1> DEFINE n == run.ctl.next_id
           i == ActiveId(run.ctl)
<1>1. PICK c \in Id : ChildStep(c)
  BY DEF ChildActs
<1>2. /\ UNCHANGED <<run, asked, packets, writer, file, visible>>
      /\ Document' = Document /\ (Failing' <=> Failing)
  BY DEF ChildActs, output, Document, InHand, Failing
<1>3. Formed(run) /\ n \in Nat /\ ChannelInv(child, queue, n)
  BY RunIsFormed, NextIds DEF DocumentInv, Coherent
<1>4. /\ ChannelInv(child', queue', n)
      /\ Frozen(child, child', n)
      /\ \A j \in Id, taken \in Nat :
           OnItsWay(j, taken, child, queue) => OnItsWay(j, taken, child', queue')
  BY <1>1, <1>3, ChildActsKeepChannel
<1>5. HasAttempt(run.ctl) => i \in Id
  BY <1>3, SoundFields DEF Formed, ActiveId, Attempt
<1>6. Attended(run, child', queue')
  <2>1. ASSUME NEW j \in Id, Tended(j, child')
        PROVE  Tended(j, child)
    <3>1. child \in [Id -> Child]
      BY <1>3 DEF ChannelInv
    <3> QED
      BY <1>1, <2>1, <3>1
         DEF Tended, ChildStep, SendStarted, SendEntry, EndReader, Die, Reap, Child
  <2>2. HasAttempt(run.ctl) /\ Unsaid(i, child, queue) => Unsaid(i, child', queue')
    <3> HIDE DEF i, n
    <3> QED
      BY <1>1, <1>3, <1>5, UnsaidKept
  <2> QED
    BY <2>1, <2>2 DEF FinalInv, Attended
<1>7. ~Failing => Gathered(run, Document, child', queue')
  <2> SUFFICES ASSUME ~Failing
               PROVE  Gathered(run, Document, child', queue')
    OBVIOUS
  <2>1. Gathered(run, Document, child, queue)
    BY DEF FinalInv
  <2>2. Whole(run) => /\ n \in Id /\ child'[n].reader = "done"
                      /\ child'[n].lines = Cardinality(OfAttempt(Document, n))
    BY <1>3, <1>4, <2>1 DEF Gathered, Frozen
  <2>3. ASSUME Unbroken(run), HasAttempt(run.ctl)
        PROVE  OnItsWay(i, TakenOf(i, Newest(run, Document)), child', queue')
    <3> DEFINE taken == TakenOf(i, Newest(run, Document))
    <3>1. OnItsWay(i, taken, child, queue) /\ taken \in Nat
      <4>1. OnItsWay(i, taken, child, queue)
        BY <2>1, <2>3 DEF Gathered
      <4>2. Open
        <5>1. run.pc \notin Late
          BY <1>3, <2>3, RunIsFormed DEF Unbroken
        <5> QED
          BY <5>1 DEF Open, WriterGone, Failing, FinalInv, Sealed, Late
      <4>3. Newest(run, Document) \in Item
        BY <4>2, NewestFields DEF DocumentInv, Coherent
      <4> QED
        BY <4>1, <4>3, ItemFields DEF TakenOf
    <3> HIDE DEF taken, i
    <3>2. OnItsWay(i, taken, child', queue')
      BY <1>4, <1>5, <2>3, <3>1
    <3> QED
      BY <3>2 DEF taken
  <2> QED
    BY <2>2, <2>3 DEF Gathered
<1>8. Sealed'
  BY <1>2 DEF FinalInv, Sealed
<1> QED
  BY <1>2, <1>6, <1>7, <1>8 DEF FinalInv

-------------------------------------------------------------------------------
(* Success: what is received *)

\* If the first event of a child is still to come, any event of it is that one.
LEMMA UnsaidComesFirst ==
  ASSUME NEW ch, NEW q, NEW n \in Nat, ChannelInv(ch, q, n), q # <<>>,
         NEW i, Unsaid(i, ch, q)
  PROVE  IF Head(q).id = i THEN Head(q).kind = "Started" ELSE Unsaid(i, ch, Tail(q))
<1> DEFINE rest == Tail(q)
<1>1. Shifted(q, rest)
  BY ReceivedKeepsChannel
<1> HIDE DEF rest
<1>2. /\ Head(q) = q[1] /\ 1 \in DOMAIN q
      /\ \A p \in DOMAIN q : p \in Nat /\ (p # 1 => 1 < p)
      /\ \A p \in DOMAIN rest : p \in Nat /\ p + 1 \in DOMAIN q /\ rest[p] = q[p + 1]
      /\ \A p \in DOMAIN q : p # 1 => p - 1 \in DOMAIN rest /\ rest[p - 1] = q[p]
  BY <1>1 DEF Shifted
<1>3. CASE ch[i].reader = "new"
  <2>1. Head(q).id # i
    BY <1>2, <1>3 DEF ChannelInv
  <2> QED
    BY <1>3, <2>1 DEF Unsaid
<1>4. CASE \E p \in DOMAIN q :
             /\ q[p].id = i /\ q[p].kind = "Started"
             /\ \A earlier \in DOMAIN q : earlier < p => q[earlier].id # i
  <2>1. PICK p \in DOMAIN q :
          /\ q[p].id = i /\ q[p].kind = "Started"
          /\ \A earlier \in DOMAIN q : earlier < p => q[earlier].id # i
    BY <1>4
  <2>2. CASE p = 1
    BY <1>2, <2>1, <2>2
  <2>3. CASE p # 1
    <3>1. Head(q).id # i /\ p - 1 \in DOMAIN rest /\ rest[p - 1] = q[p]
      BY <1>2, <2>1, <2>3
    <3>2. \A earlier \in DOMAIN rest : earlier < p - 1 => rest[earlier].id # i
      BY <1>2, <2>1
    <3>3. Unsaid(i, ch, rest)
      BY <2>1, <3>1, <3>2 DEF Unsaid
    <3> QED
      BY <3>1, <3>3 DEF rest
  <2> QED
    BY <2>2, <2>3
<1> QED
  BY <1>3, <1>4 DEF Unsaid

\* What holds of the locals when an event was taken, before the next turn.
Taken(s, doc, ch, q) ==
  /\ DOMAIN s = RunFields
  /\ Booked(s)
  /\ Recording(s) => s.received = Handed(s)
  /\ Whole(s) => s.received = s.encoded /\ ~Waiting(s) /\ ~HasAttempt(s.ctl)
  /\ Explained(s, asked)
  /\ Attended(s, ch, q)
  /\ ~Failing /\ Whole(s) =>
       /\ s.ctl.next_id \in Id /\ ch[s.ctl.next_id].reader = "done"
       /\ ch[s.ctl.next_id].lines = Cardinality(OfAttempt(doc, s.ctl.next_id))

\* What the loop knows when it waits for an event with nothing to hand over.
LEMMA ReceivingFacts ==
  ASSUME DocumentInv, FinalInv, run.pc = "receive", run.pending = NoPacket
  PROVE  /\ Formed(run) /\ DOMAIN run = RunFields
         /\ run.encoded \in Nat /\ run.received \in Nat /\ ~Waiting(run)
         /\ run.encoded <= run.received
         /\ Unbroken(run) => run.received = run.encoded
         /\ run.failure = "none" /\ ~run.stopping => Unbroken(run)
         /\ Booked(run) /\ Explained(run, asked) /\ ~Whole(run)
         /\ Attended(run, child, queue)
         /\ run.ctl.next_id \in Nat /\ ChannelInv(child, queue, run.ctl.next_id)
<1>1. Formed(run) /\ Counted(run) /\ run.encoded \in Nat /\ ~Waiting(run)
  BY RunIsFormed, CaptureRunAssumption DEF Counted, Waiting
<1>2. Accounted(run) /\ Booked(run)
  BY DEF FinalInv, Accounted
<1>3. Handed(run) = run.encoded
  BY <1>1 DEF Handed
<1>4. ~Whole(run)
  BY <1>2 DEF Accounted
<1>5. /\ run.received \in Nat /\ run.encoded <= run.received
      /\ Unbroken(run) => run.received = run.encoded
  BY <1>2, <1>3 DEF Accounted, Booked
<1> QED
  BY <1>1, <1>2, <1>4, <1>5, NextIds
     DEF Formed, FinalInv, DocumentInv, Coherent, Unbroken

LEMMA OtherIsTaken ==
  ASSUME DocumentInv, FinalInv, run.pc = "receive", run.pending = NoPacket,
         queue # <<>>, ActiveId(run.ctl) # Head(queue).id
  PROVE  Taken(run, Document, child, Tail(queue))
<1> DEFINE i == ActiveId(run.ctl)
<1>1. /\ DOMAIN run = RunFields /\ Booked(run) /\ Explained(run, asked) /\ ~Whole(run)
      /\ Attended(run, child, queue) /\ ~Waiting(run)
      /\ run.ctl.next_id \in Nat /\ ChannelInv(child, queue, run.ctl.next_id)
      /\ Unbroken(run) => run.received = run.encoded
  BY ReceivingFacts
<1>2. Recording(run) => run.received = Handed(run)
  BY <1>1 DEF Recording, Unbroken, Handed
<1>3. Unsaid(i, child, queue) => Unsaid(i, child, Tail(queue))
  <2> HIDE DEF i
  <2> QED
    BY <1>1, UnsaidComesFirst DEF i
<1>4. Attended(run, child, Tail(queue))
  BY <1>1, <1>3 DEF Attended
<1> QED
  BY <1>1, <1>2, <1>4 DEF Taken

LEMMA StartedIsTaken ==
  ASSUME DocumentInv, FinalInv, run.pc = "receive", run.pending = NoPacket,
         queue # <<>>, ActiveId(run.ctl) = Head(queue).id
  PROVE  Taken(OnStarted(run, Head(queue).id), Document, child, Tail(queue))
<1> DEFINE id == Head(queue).id
           c == Started(run.ctl, id)
           begun == StreamStarted(run.session)
           bad == [run EXCEPT !.failure = "identity_exhausted"]
           good == [run EXCEPT !.session = begun, !.ctl = c, !.ready = TRUE]
           s == OnStarted(run, id)
<1>1. /\ Formed(run) /\ DOMAIN run = RunFields /\ Booked(run) /\ Explained(run, asked)
      /\ ~Whole(run) /\ Attended(run, child, queue) /\ ~Waiting(run)
      /\ Unbroken(run) => run.received = run.encoded
  BY ReceivingFacts
<1>2. SameView(run.ctl, c)
  BY <1>1, AgedView DEF Formed, Started, StartedCounts, SameView
<1>3. s = IF ~CanStartStream(run.session) THEN bad ELSE good
  BY DEF OnStarted
<1> HIDE DEF c, begun, s
<1>4. /\ DOMAIN bad = RunFields /\ bad.ctl = run.ctl /\ bad.received = run.received
      /\ bad.encoded = run.encoded /\ bad.pending = run.pending
      /\ bad.stopping = run.stopping /\ bad.done = run.done /\ bad.reason = run.reason
      /\ bad.failure # "none" /\ bad.ready = run.ready /\ bad.session = run.session
  BY <1>1 DEF RunFields
<1>5. /\ DOMAIN good = RunFields /\ good.ctl = c /\ good.received = run.received
      /\ good.encoded = run.encoded /\ good.pending = run.pending
      /\ good.stopping = run.stopping /\ good.done = run.done /\ good.reason = run.reason
      /\ good.failure = run.failure /\ good.ready
  BY <1>1 DEF RunFields
<1> HIDE DEF bad, good
<1>6. /\ DOMAIN s = RunFields /\ s.received = run.received
      /\ s.encoded = run.encoded /\ s.pending = run.pending
      /\ s.stopping = run.stopping /\ s.done = run.done /\ s.reason = run.reason
      /\ run.failure # "none" => s.failure # "none"
      /\ s.failure # "none" \/ s.ready
      /\ s.ready \/ (s.session = run.session /\ s.ready = run.ready)
      /\ ActiveId(s.ctl) = ActiveId(run.ctl)
  <2>1. CASE s = bad
    BY <1>4, <2>1
  <2>2. CASE s = good
    <3>1. ActiveId(good.ctl) = ActiveId(run.ctl)
      BY <1>2, <1>5 DEF SameView
    <3> QED
      BY <1>5, <2>2, <3>1
  <2> QED
    BY <1>3, <2>1, <2>2
<1>7. Booked(s)
  BY <1>1, <1>6 DEF Booked, Handed, Waiting
<1>8. Recording(s) => s.received = Handed(s)
  BY <1>1, <1>6 DEF Recording, Unbroken, Handed, Waiting
<1>9. ~Whole(s) /\ Explained(s, asked)
  BY <1>1, <1>6 DEF Whole, Explained
<1>10. Attended(s, child, Tail(queue))
  BY <1>1, <1>6 DEF Attended
<1> QED
  BY <1>6, <1>7, <1>8, <1>9, <1>10 DEF Taken, s

LEMMA EntryIsTaken ==
  ASSUME DocumentInv, FinalInv, run.pc = "receive", run.pending = NoPacket,
         queue # <<>>, ActiveId(run.ctl) = Head(queue).id, Head(queue).kind = "Entry",
         NEW over \in BOOLEAN
  PROVE  Taken(OnEntry(run, Head(queue).id, Head(queue).line, over), Document, child,
               Tail(queue))
<1> DEFINE next == Record(run.session)
           b == [run EXCEPT !.received = @ + 1]
           wrong == [b EXCEPT !.failure = "record_error"]
           full == [b EXCEPT !.session = next, !.reason = "max_bytes"]
           record == RecordPacket(next.seq, Head(queue).id, Head(queue).line)
           good == [b EXCEPT !.session = next, !.pending = record]
           s == OnEntry(run, Head(queue).id, Head(queue).line, over)
<1>1. /\ Formed(run) /\ DOMAIN run = RunFields /\ Booked(run) /\ Explained(run, asked)
      /\ ~Whole(run) /\ Attended(run, child, queue) /\ ~Waiting(run)
      /\ run.encoded \in Nat /\ run.received \in Nat /\ run.encoded <= run.received
      /\ Unbroken(run) => run.received = run.encoded
      /\ run.ctl.next_id \in Nat /\ ChannelInv(child, queue, run.ctl.next_id)
  BY ReceivingFacts
<1>2. s = IF ~Recording(run) THEN b
          ELSE IF ~CanRecord(run.session) THEN wrong ELSE IF over THEN full ELSE good
  BY DEF OnEntry, Recording
<1>3. CanRecord(run.session) => run.ready
  BY <1>1 DEF CanRecord, Booked
<1>4. next.started = run.session.started
  BY DEF Record, SessionOf
<1>5. record # NoPacket
  BY DEF record, RecordPacket, NoPacket
<1> HIDE DEF next, record, s
<1>6. /\ DOMAIN b = RunFields /\ b.ctl = run.ctl /\ b.session = run.session
      /\ b.received = run.received + 1
      /\ b.encoded = run.encoded /\ b.pending = run.pending /\ b.reason = run.reason
      /\ b.failure = run.failure /\ b.stopping = run.stopping /\ b.done = run.done
      /\ b.ready = run.ready
  BY <1>1 DEF RunFields
<1> HIDE DEF b
<1> DEFINE Same(t) == /\ DOMAIN t = RunFields /\ t.ctl = run.ctl
                      /\ t.received = run.received + 1
                      /\ t.encoded = run.encoded /\ t.stopping = run.stopping
                      /\ t.done = run.done /\ t.ready = run.ready
                      /\ run.failure # "none" => t.failure # "none"
                      /\ t.session.started = run.session.started
                      /\ t.pending = NoPacket \/ (t.pending = record /\ Recording(run) /\ run.ready)
                      /\ t.reason = run.reason \/ (t.reason = "max_bytes" /\ run.ready)
                      /\ Recording(t) => t.pending = record
<1>7. /\ DOMAIN wrong = RunFields /\ wrong.ctl = run.ctl /\ wrong.session = run.session
      /\ wrong.received = run.received + 1
      /\ wrong.encoded = run.encoded /\ wrong.pending = run.pending
      /\ wrong.reason = run.reason
      /\ wrong.failure = "record_error" /\ wrong.stopping = run.stopping
      /\ wrong.done = run.done /\ wrong.ready = run.ready
  BY <1>6 DEF RunFields
<1>8. /\ DOMAIN full = RunFields /\ full.ctl = run.ctl /\ full.session = next
      /\ full.received = run.received + 1
      /\ full.encoded = run.encoded /\ full.pending = run.pending
      /\ full.reason = "max_bytes"
      /\ full.failure = run.failure /\ full.stopping = run.stopping
      /\ full.done = run.done /\ full.ready = run.ready
  BY <1>6 DEF RunFields
<1>9. /\ DOMAIN good = RunFields /\ good.ctl = run.ctl /\ good.session = next
      /\ good.received = run.received + 1
      /\ good.encoded = run.encoded /\ good.pending = record
      /\ good.reason = run.reason
      /\ good.failure = run.failure /\ good.stopping = run.stopping
      /\ good.done = run.done /\ good.ready = run.ready
  BY <1>6 DEF RunFields
<1> HIDE DEF wrong, full, good
<1>10. Same(s)
  <2>1. CASE s = b /\ ~Recording(run)
    BY <1>6, <2>1 DEF Recording
  <2>2. CASE s = wrong
    BY <1>7, <2>2 DEF Recording
  <2>3. CASE s = full /\ CanRecord(run.session)
    BY <1>3, <1>4, <1>8, <2>3 DEF Recording
  <2>4. CASE s = good /\ CanRecord(run.session) /\ Recording(run)
    BY <1>3, <1>4, <1>9, <2>4 DEF Recording
  <2> QED
    BY <1>2, <2>1, <2>2, <2>3, <2>4
<1>11. Booked(s)
  BY <1>1, <1>5, <1>10 DEF Booked, Handed, Waiting
<1>12. Recording(s) => s.received = Handed(s)
  BY <1>1, <1>5, <1>10 DEF Recording, Unbroken, Handed, Waiting
<1>13. ~Whole(s) /\ Explained(s, asked)
  BY <1>1, <1>10 DEF Whole, Explained
<1>14. Attended(s, child, Tail(queue))
  <2>1. ~Unsaid(ActiveId(run.ctl), child, queue)
    BY <1>1, UnsaidComesFirst
  <2> QED
    BY <1>1, <1>10, <2>1 DEF Attended
<1> QED
  BY <1>10, <1>11, <1>12, <1>13, <1>14 DEF Taken, s

\* The lines of the attempt in hand are all in the document when its exit is received.
LEMMA ExitFindsAll ==
  ASSUME DocumentInv, FinalInv, run.pc = "receive", run.pending = NoPacket,
         queue # <<>>, ActiveId(run.ctl) = Head(queue).id, Head(queue).kind = "Exited",
         ~Failing, Unbroken(run)
  PROVE  LET i == run.ctl.next_id IN
         i \in Id /\ child[i].reader = "done"
         /\ child[i].lines = Cardinality(OfAttempt(Document, i))
<1> DEFINE i == run.ctl.next_id
           last == Document[Len(Document)]
<1>1. /\ Formed(run) /\ ~Waiting(run) /\ i \in Nat /\ ChannelInv(child, queue, i)
  BY ReceivingFacts
<1>2. Head(queue) \in Event(Id) /\ Head(queue).id \in Id
  BY <1>1, ReceivedKeepsChannel, EventFields
<1>3. HasAttempt(run.ctl) /\ ActiveId(run.ctl) = i /\ i \in Id /\ Head(queue).id = i
  <2>1. HasAttempt(run.ctl)
    BY <1>1, <1>2, HolderIsId DEF Formed, Id
  <2> QED
    BY <1>1, <1>2, <2>1, SoundFields DEF Formed, ActiveId
<1>4. Open
  BY DEF Open, WriterGone, Failing, FinalInv, Sealed
<1>5. /\ last \in Item /\ Newest(run, Document) = last /\ Len(Document) # 0
      /\ last.kind = "record" => last.attempt \in Id /\ last.attempt <= i
      /\ last.kind # "footer" /\ Chained(Document, child, i) /\ Tallied(Document)
  <2>1. Coherent(run, Document, child, queue, TRUE)
    BY <1>4 DEF DocumentInv, Coherent
  <2>2. Newest(run, Document) = last
    BY <1>1 DEF Newest
  <2>3. Len(Document) = run.encoded + 1 /\ run.encoded \in Nat
    BY <2>1, NewestFields, ReceivingFacts
  <2>4. /\ last \in Item
        /\ last.kind = "record" => last.attempt \in Id /\ last.attempt <= i
    BY <2>1, <2>2, NewestFields
  <2>5. last.kind # "footer" /\ Chained(Document, child, i)
    BY <2>1 DEF Coherent, InStep
  <2>6. Len(Document) # 0 /\ Tallied(Document)
    BY <2>3 DEF FinalInv
  <2> QED
    BY <2>2, <2>4, <2>5, <2>6
<1>6. TakenOf(i, last) \in Nat
  BY <1>5, ItemFields DEF TakenOf
<1>7. OnItsWay(i, TakenOf(i, last), child, queue)
  BY <1>3, <1>5 DEF FinalInv, Gathered
<1> HIDE DEF i, last
<1>8. Exhausted(i, TakenOf(i, last), child)
  BY <1>1, <1>3, <1>6, <1>7, NothingOnItsWay
<1>9. Cardinality(OfAttempt(Document, i)) = TakenOf(i, last)
  BY <1>1, <1>5, LastTally DEF last
<1> QED
  BY <1>3, <1>8, <1>9 DEF Exhausted, i

LEMMA ExitedIsTaken ==
  ASSUME DocumentInv, FinalInv, run.pc = "receive", run.pending = NoPacket,
         queue # <<>>, ActiveId(run.ctl) = Head(queue).id, Head(queue).kind = "Exited",
         NEW clean, NEW said
  PROVE  Taken(OnExited(run, Head(queue).id, clean, said), Document, child, Tail(queue))
<1> DEFINE id == Head(queue).id
           done == Completed(run.ctl, id)
           gone == Exited(run.ctl, id)
           b == [run EXCEPT !.handle = NoId, !.stopped = FALSE]
           all == [b EXCEPT !.ctl = done, !.reason = "snapshot_complete"]
           c == [b EXCEPT !.ctl = gone]
           again == [c EXCEPT !.backend_error = TRUE, !.reconnects = @ + 1]
           wrong == Fail(c, "adb_error")
           s == OnExited(run, id, clean, said)
           Left(t) == /\ DOMAIN t = RunFields
                      /\ ~HasAttempt(t.ctl) /\ t.ctl.next_id = run.ctl.next_id
                      /\ t.received = run.received /\ t.session = run.session
                      /\ t.encoded = run.encoded /\ t.pending = run.pending
                      /\ t.stopping = run.stopping /\ t.done = run.done
                      /\ t.ready = run.ready
                      /\ run.failure # "none" => t.failure # "none"
                      /\ t.reason = run.reason
                           \/ (t.reason = "snapshot_complete" /\ ~run.stopping)
<1>1. /\ Formed(run) /\ DOMAIN run = RunFields /\ Booked(run) /\ Explained(run, asked)
      /\ ~Whole(run) /\ Attended(run, child, queue) /\ ~Waiting(run)
      /\ run.encoded \in Nat /\ run.received \in Nat /\ run.encoded <= run.received
      /\ Unbroken(run) => run.received = run.encoded
      /\ run.failure = "none" /\ ~run.stopping => Unbroken(run)
      /\ run.ctl.next_id \in Nat /\ ChannelInv(child, queue, run.ctl.next_id)
  BY ReceivingFacts
<1>2. id \in Id /\ HasAttempt(run.ctl)
  <2>1. id \in Id
    BY <1>1, ReceivedKeepsChannel, EventFields
  <2> QED
    BY <1>1, <2>1, HolderIsId DEF Formed, Id
<1>3. /\ ~HasAttempt(done) /\ done.next_id = run.ctl.next_id
      /\ ~HasAttempt(gone) /\ gone.next_id = run.ctl.next_id
  <2>1. Released(run.ctl, gone) /\ Released(run.ctl, done)
    BY <1>1, <1>2, ExitedReleases DEF Formed
  <2> QED
    BY <2>1 DEF Released
<1>4. s = IF ~run.stopping /\ run.dump /\ clean THEN all
          ELSE IF ~run.stopping THEN again ELSE IF said /\ ~clean THEN wrong ELSE c
  BY DEF OnExited
<1> HIDE DEF done, gone, s
<1>5. /\ DOMAIN b = RunFields /\ b.ctl = run.ctl /\ b.session = run.session
      /\ b.received = run.received /\ b.done = run.done /\ b.ready = run.ready
      /\ b.encoded = run.encoded /\ b.pending = run.pending /\ b.reason = run.reason
      /\ b.failure = run.failure /\ b.stopping = run.stopping
  BY <1>1 DEF RunFields
<1> HIDE DEF b
<1>6. ~run.stopping => Left(all)
  <2>1. /\ DOMAIN all = RunFields /\ all.ctl = done /\ all.session = run.session
        /\ all.received = run.received /\ all.done = run.done /\ all.ready = run.ready
        /\ all.encoded = run.encoded /\ all.pending = run.pending
        /\ all.reason = "snapshot_complete"
        /\ all.failure = run.failure /\ all.stopping = run.stopping
    BY <1>5 DEF RunFields
  <2> QED
    BY <1>3, <2>1
<1>7. /\ DOMAIN c = RunFields /\ c.ctl = gone /\ c.session = run.session
      /\ c.received = run.received /\ c.done = run.done /\ c.ready = run.ready
      /\ c.encoded = run.encoded /\ c.pending = run.pending /\ c.reason = run.reason
      /\ c.failure = run.failure /\ c.stopping = run.stopping
  BY <1>5 DEF RunFields
<1> HIDE DEF c
<1>8. Left(c)
  BY <1>3, <1>7
<1>9. Left(again)
  <2>1. /\ DOMAIN again = RunFields /\ again.ctl = gone /\ again.session = run.session
        /\ again.received = run.received /\ again.done = run.done
        /\ again.ready = run.ready
        /\ again.encoded = run.encoded /\ again.pending = run.pending
        /\ again.reason = run.reason
        /\ again.failure = run.failure /\ again.stopping = run.stopping
    BY <1>7 DEF RunFields
  <2> QED
    BY <1>3, <2>1
<1>10. Left(wrong)
  <2>1. wrong = c \/ wrong = [c EXCEPT !.failure = "adb_error"]
    BY DEF Fail
  <2>2. CASE wrong = [c EXCEPT !.failure = "adb_error"]
    <3>1. /\ DOMAIN wrong = RunFields /\ wrong.ctl = gone /\ wrong.session = run.session
          /\ wrong.received = run.received /\ wrong.done = run.done
          /\ wrong.ready = run.ready
          /\ wrong.encoded = run.encoded /\ wrong.pending = run.pending
          /\ wrong.reason = run.reason
          /\ wrong.failure = "adb_error" /\ wrong.stopping = run.stopping
      BY <1>7, <2>2 DEF RunFields
    <3> QED
      BY <1>3, <3>1
  <2> QED
    BY <1>8, <2>1, <2>2
<1> HIDE DEF all, again, wrong
<1>11. Left(s)
  BY <1>4, <1>6, <1>8, <1>9, <1>10
<1>12. Booked(s)
  <2>1. s.stopping => s.reason # "none"
    BY <1>1, <1>11 DEF Booked
  <2> QED
    BY <1>1, <1>11, <2>1 DEF Booked, Handed, Waiting
<1>13. Recording(s) => s.received = Handed(s)
  BY <1>1, <1>11 DEF Recording, Unbroken, Handed, Waiting
<1>14. Whole(s) => Unbroken(run)
  BY <1>1, <1>11 DEF Whole
<1>15. Explained(s, asked)
  <2>1. ~Unsaid(ActiveId(run.ctl), child, queue)
    BY <1>1, UnsaidComesFirst
  <2>2. run.ready \/ run.failure # "none"
    BY <1>1, <1>2, <2>1 DEF Attended
  <2> QED
    BY <1>11, <2>2 DEF Explained
<1>16. Attended(s, child, Tail(queue))
  <2>1. child[id].proc = "dead"
    <3>1. Shifted(queue, Tail(queue))
      BY <1>1, ReceivedKeepsChannel
    <3> QED
      BY <1>1, <3>1 DEF Shifted, ChannelInv
  <2>2. \A i \in Id : ~Tended(i, child)
    BY <1>1, <2>1 DEF Attended, Tended
  <2> QED
    BY <1>11, <2>2 DEF Attended
<1>17. Whole(s) => s.received = s.encoded /\ ~Waiting(s)
  BY <1>1, <1>11, <1>14 DEF Waiting
<1>18. ~Failing /\ Whole(s) =>
        /\ s.ctl.next_id \in Id /\ child[s.ctl.next_id].reader = "done"
        /\ child[s.ctl.next_id].lines = Cardinality(OfAttempt(Document, s.ctl.next_id))
  BY <1>11, <1>14, ExitFindsAll
<1> QED
  BY <1>11, <1>12, <1>13, <1>15, <1>16, <1>17, <1>18 DEF Taken, s

LEMMA ReceiveIsFinal == DocumentInv /\ FinalInv /\ Receive => FinalInv'
<1> SUFFICES ASSUME DocumentInv, FinalInv, Receive
             PROVE  FinalInv'
  OBVIOUS
<1>1. /\ Formed(run) /\ run.pc = "receive"
      /\ UNCHANGED <<asked, packets, writer, file, visible, child>>
      /\ Document' = Document /\ (Failing' <=> Failing)
  BY RunIsFormed DEF Receive, output, Document, InHand, Failing
<1>2. DocumentInv'
  BY ReceiveKeepsDocument
<1>3. CASE run' = At(run, "top") /\ UNCHANGED queue
  <2>1. UNCHANGED <<asked, output, channel>>
    BY <1>1, <1>3 DEF output, channel
  <2>2. /\ Stays(run, run') /\ run'.pc = "top" /\ run'.failure = run.failure
        /\ run'.done = run.done /\ Formed(run')
    BY <1>1, <1>3, AtStays, StaysFormed
  <2>3. Accounted(run) /\ Booked(run) /\ Explained(run, asked)
    BY DEF FinalInv, Accounted
  <2>4. Accounted(run') /\ Explained(run', asked)
    BY <1>1, <2>2, <2>3
       DEF Accounted, Booked, Explained, Stays, Unbroken, Whole, Handed, Waiting, Late
  <2>5. Passes(run, run')
    BY <1>1, <2>2 DEF Passes, Stays, Whole, Unbroken
  <2> QED
    BY <1>1, <2>1, <2>2, <2>4, <2>5, LoopPasses
<1>4. CASE /\ run.pending = NoPacket /\ queue # <<>>
           /\ \E r \in Received(run, Head(queue)) : run' = At(r, "top")
           /\ queue' = Tail(queue)
  <2>1. PICK s \in Received(run, Head(queue)) : run' = At(s, "top")
    BY <1>4
  <2>2. Taken(s, Document, child, Tail(queue))
    <3>1. Head(queue).kind \in {"Started", "Entry", "Exited"}
      <4>1. run.ctl.next_id \in Nat /\ ChannelInv(child, queue, run.ctl.next_id)
        BY <1>1, <1>4, ReceivingFacts
      <4> QED
        BY <1>4, <4>1, ReceivedKeepsChannel, EventFields
    <3>2. CASE ActiveId(run.ctl) # Head(queue).id
      <4>1. s = run
        BY <2>1, <3>2 DEF Received
      <4> QED
        BY <1>1, <1>4, <3>2, <4>1, OtherIsTaken
    <3>3. CASE ActiveId(run.ctl) = Head(queue).id /\ Head(queue).kind = "Started"
      <4>1. s = OnStarted(run, Head(queue).id)
        BY <2>1, <3>3 DEF Received
      <4> QED
        BY <1>1, <1>4, <3>3, <4>1, StartedIsTaken
    <3>4. CASE ActiveId(run.ctl) = Head(queue).id /\ Head(queue).kind = "Entry"
      <4>1. PICK over \in BOOLEAN : s = OnEntry(run, Head(queue).id, Head(queue).line, over)
        BY <2>1, <3>4 DEF Received
      <4> QED
        BY <1>1, <1>4, <3>4, <4>1, EntryIsTaken
    <3>5. CASE ActiveId(run.ctl) = Head(queue).id /\ Head(queue).kind = "Exited"
      <4>1. PICK said \in BOOLEAN :
              s = OnExited(run, Head(queue).id, Head(queue).clean, said)
        BY <2>1, <3>5 DEF Received
      <4> QED
        BY <1>1, <1>4, <3>5, <4>1, ExitedIsTaken
    <3> QED
      BY <3>1, <3>2, <3>3, <3>4, <3>5
  <2>3. /\ DOMAIN run' = RunFields /\ run'.pc = "top" /\ run'.ctl = s.ctl
        /\ run'.session = s.session /\ run'.stopping = s.stopping /\ run'.reason = s.reason
        /\ run'.pending = s.pending /\ run'.encoded = s.encoded
        /\ run'.received = s.received /\ run'.ready = s.ready
        /\ run'.failure = s.failure /\ run'.done = s.done
    BY <2>1, <2>2 DEF Taken, At, RunFields
  <2>4. Accounted(run')
    BY <2>2, <2>3
       DEF Taken, Accounted, Booked, Recording, Unbroken, Whole, Handed, Waiting, Late
  <2>5. Explained(run', asked) /\ Attended(run', child, Tail(queue))
    BY <2>2, <2>3 DEF Taken, Explained, Attended
  <2>6. ASSUME ~Failing
        PROVE  Gathered(run', Document, child, Tail(queue))
    <3>1. Whole(run') =>
            /\ run'.ctl.next_id \in Id /\ child[run'.ctl.next_id].reader = "done"
            /\ child[run'.ctl.next_id].lines = Cardinality(OfAttempt(Document, run'.ctl.next_id))
      BY <2>2, <2>3, <2>6 DEF Taken, Whole
    <3>2. Open'
      BY <1>1, <2>3, <2>6 DEF Open, WriterGone, Failing, FinalInv, Sealed
    <3>3. InStep(run', Document, child, Tail(queue))
      BY <1>1, <1>2, <1>4, <3>2 DEF DocumentInv, Coherent
    <3>4. Unbroken(run') => Recording(run')
      BY <2>3 DEF Unbroken, Recording
    <3> QED
      BY <3>1, <3>3, <3>4 DEF Gathered, InStep
  <2>7. Sealed'
    BY <1>1, <2>3 DEF FinalInv, Sealed
  <2> QED
    BY <1>1, <1>4, <2>4, <2>5, <2>6, <2>7 DEF FinalInv
<1> QED
  BY <1>3, <1>4 DEF Receive

-------------------------------------------------------------------------------
(* Success: what a turn does *)

\* No failure and no stop has come between the lines received and the recording, but
\* perhaps a limit.
Lively(r) == r.failure = "none" /\ ~r.stopping

\* What holds of the locals in the middle of a turn.
Turned(s, doc, ch) ==
  /\ DOMAIN s = RunFields
  /\ Booked(s)
  /\ Lively(s) => s.received = Handed(s)
  /\ Whole(s) => s.stopping /\ s.received = s.encoded /\ ~Waiting(s) /\ ~HasAttempt(s.ctl)
  /\ Explained(s, asked)
  /\ Attended(s, ch, queue)
  /\ ~Failing /\ Whole(s) =>
       /\ s.ctl.next_id \in Id /\ ch[s.ctl.next_id].reader = "done"
       /\ ch[s.ctl.next_id].lines = Cardinality(OfAttempt(doc, s.ctl.next_id))
  /\ ~Failing /\ Lively(s) /\ HasAttempt(s.ctl) =>
       OnItsWay(ActiveId(s.ctl), TakenOf(ActiveId(s.ctl), Newest(s, doc)), ch, queue)

LEMMA TurnedStays ==
  ASSUME NEW r, NEW s, NEW doc, NEW ch, Turned(r, doc, ch), Stays(r, s),
         s.done => s.failure # "none"
  PROVE  Turned(s, doc, ch)
<1>1. Lively(s) => Lively(r)
  BY DEF Lively, Stays
<1>2. Whole(s) => Whole(r)
  BY DEF Whole, Stays
<1>3. Newest(s, doc) = Newest(r, doc) /\ Handed(s) = Handed(r) /\ (Waiting(s) <=> Waiting(r))
  BY DEF Newest, Handed, Waiting, Stays
<1>4. Booked(s)
  BY <1>3 DEF Booked, Turned, Stays
<1>5. Explained(s, asked) /\ Attended(s, ch, queue)
  BY DEF Explained, Attended, Turned, Stays
<1> QED
  BY <1>1, <1>2, <1>3, <1>4, <1>5 DEF Turned, Stays

LEMMA TurnEnds ==
  ASSUME FinalInv, run.pc = "turn", NEW s, NEW pc \in {"top", "receive", "finish"},
         run' = At(s, pc), Turned(s, Document', child'), Tallied(Document'),
         UNCHANGED <<asked, writer, file, visible, queue>>,
         pc = "top" => s.failure # "none",
         pc = "receive" => ~Whole(s),
         pc = "finish" => s.stopping /\ (s.failure = "none" => ~HasAttempt(s.ctl))
  PROVE  FinalInv'
<1>1. /\ DOMAIN run' = RunFields /\ run'.pc = pc /\ run'.ctl = s.ctl
      /\ run'.session = s.session /\ run'.stopping = s.stopping /\ run'.reason = s.reason
      /\ run'.pending = s.pending /\ run'.encoded = s.encoded
      /\ run'.received = s.received /\ run'.ready = s.ready
      /\ run'.failure = s.failure /\ run'.done = s.done
  BY DEF Turned, At, RunFields
<1>2. Failing' <=> Failing
  BY DEF Failing
<1>3. /\ Unbroken(run') => Lively(s)
      /\ Whole(run') <=> Whole(s)
      /\ Newest(run', Document') = Newest(s, Document')
      /\ Handed(run') = Handed(s) /\ (Waiting(run') <=> Waiting(s))
  BY <1>1 DEF Unbroken, Lively, Whole, Newest, Handed, Waiting
<1>4. Accounted(run')
  <2>1. Booked(run')
    BY <1>1, <1>3 DEF Turned, Booked
  <2>2. Whole(run') => run'.pc # "top" /\ run'.pc # "receive"
    BY <1>1, <1>3 DEF Whole
  <2>3. run'.pc \in Late /\ run'.failure = "none" => ~HasAttempt(run'.ctl)
    BY <1>1 DEF Late
  <2> QED
    BY <1>1, <1>3, <2>1, <2>2, <2>3 DEF Turned, Accounted
<1>5. Explained(run', asked') /\ Attended(run', child', queue')
  BY <1>1 DEF Turned, Explained, Attended
<1>6. ~Failing => Gathered(run', Document', child', queue')
  BY <1>1, <1>3 DEF Turned, Gathered
<1>7. Sealed'
  BY <1>1 DEF FinalInv, Sealed
<1>8. asked' \in Ask \cup {"none"}
  BY DEF FinalInv
<1> QED
  BY <1>2, <1>4, <1>5, <1>6, <1>7, <1>8 DEF FinalInv

\* try_send: what waited is counted as handed over, unless there is nobody to take it.
LEMMA OfferedIsTurned ==
  ASSUME DocumentInv, FinalInv, run.pc = "turn"
  PROVE  LET doc == IF Sends(run) THEN Append(Document, run.pending) ELSE Document IN
         Turned(Offered(run), doc, child) /\ Tallied(doc)
<1> DEFINE doc == IF Sends(run) THEN Append(Document, run.pending) ELSE Document
           r == Offered(run)
<1>1. /\ Formed(run) /\ DOMAIN run = RunFields /\ Counted(run) /\ run.encoded \in Nat
  BY RunIsFormed, CaptureRunAssumption DEF Counted, Formed
<1>2. /\ Accounted(run) /\ Booked(run) /\ Explained(run, asked)
      /\ Attended(run, child, queue) /\ Tallied(Document)
      /\ ~Failing => Gathered(run, Document, child, queue)
  BY DEF FinalInv, Accounted
<1>3. Lively(run) => Unbroken(run) /\ run.received = Handed(run)
  BY <1>2 DEF Accounted, Lively, Recording, Unbroken
<1>4. Turned(run, Document, child)
  <2>1. Whole(run) => run.stopping /\ run.received = run.encoded /\ ~Waiting(run)
                      /\ ~HasAttempt(run.ctl)
    BY <1>2 DEF Accounted
  <2> QED
    BY <1>1, <1>2, <1>3, <2>1 DEF Turned, Gathered
<1>5. CASE ~Sends(run) /\ (run.pending = NoPacket \/ ~WriterGone)
  <2>1. r = run /\ doc = Document
    BY <1>5 DEF Sends, Offered
  <2> HIDE DEF r, doc
  <2> QED
    BY <1>2, <1>4, <2>1 DEF r, doc
<1>6. CASE run.pending # NoPacket /\ WriterGone
  <2> DEFINE b == [run EXCEPT !.pending = NoPacket]
  <2>1. /\ DOMAIN b = RunFields /\ b.pending = NoPacket /\ b.ctl = run.ctl
        /\ b.session = run.session /\ b.stopping = run.stopping /\ b.reason = run.reason
        /\ b.encoded = run.encoded /\ b.received = run.received /\ b.ready = run.ready
        /\ b.done = run.done /\ b.failure = run.failure
    BY <1>1 DEF RunFields
  <2>2. r = Fail(b, "output_error") /\ doc = Document
    BY <1>6 DEF Offered, Sends
  <2> HIDE DEF b, r, doc
  <2>3. Formed(b)
    BY <1>1, <2>1 DEF Formed
  <2>4. Stays(b, r) /\ r.failure # "none"
    BY <2>2, <2>3, FailStays
  <2>5. /\ DOMAIN r = RunFields /\ r.pending = NoPacket /\ r.ctl = run.ctl
        /\ r.session = run.session /\ r.stopping = run.stopping /\ r.reason = run.reason
        /\ r.encoded = run.encoded /\ r.received = run.received /\ r.ready = run.ready
    BY <2>1, <2>4 DEF Stays
  <2>6. Booked(r)
    <3>1. Handed(r) = run.encoded /\ run.encoded <= Handed(run) /\ ~Waiting(r)
      BY <1>1, <2>5 DEF Handed, Waiting
    <3>2. Handed(run) \in Nat
      BY <1>1 DEF Handed
    <3> QED
      BY <1>1, <1>2, <2>4, <2>5, <3>1, <3>2 DEF Booked
  <2>7. Turned(r, Document, child)
    BY <1>2, <2>4, <2>5, <2>6 DEF Turned, Lively, Whole, Explained, Attended
  <2> QED
    BY <1>2, <2>2, <2>7 DEF r, doc
<1>7. CASE Sends(run)
  <2> DEFINE b == [run EXCEPT !.pending = NoPacket, !.encoded = @ + 1]
  <2>1. /\ DOMAIN b = RunFields /\ b.pending = NoPacket /\ b.encoded = run.encoded + 1
        /\ b.ctl = run.ctl /\ b.session = run.session /\ b.reason = run.reason
        /\ b.failure = run.failure /\ b.stopping = run.stopping
        /\ b.received = run.received /\ b.ready = run.ready /\ b.done = run.done
    BY <1>1 DEF RunFields
  <2>2. r = IF b.encoded >= MAX_ENTRIES THEN [b EXCEPT !.reason = "max_entries"] ELSE b
    BY <1>7 DEF Offered, Sends
  <2> HIDE DEF b
  <2>3. /\ DOMAIN r = RunFields /\ r.pending = NoPacket /\ r.encoded = run.encoded + 1
        /\ r.ctl = run.ctl /\ r.session = run.session
        /\ r.failure = run.failure /\ r.stopping = run.stopping
        /\ r.received = run.received /\ r.ready = run.ready /\ r.done = run.done
        /\ r.reason = run.reason \/ r.reason = "max_entries"
    BY <2>1, <2>2 DEF RunFields
  <2>4. /\ Waiting(run) /\ ~Waiting(r) /\ ~WriterGone
        /\ run.pending \in Item /\ run.pending.kind = "record"
    BY <1>1, <1>7, <2>3 DEF Sends, Waiting, Counted, RecordItem, Item
  <2>5. doc = Append(Document, run.pending)
    BY <1>7
  <2> HIDE DEF r, doc
  <2>6. Handed(r) = Handed(run) /\ Handed(run) = run.encoded + 1
    BY <2>3, <2>4 DEF Handed
  <2>7. ~Whole(r)
    <3>1. ~Whole(run)
      BY <1>2, <2>4 DEF Accounted
    <3> QED
      BY <2>3, <3>1 DEF Whole
  <2>8. /\ Chained(Document, child, run.ctl.next_id) /\ run.ctl.next_id \in Nat
        /\ Len(Document) # 0 /\ Document[Len(Document)].kind # "footer"
        /\ Follows(Document[Len(Document)], run.pending, child) /\ Document \in Seq(Item)
    <3>1. Open
      BY <2>4 DEF Open
    <3>2. InStep(run, Document, child, queue) /\ Chained(Document, child, run.ctl.next_id)
      BY <3>1 DEF DocumentInv, Coherent
    <3> QED
      BY <1>1, <2>4, <3>2, NextIds, ChainedFields DEF InStep
  <2>9. Tallied(doc)
    BY <1>2, <2>4, <2>5, <2>8, TalliedAppend
  <2>10. Newest(r, doc) = Newest(run, Document)
    <3>1. doc[Len(doc)] = run.pending
      BY <2>4, <2>5, <2>8, AppendProperties
    <3> QED
      BY <2>4, <3>1 DEF Newest
  <2>11. Booked(r)
    BY <1>2, <2>3, <2>4, <2>6 DEF Booked
  <2>12. Explained(r, asked) /\ Attended(r, child, queue)
    BY <1>2, <2>3, <2>4 DEF Explained, Attended, Booked
  <2>13. Turned(r, doc, child)
    BY <1>4, <2>3, <2>6, <2>7, <2>10, <2>11, <2>12 DEF Turned, Lively
  <2> QED
    BY <2>9, <2>13 DEF r, doc
<1> QED
  BY <1>5, <1>6, <1>7 DEF Sends

LEMMA WatchedStays ==
  ASSUME NEW r, Formed(r), NEW beat \in BOOLEAN, NEW written \in BOOLEAN
  PROVE  LET s == Watched(r, beat, written) IN
         Stays(r, s) /\ (s.done => r.done)
<1> DEFINE b == IF Status(r.ctl) = "Failed" THEN Fail(r, "adb_error") ELSE r
           c == [b EXCEPT !.published = visible]
           d == Fail(b, "status_error")
<1>1. Stays(r, b) /\ b.done = r.done /\ Formed(b)
  <2>1. Stays(r, r)
    BY DEF Stays, Formed
  <2> QED
    BY <2>1, FailStays, StaysFormed
<1> HIDE DEF b
<1>2. Stays(b, c) /\ c.done = b.done
  BY <1>1 DEF Stays, RunFields
<1>3. Stays(b, d) /\ d.done = b.done
  BY <1>1, FailStays
<1> HIDE DEF c, d
<1>4. Stays(r, c) /\ Stays(r, d)
  BY <1>1, <1>2, <1>3, StaysTwice
<1>5. Watched(r, beat, written) = IF beat /\ ~written THEN d ELSE IF beat THEN c ELSE b
  BY DEF Watched, b, c, d
<1> QED
  BY <1>1, <1>2, <1>3, <1>4, <1>5

\* A start leaves the counts as they are and begins an attempt that was not heard of.
LEMMA LaunchCounts ==
  ASSUME NEW r, Formed(r), NEW outcome, NEW cancelled
  PROVE  LET s == Launch(r, outcome, cancelled) IN
         /\ DOMAIN s = RunFields /\ s.received = r.received /\ s.done = r.done
         /\ s.ready = r.ready /\ s.session.started = FALSE
<1> DEFINE id == r.ctl.next_id + 1
           c == Poll(r.ctl, TRUE)
           begun == BeginAttempt(r.session)
           b == [r EXCEPT !.ctl = c, !.session = begun]
           gone == Exited(b.ctl, id)
           ok == [b EXCEPT !.handle = id, !.stopped = FALSE]
           bad == [b EXCEPT !.ctl = gone, !.backend_error = @ \/ ~cancelled]
<1>1. begun.started = FALSE
  BY DEF BeginAttempt, SessionOf
<1>2. Launch(r, outcome, cancelled) = IF outcome = "ok" THEN ok ELSE bad
  BY DEF Launch
<1> HIDE DEF c, begun
<1>3. /\ DOMAIN b = RunFields /\ b.session = begun /\ b.received = r.received
      /\ b.done = r.done /\ b.ready = r.ready
  BY DEF Formed, RunFields
<1> HIDE DEF b, gone
<1>4. /\ DOMAIN ok = RunFields /\ ok.session = begun /\ ok.received = r.received
      /\ ok.done = r.done /\ ok.ready = r.ready
  BY <1>3 DEF RunFields
<1>5. /\ DOMAIN bad = RunFields /\ bad.session = begun /\ bad.received = r.received
      /\ bad.done = r.done /\ bad.ready = r.ready
  BY <1>3 DEF RunFields
<1> HIDE DEF ok, bad
<1> QED
  BY <1>1, <1>2, <1>4, <1>5

LEMMA LaunchIsTurned ==
  ASSUME NEW r, NEW doc, Turned(r, doc, child), Coherent(r, doc, child, queue, ~Failing),
         PollStarts(r.ctl, TRUE), ~StopDone(r), NEW outcome \in StartOutcome, NEW cancelled,
         NEW new, new = [child EXCEPT ![r.ctl.next_id + 1] = ChildOf(outcome)]
  PROVE  Turned(Launch(r, outcome, cancelled), doc, new) /\ ~Whole(Launch(r, outcome, cancelled))
<1> DEFINE s == Launch(r, outcome, cancelled)
           n == r.ctl.next_id
<1>1. Formed(r) /\ n \in Nat /\ ChannelInv(child, queue, n)
  BY NextIds DEF Coherent, Counted
<1>2. Launched(r, s, outcome = "ok")
  BY <1>1, LaunchFields
<1>3. /\ DOMAIN s = RunFields /\ s.received = r.received /\ s.done = r.done
      /\ s.ready = r.ready /\ s.session.started = FALSE
  BY <1>1, LaunchCounts
<1> HIDE DEF s
<1>4. /\ Formed(s) /\ n + 1 \in Id /\ s.ctl.next_id = n + 1 /\ ~HasAttempt(r.ctl)
      /\ outcome = "ok" => ActiveId(s.ctl) = n + 1
      /\ outcome # "ok" => ~HasAttempt(s.ctl)
      /\ s.encoded = r.encoded /\ s.pending = r.pending /\ s.stopping = r.stopping
      /\ s.reason = r.reason /\ s.failure = r.failure
  BY <1>2 DEF Launched
<1>5. ~Whole(s) /\ ~Whole(r)
  BY <1>4 DEF Turned, Whole, StopDone
<1>6. Booked(s) /\ Explained(s, asked)
  BY <1>3, <1>4 DEF Turned, Booked, Handed, Waiting, Explained
<1>7. Lively(s) => s.received = Handed(s)
  BY <1>3, <1>4 DEF Turned, Lively, Handed, Waiting
<1>8. /\ new[n + 1] = ChildOf(outcome) /\ \A j \in Id : j # n + 1 => new[j] = child[j]
      /\ OnItsWay(n + 1, 0, new, queue)
  <2>1. child \in [Id -> Child] /\ n + 1 \in Id
    BY <1>1, <1>4 DEF ChannelInv
  <2>2. OnItsWay(n + 1, 0, new, queue)
    BY <1>1, <2>1, LaunchKeepsChannel
  <2> QED
    BY <2>1, <2>2
<1>9. Attended(s, new, queue)
  <2>1. ASSUME NEW i \in Id, Tended(i, new)
        PROVE  ActiveId(s.ctl) = i
    <3>1. ~Tended(i, child)
      <4>1. ActiveId(r.ctl) = 0 /\ i # 0
        BY <1>1, <1>4, HolderIsId DEF Formed, Id
      <4> QED
        BY <4>1 DEF Turned, Attended
    <3>2. i = n + 1 /\ ChildOf(outcome).drain # "none"
      BY <1>8, <2>1, <3>1 DEF Tended
    <3>3. outcome = "ok"
      BY <3>2, OutcomeFields
    <3> QED
      BY <1>4, <3>2, <3>3
  <2>2. outcome = "ok" => new[n + 1].reader = "new"
    BY <1>8 DEF ChildOf, Spawned
  <2> QED
    BY <1>4, <2>1, <2>2 DEF Attended, Unsaid
<1>10. ASSUME ~Failing, HasAttempt(s.ctl)
       PROVE  OnItsWay(ActiveId(s.ctl), TakenOf(ActiveId(s.ctl), Newest(s, doc)), new, queue)
  <2>1. Newest(s, doc) = Newest(r, doc)
    BY <1>4 DEF Newest, Waiting
  <2>2. /\ Newest(r, doc).kind = "record" =>
             Newest(r, doc).attempt \in Nat /\ Newest(r, doc).attempt <= n
    <3>1. Coherent(r, doc, child, queue, TRUE)
      BY <1>10 DEF Coherent
    <3>2. Newest(r, doc).kind = "record" =>
             Newest(r, doc).attempt \in Id /\ Newest(r, doc).attempt <= n
      BY <3>1, NewestFields
    <3> QED
      BY <3>2 DEF Id
  <2>3. TakenOf(n + 1, Newest(r, doc)) = 0
    BY <1>1, <2>2 DEF TakenOf
  <2> QED
    BY <1>4, <1>8, <1>10, <2>1, <2>3
<1> QED
  BY <1>3, <1>5, <1>6, <1>7, <1>9, <1>10 DEF Turned, s

LEMMA PollIsTurned ==
  ASSUME NEW r, NEW doc, Turned(r, doc, child), Formed(r), ~PollStarts(r.ctl, TRUE),
         ~StopDone(r)
  PROVE  LET s == [r EXCEPT !.ctl = Poll(r.ctl, TRUE)] IN
         Turned(s, doc, child) /\ ~Whole(s) /\ Formed(s)
<1> DEFINE c == Poll(r.ctl, TRUE)
           s == [r EXCEPT !.ctl = c]
<1>1. c.next_id = r.ctl.next_id
  <2>1. \A p : [r.ctl EXCEPT !.phase = p].next_id = r.ctl.next_id
    BY PhaseChange DEF Formed
  <2> QED
    BY <2>1 DEF Poll
<1>2. Sound(c) /\ (SameView(r.ctl, c) \/ Granted(r.ctl, c))
  BY PollIsSound, PollView DEF Formed
<1>3. r.ctl.next_id \in Nat
  BY NextIds
<1> HIDE DEF c
<1>4. ActiveId(c) = ActiveId(r.ctl)
  BY <1>1, <1>2, <1>3 DEF SameView, Granted
<1>5. HasAttempt(c) <=> HasAttempt(r.ctl)
  BY <1>2, <1>4, HolderIsId DEF Formed
<1>6. /\ DOMAIN s = RunFields /\ s.ctl = c /\ s.session = r.session
      /\ s.received = r.received /\ s.done = r.done /\ s.ready = r.ready
      /\ s.encoded = r.encoded /\ s.pending = r.pending /\ s.stopping = r.stopping
      /\ s.reason = r.reason /\ s.failure = r.failure
  BY DEF Formed, RunFields
<1> HIDE DEF s
<1>7. /\ Whole(s) <=> Whole(r)
      /\ Lively(s) <=> Lively(r)
      /\ Newest(s, doc) = Newest(r, doc) /\ Handed(s) = Handed(r)
      /\ Waiting(s) <=> Waiting(r)
  BY <1>6 DEF Whole, Lively, Newest, Handed, Waiting
<1>8. ~Whole(r)
  BY DEF Turned, StopDone
<1>9. Booked(s) /\ Explained(s, asked)
  BY <1>6, <1>7 DEF Turned, Booked, Explained
<1>10. Attended(s, child, queue)
  BY <1>4, <1>5, <1>6 DEF Turned, Attended
<1>11. Turned(s, doc, child)
  BY <1>4, <1>5, <1>6, <1>7, <1>8, <1>9, <1>10 DEF Turned
<1>12. Formed(s)
  BY <1>2, <1>6 DEF Formed
<1> QED
  BY <1>7, <1>8, <1>11, <1>12 DEF s, c

\* The numbers of attempts are used up: a failure, and no attempt in hand.
LEMMA ExhaustedIsTurned ==
  ASSUME NEW r, NEW doc, Turned(r, doc, child), Formed(r), PollStarts(r.ctl, TRUE)
  PROVE  LET s == [r EXCEPT !.failure = "identity_exhausted",
                            !.ctl = Exited(Poll(r.ctl, TRUE), r.ctl.next_id + 1)] IN
         Turned(s, doc, child) /\ s.failure # "none"
<1> DEFINE id == r.ctl.next_id + 1
           p == Poll(r.ctl, TRUE)
           c == Exited(p, id)
           s == [r EXCEPT !.failure = "identity_exhausted", !.ctl = c]
<1>1. Sound(p) /\ Granted(r.ctl, p)
  <2>1. ~IsStopping(r.ctl)
    BY DEF PollStarts, PollLaunches, Due, IsStopping
  <2>2. p.next_id = id
    BY <2>1 DEF Poll, Controlled
  <2>3. r.ctl.next_id \in Nat
    BY NextIds
  <2>4. Sound(p) /\ (SameView(r.ctl, p) \/ Granted(r.ctl, p))
    BY PollIsSound, PollView DEF Formed
  <2> HIDE DEF p
  <2> QED
    BY <2>2, <2>3, <2>4 DEF SameView
<1> HIDE DEF p
<1>2. HasAttempt(p) /\ ActiveId(p) = id /\ ~HasAttempt(r.ctl)
  <2>1. id # 0
    BY NextIds
  <2> QED
    BY <1>1, <2>1, HolderIsId DEF Granted
<1>3. ~HasAttempt(c)
  BY <1>1, <1>2, ExitedReleases DEF Released
<1> HIDE DEF c
<1>4. /\ DOMAIN s = RunFields /\ s.ctl = c /\ s.session = r.session
      /\ s.received = r.received /\ s.done = r.done /\ s.ready = r.ready
      /\ s.encoded = r.encoded /\ s.pending = r.pending /\ s.stopping = r.stopping
      /\ s.reason = r.reason /\ s.failure = "identity_exhausted"
  BY DEF Formed, RunFields
<1> HIDE DEF s
<1>5. \A i \in Id : ~Tended(i, child)
  <2>1. ActiveId(r.ctl) = 0 /\ 0 \notin Id
    BY <1>2, HolderIsId DEF Formed, Id
  <2> QED
    BY <2>1 DEF Turned, Attended
<1>6. Booked(s) /\ Explained(s, asked) /\ Attended(s, child, queue)
  BY <1>4, <1>5 DEF Turned, Booked, Handed, Waiting, Explained, Attended
<1>7. Turned(s, doc, child) /\ s.failure # "none"
  BY <1>4, <1>6 DEF Turned, Lively, Whole
<1> QED
  BY <1>7 DEF s, c, p

LEMMA TurnIsFinal == DocumentInv /\ FinalInv /\ Turn => FinalInv'
<1> SUFFICES ASSUME DocumentInv, FinalInv, Turn
             PROVE  FinalInv'
  OBVIOUS
<1> DEFINE r == Offered(run)
           doc == IF Sends(run) THEN Append(Document, run.pending) ELSE Document
           n == r.ctl.next_id
<1>1. /\ Formed(run) /\ run.pc = "turn" /\ UNCHANGED <<asked, writer, file, visible, queue>>
  BY RunIsFormed DEF Turn
<1>2. WriterGone <=> Failing
  BY <1>1 DEF WriterGone, Failing, FinalInv, Sealed
<1>3. /\ Coherent(r, doc, child, queue, ~Failing)
      /\ Sends(run) => run.pending \in Item
  <2> DEFINE open == ~WriterGone
  <2>1. Coherent(run, Document, child, queue, open)
    BY <1>1 DEF DocumentInv, Open
  <2>2. open \in BOOLEAN
    OBVIOUS
  <2> HIDE DEF open
  <2>3. open = ~WriterGone
    BY DEF open
  <2>4. /\ Coherent(r, doc, child, queue, open)
        /\ Sends(run) => run.pending \in Item
    BY <1>1, <2>1, <2>2, <2>3, OfferedCoherent
  <2> QED
    BY <1>2, <2>3, <2>4 DEF Coherent
<1>4. Document' = doc
  <2>1. CASE Sends(run)
    <3>1. ~WriterGone /\ packets = <<>> /\ packets' = Append(packets, run.pending)
      BY <2>1 DEF Turn, Sends, HasRoom
    <3>2. Document' = Append(Document, run.pending)
      BY <1>1, <1>3, <2>1, <3>1, SentDocument DEF DocumentInv
    <3> QED
      BY <2>1, <3>2
  <2>2. CASE ~Sends(run)
    <3>1. packets' = packets
      BY <2>2 DEF Turn
    <3> QED
      BY <1>1, <2>2, <3>1 DEF Document, InHand
  <2> QED
    BY <2>1, <2>2
<1>5. Turned(r, doc, child) /\ Tallied(doc)
  BY <1>1, OfferedIsTurned
<1>6. Formed(r)
  BY <1>3 DEF Coherent, Counted
<1> HIDE DEF r, doc
<1>7. ASSUME NEW s, NEW beat \in BOOLEAN, NEW written \in BOOLEAN,
             run' = At(Watched(s, beat, written), "receive"),
             Formed(s), Turned(s, doc, child'), ~Whole(s)
      PROVE  FinalInv'
  <2> DEFINE w == Watched(s, beat, written)
  <2>1. Stays(s, w) /\ (w.done => s.done)
    BY <1>7, WatchedStays
  <2>2. run' = At(w, "receive")
    BY <1>7
  <2> HIDE DEF w
  <2>3. Turned(w, doc, child')
    <3>1. w.done => w.failure # "none"
      BY <1>7, <2>1 DEF Turned, Booked, Stays
    <3> QED
      BY <1>7, <2>1, <3>1, TurnedStays
  <2>4. ~Whole(w)
    BY <1>7, <2>1 DEF Whole, Stays
  <2> QED
    BY <1>1, <1>4, <1>5, <2>2, <2>3, <2>4, TurnEnds
<1>8. CASE StopDone(r) /\ run' = At(r, "finish") /\ UNCHANGED child
  BY <1>1, <1>4, <1>5, <1>8, TurnEnds DEF StopDone
<1>9. CASE GivesUp(r) /\ run' = At(Fail(r, "adb_error"), "finish") /\ UNCHANGED child
  <2> DEFINE s == Fail(r, "adb_error")
  <2>1. Stays(r, s) /\ s.failure # "none"
    BY <1>6, FailStays
  <2>2. run' = At(s, "finish")
    BY <1>9
  <2> HIDE DEF s
  <2>3. Turned(s, doc, child') /\ s.stopping
    BY <1>5, <1>9, <2>1, TurnedStays DEF GivesUp, Stays
  <2> QED
    BY <1>1, <1>4, <1>5, <2>1, <2>2, <2>3, TurnEnds
<1>10. CASE /\ PollStarts(r.ctl, TRUE)
            /\ run' = At([r EXCEPT !.failure = "identity_exhausted",
                                   !.ctl = Exited(Poll(r.ctl, TRUE), n + 1)], "top")
            /\ UNCHANGED child
  <2> DEFINE s == [r EXCEPT !.failure = "identity_exhausted",
                            !.ctl = Exited(Poll(r.ctl, TRUE), n + 1)]
  <2>1. Turned(s, doc, child) /\ s.failure # "none"
    BY <1>5, <1>6, <1>10, ExhaustedIsTurned
  <2>2. run' = At(s, "top") /\ child' = child
    BY <1>10
  <2> HIDE DEF s
  <2> QED
    BY <1>1, <1>4, <1>5, <2>1, <2>2, TurnEnds
<1>11. CASE /\ PollStarts(r.ctl, TRUE) /\ ~StopDone(r)
            /\ \E beat, written \in BOOLEAN, outcome \in Outcomes :
                 /\ run' = At(Watched(Launch(r, outcome, asked \in {"interrupted", "stopped"}),
                                      beat, written), "receive")
                 /\ child' = [child EXCEPT ![n + 1] = ChildOf(outcome)]
  <2>1. PICK beat \in BOOLEAN, written \in BOOLEAN, outcome \in Outcomes :
          /\ run' = At(Watched(Launch(r, outcome, asked \in {"interrupted", "stopped"}),
                               beat, written), "receive")
          /\ child' = [child EXCEPT ![n + 1] = ChildOf(outcome)]
    BY <1>11
  <2> DEFINE cancelled == asked \in {"interrupted", "stopped"}
             s == Launch(r, outcome, cancelled)
  <2>2. outcome \in StartOutcome
    BY CaptureRunAssumption
  <2>3. run' = At(Watched(s, beat, written), "receive")
    BY <2>1
  <2> HIDE DEF cancelled
  <2>4. Turned(s, doc, child') /\ ~Whole(s)
    <3>1. Turned(r, doc, child) /\ Coherent(r, doc, child, queue, ~Failing)
          /\ PollStarts(r.ctl, TRUE) /\ ~StopDone(r)
      BY <1>3, <1>5, <1>11
    <3> QED
      BY <2>1, <2>2, <3>1, LaunchIsTurned
  <2>5. Formed(s)
    <3>1. Launched(r, s, outcome = "ok")
      BY <1>6, <1>11, LaunchFields
    <3> QED
      BY <3>1 DEF Launched
  <2> HIDE DEF s
  <2> QED
    BY <1>7, <2>3, <2>4, <2>5
<1>12. CASE /\ ~PollStarts(r.ctl, TRUE) /\ ~StopDone(r)
            /\ \E beat, written \in BOOLEAN :
                 run' = At(Watched([r EXCEPT !.ctl = Poll(r.ctl, TRUE)], beat, written), "receive")
            /\ UNCHANGED child
  <2> DEFINE s == [r EXCEPT !.ctl = Poll(r.ctl, TRUE)]
  <2>1. PICK beat \in BOOLEAN, written \in BOOLEAN :
          run' = At(Watched(s, beat, written), "receive")
    BY <1>12
  <2>2. Turned(s, doc, child) /\ ~Whole(s) /\ Formed(s)
    BY <1>5, <1>6, <1>12, PollIsTurned
  <2>3. child' = child
    BY <1>12
  <2> HIDE DEF s
  <2> QED
    BY <1>7, <2>1, <2>2, <2>3
<1> QED
  BY <1>8, <1>9, <1>10, <1>11, <1>12 DEF Turn, r

-------------------------------------------------------------------------------
(* Success: the theorem *)

LEMMA InitIsFinal == Init => FinalInv
<1> SUFFICES ASSUME Init
             PROVE  FinalInv
  OBVIOUS
<1>1. PICK dump \in Dumps : run = Start(dump)
  BY DEF Init
<1>2. DocumentInv
  BY InitHasDocument
<1> DEFINE c == Request(NewController, CHOOSE t \in Target : TRUE, FALSE)
<1>3. ~HasAttempt(c) /\ ActiveId(c) = 0
  <2>1. (CHOOSE t \in Target : TRUE) \in Intent
    BY CaptureRunAssumption DEF Intent
  <2>2. Sound(NewController) /\ ~HasAttempt(NewController)
    BY NewIsSound DEF NewController, Controlled, Idle, HasAttempt, IsActive, IsStopping
  <2>3. Asked(NewController, c, CHOOSE t \in Target : TRUE)
    BY <2>1, <2>2, RequestView
  <2> HIDE DEF c
  <2> QED
    BY <2>2, <2>3 DEF Asked, ActiveId, NoId
<1> HIDE DEF c
<1>4. /\ run.pc = "top" /\ run.ctl = c /\ run.session = NewSession(1)
      /\ run.stopping = FALSE /\ run.reason = "none" /\ run.failure = "none"
      /\ run.pending = NoPacket /\ run.encoded = 0 /\ run.received = 0
      /\ run.done = FALSE /\ run.ready = FALSE
  BY <1>1 DEF Start, c
<1>5. run.session.started = FALSE
  BY <1>4 DEF NewSession, SessionOf
<1>6. Handed(run) = 0 /\ ~Waiting(run)
  BY <1>4 DEF Handed, Waiting
<1>7. /\ asked = "none" /\ packets = <<Header>> /\ file = <<>> /\ visible = 0
      /\ writer.state = "idle" /\ child = [i \in Id |-> NoChild]
  BY DEF Init, ChannelInit
<1>8. Accounted(run) /\ Explained(run, asked)
  BY <1>4, <1>5, <1>6 DEF Accounted, Booked, Unbroken, Whole, Explained, Late
<1>9. Attended(run, child, queue) /\ Gathered(run, Document, child, queue)
  BY <1>3, <1>4, <1>7, NoChildFields DEF Attended, Tended, Gathered, Whole
<1>10. Tallied(Document)
  <2>1. Document = <<Header>>
    <3>1. Header \in Item
      BY DEF Item
    <3>2. InHand = <<>> /\ <<Header>> \in Seq(Item) /\ <<>> \in Seq(Item)
      BY <1>7, <3>1, EmptySeq DEF InHand
    <3>3. file \o InHand = <<>>
      BY <1>7, <3>2, ConcatEmptySeq
    <3> QED
      BY <1>7, <3>2, <3>3, ConcatEmptySeq DEF Document
  <2>2. Records(Document) = {}
    BY <2>1 DEF Records, Header
  <2> QED
    BY <2>2 DEF Tallied
<1>11. Sealed
  <2>1. Records(file) = {}
    BY <1>7 DEF Records
  <2> QED
    BY <1>4, <1>7, <2>1, FS_EmptySet DEF Sealed
<1> QED
  BY <1>7, <1>8, <1>9, <1>10, <1>11 DEF FinalInv

\* What the invariants say of a run that reports success.
LEMMA FinalInvImplies == DocumentInv /\ FinalInv => SuccessIsFinalized
<1> SUFFICES ASSUME DocumentInv, FinalInv, Succeeded
             PROVE  LET footer == file[Len(file)]
                    IN /\ file # <<>> /\ footer.kind = "footer"
                       /\ footer.count = run.published
                       /\ packets = <<>> /\ writer.state = "ok"
                       /\ ~footer.partial => footer.count = run.received
                       /\ \A i \in Id : child[i].proc = "alive" => Abandoned(i)
                       /\ ~run.ready => asked # "none"
                       /\ run.reason = "snapshot_complete" =>
                            LET i == run.ctl.next_id IN
                            /\ run.published = run.received
                            /\ child[i].lines
                                 = Cardinality({k \in Records(file) : file[k].attempt = i})
  BY DEF SuccessIsFinalized
<1> DEFINE footer == file[Len(file)]
<1>1. /\ run.pc = "ended" /\ run.failure = "none" /\ run.stopping /\ Formed(run)
      /\ run.encoded \in Nat /\ run.received \in Nat /\ run.encoded <= run.received
  <2>1. run.pc = "ended" /\ run.failure = "none"
    BY DEF Succeeded
  <2>2. Formed(run) /\ run.stopping /\ Counted(run) /\ run.encoded \in Nat
    BY <2>1, RunIsFormed, CaptureRunAssumption DEF Late, Counted
  <2>3. ~Waiting(run)
    BY <2>2 DEF Counted
  <2>4. Booked(run)
    BY DEF FinalInv, Accounted
  <2> QED
    BY <2>1, <2>2, <2>3, <2>4 DEF Booked, Handed
<1>2. writer.state = "ok" /\ run.published = visible /\ ~Failing /\ WriterGone
      /\ visible = Cardinality(Records(file))
  BY <1>1 DEF FinalInv, Sealed, Failing, WriterGone
<1>3. packets = <<>> /\ Document = file /\ file \in Seq(Item)
  BY <1>2, DocumentParts DEF DocumentInv, OutputInv
<1>4. file # <<>> /\ footer = FooterOf(run)
  BY <1>1, <1>2, <1>3 DEF FinalInv, Sealed
<1>5. /\ footer.kind = "footer" /\ footer.count = run.encoded
      /\ ~footer.partial => ~(run.received > run.encoded)
  <2>1. \A c, b : /\ Footer(c, b).kind = "footer" /\ Footer(c, b).count = c
                  /\ Footer(c, b).partial = b
    BY DEF Footer
  <2>2. PICK b : b = (run.received > run.encoded \/ run.reconnects > 0 \/ run.failure # "none")
    OBVIOUS
  <2>3. footer = Footer(run.encoded, b)
    BY <1>4, <2>2 DEF FooterOf
  <2> HIDE DEF footer
  <2>4. footer.kind = "footer" /\ footer.count = run.encoded /\ footer.partial = b
    BY <2>1, <2>3
  <2> QED
    BY <2>2, <2>4
<1>6. Cardinality(Records(file)) = run.encoded
  <2> DEFINE l == Len(file)
  <2>1. /\ Chained(file, child, run.ctl.next_id) /\ l \in Nat \ {0} /\ DOMAIN file = 1 .. l
        /\ \A k \in DOMAIN file : file[k] \in Item
    BY <1>3, <1>4, ChainedFields, EmptySeq DEF DocumentInv, Coherent
  <2>2. l \in DOMAIN file /\ file[l].count = l - 2 /\ l # 1
    BY <1>5, <2>1 DEF Chained
  <2>3. run.encoded = l - 2
    BY <1>5, <2>2
  <2>4. Records(file) = 2 .. l - 1
    <3>1. ASSUME NEW k \in DOMAIN file
          PROVE  file[k].kind = "record" <=> k # 1 /\ k # l
      <4>1. file[k].kind \in {"header", "record", "footer"}
        BY <2>1, ItemFields
      <4>2. (file[k].kind = "header" <=> k = 1) /\ (file[k].kind = "footer" => k = l)
        BY <2>1 DEF Chained
      <4> QED
        BY <1>5, <4>1, <4>2
    <3> HIDE DEF l
    <3> QED
      BY <2>1, <3>1 DEF Records
  <2> HIDE DEF l
  <2>5. Cardinality(2 .. l - 1) = l - 2
    <3>1. l - 1 \in Int /\ 2 \in Int
      BY <2>1
    <3>2. Cardinality(2 .. l - 1) = IF 2 > l - 1 THEN 0 ELSE (l - 1) - 2 + 1
      BY <3>1, FS_Interval
    <3> QED
      BY <2>1, <2>2, <3>2
  <2> QED
    BY <2>3, <2>4, <2>5
<1>7. \A i \in Id : child[i].proc = "alive" => Abandoned(i)
  <2>1. ~HasAttempt(run.ctl)
    BY <1>1 DEF FinalInv, Accounted, Late
  <2>2. ActiveId(run.ctl) = 0 /\ 0 \notin Id
    BY <1>1, <2>1, HolderIsId DEF Formed, Id
  <2> QED
    BY <2>2 DEF FinalInv, Attended, Tended, Abandoned
<1>8. ~run.ready => asked # "none"
  BY <1>1 DEF FinalInv, Explained, Accounted, Booked
<1>9. ASSUME run.reason = "snapshot_complete"
      PROVE  /\ run.encoded = run.received
             /\ child[run.ctl.next_id].lines
                  = Cardinality({k \in Records(file) : file[k].attempt = run.ctl.next_id})
  <2>1. Whole(run)
    BY <1>1, <1>9 DEF Whole
  <2>2. run.encoded = run.received
    BY <2>1 DEF FinalInv, Accounted
  <2>3. child[run.ctl.next_id].lines = Cardinality(OfAttempt(file, run.ctl.next_id))
    BY <1>2, <1>3, <2>1 DEF FinalInv, Gathered
  <2> QED
    BY <2>2, <2>3 DEF OfAttempt
<1>10. run.published = run.encoded
  BY <1>2, <1>6
<1>11. ~footer.partial => run.encoded = run.received
  BY <1>1, <1>5
<1> QED
  BY <1>2, <1>3, <1>4, <1>5, <1>7, <1>8, <1>9, <1>10, <1>11

LEMMA FinalKept == DocumentInv /\ FinalInv /\ [Next]_vars => FinalInv'
<1> SUFFICES ASSUME DocumentInv, FinalInv, [Next]_vars
             PROVE  FinalInv'
  OBVIOUS
<1>1. CASE Top
  BY <1>1, TopIsFinal
<1>2. CASE Turn
  BY <1>2, TurnIsFinal
<1>3. CASE Receive
  BY <1>3, ReceiveIsFinal
<1>4. CASE Finish
  BY <1>4, FinishIsFinal
<1>5. CASE SendFooter
  BY <1>5, SendFooterIsFinal
<1>6. CASE Join
  BY <1>6, JoinIsFinal
<1>7. CASE WriterStep
  BY <1>7, WriterIsFinal
<1>8. CASE ChildActs
  BY <1>8, ChildIsFinal
<1>9. CASE AskEnd
  BY <1>9, AskIsFinal
<1>10. CASE Tick
  BY <1>10, TickIsFinal
<1>11. CASE UNCHANGED vars
  BY <1>11, IdleIsFinal
<1> QED
  BY <1>1, <1>2, <1>3, <1>4, <1>5, <1>6, <1>7, <1>8, <1>9, <1>10, <1>11 DEF Next, Loop

\* For every number of attempts, lines and records: a run that reports success left a
\* finished document whose footer counts what the final status counts and tells of every
\* gap, no process behind but those whose failed start could not kill them either, and, of
\* a snapshot, every line its last attempt wrote (finalization, run_capture).
THEOREM SuccessStaysFinalized == Spec => []SuccessIsFinalized
<1>1. Init => DocumentInv /\ FinalInv
  BY InitHasDocument, InitIsFinal
<1>2. (DocumentInv /\ FinalInv) /\ [Next]_vars => (DocumentInv /\ FinalInv)'
  BY DocumentKept, FinalKept
<1>3. DocumentInv /\ FinalInv => SuccessIsFinalized
  BY FinalInvImplies
<1> QED
  BY <1>1, <1>2, <1>3, PTL DEF Spec
===============================================================================
