--------------------------- MODULE DocumentsProofs ----------------------------
(***************************************************************************)
(* The documents' safety properties for every budget, chunk size, number   *)
(* of rows, text, job and path.  The proof climbs the layers of the model: *)
(*   - the chunked store: its rows are one sequence, whatever was pushed   *)
(*     and removed, and its counters and index tell what they hold;        *)
(*   - the live view: the facts of the capture tell every record that the  *)
(*     store no longer has;                                                *)
(*   - the file: a line is read back as the row it was written from, and a *)
(*     file that misses a line, has one twice, or two in the wrong order   *)
(*     has no document;                                                    *)
(*   - the rows a filter or a selection picks are rows of the document in  *)
(*     their order, and what names them stays right;                       *)
(*   - the jobs and the disk: FilesInv, one conjunct for the view, the     *)
(*     opened document, the jobs, the disk and the counts, is inductive,   *)
(*     and the properties follow from it.                                  *)
(***************************************************************************)
EXTENDS Documents, SequenceTheorems, WellFoundedInduction, TLAPS

-------------------------------------------------------------------------------
(* Numbers, sequences and the chunked store.                               *)

\* What holds of 0 and, with a number, of the next one, holds of every number:
\* a least number for which it did not hold would have one before it.
LEMMA Induction ==
  ASSUME NEW S, 0 \in S, \A n \in Nat : n \in S => n + 1 \in S
  PROVE  \A n \in Nat : n \in S
<1> DEFINE less == OpToRel(<, Nat)
           rest == Nat \ S
<1>1. \A m, n \in Nat : <<m, n>> \in OpToRel(<, Nat) <=> m < n
  BY DEF OpToRel
<1> SUFFICES ASSUME rest # {} PROVE FALSE
  OBVIOUS
<1>2. PICK n \in rest : \A m \in rest : <<m, n>> \notin less
  <2>1. rest \subseteq Nat
    OBVIOUS
  <2> QED
    BY <2>1, NatLessThanWellFounded, WFMin
<1>3. n \in Nat /\ n \notin S /\ n - 1 \in Nat /\ n - 1 < n
  OBVIOUS
<1>4. n - 1 \notin rest
  <2>1. <<n - 1, n>> \in less
    BY <1>1, <1>3
  <2> HIDE DEF less, rest
  <2> QED
    BY <1>2, <2>1
<1> QED
  BY <1>3, <1>4

\* A definition by recursion along 1 .. n, and its value.
StepsIn(n, S, step) == \A k \in 1 .. n, s \in S : step[<<k, s>>] \in S

IsRun(n, S, start, step, run) ==
  /\ run \in [0 .. n -> S] /\ run[0] = start
  /\ \A k \in 1 .. n : run[k] = step[<<k, run[k - 1]>>]

\* It has one.
LEMMA RunExists ==
  ASSUME NEW n \in Nat, NEW S, NEW start \in S, NEW step, StepsIn(n, S, step)
  PROVE  \E run : IsRun(n, S, start, step, run)
<1> USE DEF StepsIn
<1> DEFINE Runs(m) ==
             {r \in [0 .. m -> S] :
                r[0] = start /\ \A k \in 1 .. m : r[k] = step[<<k, r[k - 1]>>]}
           some == {m \in Nat : m <= n => Runs(m) # {}}
<1>1. 0 \in some
  <2>1. [k \in 0 .. 0 |-> start] \in Runs(0)
    OBVIOUS
  <2> QED
    BY <2>1
<1>2. ASSUME NEW m \in Nat, m \in some
      PROVE  m + 1 \in some
  <2> SUFFICES ASSUME m + 1 <= n PROVE Runs(m + 1) # {}
    OBVIOUS
  <2>1. PICK r : r \in Runs(m)
    BY <1>2
  <2>2. r[m] \in S /\ step[<<m + 1, r[m]>>] \in S
    <3>1. r[m] \in S
      BY <2>1
    <3> QED
      BY <3>1
  <2> DEFINE more == [k \in 0 .. m + 1 |-> IF k = m + 1 THEN step[<<m + 1, r[m]>>] ELSE r[k]]
  <2>3. more \in [0 .. m + 1 -> S] /\ more[0] = start
    BY <2>1, <2>2
  <2>4. ASSUME NEW k \in 1 .. m + 1 PROVE more[k] = step[<<k, more[k - 1]>>]
    <3> HIDE DEF Runs
    <3>1. more[m + 1] = step[<<m + 1, r[m]>>] /\ \A i \in 0 .. m : more[i] = r[i]
      OBVIOUS
    <3>2. k - 1 \in 0 .. m
      OBVIOUS
    <3> HIDE DEF more
    <3>3. CASE k = m + 1
      BY <3>1, <3>2, <3>3
    <3>4. CASE k \in 1 .. m
      <4>1. r[k] = step[<<k, r[k - 1]>>]
        BY <2>1, <3>4 DEF Runs
      <4> QED
        BY <3>1, <3>2, <3>4, <4>1
    <3> QED
      BY <3>3, <3>4
  <2> HIDE DEF more
  <2> QED
    BY <2>3, <2>4
<1> HIDE DEF some
<1>3. n \in some
  BY <1>1, <1>2, Induction
<1>4. PICK r : r \in Runs(n)
  BY <1>3 DEF some
<1> QED
  BY <1>4 DEF IsRun

\* Two functions that begin alike and go on alike are the same.
Alike(n, f, g) ==
  /\ f[0] = g[0]
  /\ \A k \in 1 .. n : f[k - 1] = g[k - 1] => f[k] = g[k]

LEMMA RunsAgree ==
  ASSUME NEW n \in Nat, NEW f, NEW g, Alike(n, f, g)
  PROVE  \A k \in 0 .. n : f[k] = g[k]
<1> USE DEF Alike
<1> DEFINE same == {k \in Nat : k <= n => f[k] = g[k]}
<1>1. 0 \in same
  OBVIOUS
<1>2. \A k \in Nat : k \in same => k + 1 \in same
  <2> TAKE k \in Nat
  <2> SUFFICES ASSUME k \in same, k + 1 <= n PROVE f[k + 1] = g[k + 1]
    OBVIOUS
  <2>1. f[k] = g[k] /\ k + 1 \in 1 .. n /\ (k + 1) - 1 = k
    OBVIOUS
  <2> QED
    BY <2>1
<1> HIDE DEF same
<1>3. \A k \in Nat : k \in same
  BY <1>1, <1>2, Induction
<1> QED
  BY <1>3 DEF same


\* A function that is defined by such a recursion is its run.
Goes(n, S, start, step, f) ==
  /\ f = [k \in 0 .. n |-> f[k]] /\ f[0] = start
  /\ \A k \in 1 .. n : f[k - 1] \in S => f[k] = step[<<k, f[k - 1]>>]

LEMMA Recursion ==
  ASSUME NEW n \in Nat, NEW S, NEW start \in S, NEW step, StepsIn(n, S, step), NEW f,
         \A g : IsRun(n, S, start, step, g) => Goes(n, S, start, step, f)
  PROVE  IsRun(n, S, start, step, f)
<1>1. PICK g : IsRun(n, S, start, step, g)
  BY RunExists
<1>2. Goes(n, S, start, step, f)
  BY <1>1
<1>3. Alike(n, f, g)
  <2>1. f[0] = g[0]
    BY <1>1, <1>2 DEF IsRun, Goes
  <2>2. ASSUME NEW k \in 1 .. n, f[k - 1] = g[k - 1] PROVE f[k] = g[k]
    <3>1. k - 1 \in 0 .. n
      OBVIOUS
    <3>2. g[k - 1] \in S
      BY <1>1, <3>1 DEF IsRun
    <3> QED
      BY <1>1, <1>2, <2>2, <3>2 DEF IsRun, Goes
  <2> QED
    BY <2>1, <2>2 DEF Alike
<1>4. \A k \in 0 .. n : f[k] = g[k]
  BY <1>3, RunsAgree
<1>5. f = g
  <2>1. g = [k \in 0 .. n |-> g[k]]
    BY <1>1 DEF IsRun
  <2>2. f = [k \in 0 .. n |-> f[k]]
    BY <1>2 DEF Goes
  <2> QED
    BY <1>4, <2>1, <2>2
<1> QED
  BY <1>1, <1>5

-------------------------------------------------------------------------------
(* Sums and concatenations.                                                *)

TotalRun(numbers, run) ==
  /\ run \in [0 .. Len(numbers) -> Nat] /\ run[0] = 0
  /\ Total(numbers) = run[Len(numbers)]
  /\ \A k \in 1 .. Len(numbers) : run[k] = run[k - 1] + numbers[k]

LEMMA TotalRuns ==
  ASSUME NEW numbers \in Seq(Nat)
  PROVE  \E run : TotalRun(numbers, run)
<1> DEFINE n == Len(numbers)
           step == [p \in (1 .. n) \X Nat |-> p[2] + numbers[p[1]]]
           total == CHOOSE f : f = [k \in 0 .. n |-> IF k = 0 THEN 0 ELSE f[k - 1] + numbers[k]]
<1>1. n \in Nat /\ \A k \in 1 .. n : numbers[k] \in Nat
  OBVIOUS
<1>2. Total(numbers) = total[n]
  BY Zenon DEF Total
<1> HIDE DEF n
<1>3. \A k \in 1 .. n, x \in Nat : step[<<k, x>>] = x + numbers[k] /\ x + numbers[k] \in Nat
  BY <1>1
<1> HIDE DEF step
<1>4. ASSUME NEW g, IsRun(n, Nat, 0, step, g) PROVE Goes(n, Nat, 0, step, total)
  <2>1. g = [k \in 0 .. n |-> IF k = 0 THEN 0 ELSE g[k - 1] + numbers[k]]
    <3>1. ASSUME NEW k \in 0 .. n
          PROVE  g[k] = IF k = 0 THEN 0 ELSE g[k - 1] + numbers[k]
      <4>1. CASE k = 0
        BY <1>4, <4>1 DEF IsRun
      <4>2. CASE k # 0
        <5>1. k \in 1 .. n /\ k - 1 \in 0 .. n
          BY <1>1, <4>2
        <5>2. g[k] = step[<<k, g[k - 1]>>] /\ g[k - 1] \in Nat
          BY <1>4, <5>1 DEF IsRun
        <5> QED
          BY <1>3, <4>2, <5>1, <5>2
      <4> QED
        BY <4>1, <4>2
    <3>2. g = [k \in 0 .. n |-> g[k]]
      BY <1>4 DEF IsRun
    <3> QED
      BY <3>1, <3>2
  <2>2. total = [k \in 0 .. n |-> IF k = 0 THEN 0 ELSE total[k - 1] + numbers[k]]
    BY <2>1
  <2> HIDE DEF total
  <2>3. \A k \in 0 .. n : total[k] = IF k = 0 THEN 0 ELSE total[k - 1] + numbers[k]
    BY <2>2
  <2>4. \A k \in 1 .. n : k \in 0 .. n /\ k # 0
    BY <1>1
  <2>5. total = [k \in 0 .. n |-> total[k]] /\ total[0] = 0
    BY <1>1, <2>2, <2>3
  <2>6. ASSUME NEW k \in 1 .. n, total[k - 1] \in Nat
        PROVE  total[k] = step[<<k, total[k - 1]>>]
    <3>1. total[k] = total[k - 1] + numbers[k]
      BY <2>3, <2>4
    <3> QED
      BY <1>3, <2>6, <3>1
  <2> QED
    BY <2>5, <2>6 DEF Goes
<1> HIDE DEF total
<1>5. IsRun(n, Nat, 0, step, total)
  <2>1. StepsIn(n, Nat, step)
    BY <1>3 DEF StepsIn
  <2> QED
    BY <1>1, <1>4, <2>1, Recursion
<1>6. \A k \in 1 .. n : total[k] = total[k - 1] + numbers[k]
  <2> TAKE k \in 1 .. n
  <2>1. k - 1 \in 0 .. n
    BY <1>1
  <2>2. total[k - 1] \in Nat
    BY <1>5, <2>1 DEF IsRun
  <2> QED
    BY <1>3, <1>5, <2>2 DEF IsRun
<1>7. TotalRun(numbers, total)
  BY <1>2, <1>5, <1>6 DEF IsRun, TotalRun, n
<1> QED
  BY <1>7

JoinedRun(S, parts, run) ==
  /\ run \in [0 .. Len(parts) -> Seq(S)] /\ run[0] = <<>>
  /\ Joined(parts) = run[Len(parts)]
  /\ \A k \in 1 .. Len(parts) : run[k] = run[k - 1] \o parts[k]

LEMMA JoinedRuns ==
  ASSUME NEW S, NEW parts \in Seq(Seq(S))
  PROVE  \E run : JoinedRun(S, parts, run)
<1> DEFINE n == Len(parts)
           T == Seq(S)
           step == [p \in (1 .. n) \X T |-> p[2] \o parts[p[1]]]
           joined == CHOOSE f : f = [k \in 0 .. n |-> IF k = 0 THEN <<>> ELSE f[k - 1] \o parts[k]]
<1>1. n \in Nat /\ <<>> \in T /\ \A k \in 1 .. n : parts[k] \in T
  <2>1. <<>> \in T
    BY EmptySeq
  <2> QED
    BY <2>1
<1>2. Joined(parts) = joined[n]
  BY Zenon DEF Joined
<1>3. \A k \in 1 .. n, x \in T : step[<<k, x>>] = x \o parts[k] /\ x \o parts[k] \in T
  <2> TAKE k \in 1 .. n, x \in T
  <2>1. parts[k] \in Seq(S)
    OBVIOUS
  <2>2. x \o parts[k] \in Seq(S)
    BY <2>1, ConcatProperties
  <2> QED
    BY <2>2
<1> HIDE DEF n, T, step
<1>4. ASSUME NEW g, IsRun(n, T, <<>>, step, g) PROVE Goes(n, T, <<>>, step, joined)
  <2>1. g = [k \in 0 .. n |-> IF k = 0 THEN <<>> ELSE g[k - 1] \o parts[k]]
    <3>1. ASSUME NEW k \in 0 .. n
          PROVE  g[k] = IF k = 0 THEN <<>> ELSE g[k - 1] \o parts[k]
      <4>1. CASE k = 0
        BY <1>4, <4>1 DEF IsRun
      <4>2. CASE k # 0
        <5>1. k \in 1 .. n /\ k - 1 \in 0 .. n
          BY <1>1, <4>2
        <5>2. g[k] = step[<<k, g[k - 1]>>] /\ g[k - 1] \in T
          BY <1>4, <5>1 DEF IsRun
        <5> QED
          BY <1>3, <4>2, <5>1, <5>2
      <4> QED
        BY <4>1, <4>2
    <3>2. g = [k \in 0 .. n |-> g[k]]
      BY <1>4 DEF IsRun
    <3> QED
      BY <3>1, <3>2
  <2>2. joined = [k \in 0 .. n |-> IF k = 0 THEN <<>> ELSE joined[k - 1] \o parts[k]]
    BY <2>1
  <2> HIDE DEF joined
  <2>3. \A k \in 0 .. n : joined[k] = IF k = 0 THEN <<>> ELSE joined[k - 1] \o parts[k]
    BY <2>2
  <2>4. \A k \in 1 .. n : k \in 0 .. n /\ k # 0
    BY <1>1
  <2>5. joined = [k \in 0 .. n |-> joined[k]] /\ joined[0] = <<>>
    BY <1>1, <2>2, <2>3
  <2>6. ASSUME NEW k \in 1 .. n, joined[k - 1] \in T
        PROVE  joined[k] = step[<<k, joined[k - 1]>>]
    <3>1. joined[k] = joined[k - 1] \o parts[k]
      BY <2>3, <2>4
    <3> QED
      BY <1>3, <2>6, <3>1
  <2> QED
    BY <2>5, <2>6 DEF Goes
<1> HIDE DEF joined
<1>5. IsRun(n, T, <<>>, step, joined)
  <2>1. StepsIn(n, T, step)
    BY <1>3 DEF StepsIn
  <2> QED
    BY <1>1, <1>4, <2>1, Recursion
<1>6. \A k \in 1 .. n : joined[k] = joined[k - 1] \o parts[k]
  <2> TAKE k \in 1 .. n
  <2>1. k - 1 \in 0 .. n
    BY <1>1
  <2>2. joined[k - 1] \in T
    BY <1>5, <2>1 DEF IsRun
  <2> QED
    BY <1>3, <1>5, <2>2 DEF IsRun
<1>7. JoinedRun(S, parts, joined)
  BY <1>2, <1>5, <1>6 DEF IsRun, JoinedRun, n, T
<1> QED
  BY <1>7

Associates(S) == \A a, b, c \in Seq(S) : (a \o b) \o c = a \o (b \o c)

LEMMA JoinAssociates == \A S : Associates(S)
  BY ConcatAssociative DEF Associates

\* Joining and appending commute.
LEMMA AppendToJoined ==
  ASSUME NEW S, NEW s \in Seq(S), NEW t \in Seq(S), NEW e \in S
  PROVE  s \o Append(t, e) = Append(s \o t, e)
<1>1. /\ t \in Seq(S) /\ Append(t, e) \in Seq(S) /\ s \o t \in Seq(S)
      /\ s \o Append(t, e) \in Seq(S) /\ Append(s \o t, e) \in Seq(S)
  OBVIOUS
<1>2. Len(s \o Append(t, e)) = Len(s) + Len(t) + 1 /\ Len(Append(s \o t, e)) = Len(s) + Len(t) + 1
  OBVIOUS
<1>3. ASSUME NEW k \in 1 .. Len(s) + Len(t) + 1
      PROVE  (s \o Append(t, e))[k] = Append(s \o t, e)[k]
  <2>1. CASE k \in 1 .. Len(s)
    BY <2>1
  <2>2. CASE k \in Len(s) + 1 .. Len(s) + Len(t)
    BY <2>2
  <2>3. CASE k = Len(s) + Len(t) + 1
    BY <2>3
  <2> QED
    BY <1>3, <2>1, <2>2, <2>3
<1> QED
  BY <1>1, <1>2, <1>3, SMTT(30)

LEMMA JoinedType ==
  ASSUME NEW S, NEW parts \in Seq(Seq(S))
  PROVE  Joined(parts) \in Seq(S)
<1>1. PICK f : JoinedRun(S, parts, f)
  BY JoinedRuns
<1>2. Len(parts) \in 0 .. Len(parts)
  OBVIOUS
<1> QED
  BY <1>1, <1>2 DEF JoinedRun

LEMMA JoinedEmpty == Joined(<<>>) = <<>>
<1>1. <<>> \in Seq(Seq({})) /\ Len(<<>>) = 0
  BY EmptySeq
<1>2. PICK f : JoinedRun({}, <<>>, f)
  BY <1>1, JoinedRuns
<1> QED
  BY <1>1, <1>2 DEF JoinedRun

LEMMA JoinedOne == ASSUME NEW S, NEW s \in Seq(S) PROVE Joined(<<s>>) = s
<1> DEFINE p == <<s>>
<1>1. p \in Seq(Seq(S)) /\ Len(p) = 1 /\ p[1] = s
  OBVIOUS
<1> HIDE DEF p
<1>2. PICK f : JoinedRun(S, p, f)
  BY <1>1, JoinedRuns
<1>3. 1 \in 1 .. 1
  OBVIOUS
<1>4. Joined(p) = f[0] \o p[1] /\ f[0] = <<>>
  <2>1. Joined(p) = f[1] /\ f[0] = <<>>
    BY <1>1, <1>2 DEF JoinedRun
  <2>2. f[1] = f[1 - 1] \o p[1]
    BY <1>1, <1>2, <1>3 DEF JoinedRun
  <2>3. 1 - 1 = 0
    OBVIOUS
  <2> QED
    BY <2>1, <2>2, <2>3
<1>5. <<>> \o s = s
  BY ConcatEmptySeq
<1> QED
  BY <1>1, <1>4, <1>5 DEF p

LEMMA JoinedJoin ==
  ASSUME NEW S, NEW p \in Seq(Seq(S)), NEW q \in Seq(Seq(S))
  PROVE  Joined(p \o q) = Joined(p) \o Joined(q)
<1>0. Associates(S)
  BY JoinAssociates
<1> DEFINE m == Len(p)
           n == Len(q)
           pq == p \o q
<1>1. /\ m \in Nat /\ n \in Nat /\ pq \in Seq(Seq(S)) /\ Len(pq) = m + n
      /\ \A k \in 1 .. m : pq[k] = p[k] /\ k \in 1 .. Len(pq)
      /\ \A k \in 1 .. n : pq[m + k] = q[k] /\ m + k \in 1 .. Len(pq) /\ (m + k) - 1 = m + (k - 1)
      /\ \A k \in 1 .. n : q[k] \in Seq(S)
  OBVIOUS
<1>2. PICK f : /\ f \in [0 .. m -> Seq(S)] /\ f[0] = <<>> /\ Joined(p) = f[m]
               /\ \A k \in 1 .. m : f[k] = f[k - 1] \o p[k]
  <2>1. PICK run : JoinedRun(S, p, run)
    BY JoinedRuns
  <2> QED
    BY <2>1 DEF JoinedRun
<1>3. PICK g : /\ g \in [0 .. n -> Seq(S)] /\ g[0] = <<>> /\ Joined(q) = g[n]
               /\ \A k \in 1 .. n : g[k] = g[k - 1] \o q[k]
  <2>1. PICK run : JoinedRun(S, q, run)
    BY JoinedRuns
  <2> QED
    BY <2>1 DEF JoinedRun
<1>4. PICK h : /\ h[0] = <<>> /\ Joined(pq) = h[m + n]
               /\ \A k \in 1 .. Len(pq) : h[k] = h[k - 1] \o pq[k]
  <2> HIDE DEF pq, m, n
  <2>1. PICK h : JoinedRun(S, pq, h)
    BY <1>1, JoinedRuns
  <2> QED
    BY <1>1, <2>1 DEF JoinedRun
<1> HIDE DEF pq, m, n
<1>5. \A k \in 0 .. m : h[k] = f[k]
  <2>1. h[0] = f[0]
    BY <1>2, <1>4
  <2>2. ASSUME NEW k \in 1 .. m, h[k - 1] = f[k - 1] PROVE h[k] = f[k]
    BY <1>1, <1>2, <1>4, <2>2
  <2>3. Alike(m, h, f)
    BY <2>1, <2>2 DEF Alike
  <2> QED
    BY <1>1, <2>3, RunsAgree
<1> DEFINE left == [k \in 0 .. n |-> h[m + k]]
           right == [k \in 0 .. n |-> f[m] \o g[k]]
<1>a. m \in Nat /\ n \in Nat
  BY <1>1
<1>6. f[m] \in Seq(S) /\ \A k \in 0 .. n : g[k] \in Seq(S)
  <2>1. m \in 0 .. m
    BY <1>a
  <2> QED
    BY <1>2, <1>3, <2>1
<1>7. left[0] = right[0]
  <2>1. left[0] = h[m] /\ right[0] = f[m] \o <<>>
    <3>1. 0 \in 0 .. n /\ m + 0 = m
      BY <1>a
    <3> QED
      BY <1>3, <3>1
  <2>2. f[m] \o <<>> = f[m]
    BY <1>6, ConcatEmptySeq
  <2> QED
    <3>1. m \in 0 .. m
      BY <1>a
    <3> QED
      BY <1>5, <2>1, <2>2, <3>1
<1>8. ASSUME NEW k \in 1 .. n, left[k - 1] = right[k - 1] PROVE left[k] = right[k]
  <2>1. k \in 0 .. n /\ k - 1 \in 0 .. n
    <3> HIDE DEF m, n, left, right
    <3> QED
      BY <1>a
  <2>2. left[k] = h[m + k] /\ left[k - 1] = h[m + (k - 1)]
    BY <2>1
  <2>3. right[k] = f[m] \o g[k] /\ right[k - 1] = f[m] \o g[k - 1]
    BY <2>1
  <2> HIDE DEF left, right
  <2>4. h[m + k] = h[m + (k - 1)] \o q[k]
    BY <1>1, <1>4
  <2>5. g[k] = g[k - 1] \o q[k]
    BY <1>3
  <2>6. (f[m] \o g[k - 1]) \o q[k] = f[m] \o (g[k - 1] \o q[k])
    <3>1. f[m] \in Seq(S) /\ g[k - 1] \in Seq(S) /\ q[k] \in Seq(S)
      <4>1. q[k] \in Seq(S)
        BY <1>1
      <4>2. g[k - 1] \in Seq(S)
        BY <1>6, <2>1
      <4> QED
        BY <1>6, <4>1, <4>2
    <3> QED
      BY <1>0, <3>1 DEF Associates
  <2> QED
    BY <1>8, <2>2, <2>3, <2>4, <2>5, <2>6
<1> HIDE DEF left, right
<1>9. left[n] = right[n]
  <2>1. Alike(n, left, right)
    BY <1>7, <1>8 DEF Alike
  <2>2. n \in 0 .. n
    BY <1>1
  <2> QED
    BY <1>1, <2>1, <2>2, RunsAgree
<1>10. left[n] = h[m + n] /\ right[n] = f[m] \o g[n]
  <2>1. n \in 0 .. n
    BY <1>a
  <2> QED
    BY <2>1 DEF left, right
<1> QED
  BY <1>1, <1>2, <1>3, <1>4, <1>9, <1>10 DEF pq
LEMMA TotalType ==
  ASSUME NEW numbers \in Seq(Nat)
  PROVE  Total(numbers) \in Nat
<1>1. PICK f : TotalRun(numbers, f)
  BY TotalRuns
<1>2. Len(numbers) \in 0 .. Len(numbers)
  OBVIOUS
<1> QED
  BY <1>1, <1>2 DEF TotalRun

LEMMA TotalEmpty == Total(<<>>) = 0
<1>1. <<>> \in Seq(Nat) /\ Len(<<>>) = 0
  BY EmptySeq
<1>2. PICK f : TotalRun(<<>>, f)
  BY <1>1, TotalRuns
<1> QED
  BY <1>1, <1>2 DEF TotalRun

LEMMA TotalOne == ASSUME NEW s \in Nat PROVE Total(<<s>>) = s
<1> DEFINE p == <<s>>
<1>1. p \in Seq(Nat) /\ Len(p) = 1 /\ p[1] = s
  OBVIOUS
<1> HIDE DEF p
<1>2. PICK f : TotalRun(p, f)
  BY <1>1, TotalRuns
<1>3. 1 \in 1 .. 1
  OBVIOUS
<1>4. Total(p) = f[0] + p[1] /\ f[0] = 0
  BY <1>1, <1>2, <1>3 DEF TotalRun
<1> QED
  BY <1>1, <1>4 DEF p

LEMMA TotalJoin ==
  ASSUME NEW p \in Seq(Nat), NEW q \in Seq(Nat)
  PROVE  Total(p \o q) = Total(p) + Total(q)
<1> DEFINE m == Len(p)
           n == Len(q)
           pq == p \o q
<1>1. /\ m \in Nat /\ n \in Nat /\ pq \in Seq(Nat) /\ Len(pq) = m + n
      /\ \A k \in 1 .. m : pq[k] = p[k] /\ k \in 1 .. Len(pq)
      /\ \A k \in 1 .. n : pq[m + k] = q[k] /\ m + k \in 1 .. Len(pq) /\ (m + k) - 1 = m + (k - 1)
      /\ \A k \in 1 .. n : q[k] \in Nat
  OBVIOUS
<1>2. PICK f : /\ f \in [0 .. m -> Nat] /\ f[0] = 0 /\ Total(p) = f[m]
               /\ \A k \in 1 .. m : f[k] = f[k - 1] + p[k]
  <2>1. PICK run : TotalRun(p, run)
    BY TotalRuns
  <2> QED
    BY <2>1 DEF TotalRun
<1>3. PICK g : /\ g \in [0 .. n -> Nat] /\ g[0] = 0 /\ Total(q) = g[n]
               /\ \A k \in 1 .. n : g[k] = g[k - 1] + q[k]
  <2>1. PICK run : TotalRun(q, run)
    BY TotalRuns
  <2> QED
    BY <2>1 DEF TotalRun
<1>4. PICK h : /\ h[0] = 0 /\ Total(pq) = h[m + n]
               /\ \A k \in 1 .. Len(pq) : h[k] = h[k - 1] + pq[k]
  <2> HIDE DEF pq, m, n
  <2>1. PICK h : TotalRun(pq, h)
    BY <1>1, TotalRuns
  <2> QED
    BY <1>1, <2>1 DEF TotalRun
<1> HIDE DEF pq, m, n
<1>5. \A k \in 0 .. m : h[k] = f[k]
  <2>1. h[0] = f[0]
    BY <1>2, <1>4
  <2>2. ASSUME NEW k \in 1 .. m, h[k - 1] = f[k - 1] PROVE h[k] = f[k]
    BY <1>1, <1>2, <1>4, <2>2
  <2>3. Alike(m, h, f)
    BY <2>1, <2>2 DEF Alike
  <2> QED
    BY <1>1, <2>3, RunsAgree
<1> DEFINE left == [k \in 0 .. n |-> h[m + k]]
           right == [k \in 0 .. n |-> f[m] + g[k]]
<1>a. m \in Nat /\ n \in Nat
  BY <1>1
<1>6. f[m] \in Nat /\ \A k \in 0 .. n : g[k] \in Nat
  <2>1. m \in 0 .. m
    BY <1>a
  <2> QED
    BY <1>2, <1>3, <2>1
<1>7. left[0] = right[0]
  <2>1. left[0] = h[m] /\ right[0] = f[m] + 0
    <3>1. 0 \in 0 .. n /\ m + 0 = m
      BY <1>a
    <3> QED
      BY <1>3, <3>1
  <2>2. f[m] + 0 = f[m]
    BY <1>6
  <2> QED
    <3>1. m \in 0 .. m
      BY <1>a
    <3> QED
      BY <1>5, <2>1, <2>2, <3>1
<1>8. ASSUME NEW k \in 1 .. n, left[k - 1] = right[k - 1] PROVE left[k] = right[k]
  <2>1. k \in 0 .. n /\ k - 1 \in 0 .. n
    <3> HIDE DEF m, n, left, right
    <3> QED
      BY <1>a
  <2>2. left[k] = h[m + k] /\ left[k - 1] = h[m + (k - 1)]
    BY <2>1
  <2>3. right[k] = f[m] + g[k] /\ right[k - 1] = f[m] + g[k - 1]
    BY <2>1
  <2> HIDE DEF left, right
  <2>4. h[m + k] = h[m + (k - 1)] + q[k]
    BY <1>1, <1>4
  <2>5. g[k] = g[k - 1] + q[k]
    BY <1>3
  <2>6. (f[m] + g[k - 1]) + q[k] = f[m] + (g[k - 1] + q[k])
    <3>1. f[m] \in Nat /\ g[k - 1] \in Nat /\ q[k] \in Nat
      <4>1. q[k] \in Nat
        BY <1>1
      <4>2. g[k - 1] \in Nat
        BY <1>6, <2>1
      <4> QED
        BY <1>6, <4>1, <4>2
    <3> QED
      BY <3>1
  <2> QED
    BY <1>8, <2>2, <2>3, <2>4, <2>5, <2>6
<1> HIDE DEF left, right
<1>9. left[n] = right[n]
  <2>1. Alike(n, left, right)
    BY <1>7, <1>8 DEF Alike
  <2>2. n \in 0 .. n
    BY <1>1
  <2> QED
    BY <1>1, <2>1, <2>2, RunsAgree
<1>10. left[n] = h[m + n] /\ right[n] = f[m] + g[n]
  <2>1. n \in 0 .. n
    BY <1>a
  <2> QED
    BY <2>1 DEF left, right
<1> QED
  BY <1>1, <1>2, <1>3, <1>4, <1>9, <1>10 DEF pq

LEMMA TotalZero ==
  ASSUME NEW numbers \in Seq(Nat)
  PROVE  Total(numbers) = 0 <=> \A k \in 1 .. Len(numbers) : numbers[k] = 0
<1> DEFINE n == Len(numbers)
<1>1. PICK f : /\ f \in [0 .. n -> Nat] /\ f[0] = 0 /\ Total(numbers) = f[n]
               /\ \A k \in 1 .. n : f[k] = f[k - 1] + numbers[k]
  <2>1. PICK run : TotalRun(numbers, run)
    BY TotalRuns
  <2> QED
    BY <2>1 DEF TotalRun
<1>2. n \in Nat /\ \A k \in 1 .. n : numbers[k] \in Nat
  OBVIOUS
<1> HIDE DEF n
<1> DEFINE Z(k) == f[k] = 0 <=> \A i \in 1 .. k : numbers[i] = 0
           zero == {k \in Nat : k <= n => Z(k)}
<1>3. 0 \in zero
  BY <1>1
<1>4. ASSUME NEW k \in Nat, k \in zero PROVE k + 1 \in zero
  <2> SUFFICES ASSUME k + 1 <= n PROVE Z(k + 1)
    OBVIOUS
  <2>1. Z(k)
    BY <1>2, <1>4
  <2>2. k \in 0 .. n /\ k + 1 \in 1 .. n /\ (k + 1) - 1 = k
    BY <1>2
  <2>3. f[k + 1] = f[k] + numbers[k + 1] /\ f[k] \in Nat /\ numbers[k + 1] \in Nat
    BY <1>1, <1>2, <2>2
  <2>4. 1 .. k + 1 = (1 .. k) \cup {k + 1}
    OBVIOUS
  <2> QED
    BY <2>1, <2>3, <2>4
<1> HIDE DEF zero
<1>5. n \in zero
  BY <1>2, <1>3, <1>4, Induction
<1>6. Z(n)
  BY <1>2, <1>5 DEF zero
<1> QED
  BY <1>1, <1>6 DEF n

-------------------------------------------------------------------------------
(* Sequences of what the elements of a sequence are or weigh.              *)

Mapped(w, s) == [k \in DOMAIN s |-> w[s[k]]]

IsMapped(T, w, s, a) ==
  a \in Seq(T) /\ Len(a) = Len(s) /\ \A k \in 1 .. Len(s) : a[k] = w[s[k]]

LEMMA MappedType ==
  ASSUME NEW S, NEW T, NEW w \in [S -> T], NEW s \in Seq(S)
  PROVE  IsMapped(T, w, s, Mapped(w, s))
<1>1. DOMAIN s = 1 .. Len(s) /\ Len(s) \in Nat /\ \A k \in 1 .. Len(s) : s[k] \in S
  OBVIOUS
<1>2. Mapped(w, s) \in [1 .. Len(s) -> T]
  BY <1>1 DEF Mapped
<1> QED
  BY <1>1, <1>2 DEF Mapped, IsMapped

\* Two sequences, joined, by their elements.
Parts(m, n, a, b, ab) ==
  /\ \A k \in 1 .. m : ab[k] = a[k]
  /\ \A k \in m + 1 .. m + n : k - m \in 1 .. n /\ ab[k] = b[k - m]

LEMMA PartsOf ==
  ASSUME NEW S, NEW a \in Seq(S), NEW b \in Seq(S)
  PROVE  /\ a \o b \in Seq(S) /\ Len(a \o b) = Len(a) + Len(b)
         /\ Len(a) \in Nat /\ Len(b) \in Nat
         /\ Parts(Len(a), Len(b), a, b, a \o b)
  BY ConcatProperties DEF Parts

MapsJoined(w, s, t) == Mapped(w, s \o t) = Mapped(w, s) \o Mapped(w, t)

LEMMA MappedJoin ==
  ASSUME NEW S, NEW T, NEW w \in [S -> T], NEW s \in Seq(S), NEW t \in Seq(S)
  PROVE  MapsJoined(w, s, t)
<1> DEFINE m == Len(s)
           n == Len(t)
           st == s \o t
           a == Mapped(w, s)
           b == Mapped(w, t)
           c == Mapped(w, st)
           ab == a \o b
<1>1. m \in Nat /\ n \in Nat /\ st \in Seq(S) /\ Len(st) = m + n /\ Parts(m, n, s, t, st)
  BY PartsOf
<1> HIDE DEF st
<1>2. IsMapped(T, w, s, a)
  BY MappedType
<1>3. IsMapped(T, w, t, b)
  BY MappedType
<1>4. IsMapped(T, w, st, c)
  BY <1>1, MappedType
<1> HIDE DEF a, b, c, m, n
<1>5. ab \in Seq(T) /\ Len(ab) = m + n /\ Parts(m, n, a, b, ab)
  <2>1. a \in Seq(T) /\ b \in Seq(T) /\ Len(a) = m /\ Len(b) = n
    BY <1>2, <1>3 DEF IsMapped, m, n
  <2> QED
    BY <2>1, PartsOf
<1> HIDE DEF ab
<1>6. ASSUME NEW k \in 1 .. m + n PROVE c[k] = ab[k]
  <2>1. c[k] = w[st[k]]
    BY <1>1, <1>4 DEF IsMapped
  <2>2. CASE k \in 1 .. m
    <3>1. st[k] = s[k] /\ ab[k] = a[k]
      BY <1>1, <1>5, <2>2 DEF Parts
    <3> QED
      BY <1>2, <2>1, <2>2, <3>1 DEF IsMapped, m
  <2>3. CASE k \in m + 1 .. m + n
    <3>1. k - m \in 1 .. n /\ st[k] = t[k - m] /\ ab[k] = b[k - m]
      BY <1>1, <1>5, <2>3 DEF Parts
    <3> QED
      BY <1>3, <2>1, <3>1 DEF IsMapped, n
  <2> QED
    BY <1>1, <2>2, <2>3
<1>7. c = ab
  BY <1>1, <1>4, <1>5, <1>6, SeqEqual DEF IsMapped
<1> QED
  BY <1>7 DEF a, b, c, ab, st, MapsJoined

LEMMA MappedOne ==
  ASSUME NEW S, NEW T, NEW w \in [S -> T], NEW e \in S
  PROVE  Mapped(w, <<e>>) = <<w[e]>>
  BY DEF Mapped

-------------------------------------------------------------------------------
(* What rows weigh.                                                        *)

Chunks == [entries : Seq(Entries), payload_bytes : Nat, unresolved : Nat, incidents : Nat]

bytesOf == [entry \in Entries |-> PayloadBytes(entry)]
unknownsOf == [entry \in Entries |-> One(Unresolved(entry))]
marksOf == [entry \in Entries |-> One(Incident(entry))]
rowsOf == [chunk \in Chunks |-> chunk.entries]

LEMMA Weights ==
  /\ bytesOf \in [Entries -> Nat] /\ unknownsOf \in [Entries -> Nat] /\ marksOf \in [Entries -> Nat]
  /\ rowsOf \in [Chunks -> Seq(Entries)]
<1>1. ASSUME NEW entry \in Entries PROVE PayloadBytes(entry) \in Nat
  <2>1. entry.text \in DOMAIN TextBytes
    BY DocumentsAssumption DEF Entries
  <2>2. TextBytes[entry.text] \in Nat /\ NameBytes \in Nat
    BY <2>1, LogStoreAssumption
  <2> QED
    BY <2>2 DEF PayloadBytes
<1>2. \A condition : One(condition) \in Nat
  BY DEF One
<1> QED
  BY <1>1, <1>2 DEF bytesOf, unknownsOf, marksOf, rowsOf, Chunks

Weighed(s) ==
  /\ OwnedBytes(s) = Total(Mapped(bytesOf, s)) /\ OwnedBytes(s) \in Nat
  /\ Unknowns(s) = Total(Mapped(unknownsOf, s)) /\ Unknowns(s) \in Nat
  /\ Marks(s) = Total(Mapped(marksOf, s)) /\ Marks(s) \in Nat

LEMMA RowsWeigh == ASSUME NEW s \in Seq(Entries) PROVE Weighed(s)
<1>1. \A k \in DOMAIN s : s[k] \in Entries
  OBVIOUS
<1>2. /\ Mapped(bytesOf, s) = [k \in DOMAIN s |-> PayloadBytes(s[k])]
      /\ Mapped(unknownsOf, s) = [k \in DOMAIN s |-> One(Unresolved(s[k]))]
      /\ Mapped(marksOf, s) = [k \in DOMAIN s |-> One(Incident(s[k]))]
  BY <1>1 DEF Mapped, bytesOf, unknownsOf, marksOf
<1>3. ASSUME NEW w \in [Entries -> Nat] PROVE Total(Mapped(w, s)) \in Nat
  <2>1. IsMapped(Nat, w, s, Mapped(w, s))
    BY MappedType
  <2> QED
    BY <2>1, TotalType DEF IsMapped
<1> QED
  BY <1>2, <1>3, Weights DEF Weighed, OwnedBytes, Unknowns, Marks

Adds(s, t, st) ==
  /\ OwnedBytes(st) = OwnedBytes(s) + OwnedBytes(t)
  /\ Unknowns(st) = Unknowns(s) + Unknowns(t)
  /\ Marks(st) = Marks(s) + Marks(t)

LEMMA RowsAdd ==
  ASSUME NEW s \in Seq(Entries), NEW t \in Seq(Entries)
  PROVE  Adds(s, t, s \o t)
<1>1. s \o t \in Seq(Entries)
  BY PartsOf
<1>2. ASSUME NEW w \in [Entries -> Nat]
      PROVE  Total(Mapped(w, s \o t)) = Total(Mapped(w, s)) + Total(Mapped(w, t))
  <2> DEFINE a == Mapped(w, s)
             b == Mapped(w, t)
  <2>1. IsMapped(Nat, w, s, a) /\ IsMapped(Nat, w, t, b)
    BY MappedType
  <2>2. Mapped(w, s \o t) = a \o b
    <3>1. MapsJoined(w, s, t)
      BY MappedJoin
    <3> QED
      BY <3>1 DEF MapsJoined
  <2>3. a \in Seq(Nat) /\ b \in Seq(Nat)
    BY <2>1 DEF IsMapped
  <2> HIDE DEF a, b
  <2>4. Total(a \o b) = Total(a) + Total(b)
    BY <2>3, TotalJoin
  <2> QED
    BY <2>2, <2>4 DEF a, b
<1>3. Weighed(s) /\ Weighed(t) /\ Weighed(s \o t)
  BY <1>1, RowsWeigh
<1> QED
  BY <1>2, <1>3, Weights DEF Adds, Weighed

LEMMA RowWeighs ==
  ASSUME NEW entry \in Entries
  PROVE  /\ OwnedBytes(<<entry>>) = PayloadBytes(entry)
         /\ Unknowns(<<entry>>) = One(Unresolved(entry))
         /\ Marks(<<entry>>) = One(Incident(entry))
<1>1. <<entry>> \in Seq(Entries)
  OBVIOUS
<1>2. Weighed(<<entry>>)
  BY <1>1, RowsWeigh
<1>3. ASSUME NEW w \in [Entries -> Nat] PROVE Total(Mapped(w, <<entry>>)) = w[entry]
  <2>1. Mapped(w, <<entry>>) = <<w[entry]>> /\ w[entry] \in Nat
    BY MappedOne
  <2> QED
    BY <2>1, TotalOne
<1>4. /\ bytesOf[entry] = PayloadBytes(entry) /\ unknownsOf[entry] = One(Unresolved(entry))
      /\ marksOf[entry] = One(Incident(entry))
  BY DEF bytesOf, unknownsOf, marksOf
<1> QED
  BY <1>2, <1>3, <1>4, Weights DEF Weighed

LEMMA NothingWeighs == OwnedBytes(<<>>) = 0 /\ Unknowns(<<>>) = 0 /\ Marks(<<>>) = 0
<1>1. <<>> \in Seq(Entries)
  BY EmptySeq
<1>2. Weighed(<<>>)
  BY <1>1, RowsWeigh
<1>3. \A w : Mapped(w, <<>>) = <<>>
  BY DEF Mapped
<1> QED
  BY <1>2, <1>3, TotalEmpty DEF Weighed

\* Rows with a signature are counted if there is one.
LEMMA MarksShow ==
  ASSUME NEW s \in Seq(Entries)
  PROVE  Marks(s) > 0 <=> \E k \in 1 .. Len(s) : Incident(s[k])
<1> DEFINE a == Mapped(marksOf, s)
<1>1. Weighed(s) /\ IsMapped(Nat, marksOf, s, a)
  BY RowsWeigh, Weights, MappedType
<1> HIDE DEF a
<1>2. Total(a) = 0 <=> \A k \in 1 .. Len(a) : a[k] = 0
  BY <1>1, TotalZero DEF IsMapped
<1>3. \A k \in 1 .. Len(s) : a[k] = One(Incident(s[k]))
  <2> TAKE k \in 1 .. Len(s)
  <2>1. s[k] \in Entries
    OBVIOUS
  <2> QED
    BY <1>1, <2>1 DEF IsMapped, marksOf
<1>4. \A k \in 1 .. Len(s) : a[k] = 0 <=> ~Incident(s[k])
  BY <1>3 DEF One
<1>5. Marks(s) = Total(a) /\ Marks(s) \in Nat /\ Len(a) = Len(s)
  BY <1>1 DEF Weighed, IsMapped, a
<1> QED
  BY <1>2, <1>4, <1>5

-------------------------------------------------------------------------------
(* The rows of a store.                                                    *)

RowsIn(chunks) == Joined(Mapped(rowsOf, chunks))

LEMMA StoreRows ==
  ASSUME NEW store, store.chunks \in Seq(Chunks)
  PROVE  Rows(store) = RowsIn(store.chunks)
<1>1. \A c \in DOMAIN store.chunks : store.chunks[c] \in Chunks
  OBVIOUS
<1>2. Mapped(rowsOf, store.chunks) = [c \in DOMAIN store.chunks |-> store.chunks[c].entries]
  BY <1>1 DEF Mapped, rowsOf
<1> QED
  BY <1>2 DEF Rows, RowsIn

LEMMA RowsInType == ASSUME NEW chunks \in Seq(Chunks) PROVE RowsIn(chunks) \in Seq(Entries)
<1>1. IsMapped(Seq(Entries), rowsOf, chunks, Mapped(rowsOf, chunks))
  BY Weights, MappedType
<1> QED
  BY <1>1, JoinedType DEF RowsIn, IsMapped

LEMMA RowsInNone == RowsIn(<<>>) = <<>>
<1>1. Mapped(rowsOf, <<>>) = <<>>
  BY DEF Mapped
<1> QED
  BY <1>1, JoinedEmpty DEF RowsIn

LEMMA RowsInOne == ASSUME NEW chunk \in Chunks PROVE RowsIn(<<chunk>>) = chunk.entries
<1>1. Mapped(rowsOf, <<chunk>>) = <<rowsOf[chunk]>>
  BY Weights, MappedOne
<1>2. rowsOf[chunk] = chunk.entries /\ chunk.entries \in Seq(Entries)
  BY DEF rowsOf, Chunks
<1> QED
  BY <1>1, <1>2, JoinedOne DEF RowsIn

RowsJoined(a, b) == RowsIn(a \o b) = RowsIn(a) \o RowsIn(b)

LEMMA RowsInJoin ==
  ASSUME NEW a \in Seq(Chunks), NEW b \in Seq(Chunks)
  PROVE  RowsJoined(a, b)
<1> DEFINE p == Mapped(rowsOf, a)
           q == Mapped(rowsOf, b)
<1>1. IsMapped(Seq(Entries), rowsOf, a, p) /\ IsMapped(Seq(Entries), rowsOf, b, q)
  BY Weights, MappedType
<1>2. MapsJoined(rowsOf, a, b)
  BY Weights, MappedJoin
<1>3. p \in Seq(Seq(Entries)) /\ q \in Seq(Seq(Entries))
  BY <1>1 DEF IsMapped
<1>4. Mapped(rowsOf, a \o b) = p \o q
  BY <1>2 DEF MapsJoined
<1> HIDE DEF p, q
<1>5. Joined(p \o q) = Joined(p) \o Joined(q)
  BY <1>3, JoinedJoin
<1> QED
  BY <1>4, <1>5 DEF RowsJoined, RowsIn, p, q

\* A sequence, up to its last element and with another one there.
EndsIn(s, front, x) ==
  /\ Len(front) = Len(s) - 1
  /\ \A k \in 1 .. Len(s) - 1 : front[k] = s[k]
  /\ s = front \o <<s[Len(s)]>>
  /\ [s EXCEPT ![Len(s)] = x] = front \o <<x>>

LEMMA LastReplaced ==
  ASSUME NEW S, NEW s \in Seq(S), s # <<>>, NEW x \in S
  PROVE  \E front \in Seq(S) : EndsIn(s, front, x)
<1> DEFINE n == Len(s)
           front == [k \in 1 .. n - 1 |-> s[k]]
<1>1. n \in Nat /\ n > 0 /\ \A k \in 1 .. n : s[k] \in S
  OBVIOUS
<1>2. front \in Seq(S) /\ Len(front) = n - 1
  BY <1>1
<1>3. ASSUME NEW y \in S
      PROVE  /\ front \o <<y>> \in Seq(S) /\ Len(front \o <<y>>) = n
             /\ \A k \in 1 .. n - 1 : (front \o <<y>>)[k] = s[k]
             /\ (front \o <<y>>)[n] = y
  BY <1>1, <1>2
<1>4. s = front \o <<s[n]>>
  <2>1. s[n] \in S
    BY <1>1
  <2> DEFINE t == front \o <<s[n]>>
  <2>2. t \in Seq(S) /\ Len(t) = n /\ (\A k \in 1 .. n - 1 : t[k] = s[k]) /\ t[n] = s[n]
    BY <1>3, <2>1
  <2> HIDE DEF t
  <2>3. \A k \in 1 .. Len(s) : s[k] = t[k]
    BY <1>1, <2>2
  <2>4. s = t
    BY <2>2, <2>3, SeqEqual
  <2> QED
    BY <2>4 DEF t
<1>5. [s EXCEPT ![n] = x] = front \o <<x>>
  <2> DEFINE t == front \o <<x>>
             u == [s EXCEPT ![n] = x]
  <2>2. t \in Seq(S) /\ Len(t) = n /\ (\A k \in 1 .. n - 1 : t[k] = s[k]) /\ t[n] = x
    BY <1>3
  <2>3. u \in Seq(S) /\ Len(u) = n /\ (\A k \in 1 .. n - 1 : u[k] = s[k]) /\ u[n] = x
    BY <1>1, ExceptSeq
  <2> HIDE DEF t, u
  <2>4. \A k \in 1 .. Len(u) : u[k] = t[k]
    BY <1>1, <2>2, <2>3
  <2>5. u = t
    BY <2>2, <2>3, <2>4, SeqEqual
  <2> QED
    BY <2>5 DEF t, u
<1> QED
  BY <1>1, <1>2, <1>4, <1>5 DEF EndsIn

-------------------------------------------------------------------------------
(* What always holds of a store.                                           *)

Stores ==
  [chunks : Seq(Chunks), offset : Nat, len : Nat, bytes : Nat, unresolved : Nat, incidents : Nat]

ChunkInv(chunk) ==
  /\ chunk.entries # <<>>
  /\ chunk.payload_bytes = OwnedBytes(chunk.entries)
  /\ chunk.unresolved = Unknowns(chunk.entries)
  /\ chunk.incidents = Marks(chunk.entries)

Used(chunks, offset, c) == Len(chunks[c].entries) + (IF c = 1 THEN offset ELSE 0)

\* All chunks but the last are full, with what was drained from the first.
ChunksInv(chunks, offset) ==
  /\ \A c \in 1 .. Len(chunks) : ChunkInv(chunks[c])
  /\ \A c \in 1 .. Len(chunks) - 1 : Used(chunks, offset, c) = CHUNK_SIZE
  /\ chunks # <<>> => Used(chunks, offset, Len(chunks)) <= CHUNK_SIZE
  /\ chunks = <<>> => offset = 0

TotalsInv(store, rows) ==
  /\ store.len = Len(rows)
  /\ store.bytes = Len(store.chunks) * CHUNK_BYTES + OwnedBytes(rows)
  /\ store.unresolved = Unknowns(rows)
  /\ store.incidents = Marks(rows)

StoreInv(store) ==
  /\ store \in Stores
  /\ ChunksInv(store.chunks, store.offset)
  /\ TotalsInv(store, Rows(store))

LEMMA StoreConstants == CHUNK_SIZE \in Nat /\ CHUNK_SIZE > 0 /\ CHUNK_BYTES \in Nat /\ NameBytes \in Nat
  BY LogStoreAssumption

LEMMA StoreRowsType == ASSUME NEW store \in Stores PROVE Rows(store) \in Seq(Entries)
  BY StoreRows, RowsInType DEF Stores

LEMMA NewStoreIsExact == StoreInv(NewStore) /\ Rows(NewStore) = <<>>
<1>1. NewStore.chunks = <<>> /\ <<>> \in Seq(Chunks)
  BY EmptySeq DEF NewStore
<1>2. Rows(NewStore) = <<>>
  BY <1>1, StoreRows, RowsInNone
<1>3. NewStore \in Stores
  BY <1>1 DEF NewStore, Stores
<1>4. TotalsInv(NewStore, <<>>)
  BY NothingWeighs, StoreConstants DEF TotalsInv, NewStore
<1>5. ChunksInv(<<>>, 0)
  BY DEF ChunksInv
<1> QED
  BY <1>1, <1>2, <1>3, <1>4, <1>5 DEF StoreInv, NewStore

\* A row more.
LEMMA AddedChunk ==
  ASSUME NEW chunk \in Chunks, NEW entry \in Entries
  PROVE  /\ Added(chunk, entry) \in Chunks
         /\ Added(chunk, entry).entries = Append(chunk.entries, entry)
         /\ chunk = NewChunk \/ ChunkInv(chunk) => ChunkInv(Added(chunk, entry))
<1> DEFINE s == chunk.entries
           st == Append(s, entry)
<1>1. s \in Seq(Entries) /\ st \in Seq(Entries) /\ st # <<>> /\ st = s \o <<entry>> /\ <<entry>> \in Seq(Entries)
  <2>1. s \in Seq(Entries)
    BY DEF Chunks
  <2> QED
    BY <2>1, AppendProperties, AppendIsConcat
<1>2. Adds(s, <<entry>>, st)
  BY <1>1, RowsAdd
<1>3. /\ OwnedBytes(st) = OwnedBytes(s) + PayloadBytes(entry)
      /\ Unknowns(st) = Unknowns(s) + One(Unresolved(entry))
      /\ Marks(st) = Marks(s) + One(Incident(entry))
  BY <1>2, RowWeighs DEF Adds
<1>4. PayloadBytes(entry) \in Nat /\ One(Unresolved(entry)) \in Nat /\ One(Incident(entry)) \in Nat
  <2>1. /\ bytesOf[entry] = PayloadBytes(entry) /\ unknownsOf[entry] = One(Unresolved(entry))
        /\ marksOf[entry] = One(Incident(entry))
    BY DEF bytesOf, unknownsOf, marksOf
  <2> QED
    BY <2>1, Weights
<1>5. Added(chunk, entry) \in Chunks /\ Added(chunk, entry).entries = st
  BY <1>1, <1>4 DEF Added, Chunks
<1>6. ASSUME chunk = NewChunk \/ ChunkInv(chunk) PROVE ChunkInv(Added(chunk, entry))
  <2>1. /\ chunk.payload_bytes = OwnedBytes(s) /\ chunk.unresolved = Unknowns(s)
        /\ chunk.incidents = Marks(s)
    BY <1>6, NothingWeighs DEF ChunkInv, NewChunk
  <2> HIDE DEF s, st
  <2> QED
    BY <1>1, <1>3, <2>1 DEF ChunkInv, Added, s, st
<1> QED
  BY <1>5, <1>6

\* The chunks a row is put into: a new one, if the last is full.
Grown(store) == IF NeedsChunk(store) THEN Append(store.chunks, NewChunk) ELSE store.chunks

GrownInv(store, g) ==
  /\ g \in Seq(Chunks) /\ g # <<>> /\ RowsIn(g) = Rows(store)
  /\ \A c \in 1 .. Len(g) : (c = Len(g) /\ g[c] = NewChunk) \/ ChunkInv(g[c])
  /\ \A c \in 1 .. Len(g) - 1 : Used(g, store.offset, c) = CHUNK_SIZE
  /\ Used(g, store.offset, Len(g)) < CHUNK_SIZE
  /\ Len(g) = Len(store.chunks) + (IF NeedsChunk(store) THEN 1 ELSE 0)

LEMMA GrownChunks ==
  ASSUME NEW store, StoreInv(store)
  PROVE  GrownInv(store, Grown(store))
<1> DEFINE s == store.chunks
           o == store.offset
<1>1. s \in Seq(Chunks) /\ o \in Nat /\ Rows(store) = RowsIn(s)
  BY StoreRows DEF StoreInv, Stores
<1>2. NewChunk \in Chunks
  BY EmptySeq DEF NewChunk, Chunks
<1>3. CASE NeedsChunk(store)
  <2> DEFINE g == Append(s, NewChunk)
  <2>1. /\ g \in Seq(Chunks) /\ g # <<>> /\ Len(g) = Len(s) + 1 /\ Len(s) \in Nat
        /\ g = s \o <<NewChunk>>
        /\ g[Len(g)] = NewChunk /\ \A c \in 1 .. Len(s) : g[c] = s[c]
    BY <1>1, <1>2, AppendProperties, AppendIsConcat
  <2>2. RowsIn(g) = RowsIn(s)
    <3>1. <<NewChunk>> \in Seq(Chunks)
      BY <1>2
    <3>2. RowsJoined(s, <<NewChunk>>)
      BY <1>1, <3>1, RowsInJoin
    <3>3. RowsIn(<<NewChunk>>) = <<>>
      BY <1>2, RowsInOne DEF NewChunk
    <3>4. RowsIn(s) \in Seq(Entries)
      BY <1>1, RowsInType
    <3>5. RowsIn(s) \o <<>> = RowsIn(s)
      BY <3>4, ConcatEmptySeq
    <3> QED
      BY <2>1, <3>2, <3>3, <3>5 DEF RowsJoined
  <2>3. ASSUME NEW c \in 1 .. Len(s) PROVE Used(g, o, c) = CHUNK_SIZE /\ ChunkInv(g[c])
    <3>1. Used(g, o, c) = Used(s, o, c)
      BY <2>1 DEF Used
    <3>2. CASE c = Len(s)
      <4>1. Last(s) = s[Len(s)] /\ s # <<>>
        BY <2>1, <3>2 DEF Last
      <4>2. Used(s, o, c) = CHUNK_SIZE
        BY <1>3, <3>2, <4>1 DEF NeedsChunk, Used
      <4> QED
        BY <2>1, <3>1, <4>2 DEF StoreInv, ChunksInv
    <3>3. CASE c # Len(s)
      <4>1. c \in 1 .. Len(s) - 1
        BY <2>1, <3>3
      <4> QED
        BY <2>1, <3>1, <4>1 DEF StoreInv, ChunksInv
    <3> QED
      BY <3>2, <3>3
  <2>4. Used(g, o, Len(g)) < CHUNK_SIZE
    <3>1. Len(g[Len(g)].entries) = 0
      BY <2>1 DEF NewChunk
    <3>2. Len(g) = 1 => o = 0
      BY <1>1, <2>1 DEF StoreInv, ChunksInv
    <3> QED
      BY <1>1, <3>1, <3>2, StoreConstants DEF Used
  <2>5. Grown(store) = g
    BY <1>3 DEF Grown
  <2>6. \A c \in 1 .. Len(g) : c \in 1 .. Len(s) \/ c = Len(g)
    BY <2>1
  <2>7. Len(g) - 1 = Len(s)
    BY <2>1
  <2> HIDE DEF g
  <2>8. \A c \in 1 .. Len(g) : (c = Len(g) /\ g[c] = NewChunk) \/ ChunkInv(g[c])
    BY <2>1, <2>3, <2>6
  <2>9. \A c \in 1 .. Len(g) - 1 : Used(g, o, c) = CHUNK_SIZE
    BY <2>3, <2>7
  <2> QED
    BY <1>1, <1>3, <2>1, <2>2, <2>4, <2>5, <2>8, <2>9 DEF GrownInv
<1>4. CASE ~NeedsChunk(store)
  <2>1. s # <<>> /\ Last(s) = s[Len(s)] /\ Len(s) \in Nat /\ Len(s) > 0
    BY <1>1, <1>4 DEF NeedsChunk, Last
  <2>2. Used(s, o, Len(s)) # CHUNK_SIZE /\ Used(s, o, Len(s)) <= CHUNK_SIZE
    BY <1>4, <2>1 DEF NeedsChunk, Used, StoreInv, ChunksInv
  <2>3. Used(s, o, Len(s)) \in Nat
    <3>1. s[Len(s)] \in Chunks
      BY <1>1, <2>1
    <3>2. s[Len(s)].entries \in Seq(Entries)
      BY <3>1 DEF Chunks
    <3>3. Len(s[Len(s)].entries) \in Nat
      BY <3>2, LenProperties
    <3> QED
      BY <1>1, <3>3 DEF Used
  <2>4. Grown(store) = s
    BY <1>4 DEF Grown
  <2> QED
    BY <1>1, <1>4, <2>1, <2>2, <2>3, <2>4, StoreConstants DEF StoreInv, ChunksInv, GrownInv
<1> QED
  BY <1>3, <1>4

LEMMA PushIsExact ==
  ASSUME NEW store, StoreInv(store), NEW entry \in Entries
  PROVE  /\ StoreInv(Push(store, entry))
         /\ Rows(Push(store, entry)) = Append(Rows(store), entry)
<1> DEFINE g == Grown(store)
           n == Len(g)
           back == g[n]
           x == Added(back, entry)
           more == [g EXCEPT ![n] = x]
           new == Push(store, entry)
           r == Rows(store)
<1>1. GrownInv(store, g)
  BY GrownChunks
<1>2. g \in Seq(Chunks) /\ g # <<>> /\ n \in Nat /\ n > 0 /\ back \in Chunks
  <2> HIDE DEF g
  <2>1. g \in Seq(Chunks) /\ g # <<>>
    BY <1>1 DEF GrownInv
  <2> QED
    BY <2>1
<1>3. /\ x \in Chunks /\ x.entries = Append(back.entries, entry) /\ ChunkInv(x)
      /\ back.entries \in Seq(Entries)
  <2>1. back = NewChunk \/ ChunkInv(back)
    <3>1. n \in 1 .. n
      BY <1>2
    <3> HIDE DEF g
    <3> QED
      BY <1>1, <3>1 DEF GrownInv
  <2> QED
    BY <1>2, <2>1, AddedChunk DEF Chunks
<1>4. new.chunks = more
  BY DEF Push, Grown
<1>5. /\ new.offset = store.offset /\ new.len = store.len + 1
      /\ new.bytes = store.bytes + PayloadBytes(entry) + (IF NeedsChunk(store) THEN CHUNK_BYTES ELSE 0)
      /\ new.unresolved = store.unresolved + One(Unresolved(entry))
      /\ new.incidents = store.incidents + One(Incident(entry))
  BY DEF Push
<1>6. new = [chunks |-> new.chunks, offset |-> new.offset, len |-> new.len, bytes |-> new.bytes,
             unresolved |-> new.unresolved, incidents |-> new.incidents]
  BY DEF Push
<1> HIDE DEF g, n, back, x, new
<1>7. PICK front \in Seq(Chunks) : EndsIn(g, front, x)
  BY <1>2, <1>3, LastReplaced
<1>8. /\ more \in Seq(Chunks) /\ Len(more) = n
      /\ \A c \in 1 .. n : more[c] = IF c = n THEN x ELSE g[c]
  BY <1>2, <1>3, ExceptSeq DEF n
<1>9. r \in Seq(Entries)
  BY StoreRowsType DEF StoreInv
<1>10. Rows(new) = Append(r, entry)
  <2>1. Rows(new) = RowsIn(more)
    BY <1>4, <1>8, StoreRows
  <2>2. g = front \o <<back>> /\ more = front \o <<x>>
    BY <1>7 DEF EndsIn, back, n
  <2>3. <<back>> \in Seq(Chunks) /\ <<x>> \in Seq(Chunks)
    BY <1>2, <1>3
  <2>4. RowsJoined(front, <<back>>) /\ RowsJoined(front, <<x>>)
    BY <2>3, RowsInJoin
  <2>5. RowsIn(<<back>>) = back.entries /\ RowsIn(<<x>>) = x.entries
    BY <1>2, <1>3, RowsInOne
  <2> DEFINE f == RowsIn(front)
             b == back.entries
  <2>6. RowsIn(g) = f \o b /\ RowsIn(more) = f \o Append(b, entry)
    BY <1>3, <2>2, <2>4, <2>5 DEF RowsJoined
  <2>7. f \in Seq(Entries) /\ b \in Seq(Entries)
    BY <1>3, RowsInType
  <2>8. RowsIn(g) = r
    BY <1>1 DEF GrownInv
  <2> HIDE DEF f, b, r
  <2>9. f \o Append(b, entry) = Append(f \o b, entry)
    BY <2>7, AppendToJoined
  <2> QED
    BY <2>1, <2>6, <2>8, <2>9
<1>11. TotalsInv(new, Append(r, entry))
  <2> DEFINE st == Append(r, entry)
  <2>1. st = r \o <<entry>> /\ <<entry>> \in Seq(Entries) /\ Len(st) = Len(r) + 1
    BY <1>9, AppendIsConcat
  <2>2. Adds(r, <<entry>>, st)
    BY <1>9, <2>1, RowsAdd
  <2>3. /\ OwnedBytes(st) = OwnedBytes(r) + PayloadBytes(entry)
        /\ Unknowns(st) = Unknowns(r) + One(Unresolved(entry))
        /\ Marks(st) = Marks(r) + One(Incident(entry))
    BY <2>2, RowWeighs DEF Adds
  <2>4. TotalsInv(store, r)
    BY DEF StoreInv
  <2>5. Len(new.chunks) = Len(store.chunks) + (IF NeedsChunk(store) THEN 1 ELSE 0)
    BY <1>1, <1>4, <1>8 DEF GrownInv, n
  <2>6. /\ Weighed(r) /\ store.chunks \in Seq(Chunks) /\ Len(store.chunks) \in Nat
        /\ bytesOf[entry] = PayloadBytes(entry) /\ PayloadBytes(entry) \in Nat
    BY <1>9, RowsWeigh, Weights DEF bytesOf, StoreInv, Stores
  <2> HIDE DEF st, r
  <2>7a. /\ store.bytes = Len(store.chunks) * CHUNK_BYTES + OwnedBytes(r)
         /\ OwnedBytes(st) = OwnedBytes(r) + PayloadBytes(entry)
    BY <2>3, <2>4 DEF TotalsInv
  <2>7b. /\ Len(store.chunks) * CHUNK_BYTES \in Nat /\ OwnedBytes(r) \in Nat
         /\ CHUNK_BYTES \in Nat /\ PayloadBytes(entry) \in Nat /\ Len(store.chunks) \in Nat
    BY <2>6, StoreConstants DEF Weighed
  <2>7. new.bytes = Len(new.chunks) * CHUNK_BYTES + OwnedBytes(st)
    <3>1. CASE NeedsChunk(store)
      <4>1. (Len(store.chunks) + 1) * CHUNK_BYTES = Len(store.chunks) * CHUNK_BYTES + CHUNK_BYTES
        BY <2>6, StoreConstants
      <4>2. /\ new.bytes = store.bytes + PayloadBytes(entry) + CHUNK_BYTES
            /\ Len(new.chunks) = Len(store.chunks) + 1
        BY <1>5, <2>5, <3>1
      <4> QED
        BY <2>7a, <2>7b, <4>1, <4>2
    <3>2. CASE ~NeedsChunk(store)
      <4>1. new.bytes = store.bytes + PayloadBytes(entry) + 0 /\ Len(new.chunks) = Len(store.chunks) + 0
        BY <1>5, <2>5, <3>2
      <4> QED
        BY <2>7a, <2>7b, <4>1
    <3> QED
      BY <3>1, <3>2
  <2> QED
    BY <1>5, <2>1, <2>3, <2>4, <2>7 DEF TotalsInv, st
<1>12. ChunksInv(more, store.offset)
  <2>1. ASSUME NEW c \in 1 .. n PROVE ChunkInv(more[c])
    BY <1>1, <1>3, <1>8, <2>1 DEF GrownInv, n
  <2>2. ASSUME NEW c \in 1 .. n - 1 PROVE Used(more, store.offset, c) = CHUNK_SIZE
    <3>1. c \in 1 .. n /\ c # n
      BY <1>2
    <3>2. Used(more, store.offset, c) = Used(g, store.offset, c)
      BY <1>8, <3>1 DEF Used
    <3> QED
      BY <1>1, <3>2 DEF GrownInv, n
  <2>3. Used(more, store.offset, n) <= CHUNK_SIZE
    <3>1. more[n] = x /\ Len(x.entries) = Len(back.entries) + 1 /\ Len(back.entries) \in Nat
      BY <1>2, <1>3, <1>8
    <3>2. Used(g, store.offset, n) < CHUNK_SIZE
      BY <1>1 DEF GrownInv, n
    <3>3. store.offset \in Nat
      BY DEF StoreInv, Stores
    <3> QED
      BY <3>1, <3>2, <3>3, StoreConstants DEF Used, back
  <2> HIDE DEF more
  <2> QED
    BY <1>2, <1>8, <2>1, <2>2, <2>3, EmptySeq DEF ChunksInv
<1>13. new \in Stores
  <2>1. /\ store.offset \in Nat /\ store.len \in Nat /\ store.bytes \in Nat /\ store.unresolved \in Nat
        /\ store.incidents \in Nat
    BY DEF StoreInv, Stores
  <2>2. PayloadBytes(entry) \in Nat /\ One(Unresolved(entry)) \in Nat /\ One(Incident(entry)) \in Nat
    <3>1. /\ bytesOf[entry] = PayloadBytes(entry) /\ unknownsOf[entry] = One(Unresolved(entry))
          /\ marksOf[entry] = One(Incident(entry))
      BY DEF bytesOf, unknownsOf, marksOf
    <3> QED
      BY <3>1, Weights
  <2> HIDE DEF more
  <2>3. new.bytes \in Nat
    <3> DEFINE added == IF NeedsChunk(store) THEN CHUNK_BYTES ELSE 0
    <3>1. added \in Nat
      BY StoreConstants
    <3>2. new.bytes = store.bytes + PayloadBytes(entry) + added
      BY <1>5
    <3> HIDE DEF added
    <3> QED
      BY <2>1, <2>2, <3>1, <3>2
  <2> QED
    <3> HIDE DEF more
    <3>1. /\ new.chunks \in Seq(Chunks) /\ new.offset \in Nat /\ new.len \in Nat /\ new.bytes \in Nat
          /\ new.unresolved \in Nat /\ new.incidents \in Nat
      <4>1. new.chunks \in Seq(Chunks)
        BY <1>4, <1>8
      <4>2. new.offset \in Nat /\ new.len \in Nat
        <5>1. new.offset = store.offset /\ new.len = store.len + 1
          BY <1>5
        <5> QED
          BY <2>1, <5>1
      <4>3. new.unresolved \in Nat /\ new.incidents \in Nat
        <5>1. /\ new.unresolved = store.unresolved + One(Unresolved(entry))
              /\ new.incidents = store.incidents + One(Incident(entry))
          BY <1>5
        <5>2. \A x1 \in Nat, x2 \in Nat : x1 + x2 \in Nat
          OBVIOUS
        <5> QED
          BY <2>1, <2>2, <5>1, <5>2
      <4> QED
        BY <2>3, <4>1, <4>2, <4>3
    <3> QED
      BY <1>6, <3>1 DEF Stores
<1> QED
  BY <1>4, <1>5, <1>10, <1>11, <1>12, <1>13 DEF StoreInv, new

-------------------------------------------------------------------------------
(* Trimming.                                                               *)

LEMMA Least ==
  ASSUME NEW A, A \subseteq Nat, A # {}
  PROVE  \E n \in A : \A m \in A : n <= m
<1>1. PICK n \in A : \A m \in A : <<m, n>> \notin OpToRel(<, Nat)
  BY NatLessThanWellFounded, WFMin
<1>2. \A m \in A : m \in Nat /\ n \in Nat
  OBVIOUS
<1>3. \A m \in A : ~(m < n)
  BY <1>1, <1>2 DEF OpToRel
<1> QED
  BY <1>2, <1>3

\* What is left of rows after some from the front are gone.
Kept(rows, left) == \E gone \in Seq(Entries) : rows = gone \o left

LEMMA KeptAll == ASSUME NEW rows \in Seq(Entries) PROVE Kept(rows, rows)
<1>1. <<>> \in Seq(Entries) /\ rows = <<>> \o rows
  BY EmptySeq, ConcatEmptySeq
<1> QED
  BY <1>1 DEF Kept

LEMMA KeptOfKept ==
  ASSUME NEW a \in Seq(Entries), NEW b \in Seq(Entries), NEW c \in Seq(Entries),
         Kept(a, b), Kept(b, c)
  PROVE  Kept(a, c)
<1>1. PICK x \in Seq(Entries) : a = x \o b
  BY DEF Kept
<1>2. PICK y \in Seq(Entries) : b = y \o c
  BY DEF Kept
<1>3. x \o (y \o c) = (x \o y) \o c
  <2>1. Associates(Entries)
    BY JoinAssociates
  <2> QED
    BY <2>1 DEF Associates
<1>4. x \o y \in Seq(Entries)
  BY ConcatProperties
<1> QED
  BY <1>1, <1>2, <1>3, <1>4 DEF Kept

Splits(s, first, rest) ==
  /\ s = <<first>> \o rest /\ Len(rest) = Len(s) - 1 /\ first = s[1]
  /\ \A k \in 1 .. Len(s) - 1 : rest[k] = s[k + 1]

LEMMA HeadAndTail ==
  ASSUME NEW S, NEW s \in Seq(S), s # <<>>
  PROVE  Head(s) \in S /\ Tail(s) \in Seq(S) /\ Splits(s, Head(s), Tail(s))
<1> DEFINE t == <<Head(s)>> \o Tail(s)
<1>1. /\ Head(s) \in S /\ Tail(s) \in Seq(S) /\ Len(Tail(s)) = Len(s) - 1 /\ Head(s) = s[1]
      /\ \A k \in 1 .. Len(s) - 1 : Tail(s)[k] = s[k + 1]
      /\ Len(s) \in Nat /\ Len(s) > 0
  OBVIOUS
<1>2. t \in Seq(S) /\ Len(t) = Len(s) /\ t[1] = Head(s) /\ \A k \in 2 .. Len(s) : t[k] = Tail(s)[k - 1]
  BY <1>1
<1>3. \A k \in 1 .. Len(s) : t[k] = s[k]
  <2> HIDE DEF t
  <2> TAKE k \in 1 .. Len(s)
  <2>1. CASE k = 1
    BY <1>1, <1>2, <2>1
  <2>2. CASE k \in 2 .. Len(s)
    <3>1. k - 1 \in 1 .. Len(s) - 1 /\ (k - 1) + 1 = k
      BY <1>1, <2>2
    <3> QED
      BY <1>1, <1>2, <2>2, <3>1
  <2> QED
    BY <1>1, <2>1, <2>2
<1>4. s = t
  <2> HIDE DEF t
  <2> QED
    BY <1>2, <1>3, SeqEqual
<1> QED
  BY <1>1, <1>4 DEF Splits

\* A store by its first chunk.
FirstChunk(store, front, rest) ==
  /\ front \in Chunks /\ rest \in Seq(Chunks) /\ ChunkInv(front)
  /\ Splits(store.chunks, front, rest)
  /\ RowsIn(rest) \in Seq(Entries)
  /\ Rows(store) = front.entries \o RowsIn(rest)
  /\ Adds(front.entries, RowsIn(rest), Rows(store))
  /\ Len(Rows(store)) = Len(front.entries) + Len(RowsIn(rest))

LEMMA FirstChunkOf ==
  ASSUME NEW store, StoreInv(store), store.chunks # <<>>
  PROVE  FirstChunk(store, Head(store.chunks), Tail(store.chunks))
<1> DEFINE s == store.chunks
           front == Head(s)
           rest == Tail(s)
<1>1. s \in Seq(Chunks) /\ s # <<>> /\ Rows(store) = RowsIn(s) /\ Len(s) \in Nat /\ Len(s) > 0
  BY StoreRows, EmptySeq DEF StoreInv, Stores
<1>2. front \in Chunks /\ rest \in Seq(Chunks) /\ Splits(s, front, rest)
  <2> HIDE DEF s
  <2> QED
    BY <1>1, HeadAndTail
<1> HIDE DEF front, rest
<1>3. ChunkInv(front)
  BY <1>1, <1>2 DEF Splits, StoreInv, ChunksInv
<1>4. <<front>> \in Seq(Chunks) /\ RowsIn(<<front>>) = front.entries /\ front.entries \in Seq(Entries)
  BY <1>2, RowsInOne DEF Chunks
<1>5. RowsIn(rest) \in Seq(Entries)
  BY <1>2, RowsInType
<1>6. Rows(store) = front.entries \o RowsIn(rest)
  <2>1. RowsJoined(<<front>>, rest)
    BY <1>2, <1>4, RowsInJoin
  <2> QED
    BY <1>1, <1>2, <1>4, <2>1 DEF RowsJoined, Splits
<1>7. /\ Adds(front.entries, RowsIn(rest), Rows(store))
      /\ Len(Rows(store)) = Len(front.entries) + Len(RowsIn(rest))
  BY <1>4, <1>5, <1>6, RowsAdd, ConcatProperties
<1> QED
  BY <1>2, <1>3, <1>5, <1>6, <1>7 DEF FirstChunk, front, rest

LEMMA DropIsExact ==
  ASSUME NEW store, StoreInv(store), store.chunks # <<>>
  PROVE  LET new == DropFrontChunk(store)
         IN /\ StoreInv(new) /\ Kept(Rows(store), Rows(new))
            /\ Len(new.chunks) = Len(store.chunks) - 1
            /\ new.bytes = store.bytes - (CHUNK_BYTES + Head(store.chunks).payload_bytes)
<1> DEFINE s == store.chunks
           front == Head(s)
           rest == Tail(s)
           new == DropFrontChunk(store)
           r == Rows(store)
           q == RowsIn(rest)
<1>1. FirstChunk(store, front, rest)
  BY FirstChunkOf
<1>2. /\ new.chunks = rest /\ new.offset = 0 /\ new.len = store.len - Len(front.entries)
      /\ new.bytes = store.bytes - (CHUNK_BYTES + front.payload_bytes)
      /\ new.unresolved = store.unresolved - front.unresolved
      /\ new.incidents = store.incidents - front.incidents
      /\ new = [chunks |-> new.chunks, offset |-> new.offset, len |-> new.len, bytes |-> new.bytes,
                unresolved |-> new.unresolved, incidents |-> new.incidents]
  BY DEF DropFrontChunk
<1> HIDE DEF front, rest, new
<1>3. Rows(new) = q
  BY <1>1, <1>2, StoreRows DEF FirstChunk
<1>4. q \in Seq(Entries) /\ front.entries \in Seq(Entries) /\ Len(front.entries) \in Nat /\ Weighed(q)
  BY <1>1, RowsWeigh, LenProperties DEF FirstChunk, Chunks
<1>5. Len(rest) = Len(s) - 1 /\ Len(s) \in Nat /\ Len(s) > 0
  <2>1. s \in Seq(Chunks) /\ s # <<>>
    BY DEF StoreInv, Stores
  <2> QED
    BY <1>1, <2>1, EmptySeq DEF FirstChunk, Splits
<1>6. TotalsInv(store, r)
  BY DEF StoreInv
<1> HIDE DEF r, q
<1>7. TotalsInv(new, q)
  <2>1. /\ Adds(front.entries, q, r) /\ ChunkInv(front) /\ Len(r) = Len(front.entries) + Len(q)
        /\ Len(q) \in Nat
    BY <1>1, <1>4, LenProperties DEF FirstChunk, q, r
  <2>2. (Len(s) - 1) * CHUNK_BYTES = Len(s) * CHUNK_BYTES - CHUNK_BYTES /\ Len(s) * CHUNK_BYTES \in Nat
    BY <1>5, StoreConstants
  <2>3. /\ front.payload_bytes \in Nat /\ front.unresolved \in Nat /\ front.incidents \in Nat
        /\ OwnedBytes(q) \in Nat /\ Unknowns(q) \in Nat /\ Marks(q) \in Nat
    BY <1>1, <1>4 DEF FirstChunk, Chunks, Weighed
  <2>4. new.len = Len(q) /\ new.unresolved = Unknowns(q) /\ new.incidents = Marks(q)
    BY <1>2, <1>4, <1>6, <2>1, <2>3 DEF TotalsInv, Adds, ChunkInv
  <2>5. new.bytes = Len(new.chunks) * CHUNK_BYTES + OwnedBytes(q)
    <3> DEFINE all == Len(s) * CHUNK_BYTES
    <3>1. Len(new.chunks) * CHUNK_BYTES = all - CHUNK_BYTES /\ all \in Nat
      BY <1>2, <1>5, <2>2
    <3>2. store.bytes = all + OwnedBytes(r)
      BY <1>6 DEF TotalsInv
    <3>3. OwnedBytes(r) = front.payload_bytes + OwnedBytes(q)
      BY <2>1 DEF Adds, ChunkInv
    <3> HIDE DEF all
    <3>4. new.bytes = (all + (front.payload_bytes + OwnedBytes(q))) - (CHUNK_BYTES + front.payload_bytes)
      BY <1>2, <3>2, <3>3
    <3> QED
      BY <2>3, <3>1, <3>4, StoreConstants
  <2> QED
    BY <2>4, <2>5 DEF TotalsInv
<1>8. ChunksInv(rest, 0)
  <2>1. ASSUME NEW c \in 1 .. Len(rest)
        PROVE  /\ ChunkInv(rest[c]) /\ Used(rest, 0, c) = Used(s, store.offset, c + 1)
               /\ c + 1 \in 1 .. Len(s)
    <3>1. rest[c] = s[c + 1] /\ c + 1 \in 1 .. Len(s) /\ c + 1 # 1
      BY <1>1, <1>5 DEF FirstChunk, Splits
    <3>2. s[c + 1] \in Chunks
      BY <3>1 DEF StoreInv, Stores
    <3>3. Len(s[c + 1].entries) \in Nat
      BY <3>2, LenProperties DEF Chunks
    <3> QED
      BY <3>1, <3>3 DEF StoreInv, ChunksInv, Used
  <2>2. \A c \in 1 .. Len(rest) - 1 : c \in 1 .. Len(rest) /\ c + 1 \in 1 .. Len(s) - 1
    BY <1>5
  <2>3. \A c \in 1 .. Len(rest) - 1 : Used(rest, 0, c) = CHUNK_SIZE
    BY <2>1, <2>2 DEF StoreInv, ChunksInv
  <2>4. rest # <<>> => Len(rest) \in 1 .. Len(rest) /\ Len(rest) + 1 = Len(s)
    <3>1. rest \in Seq(Chunks)
      BY <1>1 DEF FirstChunk
    <3> QED
      BY <1>5, <3>1, EmptySeq
  <2> QED
    BY <2>1, <2>3, <2>4 DEF StoreInv, ChunksInv
<1>9. new \in Stores
  <2>1. new.len \in Nat /\ new.bytes \in Nat /\ new.unresolved \in Nat /\ new.incidents \in Nat
    <3>1. Len(q) \in Nat /\ Len(new.chunks) \in Nat
      BY <1>2, <1>4, <1>5, LenProperties
    <3>2. Len(new.chunks) * CHUNK_BYTES \in Nat
      BY <3>1, StoreConstants
    <3> QED
      BY <1>4, <1>7, <3>1, <3>2 DEF TotalsInv, Weighed
  <2>2. new.chunks \in Seq(Chunks) /\ new.offset \in Nat
    BY <1>1, <1>2 DEF FirstChunk
  <2> QED
    BY <1>2, <2>1, <2>2 DEF Stores
<1>10. Kept(r, q)
  BY <1>1, <1>4 DEF FirstChunk, Kept, q, r
<1> QED
  BY <1>2, <1>3, <1>5, <1>7, <1>8, <1>9, <1>10 DEF StoreInv, new, r, front

SplitsAt(s, count, gone, left) ==
  /\ s = gone \o left /\ Len(gone) = count /\ Len(left) = Len(s) - count

LEMMA SubSeqsJoin ==
  ASSUME NEW S, NEW s \in Seq(S), NEW count \in 0 .. Len(s)
  PROVE  /\ SubSeq(s, 1, count) \in Seq(S) /\ SubSeq(s, count + 1, Len(s)) \in Seq(S)
         /\ SplitsAt(s, count, SubSeq(s, 1, count), SubSeq(s, count + 1, Len(s)))
<1> DEFINE n == Len(s)
           gone == SubSeq(s, 1, count)
           left == SubSeq(s, count + 1, n)
           t == gone \o left
<1>1. n \in Nat /\ count \in Nat /\ count <= n /\ \A k \in 1 .. n : s[k] \in S
  OBVIOUS
<1>2. gone \in Seq(S) /\ Len(gone) = count /\ \A k \in 1 .. count : gone[k] = s[k]
  BY <1>1
<1>3. left \in Seq(S) /\ Len(left) = n - count /\ \A k \in 1 .. n - count : left[k] = s[count + k]
  BY <1>1
<1> HIDE DEF gone, left, n
<1>4. t \in Seq(S) /\ Len(t) = n /\ Parts(count, n - count, gone, left, t)
  <2>1. t \in Seq(S) /\ Len(t) = Len(gone) + Len(left) /\ Parts(Len(gone), Len(left), gone, left, t)
    BY <1>2, <1>3, PartsOf
  <2> QED
    BY <1>1, <1>2, <1>3, <2>1
<1> HIDE DEF t
<1>5. ASSUME NEW k \in 1 .. n PROVE s[k] = t[k]
  <2>1. CASE k \in 1 .. count
    BY <1>2, <1>4, <2>1 DEF Parts
  <2>2. CASE k \in count + 1 .. count + (n - count)
    <3>1. k - count \in 1 .. n - count /\ t[k] = left[k - count] /\ count + (k - count) = k
      BY <1>1, <1>4, <2>2 DEF Parts
    <3> QED
      BY <1>3, <3>1
  <2> QED
    BY <1>1, <2>1, <2>2
<1>6. s = t
  BY <1>4, <1>5, SeqEqual DEF n
<1> QED
  BY <1>2, <1>3, <1>6 DEF SplitsAt, gone, left, n, t

\* The first chunk with some of its rows gone.
LEMMA DrainIsExact ==
  ASSUME NEW store, StoreInv(store), store.chunks # <<>>,
         NEW count \in 1 .. Len(Head(store.chunks).entries) - 1
  PROVE  LET new == DrainFront(store, count)
         IN /\ StoreInv(new) /\ Kept(Rows(store), Rows(new))
            /\ new.bytes = store.bytes - OwnedBytes(SubSeq(Head(store.chunks).entries, 1, count))
<1> DEFINE s == store.chunks
           o == store.offset
           front == Head(s)
           rest == Tail(s)
           e == front.entries
           gone == SubSeq(e, 1, count)
           kept == SubSeq(e, count + 1, Len(e))
           left == [entries |-> kept,
                    payload_bytes |-> front.payload_bytes - OwnedBytes(gone),
                    unresolved |-> front.unresolved - Unknowns(gone),
                    incidents |-> front.incidents - Marks(gone)]
           chunks == <<left>> \o rest
           new == DrainFront(store, count)
           r == Rows(store)
           q == RowsIn(rest)
           rn == Rows(new)
<1>1. FirstChunk(store, front, rest)
  BY FirstChunkOf
<1>2. front \in Chunks /\ e \in Seq(Entries) /\ Len(e) \in Nat /\ rest \in Seq(Chunks) /\ q \in Seq(Entries)
  BY <1>1, LenProperties DEF FirstChunk, Chunks
<1>3. ~(count >= Len(e)) /\ count \in 0 .. Len(e) /\ count \in Nat /\ count > 0
  BY <1>2
<1>4. /\ new.chunks = chunks /\ new.offset = o + count /\ new.len = store.len - count
      /\ new.bytes = store.bytes - OwnedBytes(gone)
      /\ new.unresolved = store.unresolved - Unknowns(gone)
      /\ new.incidents = store.incidents - Marks(gone)
      /\ new = [chunks |-> new.chunks, offset |-> new.offset, len |-> new.len, bytes |-> new.bytes,
                unresolved |-> new.unresolved, incidents |-> new.incidents]
  BY <1>3 DEF DrainFront
<1>5. gone \in Seq(Entries) /\ kept \in Seq(Entries) /\ SplitsAt(e, count, gone, kept)
  BY <1>2, <1>3, SubSeqsJoin
<1>6. /\ left.entries = kept /\ left.payload_bytes = front.payload_bytes - OwnedBytes(gone)
      /\ left.unresolved = front.unresolved - Unknowns(gone)
      /\ left.incidents = front.incidents - Marks(gone)
      /\ left = [entries |-> left.entries, payload_bytes |-> left.payload_bytes,
                 unresolved |-> left.unresolved, incidents |-> left.incidents]
  OBVIOUS
<1> HIDE DEF new, gone, kept, left, front, rest, r, q, e
<1>7. Adds(gone, kept, e) /\ Weighed(gone) /\ Weighed(kept) /\ Weighed(e)
  <2>1. e = gone \o kept
    BY <1>5 DEF SplitsAt
  <2> QED
    BY <1>2, <1>5, <2>1, RowsAdd, RowsWeigh
<1>8. left \in Chunks /\ ChunkInv(left)
  <2>1. /\ front.payload_bytes = OwnedBytes(e) /\ front.unresolved = Unknowns(e)
        /\ front.incidents = Marks(e)
    BY <1>1 DEF FirstChunk, ChunkInv, e
  <2>2. /\ left.payload_bytes = OwnedBytes(kept) /\ left.unresolved = Unknowns(kept)
        /\ left.incidents = Marks(kept)
    BY <1>6, <1>7, <2>1 DEF Adds, Weighed
  <2>3. kept # <<>>
    BY <1>3, <1>5 DEF SplitsAt
  <2>4. OwnedBytes(kept) \in Nat /\ Unknowns(kept) \in Nat /\ Marks(kept) \in Nat
    BY <1>7 DEF Weighed
  <2>5. ChunkInv(left)
    BY <1>6, <2>2, <2>3 DEF ChunkInv
  <2> QED
    BY <1>5, <1>6, <2>2, <2>4, <2>5 DEF Chunks
<1>9. /\ chunks \in Seq(Chunks) /\ Len(chunks) = Len(s) /\ chunks[1] = left
      /\ \A c \in 2 .. Len(s) : chunks[c] = s[c]
      /\ Len(s) \in Nat /\ Len(s) > 0
  <2>1. <<left>> \in Seq(Chunks) /\ Len(<<left>>) = 1 /\ <<left>>[1] = left
    BY <1>8
  <2>2. /\ chunks \in Seq(Chunks) /\ Len(chunks) = 1 + Len(rest) /\ Len(rest) \in Nat
        /\ Parts(1, Len(rest), <<left>>, rest, chunks)
    BY <1>2, <2>1, PartsOf
  <2>3. Len(rest) = Len(s) - 1 /\ (\A k \in 1 .. Len(s) - 1 : rest[k] = s[k + 1]) /\ Len(s) \in Nat
    <3>1. s \in Seq(Chunks)
      BY DEF StoreInv, Stores
    <3> QED
      BY <1>1, <3>1, LenProperties DEF FirstChunk, Splits
  <2>4. chunks[1] = left
    BY <2>1, <2>2 DEF Parts
  <2>5. ASSUME NEW c \in 2 .. Len(s) PROVE chunks[c] = s[c]
    <3>1. c \in 1 + 1 .. 1 + Len(rest) /\ c - 1 \in 1 .. Len(s) - 1 /\ (c - 1) + 1 = c
      BY <2>3
    <3> HIDE DEF chunks
    <3> QED
      BY <2>2, <2>3, <3>1 DEF Parts
  <2> QED
    BY <2>2, <2>3, <2>4, <2>5
<1>10. rn = kept \o q
  <2>1. Rows(new) = RowsIn(chunks)
    BY <1>4, <1>9, StoreRows
  <2>2. <<left>> \in Seq(Chunks) /\ RowsIn(<<left>>) = kept
    BY <1>6, <1>8, RowsInOne
  <2>3. RowsJoined(<<left>>, rest)
    BY <1>2, <2>2, RowsInJoin
  <2> QED
    BY <2>1, <2>2, <2>3 DEF RowsJoined, q
<1> HIDE DEF chunks, rn
<1>11. rn \in Seq(Entries) /\ r = gone \o rn /\ r \in Seq(Entries)
  <2>1. r = (gone \o kept) \o q
    BY <1>1, <1>5 DEF FirstChunk, SplitsAt, r, q, e
  <2>2. Associates(Entries)
    BY JoinAssociates
  <2>3. r = gone \o (kept \o q)
    BY <1>2, <1>5, <2>1, <2>2 DEF Associates
  <2> QED
    BY <1>2, <1>5, <1>10, <2>3, ConcatProperties
<1>12. Kept(r, rn)
  BY <1>5, <1>11 DEF Kept
<1>13. TotalsInv(new, rn)
  <2>1. Adds(gone, rn, r) /\ Len(r) = Len(gone) + Len(rn) /\ Len(rn) \in Nat /\ Len(gone) = count
    BY <1>5, <1>11, RowsAdd, ConcatProperties, LenProperties DEF SplitsAt
  <2>2. TotalsInv(store, r)
    BY DEF StoreInv, r
  <2>3. Weighed(rn) /\ Weighed(gone)
    BY <1>5, <1>11, RowsWeigh
  <2> DEFINE all == Len(s) * CHUNK_BYTES
  <2>4. all \in Nat
    BY <1>9, StoreConstants
  <2>5. store.bytes = all + OwnedBytes(r) /\ Len(new.chunks) * CHUNK_BYTES = all
    BY <1>4, <1>9, <2>2 DEF TotalsInv
  <2> HIDE DEF all
  <2>6. new.bytes = Len(new.chunks) * CHUNK_BYTES + OwnedBytes(rn)
    BY <1>4, <2>1, <2>3, <2>4, <2>5 DEF Adds, Weighed
  <2>7. new.len = Len(rn) /\ new.unresolved = Unknowns(rn) /\ new.incidents = Marks(rn)
    <3>1. store.len = Len(r) /\ store.unresolved = Unknowns(r) /\ store.incidents = Marks(r)
      BY <2>2 DEF TotalsInv
    <3>2. /\ Unknowns(rn) \in Nat /\ Unknowns(gone) \in Nat /\ Marks(rn) \in Nat /\ Marks(gone) \in Nat
          /\ Unknowns(r) = Unknowns(gone) + Unknowns(rn) /\ Marks(r) = Marks(gone) + Marks(rn)
      BY <2>1, <2>3 DEF Adds, Weighed
    <3> QED
      BY <1>3, <1>4, <2>1, <3>1, <3>2
  <2> QED
    BY <2>6, <2>7 DEF TotalsInv
<1>14. ChunksInv(chunks, o + count)
  <2>1. ASSUME NEW c \in 1 .. Len(s)
        PROVE  ChunkInv(chunks[c]) /\ Used(chunks, o + count, c) = Used(s, o, c)
    <3>1. CASE c = 1
      <4>1. Len(kept) = Len(e) - count
        BY <1>5 DEF SplitsAt
      <4>2. s[1] = front /\ o \in Nat
        BY <1>1 DEF FirstChunk, Splits, StoreInv, Stores
      <4>3. Used(chunks, o + count, c) = (Len(e) - count) + (o + count)
        BY <1>6, <1>9, <3>1, <4>1 DEF Used
      <4>4. Used(s, o, c) = Len(e) + o
        BY <3>1, <4>2 DEF Used, e
      <4> QED
        <5>1. (Len(e) - count) + (o + count) = Len(e) + o
          BY <1>2, <1>3, <4>2
        <5>2. ChunkInv(chunks[c])
          BY <1>8, <1>9, <3>1
        <5> QED
          BY <4>3, <4>4, <5>1, <5>2
    <3>2. CASE c \in 2 .. Len(s)
      BY <1>9, <3>2 DEF Used, StoreInv, ChunksInv
    <3> QED
      BY <1>9, <3>1, <3>2
  <2>2. chunks # <<>>
    BY <1>9
  <2>3. \A c \in 1 .. Len(s) - 1 : c \in 1 .. Len(s)
    BY <1>9
  <2>4. Len(s) \in 1 .. Len(s)
    BY <1>9
  <2> QED
    BY <1>9, <2>1, <2>2, <2>3, <2>4 DEF StoreInv, ChunksInv
<1>15. new \in Stores
  <2>1. new.len \in Nat /\ new.bytes \in Nat /\ new.unresolved \in Nat /\ new.incidents \in Nat
    <3>1. Len(rn) \in Nat /\ Len(new.chunks) \in Nat
      BY <1>4, <1>9, <1>11, LenProperties
    <3>2. Len(new.chunks) * CHUNK_BYTES \in Nat
      BY <3>1, StoreConstants
    <3>3. Weighed(rn)
      BY <1>11, RowsWeigh
    <3> QED
      BY <1>13, <3>1, <3>2, <3>3 DEF TotalsInv, Weighed
  <2>2. new.chunks \in Seq(Chunks) /\ new.offset \in Nat
    BY <1>3, <1>4, <1>9 DEF StoreInv, Stores
  <2> QED
    BY <1>4, <2>1, <2>2 DEF Stores
<1> QED
  BY <1>4, <1>12, <1>13, <1>14, <1>15 DEF StoreInv, new, r, rn, gone, e, front

LEMMA DrainReaches ==
  ASSUME NEW store, StoreInv(store), store.chunks # <<>>, NEW target
  PROVE  LET count == RowsToDrain(store, target)
             front == Head(store.chunks)
         IN /\ count \in 1 .. Len(front.entries)
            /\ \/ count = Len(front.entries)
               \/ store.bytes - OwnedBytes(SubSeq(front.entries, 1, count)) <= target
<1> DEFINE e == Head(store.chunks).entries
           n == Len(e)
           Enough(count) == store.bytes - OwnedBytes(SubSeq(e, 1, count)) <= target
           A == {count \in 1 .. n : Enough(count) \/ count = n}
           count == RowsToDrain(store, target)
<1>1. n \in Nat /\ n > 0
  <2>1. FirstChunk(store, Head(store.chunks), Tail(store.chunks))
    BY FirstChunkOf
  <2>2. e \in Seq(Entries) /\ e # <<>>
    BY <2>1 DEF FirstChunk, ChunkInv, Chunks
  <2> QED
    BY <2>2, EmptySeq
<1>2. count = CHOOSE c \in 1 .. n :
                /\ Enough(c) \/ c = n
                /\ \A less \in 1 .. c - 1 : ~Enough(less)
  BY DEF RowsToDrain
<1> HIDE DEF n, Enough, count
<1>3. PICK c \in A : \A m \in A : c <= m
  <2>1. A \subseteq Nat /\ n \in A
    BY <1>1
  <2> HIDE DEF A
  <2> QED
    BY <2>1, Least
<1>4. \A less \in 1 .. c - 1 : ~Enough(less)
  <2> TAKE less \in 1 .. c - 1
  <2>1. less \in 1 .. n /\ ~(c <= less)
    BY <1>1, <1>3
  <2> QED
    BY <1>3, <2>1
<1>5. count \in 1 .. n /\ (Enough(count) \/ count = n)
  BY <1>2, <1>3, <1>4
<1> QED
  BY <1>5 DEF n, Enough, count

\* One round: what it leaves is a store, it takes rows from the front only, and it
\* reaches the target or takes a chunk.
Trims(store, target, new) ==
  /\ StoreInv(new) /\ Kept(Rows(store), Rows(new))
  /\ new.bytes <= target \/ Len(new.chunks) <= Len(store.chunks) - 1

LEMMA EmptyStore ==
  ASSUME NEW store, StoreInv(store)
  PROVE  /\ store.len = 0 <=> store.chunks = <<>>
         /\ store.chunks = <<>> => store.bytes = 0
<1>1. store.chunks = <<>> => Rows(store) = <<>>
  <2>1. store.chunks \in Seq(Chunks)
    BY DEF StoreInv, Stores
  <2> QED
    BY <2>1, StoreRows, RowsInNone
<1>2. ASSUME store.chunks # <<>> PROVE store.len # 0
  <2>1. FirstChunk(store, Head(store.chunks), Tail(store.chunks))
    BY <1>2, FirstChunkOf
  <2> DEFINE e == Head(store.chunks).entries
             q == RowsIn(Tail(store.chunks))
  <2>2. e \in Seq(Entries) /\ e # <<>> /\ q \in Seq(Entries) /\ Len(Rows(store)) = Len(e) + Len(q)
    BY <2>1 DEF FirstChunk, ChunkInv, Chunks
  <2> HIDE DEF e, q
  <2>3. Len(e) \in Nat /\ Len(e) # 0 /\ Len(q) \in Nat
    BY <2>2, EmptySeq
  <2> QED
    BY <2>2, <2>3 DEF StoreInv, TotalsInv
<1>3. ASSUME store.chunks = <<>> PROVE store.len = 0 /\ store.bytes = 0
  <2>1. Rows(store) = <<>> /\ Len(store.chunks) = 0
    BY <1>1, <1>3
  <2> QED
    BY <2>1, NothingWeighs, StoreConstants DEF StoreInv, TotalsInv
<1> QED
  BY <1>2, <1>3

LEMMA RoundTrims ==
  ASSUME NEW store, StoreInv(store), NEW target \in Nat
  PROVE  Trims(store, target, TrimRound(store, target))
<1> DEFINE front == Head(store.chunks)
           e == front.entries
           new == TrimRound(store, target)
<1>0. store \in Stores /\ store.chunks \in Seq(Chunks) /\ store.bytes \in Nat /\ Len(store.chunks) \in Nat
  <2>1. store \in Stores
    BY DEF StoreInv
  <2> QED
    BY <2>1, LenProperties DEF Stores
<1>1. CASE store.bytes <= target \/ store.len = 0
  <2>1. new = store
    BY <1>1 DEF TrimRound
  <2>2. Kept(Rows(store), Rows(store))
    BY <1>0, StoreRowsType, KeptAll
  <2>3. store.bytes <= target
    BY <1>0, <1>1, EmptyStore
  <2> QED
    BY <2>1, <2>2, <2>3 DEF Trims
<1>2. CASE ~(store.bytes <= target \/ store.len = 0)
  <2>1. store.chunks # <<>>
    BY <1>2, EmptyStore
  <2>2. /\ StoreInv(DropFrontChunk(store)) /\ Kept(Rows(store), Rows(DropFrontChunk(store)))
        /\ Len(DropFrontChunk(store).chunks) = Len(store.chunks) - 1
    BY <2>1, DropIsExact
  <2>3. CASE store.bytes - (CHUNK_BYTES + front.payload_bytes) >= target
    <3>1. new = DropFrontChunk(store)
      BY <1>2, <2>3 DEF TrimRound
    <3> QED
      BY <1>0, <2>2, <3>1 DEF Trims
  <2>4. CASE ~(store.bytes - (CHUNK_BYTES + front.payload_bytes) >= target)
    <3> DEFINE count == RowsToDrain(store, target)
    <3>1. new = DrainFront(store, count)
      BY <1>2, <2>4 DEF TrimRound
    <3>2. /\ count \in 1 .. Len(e)
          /\ count = Len(e) \/ store.bytes - OwnedBytes(SubSeq(e, 1, count)) <= target
      BY <2>1, DrainReaches
    <3>3. Len(e) \in Nat
      <4>1. FirstChunk(store, front, Tail(store.chunks))
        BY <2>1, FirstChunkOf
      <4> QED
        BY <4>1, LenProperties DEF FirstChunk, Chunks
    <3> HIDE DEF count, new
    <3>4. CASE count = Len(e)
      <4>1. new = DropFrontChunk(store)
        BY <3>1, <3>3, <3>4 DEF DrainFront
      <4> QED
        BY <1>0, <2>2, <4>1 DEF Trims, new
    <3>5. CASE count # Len(e)
      <4>1. count \in 1 .. Len(e) - 1
        BY <3>2, <3>3, <3>5
      <4>2. /\ StoreInv(new) /\ Kept(Rows(store), Rows(new))
            /\ new.bytes = store.bytes - OwnedBytes(SubSeq(e, 1, count))
        BY <2>1, <3>1, <4>1, DrainIsExact
      <4> QED
        BY <3>2, <3>5, <4>2 DEF Trims, new
    <3> QED
      BY <3>4, <3>5
  <2> QED
    BY <2>3, <2>4
<1> QED
  BY <1>1, <1>2

\* All rounds: the target is reached.
LEMMA TrimIsExact ==
  ASSUME NEW store, StoreInv(store), NEW target \in Nat
  PROVE  LET new == TrimToBytes(store, target)
         IN StoreInv(new) /\ Kept(Rows(store), Rows(new)) /\ new.bytes <= target
<1> DEFINE n == Len(store.chunks)
           T == {s \in Stores : StoreInv(s)}
           step == [p \in (1 .. n) \X T |-> TrimRound(p[2], target)]
           trimmed == CHOOSE f : f = [k \in 0 .. n |-> IF k = 0 THEN store ELSE TrimRound(f[k - 1], target)]
<1>1. n \in Nat /\ store \in T
  <2>1. store \in Stores
    BY DEF StoreInv
  <2> QED
    BY <2>1, LenProperties DEF Stores
<1>2. TrimToBytes(store, target) = trimmed[n]
  BY Zenon DEF TrimToBytes
<1>t. \A s \in T : StoreInv(s)
  OBVIOUS
<1>3. \A k \in 1 .. n, x \in T : step[<<k, x>>] = TrimRound(x, target) /\ TrimRound(x, target) \in T
  <2> TAKE k \in 1 .. n, x \in T
  <2>1. Trims(x, target, TrimRound(x, target))
    BY RoundTrims
  <2>2. TrimRound(x, target) \in Stores
    BY <2>1 DEF Trims, StoreInv
  <2> QED
    BY <2>1, <2>2 DEF Trims
<1> HIDE DEF n, T, step
<1>4. ASSUME NEW g, IsRun(n, T, store, step, g) PROVE Goes(n, T, store, step, trimmed)
  <2>1. g = [k \in 0 .. n |-> IF k = 0 THEN store ELSE TrimRound(g[k - 1], target)]
    <3>1. ASSUME NEW k \in 0 .. n
          PROVE  g[k] = IF k = 0 THEN store ELSE TrimRound(g[k - 1], target)
      <4>1. CASE k = 0
        BY <1>4, <4>1 DEF IsRun
      <4>2. CASE k # 0
        <5>1. k \in 1 .. n /\ k - 1 \in 0 .. n
          BY <1>1, <4>2
        <5>2. g[k] = step[<<k, g[k - 1]>>] /\ g[k - 1] \in T
          BY <1>4, <5>1 DEF IsRun
        <5> QED
          BY <1>3, <4>2, <5>1, <5>2
      <4> QED
        BY <4>1, <4>2
    <3>2. g = [k \in 0 .. n |-> g[k]]
      BY <1>4 DEF IsRun
    <3> QED
      BY <3>1, <3>2
  <2>2. trimmed = [k \in 0 .. n |-> IF k = 0 THEN store ELSE TrimRound(trimmed[k - 1], target)]
    BY <2>1
  <2> HIDE DEF trimmed
  <2>3. \A k \in 0 .. n : trimmed[k] = IF k = 0 THEN store ELSE TrimRound(trimmed[k - 1], target)
    BY <2>2
  <2>4. \A k \in 1 .. n : k \in 0 .. n /\ k # 0
    BY <1>1
  <2>5. trimmed = [k \in 0 .. n |-> trimmed[k]] /\ trimmed[0] = store
    BY <1>1, <2>2, <2>3
  <2>6. ASSUME NEW k \in 1 .. n, trimmed[k - 1] \in T
        PROVE  trimmed[k] = step[<<k, trimmed[k - 1]>>]
    <3>1. trimmed[k] = TrimRound(trimmed[k - 1], target)
      BY <2>3, <2>4
    <3> QED
      BY <1>3, <2>6, <3>1
  <2> QED
    BY <2>5, <2>6 DEF Goes
<1> HIDE DEF trimmed
<1>5. IsRun(n, T, store, step, trimmed)
  <2>1. StepsIn(n, T, step)
    BY <1>3 DEF StepsIn
  <2> QED
    BY <1>1, <1>4, <2>1, Recursion
<1>6. ASSUME NEW k \in 1 .. n
      PROVE  /\ trimmed[k - 1] \in T /\ trimmed[k] \in T
             /\ Trims(trimmed[k - 1], target, trimmed[k])
  <2>1. k - 1 \in 0 .. n /\ k \in 0 .. n
    BY <1>1
  <2>2. trimmed[k - 1] \in T /\ trimmed[k] \in T
    BY <1>5, <2>1 DEF IsRun
  <2>3. trimmed[k] = TrimRound(trimmed[k - 1], target)
    BY <1>3, <1>5, <2>2 DEF IsRun
  <2> QED
    BY <1>t, <2>2, <2>3, RoundTrims
<1>r. \A k \in 1 .. n : trimmed[k] = TrimRound(trimmed[k - 1], target)
  BY <1>3, <1>5, <1>6 DEF IsRun
<1>7. trimmed[0] = store
  BY <1>5 DEF IsRun
<1> DEFINE Far(s, k) == s.bytes <= target \/ Len(s.chunks) <= n - k
           Good(k) == k <= n => /\ trimmed[k] \in T /\ Kept(Rows(store), Rows(trimmed[k]))
                                /\ Far(trimmed[k], k)
           good == {k \in Nat : Good(k)}
<1>8. 0 \in good
  <2>1. Kept(Rows(store), Rows(store))
    BY <1>1, StoreRowsType, KeptAll DEF T
  <2>2. Far(store, 0)
    BY <1>1 DEF n
  <2> QED
    BY <1>1, <1>7, <2>1, <2>2
<1>9. ASSUME NEW k \in Nat, k \in good PROVE k + 1 \in good
  <2> SUFFICES ASSUME k + 1 <= n PROVE Good(k + 1)
    OBVIOUS
  <2> DEFINE a == trimmed[k]
             b == trimmed[k + 1]
  <2>1. k + 1 \in 1 .. n /\ (k + 1) - 1 = k /\ k <= n
    BY <1>1
  <2>2. a \in T /\ b \in T /\ Trims(a, target, b)
    BY <1>6, <2>1
  <2>3. Kept(Rows(store), Rows(a)) /\ Far(a, k)
    BY <1>9, <2>1
  <2> HIDE DEF a, b, good, Far
  <2>4. Kept(Rows(store), Rows(b))
    <3>1. Rows(store) \in Seq(Entries) /\ Rows(a) \in Seq(Entries) /\ Rows(b) \in Seq(Entries)
      BY <1>1, <2>2, StoreRowsType DEF T
    <3> QED
      BY <2>2, <2>3, <3>1, KeptOfKept DEF Trims
  <2>5. Far(b, k + 1)
    <3>1. a.bytes \in Nat /\ b.bytes \in Nat /\ Len(a.chunks) \in Nat /\ Len(b.chunks) \in Nat
      <4>1. a \in Stores /\ b \in Stores
        BY <2>2 DEF T
      <4>2. a.chunks \in Seq(Chunks) /\ b.chunks \in Seq(Chunks) /\ a.bytes \in Nat /\ b.bytes \in Nat
        BY <4>1 DEF Stores
      <4> QED
        BY <4>2, LenProperties
    <3>2. b.bytes <= target \/ Len(b.chunks) <= Len(a.chunks) - 1
      BY <2>2 DEF Trims
    <3>3. CASE a.bytes <= target
      <4>1. b = a
        <5>1. b = TrimRound(a, target)
          BY <1>r, <2>1 DEF a, b
        <5> QED
          BY <3>3, <5>1 DEF TrimRound
      <4> QED
        BY <3>3, <4>1 DEF Far
    <3>4. CASE Len(a.chunks) <= n - k
      BY <1>1, <3>1, <3>2, <3>4 DEF Far
    <3> QED
      BY <2>3, <3>3, <3>4 DEF Far
  <2> QED
    BY <2>2, <2>4, <2>5 DEF b
<1> HIDE DEF good
<1>10. n \in good
  BY <1>1, <1>8, <1>9, Induction
<1>11. Good(n)
  BY <1>10 DEF good
<1> DEFINE new == trimmed[n]
<1>12. new \in T /\ Kept(Rows(store), Rows(new)) /\ (new.bytes <= target \/ Len(new.chunks) <= 0)
  BY <1>1, <1>11
<1> HIDE DEF new
<1>13. new.bytes <= target
  <2>1. new \in Stores /\ StoreInv(new)
    BY <1>12 DEF T
  <2>2. new.chunks \in Seq(Chunks)
    BY <2>1 DEF Stores
  <2>3. Len(new.chunks) <= 0 => new.chunks = <<>>
    BY <2>2, EmptySeq
  <2> QED
    BY <1>12, <2>1, <2>3, EmptyStore
<1> QED
  BY <1>2, <1>12, <1>13, <1>t DEF new

-------------------------------------------------------------------------------
(* Where the rows of a store are.                                          *)

LEMMA Times == ASSUME NEW a \in Int, NEW b \in Int, NEW d \in Nat, a >= b + 1
  PROVE a * d >= b * d + d
<1>1. a * d - (b * d + d) = (a - (b + 1)) * d
  OBVIOUS
<1>2. (a - (b + 1)) \in Nat
  OBVIOUS
<1>3. (a - (b + 1)) * d >= 0
  BY <1>2
<1> QED BY <1>1, <1>3

LEMMA DivMod ==
  ASSUME NEW q \in Nat, NEW d \in Nat, d > 0, NEW r \in 0 .. d - 1
  PROVE (q * d + r) \div d = q /\ (q * d + r) % d = r
<1> DEFINE x == q * d + r
           k == x \div d
           m == x % d
<1>1. x \in Nat
  OBVIOUS
<1> HIDE DEF x
<1>2. x = k * d + m /\ m \in 0 .. d - 1 /\ k \in Int
  BY <1>1
<1> HIDE DEF k, m
<1>3. k = q
  <2>1. ASSUME k >= q + 1 PROVE FALSE
    <3>1. k * d >= q * d + d
     BY <1>2, <2>1, Times
    <3>2. k * d + m = q * d + r
      BY <1>2 DEF x
    <3> DEFINE kd == k * d
               qd == q * d
    <3>3. kd \in Int /\ qd \in Int
      BY <1>2
    <3> HIDE DEF kd, qd
    <3> QED BY <1>2, <3>1, <3>2, <3>3 DEF kd, qd
  <2>2. ASSUME q >= k + 1 PROVE FALSE
    <3>1. q * d >= k * d + d
     BY <1>2, <2>2, Times
    <3>2. k * d + m = q * d + r
      BY <1>2 DEF x
    <3> QED BY <1>2, <3>1, <3>2
  <2> QED BY <1>2, <2>1, <2>2
<1>4. m = r
  BY <1>2, <1>3 DEF x
<1> QED BY <1>3, <1>4 DEF k, m, x

\* The rows of the first chunks.
Ahead(chunks, k) == RowsIn(SubSeq(chunks, 1, k))

LEMMA BaseGrows ==
  ASSUME NEW store, store.chunks \in Seq(Chunks)
  PROVE  /\ Base(store, 1) = 0
         /\ \A c \in 1 .. Len(store.chunks) :
              Base(store, c) \in Nat /\ Base(store, c + 1) = Base(store, c) + Len(store.chunks[c].entries)
<1> DEFINE s == store.chunks
           n == Len(s)
           w == [d \in 1 .. n |-> Len(s[d].entries)]
           P(c) == [d \in 1 .. c - 1 |-> w[d]]
<1>1. n \in Nat /\ \A d \in 1 .. n : w[d] \in Nat /\ w[d] = Len(s[d].entries)
  <2>1. n \in Nat
    OBVIOUS
  <2>2. ASSUME NEW d \in 1 .. n PROVE w[d] \in Nat /\ w[d] = Len(s[d].entries)
    <3>1. s[d] \in Chunks
      OBVIOUS
    <3>2. s[d].entries \in Seq(Entries)
      BY <3>1 DEF Chunks
    <3>3. Len(s[d].entries) \in Nat
      BY <3>2, LenProperties
    <3> QED
      BY <3>3
  <2> QED
    BY <2>1, <2>2
<1> HIDE DEF w, n
<1>2. ASSUME NEW c \in 1 .. n + 1 PROVE Base(store, c) = Total(P(c)) /\ P(c) \in Seq(Nat) /\ Len(P(c)) = c - 1
  <2>1. \A d \in 1 .. c - 1 : d \in 1 .. n
    BY <1>1
  <2>2. P(c) = [d \in 1 .. c - 1 |-> Len(s[d].entries)]
    BY <1>1, <2>1
  <2>3. P(c) \in [1 .. c - 1 -> Nat] /\ c - 1 \in Nat
    BY <1>1, <2>1
  <2>4. P(c) \in Seq(Nat) /\ Len(P(c)) = c - 1
    BY <2>3
  <2> QED
    BY <2>2, <2>4 DEF Base
<1>3. Base(store, 1) = 0
  <2>1. 1 \in 1 .. n + 1
    BY <1>1
  <2> HIDE DEF P
  <2>2. P(1) \in Seq(Nat) /\ Len(P(1)) = 1 - 1 /\ Base(store, 1) = Total(P(1))
    BY <1>2, <2>1
  <2>3. P(1) = <<>>
    BY <2>2, EmptySeq
  <2> QED
    BY <2>2, <2>3, TotalEmpty
<1>4. ASSUME NEW c \in 1 .. n PROVE Base(store, c) \in Nat /\ Base(store, c + 1) = Base(store, c) + w[c]
  <2>1. c \in 1 .. n + 1 /\ c + 1 \in 1 .. n + 1
    BY <1>1
  <2> DEFINE a == P(c)
             b == P(c + 1)
             t == a \o <<w[c]>>
  <2>2. /\ a \in Seq(Nat) /\ b \in Seq(Nat) /\ Len(a) = c - 1 /\ Len(b) = c
        /\ Base(store, c) = Total(a) /\ Base(store, c + 1) = Total(b)
    BY <1>2, <2>1
  <2>3. (\A d \in 1 .. c - 1 : a[d] = w[d]) /\ \A d \in 1 .. c : b[d] = w[d]
    OBVIOUS
  <2> HIDE DEF a, b
  <2>4. <<w[c]>> \in Seq(Nat) /\ w[c] \in Nat
    BY <1>1
  <2>5. t \in Seq(Nat) /\ Len(t) = c /\ (\A d \in 1 .. c - 1 : t[d] = a[d]) /\ t[c] = w[c]
    BY <2>2, <2>4
  <2>6. b = t
    <3> HIDE DEF t
    <3>1. ASSUME NEW d \in 1 .. c PROVE b[d] = t[d]
      <4>1. b[d] = w[d]
        BY <2>3
      <4>2. CASE d = c
        BY <2>5, <4>1, <4>2
      <4>3. CASE d \in 1 .. c - 1
        BY <2>3, <2>5, <4>1, <4>3
      <4> QED
        BY <2>1, <4>2, <4>3
    <3> QED
      BY <2>2, <2>5, <3>1, SeqEqual
  <2>7. Total(t) = Total(a) + w[c] /\ Total(a) \in Nat
    BY <2>2, <2>4, TotalJoin, TotalOne, TotalType
  <2> QED
    BY <2>2, <2>6, <2>7
<1> QED
  BY <1>1, <1>3, <1>4 DEF n

\* The rows up to a chunk, and those of the chunk.
AheadOf(chunks, k) ==
  /\ Ahead(chunks, k - 1) \in Seq(Entries)
  /\ Ahead(chunks, k) = Ahead(chunks, k - 1) \o chunks[k].entries

LEMMA AheadGrows ==
  ASSUME NEW chunks \in Seq(Chunks), NEW k \in 1 .. Len(chunks)
  PROVE  AheadOf(chunks, k)
<1> DEFINE a == SubSeq(chunks, 1, k - 1)
           b == SubSeq(chunks, 1, k)
           x == <<chunks[k]>>
           t == a \o x
<1>1. k \in Nat /\ k - 1 \in Nat /\ k >= 1 /\ k <= Len(chunks) /\ \A d \in 1 .. Len(chunks) : chunks[d] \in Chunks
  OBVIOUS
<1>2. a \in Seq(Chunks) /\ Len(a) = k - 1 /\ \A d \in 1 .. k - 1 : a[d] = chunks[d]
  BY <1>1
<1>3. b \in Seq(Chunks) /\ Len(b) = k /\ \A d \in 1 .. k : b[d] = chunks[d]
  BY <1>1
<1>4. x \in Seq(Chunks) /\ Len(x) = 1 /\ x[1] = chunks[k] /\ chunks[k] \in Chunks
  BY <1>1
<1> HIDE DEF a, b
<1>5. t \in Seq(Chunks) /\ Len(t) = k /\ (\A d \in 1 .. k - 1 : t[d] = a[d]) /\ t[k] = chunks[k]
  BY <1>1, <1>2, <1>4
<1>6. b = t
  <2> HIDE DEF t
  <2>1. \A d \in 1 .. Len(b) : b[d] = t[d]
    BY <1>1, <1>2, <1>3, <1>5
  <2> QED
    BY <1>3, <1>5, <2>1, SeqEqual
<1> HIDE DEF x
<1>7. RowsJoined(a, x)
  BY <1>2, <1>4, RowsInJoin
<1>8. RowsIn(x) = chunks[k].entries /\ RowsIn(a) \in Seq(Entries)
  BY <1>2, <1>4, RowsInOne, RowsInType DEF x
<1> QED
  BY <1>6, <1>7, <1>8 DEF RowsJoined, AheadOf, Ahead, a, b, t

\* A chunk's rows are those after the rows of the chunks before it.
ChunkAt(store, c) ==
  LET e == store.chunks[c].entries IN
  /\ e \in Seq(Entries) /\ Len(e) \in Nat /\ Base(store, c) \in Nat
  /\ Base(store, c + 1) = Base(store, c) + Len(e)
  /\ Base(store, c + 1) <= Len(Rows(store))
  /\ \A j \in 1 .. Len(e) : Rows(store)[Base(store, c) + j] = e[j]

LEMMA ChunksAreAt ==
  ASSUME NEW store, store.chunks \in Seq(Chunks)
  PROVE  /\ \A c \in 1 .. Len(store.chunks) : ChunkAt(store, c)
         /\ Base(store, Len(store.chunks) + 1) = Len(Rows(store))
         /\ Rows(store) \in Seq(Entries)
<1> DEFINE s == store.chunks
           n == Len(s)
           r == Rows(store)
<1>1. n \in Nat /\ r = RowsIn(s) /\ r \in Seq(Entries) /\ \A c \in 1 .. n : s[c] \in Chunks
  BY StoreRows, RowsInType
<1>2. /\ Base(store, 1) = 0
      /\ \A c \in 1 .. n : Base(store, c) \in Nat /\ Base(store, c + 1) = Base(store, c) + Len(s[c].entries)
  BY BaseGrows
<1>3. \A c \in 1 .. n : AheadOf(s, c) /\ s[c].entries \in Seq(Entries)
  BY <1>1, AheadGrows DEF Chunks
<1> HIDE DEF n, r
<1> DEFINE Good(k) == k <= n => Len(Ahead(s, k)) = Base(store, k + 1)
           good == {k \in Nat : Good(k)}
<1>4. 0 \in good
  <2>1. SubSeq(s, 1, 0) = <<>>
    OBVIOUS
  <2>2. Ahead(s, 0) = <<>>
    BY <2>1, RowsInNone DEF Ahead
  <2>3. Len(Ahead(s, 0)) = 0
    BY <2>2
  <2> QED
    BY <1>2, <2>3
<1>5. ASSUME NEW k \in Nat, k \in good PROVE k + 1 \in good
  <2> SUFFICES ASSUME k + 1 <= n PROVE Good(k + 1)
    OBVIOUS
  <2>1. k + 1 \in 1 .. n /\ (k + 1) - 1 = k /\ k <= n
    BY <1>1
  <2>2. AheadOf(s, k + 1) /\ s[k + 1].entries \in Seq(Entries)
    BY <1>3, <2>1
  <2>3. Len(Ahead(s, k + 1)) = Len(Ahead(s, k)) + Len(s[k + 1].entries)
    <3> DEFINE a == Ahead(s, k)
               e == s[k + 1].entries
    <3>1. a \in Seq(Entries) /\ Ahead(s, k + 1) = a \o e /\ e \in Seq(Entries)
      BY <2>1, <2>2 DEF AheadOf
    <3> HIDE DEF a, e
    <3>2. Len(a \o e) = Len(a) + Len(e)
      BY <3>1, PartsOf
    <3> QED
      BY <3>1, <3>2 DEF a, e
  <2>4. Len(Ahead(s, k)) = Base(store, k + 1)
    BY <1>5, <2>1
  <2> QED
    BY <1>2, <2>1, <2>3, <2>4
<1> HIDE DEF good
<1>6. \A k \in 0 .. n : Len(Ahead(s, k)) = Base(store, k + 1)
  <2>1. \A k \in Nat : k \in good
    BY <1>4, <1>5, Induction
  <2> QED
    BY <1>1, <2>1 DEF good
<1>7. Base(store, n + 1) = Len(r)
  <2>1. Len(Ahead(s, n)) = Base(store, n + 1)
    BY <1>1, <1>6
  <2>2. SubSeq(s, 1, n) = s
    <3> DEFINE t == SubSeq(s, 1, n)
    <3>1. t \in Seq(Chunks) /\ Len(t) = n /\ \A d \in 1 .. n : t[d] = s[d]
      BY <1>1
    <3> HIDE DEF t
    <3>2. t = s
      BY <3>1, SeqEqual DEF n
    <3> QED
      BY <3>2 DEF t
  <2> QED
    BY <1>1, <2>1, <2>2 DEF Ahead
<1>8. ASSUME NEW c \in 1 .. n PROVE ChunkAt(store, c)
  <2> DEFINE e == s[c].entries
             a == Ahead(s, c - 1)
             b == Ahead(s, c)
             q == RowsIn(SubSeq(s, c + 1, n))
  <2>1. e \in Seq(Entries) /\ Len(e) \in Nat /\ a \in Seq(Entries) /\ b = a \o e
    BY <1>3, LenProperties DEF AheadOf
  <2>2. Len(a) = Base(store, c) /\ Len(b) = Base(store, c + 1)
    <3>1. c - 1 \in 0 .. n /\ c \in 0 .. n /\ (c - 1) + 1 = c
      BY <1>1
    <3> QED
      BY <1>6, <3>1
  <2>3. q \in Seq(Entries) /\ r = b \o q /\ b \in Seq(Entries)
    <3>1. c \in 0 .. Len(s)
      BY <1>1 DEF n
    <3> DEFINE x == SubSeq(s, 1, c)
               y == SubSeq(s, c + 1, n)
    <3>2. x \in Seq(Chunks) /\ y \in Seq(Chunks) /\ SplitsAt(s, c, x, y)
      BY <3>1, SubSeqsJoin DEF n
    <3> HIDE DEF x, y
    <3>3. RowsJoined(x, y) /\ RowsIn(x) \in Seq(Entries) /\ RowsIn(y) \in Seq(Entries)
      BY <3>2, RowsInJoin, RowsInType
    <3> QED
      BY <1>1, <3>2, <3>3 DEF RowsJoined, SplitsAt, Ahead, x, y
  <2> HIDE DEF e, a, b, q
  <2>4. Len(r) = Len(b) + Len(q) /\ Len(q) \in Nat /\ Len(b) \in Nat /\ Parts(Len(b), Len(q), b, q, r)
    BY <2>3, PartsOf
  <2>5. Len(b) = Len(a) + Len(e) /\ Parts(Len(a), Len(e), a, e, b) /\ Len(a) \in Nat
    BY <2>1, PartsOf
  <2>6. ASSUME NEW j \in 1 .. Len(e) PROVE r[Base(store, c) + j] = e[j]
    <3> DEFINE i == Len(a) + j
    <3>1. i \in Len(a) + 1 .. Len(a) + Len(e) /\ i - Len(a) = j /\ i \in 1 .. Len(b)
      BY <2>1, <2>5
    <3> HIDE DEF i
    <3>2. r[i] = b[i] /\ b[i] = e[j]
      BY <2>4, <2>5, <3>1 DEF Parts
    <3> QED
      BY <2>2, <3>2 DEF i
  <2> QED
    BY <1>2, <2>1, <2>2, <2>4, <2>6 DEF ChunkAt, r, e
<1> QED
  BY <1>1, <1>7, <1>8 DEF n, r

\* The chunk a row is in.
LEMMA ChunkOf ==
  ASSUME NEW store, store.chunks \in Seq(Chunks), NEW i \in 1 .. Len(Rows(store))
  PROVE  \E c \in 1 .. Len(store.chunks) :
           \E j \in 1 .. Len(store.chunks[c].entries) : i = Base(store, c) + j
<1> DEFINE n == Len(store.chunks)
           A == {k \in 1 .. n : i <= Base(store, k + 1)}
<1>1. n \in Nat /\ \A c \in 1 .. n : ChunkAt(store, c)
  BY ChunksAreAt, LenProperties
<1>2. Base(store, n + 1) = Len(Rows(store)) /\ Len(Rows(store)) \in Nat /\ Base(store, 1) = 0
  <2>1. Rows(store) \in Seq(Entries) /\ Base(store, n + 1) = Len(Rows(store))
    BY ChunksAreAt
  <2> QED
    BY <2>1, BaseGrows, LenProperties
<1> HIDE DEF n
<1>3. n > 0
  BY <1>1, <1>2
<1>4. A # {} /\ A \subseteq Nat
  <2>1. n \in 1 .. n /\ i <= Base(store, n + 1) /\ \A k \in 1 .. n : k \in Nat
    BY <1>1, <1>2, <1>3
  <2> QED
    BY <2>1
<1>5. PICK c \in A : \A k \in A : c <= k
  <2> HIDE DEF A
  <2> QED
    BY <1>4, Least
<1>6. c \in 1 .. n /\ i <= Base(store, c + 1) /\ ChunkAt(store, c)
  BY <1>1, <1>5
<1>7. Base(store, c) < i
  <2>1. CASE c = 1
    BY <1>2, <2>1
  <2>2. CASE c # 1
    <3>1. c - 1 \in 1 .. n /\ (c - 1) + 1 = c /\ ~(c <= c - 1)
      BY <1>1, <1>6, <2>2
    <3>2. ~(i <= Base(store, c))
      BY <1>5, <3>1
    <3> QED
      BY <1>6, <3>2 DEF ChunkAt
  <2> QED
    BY <2>1, <2>2
<1> DEFINE j == i - Base(store, c)
<1>8. j \in 1 .. Len(store.chunks[c].entries) /\ i = Base(store, c) + j
  BY <1>6, <1>7 DEF ChunkAt
<1> QED
  BY <1>6, <1>8 DEF n

\* All but the first chunk begin at a multiple of the size of a chunk.
LEMMA ChunksAreAligned ==
  ASSUME NEW store, StoreInv(store), NEW c \in 2 .. Len(store.chunks)
  PROVE  store.offset + Base(store, c) = (c - 1) * CHUNK_SIZE
<1> DEFINE n == Len(store.chunks)
           o == store.offset
           Good(k) == k <= n - 2 => o + Base(store, k + 2) = (k + 1) * CHUNK_SIZE
           good == {k \in Nat : Good(k)}
<1> DEFINE L(k) == Len(store.chunks[k].entries)
           B(k) == Base(store, k)
<1>1. n \in Nat /\ o \in Nat /\ B(1) = 0
      /\ \A k \in 1 .. n : L(k) \in Nat /\ B(k) \in Nat /\ B(k + 1) = B(k) + L(k)
  <2>1. store.chunks \in Seq(Chunks) /\ store.offset \in Nat
    BY DEF StoreInv, Stores
  <2>2. n \in Nat /\ B(1) = 0 /\ \A k \in 1 .. n : ChunkAt(store, k)
    BY <2>1, ChunksAreAt, BaseGrows, LenProperties
  <2> QED
    BY <2>1, <2>2 DEF ChunkAt
<1>2. ASSUME NEW k \in 1 .. n - 1
      PROVE  L(k) + (IF k = 1 THEN o ELSE 0) = CHUNK_SIZE
  BY DEF StoreInv, ChunksInv, Used
<1> HIDE DEF n, o, L
<1>b. \A k : B(k) = Base(store, k)
  OBVIOUS
<1>3. 0 \in good
  <2> SUFFICES ASSUME 0 <= n - 2 PROVE o + Base(store, 2) = CHUNK_SIZE
    BY StoreConstants
  <2>1. 1 \in 1 .. n - 1 /\ 1 \in 1 .. n
    BY <1>1
  <2> QED
    BY <1>1, <1>2, <2>1
<1>4. ASSUME NEW k \in Nat, k \in good PROVE k + 1 \in good
  <2> SUFFICES ASSUME k + 1 <= n - 2 PROVE Good(k + 1)
    OBVIOUS
  <2>1. k + 2 \in 1 .. n - 1 /\ k + 2 \in 1 .. n /\ k + 2 # 1 /\ (k + 2) + 1 = (k + 1) + 2
    BY <1>1
  <2>2. o + Base(store, k + 2) = (k + 1) * CHUNK_SIZE
    BY <1>1, <1>4
  <2>3. Base(store, (k + 1) + 2) = Base(store, k + 2) + CHUNK_SIZE /\ Base(store, k + 2) \in Nat
    <3> DEFINE m == k + 2
    <3>1. L(m) + 0 = CHUNK_SIZE /\ L(m) \in Nat /\ B(m) \in Nat /\ B(m + 1) = B(m) + L(m)
      BY <1>1, <1>2, <2>1
    <3> QED
      BY <2>1, <3>1
  <2> DEFINE x == (k + 1) * CHUNK_SIZE
             y == ((k + 1) + 1) * CHUNK_SIZE
             a == Base(store, k + 2)
             b == Base(store, (k + 1) + 2)
  <2>4. y = x + CHUNK_SIZE
    BY StoreConstants
  <2>5. o + a = x /\ b = a + CHUNK_SIZE /\ a \in Nat
    BY <2>2, <2>3
  <2> HIDE DEF x, y, a, b
  <2>6. o + b = y
    BY <1>1, <2>4, <2>5, StoreConstants
  <2> QED
    BY <2>6 DEF y, b
<1> HIDE DEF good
<1>5. c - 2 \in good /\ c - 2 \in Nat /\ (c - 2) + 2 = c /\ (c - 2) + 1 = c - 1 /\ c - 2 <= n - 2
  <2>1. c - 2 \in Nat /\ (c - 2) + 2 = c /\ (c - 2) + 1 = c - 1 /\ c - 2 <= n - 2
    BY <1>1 DEF n
  <2> QED
    BY <1>3, <1>4, <2>1, Induction
<1>6. Good(c - 2)
  BY <1>5 DEF good
<1> QED
  BY <1>5, <1>6 DEF o

LEMMA IndicesAreExact ==
  ASSUME NEW store, StoreInv(store)
  PROVE  /\ IndexIsExact(store)
         /\ store.len = Len(Rows(store))
         /\ \A index \in 0 .. store.len - 1 : At(store, index) = Rows(store)[index + 1]
<1> DEFINE s == store.chunks
           o == store.offset
           r == Rows(store)
<1>1. s \in Seq(Chunks) /\ Len(s) \in Nat /\ o \in Nat /\ store.len = Len(r) /\ r \in Seq(Entries)
      /\ Len(r) \in Nat
  <2>1. store \in Stores /\ s \in Seq(Chunks) /\ o \in Nat /\ store.len = Len(r)
    BY DEF StoreInv, Stores, TotalsInv
  <2> QED
    BY <2>1, StoreRowsType, LenProperties
<1>2. \A c \in 1 .. Len(s) : ChunkAt(store, c)
  BY <1>1, ChunksAreAt
<1>3. ASSUME NEW c \in 1 .. Len(s)
      PROVE  Used(s, o, c) = CHUNK_SIZE \/ (c = Len(s) /\ Used(s, o, c) < CHUNK_SIZE)
  <2>1. Used(s, o, c) \in Nat
    <3>1. Len(s[c].entries) \in Nat
      BY <1>2 DEF ChunkAt
    <3> QED
      BY <1>1, <3>1 DEF Used
  <2>2. CASE c = Len(s)
    <3>1. s # <<>>
      BY <2>2, EmptySeq
    <3>2. Used(s, o, c) <= CHUNK_SIZE
      BY <2>2, <3>1 DEF StoreInv, ChunksInv
    <3> QED
      BY <2>1, <2>2, <3>2, StoreConstants
  <2>3. CASE c # Len(s)
    <3>1. c \in 1 .. Len(s) - 1
      BY <1>1, <2>3
    <3> QED
      BY <3>1 DEF StoreInv, ChunksInv
  <2> QED
    BY <2>2, <2>3
<1>4. ASSUME NEW index \in 0 .. store.len - 1 PROVE At(store, index) = r[index + 1]
  <2>1. index + 1 \in 1 .. Len(r) /\ index \in Nat
    BY <1>1
  <2>2. PICK c \in 1 .. Len(s) : \E j \in 1 .. Len(s[c].entries) : index + 1 = Base(store, c) + j
    BY <1>1, <2>1, ChunkOf
  <2>3. PICK j \in 1 .. Len(s[c].entries) : index + 1 = Base(store, c) + j
    BY <2>2
  <2> DEFINE e == s[c].entries
             a == o + index
             q == a \div CHUNK_SIZE
  <2>4. e \in Seq(Entries) /\ Len(e) \in Nat /\ Base(store, c) \in Nat /\ r[index + 1] = e[j]
    BY <1>2, <2>3 DEF ChunkAt
  <2>5. At(store, index) = s[q + 1].entries[(IF q = 0 THEN index ELSE a % CHUNK_SIZE) + 1]
    BY DEF At
  <2>6. Len(e) + (IF c = 1 THEN o ELSE 0) <= CHUNK_SIZE
    <3>1. Used(s, o, c) = Len(e) + (IF c = 1 THEN o ELSE 0)
      BY DEF Used
    <3>2. Used(s, o, c) = CHUNK_SIZE \/ Used(s, o, c) < CHUNK_SIZE
      BY <1>3
    <3> HIDE DEF e
    <3> QED
      BY <1>1, <2>4, <3>1, <3>2, StoreConstants
  <2> DEFINE l == Len(e)
             b == Base(store, c)
  <2>i. l \in Nat /\ b \in Nat /\ index \in Nat /\ o \in Nat /\ j \in 1 .. l /\ index + 1 = b + j
        /\ a = o + index
    BY <1>1, <2>1, <2>3, <2>4
  <2> HIDE DEF e, a, q
  <2>7. CASE c = 1
    <3>1. Base(store, 1) = 0
      BY <1>1, BaseGrows
    <3>2. a \in 0 .. CHUNK_SIZE - 1 /\ index = j - 1 /\ j <= Len(e)
      <4>1. l + o <= CHUNK_SIZE
        BY <2>6, <2>7
      <4> HIDE DEF l, b, o
      <4>2. b = 0
        BY <2>7, <3>1 DEF b
      <4>3. j \in Nat /\ j >= 1 /\ j <= l /\ index = j - 1
        BY <2>i, <4>2
      <4>4. a \in Nat /\ a < CHUNK_SIZE
        BY <2>i, <4>1, <4>3, StoreConstants
      <4> QED
        BY <4>3, <4>4, StoreConstants DEF l
    <3>3. (0 * CHUNK_SIZE + a) \div CHUNK_SIZE = 0
      BY <3>2, StoreConstants, DivMod
    <3>4. 0 * CHUNK_SIZE + a = a
      BY <3>2, StoreConstants
    <3>5. q = 0 /\ q + 1 = c /\ index + 1 = j
      BY <2>7, <3>2, <3>3, <3>4 DEF q
    <3> QED
      BY <2>4, <2>5, <3>5 DEF e
  <2>8. CASE c \in 2 .. Len(s)
    <3>1. o + Base(store, c) = (c - 1) * CHUNK_SIZE
      BY <2>8, ChunksAreAligned
    <3>2. j - 1 \in 0 .. CHUNK_SIZE - 1 /\ c - 1 \in Nat /\ c - 1 # 0
      <4>1. l <= CHUNK_SIZE /\ c # 1
        BY <2>4, <2>6, <2>8
      <4> HIDE DEF l
      <4> QED
        BY <1>1, <2>8, <2>i, <4>1, StoreConstants
    <3>3. a = (c - 1) * CHUNK_SIZE + (j - 1)
      <4>1. a = (o + Base(store, c)) + (j - 1)
        <5> HIDE DEF b, o
        <5>1. a = (o + b) + (j - 1)
          BY <2>i
        <5> QED
          BY <5>1 DEF b
      <4> QED
        BY <3>1, <4>1
    <3>4. a \div CHUNK_SIZE = c - 1 /\ a % CHUNK_SIZE = j - 1
      BY <3>2, <3>3, StoreConstants, DivMod
    <3>5. q = c - 1 /\ q # 0 /\ q + 1 = c /\ (a % CHUNK_SIZE) + 1 = j
      <4>1. q = c - 1
        BY <3>4 DEF q
      <4> HIDE DEF q
      <4>2. c \in Nat /\ j \in Nat
        BY <1>1, <2>3, <2>8
      <4>3. (c - 1) + 1 = c /\ (j - 1) + 1 = j
        BY <4>2
      <4>4. q # 0 /\ q + 1 = c
        BY <3>2, <4>1, <4>3
      <4> QED
        BY <3>4, <4>1, <4>3, <4>4
    <3> QED
      BY <2>4, <2>5, <3>5 DEF e
  <2> QED
    BY <1>1, <2>7, <2>8
<1>5. \A c \in DOMAIN s : c \in 1 .. Len(s)
  BY <1>1
<1> QED
  BY <1>1, <1>3, <1>4, <1>5 DEF IndexIsExact, Used

\* The rows with a signature, and the nearest of them.
Hits(store) == {i \in 0 .. store.len - 1 : Incident(Rows(store)[i + 1])}

FoundIn(store) ==
  UNION {{Base(store, c) + k - 1 : k \in {j \in DOMAIN store.chunks[c].entries :
                                     Incident(store.chunks[c].entries[j])}}
           : c \in {d \in DOMAIN store.chunks : store.chunks[d].incidents > 0}}

\* Chunks that are skipped hold no such row.
LEMMA FoundAreHits ==
  ASSUME NEW store, StoreInv(store)
  PROVE  FoundIn(store) = Hits(store)
<1> DEFINE s == store.chunks
           n == Len(s)
           r == Rows(store)
           E(c) == s[c].entries
           B(c) == Base(store, c)
<1>1. s \in Seq(Chunks) /\ n \in Nat /\ DOMAIN s = 1 .. n /\ store.len = Len(r) /\ Len(r) \in Nat
  <2>1. s \in Seq(Chunks) /\ store \in Stores /\ store.len = Len(r)
    BY DEF StoreInv, Stores, TotalsInv
  <2> QED
    BY <2>1, StoreRowsType, LenProperties
<1>2. ASSUME NEW c \in 1 .. n
      PROVE  /\ E(c) \in Seq(Entries) /\ DOMAIN E(c) = 1 .. Len(E(c)) /\ Len(E(c)) \in Nat
             /\ B(c) \in Nat /\ B(c) + Len(E(c)) <= Len(r)
             /\ \A j \in 1 .. Len(E(c)) : r[B(c) + j] = E(c)[j]
             /\ s[c].incidents > 0 <=> \E k \in 1 .. Len(E(c)) : Incident(E(c)[k])
  <2>1. ChunkAt(store, c)
    BY <1>1, ChunksAreAt
  <2>2. E(c) \in Seq(Entries) /\ s[c].incidents = Marks(E(c))
    BY <2>1 DEF ChunkAt, StoreInv, ChunksInv, ChunkInv
  <2>3. s[c].incidents > 0 <=> \E k \in 1 .. Len(E(c)) : Incident(E(c)[k])
    BY <2>2, MarksShow
  <2>4. DOMAIN E(c) = 1 .. Len(E(c))
    BY <2>2, LenProperties
  <2> QED
    BY <2>1, <2>2, <2>3, <2>4 DEF ChunkAt
<1>3. FoundIn(store)
        = UNION {{B(c) + k - 1 : k \in {j \in DOMAIN E(c) : Incident(E(c)[j])}}
                   : c \in {d \in DOMAIN s : s[d].incidents > 0}}
  BY DEF FoundIn
<1>4. ASSUME NEW i \in 1 .. Len(r) PROVE \E c \in 1 .. n : \E j \in 1 .. Len(E(c)) : i = B(c) + j
  BY <1>1, ChunkOf
<1>5. Hits(store) = {i \in 0 .. Len(r) - 1 : Incident(r[i + 1])}
  BY <1>1 DEF Hits
<1> HIDE DEF n, r, E, B
<1>6. ASSUME NEW i \in FoundIn(store) PROVE i \in Hits(store)
  <2>1. PICK c \in DOMAIN s : i \in {B(c) + k - 1 : k \in {j \in DOMAIN E(c) : Incident(E(c)[j])}}
    BY <1>3
  <2>2. PICK k \in DOMAIN E(c) : Incident(E(c)[k]) /\ i = B(c) + k - 1
    BY <2>1
  <2>3. c \in 1 .. n
    BY <1>1
  <2>4. k \in 1 .. Len(E(c)) /\ Len(E(c)) \in Nat /\ B(c) \in Nat /\ B(c) + Len(E(c)) <= Len(r)
        /\ r[B(c) + k] = E(c)[k]
    BY <1>2, <2>3
  <2>5. i + 1 = B(c) + k /\ i \in 0 .. Len(r) - 1
    BY <1>1, <2>2, <2>4
  <2> QED
    BY <1>5, <2>2, <2>4, <2>5
<1>7. ASSUME NEW i \in Hits(store) PROVE i \in FoundIn(store)
  <2>1. i \in 0 .. Len(r) - 1 /\ Incident(r[i + 1])
    BY <1>5
  <2>2. i + 1 \in 1 .. Len(r)
    BY <1>1, <2>1
  <2>3. PICK c \in 1 .. n : \E j \in 1 .. Len(E(c)) : i + 1 = B(c) + j
    BY <1>4, <2>2
  <2>4. PICK j \in 1 .. Len(E(c)) : i + 1 = B(c) + j
    BY <2>3
  <2>5. Incident(E(c)[j])
    <3>1. r[B(c) + j] = E(c)[j]
      BY <1>2
    <3> QED
      BY <2>1, <2>4, <3>1
  <2>6. c \in DOMAIN s /\ s[c].incidents > 0 /\ j \in DOMAIN E(c)
    BY <1>1, <1>2, <2>5
  <2>7. i = B(c) + j - 1
    <3>1. B(c) \in Nat /\ j \in Nat
      BY <1>2
    <3> QED
      BY <2>1, <2>4, <3>1
  <2> QED
    BY <1>3, <2>5, <2>6, <2>7
<1> QED
  BY <1>6, <1>7

\* The least hit of a range, if there is one.
LeastIn(hits, from, below, found) ==
  LET inside == {i \in hits : from <= i /\ i < below} IN
  \/ inside = {} /\ found = {}
  \/ \E m \in inside : found = {m} /\ \A i \in inside : m <= i

LEMMA FindsLeast ==
  ASSUME NEW store, StoreInv(store), NEW from, NEW below
  PROVE  LeastIn(Hits(store), from, below, FindIncident(store, from, below))
<1> DEFINE hits == Hits(store)
           inside == {i \in hits : from <= i /\ i < below}
           found == FindIncident(store, from, below)
<1>1. hits = FoundIn(store)
  BY FoundAreHits
<1>2. found = IF inside = {} THEN {} ELSE {CHOOSE i \in inside : \A j \in inside : i <= j}
  BY <1>1 DEF FindIncident, FoundIn
<1>3. inside \subseteq Nat
  BY DEF Hits
<1> HIDE DEF found
<1>4. ASSUME inside # {} PROVE \E m \in inside : found = {m} /\ \A i \in inside : m <= i
  <2> HIDE DEF inside
  <2>1. \E m \in inside : \A i \in inside : m <= i
    BY <1>3, <1>4, Least
  <2>2. (CHOOSE i \in inside : \A j \in inside : i <= j) \in inside
    BY <2>1
  <2>3. \A j \in inside : (CHOOSE i \in inside : \A k \in inside : i <= k) <= j
    BY <2>1
  <2> QED
    BY <1>2, <1>4, <2>2, <2>3
<1> QED
  BY <1>2, <1>4 DEF LeastIn, found

\* How far it is from a row to another one, going round.
Around(from, to, len) == IF to > from THEN to - from - 1 ELSE to - from - 1 + len

LEMMA StepsAround ==
  ASSUME NEW len \in Nat, NEW from \in 0 .. len - 1, NEW to \in 0 .. len - 1
  PROVE  (to - from - 1 + len) % len = Around(from, to, len)
<1>1. CASE to > from
  <2> DEFINE r == to - from - 1
  <2>1. r \in 0 .. len - 1 /\ 1 * len + r = to - from - 1 + len /\ len > 0
    BY <1>1
  <2> HIDE DEF r
  <2>2. (1 * len + r) % len = r
    BY <2>1, DivMod
  <2> QED
    BY <1>1, <2>1, <2>2 DEF Around, r
<1>2. CASE ~(to > from)
  <2> DEFINE r == to - from - 1 + len
  <2>1. r \in 0 .. len - 1 /\ 0 * len + r = r /\ len > 0
    BY <1>2
  <2> HIDE DEF r
  <2>2. (0 * len + r) % len = r
    BY <2>1, DivMod
  <2> QED
    BY <1>2, <2>1, <2>2 DEF Around, r
<1> QED
  BY <1>1, <1>2

LEMMA NearestIsFound ==
  ASSUME NEW store, StoreInv(store)
  PROVE  FindsNearest(store)
<1> DEFINE r == Rows(store)
           len == store.len
           hits == Hits(store)
<1>1. len = Len(r) /\ len \in Nat /\ r \in Seq(Entries) /\ store.incidents = Marks(r)
  <2>1. store \in Stores /\ len = Len(r) /\ store.incidents = Marks(r)
    BY DEF StoreInv, TotalsInv
  <2> QED
    BY <2>1, StoreRowsType, LenProperties
<1>2. hits \subseteq 0 .. len - 1
  BY DEF Hits
<1>3. store.incidents = 0 <=> hits = {}
  <2>1. Marks(r) > 0 <=> \E k \in 1 .. Len(r) : Incident(r[k])
    BY <1>1, MarksShow
  <2>2. Marks(r) \in Nat
    BY <1>1, RowsWeigh DEF Weighed
  <2>3. (\E k \in 1 .. Len(r) : Incident(r[k])) => hits # {}
    <3> SUFFICES ASSUME NEW k \in 1 .. Len(r), Incident(r[k]) PROVE hits # {}
      OBVIOUS
    <3> HIDE DEF r, len
    <3>1. k - 1 \in 0 .. len - 1 /\ (k - 1) + 1 = k
      BY <1>1
    <3>2. k - 1 \in hits
      BY <3>1 DEF Hits, r, len
    <3> QED
      BY <3>2
  <2>4. hits # {} => \E k \in 1 .. Len(r) : Incident(r[k])
    <3> SUFFICES ASSUME NEW i \in hits PROVE \E k \in 1 .. Len(r) : Incident(r[k])
      OBVIOUS
    <3>1. i \in 0 .. len - 1 /\ Incident(r[i + 1])
      BY DEF Hits
    <3> HIDE DEF r, len, hits
    <3>2. i + 1 \in 1 .. Len(r)
      BY <1>1, <3>1
    <3> QED
      BY <3>1, <3>2
  <2> HIDE DEF r, hits
  <2> QED
    BY <1>1, <2>1, <2>2, <2>3, <2>4
<1>4. ASSUME NEW from \in 0 .. len - 1
      PROVE  NextIncident(store, {from})
               = {i \in hits : \A j \in hits : Around(from, i, len) <= Around(from, j, len)}
  <2> DEFINE start == IF from + 1 < len THEN from + 1 ELSE len
             ahead == FindIncident(store, start, len)
             behind == FindIncident(store, 0, start)
             A(i) == Around(from, i, len)
             best == {i \in hits : \A j \in hits : A(i) <= A(j)}
  <2>1. start = from + 1
    BY <1>1
  <2>2. NextIncident(store, {from}) = IF store.incidents = 0 THEN {} ELSE IF ahead # {} THEN ahead ELSE behind
    <3>1. {from} # {} /\ (CHOOSE i \in {from} : TRUE) = from
      OBVIOUS
    <3> QED
      BY <3>1 DEF NextIncident
  <2>3. LeastIn(hits, start, len, ahead) /\ LeastIn(hits, 0, start, behind)
    BY FindsLeast
  <2> HIDE DEF hits, start, ahead, behind, len
  <2>4. ASSUME NEW m \in hits, \A i \in hits : i = m \/ A(m) < A(i) PROVE best = {m}
    <3>1. \A i \in hits : A(i) \in Int
      BY <1>1, <1>2 DEF Around
    <3> HIDE DEF A
    <3> QED
      BY <2>4, <3>1
  <2>5. CASE hits = {}
    BY <1>3, <2>2, <2>5
  <2>6. CASE hits # {} /\ ahead # {}
    <3>1. PICK m \in hits : /\ start <= m /\ m < len /\ ahead = {m}
                            /\ \A i \in hits : start <= i /\ i < len => m <= i
      BY <2>3, <2>6 DEF LeastIn
    <3>2. \A i \in hits : i = m \/ A(m) < A(i)
      BY <1>1, <1>2, <2>1, <3>1 DEF Around
    <3>3. best = {m}
      BY <2>4, <3>2
    <3> QED
      BY <1>3, <2>2, <2>6, <3>1, <3>3
  <2>7. CASE hits # {} /\ ahead = {}
    <3>1. \A i \in hits : ~(start <= i /\ i < len)
      BY <2>3, <2>7 DEF LeastIn
    <3>2. \A i \in hits : i < start /\ 0 <= i
      BY <1>1, <1>2, <2>1, <3>1
    <3>3. PICK m \in hits : behind = {m} /\ \A i \in hits : m <= i
      BY <2>3, <2>7, <3>2 DEF LeastIn
    <3>4. \A i \in hits : i = m \/ A(m) < A(i)
      BY <1>1, <1>2, <2>1, <3>2, <3>3 DEF Around
    <3>5. best = {m}
      BY <2>4, <3>4
    <3> QED
      BY <1>3, <2>2, <2>7, <3>3, <3>5
  <2> QED
    BY <2>5, <2>6, <2>7
<1>5. \A from, to \in 0 .. len - 1 : (to - from - 1 + len) % len = Around(from, to, len)
  BY <1>1, StepsAround
<1>6. ASSUME NEW from \in 0 .. len - 1
      PROVE  NextIncident(store, {from})
               = {i \in hits : \A j \in hits : (i - from - 1 + len) % len <= (j - from - 1 + len) % len}
  <2> HIDE DEF hits, len
  <2>1. \A i \in hits : (i - from - 1 + len) % len = Around(from, i, len)
    BY <1>2, <1>5
  <2> QED
    BY <1>4, <2>1
<1> QED
  BY <1>6 DEF FindsNearest, Hits

-------------------------------------------------------------------------------
(* The live view.                                                          *)

AllFacts ==
  [started : BOOLEAN, intentional_stop : BOOLEAN, resume_pending : BOOLEAN, gap : BOOLEAN,
   retention_removed : Nat, cleared_records : Nat]

Lives ==
  [store : Stores, last_seq : 0 .. MaxSeq, phase : {"idle", "attempt", "streaming"},
   stopping : BOOLEAN, facts : AllFacts]

\* A row of the live capture, with the number it got.
IsLiveRow(row, seq) ==
  /\ row \in Entries /\ row.proto = {} /\ SourceFits(row, [process_source |-> {}])
  /\ \E session \in Sessions :
       row.identity = {[session |-> session, seq |-> seq, in_order |-> TRUE]}

\* What was received since the view was cleared carries the last numbers.
Numbered(rows, last) ==
  /\ rows \in Seq(Entries) /\ Len(rows) <= last
  /\ \A k \in 1 .. Len(rows) : IsLiveRow(rows[k], last - Len(rows) + k)

\* The view holds the last of the rows received, and what it does not hold of the
\* session is accounted for.
ViewInv(view, received) ==
  /\ view \in Lives /\ StoreInv(view.store) /\ view.store.bytes <= Budget
  /\ Numbered(received, view.last_seq) /\ Kept(received, Rows(view.store))
  /\ view.last_seq - view.store.len = view.facts.retention_removed + view.facts.cleared_records

LEMMA LiveConstants == Budget \in Nat /\ Target \in Nat /\ Target <= Budget /\ MaxSeq \in Nat
  BY DocumentsAssumption

LEMMA NewLiveIsExact == ViewInv(NewLive, <<>>)
<1>1. StoreInv(NewStore) /\ Rows(NewStore) = <<>> /\ NewStore.len = 0 /\ NewStore.bytes = 0
  BY NewStoreIsExact DEF NewStore
<1>2. <<>> \in Seq(Entries) /\ Len(<<>>) = 0
  BY EmptySeq
<1>3. NewLive \in Lives
  BY <1>1, LiveConstants DEF NewLive, NewFacts, Lives, AllFacts, StoreInv
<1>4. /\ NewLive.store = NewStore /\ NewLive.last_seq = 0 /\ NewLive.facts.retention_removed = 0
      /\ NewLive.facts.cleared_records = 0
  BY DEF NewLive, NewFacts
<1>5. Numbered(<<>>, 0)
  BY <1>2 DEF Numbered
<1>6. Kept(<<>>, <<>>)
  BY <1>2, KeptAll
<1> QED
  BY <1>1, <1>3, <1>4, <1>5, <1>6, LiveConstants DEF ViewInv

LEMMA ViewNumbers ==
  ASSUME NEW view \in Lives
  PROVE  /\ view.store \in Stores /\ view.store.len \in Nat /\ view.store.bytes \in Nat
         /\ view.last_seq \in Nat /\ view.last_seq \in 0 .. MaxSeq
         /\ view.facts \in AllFacts
         /\ view.facts.retention_removed \in Nat /\ view.facts.cleared_records \in Nat
  BY LiveConstants DEF Lives, Stores, AllFacts

\* What the facts do not say of records, steps of the capture may change.
LEMMA FactsMayChange ==
  ASSUME NEW view, NEW received, ViewInv(view, received), NEW other, other \in Lives,
         other.store = view.store, other.last_seq = view.last_seq,
         other.facts.retention_removed = view.facts.retention_removed,
         other.facts.cleared_records = view.facts.cleared_records
  PROVE  ViewInv(other, received)
  BY DEF ViewInv

\* The number of rows left, of those kept.
LEMMA KeptIsShorter ==
  ASSUME NEW a \in Seq(Entries), NEW b \in Seq(Entries), Kept(a, b)
  PROVE  Len(b) <= Len(a) /\ SubSeq(a, Len(a) - Len(b) + 1, Len(a)) = b
<1>1. PICK gone \in Seq(Entries) : a = gone \o b
  BY DEF Kept
<1> DEFINE m == Len(gone)
           n == Len(b)
           t == SubSeq(a, m + 1, m + n)
<1>2. m \in Nat /\ n \in Nat /\ Len(a) = m + n /\ Parts(m, n, gone, b, a)
  BY <1>1, PartsOf
<1> HIDE DEF m
<1>3. t \in Seq(Entries) /\ Len(t) = n /\ \A k \in 1 .. n : t[k] = a[m + k]
  <2>1. \A k \in m + 1 .. m + n : a[k] \in Entries
    BY <1>2
  <2>2. \A k \in 1 .. n : m + k \in m + 1 .. m + n /\ (m + 1) + k - 1 = m + k
    BY <1>2
  <2> QED
    BY <1>2, <2>1, <2>2, SubSeqProperties
<1>4. ASSUME NEW k \in 1 .. n PROVE t[k] = b[k]
  <2>1. m + k \in m + 1 .. m + n /\ (m + k) - m = k
    BY <1>2
  <2>2. a[m + k] = b[k]
    BY <1>2, <2>1 DEF Parts
  <2> QED
    BY <1>3, <2>2
<1> HIDE DEF t
<1>5. t = b
  BY <1>3, <1>4, SeqEqual
<1>6. Len(a) - Len(b) + 1 = m + 1 /\ n <= Len(a)
  BY <1>2
<1> QED
  BY <1>2, <1>5, <1>6 DEF t

\* A record as it is received, and what is left to say of the view then.
Named(row, session, seq) ==
  [row EXCEPT !.identity = {[session |-> session, seq |-> seq, in_order |-> TRUE]}]

ReceivesExactly(view, received, new, entry) ==
  /\ ViewInv(new, Append(received, entry))
  /\ new.phase = view.phase /\ new.stopping = view.stopping
  /\ new.facts = [view.facts EXCEPT !.retention_removed = new.facts.retention_removed]

LEMMA ReceivedIsExact ==
  ASSUME NEW view, NEW received, ViewInv(view, received), view.last_seq < MaxSeq,
         NEW row \in LiveRows, NEW session \in Sessions
  PROVE  LET entry == Named(row, session, view.last_seq + 1)
         IN ReceivesExactly(view, received, Received(view, entry), entry)
<1> DEFINE entry == Named(row, session, view.last_seq + 1)
           store == view.store
           pushed == Push(store, entry)
           next == IF pushed.bytes > Budget THEN TrimToBytes(pushed, Target) ELSE pushed
           new == Received(view, entry)
           seq == view.last_seq + 1
           identity == [session |-> session, seq |-> seq, in_order |-> TRUE]
           r == Rows(store)
           all == Append(received, entry)
<1>1. /\ view \in Lives /\ StoreInv(store) /\ store.bytes <= Budget
      /\ Numbered(received, view.last_seq) /\ Kept(received, r)
      /\ view.last_seq - store.len = view.facts.retention_removed + view.facts.cleared_records
  BY DEF ViewInv
<1>2. /\ store \in Stores /\ store.len \in Nat /\ store.bytes \in Nat /\ view.last_seq \in Nat
      /\ view.facts \in AllFacts /\ view.facts.retention_removed \in Nat
      /\ view.facts.cleared_records \in Nat /\ seq \in 0 .. MaxSeq /\ seq \in Nat
  BY <1>1, ViewNumbers, LiveConstants
<1>3. entry \in Entries /\ IsLiveRow(entry, seq)
  <2>1. row \in Entries /\ row.proto = {} /\ SourceFits(row, [process_source |-> {}])
    BY DocumentsAssumption
  <2>2. identity \in Identities
    BY <1>2 DEF Identities
  <2>3. {identity} \in AtMostOne(Identities)
    BY <2>2 DEF AtMostOne
  <2> HIDE DEF identity
  <2>4. entry \in Entries /\ entry.identity = {identity} /\ entry.proto = row.proto
        /\ entry.process = row.process /\ entry.process_source = row.process_source
        /\ entry.kind = row.kind
    BY <2>1, <2>3 DEF Entries, identity, Named
  <2>5. SourceFits(entry, [process_source |-> {}])
    BY <2>1, <2>4 DEF SourceFits
  <2> QED
    BY <2>1, <2>4, <2>5 DEF IsLiveRow, identity
<1>4. received \in Seq(Entries) /\ r \in Seq(Entries) /\ Len(received) \in Nat
      /\ Len(received) <= view.last_seq
  BY <1>1, <1>2, StoreRowsType, LenProperties DEF Numbered
<1>5. StoreInv(pushed) /\ Rows(pushed) = Append(r, entry)
  BY <1>1, <1>3, PushIsExact
<1>6. Kept(all, Append(r, entry)) /\ all \in Seq(Entries) /\ Append(r, entry) \in Seq(Entries)
  <2>1. PICK gone \in Seq(Entries) : received = gone \o r
    BY <1>1 DEF Kept
  <2> HIDE DEF r
  <2>2. gone \o Append(r, entry) = Append(gone \o r, entry)
    BY <1>3, <1>4, AppendToJoined
  <2>3. all \in Seq(Entries) /\ Append(r, entry) \in Seq(Entries)
    BY <1>3, <1>4, AppendProperties
  <2>4. all = gone \o Append(r, entry)
    <3>1. all = Append(gone \o r, entry)
      BY <2>1
    <3> QED
      BY <2>2, <3>1
  <2> HIDE DEF all
  <2> QED
    BY <2>3, <2>4 DEF Kept
<1> HIDE DEF store, pushed, identity, entry
<1>7. StoreInv(next) /\ Kept(all, Rows(next)) /\ next.bytes <= Budget
  <2>1. pushed \in Stores /\ pushed.bytes \in Nat
    BY <1>5 DEF StoreInv, Stores
  <2>2. CASE pushed.bytes > Budget
    <3>1. next = TrimToBytes(pushed, Target)
      BY <2>2
    <3>2. StoreInv(next) /\ Kept(Rows(pushed), Rows(next)) /\ next.bytes <= Target
      BY <1>5, <3>1, LiveConstants, TrimIsExact
    <3>3. Rows(next) \in Seq(Entries) /\ next.bytes \in Nat
      BY <3>2, StoreRowsType DEF StoreInv, Stores
    <3> HIDE DEF next
    <3>4. Kept(all, Rows(next))
      BY <1>5, <1>6, <3>2, <3>3, KeptOfKept
    <3> QED
      BY <3>2, <3>3, <3>4, LiveConstants
  <2>3. CASE ~(pushed.bytes > Budget)
    <3>1. next = pushed
      BY <2>3
    <3>2. pushed.bytes <= Budget
      BY <2>1, <2>3, LiveConstants
    <3> HIDE DEF next
    <3> QED
      BY <1>5, <1>6, <3>1, <3>2
  <2> QED
    BY <2>2, <2>3
<1>8. /\ next \in Stores /\ next.len \in Nat /\ next.len <= pushed.len /\ pushed.len = store.len + 1
  <2>1. next \in Stores /\ next.len = Len(Rows(next)) /\ pushed.len = Len(Rows(pushed)) /\ store.len = Len(r)
    BY <1>1, <1>5, <1>7 DEF StoreInv, TotalsInv, r
  <2> HIDE DEF next
  <2>2. Len(Append(r, entry)) = Len(r) + 1 /\ Len(r) \in Nat
    BY <1>3, <1>4, AppendProperties, LenProperties
  <2>3. Len(Rows(next)) <= Len(Rows(pushed)) /\ Len(Rows(next)) \in Nat
    <3>1. Rows(next) \in Seq(Entries)
      BY <2>1, StoreRowsType
    <3>2. Len(Rows(next)) \in Nat
      BY <3>1, LenProperties
    <3>3. CASE pushed.bytes > Budget
      <4>1. Kept(Rows(pushed), Rows(next))
        BY <1>5, <3>3, LiveConstants, TrimIsExact DEF next
      <4> QED
        BY <1>5, <1>6, <3>1, <3>2, <4>1, KeptIsShorter
    <3>4. CASE ~(pushed.bytes > Budget)
      BY <3>2, <3>4 DEF next
    <3> QED
      BY <3>2, <3>3, <3>4
  <2> QED
    BY <1>2, <1>5, <2>1, <2>2, <2>3
<1> DEFINE removed == view.facts.retention_removed + (pushed.len - next.len)
           facts == [view.facts EXCEPT !.retention_removed = removed]
<1>9. /\ new.store = next /\ new.last_seq = seq /\ new.facts = facts
      /\ new.phase = view.phase /\ new.stopping = view.stopping
      /\ new = [store |-> new.store, last_seq |-> new.last_seq, phase |-> new.phase,
                stopping |-> new.stopping, facts |-> new.facts]
  <2>1. new = [view EXCEPT !.last_seq = seq, !.store = next, !.facts = facts]
    BY DEF Received, RetentionRemoved, store, pushed
  <2>2. view = [store |-> view.store, last_seq |-> view.last_seq, phase |-> view.phase,
                stopping |-> view.stopping, facts |-> view.facts]
    BY <1>1 DEF Lives
  <2> HIDE DEF new, next, facts, seq
  <2> QED
    BY <2>1, <2>2
<1> HIDE DEF new, next
<1>10. /\ removed \in Nat /\ facts \in AllFacts /\ facts.retention_removed = removed
       /\ facts.cleared_records = view.facts.cleared_records
  BY <1>2, <1>8 DEF AllFacts
<1>11. new \in Lives
  BY <1>1, <1>2, <1>8, <1>9, <1>10 DEF Lives
<1>12. new.last_seq - new.store.len = new.facts.retention_removed + new.facts.cleared_records
  <2> HIDE DEF facts
  <2>1. removed = view.facts.retention_removed + (store.len + 1 - next.len)
    BY <1>2, <1>8
  <2> HIDE DEF removed
  <2> QED
    BY <1>1, <1>2, <1>8, <1>9, <1>10, <2>1 DEF seq
<1>13. Numbered(all, seq)
  <2>1. all \in Seq(Entries) /\ Len(all) = Len(received) + 1 /\ all[Len(received) + 1] = entry
        /\ \A k \in 1 .. Len(received) : all[k] = received[k]
    BY <1>3, <1>4, AppendProperties
  <2> HIDE DEF all
  <2>2. ASSUME NEW k \in 1 .. Len(all) PROVE IsLiveRow(all[k], seq - Len(all) + k)
    <3>1. CASE k = Len(received) + 1
      <4>1. seq - Len(all) + k = seq
        BY <1>2, <1>4, <2>1, <3>1
      <4> QED
        BY <1>3, <2>1, <3>1, <4>1
    <3>2. CASE k \in 1 .. Len(received)
      <4>1. seq - Len(all) + k = view.last_seq - Len(received) + k
        BY <1>2, <1>4, <2>1, <3>2
      <4> QED
        BY <1>1, <2>1, <3>2, <4>1 DEF Numbered
    <3> QED
      BY <1>4, <2>1, <3>1, <3>2
  <2> QED
    BY <1>2, <1>4, <2>1, <2>2 DEF Numbered
<1>14. ViewInv(new, all)
  BY <1>7, <1>9, <1>11, <1>12, <1>13 DEF ViewInv
<1>15. new.facts = [view.facts EXCEPT !.retention_removed = new.facts.retention_removed]
  BY <1>9, <1>10
<1> QED
  BY <1>9, <1>14, <1>15 DEF new, all, entry, ReceivesExactly

-------------------------------------------------------------------------------
(* What is told of gaps.                                                   *)

\* While nothing was missed: a session that streamed and pauses was told to stop,
\* so that going on will be a gap.
Going(view, history) ==
  /\ view.phase = "idle" =>
       /\ ~view.stopping
       /\ view.facts.resume_pending <=> history.streamed
  /\ view.phase = "attempt" =>
       /\ ~history.streamed /\ ~view.facts.started /\ ~view.facts.resume_pending
       /\ view.facts.intentional_stop <=> view.stopping
  /\ view.phase = "streaming" =>
       /\ history.streamed /\ view.facts.started
       /\ view.facts.intentional_stop <=> view.stopping
       /\ view.facts.resume_pending <=> view.stopping

GapInv(view, history) ==
  /\ history \in [streamed : BOOLEAN, gap : BOOLEAN]
  /\ view.facts.gap <=> history.gap
  /\ ~history.gap => Going(view, history)

LEMMA NewLiveHasNoGap == GapInv(NewLive, NewHistory)
  BY DEF GapInv, Going, NewLive, NewHistory, NewFacts

CaptureInv == ViewInv(live, sent) /\ GapInv(live, broken)

\* What a step of the capture that receives nothing does.
SameRecords(facts, other) ==
  /\ other \in AllFacts
  /\ other.retention_removed = facts.retention_removed
  /\ other.cleared_records = facts.cleared_records

LEMMA FactsSteps ==
  ASSUME NEW facts \in AllFacts
  PROVE  /\ SameRecords(facts, BeginAttempt(facts)) /\ SameRecords(facts, StreamStarted(facts))
         /\ SameRecords(facts, StopRequested(facts)) /\ SameRecords(facts, SnapshotCompleted(facts))
         /\ SameRecords(facts, FactsExited(facts)) /\ SameRecords(facts, GapNoticed(facts))
<1>1. SameRecords(facts, BeginAttempt(facts))
  BY DEF SameRecords, AllFacts, BeginAttempt
<1>2. SameRecords(facts, StreamStarted(facts))
  BY DEF SameRecords, AllFacts, StreamStarted
<1>3. SameRecords(facts, StopRequested(facts))
  BY DEF SameRecords, AllFacts, StopRequested
<1>4. SameRecords(facts, SnapshotCompleted(facts))
  BY DEF SameRecords, AllFacts, SnapshotCompleted
<1>5. SameRecords(facts, FactsExited(facts))
  BY DEF SameRecords, AllFacts, FactsExited
<1>6. SameRecords(facts, GapNoticed(facts))
  BY DEF SameRecords, AllFacts, GapNoticed
<1> QED
  BY <1>1, <1>2, <1>3, <1>4, <1>5, <1>6

Steps(view, new) ==
  /\ new \in Lives /\ new.store = view.store /\ new.last_seq = view.last_seq
  /\ SameRecords(view.facts, new.facts)

LEMMA ViewSteps ==
  ASSUME NEW view, NEW new, NEW received, ViewInv(view, received), Steps(view, new)
  PROVE  ViewInv(new, received)
  BY FactsMayChange DEF Steps, SameRecords

\* The view with another phase, stop or facts.
With(view, phase, stopping, facts) ==
  [store |-> view.store, last_seq |-> view.last_seq, phase |-> phase, stopping |-> stopping,
   facts |-> facts]

Becomes(view, new, phase, stopping, facts) ==
  /\ Steps(view, new) /\ new.phase = phase /\ new.stopping = stopping /\ new.facts = facts

LEMMA ViewWith ==
  ASSUME NEW view \in Lives, NEW phase \in {"idle", "attempt", "streaming"},
         NEW stopping \in BOOLEAN, NEW facts, SameRecords(view.facts, facts), NEW new,
         new = With(view, phase, stopping, facts)
  PROVE  Becomes(view, new, phase, stopping, facts)
<1>1. view.store \in Stores /\ view.last_seq \in 0 .. MaxSeq
  BY DEF Lives
<1> QED
  BY <1>1 DEF With, Becomes, Steps, SameRecords, Lives

LEMMA ViewFields ==
  ASSUME NEW view \in Lives
  PROVE  /\ view.facts \in AllFacts /\ view.stopping \in BOOLEAN
         /\ view.phase \in {"idle", "attempt", "streaming"}
         /\ view = With(view, view.phase, view.stopping, view.facts)
  BY DEF Lives, With

LEMMA BeginTold ==
  ASSUME CaptureInv, Begin PROVE CaptureInv'
<1> DEFINE facts == BeginAttempt(live.facts)
<1>1. live \in Lives /\ live.phase = "idle" /\ sent' = sent
  BY DEF CaptureInv, ViewInv, Begin
<1>2. /\ live' = [live EXCEPT !.phase = "attempt", !.facts = facts]
      /\ broken' = [broken EXCEPT !.gap = @ \/ broken.streamed]
  BY DEF Begin
<1>3. live.facts \in AllFacts /\ live.stopping \in BOOLEAN /\ SameRecords(live.facts, facts)
  BY <1>1, ViewFields, FactsSteps
<1>6. /\ facts.started = FALSE /\ facts.intentional_stop = FALSE /\ facts.resume_pending = FALSE
      /\ facts.gap = (live.facts.gap \/ live.facts.resume_pending)
  BY <1>3 DEF BeginAttempt, AllFacts
<1> HIDE DEF facts
<1>4. live' = With(live, "attempt", live.stopping, facts)
  <2>1. live = With(live, live.phase, live.stopping, live.facts)
    BY <1>1, ViewFields
  <2>2. live = [store |-> live.store, last_seq |-> live.last_seq, phase |-> live.phase,
                stopping |-> live.stopping, facts |-> live.facts]
    BY <2>1 DEF With
  <2> QED
    BY <1>2, <2>2 DEF With
<1>5. /\ Steps(live, live') /\ live'.phase = "attempt" /\ live'.stopping = live.stopping
      /\ live'.facts = facts
  BY <1>1, <1>3, <1>4, ViewWith DEF Becomes
<1>7. broken'.streamed = broken.streamed /\ broken'.gap = (broken.gap \/ broken.streamed)
      /\ broken' \in [streamed : BOOLEAN, gap : BOOLEAN]
  BY <1>2 DEF CaptureInv, GapInv
<1>8. GapInv(live', broken')
  BY <1>1, <1>5, <1>6, <1>7 DEF CaptureInv, GapInv, Going
<1> QED
  BY <1>1, <1>5, <1>8, ViewSteps DEF CaptureInv

LEMMA ViewIs ==
  ASSUME NEW view \in Lives
  PROVE  view = [store |-> view.store, last_seq |-> view.last_seq, phase |-> view.phase,
                 stopping |-> view.stopping, facts |-> view.facts]
  BY DEF Lives

LEMMA StartTold ==
  ASSUME CaptureInv, Start PROVE CaptureInv'
<1> DEFINE facts == StreamStarted(live.facts)
<1>1. live \in Lives /\ live.phase = "attempt" /\ sent' = sent
  BY DEF CaptureInv, ViewInv, Start
<1>2. /\ live' = [live EXCEPT !.phase = "streaming", !.facts = facts]
      /\ broken' = [broken EXCEPT !.streamed = TRUE]
  BY DEF Start
<1>3. live.facts \in AllFacts /\ live.stopping \in BOOLEAN /\ SameRecords(live.facts, facts)
  BY <1>1, ViewFields, FactsSteps
<1>4. /\ facts.started = TRUE /\ facts.intentional_stop = live.facts.intentional_stop
      /\ facts.resume_pending = (live.facts.resume_pending \/ live.facts.intentional_stop)
      /\ facts.gap = live.facts.gap
  BY <1>3 DEF StreamStarted, AllFacts
<1> HIDE DEF facts
<1>5. live' = With(live, "streaming", live.stopping, facts)
  <2>1. live = [store |-> live.store, last_seq |-> live.last_seq, phase |-> live.phase,
                stopping |-> live.stopping, facts |-> live.facts]
    BY <1>1, ViewIs
  <2> QED
    BY <1>2, <2>1 DEF With
<1>6. /\ Steps(live, live') /\ live'.phase = "streaming" /\ live'.stopping = live.stopping
      /\ live'.facts = facts
  BY <1>1, <1>3, <1>5, ViewWith DEF Becomes
<1>7. broken'.streamed = TRUE /\ broken'.gap = broken.gap
      /\ broken' \in [streamed : BOOLEAN, gap : BOOLEAN]
  BY <1>2 DEF CaptureInv, GapInv
<1>8. GapInv(live', broken')
  BY <1>1, <1>4, <1>6, <1>7 DEF CaptureInv, GapInv, Going
<1> QED
  BY <1>1, <1>6, <1>8, ViewSteps DEF CaptureInv

LEMMA StopTold ==
  ASSUME CaptureInv, Stop PROVE CaptureInv'
<1> DEFINE facts == StopRequested(live.facts)
<1>1. /\ live \in Lives /\ live.phase \in {"attempt", "streaming"} /\ sent' = sent
      /\ broken' = broken /\ ~live.stopping
  BY DEF CaptureInv, ViewInv, Stop, Lives
<1>2. live' = [live EXCEPT !.stopping = TRUE, !.facts = facts]
  BY DEF Stop
<1>3. live.facts \in AllFacts /\ SameRecords(live.facts, facts)
  BY <1>1, ViewFields, FactsSteps
<1>4. /\ facts.started = live.facts.started /\ facts.intentional_stop = TRUE
      /\ ~live.facts.intentional_stop => facts.resume_pending = live.facts.started
      /\ facts.gap = live.facts.gap
  BY <1>3 DEF StopRequested, AllFacts
<1> HIDE DEF facts
<1>5. live' = With(live, live.phase, TRUE, facts)
  <2>1. live = [store |-> live.store, last_seq |-> live.last_seq, phase |-> live.phase,
                stopping |-> live.stopping, facts |-> live.facts]
    BY <1>1, ViewIs
  <2> QED
    BY <1>2, <2>1 DEF With
<1>6. /\ Steps(live, live') /\ live'.phase = live.phase /\ live'.stopping = TRUE
      /\ live'.facts = facts
  <2>1. live.phase \in {"idle", "attempt", "streaming"} /\ live.store \in Stores
        /\ live.last_seq \in 0 .. MaxSeq
    BY <1>1 DEF Lives
  <2>2. /\ live'.store = live.store /\ live'.last_seq = live.last_seq /\ live'.phase = live.phase
        /\ live'.stopping = TRUE /\ live'.facts = facts
    BY <1>5 DEF With
  <2>3. live' \in Lives
    BY <1>3, <1>5, <2>1 DEF With, Lives, SameRecords
  <2> QED
    BY <1>3, <2>2, <2>3 DEF Steps
<1>8. GapInv(live', broken')
  BY <1>1, <1>4, <1>6 DEF CaptureInv, GapInv, Going
<1> QED
  BY <1>1, <1>6, <1>8, ViewSteps DEF CaptureInv

LEMMA ExitTold ==
  ASSUME CaptureInv, NEW completed \in BOOLEAN, Exit(completed) PROVE CaptureInv'
<1> DEFINE last == IF completed THEN SnapshotCompleted(live.facts) ELSE live.facts
           facts == FactsExited(last)
<1>1. /\ live \in Lives /\ live.phase \in {"attempt", "streaming"} /\ sent' = sent
      /\ completed => ~live.stopping
  BY DEF CaptureInv, ViewInv, Exit, Lives
<1>2. /\ live' = [live EXCEPT !.phase = "idle", !.stopping = FALSE, !.facts = facts]
      /\ broken' = [broken EXCEPT !.gap = \/ @
                                          \/ live.phase # "streaming"
                                          \/ ~live.stopping /\ ~completed]
  BY DEF Exit
<1>3. live.facts \in AllFacts /\ SameRecords(live.facts, last) /\ SameRecords(live.facts, facts)
  <2>1. live.facts \in AllFacts
    BY <1>1, ViewFields
  <2>2. last \in AllFacts /\ SameRecords(live.facts, last)
    BY <2>1, FactsSteps DEF SameRecords
  <2> HIDE DEF last
  <2>3. SameRecords(last, facts)
    BY <2>2, FactsSteps
  <2> QED
    BY <2>1, <2>2, <2>3 DEF SameRecords
<1>4. /\ facts.resume_pending = (IF completed THEN live.facts.started ELSE live.facts.resume_pending)
      /\ facts.gap = (live.facts.gap \/ ~live.facts.started \/ ~(live.facts.intentional_stop \/ completed))
  <2>1. /\ last \in AllFacts /\ last.started = live.facts.started /\ last.gap = live.facts.gap
        /\ last.intentional_stop = (live.facts.intentional_stop \/ completed)
        /\ last.resume_pending = (IF completed THEN live.facts.started ELSE live.facts.resume_pending)
    BY <1>3 DEF SnapshotCompleted, AllFacts, SameRecords
  <2> HIDE DEF last
  <2> QED
    BY <2>1 DEF FactsExited, AllFacts
<1> HIDE DEF facts, last
<1>5. live' = With(live, "idle", FALSE, facts)
  <2>1. live = [store |-> live.store, last_seq |-> live.last_seq, phase |-> live.phase,
                stopping |-> live.stopping, facts |-> live.facts]
    BY <1>1, ViewIs
  <2> QED
    BY <1>2, <2>1 DEF With
<1>6. /\ Steps(live, live') /\ live'.phase = "idle" /\ live'.stopping = FALSE
      /\ live'.facts = facts
  <2>1. live.store \in Stores /\ live.last_seq \in 0 .. MaxSeq
    BY <1>1 DEF Lives
  <2>2. /\ live'.store = live.store /\ live'.last_seq = live.last_seq /\ live'.phase = "idle"
        /\ live'.stopping = FALSE /\ live'.facts = facts
    BY <1>5 DEF With
  <2>3. live' \in Lives
    BY <1>3, <1>5, <2>1 DEF With, Lives, SameRecords
  <2> QED
    BY <1>3, <2>2, <2>3 DEF Steps
<1>7. /\ broken'.streamed = broken.streamed
      /\ broken'.gap = (broken.gap \/ live.phase # "streaming" \/ (~live.stopping /\ ~completed))
      /\ broken' \in [streamed : BOOLEAN, gap : BOOLEAN]
  BY <1>2 DEF CaptureInv, GapInv
<1>8. GapInv(live', broken')
  BY <1>1, <1>4, <1>6, <1>7 DEF CaptureInv, GapInv, Going
<1> QED
  BY <1>1, <1>6, <1>8, ViewSteps DEF CaptureInv

\* A gap on both sides is told.
LEMMA GapIsTold ==
  ASSUME CaptureInv, NEW phase \in {"idle", "attempt", "streaming"}, NEW stopping \in BOOLEAN,
         NEW facts, SameRecords(live.facts, facts), facts.gap = TRUE,
         live' = With(live, phase, stopping, facts), broken' = [broken EXCEPT !.gap = TRUE],
         sent' = sent
  PROVE  CaptureInv'
<1>1. live \in Lives
  BY DEF CaptureInv, ViewInv
<1>2. /\ Steps(live, live') /\ live'.facts = facts
  BY <1>1, ViewWith DEF Becomes
<1>3. broken'.gap = TRUE /\ broken' \in [streamed : BOOLEAN, gap : BOOLEAN]
  BY DEF CaptureInv, GapInv
<1>4. GapInv(live', broken')
  BY <1>2, <1>3 DEF GapInv
<1> QED
  BY <1>2, <1>4, ViewSteps DEF CaptureInv

LEMMA FaultTold ==
  ASSUME CaptureInv, Fault PROVE CaptureInv'
<1> DEFINE facts == GapNoticed(live.facts)
<1>1. live \in Lives /\ sent' = sent /\ broken' = [broken EXCEPT !.gap = TRUE]
  BY DEF CaptureInv, ViewInv, Fault
<1>2. live' = [live EXCEPT !.stopping = TRUE, !.facts = facts]
  BY DEF Fault
<1>3. /\ live.facts \in AllFacts /\ SameRecords(live.facts, facts) /\ live.stopping \in BOOLEAN
      /\ live.phase \in {"idle", "attempt", "streaming"}
  BY <1>1, ViewFields, FactsSteps
<1>4. facts.gap = TRUE
  BY <1>3 DEF GapNoticed, AllFacts
<1> HIDE DEF facts
<1>5. live' = With(live, live.phase, TRUE, facts)
  <2>1. live = [store |-> live.store, last_seq |-> live.last_seq, phase |-> live.phase,
                stopping |-> live.stopping, facts |-> live.facts]
    BY <1>1, ViewIs
  <2> QED
    BY <1>2, <2>1 DEF With
<1> QED
  BY <1>1, <1>3, <1>4, <1>5, GapIsTold

LEMMA DiscardTold ==
  ASSUME CaptureInv, Discard PROVE CaptureInv'
<1> DEFINE noticed == GapNoticed(live.facts)
           facts == IF live.stopping THEN noticed ELSE StopRequested(noticed)
<1>1. live \in Lives /\ sent' = sent /\ broken' = [broken EXCEPT !.gap = TRUE]
  BY DEF CaptureInv, ViewInv, Discard
<1>2. live' = [live EXCEPT !.stopping = TRUE, !.facts = facts]
  BY DEF Discard
<1>3. /\ live.facts \in AllFacts /\ SameRecords(live.facts, noticed) /\ live.stopping \in BOOLEAN
      /\ live.phase \in {"idle", "attempt", "streaming"}
  BY <1>1, ViewFields, FactsSteps
<1>4. noticed \in AllFacts /\ noticed.gap = TRUE
  BY <1>3 DEF GapNoticed, AllFacts
<1> HIDE DEF noticed
<1>5. SameRecords(noticed, StopRequested(noticed)) /\ StopRequested(noticed).gap = TRUE
  BY <1>4, FactsSteps DEF StopRequested, AllFacts
<1>6. SameRecords(live.facts, facts) /\ facts.gap = TRUE
  BY <1>3, <1>4, <1>5 DEF SameRecords
<1> HIDE DEF facts
<1>7. live' = With(live, live.phase, TRUE, facts)
  <2>1. live = [store |-> live.store, last_seq |-> live.last_seq, phase |-> live.phase,
                stopping |-> live.stopping, facts |-> live.facts]
    BY <1>1, ViewIs
  <2> QED
    BY <1>2, <2>1 DEF With
<1> QED
  BY <1>1, <1>3, <1>6, <1>7, GapIsTold

LEMMA ReceiveTold ==
  ASSUME CaptureInv, Receive PROVE CaptureInv'
<1>1. ViewInv(live, sent) /\ live.last_seq < MaxSeq /\ live.phase = "streaming" /\ broken' = broken
  BY DEF CaptureInv, Receive
<1>2. PICK row \in LiveRows, session \in Sessions :
        LET identity == [session |-> session, seq |-> live.last_seq + 1, in_order |-> TRUE]
            entry == [row EXCEPT !.identity = {identity}]
        IN live' = Received(live, entry) /\ sent' = Append(sent, entry)
  BY DEF Receive
<1> DEFINE entry == Named(row, session, live.last_seq + 1)
<1>3. live' = Received(live, entry) /\ sent' = Append(sent, entry)
  BY <1>2 DEF Named
<1>4. /\ ViewInv(live', sent') /\ live'.phase = live.phase /\ live'.stopping = live.stopping
      /\ live'.facts = [live.facts EXCEPT !.retention_removed = live'.facts.retention_removed]
  <2>1. ReceivesExactly(live, sent, Received(live, entry), entry)
    BY <1>1, ReceivedIsExact
  <2> HIDE DEF entry
  <2> QED
    BY <1>3, <2>1 DEF ReceivesExactly
<1>5. live.facts \in AllFacts
  BY <1>1, ViewFields DEF ViewInv
<1>6. /\ live'.facts.gap = live.facts.gap /\ live'.facts.started = live.facts.started
      /\ live'.facts.intentional_stop = live.facts.intentional_stop
      /\ live'.facts.resume_pending = live.facts.resume_pending
  BY <1>4, <1>5 DEF AllFacts
<1>7. GapInv(live', broken')
  BY <1>1, <1>4, <1>6 DEF CaptureInv, GapInv, Going
<1> QED
  BY <1>4, <1>7 DEF CaptureInv

LEMMA ClearTold ==
  ASSUME CaptureInv, Clear PROVE CaptureInv'
<1> DEFINE len == live.store.len
           facts == [live.facts EXCEPT !.cleared_records = @ + len]
<1>1. /\ live \in Lives /\ sent' = <<>> /\ broken' = broken
      /\ live.last_seq - len = live.facts.retention_removed + live.facts.cleared_records
  BY DEF CaptureInv, ViewInv, Clear
<1>2. live' = [live EXCEPT !.store = NewStore, !.facts = facts]
  BY DEF Clear, ViewCleared
<1>3. /\ live.facts \in AllFacts /\ len \in Nat /\ live.last_seq \in Nat
      /\ live.facts.retention_removed \in Nat /\ live.facts.cleared_records \in Nat
  BY <1>1, ViewNumbers
<1> HIDE DEF len
<1>4. /\ facts \in AllFacts /\ facts.cleared_records = live.facts.cleared_records + len
      /\ facts.retention_removed = live.facts.retention_removed /\ facts.gap = live.facts.gap
      /\ facts.started = live.facts.started /\ facts.intentional_stop = live.facts.intentional_stop
      /\ facts.resume_pending = live.facts.resume_pending
  BY <1>3 DEF AllFacts
<1> HIDE DEF facts
<1>5. live' = [store |-> NewStore, last_seq |-> live.last_seq, phase |-> live.phase,
               stopping |-> live.stopping, facts |-> facts]
  <2>1. live = [store |-> live.store, last_seq |-> live.last_seq, phase |-> live.phase,
                stopping |-> live.stopping, facts |-> live.facts]
    BY <1>1, ViewIs
  <2> QED
    BY <1>2, <2>1
<1>6. /\ live'.store = NewStore /\ live'.last_seq = live.last_seq /\ live'.phase = live.phase
      /\ live'.stopping = live.stopping /\ live'.facts = facts
  BY <1>5
<1>7. GapInv(live', broken')
  BY <1>1, <1>4, <1>6 DEF CaptureInv, GapInv, Going
<1>8. StoreInv(NewStore) /\ Rows(NewStore) = <<>> /\ NewStore.len = 0 /\ NewStore.bytes = 0
  BY NewStoreIsExact DEF NewStore
<1>9. live' \in Lives
  BY <1>1, <1>4, <1>5, <1>8 DEF Lives, StoreInv
<1>10. Numbered(<<>>, live.last_seq) /\ Kept(<<>>, <<>>)
  <2>1. <<>> \in Seq(Entries) /\ Len(<<>>) = 0
    BY EmptySeq
  <2>2. 0 <= live.last_seq /\ \A k \in 1 .. 0 : FALSE
    BY <1>3
  <2>3. Numbered(<<>>, live.last_seq)
    BY <2>1, <2>2 DEF Numbered
  <2> QED
    BY <2>1, <2>3, KeptAll
<1>11. live.last_seq - 0 = facts.retention_removed + facts.cleared_records
  BY <1>1, <1>3, <1>4
<1>12. ViewInv(live', sent')
  BY <1>1, <1>6, <1>8, <1>9, <1>10, <1>11, LiveConstants DEF ViewInv
<1> QED
  BY <1>7, <1>12 DEF CaptureInv

LEMMA FreshTold ==
  ASSUME live' = NewLive, sent' = <<>>, broken' = NewHistory PROVE CaptureInv'
  BY NewLiveIsExact, NewLiveHasNoGap DEF CaptureInv

LEMMA IdleTold ==
  ASSUME CaptureInv, live' = live, sent' = sent, broken' = broken PROVE CaptureInv'
  BY DEF CaptureInv

\* Every step leaves the live view as exact as it was.
LEMMA CaptureSteps ==
  ASSUME CaptureInv, [Next]_vars PROVE CaptureInv'
<1>1. CASE Begin
  BY <1>1, BeginTold
<1>2. CASE Start
  BY <1>2, StartTold
<1>3. CASE Stop
  BY <1>3, StopTold
<1>4. CASE \E completed \in BOOLEAN : Exit(completed)
  <2>1. PICK completed \in BOOLEAN : Exit(completed)
    BY <1>4
  <2> QED
    BY <2>1, ExitTold
<1>5. CASE Fault
  BY <1>5, FaultTold
<1>6. CASE Discard
  BY <1>6, DiscardTold
<1>7. CASE Receive
  BY <1>7, ReceiveTold
<1>8. CASE Clear
  BY <1>8, ClearTold
<1>9. CASE Save \/ Open
  <2>1. live' = live /\ sent' = sent /\ broken' = broken
    BY <1>9 DEF Save, Open, Asks
  <2> QED
    BY <2>1, IdleTold
<1>10. CASE Cancel \/ Build \/ CreateTemporary \/ WriteLines \/ Sync \/ LoadFile \/ GiveUp
  <2>1. live' = live /\ sent' = sent /\ broken' = broken
    BY <1>10 DEF Cancel, Build, CreateTemporary, WriteLines, Sync, LoadFile, GiveUp, Works
  <2> QED
    BY <2>1, IdleTold
<1>11. CASE HardLink
  <2>1. live' = live /\ sent' = sent /\ broken' = broken
    BY <1>11 DEF HardLink, Published, Works
  <2> QED
    BY <2>1, IdleTold
<1>12. CASE PollFiles
  <2>1. \/ live' = live /\ sent' = sent /\ broken' = broken
        \/ live' = NewLive /\ sent' = <<>> /\ broken' = NewHistory
    BY <1>12 DEF PollFiles, Replaced
  <2> QED
    BY <2>1, IdleTold, FreshTold
<1>13. CASE CloseFile
  <2>1. live' = NewLive /\ sent' = <<>> /\ broken' = NewHistory
    BY <1>13 DEF CloseFile, Replaced
  <2> QED
    BY <2>1, FreshTold
<1>14. CASE PutFile \/ Damage
  <2>1. live' = live /\ sent' = sent /\ broken' = broken
    BY <1>14 DEF PutFile, Damage, Meddles
  <2> QED
    BY <2>1, IdleTold
<1>15. CASE Crash
  <2>1. live' = NewLive /\ sent' = <<>> /\ broken' = NewHistory
    BY <1>15 DEF Crash
  <2> QED
    BY <2>1, FreshTold
<1>16. CASE UNCHANGED vars
  <2>1. live' = live /\ sent' = sent /\ broken' = broken
    BY <1>16 DEF vars
  <2> QED
    BY <2>1, IdleTold
<1> QED
  BY <1>1, <1>2, <1>3, <1>4, <1>5, <1>6, <1>7, <1>8, <1>9, <1>10, <1>11, <1>12, <1>13, <1>14,
     <1>15, <1>16 DEF Next

LEMMA CaptureStays == Spec => []CaptureInv
<1>1. Init => CaptureInv
  BY NewLiveIsExact, NewLiveHasNoGap DEF Init, CaptureInv
<1>2. CaptureInv /\ [Next]_vars => CaptureInv'
  BY CaptureSteps
<1> QED
  BY <1>1, <1>2, PTL DEF Spec

\* What the view shows is the end of what was received.
LEMMA ShownIsKept == ASSUME CaptureInv PROVE Rows(live.store) = Shown
<1> DEFINE r == Rows(live.store)
<1>1. /\ live.store \in Stores /\ live.store.len = Len(r) /\ sent \in Seq(Entries) /\ Kept(sent, r)
  BY DEF CaptureInv, ViewInv, StoreInv, TotalsInv, Numbered
<1>2. r \in Seq(Entries)
  BY <1>1, StoreRowsType
<1> HIDE DEF r
<1>3. SubSeq(sent, Len(sent) - Len(r) + 1, Len(sent)) = r
  BY <1>1, <1>2, KeptIsShorter
<1> QED
  BY <1>1, <1>3 DEF Shown, r

\* Trimming to a budget takes rows from the front of the live view, whole chunks
\* and parts of one (log_store.rs, trim_to_bytes): what is left is what was received
\* last, an index still refers to its row, the counters and the budget hold after
\* every record, and what is missing of the session is accounted for.
THEOREM ViewStaysExact == Spec => []StoreIsExact
<1>1. CaptureInv => StoreIsExact
  <2> SUFFICES ASSUME CaptureInv PROVE StoreIsExact
    OBVIOUS
  <2> DEFINE store == live.store
  <2>1. /\ StoreInv(store) /\ store.bytes <= Budget
        /\ live.last_seq - store.len = live.facts.retention_removed + live.facts.cleared_records
    BY DEF CaptureInv, ViewInv
  <2>2. Rows(store) = Shown
    BY ShownIsKept
  <2> HIDE DEF store
  <2>3. IndexIsExact(store)
    BY <2>1, IndicesAreExact
  <2>4. FindsNearest(store)
    BY <2>1, NearestIsFound
  <2>5. CountersAreExact(store)
    <3>1. store.chunks \in Seq(Chunks) /\ TotalsInv(store, Rows(store))
          /\ ChunksInv(store.chunks, store.offset)
      BY <2>1 DEF StoreInv, Stores
    <3>2. DOMAIN store.chunks = 1 .. Len(store.chunks)
      BY <3>1
    <3> QED
      BY <3>1, <3>2 DEF CountersAreExact, TotalsInv, ChunksInv, ChunkInv
  <2> QED
    BY <2>1, <2>2, <2>3, <2>4, <2>5 DEF StoreIsExact, store
<1> QED
  BY <1>1, CaptureStays, PTL

-------------------------------------------------------------------------------
(* Rows as lines.                                                          *)

LEMMA Options ==
  ASSUME NEW S, NEW T \in AtMostOne(S)
  PROVE  T = {} \/ \E s \in S : T = {s}
  BY DEF AtMostOne

LEMMA SourcesWiden ==
  ASSUME NEW T \in AtMostOne({"ps_snapshot", "device_process_cache"})
  PROVE  T \in Sources /\ T \ {"newer"} = T
  BY Options DEF AtMostOne, Sources

LEMMA TypeNames ==
  TypeName("log") = "entry" /\ TypeName("marker") = "event" /\ TypeName("unparsed") = "unparsed"
  BY DEF TypeName

LEMMA WireType ==
  ASSUME NEW entry \in Entries, NEW meta \in Metadata
  PROVE  WireLine(entry, meta) \in WireLines
<1> DEFINE source == IF entry.process_source # {} THEN entry.process_source
                     ELSE IF entry.process # {} THEN meta.process_source ELSE {}
           type == TypeName(entry.kind)
           fields == IF entry.kind = "log" THEN "all" ELSE "none"
<1>1. source \in Sources
  <2>1. entry.process_source \in Sources /\ meta.process_source \in Sources /\ {} \in Sources
    BY SourcesWiden DEF Entries, Metadata, Sources, AtMostOne
  <2> QED
    BY <2>1
<1>2. type \in Types /\ fields \in {"all", "some", "none"}
  <2>1. entry.kind \in {"log", "marker", "unparsed"}
    BY DEF Entries, Kinds
  <2>2. type = "entry" \/ type = "event" \/ type = "unparsed"
    BY <2>1, TypeNames
  <2> QED
    BY <2>2 DEF Types
<1>3. /\ entry.identity \in AtMostOne(Identities) /\ entry.text_loss \in AtMostOne(Losses)
      /\ entry.text \in Texts /\ entry.process \in AtMostOne(Names)
      /\ meta.seq \in 0 .. MaxSeq /\ meta.event_kind \in Events /\ meta.ext \in SUBSET Parents
      /\ meta.reserved \in BOOLEAN
  BY DEF Entries, Metadata
<1>4. WireLine(entry, meta) =
        [layout |-> "wire", current |-> TRUE, type |-> type, seq |-> meta.seq,
         provenance |-> entry.identity, text_loss |-> entry.text_loss, fields |-> fields,
         message |-> entry.text, process |-> entry.process, source |-> source,
         event_kind |-> meta.event_kind, ext |-> meta.ext, reserved |-> meta.reserved]
  BY DEF WireLine
<1> HIDE DEF source, type, fields
<1> QED
  BY <1>1, <1>2, <1>3, <1>4 DEF WireLines

LEMMA CompactType ==
  ASSUME NEW entry \in Entries, NEW meta \in Metadata, NEW payload \in Payloads
  PROVE  CompactLine(entry, meta, payload) \in CompactLines
<1>1. /\ entry.identity \in AtMostOne(Identities) /\ entry.text_loss \in AtMostOne(Losses)
      /\ meta.seq \in 0 .. MaxSeq /\ meta.event_kind \in Events /\ meta.ext \in SUBSET Parents
      /\ meta.reserved \in BOOLEAN
  BY DEF Entries, Metadata
<1> DEFINE type == IF entry.kind = "log" THEN "entry" ELSE "unparsed"
<1>2. type \in Types
  BY DEF Types
<1>3. CompactLine(entry, meta, payload) =
        [layout |-> "compact", current |-> TRUE, type |-> type, seq |-> meta.seq,
         provenance |-> entry.identity, text_loss |-> entry.text_loss, payload |-> payload,
         event_kind |-> meta.event_kind, ext |-> meta.ext, reserved |-> meta.reserved,
         redundant |-> FALSE]
  BY DEF CompactLine
<1> HIDE DEF type
<1> QED
  BY <1>1, <1>2, <1>3 DEF CompactLines

LEMMA LayoutType ==
  ASSUME NEW entry \in Entries, NEW meta \in Metadata
  PROVE  Layout(entry, meta) \in WireLines \cup CompactLines
<1>1. CASE entry.proto = {}
  BY <1>1, WireType DEF Layout
<1>2. CASE entry.proto # {}
  <2>1. PICK payload \in Payloads : entry.proto = {payload}
    BY <1>2, Options DEF Entries
  <2>2. Layout(entry, meta) = CompactLine(entry, meta, payload)
    BY <2>1 DEF Layout
  <2> QED
    BY <2>2, CompactType
<1> QED
  BY <1>1, <1>2

\* A row that a document may hold: what a newer writer called the source of its
\* process is beside the entry, everything else is in it.
RowInv(header, entry, meta, previous) ==
  /\ RowIsValid(header, entry, meta, previous)
  /\ meta.process_source \ {"newer"} \subseteq entry.process_source

\* What a line becomes, and the line of what it became.
ReadsAs(line, header, previous, entry, meta) ==
  /\ DecodeRecord(line, header, previous) = {Row(entry, meta)}
  /\ entry \in Entries /\ meta \in Metadata /\ RowInv(header, entry, meta, previous)
  /\ Layout(entry, meta) = line /\ line.seq = meta.seq

LEMMA WireReads ==
  ASSUME NEW line \in WireLines, NEW header, NEW previous,
         DecodeRecord(line, header, previous) # {}
  PROVE  \E entry, meta : ReadsAs(line, header, previous, entry, meta)
<1> DEFINE kind == CASE line.type = "entry" -> "log" [] line.type = "event" -> "marker"
                     [] OTHER -> "unparsed"
           entry == [kind |-> kind, text |-> line.message, identity |-> line.provenance,
                     process |-> line.process, process_source |-> line.source \ {"newer"},
                     text_loss |-> line.text_loss, proto |-> {}]
           meta == MetaOf(line, line.source)
<1>1. /\ line.layout = "wire" /\ line.current \in BOOLEAN /\ line.type \in Types
      /\ line.seq \in 0 .. MaxSeq /\ line.provenance \in AtMostOne(Identities)
      /\ line.text_loss \in AtMostOne(Losses) /\ line.message \in Texts
      /\ line.process \in AtMostOne(Names) /\ line.source \in Sources
      /\ line.event_kind \in Events /\ line.ext \in SUBSET Parents /\ line.reserved \in BOOLEAN
      /\ line.fields \in {"all", "some", "none"}
  BY DEF WireLines
<1>2. WireRow(line) # {}
  BY <1>1 DEF DecodeRecord
<1>3. /\ WireRow(line) = {Row(entry, meta)}
      /\ line.current /\ line.type \in {"entry", "event", "unparsed"}
      /\ line.type = "entry" => line.fields = "all"
      /\ line.type # "entry" => line.fields = "none" /\ line.process = {}
  BY <1>2 DEF WireRow
<1>4. kind \in Kinds /\ TypeName(kind) = line.type
  <2>1. CASE line.type = "entry"
    BY <2>1, TypeNames DEF Kinds
  <2>2. CASE line.type = "event"
    BY <2>2, TypeNames DEF Kinds
  <2>3. CASE line.type = "unparsed"
    BY <2>3, TypeNames DEF Kinds
  <2> QED
    BY <1>3, <2>1, <2>2, <2>3
<1>5. kind = "log" <=> line.type = "entry"
  BY <1>3, <1>4, TypeNames DEF Kinds
<1> HIDE DEF kind
<1>6. /\ entry.kind = kind /\ entry.text = line.message /\ entry.identity = line.provenance
      /\ entry.process = line.process /\ entry.process_source = line.source \ {"newer"}
      /\ entry.text_loss = line.text_loss /\ entry.proto = {}
      /\ meta.seq = line.seq /\ meta.event_kind = line.event_kind
      /\ meta.process_source = line.source /\ meta.ext = line.ext /\ meta.reserved = line.reserved
  BY DEF MetaOf
<1>7. entry \in Entries
  <2>1. line.source \ {"newer"} \in AtMostOne({"ps_snapshot", "device_process_cache"})
    BY <1>1 DEF Sources, AtMostOne
  <2>2. {} \in AtMostOne(Payloads)
    BY DEF AtMostOne
  <2> QED
    BY <1>1, <1>4, <2>1, <2>2 DEF Entries
<1>8. meta \in Metadata
  BY <1>1 DEF Metadata, MetaOf
<1> HIDE DEF entry, meta
<1>9. RowIsValid(header, entry, meta, previous)
      /\ DecodeRecord(line, header, previous) = {Row(entry, meta)}
  <2>1. DecodeRecord(line, header, previous)
          = {row \in {Row(entry, meta)} : RowIsValid(header, row.entry, row.meta, previous)}
    BY <1>1, <1>3 DEF DecodeRecord
  <2>2. Row(entry, meta).entry = entry /\ Row(entry, meta).meta = meta
    BY DEF Row
  <2> QED
    BY <2>1, <2>2
<1>10. RowInv(header, entry, meta, previous)
  BY <1>6, <1>9 DEF RowInv
<1>11. Layout(entry, meta) = line
  <2> DEFINE source == IF entry.process_source # {} THEN entry.process_source
                       ELSE IF entry.process # {} THEN meta.process_source ELSE {}
             fields == IF entry.kind = "log" THEN "all" ELSE "none"
  <2>1. source = line.source
    <3>1. line.process = {} => line.source = {}
      BY <1>6, <1>9 DEF RowIsValid, RowFits, SourceFits
    <3>2. line.source = {} \/ \E s : line.source = {s}
      BY <1>1, Options DEF Sources
    <3> QED
      BY <1>6, <3>1, <3>2
  <2>2. fields = line.fields /\ line.current = TRUE
    BY <1>1, <1>3, <1>5, <1>6
  <2>3. Layout(entry, meta) =
          [layout |-> "wire", current |-> TRUE, type |-> TypeName(entry.kind), seq |-> meta.seq,
           provenance |-> entry.identity, text_loss |-> entry.text_loss, fields |-> fields,
           message |-> entry.text, process |-> entry.process, source |-> source,
           event_kind |-> meta.event_kind, ext |-> meta.ext, reserved |-> meta.reserved]
    BY <1>6 DEF Layout, WireLine
  <2>4. line =
          [layout |-> "wire", current |-> line.current, type |-> line.type, seq |-> line.seq,
           provenance |-> line.provenance, text_loss |-> line.text_loss, fields |-> line.fields,
           message |-> line.message, process |-> line.process, source |-> line.source,
           event_kind |-> line.event_kind, ext |-> line.ext, reserved |-> line.reserved]
    BY DEF WireLines
  <2> HIDE DEF source, fields
  <2> QED
    BY <1>4, <1>6, <2>1, <2>2, <2>3, <2>4
<1> QED
  BY <1>6, <1>7, <1>8, <1>9, <1>10, <1>11 DEF ReadsAs

\* A payload's row, and what of it may be kept in a line.
LEMMA ProjectType ==
  ASSUME NEW payload \in Payloads
  PROVE  LET row == Project(payload)
         IN /\ row.kind = payload.kind /\ row.text = payload.text /\ row.text_loss = {payload.loss}
            /\ row.kind \in {"log", "unparsed"} /\ row.text \in Texts
            /\ row.process \in AtMostOne(Names) /\ row.proto = {payload}
            /\ row.process_source \in {{}, {"device_process_cache"}}
            /\ row.process_source = {} <=> row.process = {}
            /\ row.kind # "log" => row.process = {}
            /\ payload.loss \in Losses
  BY DEF Project, Payloads, AtMostOne, Losses

LEMMA ProjectInEntries == ASSUME NEW payload \in Payloads PROVE Project(payload) \in Entries
<1> DEFINE row == Project(payload)
<1>1. /\ row.kind \in {"log", "unparsed"} /\ row.text \in Texts /\ row.text_loss = {payload.loss}
      /\ row.process \in AtMostOne(Names) /\ row.proto = {payload} /\ payload.loss \in Losses
      /\ row.process_source \in {{}, {"device_process_cache"}}
  BY ProjectType
<1>2. /\ row.process_source \in AtMostOne({"ps_snapshot", "device_process_cache"})
      /\ row.proto \in AtMostOne(Payloads) /\ row.text_loss \in AtMostOne(Losses)
      /\ {} \in AtMostOne(Identities)
  <2> HIDE DEF row
  <2> QED
    BY <1>1 DEF AtMostOne
<1>3. row = [kind |-> row.kind, text |-> row.text, identity |-> {},
             process |-> row.process, process_source |-> row.process_source,
             text_loss |-> row.text_loss, proto |-> row.proto]
  BY DEF Project
<1> HIDE DEF row
<1> QED
  BY <1>1, <1>2, <1>3 DEF Entries, Kinds, row

LEMMA CompactReads ==
  ASSUME NEW line \in CompactLines, NEW header, NEW previous,
         DecodeRecord(line, header, previous) # {}
  PROVE  \E entry, meta : ReadsAs(line, header, previous, entry, meta)
<1> DEFINE row == Project(line.payload)
           entry == [row EXCEPT !.identity = line.provenance, !.text_loss = line.text_loss]
           meta == MetaOf(line, row.process_source)
<1>1. /\ line.layout = "compact" /\ line.current \in BOOLEAN /\ line.type \in Types
      /\ line.seq \in 0 .. MaxSeq /\ line.provenance \in AtMostOne(Identities)
      /\ line.text_loss \in AtMostOne(Losses) /\ line.payload \in Payloads
      /\ line.event_kind \in Events /\ line.ext \in SUBSET Parents /\ line.reserved \in BOOLEAN
      /\ line.redundant \in BOOLEAN
  BY DEF CompactLines
<1>2. CompactRow(line) # {}
  BY <1>1 DEF DecodeRecord
<1>3. /\ CompactRow(line) = {Row(entry, meta)}
      /\ line.current /\ ~line.redundant /\ line.payload.decodes
      /\ line.type = (IF row.kind = "log" THEN "entry" ELSE "unparsed")
      /\ line.text_loss # {} => line.text_loss = row.text_loss
  BY <1>2 DEF CompactRow
<1>4. /\ row.kind = line.payload.kind /\ row.text = line.payload.text
      /\ row.kind \in {"log", "unparsed"} /\ row.text \in Texts
      /\ row.process \in AtMostOne(Names) /\ row.proto = {line.payload}
      /\ row.process_source \in {{}, {"device_process_cache"}}
  BY <1>1, ProjectType
<1>5. /\ entry.kind = row.kind /\ entry.text = row.text /\ entry.identity = line.provenance
      /\ entry.process = row.process /\ entry.process_source = row.process_source
      /\ entry.text_loss = line.text_loss /\ entry.proto = {line.payload}
      /\ entry \in Entries
  <2>1. row \in Entries
    BY <1>1, ProjectInEntries
  <2> HIDE DEF row
  <2> QED
    BY <1>1, <1>4, <2>1 DEF Entries
<1>6. /\ meta.seq = line.seq /\ meta.event_kind = line.event_kind
      /\ meta.process_source = row.process_source /\ meta.ext = line.ext
      /\ meta.reserved = line.reserved
  BY DEF MetaOf
<1>8. meta \in Metadata
  <2>1. row.process_source \in Sources
    BY <1>4 DEF Sources, AtMostOne
  <2> HIDE DEF row
  <2> QED
    BY <1>1, <2>1 DEF Metadata, MetaOf
<1> HIDE DEF entry, meta
<1>9. RowFits(header, entry, meta, previous)
      /\ DecodeRecord(line, header, previous) = {Row(entry, meta)}
  <2>1. DecodeRecord(line, header, previous)
          = {r \in {Row(entry, meta)} : RowFits(header, r.entry, r.meta, previous)}
    BY <1>1, <1>3 DEF DecodeRecord
  <2>2. Row(entry, meta).entry = entry /\ Row(entry, meta).meta = meta
    BY DEF Row
  <2> QED
    BY <2>1, <2>2
<1>10. RowInv(header, entry, meta, previous)
  <2>1. ProtoFits(entry)
    <3> SUFFICES ASSUME NEW payload \in entry.proto
                 PROVE  /\ payload.decodes
                        /\ entry.kind = Project(payload).kind /\ entry.text = Project(payload).text
                        /\ Project(payload).kind = "log"
                             => entry.process = Project(payload).process
                                /\ entry.process_source = Project(payload).process_source
                        /\ entry.text_loss \subseteq Project(payload).text_loss
      BY DEF ProtoFits
    <3>1. payload = line.payload /\ Project(payload) = row
      BY <1>5
    <3> HIDE DEF row
    <3> QED
      BY <1>3, <1>5, <3>1
  <2> QED
    BY <1>5, <1>6, <1>9, <2>1 DEF RowInv, RowIsValid
<1>11. Layout(entry, meta) = line
  <2> DEFINE type == IF entry.kind = "log" THEN "entry" ELSE "unparsed"
  <2>1. type = line.type /\ line.current = TRUE /\ line.redundant = FALSE
    BY <1>1, <1>3, <1>5
  <2>2. Layout(entry, meta) =
          [layout |-> "compact", current |-> TRUE, type |-> type, seq |-> meta.seq,
           provenance |-> entry.identity, text_loss |-> entry.text_loss, payload |-> line.payload,
           event_kind |-> meta.event_kind, ext |-> meta.ext, reserved |-> meta.reserved,
           redundant |-> FALSE]
    BY <1>5 DEF Layout, CompactLine
  <2>3. line =
          [layout |-> "compact", current |-> line.current, type |-> line.type, seq |-> line.seq,
           provenance |-> line.provenance, text_loss |-> line.text_loss, payload |-> line.payload,
           event_kind |-> line.event_kind, ext |-> line.ext, reserved |-> line.reserved,
           redundant |-> line.redundant]
    BY DEF CompactLines
  <2> HIDE DEF type, row
  <2> QED
    BY <1>5, <1>6, <2>1, <2>2, <2>3
<1> QED
  BY <1>5, <1>6, <1>8, <1>9, <1>10, <1>11 DEF ReadsAs

LEMMA LinesRead ==
  ASSUME NEW line \in WireLines \cup CompactLines, NEW header, NEW previous,
         DecodeRecord(line, header, previous) # {}
  PROVE  \E entry, meta : ReadsAs(line, header, previous, entry, meta)
  BY WireReads, CompactReads


LEMMA SameEntry ==
  ASSUME NEW a \in Entries, NEW b \in Entries,
         a.kind = b.kind, a.text = b.text, a.identity = b.identity, a.process = b.process,
         a.process_source = b.process_source, a.text_loss = b.text_loss, a.proto = b.proto
  PROVE  a = b
  BY DEF Entries

\* A row that is written is read again as it was; what is beside it may be completed
\* from it.
Returns(header, previous, entry, meta) ==
  \E beside : ReadsAs(Layout(entry, meta), header, previous, entry, beside)

LEMMA RowEqual ==
  ASSUME NEW a, NEW b, NEW c, NEW d, {Row(a, b)} = {Row(c, d)}
  PROVE  a = c
<1>1. Row(a, b) = Row(c, d)
  OBVIOUS
<1>2. Row(a, b).entry = a /\ Row(c, d).entry = c
  BY DEF Row
<1> QED
  BY <1>1, <1>2

LEMMA WireReturns ==
  ASSUME NEW entry \in Entries, NEW meta \in Metadata, NEW header, NEW previous,
         RowInv(header, entry, meta, previous), entry.proto = {}
  PROVE  Returns(header, previous, entry, meta)
<1> DEFINE source == IF entry.process_source # {} THEN entry.process_source
                     ELSE IF entry.process # {} THEN meta.process_source ELSE {}
           fields == IF entry.kind = "log" THEN "all" ELSE "none"
           line == WireLine(entry, meta)
           beside == MetaOf(line, line.source)
           kind == CASE line.type = "entry" -> "log" [] line.type = "event" -> "marker"
                     [] OTHER -> "unparsed"
           made == [kind |-> kind, text |-> line.message, identity |-> line.provenance,
                    process |-> line.process, process_source |-> line.source \ {"newer"},
                    text_loss |-> line.text_loss, proto |-> {}]
<1>1. /\ Layout(entry, meta) = line /\ line \in WireLines /\ line.layout = "wire"
      /\ line.current = TRUE /\ line.type = TypeName(entry.kind) /\ line.seq = meta.seq
      /\ line.provenance = entry.identity /\ line.text_loss = entry.text_loss
      /\ line.fields = fields /\ line.message = entry.text /\ line.process = entry.process
      /\ line.source = source /\ line.event_kind = meta.event_kind /\ line.ext = meta.ext
      /\ line.reserved = meta.reserved
  BY WireType DEF Layout, WireLine
<1>2. entry.kind \in {"log", "marker", "unparsed"}
  BY DEF Entries, Kinds
<1> HIDE DEF line, fields
<1>3. kind = entry.kind /\ line.type \in {"entry", "event", "unparsed"}
      /\ (line.type = "entry" <=> entry.kind = "log")
  <2>1. CASE entry.kind = "log"
    BY <1>1, <2>1, TypeNames
  <2>2. CASE entry.kind = "marker"
    BY <1>1, <2>2, TypeNames
  <2>3. CASE entry.kind = "unparsed"
    BY <1>1, <2>3, TypeNames
  <2> QED
    BY <1>2, <2>1, <2>2, <2>3
<1>4. /\ RowFits(header, entry, meta, previous) /\ ProtoFits(entry)
      /\ meta.process_source \ {"newer"} \subseteq entry.process_source
      /\ SourceFits(entry, meta)
  BY DEF RowInv, RowIsValid, RowFits
<1>5. source \ {"newer"} = entry.process_source
      /\ source \subseteq entry.process_source \cup meta.process_source
      /\ (entry.process = {} => source = {})
  <2>1. entry.process_source \ {"newer"} = entry.process_source
    BY SourcesWiden DEF Entries
  <2>2. entry.process = {} => entry.process_source = {} /\ meta.process_source = {}
    BY <1>4 DEF SourceFits
  <2> QED
    BY <1>4, <2>1, <2>2
<1> HIDE DEF source, kind
<1>6. /\ beside.seq = meta.seq /\ beside.event_kind = meta.event_kind
      /\ beside.process_source = source /\ beside.ext = meta.ext /\ beside.reserved = meta.reserved
  BY <1>1 DEF MetaOf
<1>7. made = entry
  <2>1. entry = [kind |-> entry.kind, text |-> entry.text, identity |-> entry.identity,
                 process |-> entry.process, process_source |-> entry.process_source,
                 text_loss |-> entry.text_loss, proto |-> entry.proto]
    BY DEF Entries
  <2> QED
    BY <1>1, <1>3, <1>5, <2>1
<1>8. WireRow(line) = {Row(entry, beside)}
  <2>1. /\ line.type = "entry" => line.fields = "all"
        /\ line.type # "entry" => line.fields = "none" /\ line.process = {}
    BY <1>1, <1>3, <1>4 DEF fields, SourceFits
  <2>2. WireRow(line) = {Row(made, beside)}
    BY <1>1, <1>3, <2>1 DEF WireRow, kind
  <2> QED
    BY <1>7, <2>2
<1> HIDE DEF beside, made
<1>9. RowIsValid(header, entry, beside, previous)
  <2>1. SourceFits(entry, beside)
    BY <1>4, <1>5, <1>6 DEF SourceFits
  <2>2. RowFits(header, entry, beside, previous)
    BY <1>4, <1>6, <2>1 DEF RowFits
  <2> QED
    BY <1>4, <2>2 DEF RowIsValid
<1>10. DecodeRecord(line, header, previous) = {Row(entry, beside)}
  <2>1. DecodeRecord(line, header, previous)
          = {row \in {Row(entry, beside)} : RowIsValid(header, row.entry, row.meta, previous)}
    BY <1>1, <1>8 DEF DecodeRecord
  <2>2. Row(entry, beside).entry = entry /\ Row(entry, beside).meta = beside
    BY DEF Row
  <2> QED
    BY <1>9, <2>1, <2>2
<1>11. PICK e, m : ReadsAs(line, header, previous, e, m)
  BY <1>1, <1>10, WireReads
<1>12. e = entry
  BY <1>10, <1>11, RowEqual DEF ReadsAs
<1> QED
  BY <1>1, <1>11, <1>12 DEF Returns

LEMMA CompactReturns ==
  ASSUME NEW entry \in Entries, NEW meta \in Metadata, NEW header, NEW previous,
         RowInv(header, entry, meta, previous), NEW payload \in Payloads, entry.proto = {payload}
  PROVE  Returns(header, previous, entry, meta)
<1> DEFINE line == CompactLine(entry, meta, payload)
           row == Project(line.payload)
           made == [row EXCEPT !.identity = line.provenance, !.text_loss = line.text_loss]
           beside == MetaOf(line, row.process_source)
<1>1. /\ Layout(entry, meta) = line /\ line.layout = "compact"
      /\ line.current = TRUE /\ line.seq = meta.seq /\ line.redundant = FALSE
      /\ line.type = (IF entry.kind = "log" THEN "entry" ELSE "unparsed")
      /\ line.provenance = entry.identity /\ line.text_loss = entry.text_loss
      /\ line.payload = payload /\ line.event_kind = meta.event_kind /\ line.ext = meta.ext
      /\ line.reserved = meta.reserved
  BY DEF Layout, CompactLine
<1>2. line \in CompactLines
  BY CompactType
<1> HIDE DEF line
<1>3. /\ RowFits(header, entry, meta, previous) /\ ProtoFits(entry) /\ SourceFits(entry, meta)
      /\ meta.ext \cap Orphans(entry) = {}
  BY DEF RowInv, RowIsValid, RowFits
<1>4. /\ row.kind = payload.kind /\ row.text = payload.text /\ row.text_loss = {payload.loss}
      /\ row.proto = {payload} /\ row \in Entries
      /\ row.process_source \in {{}, {"device_process_cache"}}
      /\ row.process_source = {} <=> row.process = {}
      /\ row.kind # "log" => row.process = {}
  BY <1>1, ProjectType, ProjectInEntries
<1>5. /\ payload.decodes /\ entry.kind = row.kind /\ entry.text = row.text
      /\ row.kind = "log" => entry.process = row.process /\ entry.process_source = row.process_source
      /\ entry.text_loss \subseteq row.text_loss
  BY <1>1, <1>3 DEF ProtoFits
<1> HIDE DEF row
<1>6. entry.process = row.process /\ entry.process_source = row.process_source
  BY <1>3, <1>4, <1>5 DEF SourceFits
<1>7. entry.text_loss # {} => entry.text_loss = row.text_loss
  BY <1>4, <1>5
<1>8. made = entry
  <2>1. made \in Entries
    BY <1>1, <1>4 DEF Entries
  <2>2. /\ made.kind = row.kind /\ made.text = row.text /\ made.identity = line.provenance
        /\ made.process = row.process /\ made.process_source = row.process_source
        /\ made.text_loss = line.text_loss /\ made.proto = row.proto
    BY <1>4 DEF Entries
  <2> HIDE DEF made
  <2> QED
    <3>1. /\ made.kind = entry.kind /\ made.text = entry.text /\ made.identity = entry.identity
          /\ made.process = entry.process /\ made.process_source = entry.process_source
          /\ made.text_loss = entry.text_loss /\ made.proto = entry.proto
      BY <1>1, <1>4, <1>5, <1>6, <2>2
    <3> QED
      BY <2>1, <3>1, SameEntry
<1>9. CompactRow(line) = {Row(entry, beside)}
  <2>1. /\ "device_time" \in line.ext => row.kind = "log"
        /\ "process" \in line.ext => row.process # {}
    BY <1>1, <1>3, <1>5, <1>6 DEF Orphans
  <2>2. CompactRow(line) = {Row(made, beside)}
    BY <1>1, <1>5, <1>7, <2>1 DEF CompactRow, row
  <2> QED
    BY <1>8, <2>2
<1>10. /\ beside.seq = meta.seq /\ beside.event_kind = meta.event_kind
       /\ beside.process_source = row.process_source /\ beside.ext = meta.ext
       /\ beside.reserved = meta.reserved
  BY <1>1 DEF MetaOf
<1> HIDE DEF beside, made
<1>11. RowFits(header, entry, beside, previous)
  <2>1. SourceFits(entry, beside)
    BY <1>3, <1>4, <1>6, <1>10 DEF SourceFits
  <2> QED
    BY <1>3, <1>10, <2>1 DEF RowFits
<1>12. DecodeRecord(line, header, previous) = {Row(entry, beside)}
  <2>1. DecodeRecord(line, header, previous)
          = {r \in {Row(entry, beside)} : RowFits(header, r.entry, r.meta, previous)}
    BY <1>1, <1>9 DEF DecodeRecord
  <2>2. Row(entry, beside).entry = entry /\ Row(entry, beside).meta = beside
    BY DEF Row
  <2> QED
    BY <1>11, <2>1, <2>2
<1>13. PICK e, m : ReadsAs(line, header, previous, e, m)
  BY <1>2, <1>12, CompactReads
<1>14. e = entry
  BY <1>12, <1>13, RowEqual DEF ReadsAs
<1> QED
  BY <1>1, <1>13, <1>14 DEF Returns

LEMMA RowsReturn ==
  ASSUME NEW entry \in Entries, NEW meta \in Metadata, NEW header, NEW previous,
         RowInv(header, entry, meta, previous)
  PROVE  Returns(header, previous, entry, meta)
<1>1. entry.proto = {} \/ \E payload \in Payloads : entry.proto = {payload}
  BY Options DEF Entries
<1> QED
  BY <1>1, WireReturns, CompactReturns

-------------------------------------------------------------------------------
(* Reading one line.                                                       *)

LEMMA LineKinds ==
  ASSUME NEW line \in FileLines
  PROVE  /\ line.line \in {"document", "artifact_end", "record", "torn"}
         /\ line.line = "document" => line.header \in Headers /\ line = HeaderLine(line.header)
         /\ line.line = "artifact_end" => line.end \in Ends /\ line = EndLine(line.end)
         /\ line.line = "record" =>
              line.record \in WireLines \cup CompactLines /\ line = RecordLine(line.record)
<1>1. CASE line \in [line : {"document"}, header : Headers]
  BY <1>1 DEF HeaderLine
<1>2. CASE line \in [line : {"artifact_end"}, end : Ends]
  BY <1>2 DEF EndLine
<1>3. CASE line \in [line : {"record"}, record : WireLines \cup CompactLines]
  BY <1>3 DEF RecordLine
<1>4. CASE line = TornLine
  BY <1>4 DEF TornLine
<1> QED
  BY <1>1, <1>2, <1>3, <1>4 DEF FileLines

LEMMA LinesOfFiles ==
  /\ \A h \in Headers : HeaderLine(h) \in FileLines /\ HeaderLine(h).line = "document"
                        /\ HeaderLine(h).header = h
  /\ \A e \in Ends : EndLine(e) \in FileLines /\ EndLine(e).line = "artifact_end"
                     /\ EndLine(e).end = e
  /\ \A r \in WireLines \cup CompactLines :
       RecordLine(r) \in FileLines /\ RecordLine(r).line = "record" /\ RecordLine(r).record = r
  /\ TornLine \in FileLines /\ TornLine.line = "torn"
<1>1. ASSUME NEW h \in Headers
      PROVE  HeaderLine(h) \in FileLines /\ HeaderLine(h).line = "document"
             /\ HeaderLine(h).header = h
  BY DEF HeaderLine, FileLines
<1>2. ASSUME NEW e \in Ends
      PROVE  EndLine(e) \in FileLines /\ EndLine(e).line = "artifact_end" /\ EndLine(e).end = e
  BY DEF EndLine, FileLines
<1>3. ASSUME NEW r \in WireLines \cup CompactLines
      PROVE  RecordLine(r) \in FileLines /\ RecordLine(r).line = "record"
             /\ RecordLine(r).record = r
  BY DEF RecordLine, FileLines
<1>4. TornLine \in FileLines /\ TornLine.line = "torn"
  BY DEF TornLine, FileLines
<1> QED
  BY <1>1, <1>2, <1>3, <1>4

Reader(ok, header, footer, store, metadata) ==
  [ok |-> ok, header |-> header, footer |-> footer, store |-> store, metadata |-> metadata]

Readers ==
  [ok : BOOLEAN, header : AtMostOne(Headers), footer : AtMostOne(Ends), store : Stores,
   metadata : Seq(Metadata)]

LEMMA ReaderIs ==
  ASSUME NEW r \in Readers
  PROVE  /\ r = Reader(r.ok, r.header, r.footer, r.store, r.metadata)
         /\ r.ok \in BOOLEAN /\ r.store \in Stores /\ r.metadata \in Seq(Metadata)
         /\ r.header = {} \/ \E h \in Headers : r.header = {h}
         /\ r.footer = {} \/ \E e \in Ends : r.footer = {e}
<1>1. r = Reader(r.ok, r.header, r.footer, r.store, r.metadata)
  BY DEF Readers, Reader
<1>2. r.ok \in BOOLEAN /\ r.store \in Stores /\ r.metadata \in Seq(Metadata)
      /\ r.header \in AtMostOne(Headers) /\ r.footer \in AtMostOne(Ends)
  BY DEF Readers
<1> QED
  BY <1>1, <1>2, Options

LEMMA ReaderChanges ==
  ASSUME NEW r \in Readers
  PROVE  /\ [r EXCEPT !.ok = FALSE] = Reader(FALSE, r.header, r.footer, r.store, r.metadata)
         /\ \A h : [r EXCEPT !.header = h] = Reader(r.ok, h, r.footer, r.store, r.metadata)
         /\ \A e : [r EXCEPT !.footer = e] = Reader(r.ok, r.header, e, r.store, r.metadata)
         /\ \A s, m : [r EXCEPT !.store = s, !.metadata = m]
                         = Reader(r.ok, r.header, r.footer, s, m)
<1> DEFINE refused == [r EXCEPT !.ok = FALSE]
<1>1. r = [ok |-> r.ok, header |-> r.header, footer |-> r.footer, store |-> r.store,
           metadata |-> r.metadata]
  BY DEF Readers
<1>2. refused = Reader(FALSE, r.header, r.footer, r.store, r.metadata)
  <2>1. /\ refused.ok = FALSE /\ refused.header = r.header /\ refused.footer = r.footer
        /\ refused.store = r.store /\ refused.metadata = r.metadata
    BY <1>1
  <2>2. refused \in Readers
    BY DEF Readers
  <2> HIDE DEF refused
  <2> QED
    BY <2>1, <2>2 DEF Reader, Readers
<1>3. ASSUME NEW h
      PROVE  [r EXCEPT !.header = h] = Reader(r.ok, h, r.footer, r.store, r.metadata)
  BY <1>1 DEF Reader
<1>4. ASSUME NEW e
      PROVE  [r EXCEPT !.footer = e] = Reader(r.ok, r.header, e, r.store, r.metadata)
  BY <1>1 DEF Reader
<1>5. ASSUME NEW s, NEW m
      PROVE  [r EXCEPT !.store = s, !.metadata = m]
               = Reader(r.ok, r.header, r.footer, s, m)
  <2> DEFINE x == [r EXCEPT !.store = s, !.metadata = m]
  <2>1. /\ x.ok = r.ok /\ x.header = r.header /\ x.footer = r.footer /\ x.store = s
        /\ x.metadata = m
    BY <1>1
  <2>2. x \in [ok : BOOLEAN, header : AtMostOne(Headers), footer : AtMostOne(Ends),
               store : Stores \cup {s}, metadata : Seq(Metadata) \cup {m}]
    BY DEF Readers
  <2> HIDE DEF x
  <2>3. x = Reader(r.ok, r.header, r.footer, s, m)
    BY <2>1, <2>2 DEF Reader
  <2> QED
    BY <2>3 DEF x
<1> QED
  BY <1>2, <1>3, <1>4, <1>5

\* The number before the next row's.
Latest(metadata) == IF metadata = <<>> THEN 0 ELSE Last(metadata).seq

Refuses(r, new) == new = Reader(FALSE, r.header, r.footer, r.store, r.metadata)

TakesHeader(r, line, new) ==
  \E h \in Headers :
    /\ line = HeaderLine(h) /\ HeaderIsValid(h) /\ r.header = {}
    /\ new = Reader(TRUE, {h}, {}, r.store, r.metadata)

TakesEnd(r, line, new) ==
  \E h \in Headers, e \in Ends :
    /\ line = EndLine(e) /\ r.header = {h}
    /\ EndIsValid(h, e, e.record_count, e.first_seq, e.last_seq)
    /\ new = Reader(TRUE, {h}, {e}, r.store, r.metadata)

TakesRow(r, line, new) ==
  \E h \in Headers, l \in WireLines \cup CompactLines, entry \in Entries, meta \in Metadata :
    /\ line = RecordLine(l) /\ r.header = {h}
    /\ ReadsAs(l, h, Latest(r.metadata), entry, meta)
    /\ new = Reader(TRUE, {h}, {}, Push(r.store, entry), Append(r.metadata, meta))

LEMMA ReadOutcomes ==
  ASSUME NEW r \in Readers, NEW line \in FileLines
  PROVE  LET new == Read(r, line)
         IN \/ Refuses(r, new)
            \/ /\ r.ok /\ r.footer = {}
               /\ TakesHeader(r, line, new) \/ TakesEnd(r, line, new) \/ TakesRow(r, line, new)
<1> DEFINE header == Only(r.header)
           rows == IF line.line # "record" THEN {}
                   ELSE DecodeRecord(line.record, header, Latest(r.metadata))
           refused == [r EXCEPT !.ok = FALSE]
           new == Read(r, line)
<1>1. /\ r = Reader(r.ok, r.header, r.footer, r.store, r.metadata)
      /\ r.header = {} \/ \E h \in Headers : r.header = {h}
  BY ReaderIs
<1>2. /\ refused = Reader(FALSE, r.header, r.footer, r.store, r.metadata)
      /\ \A h : [r EXCEPT !.header = h] = Reader(r.ok, h, r.footer, r.store, r.metadata)
      /\ \A e : [r EXCEPT !.footer = e] = Reader(r.ok, r.header, e, r.store, r.metadata)
      /\ \A s, m : [r EXCEPT !.store = s, !.metadata = m] = Reader(r.ok, r.header, r.footer, s, m)
  BY ReaderChanges
<1>3. CASE ~r.ok \/ r.footer # {}
  BY <1>2, <1>3 DEF Read, Refuses
<1>4. CASE r.ok /\ r.footer = {} /\ r.header = {}
  <2>1. CASE line.line = "document" /\ HeaderIsValid(line.header)
    <3>1. new = Reader(TRUE, {line.header}, {}, r.store, r.metadata)
      BY <1>2, <1>4, <2>1 DEF Read
    <3>2. line.header \in Headers /\ line = HeaderLine(line.header)
      BY <2>1, LineKinds
    <3> HIDE DEF new
    <3>3. TakesHeader(r, line, new)
      BY <1>4, <2>1, <3>1, <3>2 DEF TakesHeader
    <3> QED
      BY <1>4, <3>3 DEF new
  <2>2. CASE ~(line.line = "document" /\ HeaderIsValid(line.header))
    <3>1. new = refused
      BY <1>4, <2>2 DEF Read
    <3> QED
      BY <1>2, <3>1 DEF Refuses
  <2> QED
    BY <2>1, <2>2
<1>5. CASE r.ok /\ r.footer = {} /\ r.header # {}
  <2>1. PICK h \in Headers : r.header = {h}
    BY <1>1, <1>5
  <2>2. header = h
    BY <2>1 DEF Only
  <2>3. CASE line.line = "artifact_end"
    <3> DEFINE e == line.end
    <3>1. e \in Ends /\ line = EndLine(e)
      BY <2>3, LineKinds
    <3>2. CASE EndIsValid(h, e, e.record_count, e.first_seq, e.last_seq)
      <4>1. new = [r EXCEPT !.footer = {e}]
        BY <1>5, <2>2, <2>3, <3>2 DEF Read
      <4> HIDE DEF e, new
      <4>2. new = Reader(TRUE, {h}, {e}, r.store, r.metadata)
        BY <1>2, <1>5, <2>1, <4>1
      <4>3. TakesEnd(r, line, new)
        BY <2>1, <3>1, <3>2, <4>2 DEF TakesEnd
      <4> QED
        BY <1>5, <4>3 DEF new
    <3>3. CASE ~EndIsValid(h, e, e.record_count, e.first_seq, e.last_seq)
      <4>1. new = refused
        BY <1>5, <2>2, <2>3, <3>3 DEF Read
      <4> QED
        BY <1>2, <4>1 DEF Refuses
    <3> QED
      BY <3>2, <3>3
  <2>4. CASE line.line # "artifact_end" /\ rows = {}
    <3>1. new = refused
      BY <1>5, <2>4 DEF Read, Latest
    <3> QED
      BY <1>2, <3>1 DEF Refuses
  <2>5. CASE line.line # "artifact_end" /\ rows # {}
    <3> DEFINE l == line.record
    <3>1. line.line = "record" /\ rows = DecodeRecord(l, h, Latest(r.metadata))
      BY <2>2, <2>5
    <3>2. l \in WireLines \cup CompactLines /\ line = RecordLine(l)
      BY <3>1, LineKinds
    <3>3. new = [r EXCEPT !.store = Push(r.store, Only(rows).entry),
                          !.metadata = Append(r.metadata, Only(rows).meta)]
      BY <1>5, <2>5 DEF Read, Latest
    <3> HIDE DEF l, rows, new
    <3>4. PICK entry, meta : ReadsAs(l, h, Latest(r.metadata), entry, meta)
      BY <2>5, <3>1, <3>2, LinesRead
    <3>5. Only(rows) = Row(entry, meta) /\ entry \in Entries /\ meta \in Metadata
      BY <3>1, <3>4 DEF ReadsAs, Only
    <3>6. new = Reader(TRUE, {h}, {}, Push(r.store, entry), Append(r.metadata, meta))
      <4>1. Only(rows).entry = entry /\ Only(rows).meta = meta
        BY <3>5 DEF Row
      <4>2. new = [r EXCEPT !.store = Push(r.store, entry), !.metadata = Append(r.metadata, meta)]
        BY <3>3, <4>1
      <4>3. new = Reader(r.ok, r.header, r.footer, Push(r.store, entry), Append(r.metadata, meta))
        BY <1>2, <4>2
      <4> QED
        BY <1>5, <2>1, <4>3
    <3>7. TakesRow(r, line, new)
      BY <2>1, <3>2, <3>4, <3>5, <3>6 DEF TakesRow
    <3> QED
      BY <1>5, <3>7 DEF new
  <2> QED
    BY <2>3, <2>4, <2>5
<1> QED
  BY <1>3, <1>4, <1>5

-------------------------------------------------------------------------------
(* Reading all lines.                                                      *)

Previous(metadata, k) == IF k = 1 THEN 0 ELSE metadata[k - 1].seq

\* Rows, and what is beside them, that a document with a header may hold.
RowsInv(header, rows, metadata) ==
  /\ rows \in Seq(Entries) /\ metadata \in Seq(Metadata) /\ Len(rows) = Len(metadata)
  /\ \A k \in 1 .. Len(rows) : RowInv(header, rows[k], metadata[k], Previous(metadata, k))

LEMMA LatestIsPrevious ==
  ASSUME NEW metadata \in Seq(Metadata)
  PROVE  Latest(metadata) = Previous(metadata, Len(metadata) + 1)
<1>1. Len(metadata) \in Nat /\ (metadata = <<>> <=> Len(metadata) = 0)
  BY LenProperties, EmptySeq
<1> DEFINE n == Len(metadata)
<1>2. (n + 1 = 1 <=> n = 0) /\ (n + 1) - 1 = n
  BY <1>1
<1> QED
  BY <1>1, <1>2 DEF Latest, Previous, Last

LEMMA NoRows == ASSUME NEW header PROVE RowsInv(header, <<>>, <<>>)
<1>1. <<>> \in Seq(Entries) /\ <<>> \in Seq(Metadata) /\ Len(<<>>) = 0
  BY EmptySeq
<1> QED
  BY <1>1 DEF RowsInv

LEMMA OneMoreRow ==
  ASSUME NEW header, NEW rows, NEW metadata, RowsInv(header, rows, metadata),
         NEW entry \in Entries, NEW meta \in Metadata,
         RowInv(header, entry, meta, Latest(metadata))
  PROVE  RowsInv(header, Append(rows, entry), Append(metadata, meta))
<1> DEFINE n == Len(rows)
           a == Append(rows, entry)
           b == Append(metadata, meta)
<1>1. /\ rows \in Seq(Entries) /\ metadata \in Seq(Metadata) /\ n = Len(metadata) /\ n \in Nat
      /\ \A k \in 1 .. n : RowInv(header, rows[k], metadata[k], Previous(metadata, k))
  BY LenProperties DEF RowsInv
<1>2. /\ a \in Seq(Entries) /\ Len(a) = n + 1 /\ a[n + 1] = entry
      /\ \A k \in 1 .. n : a[k] = rows[k]
  BY <1>1, AppendProperties
<1>3. /\ b \in Seq(Metadata) /\ Len(b) = n + 1 /\ b[n + 1] = meta
      /\ \A k \in 1 .. n : b[k] = metadata[k]
  BY <1>1, AppendProperties
<1>4. Latest(metadata) = Previous(metadata, n + 1)
  BY <1>1, LatestIsPrevious
<1> HIDE DEF a, b, n
<1>5. ASSUME NEW k \in 1 .. n + 1 PROVE Previous(b, k) = Previous(metadata, k)
  <2>1. CASE k = 1
    BY <2>1 DEF Previous
  <2>2. CASE k # 1
    <3>1. k - 1 \in 1 .. n
      BY <1>1, <2>2
    <3> QED
      BY <1>3, <2>2, <3>1 DEF Previous
  <2> QED
    BY <2>1, <2>2
<1>6. ASSUME NEW k \in 1 .. n + 1 PROVE RowInv(header, a[k], b[k], Previous(b, k))
  <2>1. CASE k = n + 1
    BY <1>2, <1>3, <1>4, <1>5, <2>1
  <2>2. CASE k \in 1 .. n
    BY <1>1, <1>2, <1>3, <1>5, <2>2
  <2> QED
    BY <1>1, <2>1, <2>2
<1>7. RowsInv(header, a, b)
  BY <1>2, <1>3, <1>6 DEF RowsInv
<1> QED
  BY <1>7 DEF a, b

ReaderInv(r) ==
  /\ r \in Readers /\ StoreInv(r.store)
  /\ r.header = {} => r.footer = {} /\ r.metadata = <<>> /\ Rows(r.store) = <<>>
  /\ \A h \in r.header : HeaderIsValid(h) /\ RowsInv(h, Rows(r.store), r.metadata)

RecordsAre(lines, m, rows, metadata) ==
  /\ Len(metadata) = m
  /\ \A k \in 1 .. m : lines[k + 1] = RecordLine(Layout(rows[k], metadata[k]))

\* What the lines were that a reader accepted: a header, records, perhaps an end.
SeenBegin(lines, n, r) ==
  \E h \in Headers :
    /\ r.header = {h} /\ r.footer = {} /\ n >= 1 /\ lines[1] = HeaderLine(h)
    /\ RecordsAre(lines, n - 1, Rows(r.store), r.metadata)

SeenAll(lines, n, r) ==
  \E h \in Headers, e \in Ends :
    /\ r.header = {h} /\ r.footer = {e} /\ n >= 2
    /\ lines[1] = HeaderLine(h) /\ lines[n] = EndLine(e)
    /\ RecordsAre(lines, n - 2, Rows(r.store), r.metadata)

Seen(lines, n, r) ==
  r.ok => \/ n = 0 /\ r.header = {} /\ r.footer = {}
          \/ SeenBegin(lines, n, r)
          \/ SeenAll(lines, n, r)

LEMMA UnreadIs == ReaderInv(Unread) /\ \A lines : Seen(lines, 0, Unread)
<1>1. StoreInv(NewStore) /\ Rows(NewStore) = <<>>
  BY NewStoreIsExact
<1>2. <<>> \in Seq(Metadata) /\ {} \in AtMostOne(Headers) /\ {} \in AtMostOne(Ends)
  BY EmptySeq DEF AtMostOne
<1>3. NewStore \in Stores
  BY <1>1 DEF StoreInv
<1> HIDE DEF NewStore
<1>4. /\ Unread.header = {} /\ Unread.footer = {} /\ Unread.store = NewStore
      /\ Unread.metadata = <<>>
  BY DEF Unread
<1>5. Unread \in Readers
  BY <1>2, <1>3 DEF Unread, Readers
<1> QED
  BY <1>1, <1>4, <1>5 DEF ReaderInv, Seen

LEMMA RecordsGrow ==
  ASSUME NEW lines, NEW m \in Nat, NEW rows \in Seq(Entries), NEW metadata \in Seq(Metadata),
         Len(rows) = Len(metadata), RecordsAre(lines, m, rows, metadata),
         NEW entry \in Entries, NEW meta \in Metadata,
         lines[m + 2] = RecordLine(Layout(entry, meta))
  PROVE  RecordsAre(lines, m + 1, Append(rows, entry), Append(metadata, meta))
<1> DEFINE a == Append(rows, entry)
           b == Append(metadata, meta)
<1>1. Len(metadata) = m /\ Len(rows) = m
  BY DEF RecordsAre
<1>2. Len(a) = m + 1 /\ a[m + 1] = entry /\ \A k \in 1 .. m : a[k] = rows[k]
  BY <1>1, AppendProperties
<1>3. Len(b) = m + 1 /\ b[m + 1] = meta /\ \A k \in 1 .. m : b[k] = metadata[k]
  BY <1>1, AppendProperties
<1> HIDE DEF a, b
<1>4. ASSUME NEW k \in 1 .. m + 1 PROVE lines[k + 1] = RecordLine(Layout(a[k], b[k]))
  <2>1. CASE k = m + 1
    BY <1>2, <1>3, <2>1
  <2>2. CASE k \in 1 .. m
    BY <1>2, <1>3, <2>2 DEF RecordsAre
  <2> QED
    BY <2>1, <2>2
<1>5. RecordsAre(lines, m + 1, a, b)
  BY <1>3, <1>4 DEF RecordsAre
<1> QED
  BY <1>5 DEF a, b

LEMMA ReadKeeps ==
  ASSUME NEW r, ReaderInv(r), NEW line \in FileLines
  PROVE  ReaderInv(Read(r, line))
<1> DEFINE new == Read(r, line)
<1>1. r \in Readers /\ StoreInv(r.store)
  BY DEF ReaderInv
<1>2. \/ Refuses(r, new)
      \/ TakesHeader(r, line, new) \/ TakesEnd(r, line, new) \/ TakesRow(r, line, new)
  BY <1>1, ReadOutcomes
<1> HIDE DEF new
<1>3. /\ r.ok \in BOOLEAN /\ r.store \in Stores /\ r.metadata \in Seq(Metadata)
      /\ r.header \in AtMostOne(Headers) /\ r.footer \in AtMostOne(Ends)
  BY <1>1 DEF Readers
<1>4. (\A h \in Headers : {h} \in AtMostOne(Headers)) /\ (\A e \in Ends : {e} \in AtMostOne(Ends))
      /\ {} \in AtMostOne(Ends)
  BY DEF AtMostOne
<1>5. CASE Refuses(r, new)
  <2>1. /\ new.header = r.header /\ new.footer = r.footer
        /\ new.store = r.store /\ new.metadata = r.metadata
    BY <1>5 DEF Refuses, Reader
  <2>2. new \in Readers
    BY <1>3, <1>5 DEF Refuses, Reader, Readers
  <2> QED
    BY <2>1, <2>2 DEF ReaderInv, new
<1>6. CASE TakesHeader(r, line, new)
  <2>1. PICK h \in Headers :
          /\ HeaderIsValid(h) /\ r.header = {}
          /\ new = Reader(TRUE, {h}, {}, r.store, r.metadata)
    BY <1>6 DEF TakesHeader
  <2>2. new.header = {h} /\ new.footer = {} /\ new.store = r.store /\ new.metadata = r.metadata
    BY <2>1 DEF Reader
  <2>3. new \in Readers
    BY <1>3, <1>4, <2>1 DEF Reader, Readers
  <2>4. r.metadata = <<>> /\ Rows(r.store) = <<>>
    BY <2>1 DEF ReaderInv
  <2> QED
    BY <1>1, <2>1, <2>2, <2>3, <2>4, NoRows DEF ReaderInv, new
<1>7. CASE TakesEnd(r, line, new)
  <2>1. PICK h \in Headers, e \in Ends :
          r.header = {h} /\ new = Reader(TRUE, {h}, {e}, r.store, r.metadata)
    BY <1>7 DEF TakesEnd
  <2>2. new.header = {h} /\ new.store = r.store /\ new.metadata = r.metadata
    BY <2>1 DEF Reader
  <2>3. new \in Readers
    BY <1>3, <1>4, <2>1 DEF Reader, Readers
  <2> QED
    BY <1>1, <2>1, <2>2, <2>3 DEF ReaderInv, new
<1>8. CASE TakesRow(r, line, new)
  <2>1. PICK h \in Headers, l \in WireLines \cup CompactLines, entry \in Entries, meta \in Metadata :
          /\ r.header = {h} /\ ReadsAs(l, h, Latest(r.metadata), entry, meta)
          /\ new = Reader(TRUE, {h}, {}, Push(r.store, entry), Append(r.metadata, meta))
    BY <1>8 DEF TakesRow
  <2> DEFINE store == Push(r.store, entry)
             metadata == Append(r.metadata, meta)
             rows == Rows(r.store)
  <2>2. new.header = {h} /\ new.store = store /\ new.metadata = metadata
    BY <2>1 DEF Reader
  <2>3. StoreInv(store) /\ Rows(store) = Append(rows, entry)
    BY <1>1, PushIsExact
  <2>4. store \in Stores /\ metadata \in Seq(Metadata)
    BY <1>3, <2>3, AppendProperties DEF StoreInv
  <2>5. new = Reader(TRUE, {h}, {}, store, metadata)
    BY <2>1
  <2>6. HeaderIsValid(h) /\ RowsInv(h, rows, r.metadata)
        /\ RowInv(h, entry, meta, Latest(r.metadata))
    BY <2>1 DEF ReaderInv, ReadsAs
  <2>7. RowsInv(h, Append(rows, entry), metadata)
    BY <2>6, OneMoreRow
  <2> HIDE DEF store, metadata
  <2>8. new \in Readers
    BY <1>4, <2>4, <2>5 DEF Reader, Readers
  <2> QED
    BY <2>2, <2>3, <2>6, <2>7, <2>8 DEF ReaderInv, new
<1> QED
  BY <1>2, <1>5, <1>6, <1>7, <1>8

LEMMA ReadsOn ==
  ASSUME NEW lines \in Seq(FileLines), NEW n \in Nat, n + 1 \in 1 .. Len(lines),
         NEW r, ReaderInv(r), Seen(lines, n, r)
  PROVE  Seen(lines, n + 1, Read(r, lines[n + 1]))
<1> DEFINE line == lines[n + 1]
           new == Read(r, line)
<1>1. line \in FileLines /\ r \in Readers /\ StoreInv(r.store) /\ Len(lines) \in Nat
  BY LenProperties DEF ReaderInv
<1>2. \/ Refuses(r, new)
      \/ /\ r.ok /\ r.footer = {}
         /\ TakesHeader(r, line, new) \/ TakesEnd(r, line, new) \/ TakesRow(r, line, new)
  BY <1>1, ReadOutcomes
<1> HIDE DEF line, new
<1>5. CASE Refuses(r, new)
  <2>1. new.ok = FALSE
    BY <1>5 DEF Refuses, Reader
  <2> QED
    BY <2>1 DEF Seen, new, line
<1>6. CASE r.ok /\ r.footer = {} /\ TakesHeader(r, line, new)
  <2>1. PICK h \in Headers :
          /\ line = HeaderLine(h) /\ r.header = {}
          /\ new = Reader(TRUE, {h}, {}, r.store, r.metadata)
    BY <1>6 DEF TakesHeader
  <2>2. new.header = {h} /\ new.footer = {} /\ new.store = r.store /\ new.metadata = r.metadata
    BY <2>1 DEF Reader
  <2>4. r.metadata = <<>> /\ Rows(r.store) = <<>>
    BY <2>1 DEF ReaderInv
  <2>6. n = 0
    BY <1>6, <2>1 DEF Seen, SeenBegin, SeenAll
  <2>7. RecordsAre(lines, 0, Rows(new.store), new.metadata)
    BY <2>2, <2>4, EmptySeq DEF RecordsAre
  <2>8. n + 1 = 1 /\ (n + 1) - 1 = 0 /\ n + 1 >= 1 /\ lines[1] = HeaderLine(h)
    BY <2>1, <2>6 DEF line
  <2>9. RecordsAre(lines, (n + 1) - 1, Rows(new.store), new.metadata)
    BY <2>7, <2>8
  <2>10. SeenBegin(lines, n + 1, new)
    BY <2>2, <2>8, <2>9 DEF SeenBegin
  <2> QED
    BY <2>10 DEF Seen, new, line
<1>7. CASE r.ok /\ r.footer = {} /\ TakesEnd(r, line, new)
  <2>1. PICK h \in Headers, e \in Ends :
          /\ line = EndLine(e) /\ r.header = {h}
          /\ EndIsValid(h, e, e.record_count, e.first_seq, e.last_seq)
          /\ new = Reader(TRUE, {h}, {e}, r.store, r.metadata)
    BY <1>7 DEF TakesEnd
  <2>2. new.header = {h} /\ new.footer = {e} /\ new.store = r.store /\ new.metadata = r.metadata
    BY <2>1 DEF Reader
  <2>5. SeenBegin(lines, n, r)
    BY <1>7, <2>1 DEF Seen, SeenAll
  <2>6. n >= 1 /\ lines[1] = HeaderLine(h) /\ RecordsAre(lines, n - 1, Rows(r.store), r.metadata)
    BY <2>1, <2>5 DEF SeenBegin
  <2>7. (n + 1) - 2 = n - 1 /\ n + 1 >= 2
    BY <2>6
  <2>8. Seen(lines, n + 1, new)
    BY <2>1, <2>2, <2>6, <2>7 DEF Seen, SeenAll, line
  <2> QED
    BY <2>8 DEF new, line
<1>8. CASE r.ok /\ r.footer = {} /\ TakesRow(r, line, new)
  <2>1. PICK h \in Headers, l \in WireLines \cup CompactLines, entry \in Entries, meta \in Metadata :
          /\ line = RecordLine(l) /\ r.header = {h}
          /\ ReadsAs(l, h, Latest(r.metadata), entry, meta)
          /\ new = Reader(TRUE, {h}, {}, Push(r.store, entry), Append(r.metadata, meta))
    BY <1>8 DEF TakesRow
  <2> DEFINE store == Push(r.store, entry)
             metadata == Append(r.metadata, meta)
             rows == Rows(r.store)
  <2>2. /\ new.header = {h} /\ new.footer = {} /\ new.store = store /\ new.metadata = metadata
    BY <2>1 DEF Reader
  <2>3. StoreInv(store) /\ Rows(store) = Append(rows, entry)
    BY <1>1, PushIsExact
  <2>6. RowsInv(h, rows, r.metadata) /\ Layout(entry, meta) = l
    BY <2>1 DEF ReaderInv, ReadsAs
  <2>8. SeenBegin(lines, n, r)
    BY <1>8, <2>1 DEF Seen, SeenAll
  <2>9. n >= 1 /\ lines[1] = HeaderLine(h) /\ RecordsAre(lines, n - 1, rows, r.metadata)
    BY <2>1, <2>8 DEF SeenBegin
  <2>10. n - 1 \in Nat /\ (n - 1) + 2 = n + 1 /\ (n - 1) + 1 = (n + 1) - 1 /\ n + 1 >= 1
    BY <2>9
  <2>11. RecordsAre(lines, (n + 1) - 1, Append(rows, entry), metadata)
    <3>1. lines[(n - 1) + 2] = RecordLine(Layout(entry, meta))
      BY <2>1, <2>6, <2>10 DEF line
    <3>2. rows \in Seq(Entries) /\ r.metadata \in Seq(Metadata) /\ Len(rows) = Len(r.metadata)
      BY <2>6 DEF RowsInv
    <3>3. RecordsAre(lines, (n - 1) + 1, Append(rows, entry), metadata)
      BY <2>9, <2>10, <3>1, <3>2, RecordsGrow
    <3> QED
      BY <2>10, <3>3
  <2> HIDE DEF store, metadata
  <2>14. Seen(lines, n + 1, new)
    BY <2>2, <2>3, <2>9, <2>10, <2>11 DEF Seen, SeenBegin
  <2> QED
    BY <2>14 DEF new, line
<1> QED
  BY <1>2, <1>5, <1>6, <1>7, <1>8

\* How a file is read, line by line.
ReadRun(lines, run) ==
  /\ run[0] = Unread /\ ReadAll(lines) = run[Len(lines)]
  /\ \A k \in 0 .. Len(lines) : ReaderInv(run[k])
  /\ \A k \in 1 .. Len(lines) : run[k] = Read(run[k - 1], lines[k])

LEMMA ReadRuns ==
  ASSUME NEW lines \in Seq(FileLines)
  PROVE  \E run : ReadRun(lines, run)
<1> DEFINE n == Len(lines)
           T == {r \in Readers : ReaderInv(r)}
           step == [p \in (1 .. n) \X T |-> Read(p[2], lines[p[1]])]
           reader == CHOOSE f : f = [k \in 0 .. n |-> IF k = 0 THEN Unread
                                                      ELSE Read(f[k - 1], lines[k])]
<1>1. n \in Nat /\ Unread \in T /\ \A k \in 1 .. n : lines[k] \in FileLines
  BY LenProperties, UnreadIs DEF ReaderInv
<1>2. ReadAll(lines) = reader[n]
  BY Zenon DEF ReadAll
<1>3. \A k \in 1 .. n, x \in T : step[<<k, x>>] = Read(x, lines[k]) /\ Read(x, lines[k]) \in T
  <2> TAKE k \in 1 .. n, x \in T
  <2>1. ReaderInv(Read(x, lines[k]))
    BY <1>1, ReadKeeps
  <2>2. Read(x, lines[k]) \in T
    BY <2>1 DEF ReaderInv
  <2> QED
    BY <2>2
<1>4. \A x \in T : ReaderInv(x)
  OBVIOUS
<1> HIDE DEF n, T, step
<1>5. ASSUME NEW g, IsRun(n, T, Unread, step, g) PROVE Goes(n, T, Unread, step, reader)
  <2>1. g = [k \in 0 .. n |-> IF k = 0 THEN Unread ELSE Read(g[k - 1], lines[k])]
    <3>1. ASSUME NEW k \in 0 .. n
          PROVE  g[k] = IF k = 0 THEN Unread ELSE Read(g[k - 1], lines[k])
      <4>1. CASE k = 0
        BY <1>5, <4>1 DEF IsRun
      <4>2. CASE k # 0
        <5>1. k \in 1 .. n /\ k - 1 \in 0 .. n
          BY <1>1, <4>2
        <5>2. g[k] = step[<<k, g[k - 1]>>] /\ g[k - 1] \in T
          BY <1>5, <5>1 DEF IsRun
        <5> QED
          BY <1>3, <4>2, <5>1, <5>2
      <4> QED
        BY <4>1, <4>2
    <3>2. g = [k \in 0 .. n |-> g[k]]
      BY <1>5 DEF IsRun
    <3> QED
      BY <3>1, <3>2
  <2>2. reader = [k \in 0 .. n |-> IF k = 0 THEN Unread ELSE Read(reader[k - 1], lines[k])]
    BY <2>1
  <2> HIDE DEF reader
  <2>3. \A k \in 0 .. n : reader[k] = IF k = 0 THEN Unread ELSE Read(reader[k - 1], lines[k])
    BY <2>2
  <2>4. \A k \in 1 .. n : k \in 0 .. n /\ k # 0
    BY <1>1
  <2>5. reader = [k \in 0 .. n |-> reader[k]] /\ reader[0] = Unread
    BY <1>1, <2>2, <2>3
  <2>6. ASSUME NEW k \in 1 .. n, reader[k - 1] \in T
        PROVE  reader[k] = step[<<k, reader[k - 1]>>]
    <3>1. reader[k] = Read(reader[k - 1], lines[k])
      BY <2>3, <2>4
    <3> QED
      BY <1>3, <2>6, <3>1
  <2> QED
    BY <2>5, <2>6 DEF Goes
<1> HIDE DEF reader
<1>6. IsRun(n, T, Unread, step, reader)
  <2>1. StepsIn(n, T, step)
    BY <1>3 DEF StepsIn
  <2> QED
    BY <1>1, <1>5, <2>1, Recursion
<1>7. \A k \in 1 .. n : reader[k] = Read(reader[k - 1], lines[k])
  <2> TAKE k \in 1 .. n
  <2>1. k - 1 \in 0 .. n
    BY <1>1
  <2>2. reader[k - 1] \in T
    BY <1>6, <2>1 DEF IsRun
  <2> QED
    BY <1>3, <1>6, <2>2 DEF IsRun
<1>8. \A k \in 0 .. n : ReaderInv(reader[k])
  BY <1>4, <1>6 DEF IsRun
<1>9. ReadRun(lines, reader)
  BY <1>2, <1>6, <1>7, <1>8 DEF IsRun, ReadRun, n
<1> QED
  BY <1>9

LEMMA ReadAllSees ==
  ASSUME NEW lines \in Seq(FileLines)
  PROVE  ReaderInv(ReadAll(lines)) /\ Seen(lines, Len(lines), ReadAll(lines))
<1>1. PICK run : ReadRun(lines, run)
  BY ReadRuns
<1>2. Len(lines) \in Nat
  BY LenProperties
<1> DEFINE seen == {k \in Nat : k <= Len(lines) => Seen(lines, k, run[k])}
<1>3. 0 \in seen
  BY <1>1, UnreadIs DEF ReadRun
<1>4. ASSUME NEW k \in Nat, k \in seen PROVE k + 1 \in seen
  <2> SUFFICES ASSUME k + 1 <= Len(lines) PROVE Seen(lines, k + 1, run[k + 1])
    OBVIOUS
  <2>1. k \in 0 .. Len(lines) /\ k + 1 \in 1 .. Len(lines) /\ (k + 1) - 1 = k /\ k <= Len(lines)
    BY <1>2
  <2>2. Seen(lines, k, run[k])
    BY <1>4, <2>1
  <2>3. ReaderInv(run[k]) /\ run[k + 1] = Read(run[k], lines[k + 1])
    BY <1>1, <2>1 DEF ReadRun
  <2> QED
    BY <2>1, <2>2, <2>3, ReadsOn
<1> HIDE DEF seen
<1>5. Len(lines) \in seen
  BY <1>2, <1>3, <1>4, Induction
<1>6. Seen(lines, Len(lines), run[Len(lines)])
  BY <1>2, <1>5 DEF seen
<1>7. Len(lines) \in 0 .. Len(lines)
  BY <1>2
<1> QED
  BY <1>1, <1>6, <1>7 DEF ReadRun

Docs == [header : Headers, entries : Stores, metadata : Seq(Metadata), end : Ends]

\* A document as validate_cancellable accepts it, kept in a sound store.
DocInv(d) ==
  /\ d \in Docs /\ StoreInv(d.entries)
  /\ HeaderIsValid(d.header) /\ RowsInv(d.header, EntriesOf(d), d.metadata)
  /\ EndIsValid(d.header, d.end, Len(d.metadata), First(d.metadata), Final(d.metadata))

\* A file with the lines of a document.
LinesOf(d, lines) ==
  /\ Len(lines) = Len(d.metadata) + 2
  /\ lines[1] = HeaderLine(d.header) /\ lines[Len(d.metadata) + 2] = EndLine(d.end)
  /\ RecordsAre(lines, Len(d.metadata), EntriesOf(d), d.metadata)

\* What is loaded is sound, and the file holds exactly it: a file that load accepts
\* is what write_snapshot writes of the document it gave (document.rs).
THEOREM LoadedIsTheFile ==
  ASSUME NEW lines \in Seq(FileLines), Load(lines) # {}
  PROVE  \E d : Load(lines) = {d} /\ DocInv(d) /\ LinesOf(d, lines)
<1> DEFINE r == ReadAll(lines)
           d == Document(Only(r.header), r.store, r.metadata, Only(r.footer))
<1>1. ReaderInv(r) /\ Seen(lines, Len(lines), r) /\ Len(lines) \in Nat
  BY ReadAllSees, LenProperties
<1>2. /\ r.ok /\ r.header # {} /\ r.footer # {} /\ Load(lines) = {d}
      /\ EndIsValid(Only(r.header), Only(r.footer), Len(r.metadata), First(r.metadata),
                    Final(r.metadata))
  BY DEF Load
<1>3. SeenAll(lines, Len(lines), r)
  BY <1>1, <1>2 DEF Seen, SeenBegin
<1>4. PICK h \in Headers, e \in Ends :
        /\ r.header = {h} /\ r.footer = {e} /\ Len(lines) >= 2
        /\ lines[1] = HeaderLine(h) /\ lines[Len(lines)] = EndLine(e)
        /\ RecordsAre(lines, Len(lines) - 2, Rows(r.store), r.metadata)
  BY <1>3 DEF SeenAll
<1>5. Only(r.header) = h /\ Only(r.footer) = e
  BY <1>4 DEF Only
<1> HIDE DEF r
<1>6. d.header = h /\ d.entries = r.store /\ d.metadata = r.metadata /\ d.end = e
  BY <1>5 DEF Document
<1>7. d \in Docs
  <2>1. r.store \in Stores /\ r.metadata \in Seq(Metadata)
    BY <1>1 DEF ReaderInv, Readers
  <2> QED
    BY <1>5, <2>1 DEF Docs, Document
<1> HIDE DEF d
<1>8. DocInv(d)
  BY <1>1, <1>2, <1>4, <1>5, <1>6, <1>7 DEF DocInv, ReaderInv, EntriesOf
<1>9. Len(d.metadata) = Len(lines) - 2 /\ Len(d.metadata) + 2 = Len(lines)
  BY <1>1, <1>4, <1>6 DEF RecordsAre
<1>10. LinesOf(d, lines)
  BY <1>4, <1>6, <1>9 DEF LinesOf, EntriesOf
<1> QED
  BY <1>2, <1>8, <1>10

-------------------------------------------------------------------------------
(* The lines of a document.                                                *)

LEMMA DocParts ==
  ASSUME NEW d, DocInv(d)
  PROVE  /\ d.header \in Headers /\ d.entries \in Stores /\ d.metadata \in Seq(Metadata)
         /\ d.end \in Ends /\ EntriesOf(d) \in Seq(Entries)
         /\ Len(d.metadata) \in Nat /\ Len(EntriesOf(d)) = Len(d.metadata)
         /\ \A k \in 1 .. Len(d.metadata) :
              /\ EntriesOf(d)[k] \in Entries /\ d.metadata[k] \in Metadata
              /\ RowInv(d.header, EntriesOf(d)[k], d.metadata[k], Previous(d.metadata, k))
<1>1. /\ d.header \in Headers /\ d.entries \in Stores /\ d.metadata \in Seq(Metadata)
      /\ d.end \in Ends
  BY DEF DocInv, Docs
<1>2. /\ EntriesOf(d) \in Seq(Entries) /\ Len(EntriesOf(d)) = Len(d.metadata)
      /\ \A k \in 1 .. Len(EntriesOf(d)) :
           RowInv(d.header, EntriesOf(d)[k], d.metadata[k], Previous(d.metadata, k))
  BY DEF DocInv, RowsInv
<1>3. Len(d.metadata) \in Nat
  BY <1>1, LenProperties
<1> QED
  BY <1>1, <1>2, <1>3

LEMMA LinesAre ==
  ASSUME NEW d, DocInv(d)
  PROVE  Lines(d) \in Seq(FileLines) /\ LinesOf(d, Lines(d))
<1> DEFINE rows == EntriesOf(d)
           m == Len(d.metadata)
           records == [k \in DOMAIN rows |-> RecordLine(Layout(rows[k], d.metadata[k]))]
           first == <<HeaderLine(d.header)>>
           last == <<EndLine(d.end)>>
           begin == first \o records
           lines == begin \o last
<1>1. /\ d.header \in Headers /\ d.end \in Ends /\ rows \in Seq(Entries) /\ m \in Nat
      /\ Len(rows) = m
      /\ \A k \in 1 .. m : rows[k] \in Entries /\ d.metadata[k] \in Metadata
  BY DocParts
<1>2. Lines(d) = lines
  BY DEF Lines
<1>3. records = [k \in 1 .. m |-> RecordLine(Layout(rows[k], d.metadata[k]))]
  BY <1>1
<1> HIDE DEF records
<1>4. records \in Seq(FileLines) /\ Len(records) = m
      /\ \A k \in 1 .. m : records[k] = RecordLine(Layout(rows[k], d.metadata[k]))
  <2>1. ASSUME NEW k \in 1 .. m PROVE RecordLine(Layout(rows[k], d.metadata[k])) \in FileLines
    BY <1>1, LayoutType, LinesOfFiles
  <2>2. records \in [1 .. m -> FileLines]
    BY <1>3, <2>1
  <2>3. records \in Seq(FileLines)
    BY <1>1, <2>2, SeqDef
  <2> QED
    BY <1>1, <1>3, <2>2, <2>3, LenProperties
<1>5. /\ first \in Seq(FileLines) /\ Len(first) = 1 /\ first[1] = HeaderLine(d.header)
      /\ last \in Seq(FileLines) /\ Len(last) = 1 /\ last[1] = EndLine(d.end)
  BY <1>1, LinesOfFiles
<1> HIDE DEF first, last, rows, m
<1>6. /\ begin \in Seq(FileLines) /\ Len(begin) = m + 1 /\ begin[1] = HeaderLine(d.header)
      /\ \A k \in 1 .. m : begin[k + 1] = records[k]
  <2>1. begin \in Seq(FileLines) /\ Parts(1, m, first, records, begin) /\ Len(begin) = 1 + m
    <3>1. /\ begin \in Seq(FileLines) /\ Len(begin) = Len(first) + Len(records)
          /\ Parts(Len(first), Len(records), first, records, begin)
      BY <1>4, <1>5, PartsOf
    <3> HIDE DEF begin
    <3> QED
      BY <1>4, <1>5, <3>1
  <2>2. begin[1] = first[1]
    <3>1. 1 \in 1 .. 1
      OBVIOUS
    <3> HIDE DEF begin
    <3> QED
      BY <2>1, <3>1 DEF Parts
  <2>3. ASSUME NEW k \in 1 .. m PROVE begin[k + 1] = records[k]
    <3>1. k + 1 \in 1 + 1 .. 1 + m /\ (k + 1) - 1 = k
      BY <1>1
    <3> QED
      BY <2>1, <3>1 DEF Parts
  <2>4. Len(begin) = m + 1
    BY <1>1, <2>1
  <2> HIDE DEF begin
  <2> QED
    BY <1>5, <2>1, <2>2, <2>3, <2>4
<1> HIDE DEF begin
<1>7. /\ lines \in Seq(FileLines) /\ Len(lines) = m + 2 /\ lines[1] = HeaderLine(d.header)
      /\ lines[m + 2] = EndLine(d.end)
      /\ \A k \in 1 .. m : lines[k + 1] = begin[k + 1]
  <2>1. /\ lines \in Seq(FileLines) /\ Parts(m + 1, 1, begin, last, lines)
        /\ Len(lines) = (m + 1) + 1
    <3>1. /\ lines \in Seq(FileLines) /\ Len(lines) = Len(begin) + Len(last)
          /\ Parts(Len(begin), Len(last), begin, last, lines)
      BY <1>5, <1>6, PartsOf
    <3> HIDE DEF lines
    <3> QED
      BY <1>5, <1>6, <3>1
  <2>2. /\ 1 \in 1 .. m + 1 /\ (\A k \in 1 .. m : k + 1 \in 1 .. m + 1) /\ (m + 1) + 1 = m + 2
        /\ m + 2 \in (m + 1) + 1 .. (m + 1) + 1 /\ (m + 2) - (m + 1) = 1
    BY <1>1
  <2>3. lines[m + 2] = last[(m + 2) - (m + 1)] /\ \A k \in 1 .. m + 1 : lines[k] = begin[k]
    BY <2>1, <2>2 DEF Parts
  <2> QED
    BY <1>5, <1>6, <2>1, <2>2, <2>3
<1>8. RecordsAre(lines, m, rows, d.metadata)
  BY <1>4, <1>6, <1>7 DEF RecordsAre, m
<1>9. LinesOf(d, lines)
  BY <1>7, <1>8 DEF LinesOf, m, rows
<1> QED
  BY <1>2, <1>7, <1>9

\* A file with the lines of a document is the file it writes.
LEMMA FileIsLines ==
  ASSUME NEW d, DocInv(d), NEW lines \in Seq(FileLines), LinesOf(d, lines)
  PROVE  lines = Lines(d)
<1> DEFINE own == Lines(d)
           m == Len(d.metadata)
<1>1. own \in Seq(FileLines) /\ LinesOf(d, own) /\ m \in Nat
  BY LinesAre, DocParts
<1>2. Len(own) = m + 2 /\ Len(lines) = m + 2
  BY <1>1 DEF LinesOf
<1> HIDE DEF own
<1>3. ASSUME NEW k \in 1 .. m + 2 PROVE lines[k] = own[k]
  <2>1. CASE k = 1 \/ k = m + 2
    BY <1>1, <2>1 DEF LinesOf
  <2>2. CASE ~(k = 1 \/ k = m + 2)
    <3>1. k - 1 \in 1 .. m /\ (k - 1) + 1 = k
      BY <1>1, <2>2
    <3> QED
      BY <1>1, <3>1 DEF LinesOf, RecordsAre
  <2> QED
    BY <2>1, <2>2
<1> HIDE DEF m
<1> QED
  BY <1>1, <1>2, <1>3, SeqEqual DEF own

\* The same rows, numbered alike.
Follows(d, k, r) ==
  /\ Len(r.metadata) = k /\ Len(Rows(r.store)) = k
  /\ \A i \in 1 .. k : Rows(r.store)[i] = EntriesOf(d)[i] /\ r.metadata[i].seq = d.metadata[i].seq

Following(d, k, r) ==
  r.ok = TRUE /\ r.header = {d.header} /\ r.footer = {} /\ Follows(d, k, r)

LEMMA TakesHeaderOf ==
  ASSUME NEW h \in Headers, HeaderIsValid(h)
  PROVE  Read(Unread, HeaderLine(h)) = Reader(TRUE, {h}, {}, NewStore, <<>>)
<1>1. Unread \in Readers
  BY UnreadIs DEF ReaderInv
<1>2. /\ Unread.ok = TRUE /\ Unread.header = {} /\ Unread.footer = {} /\ Unread.store = NewStore
      /\ Unread.metadata = <<>>
  BY DEF Unread
<1>3. HeaderLine(h).line = "document" /\ HeaderLine(h).header = h
  BY LinesOfFiles
<1>4. Read(Unread, HeaderLine(h)) = [Unread EXCEPT !.header = {h}]
  BY <1>2, <1>3 DEF Read
<1>5. [Unread EXCEPT !.header = {h}] = Reader(Unread.ok, {h}, Unread.footer, Unread.store, Unread.metadata)
  BY <1>1, ReaderChanges
<1> QED
  BY <1>2, <1>4, <1>5

Awaits(r, h) == r.ok = TRUE /\ r.footer = {} /\ r.header = {h}

Took(r, h, l, entry, meta) ==
  Read(r, RecordLine(l)) = Reader(TRUE, {h}, {}, Push(r.store, entry), Append(r.metadata, meta))

LEMMA TakesRowOf ==
  ASSUME NEW r \in Readers, NEW h, Awaits(r, h),
         NEW l \in WireLines \cup CompactLines, NEW entry, NEW meta,
         ReadsAs(l, h, Latest(r.metadata), entry, meta)
  PROVE  Took(r, h, l, entry, meta)
<1> DEFINE line == RecordLine(l)
           rows == IF line.line # "record" THEN {}
                   ELSE DecodeRecord(line.record, Only(r.header), Latest(r.metadata))
<1>1. line.line = "record" /\ line.record = l
  BY LinesOfFiles
<1>2. Only(r.header) = h /\ r.ok = TRUE /\ r.footer = {} /\ r.header = {h}
  BY DEF Only, Awaits
<1> HIDE DEF line
<1>3. rows = {Row(entry, meta)}
  BY <1>1, <1>2 DEF ReadsAs
<1>4. rows # {} /\ Only(rows).entry = entry /\ Only(rows).meta = meta
  <2> HIDE DEF rows
  <2>1. rows # {} /\ Only(rows) = Row(entry, meta)
    BY <1>3 DEF Only
  <2> QED
    BY <2>1 DEF Row
<1>5. Read(r, line) = [r EXCEPT !.store = Push(r.store, Only(rows).entry),
                                !.metadata = Append(r.metadata, Only(rows).meta)]
  BY <1>1, <1>2, <1>4 DEF Read, Latest
<1> HIDE DEF rows
<1>6. Read(r, line) = [r EXCEPT !.store = Push(r.store, entry), !.metadata = Append(r.metadata, meta)]
  BY <1>4, <1>5
<1>7. \A s, m : [r EXCEPT !.store = s, !.metadata = m] = Reader(r.ok, r.header, r.footer, s, m)
  BY ReaderChanges
<1>8. Read(r, line) = Reader(r.ok, r.header, r.footer, Push(r.store, entry), Append(r.metadata, meta))
  BY <1>6, <1>7
<1> QED
  BY <1>2, <1>8 DEF line, Took

LEMMA TakesEndOf ==
  ASSUME NEW r \in Readers, NEW h, r.ok = TRUE, r.footer = {}, r.header = {h}, NEW e \in Ends,
         EndIsValid(h, e, e.record_count, e.first_seq, e.last_seq)
  PROVE  Read(r, EndLine(e)) = Reader(TRUE, {h}, {e}, r.store, r.metadata)
<1>1. EndLine(e).line = "artifact_end" /\ EndLine(e).end = e
  BY LinesOfFiles
<1>2. Only(r.header) = h
  BY DEF Only
<1>3. Read(r, EndLine(e)) = [r EXCEPT !.footer = {e}]
  BY <1>1, <1>2 DEF Read
<1>4. [r EXCEPT !.footer = {e}] = Reader(r.ok, r.header, {e}, r.store, r.metadata)
  BY ReaderChanges
<1> QED
  BY <1>3, <1>4

LEMMA LatestFollows ==
  ASSUME NEW d, NEW k \in Nat, NEW r \in Readers, Follows(d, k, r)
  PROVE  Latest(r.metadata) = Previous(d.metadata, k + 1)
<1>1. r.metadata \in Seq(Metadata) /\ Len(r.metadata) = k
  BY DEF Readers, Follows
<1>2. Latest(r.metadata) = Previous(r.metadata, k + 1)
  BY <1>1, LatestIsPrevious
<1>3. CASE k = 0
  BY <1>2, <1>3 DEF Previous
<1>4. CASE k # 0
  <2>1. k \in 1 .. k /\ (k + 1) - 1 = k /\ k + 1 # 1
    BY <1>4
  <2> QED
    BY <1>2, <2>1 DEF Previous, Follows
<1> QED
  BY <1>3, <1>4

LEMMA FollowsOn ==
  ASSUME NEW d, DocInv(d), NEW k \in Nat, k + 1 <= Len(d.metadata),
         NEW r, ReaderInv(r), Following(d, k, r)
  PROVE  Following(d, k + 1, Read(r, RecordLine(Layout(EntriesOf(d)[k + 1], d.metadata[k + 1]))))
<1> DEFINE entry == EntriesOf(d)[k + 1]
           meta == d.metadata[k + 1]
           l == Layout(entry, meta)
           rows == Rows(r.store)
<1>1. /\ entry \in Entries /\ meta \in Metadata /\ d.header \in Headers
      /\ RowInv(d.header, entry, meta, Previous(d.metadata, k + 1))
  <2>1. k + 1 \in 1 .. Len(d.metadata)
    BY DocParts
  <2> QED
    BY <2>1, DocParts
<1>2. /\ r \in Readers /\ StoreInv(r.store) /\ r.ok = TRUE /\ r.header = {d.header}
      /\ r.footer = {} /\ Follows(d, k, r)
  BY DEF ReaderInv, Following
<1>3. Latest(r.metadata) = Previous(d.metadata, k + 1)
  BY <1>2, LatestFollows
<1> HIDE DEF entry, meta
<1>4. l \in WireLines \cup CompactLines
  BY <1>1, LayoutType
<1>5. PICK beside : ReadsAs(l, d.header, Latest(r.metadata), entry, beside)
  BY <1>1, <1>3, RowsReturn DEF Returns
<1> HIDE DEF l
<1>6. Read(r, RecordLine(l))
        = Reader(TRUE, {d.header}, {}, Push(r.store, entry), Append(r.metadata, beside))
  <2>1. r \in Readers /\ Awaits(r, d.header)
    BY <1>2 DEF Awaits
  <2> QED
    <3>1. Took(r, d.header, l, entry, beside)
      BY <1>4, <1>5, <2>1, TakesRowOf
    <3> QED
      BY <3>1 DEF Took
<1> DEFINE new == Read(r, RecordLine(l))
           store == Push(r.store, entry)
           metadata == Append(r.metadata, beside)
<1>7. Rows(store) = Append(rows, entry)
  BY <1>1, <1>2, PushIsExact
<1>8. /\ new.ok = TRUE /\ new.header = {d.header} /\ new.footer = {} /\ new.store = store
      /\ new.metadata = metadata
  BY <1>6 DEF Reader
<1>9. /\ rows \in Seq(Entries) /\ r.metadata \in Seq(Metadata) /\ beside \in Metadata
      /\ beside.seq = meta.seq
  <2>1. r.store \in Stores /\ r.metadata \in Seq(Metadata)
    BY <1>2 DEF Readers
  <2>2. beside \in Metadata /\ l.seq = beside.seq
    BY <1>5 DEF ReadsAs
  <2>3. l.seq = meta.seq
    <3>1. l = WireLine(entry, meta) \/ \E p : l = CompactLine(entry, meta, p)
      BY DEF Layout, l
    <3> QED
      BY <3>1 DEF WireLine, CompactLine
  <2> QED
    BY <2>1, <2>2, <2>3, StoreRowsType
<1> HIDE DEF new, store, rows
<1>10. /\ Len(rows) = k /\ Len(r.metadata) = k
       /\ \A i \in 1 .. k : rows[i] = EntriesOf(d)[i] /\ r.metadata[i].seq = d.metadata[i].seq
  BY <1>2 DEF Follows, rows
<1>11. /\ Len(Rows(store)) = k + 1 /\ Rows(store)[k + 1] = entry
       /\ \A i \in 1 .. k : Rows(store)[i] = rows[i]
  BY <1>1, <1>7, <1>9, <1>10, AppendProperties
<1>12. /\ Len(metadata) = k + 1 /\ metadata[k + 1] = beside
       /\ \A i \in 1 .. k : metadata[i] = r.metadata[i]
  BY <1>9, <1>10, AppendProperties
<1> HIDE DEF metadata
<1>13. ASSUME NEW i \in 1 .. k + 1
       PROVE  Rows(store)[i] = EntriesOf(d)[i] /\ metadata[i].seq = d.metadata[i].seq
  <2>1. CASE i = k + 1
    BY <1>9, <1>11, <1>12, <2>1 DEF entry, meta
  <2>2. CASE i \in 1 .. k
    BY <1>10, <1>11, <1>12, <2>2
  <2> QED
    BY <2>1, <2>2
<1>14. Following(d, k + 1, new)
  BY <1>8, <1>11, <1>12, <1>13 DEF Following, Follows
<1> QED
  BY <1>14 DEF new, l, entry, meta

\* What was written is read as the same header, rows and end: load undoes
\* write_snapshot for every document that is sound (document.rs).
THEOREM WrittenLoads ==
  ASSUME NEW d, DocInv(d)
  PROVE  \E d2 : /\ Load(Lines(d)) = {d2} /\ d2.header = d.header /\ d2.end = d.end
                 /\ EntriesOf(d2) = EntriesOf(d)
<1> DEFINE lines == Lines(d)
           m == Len(d.metadata)
<1>1. lines \in Seq(FileLines) /\ LinesOf(d, lines) /\ m \in Nat
  BY LinesAre, DocParts
<1>2. PICK run : ReadRun(lines, run)
  BY <1>1, ReadRuns
<1> HIDE DEF lines
<1>3. Len(lines) = m + 2 /\ lines[1] = HeaderLine(d.header) /\ lines[m + 2] = EndLine(d.end)
      /\ \A k \in 1 .. m : lines[k + 1] = RecordLine(Layout(EntriesOf(d)[k], d.metadata[k]))
  BY <1>1 DEF LinesOf, RecordsAre
<1> HIDE DEF m
<1>4. /\ run[0] = Unread /\ ReadAll(lines) = run[m + 2]
      /\ \A k \in 0 .. m + 2 : ReaderInv(run[k])
      /\ \A k \in 1 .. m + 2 : run[k] = Read(run[k - 1], lines[k])
  BY <1>2, <1>3 DEF ReadRun
<1> DEFINE follows == {k \in Nat : k <= m => Following(d, k, run[k + 1])}
<1>5. 0 \in follows
  <2>1. 1 \in 1 .. m + 2 /\ 1 - 1 = 0
    BY <1>1
  <2>2. run[1] = Read(Unread, HeaderLine(d.header))
    BY <1>3, <1>4, <2>1
  <2>3. d.header \in Headers /\ HeaderIsValid(d.header)
    BY DocParts DEF DocInv
  <2>4. run[1] = Reader(TRUE, {d.header}, {}, NewStore, <<>>)
    BY <2>2, <2>3, TakesHeaderOf
  <2>5. Rows(NewStore) = <<>> /\ Len(<<>>) = 0
    BY NewStoreIsExact, EmptySeq
  <2> HIDE DEF NewStore
  <2>6. Following(d, 0, run[1])
    BY <2>4, <2>5 DEF Reader, Following, Follows
  <2> QED
    BY <2>6
<1>6. ASSUME NEW k \in Nat, k \in follows PROVE k + 1 \in follows
  <2> SUFFICES ASSUME k + 1 <= m PROVE Following(d, k + 1, run[k + 1 + 1])
    OBVIOUS
  <2>1. /\ k <= m /\ k + 1 \in 0 .. m + 2 /\ k + 1 + 1 \in 1 .. m + 2
        /\ (k + 1 + 1) - 1 = k + 1 /\ k + 1 \in 1 .. m
    BY <1>1
  <2>2. Following(d, k, run[k + 1])
    BY <1>6, <2>1
  <2>3. ReaderInv(run[k + 1]) /\ run[k + 1 + 1] = Read(run[k + 1], lines[k + 1 + 1])
    BY <1>4, <2>1
  <2>4. lines[k + 1 + 1] = RecordLine(Layout(EntriesOf(d)[k + 1], d.metadata[k + 1]))
    BY <1>3, <2>1
  <2> QED
    BY <2>2, <2>3, <2>4, FollowsOn DEF m
<1> HIDE DEF follows
<1>7. m \in follows
  BY <1>1, <1>5, <1>6, Induction
<1> DEFINE r == run[m + 1]
<1>8. Following(d, m, r) /\ ReaderInv(r) /\ run[m + 2] = Read(r, EndLine(d.end))
  <2>1. m + 1 \in 0 .. m + 2 /\ m + 2 \in 1 .. m + 2 /\ (m + 2) - 1 = m + 1
    BY <1>1
  <2> QED
    BY <1>1, <1>3, <1>4, <1>7, <2>1 DEF follows
<1> HIDE DEF r
<1>9. /\ r \in Readers /\ r.ok = TRUE /\ r.header = {d.header} /\ r.footer = {} /\ Follows(d, m, r)
  BY <1>8 DEF Following, ReaderInv
<1>10. /\ d.end \in Ends /\ EntriesOf(d) \in Seq(Entries) /\ Len(EntriesOf(d)) = m
       /\ d.metadata \in Seq(Metadata)
       /\ EndIsValid(d.header, d.end, m, First(d.metadata), Final(d.metadata))
  BY DocParts DEF DocInv, m
<1>11. EndIsValid(d.header, d.end, d.end.record_count, d.end.first_seq, d.end.last_seq)
  BY <1>10 DEF EndIsValid
<1>12. ReadAll(lines) = Reader(TRUE, {d.header}, {d.end}, r.store, r.metadata)
  BY <1>4, <1>8, <1>9, <1>10, <1>11, TakesEndOf
<1>13. Rows(r.store) = EntriesOf(d)
  <2>1. r.store \in Stores
    BY <1>9 DEF Readers
  <2>2. /\ Rows(r.store) \in Seq(Entries) /\ Len(Rows(r.store)) = m
        /\ \A i \in 1 .. m : Rows(r.store)[i] = EntriesOf(d)[i]
    BY <1>9, <2>1, StoreRowsType DEF Follows
  <2> QED
    BY <1>10, <2>2, SeqEqual
<1>14. First(r.metadata) = First(d.metadata) /\ Final(r.metadata) = Final(d.metadata)
       /\ Len(r.metadata) = m
  <2>1. /\ r.metadata \in Seq(Metadata) /\ Len(r.metadata) = m
        /\ \A i \in 1 .. m : r.metadata[i].seq = d.metadata[i].seq
    BY <1>9 DEF Follows, Readers
  <2>2. (r.metadata = <<>> <=> m = 0) /\ (d.metadata = <<>> <=> m = 0)
    BY <1>10, <2>1, EmptySeq DEF m
  <2>3. m # 0 => 1 \in 1 .. m /\ m \in 1 .. m
    BY <1>1
  <2> QED
    BY <2>1, <2>2, <2>3 DEF First, Final, m
<1> DEFINE d2 == Document(d.header, r.store, r.metadata, d.end)
<1>15. Load(lines) = {d2}
  <2> DEFINE a == ReadAll(lines)
  <2>1. /\ a.ok = TRUE /\ a.header = {d.header} /\ a.footer = {d.end} /\ a.store = r.store
        /\ a.metadata = r.metadata
    BY <1>12 DEF Reader
  <2>2. Only(a.header) = d.header /\ Only(a.footer) = d.end
    BY <2>1 DEF Only
  <2>3. EndIsValid(Only(a.header), Only(a.footer), Len(a.metadata), First(a.metadata), Final(a.metadata))
    BY <1>10, <1>14, <2>1, <2>2
  <2> HIDE DEF a
  <2>4. Load(lines) = {Document(Only(a.header), a.store, a.metadata, Only(a.footer))}
    <3>1. a.ok /\ a.header # {} /\ a.footer # {}
      BY <2>1
    <3> QED
      BY <2>3, <3>1 DEF Load, a
  <2> QED
    BY <2>1, <2>2, <2>4
<1>16. d2.header = d.header /\ d2.end = d.end /\ EntriesOf(d2) = EntriesOf(d)
  BY <1>13 DEF Document, EntriesOf
<1> QED
  BY <1>15, <1>16 DEF lines

-------------------------------------------------------------------------------
(* Damaged files.                                                          *)

\* What the lines of a document have in common: a header, records in order of
\* their numbers, an end that counts them.
Shaped(l) ==
  /\ Len(l) >= 2 /\ l[1].line = "document" /\ l[Len(l)].line = "artifact_end"
  /\ \A k \in 2 .. Len(l) - 1 : l[k].line = "record"
  /\ \A k \in 2 .. Len(l) - 2 : l[k].record.seq < l[k + 1].record.seq
  /\ l[Len(l)].end.record_count = Len(l) - 2

LEMMA LayoutSeq ==
  ASSUME NEW entry, NEW meta
  PROVE  Layout(entry, meta).seq = meta.seq
<1> DEFINE l == Layout(entry, meta)
<1>1. l = WireLine(entry, meta) \/ \E p : l = CompactLine(entry, meta, p)
  BY DEF Layout
<1> HIDE DEF l
<1>2. l.seq = meta.seq
  BY <1>1 DEF WireLine, CompactLine
<1> QED
  BY <1>2 DEF l

LEMMA DocumentsAreShaped ==
  ASSUME NEW d, DocInv(d), NEW lines \in Seq(FileLines), LinesOf(d, lines)
  PROVE  Shaped(lines)
<1> DEFINE m == Len(d.metadata)
<1>1. /\ m \in Nat /\ d.header \in Headers /\ d.end \in Ends
      /\ \A k \in 1 .. m : /\ EntriesOf(d)[k] \in Entries /\ d.metadata[k] \in Metadata
                           /\ RowInv(d.header, EntriesOf(d)[k], d.metadata[k], Previous(d.metadata, k))
  BY DocParts
<1>2. d.end.record_count = m
  BY DEF DocInv, EndIsValid
<1>3. /\ Len(lines) = m + 2 /\ lines[1] = HeaderLine(d.header) /\ lines[m + 2] = EndLine(d.end)
      /\ \A k \in 1 .. m : lines[k + 1] = RecordLine(Layout(EntriesOf(d)[k], d.metadata[k]))
  BY DEF LinesOf, RecordsAre
<1> HIDE DEF m
<1>4. /\ lines[1].line = "document" /\ lines[m + 2].line = "artifact_end"
      /\ lines[m + 2].end.record_count = m
  BY <1>1, <1>2, <1>3, LinesOfFiles
<1>5. ASSUME NEW k \in 1 .. m
      PROVE  lines[k + 1].line = "record" /\ lines[k + 1].record.seq = d.metadata[k].seq
  <2>1. Layout(EntriesOf(d)[k], d.metadata[k]) \in WireLines \cup CompactLines
    BY <1>1, LayoutType
  <2>2. lines[k + 1].line = "record" /\ lines[k + 1].record = Layout(EntriesOf(d)[k], d.metadata[k])
    BY <1>3, <2>1, LinesOfFiles
  <2> QED
    BY <2>2, LayoutSeq
<1>6. ASSUME NEW k \in 1 .. m - 1 PROVE d.metadata[k].seq < d.metadata[k + 1].seq
  <2>1. k + 1 \in 1 .. m /\ k \in 1 .. m /\ k + 1 # 1 /\ (k + 1) - 1 = k
    BY <1>1
  <2>2. d.metadata[k].seq \in 0 .. MaxSeq /\ d.metadata[k + 1].seq \in 0 .. MaxSeq
    BY <1>1, <2>1 DEF Metadata
  <2>3. d.metadata[k + 1].seq > Previous(d.metadata, k + 1)
    BY <1>1, <2>1 DEF RowInv, RowIsValid, RowFits
  <2> QED
    BY <2>1, <2>2, <2>3, LiveConstants DEF Previous
<1>7. ASSUME NEW k \in 2 .. Len(lines) - 1 PROVE lines[k].line = "record"
  <2>1. k - 1 \in 1 .. m /\ (k - 1) + 1 = k
    BY <1>1, <1>3
  <2> QED
    BY <1>5, <2>1
<1>8. ASSUME NEW k \in 2 .. Len(lines) - 2 PROVE lines[k].record.seq < lines[k + 1].record.seq
  <2>1. k - 1 \in 1 .. m - 1 /\ (k - 1) + 1 = k /\ k - 1 \in 1 .. m /\ k \in 1 .. m
    BY <1>1, <1>3
  <2>2. lines[k].record.seq = d.metadata[k - 1].seq /\ lines[k + 1].record.seq = d.metadata[k].seq
    BY <1>5, <2>1
  <2>3. d.metadata[k - 1].seq < d.metadata[k].seq
    BY <1>6, <2>1
  <2> QED
    BY <2>2, <2>3
<1> QED
  BY <1>1, <1>3, <1>4, <1>7, <1>8 DEF Shaped

\* The first lines of a file, and those from one on.
FrontIs(s, k, front) == Len(front) = k /\ \A i \in 1 .. k : front[i] = s[i]

BackIs(s, k, back) ==
  Len(back) = Len(s) - k + 1 /\ \A i \in 1 .. Len(s) - k + 1 : back[i] = s[k + i - 1]

LEMMA Fronts ==
  ASSUME NEW S, NEW s \in Seq(S), NEW k \in 0 .. Len(s)
  PROVE  SubSeq(s, 1, k) \in Seq(S) /\ FrontIs(s, k, SubSeq(s, 1, k))
<1>1. Len(s) \in Nat /\ k \in Nat /\ \A i \in 1 .. k : s[i] \in S /\ 1 + i - 1 = i
  BY LenProperties
<1>2. k - 1 + 1 = k /\ (IF 1 <= k THEN k - 1 + 1 ELSE 0) = k
  BY <1>1
<1>3. /\ SubSeq(s, 1, k) \in Seq(S) /\ Len(SubSeq(s, 1, k)) = k
      /\ \A i \in 1 .. k : SubSeq(s, 1, k)[i] = s[1 + i - 1]
  BY <1>1, <1>2, SubSeqProperties
<1> QED
  BY <1>1, <1>3 DEF FrontIs

LEMMA Backs ==
  ASSUME NEW S, NEW s \in Seq(S), NEW k \in 1 .. Len(s) + 1
  PROVE  SubSeq(s, k, Len(s)) \in Seq(S) /\ BackIs(s, k, SubSeq(s, k, Len(s)))
<1> DEFINE n == Len(s)
<1>1. n \in Nat /\ k \in Nat /\ \A i \in k .. n : s[i] \in S
  BY LenProperties
<1>2. (IF k <= n THEN n - k + 1 ELSE 0) = n - k + 1
  BY <1>1
<1> HIDE DEF n
<1>3. /\ SubSeq(s, k, n) \in Seq(S) /\ Len(SubSeq(s, k, n)) = n - k + 1
      /\ \A i \in 1 .. n - k + 1 : SubSeq(s, k, n)[i] = s[k + i - 1]
  BY <1>1, <1>2, SubSeqProperties
<1> QED
  BY <1>3 DEF BackIs, n

LEMMA LostLine ==
  ASSUME NEW S, NEW s \in Seq(S), NEW k \in 1 .. Len(s)
  PROVE  LET b == RemoveAt(s, k)
         IN /\ b \in Seq(S) /\ Len(b) = Len(s) - 1
            /\ \A i \in 1 .. k - 1 : b[i] = s[i]
            /\ \A i \in k .. Len(s) - 1 : b[i] = s[i + 1]
<1> DEFINE n == Len(s)
           front == SubSeq(s, 1, k - 1)
           back == SubSeq(s, k + 1, n)
           b == front \o back
<1>1. n \in Nat /\ k - 1 \in 0 .. n /\ k + 1 \in 1 .. n + 1
  BY LenProperties
<1>2. front \in Seq(S) /\ FrontIs(s, k - 1, front) /\ back \in Seq(S) /\ BackIs(s, k + 1, back)
  BY <1>1, Fronts, Backs
<1> HIDE DEF front, back
<1>3. /\ b \in Seq(S) /\ Len(b) = Len(front) + Len(back)
      /\ Parts(Len(front), Len(back), front, back, b)
  BY <1>2, PartsOf
<1>4. Len(front) = k - 1 /\ Len(back) = n - k
  BY <1>1, <1>2 DEF FrontIs, BackIs
<1> HIDE DEF b
<1>5. ASSUME NEW i \in 1 .. k - 1 PROVE b[i] = s[i]
  BY <1>2, <1>3, <1>4 DEF Parts, FrontIs
<1>6. ASSUME NEW i \in k .. n - 1 PROVE b[i] = s[i + 1]
  <2>1. i \in (k - 1) + 1 .. (k - 1) + (n - k) /\ i - (k - 1) \in 1 .. n - (k + 1) + 1
        /\ k + 1 + (i - (k - 1)) - 1 = i + 1
    BY <1>1
  <2>2. b[i] = back[i - (k - 1)]
    BY <1>3, <1>4, <2>1 DEF Parts
  <2>3. back[i - (k - 1)] = s[k + 1 + (i - (k - 1)) - 1]
    BY <1>2, <2>1 DEF BackIs, n
  <2> QED
    BY <2>1, <2>2, <2>3
<1>7. Len(b) = n - 1
  BY <1>1, <1>3, <1>4
<1>8. RemoveAt(s, k) = b
  BY DEF RemoveAt, b, front, back
<1> QED
  BY <1>3, <1>5, <1>6, <1>7, <1>8

LEMMA RepeatedLine ==
  ASSUME NEW S, NEW s \in Seq(S), NEW k \in 1 .. Len(s)
  PROVE  LET b == InsertAt(s, k, s[k])
         IN /\ b \in Seq(S) /\ Len(b) = Len(s) + 1
            /\ \A i \in 1 .. k : b[i] = s[i]
            /\ \A i \in k + 1 .. Len(s) + 1 : b[i] = s[i - 1]
<1> DEFINE n == Len(s)
           front == SubSeq(s, 1, k - 1)
           mid == <<s[k]>>
           back == SubSeq(s, k, n)
           begin == front \o mid
           b == begin \o back
<1>1. n \in Nat /\ k \in Nat /\ k - 1 \in 0 .. n /\ k \in 1 .. n + 1
  BY LenProperties
<1>2. front \in Seq(S) /\ FrontIs(s, k - 1, front) /\ back \in Seq(S) /\ BackIs(s, k, back)
  BY <1>1, Fronts, Backs
<1>3. mid \in Seq(S) /\ Len(mid) = 1 /\ mid[1] = s[k]
  OBVIOUS
<1> HIDE DEF front, back, mid
<1>4. Len(front) = k - 1 /\ Len(back) = n - k + 1
  BY <1>1, <1>2 DEF FrontIs, BackIs
<1>5. /\ begin \in Seq(S) /\ Len(begin) = Len(front) + Len(mid)
      /\ Parts(Len(front), Len(mid), front, mid, begin)
  BY <1>2, <1>3, PartsOf
<1> HIDE DEF begin
<1>6. /\ b \in Seq(S) /\ Len(b) = Len(begin) + Len(back)
      /\ Parts(Len(begin), Len(back), begin, back, b)
  BY <1>2, <1>5, PartsOf
<1> HIDE DEF b
<1>7. Len(begin) = k /\ Len(b) = n + 1
  BY <1>1, <1>3, <1>4, <1>5, <1>6
<1>8. ASSUME NEW i \in 1 .. k PROVE b[i] = s[i]
  <2>1. b[i] = begin[i]
    BY <1>6, <1>7 DEF Parts
  <2>2. CASE i = k
    <3>1. k \in (k - 1) + 1 .. (k - 1) + 1 /\ k - (k - 1) = 1
      BY <1>1
    <3>2. begin[k] = mid[k - (k - 1)]
      BY <1>3, <1>4, <1>5, <3>1 DEF Parts
    <3> QED
      BY <1>3, <2>1, <2>2, <3>1, <3>2
  <2>3. CASE i # k
    <3>1. i \in 1 .. k - 1
      BY <1>1, <2>3
    <3> QED
      BY <1>2, <1>4, <1>5, <2>1, <3>1 DEF Parts, FrontIs
  <2> QED
    BY <2>2, <2>3
<1>9. ASSUME NEW i \in k + 1 .. n + 1 PROVE b[i] = s[i - 1]
  <2>1. i \in k + 1 .. k + (n - k + 1) /\ i - k \in 1 .. n - k + 1 /\ k + (i - k) - 1 = i - 1
    BY <1>1
  <2>2. b[i] = back[i - k]
    BY <1>4, <1>6, <1>7, <2>1 DEF Parts
  <2>3. back[i - k] = s[k + (i - k) - 1]
    BY <1>2, <2>1 DEF BackIs, n
  <2> QED
    BY <2>1, <2>2, <2>3
<1>10. InsertAt(s, k, s[k]) = b
  BY DEF InsertAt, b, begin, front, mid, back
<1> QED
  BY <1>6, <1>7, <1>8, <1>9, <1>10

-------------------------------------------------------------------------------
(* Files whose lines were changed.                                        *)

LEMMA ShapedLines ==
  ASSUME NEW s \in Seq(FileLines), Shaped(s)
  PROVE  LET n == Len(s)
         IN /\ n \in Nat /\ n >= 2 /\ s[1].line = "document" /\ s[n].line = "artifact_end"
            /\ s[n].end.record_count = n - 2
            /\ \A k \in 1 .. n : s[k] \in FileLines
            /\ \A k \in 2 .. n - 1 : s[k].line = "record" /\ s[k].record.seq \in 0 .. MaxSeq
            /\ \A k \in 2 .. n - 2 : s[k].record.seq < s[k + 1].record.seq
            /\ \A k \in 1 .. n : k # 1 => s[k].line # "document"
            /\ \A k \in 1 .. n : k # n => s[k].line # "artifact_end"
<1> DEFINE n == Len(s)
<1>1. n \in Nat /\ \A k \in 1 .. n : s[k] \in FileLines
  BY LenProperties
<1>2. /\ n >= 2 /\ s[1].line = "document" /\ s[n].line = "artifact_end"
      /\ s[n].end.record_count = n - 2
      /\ \A k \in 2 .. n - 1 : s[k].line = "record"
      /\ \A k \in 2 .. n - 2 : s[k].record.seq < s[k + 1].record.seq
  BY DEF Shaped
<1> HIDE DEF n
<1>3. ASSUME NEW k \in 2 .. n - 1 PROVE s[k].record.seq \in 0 .. MaxSeq
  <2>1. s[k] \in FileLines /\ s[k].line = "record"
    BY <1>1, <1>2
  <2>2. s[k].record \in WireLines \cup CompactLines
    BY <2>1, LineKinds
  <2> QED
    BY <2>2 DEF WireLines, CompactLines
<1>4. ASSUME NEW k \in 1 .. n, k # 1 PROVE s[k].line # "document"
  <2>1. k = n \/ k \in 2 .. n - 1
    BY <1>1, <1>4
  <2> QED
    BY <1>2, <2>1
<1>5. ASSUME NEW k \in 1 .. n, k # n PROVE s[k].line # "artifact_end"
  <2>1. k = 1 \/ k \in 2 .. n - 1
    BY <1>1, <1>5
  <2> QED
    BY <1>2, <2>1
<1> QED
  BY <1>1, <1>2, <1>3, <1>4, <1>5 DEF n

LEMMA LostIsShapeless ==
  ASSUME NEW s \in Seq(FileLines), Shaped(s), NEW k \in 1 .. Len(s)
  PROVE  RemoveAt(s, k) \in Seq(FileLines) /\ ~Shaped(RemoveAt(s, k))
<1> DEFINE n == Len(s)
           b == RemoveAt(s, k)
<1>1. /\ n \in Nat /\ n >= 2 /\ s[n].end.record_count = n - 2
      /\ \A i \in 1 .. n : i # n => s[i].line # "artifact_end"
  BY ShapedLines
<1>2. /\ b \in Seq(FileLines) /\ Len(b) = n - 1
      /\ \A i \in 1 .. k - 1 : b[i] = s[i]
      /\ \A i \in k .. n - 1 : b[i] = s[i + 1]
  BY LostLine
<1> HIDE DEF n, b
<1>3. k \in 1 .. n
  BY DEF n
<1>4. CASE k = n
  <2>1. n - 1 \in 1 .. k - 1 /\ n - 1 \in 1 .. n /\ n - 1 # n
    BY <1>1, <1>4
  <2>2. b[Len(b)].line # "artifact_end"
    BY <1>1, <1>2, <2>1
  <2> QED
    BY <1>2, <2>2 DEF Shaped, b
<1>5. CASE k # n
  <2>1. n - 1 \in k .. n - 1 /\ (n - 1) + 1 = n
    BY <1>1, <1>3, <1>5
  <2>2. b[Len(b)].end.record_count = n - 2 /\ n - 2 # Len(b) - 2
    BY <1>1, <1>2, <2>1
  <2>3. ~Shaped(b)
    BY <2>2 DEF Shaped
  <2> QED
    BY <1>2, <2>3 DEF b
<1> QED
  BY <1>4, <1>5

LEMMA RepeatedIsShapeless ==
  ASSUME NEW s \in Seq(FileLines), Shaped(s), NEW k \in 1 .. Len(s)
  PROVE  InsertAt(s, k, s[k]) \in Seq(FileLines) /\ ~Shaped(InsertAt(s, k, s[k]))
<1> DEFINE n == Len(s)
           b == InsertAt(s, k, s[k])
<1>1. n \in Nat /\ n >= 2 /\ s[n].end.record_count = n - 2
  BY ShapedLines
<1>2. /\ b \in Seq(FileLines) /\ Len(b) = n + 1
      /\ \A i \in k + 1 .. n + 1 : b[i] = s[i - 1]
  BY RepeatedLine
<1> HIDE DEF n, b
<1>3. k \in 1 .. n
  BY DEF n
<1>4. n + 1 \in k + 1 .. n + 1 /\ (n + 1) - 1 = n
  BY <1>1, <1>3
<1>5. b[Len(b)].end.record_count = n - 2 /\ n - 2 # Len(b) - 2
  BY <1>1, <1>2, <1>4
<1>6. ~Shaped(b)
  BY <1>5 DEF Shaped
<1> QED
  BY <1>2, <1>6 DEF b

LEMMA SwappedIsShapeless ==
  ASSUME NEW s \in Seq(FileLines), Shaped(s), NEW k \in 1 .. Len(s) - 1
  PROVE  Swapped(s, k) \in Seq(FileLines) /\ ~Shaped(Swapped(s, k))
<1> DEFINE n == Len(s)
           b == Swapped(s, k)
<1>1. /\ n \in Nat /\ n >= 2
      /\ \A i \in 1 .. n : s[i] \in FileLines
      /\ \A i \in 2 .. n - 1 : s[i].line = "record" /\ s[i].record.seq \in 0 .. MaxSeq
      /\ \A i \in 2 .. n - 2 : s[i].record.seq < s[i + 1].record.seq
      /\ \A i \in 1 .. n : i # 1 => s[i].line # "document"
      /\ \A i \in 1 .. n : i # n => s[i].line # "artifact_end"
  BY ShapedLines
<1>2. s \in [1 .. n -> FileLines] /\ k \in 1 .. n /\ k + 1 \in 1 .. n /\ k # k + 1
  BY <1>1, LenProperties
<1> HIDE DEF n
<1>3. b \in [1 .. n -> FileLines]
  BY <1>2 DEF Swapped
<1>4. b[k] = s[k + 1] /\ b[k + 1] = s[k] /\ \A i \in 1 .. n : i # k /\ i # k + 1 => b[i] = s[i]
  BY <1>2 DEF Swapped
<1> HIDE DEF b
<1>5. b \in Seq(FileLines) /\ Len(b) = n
  BY <1>1, <1>3, SeqDef, LenProperties
<1>6. CASE k = 1
  <2>1. b[1].line # "document"
    BY <1>1, <1>2, <1>4, <1>6
  <2> QED
    BY <1>5, <2>1 DEF Shaped, b
<1>7. CASE k + 1 = n
  <2>1. b[n].line # "artifact_end"
    BY <1>1, <1>2, <1>4, <1>7
  <2> QED
    BY <1>5, <2>1 DEF Shaped, b
<1>8. CASE k # 1 /\ k + 1 # n
  <2>1. k \in 2 .. n - 2 /\ k \in 2 .. n - 1 /\ k + 1 \in 2 .. n - 1
    BY <1>1, <1>2, <1>8
  <2>2. /\ s[k].record.seq \in Int /\ s[k + 1].record.seq \in Int
        /\ s[k].record.seq < s[k + 1].record.seq
    BY <1>1, <2>1, LiveConstants
  <2>3. ~(b[k].record.seq < b[k + 1].record.seq)
    BY <1>4, <2>2
  <2>4. ~Shaped(b)
    BY <1>5, <2>1, <2>3 DEF Shaped
  <2> QED
    BY <1>5, <2>4 DEF b
<1> QED
  BY <1>6, <1>7, <1>8

LEMMA TornIsShapeless ==
  ASSUME NEW s \in Seq(FileLines), NEW k \in 1 .. Len(s)
  PROVE  LET b == Append(SubSeq(s, 1, k - 1), TornLine)
         IN b \in Seq(FileLines) /\ ~Shaped(b)
<1> DEFINE front == SubSeq(s, 1, k - 1)
           b == Append(front, TornLine)
<1>1. k - 1 \in 0 .. Len(s)
  BY LenProperties
<1>2. front \in Seq(FileLines)
  BY <1>1, Fronts
<1> HIDE DEF front
<1>3. TornLine \in FileLines /\ TornLine.line = "torn"
  BY LinesOfFiles
<1>4. b \in Seq(FileLines) /\ Len(b) = Len(front) + 1 /\ b[Len(front) + 1] = TornLine
  BY <1>2, <1>3, AppendProperties
<1>5. b[Len(b)].line # "artifact_end"
  BY <1>3, <1>4
<1> HIDE DEF b
<1>6. ~Shaped(b)
  BY <1>5 DEF Shaped
<1> QED
  BY <1>4, <1>6 DEF b, front

LEMMA LongerIsShapeless ==
  ASSUME NEW s \in Seq(FileLines), Shaped(s), NEW k \in 1 .. Len(s)
  PROVE  Append(s, s[k]) \in Seq(FileLines) /\ ~Shaped(Append(s, s[k]))
<1> DEFINE n == Len(s)
           b == Append(s, s[k])
<1>1. /\ n \in Nat /\ n >= 2 /\ s[n].line = "artifact_end"
      /\ \A i \in 1 .. n : s[i] \in FileLines
  BY ShapedLines
<1>2. b \in Seq(FileLines) /\ Len(b) = n + 1 /\ \A i \in 1 .. n : b[i] = s[i]
  BY <1>1, AppendProperties
<1> HIDE DEF n, b
<1>3. n \in 1 .. n /\ n \in 2 .. Len(b) - 1
  BY <1>1, <1>2
<1>4. b[n].line = "artifact_end"
  BY <1>1, <1>2, <1>3
<1>5. ~Shaped(b)
  BY <1>3, <1>4 DEF Shaped
<1> QED
  BY <1>2, <1>5 DEF b

LEMMA DamagedIsShapeless ==
  ASSUME NEW s \in Seq(FileLines), Shaped(s), NEW b \in Damages(s)
  PROVE  b \in Seq(FileLines) /\ ~Shaped(b)
<1> DEFINE n == Len(s)
<1>1. \/ \E k \in 1 .. n : b = RemoveAt(s, k)
      \/ \E k \in 1 .. n : b = InsertAt(s, k, s[k])
      \/ \E k \in 1 .. n - 1 : b = Swapped(s, k)
      \/ \E k \in 1 .. n : b = Append(SubSeq(s, 1, k - 1), TornLine)
      \/ \E k \in 1 .. n : b = Append(s, s[k])
  BY Zenon DEF Damages
<1> QED
  BY <1>1, LostIsShapeless, RepeatedIsShapeless, SwappedIsShapeless, TornIsShapeless,
     LongerIsShapeless

\* Lines that were lost, repeated, exchanged, cut or added leave no file that loads.
LEMMA DamagedIsRefused ==
  ASSUME NEW d, DocInv(d), NEW b \in Damages(Lines(d))
  PROVE  b \in Seq(FileLines) /\ Load(b) = {}
<1>1. Lines(d) \in Seq(FileLines) /\ LinesOf(d, Lines(d))
  BY LinesAre
<1>2. Shaped(Lines(d))
  BY <1>1, DocumentsAreShaped
<1>3. b \in Seq(FileLines) /\ ~Shaped(b)
  BY <1>1, <1>2, DamagedIsShapeless
<1>4. ASSUME Load(b) # {} PROVE FALSE
  <2>1. PICK e : Load(b) = {e} /\ DocInv(e) /\ LinesOf(e, b)
    BY <1>3, <1>4, LoadedIsTheFile
  <2> QED
    BY <1>3, <2>1, DocumentsAreShaped
<1> QED
  BY <1>3, <1>4

-------------------------------------------------------------------------------
(* Rows that a filter selects.                                             *)

\* Of the first rows: the indices of some, in order, and these rows.
Picked(rows, k, indices, chosen) ==
  /\ indices \in Seq(Nat) /\ chosen \in Seq(Entries) /\ Len(chosen) = Len(indices)
  /\ \A i \in 1 .. Len(indices) : indices[i] < k /\ chosen[i] = rows[indices[i] + 1]
  /\ \A i \in 1 .. Len(indices) - 1 : indices[i] < indices[i + 1]

LEMMA NonePicked == ASSUME NEW rows PROVE Picked(rows, 0, <<>>, <<>>)
<1>1. <<>> \in Seq(Nat) /\ <<>> \in Seq(Entries) /\ Len(<<>>) = 0
  BY EmptySeq
<1> QED
  BY <1>1 DEF Picked

LEMMA OneMorePicked ==
  ASSUME NEW rows \in Seq(Entries), NEW k \in Nat, k + 1 <= Len(rows), NEW a, NEW c,
         Picked(rows, k, a, c)
  PROVE  Picked(rows, k + 1, a, c) /\ Picked(rows, k + 1, Append(a, k), Append(c, rows[k + 1]))
<1> DEFINE m == Len(a)
           b == Append(a, k)
           d == Append(c, rows[k + 1])
<1>1. /\ a \in Seq(Nat) /\ c \in Seq(Entries) /\ Len(c) = m
      /\ \A i \in 1 .. m : a[i] \in Nat /\ a[i] < k /\ c[i] = rows[a[i] + 1]
      /\ \A i \in 1 .. m - 1 : a[i] < a[i + 1]
  BY DEF Picked
<1>2. m \in Nat /\ rows[k + 1] \in Entries
  BY <1>1, LenProperties
<1> HIDE DEF m
<1>3. b \in Seq(Nat) /\ Len(b) = m + 1 /\ b[m + 1] = k /\ \A i \in 1 .. m : b[i] = a[i]
  BY <1>1, AppendProperties DEF m
<1>4. d \in Seq(Entries) /\ Len(d) = m + 1 /\ d[m + 1] = rows[k + 1] /\ \A i \in 1 .. m : d[i] = c[i]
  BY <1>1, <1>2, AppendProperties
<1> HIDE DEF b, d
<1>5. Picked(rows, k + 1, a, c)
  BY <1>1 DEF Picked, m
<1>6. ASSUME NEW i \in 1 .. m + 1 PROVE b[i] < k + 1 /\ d[i] = rows[b[i] + 1]
  <2>1. CASE i = m + 1
    BY <1>3, <1>4, <2>1
  <2>2. CASE i \in 1 .. m
    <3>1. b[i] = a[i] /\ d[i] = c[i] /\ a[i] \in Nat /\ a[i] < k /\ c[i] = rows[a[i] + 1]
      BY <1>1, <1>3, <1>4, <2>2
    <3>2. a[i] < k + 1
      BY <3>1
    <3> QED
      BY <3>1, <3>2
  <2> QED
    BY <1>2, <2>1, <2>2
<1>7. ASSUME NEW i \in 1 .. m PROVE b[i] < b[i + 1]
  <2>1. CASE i = m
    BY <1>1, <1>3, <2>1
  <2>2. CASE i # m
    <3>1. i \in 1 .. m - 1 /\ i + 1 \in 1 .. m
      BY <1>2, <2>2
    <3> QED
      BY <1>1, <1>3, <3>1
  <2> QED
    BY <2>1, <2>2
<1>8. Picked(rows, k + 1, b, d)
  <2>1. Len(b) - 1 = m
    BY <1>2, <1>3
  <2> QED
    BY <1>3, <1>4, <1>6, <1>7, <2>1 DEF Picked
<1> QED
  BY <1>5, <1>8 DEF b, d

LEMMA Singles == \A S : \A x \in S : <<x>> \in Seq(S)
  OBVIOUS

LEMMA Concats ==
  ASSUME NEW S, NEW s \in Seq(S)
  PROVE  s \o <<>> = s /\ \A x \in S : s \o <<x>> = Append(s, x)
<1>1. s \o <<>> = s
  BY ConcatEmptySeq
<1>2. ASSUME NEW x \in S PROVE s \o <<x>> = Append(s, x)
  OBVIOUS
<1> QED
  BY <1>1, <1>2

\* Parts that, of each row, hold the row and its index or nothing.
Pairs(rows, p, q) ==
  /\ p \in Seq(Seq(Nat)) /\ q \in Seq(Seq(Entries)) /\ Len(p) = Len(rows) /\ Len(q) = Len(rows)
  /\ \A k \in 1 .. Len(rows) : \/ p[k] = <<k - 1>> /\ q[k] = <<rows[k]>>
                               \/ p[k] = <<>> /\ q[k] = <<>>

LEMMA Picking ==
  ASSUME NEW rows \in Seq(Entries), NEW p, NEW q, Pairs(rows, p, q)
  PROVE  Picked(rows, Len(rows), Joined(p), Joined(q))
<1> DEFINE n == Len(rows)
<1>1. n \in Nat /\ p \in Seq(Seq(Nat)) /\ q \in Seq(Seq(Entries)) /\ Len(p) = n /\ Len(q) = n
  BY LenProperties DEF Pairs
<1>2. PICK f : JoinedRun(Nat, p, f)
  BY <1>1, JoinedRuns
<1>3. PICK g : JoinedRun(Entries, q, g)
  BY <1>1, JoinedRuns
<1> HIDE DEF n
<1>4. /\ f[0] = <<>> /\ Joined(p) = f[n] /\ g[0] = <<>> /\ Joined(q) = g[n]
      /\ \A k \in 1 .. n : f[k] = f[k - 1] \o p[k]
      /\ \A k \in 1 .. n : g[k] = g[k - 1] \o q[k]
  BY <1>1, <1>2, <1>3 DEF JoinedRun
<1> DEFINE good == {k \in Nat : k <= n => Picked(rows, k, f[k], g[k])}
<1>5. 0 \in good
  BY <1>4, NonePicked
<1>6. ASSUME NEW k \in Nat, k \in good PROVE k + 1 \in good
  <2> SUFFICES ASSUME k + 1 <= n PROVE Picked(rows, k + 1, f[k + 1], g[k + 1])
    OBVIOUS
  <2>1. k <= n /\ k + 1 \in 1 .. n /\ (k + 1) - 1 = k
    BY <1>1
  <2>2. Picked(rows, k, f[k], g[k])
    BY <1>6, <2>1
  <2>3. f[k + 1] = f[k] \o p[k + 1] /\ g[k + 1] = g[k] \o q[k + 1]
    BY <1>4, <2>1
  <2>4. f[k] \in Seq(Nat) /\ g[k] \in Seq(Entries) /\ rows[k + 1] \in Entries
    BY <2>1, <2>2 DEF Picked, n
  <2>5. Picked(rows, k + 1, f[k], g[k]) /\ Picked(rows, k + 1, Append(f[k], k), Append(g[k], rows[k + 1]))
    BY <2>1, <2>2, OneMorePicked DEF n
  <2>6. CASE p[k + 1] = <<(k + 1) - 1>> /\ q[k + 1] = <<rows[k + 1]>>
    <3>1. p[k + 1] = <<k>>
      BY <2>1, <2>6
    <3>2. f[k + 1] = Append(f[k], k) /\ g[k + 1] = Append(g[k], rows[k + 1])
      BY <2>3, <2>4, <2>6, <3>1, Concats
    <3> QED
      BY <2>5, <3>2
  <2>7. CASE p[k + 1] = <<>> /\ q[k + 1] = <<>>
    <3>1. f[k + 1] = f[k] /\ g[k + 1] = g[k]
      BY <2>3, <2>4, <2>7, Concats
    <3> QED
      BY <2>5, <3>1
  <2> QED
    BY <2>1, <2>6, <2>7 DEF Pairs, n
<1> HIDE DEF good
<1>7. n \in good
  BY <1>1, <1>5, <1>6, Induction
<1> QED
  BY <1>1, <1>4, <1>7 DEF good, n

LEMMA PartsPaired ==
  ASSUME NEW rows \in Seq(Entries), NEW P,
         NEW p, p = [k \in 1 .. Len(rows) |-> IF k \in P THEN <<k - 1>> ELSE <<>>],
         NEW q, q = [k \in 1 .. Len(rows) |-> IF k \in P THEN <<rows[k]>> ELSE <<>>]
  PROVE  Pairs(rows, p, q)
<1> DEFINE n == Len(rows)
<1>1. n \in Nat /\ \A k \in 1 .. n : rows[k] \in Entries
  BY LenProperties
<1> HIDE DEF n
<1>2. ASSUME NEW k \in 1 .. n
      PROVE  /\ p[k] \in Seq(Nat) /\ q[k] \in Seq(Entries)
             /\ \/ p[k] = <<k - 1>> /\ q[k] = <<rows[k]>>
                \/ p[k] = <<>> /\ q[k] = <<>>
  <2>1. k - 1 \in Nat /\ rows[k] \in Entries
    BY <1>1
  <2>2. CASE k \in P
    <3>1. p[k] = <<k - 1>> /\ q[k] = <<rows[k]>>
      BY <2>2 DEF n
    <3>2. <<k - 1>> \in Seq(Nat) /\ <<rows[k]>> \in Seq(Entries)
      BY <2>1, Singles
    <3> QED
      BY <3>1, <3>2
  <2>3. CASE k \notin P
    <3>1. p[k] = <<>> /\ q[k] = <<>>
      BY <2>3 DEF n
    <3>2. <<>> \in Seq(Nat) /\ <<>> \in Seq(Entries)
      BY EmptySeq
    <3> QED
      BY <3>1, <3>2
  <2> QED
    BY <2>2, <2>3
<1>3. p \in [1 .. n -> Seq(Nat)] /\ q \in [1 .. n -> Seq(Entries)]
  BY <1>2 DEF n
<1>4. p \in Seq(Seq(Nat)) /\ q \in Seq(Seq(Entries)) /\ Len(p) = n /\ Len(q) = n
  BY <1>1, <1>3, SeqDef, LenProperties
<1> QED
  BY <1>2, <1>4 DEF Pairs, n

\* The indices of the rows of a store that a filter selects, and these rows.
LEMMA IndicesArePicked ==
  ASSUME NEW store, StoreInv(store), NEW spec
  PROVE  Picked(Rows(store), Len(Rows(store)), IndicesOf(store, spec), Chosen(Rows(store), {spec}))
<1> DEFINE rows == Rows(store)
           n == Len(rows)
           P == {k \in 1 .. n : rows[k].text \in spec}
           p == [k \in 1 .. n |-> IF k \in P THEN <<k - 1>> ELSE <<>>]
           q == [k \in 1 .. n |-> IF k \in P THEN <<rows[k]>> ELSE <<>>]
<1>1. /\ rows \in Seq(Entries) /\ n \in Nat /\ store.len = n
      /\ \A i \in 0 .. n - 1 : At(store, i) = rows[i + 1]
  <2>1. rows \in Seq(Entries)
    BY StoreRowsType DEF StoreInv
  <2> QED
    BY <2>1, IndicesAreExact, LenProperties
<1>2. DOMAIN rows = 1 .. n
  BY <1>1
<1> HIDE DEF rows
<1>3. IndicesOf(store, spec) = Joined(p)
  <2>1. ASSUME NEW k \in 1 .. n PROVE At(store, k - 1).text \in spec <=> k \in P
    <3>1. k - 1 \in 0 .. n - 1 /\ (k - 1) + 1 = k
      BY <1>1
    <3>2. At(store, k - 1) = rows[k]
      BY <1>1, <3>1
    <3> QED
      BY <3>2
  <2>2. [k \in 1 .. n |-> IF At(store, k - 1).text \in spec THEN <<k - 1>> ELSE <<>>] = p
    BY <2>1
  <2> QED
    BY <1>1, <2>2 DEF IndicesOf
<1>4. Chosen(rows, {spec}) = Joined(q)
  <2>1. Only({spec}) = spec /\ {spec} # {}
    BY DEF Only
  <2>2. ASSUME NEW k \in 1 .. n
        PROVE  ({spec} = {} \/ rows[k].text \in Only({spec})) <=> k \in P
    BY <2>1
  <2>3. [k \in 1 .. n |-> IF {spec} = {} \/ rows[k].text \in Only({spec}) THEN <<rows[k]>> ELSE <<>>] = q
    BY <2>2
  <2> QED
    BY <1>2, <2>3 DEF Chosen
<1>5. Pairs(rows, p, q)
  BY <1>1, PartsPaired
<1> HIDE DEF p, q
<1>6. Picked(rows, n, Joined(p), Joined(q))
  BY <1>1, <1>5, Picking
<1> QED
  BY <1>3, <1>4, <1>6 DEF rows

\* No filter selects all rows.
LEMMA AllChosen ==
  ASSUME NEW rows \in Seq(Entries)
  PROVE  Chosen(rows, {}) = rows
<1> DEFINE n == Len(rows)
           q == [k \in 1 .. n |-> <<rows[k]>>]
<1>1. n \in Nat /\ DOMAIN rows = 1 .. n /\ \A k \in 1 .. n : rows[k] \in Entries
  BY LenProperties
<1>2. Chosen(rows, {}) = Joined(q)
  <2>1. [k \in 1 .. n |-> IF {} = {} \/ rows[k].text \in Only({}) THEN <<rows[k]>> ELSE <<>>] = q
    OBVIOUS
  <2> QED
    BY <1>1, <2>1 DEF Chosen
<1>3. \A k \in 1 .. n : q[k] = <<rows[k]>> /\ q[k] \in Seq(Entries)
  BY <1>1
<1> HIDE DEF n
<1>4. q \in [1 .. n -> Seq(Entries)]
  BY <1>3
<1>5. q \in Seq(Seq(Entries)) /\ Len(q) = n
  BY <1>1, <1>4, SeqDef, LenProperties
<1> HIDE DEF q
<1>6. PICK g : JoinedRun(Entries, q, g)
  BY <1>5, JoinedRuns
<1>7. g[0] = <<>> /\ Joined(q) = g[n] /\ \A k \in 1 .. n : g[k] = g[k - 1] \o q[k]
  BY <1>5, <1>6 DEF JoinedRun
<1> DEFINE Same(k) == g[k] \in Seq(Entries) /\ Len(g[k]) = k /\ \A i \in 1 .. k : g[k][i] = rows[i]
           same == {k \in Nat : k <= n => Same(k)}
<1>8. 0 \in same
  <2>1. <<>> \in Seq(Entries) /\ Len(<<>>) = 0
    BY EmptySeq
  <2>2. 1 .. 0 = {}
    OBVIOUS
  <2>3. Same(0)
    BY <1>7, <2>1, <2>2
  <2> QED
    BY <2>3
<1>9. ASSUME NEW k \in Nat, k \in same PROVE k + 1 \in same
  <2> SUFFICES ASSUME k + 1 <= n PROVE Same(k + 1)
    OBVIOUS
  <2>1. k <= n /\ k + 1 \in 1 .. n /\ (k + 1) - 1 = k
    BY <1>1
  <2>2. Same(k)
    BY <1>9, <2>1
  <2>3. g[k + 1] = Append(g[k], rows[k + 1])
    <3>1. g[k + 1] = g[k] \o <<rows[k + 1]>> /\ g[k] \in Seq(Entries) /\ rows[k + 1] \in Entries
      BY <1>1, <1>3, <1>7, <2>1, <2>2
    <3> QED
      BY <3>1, Concats
  <2> DEFINE x == g[k]
             y == g[k + 1]
  <2>4. y \in Seq(Entries) /\ Len(y) = k + 1 /\ y[k + 1] = rows[k + 1] /\ \A i \in 1 .. k : y[i] = x[i]
    BY <1>1, <2>1, <2>2, <2>3, AppendProperties
  <2>5. ASSUME NEW i \in 1 .. k + 1 PROVE y[i] = rows[i]
    <3>1. CASE i = k + 1
      BY <2>4, <3>1
    <3>2. CASE i \in 1 .. k
      BY <2>2, <2>4, <3>2
    <3> QED
      BY <3>1, <3>2
  <2> QED
    BY <2>4, <2>5
<1> HIDE DEF same
<1>10. n \in same
  BY <1>1, <1>8, <1>9, Induction
<1>11. Same(n)
  BY <1>1, <1>10 DEF same
<1>12. g[n] = rows
  BY <1>11, SeqEqual DEF n
<1> QED
  BY <1>2, <1>7, <1>12

\* A store of the rows at some indices.
LEMMA RowsAtIndices ==
  ASSUME NEW store, StoreInv(store), NEW indices, NEW chosen,
         Picked(Rows(store), Len(Rows(store)), indices, chosen)
  PROVE  StoreInv(RowsAt(store, indices)) /\ Rows(RowsAt(store, indices)) = chosen
<1> DEFINE r == Rows(store)
           n == Len(indices)
           T == {s \in Stores : StoreInv(s)}
           step == [p \in (1 .. n) \X T |-> Push(p[2], At(store, indices[p[1]]))]
           rows == CHOOSE f : f = [k \in 0 .. n |-> IF k = 0 THEN NewStore
                                                    ELSE Push(f[k - 1], At(store, indices[k]))]
<1>1. /\ r \in Seq(Entries) /\ Len(r) \in Nat /\ store.len = Len(r)
      /\ \A i \in 0 .. Len(r) - 1 : At(store, i) = r[i + 1]
  <2>1. r \in Seq(Entries)
    BY StoreRowsType DEF StoreInv
  <2> QED
    BY <2>1, IndicesAreExact, LenProperties
<1>2. /\ indices \in Seq(Nat) /\ chosen \in Seq(Entries) /\ Len(chosen) = n /\ n \in Nat
      /\ \A i \in 1 .. n : indices[i] \in Nat /\ indices[i] < Len(r) /\ chosen[i] = r[indices[i] + 1]
  <2>1. /\ indices \in Seq(Nat) /\ chosen \in Seq(Entries) /\ Len(chosen) = n
        /\ \A i \in 1 .. n : indices[i] < Len(r) /\ chosen[i] = r[indices[i] + 1]
    BY DEF Picked
  <2> QED
    BY <2>1, LenProperties
<1> HIDE DEF n, r
<1>3. \A k \in 1 .. n : At(store, indices[k]) = chosen[k] /\ chosen[k] \in Entries
  <2> TAKE k \in 1 .. n
  <2>1. indices[k] \in 0 .. Len(r) - 1
    BY <1>1, <1>2
  <2>2. At(store, indices[k]) = chosen[k]
    BY <1>1, <1>2, <2>1
  <2>3. chosen[k] \in Entries
    BY <1>2
  <2> QED
    BY <2>2, <2>3
<1>4. RowsAt(store, indices) = rows[n]
  BY Zenon DEF RowsAt, n
<1>5. NewStore \in T
  BY NewStoreIsExact DEF StoreInv
<1>6. \A k \in 1 .. n, x \in T :
        step[<<k, x>>] = Push(x, chosen[k]) /\ Push(x, chosen[k]) \in T
        /\ Rows(Push(x, chosen[k])) = Append(Rows(x), chosen[k])
  <2> TAKE k \in 1 .. n, x \in T
  <2>1. step[<<k, x>>] = Push(x, At(store, indices[k]))
    OBVIOUS
  <2>2. /\ StoreInv(Push(x, chosen[k]))
        /\ Rows(Push(x, chosen[k])) = Append(Rows(x), chosen[k])
    BY <1>3, PushIsExact
  <2>3. Push(x, chosen[k]) \in Stores
    BY <2>2 DEF StoreInv
  <2> HIDE DEF step
  <2> QED
    BY <1>3, <2>1, <2>2, <2>3
<1> HIDE DEF T, step
<1>7. ASSUME NEW g, IsRun(n, T, NewStore, step, g) PROVE Goes(n, T, NewStore, step, rows)
  <2>1. g = [k \in 0 .. n |-> IF k = 0 THEN NewStore ELSE Push(g[k - 1], At(store, indices[k]))]
    <3>1. ASSUME NEW k \in 0 .. n
          PROVE  g[k] = IF k = 0 THEN NewStore ELSE Push(g[k - 1], At(store, indices[k]))
      <4>1. CASE k = 0
        BY <1>7, <4>1 DEF IsRun
      <4>2. CASE k # 0
        <5>1. k \in 1 .. n /\ k - 1 \in 0 .. n
          BY <1>2, <4>2
        <5>2. g[k] = step[<<k, g[k - 1]>>] /\ g[k - 1] \in T
          BY <1>7, <5>1 DEF IsRun
        <5> QED
          BY <1>3, <1>6, <4>2, <5>1, <5>2
      <4> QED
        BY <4>1, <4>2
    <3>2. g = [k \in 0 .. n |-> g[k]]
      BY <1>7 DEF IsRun
    <3> QED
      BY <3>1, <3>2
  <2>2. rows = [k \in 0 .. n |-> IF k = 0 THEN NewStore ELSE Push(rows[k - 1], At(store, indices[k]))]
    BY <2>1
  <2> HIDE DEF rows
  <2>3. \A k \in 0 .. n : rows[k] = IF k = 0 THEN NewStore ELSE Push(rows[k - 1], At(store, indices[k]))
    BY <2>2
  <2>4. \A k \in 1 .. n : k \in 0 .. n /\ k # 0
    BY <1>2
  <2>5. rows = [k \in 0 .. n |-> rows[k]] /\ rows[0] = NewStore
    BY <1>2, <2>2, <2>3
  <2>6. ASSUME NEW k \in 1 .. n, rows[k - 1] \in T
        PROVE  rows[k] = step[<<k, rows[k - 1]>>]
    <3>1. rows[k] = Push(rows[k - 1], At(store, indices[k]))
      BY <2>3, <2>4
    <3> QED
      BY <1>3, <1>6, <2>6, <3>1
  <2> QED
    BY <2>5, <2>6 DEF Goes
<1> HIDE DEF rows
<1>8. IsRun(n, T, NewStore, step, rows)
  <2>1. StepsIn(n, T, step)
    BY <1>6 DEF StepsIn
  <2> QED
    BY <1>2, <1>5, <1>7, <2>1, Recursion
<1> DEFINE Same(k) == /\ Rows(rows[k]) \in Seq(Entries) /\ Len(Rows(rows[k])) = k
                      /\ \A i \in 1 .. k : Rows(rows[k])[i] = chosen[i]
           same == {k \in Nat : k <= n => Same(k)}
<1>9. 0 \in same
  <2>1. Rows(rows[0]) = <<>>
    BY <1>8, NewStoreIsExact DEF IsRun
  <2>2. <<>> \in Seq(Entries) /\ Len(<<>>) = 0 /\ 1 .. 0 = {}
    BY EmptySeq
  <2>3. Same(0)
    BY <2>1, <2>2
  <2> QED
    BY <2>3
<1>10. ASSUME NEW k \in Nat, k \in same PROVE k + 1 \in same
  <2> SUFFICES ASSUME k + 1 <= n PROVE Same(k + 1)
    OBVIOUS
  <2>1. k <= n /\ k + 1 \in 1 .. n /\ (k + 1) - 1 = k /\ k \in 0 .. n
    BY <1>2
  <2>2. Same(k)
    BY <1>10, <2>1
  <2> DEFINE x == Rows(rows[k])
             y == Rows(rows[k + 1])
  <2>3. y = Append(x, chosen[k + 1])
    <3>1. rows[k] \in T /\ rows[k + 1] = step[<<k + 1, rows[k]>>]
      BY <1>8, <2>1 DEF IsRun
    <3> QED
      BY <1>6, <2>1, <3>1
  <2>4. x \in Seq(Entries) /\ Len(x) = k /\ chosen[k + 1] \in Entries /\ \A i \in 1 .. k : x[i] = chosen[i]
    BY <1>3, <2>1, <2>2
  <2> HIDE DEF x, y
  <2>5. y \in Seq(Entries) /\ Len(y) = k + 1 /\ y[k + 1] = chosen[k + 1] /\ \A i \in 1 .. k : y[i] = x[i]
    BY <2>3, <2>4, AppendProperties
  <2>6. ASSUME NEW i \in 1 .. k + 1 PROVE y[i] = chosen[i]
    <3>1. CASE i = k + 1
      BY <2>5, <3>1
    <3>2. CASE i \in 1 .. k
      BY <2>4, <2>5, <3>2
    <3> QED
      BY <3>1, <3>2
  <2> QED
    BY <2>5, <2>6 DEF y
<1> HIDE DEF same
<1>11. n \in same
  BY <1>2, <1>9, <1>10, Induction
<1>12. Same(n)
  BY <1>2, <1>11 DEF same
<1>13. Rows(rows[n]) = chosen
  BY <1>2, <1>12, SeqEqual
<1>14. StoreInv(rows[n])
  <2>1. n \in 0 .. n
    BY <1>2
  <2>2. rows[n] \in T
    BY <1>8, <2>1 DEF IsRun
  <2> QED
    BY <2>2 DEF T
<1> QED
  BY <1>4, <1>13, <1>14

\* Numbers of rows grow, by one at least.
Growing(metadata) ==
  \A i, j \in 1 .. Len(metadata) : i <= j => metadata[j].seq - metadata[i].seq >= j - i

SeqsOf(metadata) == \A k \in 1 .. Len(metadata) : metadata[k].seq \in Nat /\ metadata[k].seq > 0

LEMMA RowsGrow ==
  ASSUME NEW header, NEW rows, NEW metadata, RowsInv(header, rows, metadata)
  PROVE  Growing(metadata) /\ SeqsOf(metadata)
<1> DEFINE n == Len(metadata)
           Up(k) == metadata[k].seq \in Nat /\ metadata[k].seq > Previous(metadata, k)
<1>1. metadata \in Seq(Metadata) /\ n \in Nat
  BY LenProperties DEF RowsInv
<1>2. ASSUME NEW k \in 1 .. n PROVE Up(k)
  <2>1. RowInv(header, rows[k], metadata[k], Previous(metadata, k)) /\ metadata[k] \in Metadata
    BY <1>1 DEF RowsInv
  <2>2. metadata[k].seq \in 0 .. MaxSeq
    BY <2>1 DEF Metadata
  <2> QED
    BY <2>1, <2>2, LiveConstants DEF RowInv, RowIsValid, RowFits
<1> HIDE DEF n
<1>3. ASSUME NEW k \in 1 .. n - 1 PROVE metadata[k + 1].seq >= metadata[k].seq + 1
  <2>1. k + 1 \in 1 .. n /\ k \in 1 .. n /\ k + 1 # 1 /\ (k + 1) - 1 = k
    BY <1>1
  <2>2. Up(k) /\ Up(k + 1)
    BY <1>2, <2>1
  <2> QED
    BY <2>1, <2>2 DEF Previous
<1>4. SeqsOf(metadata)
  <2>1. ASSUME NEW k \in 1 .. n PROVE metadata[k].seq > 0
    <3>1. CASE k = 1
      BY <1>2, <3>1 DEF Previous
    <3>2. CASE k # 1
      <4>1. k - 1 \in 1 .. n
        BY <1>1, <3>2
      <4>2. Up(k) /\ Up(k - 1) /\ Previous(metadata, k) = metadata[k - 1].seq
        BY <1>2, <3>2, <4>1 DEF Previous
      <4> QED
        BY <4>2
    <3> QED
      BY <3>1, <3>2
  <2> QED
    BY <1>2, <2>1 DEF SeqsOf, n
<1>5. ASSUME NEW i \in 1 .. n
      PROVE  \A j \in 1 .. n : i <= j => metadata[j].seq - metadata[i].seq >= j - i
  <2> DEFINE far == {d \in Nat : i + d <= n => metadata[i + d].seq - metadata[i].seq >= d}
  <2>1. 0 \in far
    <3>1. i + 0 = i /\ metadata[i].seq \in Nat
      BY <1>2
    <3> QED
      BY <3>1
  <2>2. ASSUME NEW d \in Nat, d \in far PROVE d + 1 \in far
    <3> SUFFICES ASSUME i + (d + 1) <= n PROVE metadata[i + (d + 1)].seq - metadata[i].seq >= d + 1
      OBVIOUS
    <3>1. /\ i + d \in 1 .. n - 1 /\ i + d \in 1 .. n /\ (i + d) + 1 \in 1 .. n
          /\ i + (d + 1) = (i + d) + 1 /\ i + d <= n
      BY <1>1
    <3> DEFINE a == metadata[i].seq
               b == metadata[i + d].seq
               c == metadata[(i + d) + 1].seq
    <3>2. a \in Nat /\ b \in Nat /\ c \in Nat /\ c >= b + 1 /\ b - a >= d
      BY <1>2, <1>3, <2>2, <3>1
    <3> HIDE DEF a, b, c
    <3>3. c - a >= d + 1
      BY <3>2
    <3> QED
      BY <3>1, <3>3 DEF a, c
  <2> HIDE DEF far
  <2>3. \A d \in Nat : d \in far
    BY <2>1, <2>2, Induction
  <2>4. ASSUME NEW j \in 1 .. n, i <= j PROVE metadata[j].seq - metadata[i].seq >= j - i
    <3>1. j - i \in Nat /\ i + (j - i) = j /\ j <= n
      BY <1>1, <2>4
    <3>2. j - i \in far
      BY <2>3, <3>1
    <3> QED
      BY <3>1, <3>2 DEF far
  <2> QED
    BY <2>4
<1> QED
  BY <1>4, <1>5 DEF Growing, n

-------------------------------------------------------------------------------
(* Selections of documents.                                                *)

LEMMA RowInvKept ==
  ASSUME NEW header, NEW other, other.session = header.session, NEW entry, NEW meta,
         NEW previous, RowInv(header, entry, meta, previous), NEW before, meta.seq > before
  PROVE  RowInv(other, entry, meta, before)
  BY DEF RowInv, RowIsValid, RowFits

\* A sound document is one that validation accepts.
LEMMA SoundIsValid ==
  ASSUME NEW d, DocInv(d)
  PROVE  IsValid(d)
<1> DEFINE rows == EntriesOf(d)
           metadata == d.metadata
<1>1. /\ rows \in Seq(Entries) /\ Len(rows) = Len(metadata) /\ Len(metadata) \in Nat
      /\ RowsInv(d.header, rows, metadata)
      /\ \A k \in 1 .. Len(metadata) :
           RowInv(d.header, rows[k], metadata[k], Previous(metadata, k))
  BY DocParts DEF DocInv
<1>2. SeqsOf(metadata)
  BY <1>1, RowsGrow
<1>3. DOMAIN rows = 1 .. Len(metadata)
  BY <1>1, LenProperties
<1> HIDE DEF rows, metadata
<1>4. ASSUME NEW k \in 1 .. Len(metadata)
      PROVE  /\ RowFits(d.header, rows[k], metadata[k], IF k = 1 THEN 0 ELSE metadata[k - 1].seq)
             /\ EncodeRecord(d.header, rows[k], metadata[k]) # {}
  <2>1. RowInv(d.header, rows[k], metadata[k], Previous(metadata, k)) /\ metadata[k].seq > 0
    BY <1>1, <1>2 DEF SeqsOf
  <2>2. RowFits(d.header, rows[k], metadata[k], Previous(metadata, k))
    BY <2>1 DEF RowInv, RowIsValid
  <2>3. RowInv(d.header, rows[k], metadata[k], 0)
    BY <2>1, RowInvKept
  <2>4. RowIsValid(d.header, rows[k], metadata[k], 0)
    BY <2>3 DEF RowInv
  <2>5. EncodeRecord(d.header, rows[k], metadata[k]) # {}
    BY <2>4 DEF EncodeRecord
  <2> QED
    BY <2>2, <2>5 DEF Previous
<1>5. /\ HeaderIsValid(d.header)
      /\ EndIsValid(d.header, d.end, Len(metadata), First(metadata), Final(metadata))
  BY DEF DocInv, metadata
<1>6. \A k \in DOMAIN rows :
        /\ RowFits(d.header, rows[k], metadata[k], IF k = 1 THEN 0 ELSE metadata[k - 1].seq)
        /\ EncodeRecord(d.header, rows[k], metadata[k]) # {}
  BY <1>3, <1>4
<1> QED
  BY <1>1, <1>5, <1>6 DEF IsValid, rows, metadata

\* The first and the last number of rows, and how many may lie between.
LEMMA Bounds ==
  ASSUME NEW metadata \in Seq(Metadata), Growing(metadata), SeqsOf(metadata)
  PROVE  /\ RangeFits(Len(metadata), First(metadata), Final(metadata))
         /\ First(metadata) \in SUBSET Nat /\ Final(metadata) \in SUBSET Nat
         /\ Len(metadata) = 0 => First(metadata) = {} /\ Final(metadata) = {}
         /\ Len(metadata) # 0 => /\ First(metadata) = {metadata[1].seq}
                                 /\ Final(metadata) = {metadata[Len(metadata)].seq}
<1> DEFINE n == Len(metadata)
<1>1. n \in Nat /\ (metadata = <<>> <=> n = 0)
  BY LenProperties, EmptySeq
<1>2. CASE n = 0
  <2>1. First(metadata) = {} /\ Final(metadata) = {}
    BY <1>1, <1>2 DEF First, Final
  <2>2. RangeFits(0, {}, {})
    BY DEF RangeFits
  <2> QED
    BY <1>2, <2>1, <2>2
<1>3. CASE n # 0
  <2> DEFINE f == metadata[1].seq
             l == metadata[n].seq
  <2>1. First(metadata) = {f} /\ Final(metadata) = {l}
    BY <1>1, <1>3 DEF First, Final
  <2>2. 1 \in 1 .. n /\ n \in 1 .. n /\ 1 <= n
    BY <1>1, <1>3
  <2>3. f \in Nat /\ f > 0 /\ l \in Nat /\ l - f >= n - 1
    BY <2>2 DEF SeqsOf, Growing
  <2> HIDE DEF f, l, n
  <2>4. 0 < f /\ f <= l /\ n <= l - f + 1
    BY <1>1, <2>2, <2>3
  <2>5. RangeFits(n, {f}, {l})
    BY <1>3, <2>4 DEF RangeFits
  <2> QED
    BY <1>3, <2>1, <2>3, <2>5 DEF n, f, l
<1> QED
  BY <1>2, <1>3

\* What rows that were picked have beside them.
PickedMeta(metadata, indices) == [k \in DOMAIN indices |-> metadata[indices[k] + 1]]

LEMMA PickedRows ==
  ASSUME NEW header, NEW other, other.session = header.session, NEW rows, NEW metadata,
         RowsInv(header, rows, metadata), NEW indices, NEW chosen,
         Picked(rows, Len(rows), indices, chosen)
  PROVE  LET beside == PickedMeta(metadata, indices)
         IN /\ RowsInv(other, chosen, beside) /\ Len(beside) <= Len(metadata)
            /\ \A k \in 1 .. Len(beside) : \E i \in 1 .. Len(metadata) : beside[k] = metadata[i]
<1> DEFINE n == Len(rows)
           m == Len(indices)
           beside == PickedMeta(metadata, indices)
<1>1. /\ rows \in Seq(Entries) /\ metadata \in Seq(Metadata) /\ Len(metadata) = n /\ n \in Nat
      /\ \A k \in 1 .. n : RowInv(header, rows[k], metadata[k], Previous(metadata, k))
      /\ \A k \in 1 .. n : metadata[k] \in Metadata
  <2>1. rows \in Seq(Entries) /\ metadata \in Seq(Metadata) /\ Len(metadata) = n
    BY DEF RowsInv
  <2>2. \A k \in 1 .. n : RowInv(header, rows[k], metadata[k], Previous(metadata, k))
    BY DEF RowsInv
  <2> QED
    BY <2>1, <2>2, LenProperties
<1>2. Growing(metadata) /\ SeqsOf(metadata)
  BY RowsGrow
<1>3. /\ indices \in Seq(Nat) /\ chosen \in Seq(Entries) /\ Len(chosen) = m /\ m \in Nat
      /\ \A i \in 1 .. m : indices[i] \in Nat /\ indices[i] < n /\ chosen[i] = rows[indices[i] + 1]
      /\ \A i \in 1 .. m - 1 : indices[i] < indices[i + 1]
  <2>1. /\ indices \in Seq(Nat) /\ chosen \in Seq(Entries) /\ Len(chosen) = m
        /\ \A i \in 1 .. m : indices[i] < n /\ chosen[i] = rows[indices[i] + 1]
        /\ \A i \in 1 .. m - 1 : indices[i] < indices[i + 1]
    BY DEF Picked
  <2> QED
    BY <2>1, LenProperties
<1>4. DOMAIN indices = 1 .. m
  BY <1>3, LenProperties
<1> HIDE DEF m, n
<1>5. ASSUME NEW i \in 1 .. m PROVE indices[i] + 1 \in 1 .. n
  <2>1. indices[i] \in Nat /\ indices[i] < n /\ n \in Nat
    BY <1>1, <1>3
  <2> QED
    BY <2>1
<1>6. /\ beside \in Seq(Metadata) /\ Len(beside) = m
      /\ \A i \in 1 .. m : beside[i] = metadata[indices[i] + 1]
  <2>1. beside = [k \in 1 .. m |-> metadata[indices[k] + 1]]
    BY <1>4 DEF PickedMeta
  <2> HIDE DEF beside
  <2>2. beside \in [1 .. m -> Metadata]
    BY <1>1, <1>5, <2>1
  <2>3. beside \in Seq(Metadata) /\ Len(beside) = m
    BY <1>3, <2>2, SeqDef, LenProperties
  <2> QED
    BY <2>1, <2>3
<1> HIDE DEF beside
<1>7. ASSUME NEW k \in 1 .. m PROVE beside[k].seq > Previous(beside, k)
  <2>1. CASE k = 1
    BY <1>1, <1>2, <1>5, <1>6, <2>1 DEF Previous, SeqsOf
  <2>2. CASE k # 1
    <3>1. k - 1 \in 1 .. m /\ k - 1 \in 1 .. m - 1 /\ (k - 1) + 1 = k
      BY <1>3, <2>2
    <3> DEFINE i == indices[k - 1] + 1
               j == indices[k] + 1
    <3>2. i \in 1 .. n /\ j \in 1 .. n /\ i < j
      <4>1. indices[k - 1] < indices[k] /\ indices[k - 1] \in Nat /\ indices[k] \in Nat
        BY <1>3, <3>1
      <4> QED
        BY <1>5, <3>1, <4>1
    <3>3. beside[k] = metadata[j] /\ beside[k - 1] = metadata[i]
      BY <1>6, <3>1
    <3> HIDE DEF i, j
    <3>4. metadata[j].seq - metadata[i].seq >= j - i /\ metadata[i].seq \in Nat /\ metadata[j].seq \in Nat
      <4>1. i <= j /\ i \in 1 .. Len(metadata) /\ j \in 1 .. Len(metadata)
        BY <1>1, <3>2
      <4>2. metadata[j].seq - metadata[i].seq >= j - i
        BY <1>2, <4>1 DEF Growing
      <4>3. metadata[i].seq \in Nat /\ metadata[j].seq \in Nat
        BY <1>2, <4>1 DEF SeqsOf
      <4> QED
        BY <4>2, <4>3
    <3>5. metadata[j].seq > metadata[i].seq
      BY <1>1, <3>2, <3>4
    <3> QED
      BY <2>2, <3>3, <3>5 DEF Previous
  <2> QED
    BY <2>1, <2>2
<1>8. ASSUME NEW k \in 1 .. m PROVE RowInv(other, chosen[k], beside[k], Previous(beside, k))
  <2> DEFINE i == indices[k] + 1
  <2>1. i \in 1 .. n /\ chosen[k] = rows[i] /\ beside[k] = metadata[i]
    BY <1>3, <1>5, <1>6
  <2> HIDE DEF i
  <2>2. RowInv(header, rows[i], metadata[i], Previous(metadata, i))
    BY <1>1, <2>1
  <2>3. metadata[i].seq > Previous(beside, k)
    BY <1>7, <2>1
  <2>4. RowInv(other, rows[i], metadata[i], Previous(beside, k))
    BY <2>2, <2>3, RowInvKept
  <2> QED
    BY <2>1, <2>4
<1>9. RowsInv(other, chosen, beside)
  BY <1>3, <1>6, <1>8 DEF RowsInv
<1>10. \A k \in 1 .. Len(beside) : \E i \in 1 .. Len(metadata) : beside[k] = metadata[i]
  BY <1>1, <1>5, <1>6
<1>11. m <= n
  <2> DEFINE far == {k \in Nat : k + 1 <= m => indices[k + 1] >= k}
  <2>1. 0 \in far
    <3>1. 0 + 1 <= m => 1 \in 1 .. m
      BY <1>3
    <3> QED
      BY <1>3, <3>1
  <2>2. ASSUME NEW k \in Nat, k \in far PROVE k + 1 \in far
    <3> SUFFICES ASSUME (k + 1) + 1 <= m PROVE indices[(k + 1) + 1] >= k + 1
      OBVIOUS
    <3>1. k + 1 <= m /\ k + 1 \in 1 .. m - 1 /\ k + 1 \in 1 .. m /\ (k + 1) + 1 \in 1 .. m
      BY <1>3
    <3>2. /\ indices[k + 1] \in Nat /\ indices[(k + 1) + 1] \in Nat
          /\ indices[k + 1] < indices[(k + 1) + 1] /\ indices[k + 1] >= k
      BY <1>3, <2>2, <3>1
    <3> QED
      BY <3>2
  <2> HIDE DEF far
  <2>3. \A k \in Nat : k \in far
    BY <2>1, <2>2, Induction
  <2>4. CASE m = 0
    BY <1>1, <2>4
  <2>5. CASE m # 0
    <3>1. m - 1 \in Nat /\ (m - 1) + 1 = m /\ m \in 1 .. m
      BY <1>3, <2>5
    <3>2. indices[m] >= m - 1 /\ indices[m] < n /\ indices[m] \in Nat
      BY <1>3, <2>3, <3>1 DEF far
    <3> QED
      BY <1>1, <1>3, <3>2
  <2> QED
    BY <2>4, <2>5
<1> QED
  BY <1>1, <1>6, <1>9, <1>10, <1>11 DEF beside

\* A document from which rows were picked.
IsSelection(d, spec, d2) ==
  /\ EntriesOf(d2) = Chosen(EntriesOf(d), {spec})
  /\ d2.end.scope.filter = Append(d.end.scope.filter, spec)
  /\ d2.end.scope.omitted = d.end.scope.omitted
  /\ d2.end.capture = d.end.capture

\* What a selection keeps of the scope is still a range around what it holds.
LEMMA RangesNarrow ==
  ASSUME NEW metadata \in Seq(Metadata), Growing(metadata), SeqsOf(metadata),
         NEW beside \in Seq(Metadata), Growing(beside), SeqsOf(beside),
         \A k \in 1 .. Len(beside) : \E i \in 1 .. Len(metadata) : beside[k] = metadata[i],
         NEW scope, scope \in Scopes, Within(First(metadata), Final(metadata), scope)
  PROVE  Within(First(beside), Final(beside), scope)
<1> DEFINE n == Len(metadata)
           m == Len(beside)
<1>1. n \in Nat /\ m \in Nat
  BY LenProperties
<1>2. /\ First(metadata) \in SUBSET Nat /\ Final(metadata) \in SUBSET Nat
      /\ n # 0 => First(metadata) = {metadata[1].seq} /\ Final(metadata) = {metadata[n].seq}
  BY Bounds
<1>3. /\ m = 0 => First(beside) = {} /\ Final(beside) = {}
      /\ m # 0 => First(beside) = {beside[1].seq} /\ Final(beside) = {beside[m].seq}
  BY Bounds
<1>4. PICK f \in scope.first, l \in scope.last :
        (\A s \in First(metadata) : s >= f) /\ (\A s \in Final(metadata) : s <= l)
  BY DEF Within
<1>5. f \in Nat /\ l \in Nat
  BY DEF Scopes
<1> HIDE DEF n, m
<1>6. CASE m = 0
  BY <1>3, <1>4, <1>6 DEF Within
<1>7. CASE m # 0
  <2>1. 1 \in 1 .. m /\ m \in 1 .. m
    BY <1>1, <1>7
  <2>2. PICK i \in 1 .. n : beside[1] = metadata[i]
    BY <2>1 DEF m, n
  <2>3. PICK j \in 1 .. n : beside[m] = metadata[j]
    BY <2>1 DEF m, n
  <2>4. n # 0 /\ 1 \in 1 .. n /\ n \in 1 .. n /\ 1 <= i /\ j <= n
    BY <1>1, <2>2
  <2>5. /\ metadata[i].seq - metadata[1].seq >= i - 1 /\ metadata[n].seq - metadata[j].seq >= n - j
        /\ metadata[i].seq \in Nat /\ metadata[1].seq \in Nat /\ metadata[j].seq \in Nat
        /\ metadata[n].seq \in Nat
    BY <2>4 DEF Growing, SeqsOf, n
  <2>6. metadata[1].seq >= f /\ metadata[n].seq <= l
    BY <1>2, <1>4, <2>4
  <2>7. metadata[i].seq >= f /\ metadata[j].seq <= l
    <3> DEFINE p == metadata[1].seq
               q == metadata[i].seq
               s == metadata[j].seq
               t == metadata[n].seq
    <3>1. p \in Nat /\ q \in Nat /\ s \in Nat /\ t \in Nat /\ q - p >= i - 1 /\ t - s >= n - j
          /\ p >= f /\ t <= l
      BY <2>5, <2>6
    <3> HIDE DEF p, q, s, t
    <3>2. q >= f /\ s <= l
      BY <1>1, <1>5, <2>4, <3>1
    <3> QED
      BY <3>2 DEF q, s
  <2>8. (\A s \in First(beside) : s >= f) /\ (\A s \in Final(beside) : s <= l)
    BY <1>3, <1>7, <2>2, <2>3, <2>7
  <2> QED
    BY <2>8 DEF Within
<1> QED
  BY <1>6, <1>7

LEMMA SelectedIs ==
  ASSUME NEW d, DocInv(d), NEW spec \in SUBSET Texts, NEW a \in Nat
  PROVE  \E d2 : Selected(d, spec, a) = {d2} /\ DocInv(d2) /\ IsSelection(d, spec, d2)
<1> DEFINE rows == EntriesOf(d)
           indices == IndicesOf(d.entries, spec)
           chosen == Chosen(rows, {spec})
           beside == PickedMeta(d.metadata, indices)
           header == [d.header EXCEPT !.derived = {d.header.artifact}, !.artifact = a]
           scope == [d.end.scope EXCEPT !.kind = "filtered", !.filter = Append(@, spec)]
           store == RowsAt(d.entries, indices)
           end == MakeEnd(header, beside, scope, d.end.capture)
           d2 == Document(header, store, beside, end)
<1>1. /\ d.header \in Headers /\ StoreInv(d.entries) /\ d.metadata \in Seq(Metadata)
      /\ d.end \in Ends /\ RowsInv(d.header, rows, d.metadata) /\ Len(d.metadata) \in Nat
      /\ HeaderIsValid(d.header)
      /\ EndIsValid(d.header, d.end, Len(d.metadata), First(d.metadata), Final(d.metadata))
  BY DocParts DEF DocInv
<1>2. Selected(d, spec, a) = {x \in {d2} : IsValid(x)}
  BY Zenon DEF Selected, PickedMeta
<1>3. Picked(rows, Len(rows), indices, chosen)
  BY <1>1, IndicesArePicked DEF EntriesOf
<1>4. /\ header \in Headers /\ header.session = d.header.session /\ header.artifact = a
      /\ HeaderIsValid(header)
  <2>1. d.header.artifact \in Nat
    BY <1>1 DEF Headers
  <2>2. header \in Headers
    BY <1>1, <2>1 DEF Headers
  <2>3. /\ header.session = d.header.session /\ header.artifact = a
        /\ header.current = d.header.current
    BY <1>1 DEF Headers
  <2> QED
    BY <1>1, <2>2, <2>3 DEF HeaderIsValid
<1>5. /\ scope \in Scopes /\ scope.kind = "filtered"
      /\ scope.filter = Append(d.end.scope.filter, spec)
      /\ scope.first = d.end.scope.first /\ scope.last = d.end.scope.last
      /\ scope.count = d.end.scope.count /\ scope.omitted = d.end.scope.omitted
  <2>1. d.end.scope \in Scopes
    BY <1>1 DEF Ends
  <2>2. Append(d.end.scope.filter, spec) \in Seq(SUBSET Texts)
    BY <2>1 DEF Scopes
  <2>3. scope \in Scopes
    BY <2>1, <2>2 DEF Scopes
  <2> QED
    BY <2>1, <2>3 DEF Scopes
<1>6. StoreInv(store) /\ Rows(store) = chosen
  BY <1>1, <1>3, RowsAtIndices DEF EntriesOf
<1> HIDE DEF header, scope, store, chosen, indices
<1>7. /\ RowsInv(header, chosen, beside) /\ Len(beside) <= Len(d.metadata)
      /\ \A k \in 1 .. Len(beside) : \E i \in 1 .. Len(d.metadata) : beside[k] = d.metadata[i]
  <2> HIDE DEF rows
  <2> QED
    BY <1>1, <1>3, <1>4, PickedRows
<1> HIDE DEF beside
<1>8. beside \in Seq(Metadata) /\ Len(beside) \in Nat
  BY <1>7, LenProperties DEF RowsInv
<1>9. Growing(beside) /\ SeqsOf(beside) /\ Growing(d.metadata) /\ SeqsOf(d.metadata)
  BY <1>1, <1>7, RowsGrow
<1>10. /\ RangeFits(Len(beside), First(beside), Final(beside))
       /\ First(beside) \in SUBSET Nat /\ Final(beside) \in SUBSET Nat
  BY <1>8, <1>9, Bounds
<1>11. /\ end.artifact = a /\ end.finalized = TRUE /\ end.record_count = Len(beside)
       /\ end.first_seq = First(beside) /\ end.last_seq = Final(beside)
       /\ end.scope = scope /\ end.capture = d.end.capture
  BY <1>4 DEF MakeEnd
<1>12. end \in Ends
  <2>1. d.end.capture \in {"unknown", "partial", "other"} /\ header.artifact \in Nat
    BY <1>1, <1>4 DEF Ends
  <2> QED
    BY <1>5, <1>8, <1>10, <2>1 DEF MakeEnd, Ends
<1> HIDE DEF end
<1>13. EndIsValid(header, end, Len(beside), First(beside), Final(beside))
  <2>1. /\ d.end.capture \in {"unknown", "partial"}
        /\ d.end.record_count = Len(d.metadata)
        /\ d.end.scope.count >= d.end.record_count
        /\ RangeFits(d.end.scope.count, d.end.scope.first, d.end.scope.last)
        /\ d.end.scope.count > 0 => Within(First(d.metadata), Final(d.metadata), d.end.scope)
    BY <1>1 DEF EndIsValid
  <2>2. d.end.scope \in Scopes /\ d.end.scope.count \in Nat
    BY <1>1 DEF Ends, Scopes
  <2>3. end.scope.filter # <<>>
    <3>1. d.end.scope.filter \in Seq(SUBSET Texts)
      BY <2>2 DEF Scopes
    <3>2. Len(Append(d.end.scope.filter, spec)) = Len(d.end.scope.filter) + 1
          /\ Len(d.end.scope.filter) \in Nat /\ Len(<<>>) = 0
      BY <3>1, AppendProperties, LenProperties, EmptySeq
    <3> QED
      BY <1>5, <1>11, <3>2
  <2>4. end.scope.count >= end.record_count
    BY <1>1, <1>5, <1>7, <1>8, <1>11, <2>1, <2>2
  <2>5. ASSUME d.end.scope.count > 0 PROVE Within(First(beside), Final(beside), d.end.scope)
    BY <1>1, <1>7, <1>8, <1>9, <2>1, <2>2, <2>5, RangesNarrow
  <2>6. end.scope.count > 0 => Within(First(beside), Final(beside), end.scope)
    BY <1>5, <1>11, <2>5 DEF Within
  <2>7. /\ end.finalized /\ end.artifact = header.artifact /\ end.record_count = Len(beside)
        /\ end.first_seq = First(beside) /\ end.last_seq = Final(beside)
        /\ end.capture \in {"unknown", "partial"} /\ end.scope.kind = "filtered"
        /\ RangeFits(end.scope.count, end.scope.first, end.scope.last)
    BY <1>4, <1>5, <1>11, <2>1
  <2>8. end.scope.kind \in {"retained", "filtered"}
    BY <2>7
  <2> QED
    BY <1>4, <1>10, <2>3, <2>4, <2>6, <2>7, <2>8 DEF EndIsValid
<1>14. /\ d2.header = header /\ d2.entries = store /\ d2.metadata = beside /\ d2.end = end
       /\ d2 \in Docs
  <2>1. store \in Stores
    BY <1>6 DEF StoreInv
  <2> QED
    BY <1>4, <1>8, <1>12, <2>1 DEF Document, Docs
<1> HIDE DEF d2
<1>15. EntriesOf(d2) = chosen
  BY <1>6, <1>14 DEF EntriesOf
<1>16. DocInv(d2)
  BY <1>4, <1>6, <1>7, <1>13, <1>14, <1>15 DEF DocInv
<1>17. IsValid(d2)
  BY <1>16, SoundIsValid
<1>18. Selected(d, spec, a) = {d2}
  BY <1>2, <1>17
<1>19. IsSelection(d, spec, d2)
  BY <1>5, <1>11, <1>14, <1>15 DEF IsSelection, chosen
<1> QED
  BY <1>16, <1>18, <1>19

-------------------------------------------------------------------------------
(* The document of the live view.                                          *)

\* Rows on screen carry the last numbers of the session, without a gap.
LEMMA ShownAreNumbered ==
  ASSUME CaptureInv
  PROVE  LET r == Rows(live.store)
         IN /\ r \in Seq(Entries) /\ Len(r) \in Nat /\ live.last_seq \in Nat /\ Len(r) <= live.last_seq
            /\ live.last_seq \in 0 .. MaxSeq
            /\ live.store.len = Len(r)
            /\ \A k \in 1 .. Len(r) : IsLiveRow(r[k], live.last_seq - Len(r) + k)
<1> DEFINE r == Rows(live.store)
           n == Len(r)
           m == Len(sent)
           last == live.last_seq
           tail == SubSeq(sent, m - n + 1, m)
<1>1. /\ live \in Lives /\ live.store \in Stores /\ live.store.len = n
      /\ sent \in Seq(Entries) /\ Kept(sent, r) /\ m <= last
      /\ \A k \in 1 .. m : IsLiveRow(sent[k], last - m + k)
  BY DEF CaptureInv, ViewInv, StoreInv, TotalsInv, Numbered
<1>2. r \in Seq(Entries) /\ n \in Nat /\ m \in Nat /\ last \in Nat /\ last \in 0 .. MaxSeq
  BY <1>1, StoreRowsType, LenProperties, ViewNumbers
<1>3. n <= m /\ tail = r
  BY <1>1, <1>2, KeptIsShorter
<1> HIDE DEF r
<1>4. \A k \in 1 .. n : r[k] = sent[m - n + k]
  <2>1. (m - n + 1) \in Nat /\ (IF m - n + 1 <= m THEN m - (m - n + 1) + 1 ELSE 0) = n
    BY <1>2, <1>3
  <2>2. \A k \in m - n + 1 .. m : sent[k] \in Entries
    <3>1. \A k \in m - n + 1 .. m : k \in 1 .. m
      BY <1>2, <1>3
    <3> QED
      BY <1>1, <3>1, LenProperties
  <2> HIDE DEF m, n
  <2>3. \A k \in 1 .. m - (m - n + 1) + 1 : tail[k] = sent[(m - n + 1) + k - 1]
    BY <1>2, <1>3, <2>1, <2>2, SubSeqProperties
  <2> HIDE DEF tail
  <2>4. m - (m - n + 1) + 1 = n
    BY <1>2
  <2>5. ASSUME NEW k \in 1 .. n PROVE (m - n + 1) + k - 1 = m - n + k
    BY <1>2
  <2> QED
    BY <1>3, <2>3, <2>4, <2>5
<1>5. ASSUME NEW k \in 1 .. n PROVE IsLiveRow(r[k], last - n + k)
  <2>1. m - n + k \in 1 .. m /\ last - m + (m - n + k) = last - n + k
    BY <1>2, <1>3
  <2>2. IsLiveRow(sent[m - n + k], last - m + (m - n + k))
    BY <1>1, <2>1
  <2> QED
    BY <1>4, <2>1, <2>2
<1>6. n <= last
  BY <1>1, <1>2, <1>3
<1> QED
  BY <1>1, <1>2, <1>5, <1>6 DEF r

\* What stands beside a live row, and that a document may hold both.
LEMMA LiveRowFits ==
  ASSUME NEW row, NEW seq \in 1 .. MaxSeq, IsLiveRow(row, seq), NEW header,
         header.session = Sessions, NEW previous, seq > previous
  PROVE  /\ row.identity # {} /\ PlainMeta(row) \in Metadata /\ PlainMeta(row).seq = seq
         /\ RowInv(header, row, PlainMeta(row), previous)
<1> DEFINE meta == PlainMeta(row)
<1>1. PICK session \in Sessions :
        row.identity = {[session |-> session, seq |-> seq, in_order |-> TRUE]}
  BY DEF IsLiveRow
<1> DEFINE i == [session |-> session, seq |-> seq, in_order |-> TRUE]
<1>2. Only(row.identity) = i
  BY <1>1 DEF Only
<1>3. i.seq = seq /\ i.session = session /\ i.in_order = TRUE
  OBVIOUS
<1> HIDE DEF i
<1>4. /\ meta = [seq |-> seq, event_kind |-> IF row.kind = "marker" THEN {"logcat_marker"} ELSE {},
                 process_source |-> {}, ext |-> {}, reserved |-> FALSE]
  BY <1>2, <1>3 DEF PlainMeta
<1>5. /\ meta.seq = seq /\ meta.process_source = {} /\ meta.ext = {} /\ meta.reserved = FALSE
      /\ meta.event_kind = (IF row.kind = "marker" THEN {"logcat_marker"} ELSE {})
  BY <1>4
<1>6. meta \in Metadata
  <2>1. (IF row.kind = "marker" THEN {"logcat_marker"} ELSE {}) \in Events
    BY DEF Events, AtMostOne
  <2>2. seq \in 0 .. MaxSeq /\ {} \in Sources /\ {} \in SUBSET Parents
    BY LiveConstants DEF Sources, AtMostOne
  <2> HIDE DEF meta
  <2> QED
    BY <1>4, <2>1, <2>2 DEF Metadata
<1> HIDE DEF meta
<1>7. Sessions = {session}
  BY DocumentsAssumption
<1>8. /\ row.kind = "marker" <=> meta.event_kind # {}
  BY <1>5
<1>9. SourceFits(row, meta)
  <2>1. SourceFits(row, [process_source |-> {}])
    BY DEF IsLiveRow
  <2>2. [process_source |-> {}].process_source = {}
    OBVIOUS
  <2> QED
    BY <1>5, <2>1, <2>2 DEF SourceFits
<1>10. \E j \in row.identity : header.session = {j.session} /\ j.seq = meta.seq /\ j.in_order
  BY <1>1, <1>3, <1>5, <1>7 DEF i
<1>11. RowFits(header, row, meta, previous)
  BY <1>5, <1>8, <1>9, <1>10 DEF RowFits
<1>12. ProtoFits(row)
  BY DEF IsLiveRow, ProtoFits
<1>13. RowInv(header, row, meta, previous)
  BY <1>5, <1>11, <1>12 DEF RowInv, RowIsValid
<1> QED
  BY <1>1, <1>5, <1>6, <1>13 DEF meta

\* A document that says what the view shows.
IsSnapshot(d, rows, omitted, capture) ==
  /\ EntriesOf(d) = rows /\ d.end.scope.filter = <<>> /\ d.end.scope.omitted = omitted
  /\ d.end.capture = capture

LEMMA SnapshotIs ==
  ASSUME CaptureInv, NEW a \in Nat
  PROVE  \E d : /\ FromSnapshot(LiveSnapshot(a)) = {d} /\ DocInv(d)
                /\ IsSnapshot(d, Rows(live.store), {live.last_seq - live.store.len},
                              Completeness(live.facts))
<1> DEFINE s == LiveSnapshot(a)
           rows == Rows(live.store)
           n == Len(rows)
           last == live.last_seq
           header == s.header
           metadata == [k \in DOMAIN rows |-> PlainMeta(rows[k])]
           scope == [s.scope EXCEPT !.first = First(metadata), !.last = Final(metadata),
                                    !.count = Len(metadata)]
           end == MakeEnd(s.header, metadata, scope, s.capture)
           d == Document(s.header, s.entries, metadata, end)
<1>1. /\ rows \in Seq(Entries) /\ n \in Nat /\ last \in Nat /\ n <= last /\ last \in 0 .. MaxSeq
      /\ live.store.len = n /\ DOMAIN rows = 1 .. n
      /\ \A k \in 1 .. n : IsLiveRow(rows[k], last - n + k)
  <2>1. /\ rows \in Seq(Entries) /\ n \in Nat /\ last \in Nat /\ n <= last /\ last \in 0 .. MaxSeq
        /\ live.store.len = n
        /\ \A k \in 1 .. n : IsLiveRow(rows[k], last - n + k)
    BY ShownAreNumbered
  <2> QED
    BY <2>1, LenProperties
<1>2. /\ s.header = [artifact |-> a, session |-> Sessions, derived |-> {}, current |-> TRUE]
      /\ s.entries = live.store /\ s.capture = Completeness(live.facts)
      /\ s.scope = [kind |-> "retained", first |-> {}, last |-> {}, count |-> 0,
                    omitted |-> {last - live.store.len}, filter |-> <<>>,
                    removed |-> live.facts.retention_removed,
                    cleared |-> live.facts.cleared_records]
  BY DEF LiveSnapshot
<1>3. FromSnapshot(s) = IF \E k \in DOMAIN rows : rows[k].identity = {} THEN {}
                        ELSE {x \in {d} : IsValid(x)}
  BY <1>2, Zenon DEF FromSnapshot
<1>4. /\ StoreInv(live.store) /\ live.facts.retention_removed \in Nat
      /\ live.facts.cleared_records \in Nat
  BY ViewNumbers DEF CaptureInv, ViewInv
<1> HIDE DEF s, rows
<1>5. /\ header \in Headers /\ header.session = Sessions /\ header.artifact = a
      /\ HeaderIsValid(header)
  <2>1. /\ header.session = Sessions /\ header.artifact = a /\ header.derived = {}
        /\ header.current = TRUE
    BY <1>2
  <2>2. Sessions # {} /\ Sessions \in SUBSET Sessions
    BY DocumentsAssumption
  <2>3. header \in Headers
    BY <1>2, <2>2 DEF Headers
  <2> QED
    BY <2>1, <2>2, <2>3 DEF HeaderIsValid
<1> HIDE DEF header
<1>6. ASSUME NEW k \in 1 .. n
      PROVE  /\ rows[k].identity # {} /\ metadata[k] = PlainMeta(rows[k]) /\ metadata[k] \in Metadata
             /\ metadata[k].seq = last - n + k
             /\ \A previous : last - n + k > previous =>
                  RowInv(header, rows[k], metadata[k], previous)
  <2>1. last - n + k \in 1 .. MaxSeq /\ IsLiveRow(rows[k], last - n + k)
    BY <1>1, LiveConstants
  <2>2. metadata[k] = PlainMeta(rows[k])
    BY <1>1
  <2> HIDE DEF metadata, n, last
  <2>3. ASSUME NEW previous, last - n + k > previous
        PROVE  /\ rows[k].identity # {} /\ PlainMeta(rows[k]) \in Metadata
               /\ PlainMeta(rows[k]).seq = last - n + k
               /\ RowInv(header, rows[k], PlainMeta(rows[k]), previous)
    BY <1>5, <2>1, <2>3, LiveRowFits
  <2>4. last - n + k > 0
    BY <2>1, LiveConstants
  <2> QED
    BY <2>2, <2>3, <2>4
<1>7. metadata \in Seq(Metadata) /\ Len(metadata) = n
  <2>1. metadata \in [1 .. n -> Metadata]
    <3>1. metadata = [k \in 1 .. n |-> metadata[k]]
      BY <1>1
    <3> HIDE DEF metadata
    <3> QED
      BY <1>6, <3>1
  <2> HIDE DEF metadata
  <2> QED
    BY <1>1, <2>1, SeqDef, LenProperties
<1> HIDE DEF metadata
<1>8. RowsInv(header, rows, metadata)
  <2>1. ASSUME NEW k \in 1 .. n PROVE last - n + k > Previous(metadata, k)
    <3>1. CASE k = 1
      BY <1>1, <3>1 DEF Previous
    <3>2. CASE k # 1
      <4>1. k - 1 \in 1 .. n
        BY <1>1, <3>2
      <4>2. metadata[k - 1].seq = last - n + (k - 1)
        BY <1>6, <4>1
      <4> QED
        BY <1>1, <3>2, <4>2 DEF Previous
    <3> QED
      BY <3>1, <3>2
  <2>2. \A k \in 1 .. n : RowInv(header, rows[k], metadata[k], Previous(metadata, k))
    BY <1>6, <2>1
  <2> QED
    BY <1>1, <1>7, <2>2 DEF RowsInv
<1>9. Growing(metadata) /\ SeqsOf(metadata)
  BY <1>8, RowsGrow
<1>10. /\ RangeFits(n, First(metadata), Final(metadata))
       /\ First(metadata) \in SUBSET Nat /\ Final(metadata) \in SUBSET Nat
       /\ n # 0 => /\ First(metadata) = {metadata[1].seq}
                   /\ Final(metadata) = {metadata[n].seq}
  BY <1>7, <1>9, Bounds
<1>11. /\ scope.kind = "retained" /\ scope.first = First(metadata) /\ scope.last = Final(metadata)
       /\ scope.count = n /\ scope.filter = <<>> /\ scope.omitted = {last - live.store.len}
       /\ scope \in Scopes
  <2>1. <<>> \in Seq(SUBSET Texts) /\ {last - live.store.len} \in SUBSET Nat
    BY <1>1, EmptySeq
  <2>2. s.scope \in Scopes
    BY <1>2, <1>4, <2>1 DEF Scopes
  <2>3. scope \in Scopes
    BY <1>1, <1>7, <1>10, <2>2 DEF Scopes
  <2>4. /\ scope.kind = s.scope.kind /\ scope.filter = s.scope.filter
        /\ scope.omitted = s.scope.omitted /\ scope.first = First(metadata)
        /\ scope.last = Final(metadata) /\ scope.count = n
    BY <1>7, <2>2 DEF Scopes
  <2>5. s.scope.kind = "retained" /\ s.scope.filter = <<>>
        /\ s.scope.omitted = {last - live.store.len}
    BY <1>2
  <2> QED
    BY <2>3, <2>4, <2>5
<1> HIDE DEF scope
<1>12. s.capture = Completeness(live.facts) /\ s.capture \in {"unknown", "partial"}
  BY <1>2 DEF Completeness
<1>13. /\ end.artifact = a /\ end.finalized = TRUE /\ end.record_count = n
       /\ end.first_seq = First(metadata) /\ end.last_seq = Final(metadata)
       /\ end.scope = scope /\ end.capture = s.capture
  BY <1>5, <1>7 DEF MakeEnd, header
<1>14. end \in Ends
  <2>1. s.capture \in {"unknown", "partial", "other"} /\ s.header.artifact \in Nat
    BY <1>5, <1>12 DEF header
  <2> QED
    BY <1>1, <1>7, <1>10, <1>11, <2>1 DEF MakeEnd, Ends
<1> HIDE DEF end
<1>15. EndIsValid(header, end, Len(metadata), First(metadata), Final(metadata))
  <2>1. n > 0 => Within(First(metadata), Final(metadata), scope)
    <3> SUFFICES ASSUME n > 0 PROVE Within(First(metadata), Final(metadata), scope)
      OBVIOUS
    <3>1. First(metadata) = {metadata[1].seq} /\ Final(metadata) = {metadata[n].seq}
      BY <1>10
    <3>2. 1 \in 1 .. n /\ n \in 1 .. n
      BY <1>1
    <3>3. metadata[1].seq \in Nat /\ metadata[n].seq \in Nat
      BY <1>7, <1>9, <3>2 DEF SeqsOf
    <3> QED
      BY <1>11, <3>1, <3>3 DEF Within
  <2>2. /\ end.scope.count = n /\ end.scope.kind = "retained" /\ end.scope.filter = <<>>
        /\ end.scope.first = First(metadata) /\ end.scope.last = Final(metadata)
        /\ end.scope = scope
    BY <1>11, <1>13
  <2>3. /\ end.scope.count >= end.record_count /\ end.capture \in {"unknown", "partial"}
        /\ end.artifact = header.artifact /\ end.record_count = Len(metadata)
    BY <1>1, <1>5, <1>7, <1>12, <1>13, <2>2
  <2>4. end.scope.kind \in {"retained", "filtered"} /\ end.scope.kind # "filtered"
    BY <2>2
  <2>5. RangeFits(Len(metadata), First(metadata), Final(metadata))
    BY <1>7, <1>10
  <2>6. RangeFits(end.scope.count, end.scope.first, end.scope.last)
    BY <1>10, <2>2
  <2>7. end.scope.count > 0 => Within(First(metadata), Final(metadata), end.scope)
    BY <2>1, <2>2
  <2>8. end.scope.count = end.record_count /\ end.scope.first = end.first_seq
        /\ end.scope.last = end.last_seq
    BY <1>13, <2>2
  <2>9. end.scope.kind = "filtered" <=> end.scope.filter # <<>>
    BY <2>2, <2>4
  <2> QED
    BY <1>5, <1>13, <2>3, <2>4, <2>5, <2>6, <2>7, <2>8, <2>9 DEF EndIsValid
<1>16. /\ d.header = header /\ d.entries = live.store /\ d.metadata = metadata /\ d.end = end
       /\ d \in Docs
  <2>1. live.store \in Stores /\ s.header \in Headers
    BY <1>4, <1>5 DEF StoreInv, header
  <2> QED
    BY <1>2, <1>7, <1>14, <2>1 DEF Document, Docs, header
<1> HIDE DEF d
<1>17. EntriesOf(d) = rows
  BY <1>16 DEF EntriesOf, rows
<1>18. DocInv(d)
  BY <1>4, <1>5, <1>8, <1>15, <1>16, <1>17 DEF DocInv
<1>19. FromSnapshot(s) = {d}
  <2>1. IsValid(d)
    BY <1>18, SoundIsValid
  <2>2. \A k \in DOMAIN rows : rows[k].identity # {}
    BY <1>1, <1>6
  <2> QED
    BY <1>3, <2>1, <2>2
<1>20. IsSnapshot(d, rows, {last - live.store.len}, Completeness(live.facts))
  BY <1>11, <1>12, <1>13, <1>16, <1>17 DEF IsSnapshot
<1> QED
  BY <1>18, <1>19, <1>20 DEF s, rows

-------------------------------------------------------------------------------
(* Jobs.                                                                   *)

\* What was asked for, and lines that say it.
IsOrder(order) ==
  order = [rows |-> order.rows, lines |-> order.lines, gap |-> order.gap,
           filters |-> order.filters, omitted |-> order.omitted, intact |-> order.intact]

Written(lines, order) ==
  \E d : /\ DocInv(d) /\ lines = Lines(d) /\ EntriesOf(d) = order.rows
         /\ d.end.scope.filter = order.filters /\ d.end.scope.omitted = order.omitted
         /\ d.end.capture = "partial" <=> order.gap
         /\ order.lines # <<>> => lines = order.lines

\* What was asked for of a document.
AsksOf(d, spec, order) ==
  /\ order.rows = Chosen(EntriesOf(d), spec)
  /\ order.filters = (IF spec = {} THEN d.end.scope.filter
                      ELSE Append(d.end.scope.filter, Only(spec)))
  /\ order.omitted = d.end.scope.omitted
  /\ d.end.capture = "partial" <=> order.gap
  /\ order.lines # <<>> => order.lines = Lines(d) /\ spec = {}

Job(action, path, source, spec, order, pc, lines, written, cancelled) ==
  [action |-> action, path |-> path, source |-> source, spec |-> spec, order |-> order,
   pc |-> pc, lines |-> lines, written |-> written, cancelled |-> cancelled]

IsJob(j) ==
  j = Job(j.action, j.path, j.source, j.spec, j.order, j.pc, j.lines, j.written, j.cancelled)

LEMMA JobFields ==
  ASSUME NEW a, NEW p, NEW s, NEW f, NEW o, NEW c, NEW l, NEW w, NEW x
  PROVE  LET j == Job(a, p, s, f, o, c, l, w, x)
         IN /\ IsJob(j) /\ j.action = a /\ j.path = p /\ j.source = s /\ j.spec = f /\ j.order = o
            /\ j.pc = c /\ j.lines = l /\ j.written = w /\ j.cancelled = x
<1> DEFINE j == Job(a, p, s, f, o, c, l, w, x)
<1>1. /\ j.action = a /\ j.path = p /\ j.source = s /\ j.spec = f /\ j.order = o
      /\ j.pc = c /\ j.lines = l /\ j.written = w /\ j.cancelled = x
  BY DEF Job
<1> HIDE DEF j
<1>2. IsJob(j)
  BY <1>1 DEF IsJob, j
<1> QED
  BY <1>1, <1>2 DEF j
LEMMA NewJobIs ==
  ASSUME NEW a, NEW p, NEW s, NEW f, NEW o
  PROVE  LET j == NewJob(a, p, s, f, o)
         IN /\ IsJob(j) /\ j.action = a /\ j.path = p /\ j.source = s /\ j.spec = f /\ j.order = o
            /\ j.pc = "begin"
<1> DEFINE j == NewJob(a, p, s, f, o)
<1>1. /\ j.action = a /\ j.path = p /\ j.source = s /\ j.spec = f /\ j.order = o
      /\ j.pc = "begin" /\ j.lines = <<>> /\ j.written = 0 /\ j.cancelled = FALSE
  BY DEF NewJob
<1> HIDE DEF j
<1>2. IsJob(j)
  BY <1>1 DEF IsJob, Job, j, NewJob
<1> QED
  BY <1>1, <1>2 DEF j

JobWith(j, source, pc, lines, written, cancelled) ==
  Job(j.action, j.path, source, j.spec, j.order, pc, lines, written, cancelled)

LEMMA JobChanges ==
  ASSUME NEW j, IsJob(j)
  PROVE  /\ \A pc : [j EXCEPT !.pc = pc] = JobWith(j, j.source, pc, j.lines, j.written, j.cancelled)
         /\ \A w : [j EXCEPT !.written = w] = JobWith(j, j.source, j.pc, j.lines, w, j.cancelled)
         /\ \A pc, lines : [j EXCEPT !.pc = pc, !.lines = lines]
                             = JobWith(j, j.source, pc, lines, j.written, j.cancelled)
         /\ [j EXCEPT !.cancelled = TRUE] = JobWith(j, j.source, j.pc, j.lines, j.written, TRUE)
<1>1. j = [action |-> j.action, path |-> j.path, source |-> j.source, spec |-> j.spec,
           order |-> j.order, pc |-> j.pc, lines |-> j.lines, written |-> j.written,
           cancelled |-> j.cancelled]
  BY DEF IsJob, Job
<1> DEFINE Shape(S, P, L, C) ==
             [action : {j.action}, path : {j.path}, source : S, spec : {j.spec},
              order : {j.order}, pc : P, lines : L, written : {j.written}, cancelled : C]
<1>2. ASSUME NEW pc
      PROVE  [j EXCEPT !.pc = pc] = JobWith(j, j.source, pc, j.lines, j.written, j.cancelled)
  BY <1>1 DEF JobWith, Job
<1>3. ASSUME NEW w
      PROVE  [j EXCEPT !.written = w] = JobWith(j, j.source, j.pc, j.lines, w, j.cancelled)
  BY <1>1 DEF JobWith, Job
<1>5. ASSUME NEW pc, NEW lines
      PROVE  [j EXCEPT !.pc = pc, !.lines = lines]
               = JobWith(j, j.source, pc, lines, j.written, j.cancelled)
  <2> DEFINE x == [j EXCEPT !.pc = pc, !.lines = lines]
  <2>1. /\ x.action = j.action /\ x.path = j.path /\ x.source = j.source /\ x.spec = j.spec
        /\ x.order = j.order /\ x.pc = pc /\ x.lines = lines /\ x.written = j.written
        /\ x.cancelled = j.cancelled
    BY <1>1
  <2>2. x \in Shape({j.source}, {j.pc, pc}, {j.lines, lines}, {j.cancelled})
    BY <1>1
  <2> HIDE DEF x
  <2>3. x = JobWith(j, j.source, pc, lines, j.written, j.cancelled)
    BY <2>1, <2>2 DEF JobWith, Job
  <2> QED
    BY <2>3 DEF x
<1>6. [j EXCEPT !.cancelled = TRUE] = JobWith(j, j.source, j.pc, j.lines, j.written, TRUE)
  <2> DEFINE x == [j EXCEPT !.cancelled = TRUE]
  <2>1. /\ x.action = j.action /\ x.path = j.path /\ x.source = j.source /\ x.spec = j.spec
        /\ x.order = j.order /\ x.pc = j.pc /\ x.lines = j.lines /\ x.written = j.written
        /\ x.cancelled = TRUE
    BY <1>1
  <2>2. x \in Shape({j.source}, {j.pc}, {j.lines}, {j.cancelled, TRUE})
    BY <1>1
  <2> HIDE DEF x
  <2>3. x = JobWith(j, j.source, j.pc, j.lines, j.written, TRUE)
    BY <2>1, <2>2 DEF JobWith, Job
  <2> QED
    BY <2>3 DEF x
<1> QED
  BY <1>2, <1>3, <1>5, <1>6

LEMMA JobLoads ==
  ASSUME NEW j, IsJob(j), NEW pc, NEW source, NEW lines
  PROVE  [j EXCEPT !.pc = pc, !.source = source, !.lines = lines]
           = JobWith(j, source, pc, lines, j.written, j.cancelled)
<1> DEFINE x == [j EXCEPT !.pc = pc, !.source = source, !.lines = lines]
<1>1. j = [action |-> j.action, path |-> j.path, source |-> j.source, spec |-> j.spec,
           order |-> j.order, pc |-> j.pc, lines |-> j.lines, written |-> j.written,
           cancelled |-> j.cancelled]
  BY DEF IsJob, Job
<1>2. /\ x.action = j.action /\ x.path = j.path /\ x.source = source /\ x.spec = j.spec
      /\ x.order = j.order /\ x.pc = pc /\ x.lines = lines /\ x.written = j.written
      /\ x.cancelled = j.cancelled
  BY <1>1
<1>3. x \in [action : {j.action}, path : {j.path}, source : {j.source, source}, spec : {j.spec},
             order : {j.order}, pc : {j.pc, pc}, lines : {j.lines, lines}, written : {j.written},
             cancelled : {j.cancelled}]
  BY <1>1
<1> HIDE DEF x
<1>4. x = JobWith(j, source, pc, lines, j.written, j.cancelled)
  BY <1>2, <1>3 DEF JobWith, Job
<1> QED
  BY <1>4 DEF x

\* The document that a save or a copy begins with.
Whole(j) == IF j.action = "save" THEN FromSnapshot(j.source) ELSE {j.source}

JobInv(j) ==
  /\ IsJob(j) /\ j.path \in Paths /\ j.action \in {"save", "copy", "open"}
  /\ j.pc \in {"begin", "create", "write", "link", "done", "failed"}
  /\ j.action = "open" =>
       /\ j.pc \in {"begin", "done", "failed"}
       /\ j.pc = "done" => \E d : j.source = {d} /\ DocInv(d) /\ j.lines = Lines(d)
  /\ j.action # "open" =>
       /\ j.spec \in AtMostOne(Specs) /\ IsOrder(j.order) /\ j.order.intact = TRUE
       /\ j.pc = "begin" => \E d : Whole(j) = {d} /\ DocInv(d) /\ AsksOf(d, j.spec, j.order)
       /\ j.pc \in {"create", "write", "link"} => Written(j.lines, j.order)
       /\ j.pc = "link" => j.written = Len(j.lines)

JobsInv == job = {} \/ \E j : job = {j} /\ JobInv(j)

OpenedInv ==
  opened = {} \/ \E o : opened = {o} /\ DocInv(o.document) /\ o.lines = Lines(o.document)

\* What is under a name at which something was saved.
SavedAs(lines, order) ==
  /\ IsOrder(order) /\ lines # <<>>
  /\ IF order.intact THEN Written(lines, order) ELSE Load(lines) = {}

DiskInv ==
  /\ disk \in [Paths -> Seq(FileLines)] /\ saved = [path \in Paths |-> saved[path]]
  /\ \A path \in Paths :
       saved[path] = {} \/ \E order : saved[path] = {order} /\ SavedAs(disk[path], order)

CountsInv == counts \in [jobs : Nat, saves : Nat, beside : Nat]

FilesInv == CaptureInv /\ OpenedInv /\ JobsInv /\ DiskInv /\ CountsInv

LEMMA NoLines == ASSUME NEW d, DocInv(d) PROVE Lines(d) # <<>>
<1>1. Lines(d) \in Seq(FileLines) /\ Len(Lines(d)) = Len(d.metadata) + 2 /\ Len(d.metadata) \in Nat
  BY LinesAre, DocParts DEF LinesOf
<1>2. Len(<<>>) = 0
  BY EmptySeq
<1> QED
  BY <1>1, <1>2

\* What is asked for of the live view, and of a file that is shown.
LEMMA LiveIsAsked ==
  ASSUME CaptureInv, opened = {}, NEW spec, NEW d,
         IsSnapshot(d, Rows(live.store), {live.last_seq - live.store.len},
                    Completeness(live.facts))
  PROVE  AsksOf(d, spec, Asked(spec)) /\ IsOrder(Asked(spec)) /\ Asked(spec).intact = TRUE
<1> DEFINE filters == IF spec = {} THEN <<>> ELSE <<Only(spec)>>
           order == Order(Chosen(Shown, spec), <<>>, broken.gap, filters,
                          {live.last_seq - Len(Shown)})
<1>1. Asked(spec) = order
  BY Zenon DEF Asked
<1>2. Rows(live.store) = Shown
  BY ShownIsKept
<1>3. live.store.len = Len(Shown)
  BY <1>2, ShownAreNumbered
<1>4. /\ EntriesOf(d) = Shown /\ d.end.scope.filter = <<>>
      /\ d.end.scope.omitted = {live.last_seq - Len(Shown)}
      /\ d.end.capture = Completeness(live.facts)
  BY <1>2, <1>3 DEF IsSnapshot
<1>5. d.end.capture = "partial" <=> broken.gap
  BY <1>4 DEF Completeness, CaptureInv, GapInv
<1>6. filters = (IF spec = {} THEN d.end.scope.filter ELSE Append(d.end.scope.filter, Only(spec)))
  BY <1>4
<1> HIDE DEF filters
<1>7. /\ order.rows = Chosen(Shown, spec) /\ order.lines = <<>> /\ order.gap = broken.gap
      /\ order.filters = filters /\ order.omitted = {live.last_seq - Len(Shown)}
      /\ order.intact = TRUE
  BY DEF Order
<1>8. IsOrder(order)
  BY <1>7 DEF IsOrder, Order
<1> HIDE DEF order
<1>9. AsksOf(d, spec, order)
  BY <1>4, <1>5, <1>6, <1>7 DEF AsksOf
<1> QED
  BY <1>1, <1>7, <1>8, <1>9

LEMMA FileIsAsked ==
  ASSUME NEW o, opened = {o}, o.lines = Lines(o.document), NEW spec
  PROVE  /\ AsksOf(o.document, spec, Asked(spec)) /\ IsOrder(Asked(spec))
         /\ Asked(spec).intact = TRUE
<1> DEFINE d == o.document
           end == d.end
           filters == IF spec = {} THEN end.scope.filter ELSE Append(end.scope.filter, Only(spec))
           lines == IF spec = {} THEN o.lines ELSE <<>>
           gap == end.capture = "partial"
           order == Order(Chosen(EntriesOf(d), spec), lines, gap, filters, end.scope.omitted)
<1>1. Only(opened) = o /\ opened # {}
  BY DEF Only
<1>2. Asked(spec) = order
  BY <1>1, Zenon DEF Asked
<1> HIDE DEF filters
<1>3. /\ order.rows = Chosen(EntriesOf(d), spec) /\ order.lines = lines /\ order.gap = gap
      /\ order.filters = filters /\ order.omitted = end.scope.omitted /\ order.intact = TRUE
  BY DEF Order
<1>4. IsOrder(order)
  BY <1>3 DEF IsOrder, Order
<1> HIDE DEF order
<1>5. AsksOf(d, spec, order)
  BY <1>3 DEF AsksOf, filters
<1> QED
  BY <1>2, <1>3, <1>4, <1>5

LEMMA CountsGrow ==
  ASSUME CountsInv
  PROVE  /\ counts.jobs \in Nat /\ counts.saves \in Nat /\ counts.beside \in Nat
         /\ \A b \in {0, 1} :
              [counts EXCEPT !.jobs = @ + 1, !.saves = @ + b]
                \in [jobs : Nat, saves : Nat, beside : Nat]
         /\ [counts EXCEPT !.beside = @ + 1] \in [jobs : Nat, saves : Nat, beside : Nat]
         /\ [counts EXCEPT !.beside = @ + 1].beside # counts.beside
<1>1. counts.jobs \in Nat /\ counts.saves \in Nat /\ counts.beside \in Nat
  BY DEF CountsInv
<1>2. [counts EXCEPT !.beside = @ + 1] \in [jobs : Nat, saves : Nat, beside : Nat]
  BY <1>1 DEF CountsInv
<1>3. [counts EXCEPT !.beside = @ + 1].beside # counts.beside
  BY <1>1 DEF CountsInv
<1>4. ASSUME NEW b \in {0, 1}
      PROVE  [counts EXCEPT !.jobs = @ + 1, !.saves = @ + b]
               \in [jobs : Nat, saves : Nat, beside : Nat]
  <2>1. counts.jobs + 1 \in Nat /\ counts.saves + b \in Nat
    BY <1>1
  <2> QED
    BY <2>1 DEF CountsInv
<1> QED
  BY <1>1, <1>2, <1>3, <1>4

\* A job that was asked for.
LEMMA AskedJob ==
  ASSUME FilesInv, NEW action \in {"save", "copy", "open"}, NEW path \in Paths, NEW source,
         NEW spec, NEW order, Asks(NewJob(action, path, source, spec, order)),
         JobInv(NewJob(action, path, source, spec, order))
  PROVE  OpenedInv' /\ JobsInv' /\ DiskInv' /\ CountsInv'
<1> DEFINE j == NewJob(action, path, source, spec, order)
<1>1. /\ job' = {j} /\ counts' = [counts EXCEPT !.jobs = @ + 1, !.saves = @ + One(j.action = "save")]
      /\ opened' = opened /\ disk' = disk /\ saved' = saved
  BY DEF Asks
<1> HIDE DEF j
<1>2. JobsInv'
  BY <1>1 DEF JobsInv, j
<1>3. One(j.action = "save") \in {0, 1}
  BY DEF One
<1>4. CountsInv'
  BY <1>1, <1>3, CountsGrow DEF CountsInv, FilesInv
<1> QED
  BY <1>1, <1>2, <1>4 DEF FilesInv, OpenedInv, DiskInv

LEMMA SpecsAre ==
  ASSUME NEW spec \in AtMostOne(Specs)
  PROVE  spec = {} \/ (spec # {} /\ \E x \in SUBSET Texts : spec = {x} /\ Only(spec) = x)
<1>1. spec = {} \/ \E x \in Specs : spec = {x}
  BY Options
<1>2. Specs \subseteq SUBSET Texts
  BY DocumentsAssumption
<1> QED
  BY <1>1, <1>2 DEF Only

LEMMA SaveKeeps == ASSUME FilesInv, Save PROVE OpenedInv' /\ JobsInv' /\ DiskInv' /\ CountsInv'
<1> DEFINE source == IF opened = {} THEN LiveSnapshot(counts.jobs) ELSE Only(opened).document
           action == IF opened = {} THEN "save" ELSE "copy"
<1>1. PICK path \in Paths, spec \in AtMostOne(Specs) :
        Asks(NewJob(action, path, source, spec, Asked(spec)))
  BY DEF Save
<1> DEFINE order == Asked(spec)
           j == NewJob(action, path, source, spec, order)
<1>3. action \in {"save", "copy"}
  OBVIOUS
<1>4. \E d : (IF action = "save" THEN FromSnapshot(source) ELSE {source}) = {d}
             /\ DocInv(d) /\ AsksOf(d, spec, order) /\ IsOrder(order) /\ order.intact = TRUE
  <2>1. CASE opened = {}
    <3>1. PICK d : /\ FromSnapshot(LiveSnapshot(counts.jobs)) = {d} /\ DocInv(d)
                   /\ IsSnapshot(d, Rows(live.store), {live.last_seq - live.store.len},
                                 Completeness(live.facts))
      BY CountsGrow, SnapshotIs DEF FilesInv
    <3>2. AsksOf(d, spec, order) /\ IsOrder(order) /\ order.intact = TRUE
      BY <2>1, <3>1, LiveIsAsked DEF FilesInv
    <3> HIDE DEF order
    <3> QED
      BY <2>1, <3>1, <3>2
  <2>2. CASE opened # {}
    <3>1. PICK o : opened = {o} /\ DocInv(o.document) /\ o.lines = Lines(o.document)
      BY <2>2 DEF FilesInv, OpenedInv
    <3>2. AsksOf(o.document, spec, order) /\ IsOrder(order) /\ order.intact = TRUE
      BY <3>1, FileIsAsked
    <3>3. source = o.document /\ action = "copy"
      BY <3>1 DEF Only
    <3> HIDE DEF order, source, action
    <3> QED
      BY <3>1, <3>2, <3>3
  <2> QED
    BY <2>1, <2>2
<1> HIDE DEF source, action, order
<1>5. JobInv(j)
  <2>1. /\ IsJob(j) /\ j.action = action /\ j.path = path /\ j.source = source /\ j.spec = spec
        /\ j.order = order /\ j.pc = "begin"
    BY NewJobIs
  <2> HIDE DEF j
  <2>2. \E d : Whole(j) = {d} /\ DocInv(d) /\ AsksOf(d, j.spec, j.order)
    BY <1>4, <2>1 DEF Whole
  <2>3. /\ j.action \in {"save", "copy", "open"} /\ j.action # "open"
        /\ j.pc \in {"begin", "create", "write", "link", "done", "failed"}
        /\ j.pc \notin {"create", "write", "link"} /\ j.pc # "link"
    BY <1>3, <2>1
  <2>4. j.spec \in AtMostOne(Specs) /\ IsOrder(j.order) /\ j.order.intact = TRUE
    BY <1>4, <2>1
  <2> QED
    BY <2>1, <2>2, <2>3, <2>4 DEF JobInv
<1>6. action \in {"save", "copy", "open"} /\ Asks(NewJob(action, path, source, spec, order))
  BY <1>1, <1>3 DEF source, action, order
<1> QED
  BY <1>5, <1>6, AskedJob

LEMMA OpenKeeps == ASSUME FilesInv, Open PROVE OpenedInv' /\ JobsInv' /\ DiskInv' /\ CountsInv'
<1>1. PICK path \in Paths : Asks(NewJob("open", path, {}, {}, {}))
  BY DEF Open
<1> DEFINE j == NewJob("open", path, {}, {}, {})
<1>3. JobInv(j)
  <2>1. IsJob(j) /\ j.action = "open" /\ j.path = path /\ j.pc = "begin"
    BY NewJobIs
  <2> HIDE DEF j
  <2>2. /\ j.action \in {"save", "copy", "open"} /\ j.pc \in {"begin", "done", "failed"}
        /\ j.pc \in {"begin", "create", "write", "link", "done", "failed"} /\ j.pc # "done"
    BY <2>1
  <2> QED
    BY <2>1, <2>2 DEF JobInv
<1> QED
  BY <1>1, <1>3, AskedJob

\* A step of the thread that ends in a sound job.
LEMMA WorksKeeps ==
  ASSUME FilesInv, NEW j, Works(j), JobInv(j)
  PROVE  OpenedInv' /\ JobsInv' /\ DiskInv' /\ CountsInv'
<1>1. /\ job' = {j} /\ counts' = counts /\ opened' = opened /\ disk' = disk /\ saved' = saved
  BY DEF Works
<1>2. JobsInv'
  BY <1>1 DEF JobsInv
<1> QED
  BY <1>1, <1>2 DEF FilesInv, OpenedInv, DiskInv, CountsInv

LEMMA JobIsSound == ASSUME FilesInv, NEW j \in job PROVE JobInv(j) /\ job = {j}
<1>1. PICK k : job = {k} /\ JobInv(k)
  BY DEF FilesInv, JobsInv
<1>2. j = k
  BY <1>1
<1> QED
  BY <1>1, <1>2

\* A job that only goes on, or that ends without a result.
LEMMA GoesOn ==
  ASSUME NEW j, JobInv(j), NEW pc, NEW w, NEW x,
         \/ pc = j.pc /\ w = j.written
         \/ pc = "failed"
         \/ j.pc = "create" /\ pc = "write"
         \/ j.pc = "write" /\ pc = "write"
         \/ j.pc = "write" /\ pc = "link" /\ w = Len(j.lines)
         \/ j.pc = "link" /\ pc = "done"
  PROVE  JobInv(JobWith(j, j.source, pc, j.lines, w, x))
<1> DEFINE k == JobWith(j, j.source, pc, j.lines, w, x)
<1>1. /\ IsJob(k) /\ k.action = j.action /\ k.path = j.path /\ k.source = j.source
      /\ k.spec = j.spec /\ k.order = j.order /\ k.pc = pc /\ k.lines = j.lines /\ k.written = w
  BY JobFields DEF JobWith
<1> HIDE DEF k
<1>2. /\ j.path \in Paths /\ j.action \in {"save", "copy", "open"}
      /\ j.pc \in {"begin", "create", "write", "link", "done", "failed"}
  BY DEF JobInv
<1>3. pc \in {"begin", "create", "write", "link", "done", "failed"}
  BY <1>2
<1>4. ASSUME k.action = "open"
      PROVE  /\ k.pc \in {"begin", "done", "failed"}
             /\ k.pc = "done" => \E d : k.source = {d} /\ DocInv(d) /\ k.lines = Lines(d)
  <2>1. /\ j.action = "open" /\ j.pc \in {"begin", "done", "failed"}
        /\ j.pc = "done" => \E d : j.source = {d} /\ DocInv(d) /\ j.lines = Lines(d)
    BY <1>1, <1>4 DEF JobInv
  <2>2. pc = j.pc \/ pc = "failed"
    BY <2>1
  <2> QED
    BY <1>1, <2>1, <2>2
<1>5. ASSUME k.action # "open"
      PROVE  /\ k.spec \in AtMostOne(Specs) /\ IsOrder(k.order) /\ k.order.intact = TRUE
             /\ k.pc = "begin" => \E d : Whole(k) = {d} /\ DocInv(d) /\ AsksOf(d, k.spec, k.order)
             /\ k.pc \in {"create", "write", "link"} => Written(k.lines, k.order)
             /\ k.pc = "link" => k.written = Len(k.lines)
  <2>1. /\ j.spec \in AtMostOne(Specs) /\ IsOrder(j.order) /\ j.order.intact = TRUE
        /\ j.pc = "begin" => \E d : Whole(j) = {d} /\ DocInv(d) /\ AsksOf(d, j.spec, j.order)
        /\ j.pc \in {"create", "write", "link"} => Written(j.lines, j.order)
        /\ j.pc = "link" => j.written = Len(j.lines)
    BY <1>1, <1>5 DEF JobInv
  <2>2. Whole(k) = Whole(j)
    BY <1>1 DEF Whole
  <2>3. pc = "begin" => j.pc = "begin"
    OBVIOUS
  <2>4. pc \in {"create", "write", "link"} => j.pc \in {"create", "write", "link"}
    OBVIOUS
  <2>5. pc = "link" => w = Len(j.lines)
    BY <2>1
  <2> QED
    BY <1>1, <2>1, <2>2, <2>3, <2>4, <2>5
<1> QED
  BY <1>1, <1>2, <1>3, <1>4, <1>5 DEF JobInv, k

LEMMA CancelKeeps == ASSUME FilesInv, Cancel PROVE OpenedInv' /\ JobsInv' /\ DiskInv' /\ CountsInv'
<1>1. PICK j \in job : Works([j EXCEPT !.cancelled = TRUE])
  BY DEF Cancel, Works
<1>2. JobInv(j) /\ IsJob(j)
  BY <1>1, JobIsSound DEF JobInv
<1>3. [j EXCEPT !.cancelled = TRUE] = JobWith(j, j.source, j.pc, j.lines, j.written, TRUE)
  BY <1>2, JobChanges
<1>4. JobInv(JobWith(j, j.source, j.pc, j.lines, j.written, TRUE))
  BY <1>2, GoesOn
<1> QED
  BY <1>1, <1>3, <1>4, WorksKeeps

\* A job whose pc changes.
LEMMA PcKeeps ==
  ASSUME FilesInv, NEW j \in job, NEW pc, Works([j EXCEPT !.pc = pc]),
         \/ pc = "failed"
         \/ j.pc = "create" /\ pc = "write"
         \/ j.pc = "write" /\ pc = "link" /\ j.written = Len(j.lines)
  PROVE  OpenedInv' /\ JobsInv' /\ DiskInv' /\ CountsInv'
<1>1. JobInv(j) /\ IsJob(j)
  BY JobIsSound DEF JobInv
<1>2. [j EXCEPT !.pc = pc] = JobWith(j, j.source, pc, j.lines, j.written, j.cancelled)
  BY <1>1, JobChanges
<1>3. JobInv(JobWith(j, j.source, pc, j.lines, j.written, j.cancelled))
  BY <1>1, GoesOn
<1> QED
  BY <1>2, <1>3, WorksKeeps

LEMMA CreateKeeps ==
  ASSUME FilesInv, CreateTemporary PROVE OpenedInv' /\ JobsInv' /\ DiskInv' /\ CountsInv'
<1>1. PICK j \in job :
        j.pc = "create" /\ Works([j EXCEPT !.pc = IF disk[j.path] # <<>> THEN "failed" ELSE "write"])
  BY DEF CreateTemporary
<1> DEFINE pc == IF disk[j.path] # <<>> THEN "failed" ELSE "write"
<1>2. pc = "failed" \/ (j.pc = "create" /\ pc = "write")
  BY <1>1
<1>3. Works([j EXCEPT !.pc = pc])
  BY <1>1
<1> HIDE DEF pc
<1> QED
  BY <1>2, <1>3, PcKeeps

LEMMA WriteKeeps ==
  ASSUME FilesInv, WriteLines PROVE OpenedInv' /\ JobsInv' /\ DiskInv' /\ CountsInv'
<1>1. PICK j \in job : j.pc = "write" /\ Works([j EXCEPT !.written = Len(j.lines)])
  BY DEF WriteLines
<1>2. JobInv(j) /\ IsJob(j)
  BY <1>1, JobIsSound DEF JobInv
<1>3. [j EXCEPT !.written = Len(j.lines)]
        = JobWith(j, j.source, j.pc, j.lines, Len(j.lines), j.cancelled)
  BY <1>2, JobChanges
<1>4. JobInv(JobWith(j, j.source, j.pc, j.lines, Len(j.lines), j.cancelled))
  BY <1>1, <1>2, GoesOn
<1> QED
  BY <1>1, <1>3, <1>4, WorksKeeps

LEMMA SyncKeeps == ASSUME FilesInv, Sync PROVE OpenedInv' /\ JobsInv' /\ DiskInv' /\ CountsInv'
<1>1. PICK j \in job : /\ j.pc = "write" /\ j.written = Len(j.lines)
                       /\ Works([j EXCEPT !.pc = "link"])
  BY DEF Sync
<1> DEFINE pc == "link"
<1>2. Works([j EXCEPT !.pc = pc]) /\ pc = "link"
  BY <1>1
<1> HIDE DEF pc
<1> QED
  BY <1>1, <1>2, PcKeeps

LEMMA GiveUpKeeps == ASSUME FilesInv, GiveUp PROVE OpenedInv' /\ JobsInv' /\ DiskInv' /\ CountsInv'
<1>1. PICK j \in job : Works([j EXCEPT !.pc = "failed"])
  BY DEF GiveUp
<1> DEFINE pc == "failed"
<1>2. Works([j EXCEPT !.pc = pc]) /\ pc = "failed"
  BY <1>1
<1> HIDE DEF pc
<1> QED
  BY <1>1, <1>2, PcKeeps

\* No snapshot and no selection is refused: what is built says what was asked for.
LEMMA BuiltIsWritten ==
  ASSUME FilesInv, NEW j \in job, j.pc = "begin", j.action # "open"
  PROVE  \E d : Built(j) = {d} /\ Written(Lines(d), j.order)
<1>1. j.spec \in AtMostOne(Specs) /\ \E d : Whole(j) = {d} /\ DocInv(d) /\ AsksOf(d, j.spec, j.order)
  BY JobIsSound DEF JobInv
<1>2. PICK d : Whole(j) = {d} /\ DocInv(d) /\ AsksOf(d, j.spec, j.order)
  BY <1>1
<1>3. Built(j) = IF Whole(j) = {} \/ j.spec = {} THEN Whole(j)
                 ELSE Selected(Only(Whole(j)), Only(j.spec), MaxJobs + counts.jobs)
  BY DEF Built, Whole
<1>4. /\ j.order.rows = Chosen(EntriesOf(d), j.spec)
      /\ j.order.filters = (IF j.spec = {} THEN d.end.scope.filter
                            ELSE Append(d.end.scope.filter, Only(j.spec)))
      /\ j.order.omitted = d.end.scope.omitted
      /\ d.end.capture = "partial" <=> j.order.gap
      /\ j.order.lines # <<>> => j.order.lines = Lines(d) /\ j.spec = {}
  BY <1>2 DEF AsksOf
<1>5. CASE j.spec = {}
  <2>1. Built(j) = {d}
    BY <1>2, <1>3, <1>5
  <2>2. Chosen(EntriesOf(d), {}) = EntriesOf(d)
    BY <1>2, DocParts, AllChosen
  <2>3. Written(Lines(d), j.order)
    BY <1>2, <1>4, <1>5, <2>2 DEF Written
  <2> QED
    BY <2>1, <2>3
<1>6. CASE j.spec # {}
  <2>1. PICK x \in SUBSET Texts : j.spec = {x} /\ Only(j.spec) = x
    BY <1>1, <1>6, SpecsAre
  <2> DEFINE a == MaxJobs + counts.jobs
  <2>2. a \in Nat
    <3>1. MaxJobs \in Nat
      BY DocumentsAssumption
    <3>2. counts.jobs \in Nat
      BY CountsGrow DEF FilesInv
    <3> QED
      BY <3>1, <3>2
  <2> HIDE DEF a
  <2>3. PICK d2 : Selected(d, x, a) = {d2} /\ DocInv(d2) /\ IsSelection(d, x, d2)
    BY <1>2, <2>2, SelectedIs
  <2>4. Built(j) = {d2}
    <3>1. Only(Whole(j)) = d /\ Whole(j) # {}
      BY <1>2 DEF Only
    <3>2. Built(j) = Selected(Only(Whole(j)), Only(j.spec), a)
      BY <1>3, <1>6, <3>1 DEF a
    <3> QED
      BY <2>1, <2>3, <3>1, <3>2
  <2>5. Written(Lines(d2), j.order)
    <3>1. /\ EntriesOf(d2) = j.order.rows /\ d2.end.scope.filter = j.order.filters
          /\ d2.end.scope.omitted = j.order.omitted /\ d2.end.capture = d.end.capture
      BY <1>4, <1>6, <2>1, <2>3 DEF IsSelection
    <3>2. j.order.lines = <<>>
      BY <1>4, <1>6
    <3> QED
      BY <1>4, <2>3, <3>1, <3>2 DEF Written
  <2> QED
    BY <2>4, <2>5
<1> QED
  BY <1>5, <1>6

LEMMA BuildKeeps == ASSUME FilesInv, Build PROVE OpenedInv' /\ JobsInv' /\ DiskInv' /\ CountsInv'
<1>1. PICK j \in job :
        /\ j.pc = "begin" /\ j.action # "open"
        /\ Works(IF Built(j) = {} THEN [j EXCEPT !.pc = "refused"]
                 ELSE [j EXCEPT !.pc = "create", !.lines = Lines(Only(Built(j)))])
  BY DEF Build
<1>2. JobInv(j) /\ IsJob(j)
  BY <1>1, JobIsSound DEF JobInv
<1>3. PICK d : Built(j) = {d} /\ Written(Lines(d), j.order)
  BY <1>1, BuiltIsWritten
<1>4. Only(Built(j)) = d
  BY <1>3 DEF Only
<1> DEFINE k == JobWith(j, j.source, "create", Lines(d), j.written, j.cancelled)
<1>5. Works(k)
  <2>1. Works([j EXCEPT !.pc = "create", !.lines = Lines(d)])
    BY <1>1, <1>3, <1>4
  <2>2. [j EXCEPT !.pc = "create", !.lines = Lines(d)] = k
    BY <1>2, JobChanges
  <2> QED
    BY <2>1, <2>2
<1>6. /\ IsJob(k) /\ k.action = j.action /\ k.path = j.path /\ k.source = j.source
      /\ k.spec = j.spec /\ k.order = j.order /\ k.pc = "create" /\ k.lines = Lines(d)
  BY JobFields DEF JobWith
<1> HIDE DEF k
<1>7. /\ j.path \in Paths /\ j.action \in {"save", "copy", "open"}
      /\ j.spec \in AtMostOne(Specs) /\ IsOrder(j.order) /\ j.order.intact = TRUE
  BY <1>1, <1>2 DEF JobInv
<1>8. k.pc \in {"begin", "create", "write", "link", "done", "failed"} /\ k.pc # "begin" /\ k.pc # "link"
  BY <1>6
<1>9. JobInv(k)
  BY <1>1, <1>3, <1>6, <1>7, <1>8 DEF JobInv
<1> QED
  BY <1>5, <1>9, WorksKeeps

LEMMA LoadKeeps == ASSUME FilesInv, LoadFile PROVE OpenedInv' /\ JobsInv' /\ DiskInv' /\ CountsInv'
<1>1. PICK j \in job :
        /\ j.pc = "begin" /\ j.action = "open"
        /\ Works(IF Load(disk[j.path]) = {} THEN [j EXCEPT !.pc = "failed"]
                 ELSE [j EXCEPT !.pc = "done", !.source = Load(disk[j.path]),
                                !.lines = disk[j.path]])
  BY DEF LoadFile
<1> DEFINE lines == disk[j.path]
<1>2. JobInv(j) /\ IsJob(j) /\ j.path \in Paths
  BY <1>1, JobIsSound DEF JobInv
<1>3. lines \in Seq(FileLines)
  BY <1>2 DEF FilesInv, DiskInv
<1>4. CASE Load(lines) = {}
  <2> DEFINE pc == "failed"
  <2>1. Works([j EXCEPT !.pc = pc]) /\ pc = "failed"
    BY <1>1, <1>4
  <2> HIDE DEF pc
  <2> QED
    BY <1>1, <2>1, PcKeeps
<1>5. CASE Load(lines) # {}
  <2>1. PICK d : Load(lines) = {d} /\ DocInv(d) /\ LinesOf(d, lines)
    BY <1>3, <1>5, LoadedIsTheFile
  <2>2. lines = Lines(d)
    BY <1>3, <2>1, FileIsLines
  <2> DEFINE k == JobWith(j, Load(lines), "done", lines, j.written, j.cancelled)
  <2>3. Works(k)
    <3>1. Works([j EXCEPT !.pc = "done", !.source = Load(lines), !.lines = lines])
      BY <1>1, <1>5
    <3> HIDE DEF lines
    <3> DEFINE pc == "done"
               source == Load(lines)
    <3> HIDE DEF pc, source, k
    <3>2. [j EXCEPT !.pc = pc, !.source = source, !.lines = lines]
            = JobWith(j, source, pc, lines, j.written, j.cancelled)
      BY <1>2, JobLoads
    <3> QED
      BY <3>1, <3>2 DEF pc, source, k
  <2> HIDE DEF lines
  <2>4. /\ IsJob(k) /\ k.action = j.action /\ k.path = j.path /\ k.source = Load(lines)
        /\ k.pc = "done" /\ k.lines = lines
    BY JobFields DEF JobWith
  <2> HIDE DEF k
  <2>5. /\ k.action = "open" /\ k.action \in {"save", "copy", "open"} /\ k.path \in Paths
        /\ k.pc \in {"begin", "create", "write", "link", "done", "failed"}
        /\ k.pc \in {"begin", "done", "failed"}
    BY <1>1, <1>2, <2>4
  <2>6. \E e : k.source = {e} /\ DocInv(e) /\ k.lines = Lines(e)
    BY <2>1, <2>2, <2>4
  <2>7. JobInv(k)
    BY <2>4, <2>5, <2>6 DEF JobInv
  <2> QED
    BY <2>3, <2>7, WorksKeeps
<1> QED
  BY <1>4, <1>5

-------------------------------------------------------------------------------
(* Files.                                                                  *)

\* The disk after one file changed.
LEMMA OneFile ==
  ASSUME DiskInv, NEW path \in Paths, NEW lines \in Seq(FileLines), NEW order,
         SavedAs(lines, order), disk' = [disk EXCEPT ![path] = lines],
         saved' = [saved EXCEPT ![path] = {order}]
  PROVE  DiskInv'
<1>1. disk' \in [Paths -> Seq(FileLines)] /\ disk'[path] = lines
      /\ \A p \in Paths : p # path => disk'[p] = disk[p]
  BY DEF DiskInv
<1>2. saved' = [p \in Paths |-> saved'[p]] /\ saved'[path] = {order}
      /\ \A p \in Paths : p # path => saved'[p] = saved[p]
  <2>1. saved = [p \in Paths |-> saved[p]]
    BY DEF DiskInv
  <2> QED
    BY <2>1
<1>3. ASSUME NEW p \in Paths
      PROVE  saved'[p] = {} \/ \E o : saved'[p] = {o} /\ SavedAs(disk'[p], o)
  <2>1. CASE p = path
    BY <1>1, <1>2, <2>1
  <2>2. CASE p # path
    <3>1. saved[p] = {} \/ \E o : saved[p] = {o} /\ SavedAs(disk[p], o)
      BY DEF DiskInv
    <3> QED
      BY <1>1, <1>2, <2>2, <3>1
  <2> QED
    BY <2>1, <2>2
<1> QED
  BY <1>1, <1>2, <1>3 DEF DiskInv

LEMMA WholeFront == ASSUME NEW S, NEW s \in Seq(S) PROVE SubSeq(s, 1, Len(s)) = s
<1> DEFINE t == SubSeq(s, 1, Len(s))
<1>1. Len(s) \in 0 .. Len(s)
  BY LenProperties
<1>2. t \in Seq(S) /\ FrontIs(s, Len(s), t)
  BY <1>1, Fronts
<1> HIDE DEF t
<1>3. t = s
  BY <1>2, SeqEqual DEF FrontIs
<1> QED
  BY <1>3 DEF t

\* What is published is whole and says what was asked for.
LEMMA PublishedIsWhole ==
  ASSUME FilesInv, NEW j \in job, j.pc = "link", Published(j)
  PROVE  /\ j.path \in Paths /\ j.lines \in Seq(FileLines)
         /\ disk' = [disk EXCEPT ![j.path] = j.lines]
         /\ SavedAs(j.lines, j.order) /\ j.order.intact = TRUE /\ Load(j.lines) # {}
         /\ OpenedInv' /\ JobsInv' /\ DiskInv' /\ CountsInv'
<1>1. JobInv(j) /\ IsJob(j) /\ j.path \in Paths
  BY JobIsSound DEF JobInv
<1>2. /\ IsOrder(j.order) /\ j.order.intact = TRUE /\ Written(j.lines, j.order)
      /\ j.written = Len(j.lines)
  BY <1>1 DEF JobInv
<1>3. PICK d : DocInv(d) /\ j.lines = Lines(d)
  BY <1>2 DEF Written
<1>4. j.lines \in Seq(FileLines) /\ j.lines # <<>> /\ Load(j.lines) # {}
  BY <1>3, LinesAre, NoLines, WrittenLoads
<1>5. SubSeq(j.lines, 1, j.written) = j.lines
  BY <1>2, <1>4, WholeFront
<1>6. /\ disk' = [disk EXCEPT ![j.path] = j.lines] /\ saved' = [saved EXCEPT ![j.path] = {j.order}]
      /\ job' = {[j EXCEPT !.pc = "done"]} /\ opened' = opened /\ counts' = counts
  BY <1>5 DEF Published
<1>7. SavedAs(j.lines, j.order)
  BY <1>2, <1>4 DEF SavedAs
<1>8. DiskInv'
  BY <1>1, <1>4, <1>6, <1>7, OneFile DEF FilesInv
<1>9. JobsInv'
  <2> DEFINE pc == "done"
  <2>1. pc = "done" /\ job' = {[j EXCEPT !.pc = pc]}
    BY <1>6
  <2> HIDE DEF pc
  <2>2. [j EXCEPT !.pc = pc] = JobWith(j, j.source, pc, j.lines, j.written, j.cancelled)
    BY <1>1, JobChanges
  <2>3. JobInv(JobWith(j, j.source, pc, j.lines, j.written, j.cancelled))
    BY <1>1, <2>1, GoesOn
  <2> QED
    BY <2>1, <2>2, <2>3 DEF JobsInv
<1> QED
  BY <1>1, <1>2, <1>4, <1>6, <1>7, <1>8, <1>9 DEF FilesInv, OpenedInv, CountsInv

LEMMA LinkKeeps == ASSUME FilesInv, HardLink PROVE OpenedInv' /\ JobsInv' /\ DiskInv' /\ CountsInv'
<1>1. PICK j \in job :
        /\ j.pc = "link"
        /\ IF disk[j.path] = <<>> THEN Published(j) ELSE Works([j EXCEPT !.pc = "failed"])
  BY DEF HardLink
<1>2. CASE disk[j.path] = <<>>
  BY <1>1, <1>2, PublishedIsWhole
<1>3. CASE disk[j.path] # <<>>
  <2> DEFINE pc == "failed"
  <2>1. Works([j EXCEPT !.pc = pc]) /\ pc = "failed"
    BY <1>1, <1>3
  <2> HIDE DEF pc
  <2> QED
    BY <2>1, PcKeeps
<1> QED
  BY <1>2, <1>3

LEMMA PollKeeps == ASSUME FilesInv, PollFiles PROVE OpenedInv' /\ JobsInv' /\ DiskInv' /\ CountsInv'
<1>1. PICK j \in job :
        IF j.action = "open" /\ j.pc = "done" /\ ~j.cancelled
        THEN /\ live.phase = "idle"
             /\ Replaced({[document |-> Only(j.source), lines |-> j.lines]})
        ELSE job' = {} /\ UNCHANGED <<live, sent, broken, opened, disk, saved, counts>>
  BY DEF PollFiles
<1>2. CASE j.action = "open" /\ j.pc = "done" /\ ~j.cancelled
  <2>1. PICK d : j.source = {d} /\ DocInv(d) /\ j.lines = Lines(d)
    BY <1>2, JobIsSound DEF JobInv
  <2> DEFINE o == [document |-> Only(j.source), lines |-> j.lines]
  <2>2. /\ opened' = {o} /\ job' = {} /\ disk' = disk /\ saved' = saved /\ counts' = counts
    BY <1>1, <1>2 DEF Replaced
  <2>3. o.document = d /\ o.lines = Lines(d)
    BY <2>1 DEF Only
  <2> HIDE DEF o
  <2>4. OpenedInv'
    BY <2>1, <2>2, <2>3 DEF OpenedInv
  <2> QED
    BY <2>2, <2>4 DEF FilesInv, JobsInv, DiskInv, CountsInv
<1>3. CASE ~(j.action = "open" /\ j.pc = "done" /\ ~j.cancelled)
  <2>1. job' = {} /\ opened' = opened /\ disk' = disk /\ saved' = saved /\ counts' = counts
    BY <1>1, <1>3
  <2> QED
    BY <2>1 DEF FilesInv, OpenedInv, JobsInv, DiskInv, CountsInv
<1> QED
  BY <1>2, <1>3

LEMMA CloseKeeps == ASSUME FilesInv, CloseFile PROVE OpenedInv' /\ JobsInv' /\ DiskInv' /\ CountsInv'
  BY DEF CloseFile, Replaced, FilesInv, OpenedInv, JobsInv, DiskInv, CountsInv

LEMMA MeddlesIs ==
  ASSUME FilesInv, Meddles
  PROVE  OpenedInv' /\ JobsInv' /\ CountsInv' /\ counts'.beside # counts.beside
<1>1. opened' = opened /\ job' = job /\ counts' = [counts EXCEPT !.beside = @ + 1]
  BY DEF Meddles
<1>2. CountsInv' /\ counts'.beside # counts.beside
  BY <1>1, CountsGrow DEF FilesInv, CountsInv
<1> QED
  BY <1>1, <1>2 DEF FilesInv, OpenedInv, JobsInv

LEMMA PutKeeps == ASSUME FilesInv, PutFile PROVE OpenedInv' /\ JobsInv' /\ DiskInv' /\ CountsInv'
<1>1. Meddles /\ saved' = saved
  BY DEF PutFile
<1>2. PICK path \in Paths, lines \in Foreign :
        disk[path] = <<>> /\ disk' = [disk EXCEPT ![path] = lines]
  BY DEF PutFile
<1>3. lines \in Seq(FileLines)
  BY DocumentsAssumption
<1>4. /\ disk \in [Paths -> Seq(FileLines)] /\ saved = [p \in Paths |-> saved[p]]
      /\ \A p \in Paths : saved[p] = {} \/ \E order : saved[p] = {order} /\ SavedAs(disk[p], order)
  BY DEF FilesInv, DiskInv
<1>5. saved[path] = {}
  BY <1>2, <1>4 DEF SavedAs
<1>6. disk' \in [Paths -> Seq(FileLines)] /\ \A p \in Paths : p # path => disk'[p] = disk[p]
  BY <1>2, <1>3, <1>4
<1>7. \A p \in Paths : saved'[p] = {} \/ \E order : saved'[p] = {order} /\ SavedAs(disk'[p], order)
  BY <1>1, <1>4, <1>5, <1>6
<1>8. DiskInv'
  BY <1>1, <1>4, <1>6, <1>7 DEF DiskInv
<1> QED
  BY <1>1, <1>8, MeddlesIs

LEMMA DamageKeeps == ASSUME FilesInv, Damage PROVE OpenedInv' /\ JobsInv' /\ DiskInv' /\ CountsInv'
<1>1. PICK path \in Paths, order \in UNION Range(saved) :
        /\ saved[path] = {order} /\ order.intact
        /\ \E lines \in Damages(disk[path]) \ {<<>>} : disk' = [disk EXCEPT ![path] = lines]
        /\ saved' = [saved EXCEPT ![path] = {[order EXCEPT !.intact = FALSE]}]
        /\ Meddles
  BY DEF Damage
<1>2. PICK lines \in Damages(disk[path]) \ {<<>>} : disk' = [disk EXCEPT ![path] = lines]
  BY <1>1
<1>3. SavedAs(disk[path], order)
  <2>1. saved[path] = {} \/ \E o : saved[path] = {o} /\ SavedAs(disk[path], o)
    BY DEF FilesInv, DiskInv
  <2>2. PICK o : saved[path] = {o} /\ SavedAs(disk[path], o)
    BY <1>1, <2>1
  <2>3. o = order
    BY <1>1, <2>2
  <2> QED
    BY <2>2, <2>3
<1>4. IsOrder(order) /\ \E d : DocInv(d) /\ disk[path] = Lines(d)
  BY <1>1, <1>3 DEF SavedAs, Written
<1>5. lines \in Seq(FileLines) /\ Load(lines) = {} /\ lines # <<>>
  BY <1>4, DamagedIsRefused
<1> DEFINE new == [order EXCEPT !.intact = FALSE]
<1>6. IsOrder(new) /\ new.intact = FALSE
  <2>1. order = [rows |-> order.rows, lines |-> order.lines, gap |-> order.gap,
                 filters |-> order.filters, omitted |-> order.omitted, intact |-> order.intact]
    BY <1>4 DEF IsOrder
  <2>2. /\ new.rows = order.rows /\ new.lines = order.lines /\ new.gap = order.gap
        /\ new.filters = order.filters /\ new.omitted = order.omitted /\ new.intact = FALSE
    BY <2>1
  <2>3. new \in [rows : {order.rows}, lines : {order.lines}, gap : {order.gap},
                 filters : {order.filters}, omitted : {order.omitted},
                 intact : {order.intact, FALSE}]
    BY <2>1
  <2> HIDE DEF new
  <2>4. IsOrder(new)
    BY <2>3 DEF IsOrder
  <2> QED
    BY <2>2, <2>4
<1>7. saved' = [saved EXCEPT ![path] = {new}]
  BY <1>1
<1> HIDE DEF new
<1>8. SavedAs(lines, new)
  BY <1>5, <1>6 DEF SavedAs
<1>9. DiskInv'
  BY <1>2, <1>5, <1>7, <1>8, OneFile DEF FilesInv
<1> QED
  BY <1>1, <1>9, MeddlesIs

LEMMA CrashKeeps == ASSUME FilesInv, Crash PROVE OpenedInv' /\ JobsInv' /\ DiskInv' /\ CountsInv'
<1>1. /\ opened' = {} /\ job' = {} /\ counts' = [counts EXCEPT !.beside = @ + 1]
      /\ disk' = disk /\ saved' = saved
  BY DEF Crash
<1>2. CountsInv'
  BY <1>1, CountsGrow DEF FilesInv, CountsInv
<1> QED
  BY <1>1, <1>2 DEF FilesInv, OpenedInv, JobsInv, DiskInv

\* A step of the capture or of the view.
LEMMA LiveKeeps ==
  ASSUME FilesInv, LiveStep PROVE OpenedInv' /\ JobsInv' /\ DiskInv' /\ CountsInv'
<1>1. /\ opened' = opened /\ job' = job /\ disk' = disk /\ saved' = saved
      /\ counts' = (IF counts.jobs = 0 THEN counts ELSE [counts EXCEPT !.beside = @ + 1])
  BY DEF LiveStep
<1>2. CountsInv'
  BY <1>1, CountsGrow DEF FilesInv, CountsInv
<1> QED
  BY <1>1, <1>2 DEF FilesInv, OpenedInv, JobsInv, DiskInv

\* Every step leaves every job, every file and what is shown sound.
LEMMA FilesSteps ==
  ASSUME FilesInv, [Next]_vars PROVE FilesInv'
<1>1. CaptureInv'
  BY CaptureSteps DEF FilesInv
<1> DEFINE Rest == OpenedInv /\ JobsInv /\ DiskInv /\ CountsInv
<1>2. CASE Begin \/ Start \/ Stop \/ (\E completed \in BOOLEAN : Exit(completed)) \/ Fault
           \/ Discard \/ Receive \/ Clear
  <2>1. LiveStep
    BY <1>2 DEF Begin, Start, Stop, Exit, Fault, Discard, Receive, Clear
  <2> QED
    BY <1>1, <2>1, LiveKeeps DEF FilesInv
<1>3. CASE Save
  BY <1>1, <1>3, SaveKeeps DEF FilesInv
<1>4. CASE Open
  BY <1>1, <1>4, OpenKeeps DEF FilesInv
<1>5. CASE Cancel
  BY <1>1, <1>5, CancelKeeps DEF FilesInv
<1>6. CASE Build
  BY <1>1, <1>6, BuildKeeps DEF FilesInv
<1>7. CASE CreateTemporary
  BY <1>1, <1>7, CreateKeeps DEF FilesInv
<1>8. CASE WriteLines
  BY <1>1, <1>8, WriteKeeps DEF FilesInv
<1>9. CASE Sync
  BY <1>1, <1>9, SyncKeeps DEF FilesInv
<1>10. CASE HardLink
  BY <1>1, <1>10, LinkKeeps DEF FilesInv
<1>11. CASE LoadFile
  BY <1>1, <1>11, LoadKeeps DEF FilesInv
<1>12. CASE GiveUp
  BY <1>1, <1>12, GiveUpKeeps DEF FilesInv
<1>13. CASE PollFiles
  BY <1>1, <1>13, PollKeeps DEF FilesInv
<1>14. CASE CloseFile
  BY <1>1, <1>14, CloseKeeps DEF FilesInv
<1>15. CASE PutFile
  BY <1>1, <1>15, PutKeeps DEF FilesInv
<1>16. CASE Damage
  BY <1>1, <1>16, DamageKeeps DEF FilesInv
<1>17. CASE Crash
  BY <1>1, <1>17, CrashKeeps DEF FilesInv
<1>18. CASE UNCHANGED vars
  BY <1>1, <1>18 DEF vars, FilesInv, OpenedInv, JobsInv, DiskInv, CountsInv
<1> QED
  BY <1>2, <1>3, <1>4, <1>5, <1>6, <1>7, <1>8, <1>9, <1>10, <1>11, <1>12, <1>13, <1>14,
     <1>15, <1>16, <1>17, <1>18 DEF Next

\* The view with its facts, the opened document, the job, the files and the counts
\* of the model stay right together, whatever the capture, the user, the job's
\* thread, other processes and a crash do.
THEOREM FilesStay == Spec => []FilesInv
<1>1. Init => FilesInv
  <2> SUFFICES ASSUME Init PROVE FilesInv
    OBVIOUS
  <2>1. CaptureInv
    BY NewLiveIsExact, NewLiveHasNoGap DEF Init, CaptureInv
  <2>2. OpenedInv /\ JobsInv
    BY DEF Init, OpenedInv, JobsInv
  <2>3. CountsInv
    BY DEF Init, CountsInv
  <2>4. DiskInv
    <3>1. <<>> \in Seq(FileLines)
      BY EmptySeq
    <3>2. disk = [path \in Paths |-> <<>>] /\ saved = [path \in Paths |-> {}]
      BY DEF Init
    <3> QED
      BY <3>1, <3>2 DEF DiskInv
  <2> QED
    BY <2>1, <2>2, <2>3, <2>4 DEF FilesInv
<1>2. FilesInv /\ [Next]_vars => FilesInv'
  BY FilesSteps
<1> QED
  BY <1>1, <1>2, PTL DEF Spec

\* What the file of an intact order loads as.
LEMMA SavedLoads ==
  ASSUME FilesInv, NEW path \in Paths, NEW order \in saved[path]
  PROVE  /\ SavedAs(disk[path], order)
         /\ order.intact =>
              \E d : /\ Load(disk[path]) = {d} /\ EntriesOf(d) = order.rows
                     /\ d.end.scope.filter = order.filters /\ d.end.scope.omitted = order.omitted
                     /\ d.end.capture = "partial" <=> order.gap
                     /\ order.lines # <<>> => disk[path] = order.lines
<1>1. SavedAs(disk[path], order)
  <2>1. saved[path] = {} \/ \E o : saved[path] = {o} /\ SavedAs(disk[path], o)
    BY DEF FilesInv, DiskInv
  <2>2. PICK o : saved[path] = {o} /\ SavedAs(disk[path], o)
    BY <2>1
  <2>3. o = order
    BY <2>2
  <2> QED
    BY <2>2, <2>3
<1>2. ASSUME order.intact
      PROVE  \E d : /\ Load(disk[path]) = {d} /\ EntriesOf(d) = order.rows
                    /\ d.end.scope.filter = order.filters /\ d.end.scope.omitted = order.omitted
                    /\ d.end.capture = "partial" <=> order.gap
                    /\ order.lines # <<>> => disk[path] = order.lines
  <2>1. Written(disk[path], order)
    BY <1>1, <1>2 DEF SavedAs
  <2>2. PICK d : /\ DocInv(d) /\ disk[path] = Lines(d) /\ EntriesOf(d) = order.rows
                 /\ d.end.scope.filter = order.filters /\ d.end.scope.omitted = order.omitted
                 /\ d.end.capture = "partial" <=> order.gap
                 /\ order.lines # <<>> => disk[path] = order.lines
    BY <2>1 DEF Written
  <2>3. PICK d2 : /\ Load(Lines(d)) = {d2} /\ d2.header = d.header /\ d2.end = d.end
                  /\ EntriesOf(d2) = EntriesOf(d)
    BY <2>2, WrittenLoads
  <2> QED
    BY <2>2, <2>3
<1> QED
  BY <1>1, <1>2

\* A file that was saved or exported loads again as the rows that were shown when
\* it was asked for (document.rs, from_snapshot, select and write_snapshot against
\* load), whatever happened before it was there; no snapshot and no selection is
\* refused as an invalid document.
THEOREM SavesAreSnapshots == Spec => []SavedIsTheSnapshot
<1>1. FilesInv => SavedIsTheSnapshot
  <2> SUFFICES ASSUME FilesInv PROVE SavedIsTheSnapshot
    OBVIOUS
  <2>1. ASSUME NEW j \in job PROVE j.pc # "refused"
    BY JobIsSound DEF JobInv
  <2>2. ASSUME NEW path \in Paths, NEW order \in saved[path], order.intact
        PROVE  \E document \in Load(disk[path]) :
                 /\ EntriesOf(document) = order.rows
                 /\ document.end.scope.filter = order.filters
                 /\ document.end.scope.omitted = order.omitted
                 /\ order.lines # <<>> => disk[path] = order.lines
    BY <2>2, SavedLoads
  <2> QED
    BY <2>1, <2>2 DEF SavedIsTheSnapshot
<1> QED
  BY <1>1, FilesStay, PTL

\* A saved file that lost, repeated or exchanged a line, was cut or got a line more
\* is refused by load (document.rs, read_document): the header, the numbers of the
\* records and the count at the end give it away.
THEOREM DamageIsNoticed == Spec => []DamagedNeverLoads
<1>1. FilesInv => DamagedNeverLoads
  BY SavedLoads DEF DamagedNeverLoads, SavedAs
<1> QED
  BY <1>1, FilesStay, PTL

\* The application and every document it saved call the capture partial exactly if
\* something was or may have been missed (capture_facts.rs, snapshot).
THEOREM GapsStayTold == Spec => []GapsAreTold
<1>1. FilesInv => GapsAreTold
  <2> SUFFICES ASSUME FilesInv PROVE GapsAreTold
    OBVIOUS
  <2>1. Completeness(live.facts) = "partial" <=> broken.gap
    BY DEF FilesInv, CaptureInv, GapInv, Completeness
  <2>2. ASSUME NEW path \in Paths, NEW order \in saved[path], order.intact,
               NEW document \in Load(disk[path])
        PROVE  document.end.capture = "partial" <=> order.gap
    BY <2>2, SavedLoads
  <2> QED
    BY <2>1, <2>2 DEF GapsAreTold
<1> QED
  BY <1>1, FilesStay, PTL

\* Under its name a file is there at once and whole or it is not there: a step of the
\* application that changes what is under a name makes a file where there was none,
\* one that loads (file_io.rs, write_new_file up to its hard link).
THEOREM FilesAppearWhole == Spec => OnlyWholeFilesAppear
<1> DEFINE Whole2 ==
             \A path \in Paths :
               disk'[path] # disk[path] =>
                 \/ counts'.beside # counts.beside
                 \/ disk[path] = <<>> /\ Load(disk'[path]) # {}
<1>1. ASSUME FilesInv, [Next]_vars PROVE Whole2
  <2>1. CASE disk' = disk
    BY <2>1
  <2>2. CASE PutFile \/ Damage
    BY <1>1, <2>2, MeddlesIs DEF PutFile, Damage
  <2>3. CASE HardLink /\ disk' # disk
    <3>1. PICK j \in job :
            /\ j.pc = "link"
            /\ IF disk[j.path] = <<>> THEN Published(j) ELSE Works([j EXCEPT !.pc = "failed"])
      BY <2>3 DEF HardLink
    <3>2. disk[j.path] = <<>> /\ Published(j)
      BY <2>3, <3>1 DEF Works
    <3>3. /\ j.path \in Paths /\ j.lines \in Seq(FileLines) /\ Load(j.lines) # {}
          /\ disk' = [disk EXCEPT ![j.path] = j.lines]
      BY <1>1, <3>1, <3>2, PublishedIsWhole
    <3>4. disk \in [Paths -> Seq(FileLines)]
      BY <1>1 DEF FilesInv, DiskInv
    <3>5. \A path \in Paths : path # j.path => disk'[path] = disk[path]
      BY <3>3, <3>4
    <3>6. disk'[j.path] = j.lines
      BY <3>3, <3>4
    <3> QED
      BY <3>2, <3>3, <3>5, <3>6
  <2>4. \/ disk' = disk \/ PutFile \/ Damage \/ HardLink
    <3>1. CASE Begin \/ Start \/ Stop \/ (\E completed \in BOOLEAN : Exit(completed)) \/ Fault
               \/ Discard \/ Receive \/ Clear
      BY <3>1 DEF Begin, Start, Stop, Exit, Fault, Discard, Receive, Clear, LiveStep
    <3>2. CASE Save \/ Open
      BY <3>2 DEF Save, Open, Asks
    <3>3. CASE Cancel \/ Build \/ CreateTemporary \/ WriteLines \/ Sync \/ LoadFile \/ GiveUp
      BY <3>3 DEF Cancel, Build, CreateTemporary, WriteLines, Sync, LoadFile, GiveUp, Works
    <3>4. CASE PollFiles \/ CloseFile \/ Crash
      BY <3>4 DEF PollFiles, CloseFile, Replaced, Crash
    <3>5. CASE UNCHANGED vars
      BY <3>5 DEF vars
    <3> QED
      BY <1>1, <3>1, <3>2, <3>3, <3>4, <3>5 DEF Next
  <2> HIDE DEF Whole2
  <2> QED
    BY <2>1, <2>2, <2>3, <2>4
<1>2. [][Next]_vars /\ []FilesInv => [][Whole2]_vars
  BY <1>1, PTL
<1> QED
  BY <1>2, FilesStay, PTL DEF Spec, OnlyWholeFilesAppear
===============================================================================
