---------------------------- MODULE ReadingProofs -----------------------------
(***************************************************************************)
(* The list, what is read of it and what is copied from it, for every set  *)
(* of filters, any number of rows and any neighbourhood.                   *)
(***************************************************************************)
EXTENDS CopyLogs, SequenceTheorems, FiniteSetTheorems, TLAPS

-------------------------------------------------------------------------------
(* Numbers in order *)

\* s lists the numbers of S in increasing order.
Lists(s, S) ==
  /\ s \in Seq(Nat)
  /\ \A j, k \in 1 .. Len(s) : j < k => s[j] < s[k]
  /\ Indices(s) = S

UpTo(S, n) == {m \in S : m <= n}

LEMMA RankGrows ==
  ASSUME NEW S \in SUBSET Nat, IsFiniteSet(S)
  PROVE  /\ Cardinality(S) \in Nat
         /\ \A n \in S : Cardinality(UpTo(S, n)) \in 1 .. Cardinality(S)
         /\ \A m, n \in S : m < n => Cardinality(UpTo(S, m)) < Cardinality(UpTo(S, n))
<1>1. Cardinality(S) \in Nat
  BY FS_CardinalityType
<1>2. \A n \in S : /\ IsFiniteSet(UpTo(S, n)) /\ Cardinality(UpTo(S, n)) \in Nat
                   /\ Cardinality(UpTo(S, n)) <= Cardinality(S)
  <2>1. \A n \in S : UpTo(S, n) \in SUBSET S
    BY DEF UpTo
  <2> QED
    BY <2>1, FS_Subset, FS_CardinalityType
<1>3. ASSUME NEW n \in S PROVE Cardinality(UpTo(S, n)) # 0
  <2>1. n \in UpTo(S, n)
    BY DEF UpTo
  <2> QED
    BY <1>2, <2>1, FS_EmptySet
<1>4. ASSUME NEW m \in S, NEW n \in S, m < n
      PROVE  Cardinality(UpTo(S, m)) < Cardinality(UpTo(S, n))
  <2>1. UpTo(S, m) \subseteq UpTo(S, n) /\ n \in UpTo(S, n) /\ n \notin UpTo(S, m)
    <3>1. m \in Nat /\ n \in Nat /\ ~(n <= m)
      BY <1>4
    <3>2. \A i \in S : i <= m => i <= n
      BY <1>4, <3>1
    <3>3. UpTo(S, m) \subseteq UpTo(S, n)
      BY <3>2 DEF UpTo
    <3>4. n \in UpTo(S, n)
      BY <3>1 DEF UpTo
    <3>5. n \notin UpTo(S, m)
      BY <3>1 DEF UpTo
    <3> QED
      BY <3>3, <3>4, <3>5
  <2>2. Cardinality(UpTo(S, m)) <= Cardinality(UpTo(S, n))
    BY <1>2, <2>1, FS_Subset
  <2>3. Cardinality(UpTo(S, m)) # Cardinality(UpTo(S, n))
    BY <1>2, <2>1, FS_Subset
  <2> QED
    BY <1>2, <2>2, <2>3
<1> QED
  BY <1>1, <1>2, <1>3, <1>4

LEMMA RankIsReached ==
  ASSUME NEW S \in SUBSET Nat, IsFiniteSet(S), NEW k \in 1 .. Cardinality(S)
  PROVE  \E n \in S : Cardinality(UpTo(S, n)) = k
<1> DEFINE c == Cardinality(S)
           rank == [n \in S |-> Cardinality(UpTo(S, n))]
<1>1. c \in Nat /\ IsFiniteSet(1 .. c) /\ Cardinality(1 .. c) = c
  <2>1. c \in Nat
    BY FS_CardinalityType
  <2>2. IsFiniteSet(1 .. c) /\ Cardinality(1 .. c) = (IF 1 > c THEN 0 ELSE c - 1 + 1)
    BY <2>1, FS_Interval
  <2> QED
    BY <2>1, <2>2
<1>2. rank \in [S -> 1 .. c]
  BY RankGrows
<1>3. \A m, n \in S : rank[m] = rank[n] => m = n
  <2> SUFFICES ASSUME NEW m \in S, NEW n \in S, rank[m] = rank[n], m # n
               PROVE  FALSE
    OBVIOUS
  <2>1. m \in Nat /\ n \in Nat /\ (m < n \/ n < m)
    OBVIOUS
  <2>2. rank[m] < rank[n] \/ rank[n] < rank[m]
    BY <2>1, RankGrows
  <2>3. rank[m] \in Nat
    BY <1>1, <1>2
  <2> QED
    BY <2>2, <2>3
<1>4. rank \in Injection(S, 1 .. c)
  BY <1>2, <1>3 DEF Injection, IsInjective
<1>5. rank \in Surjection(S, 1 .. c)
  BY <1>1, <1>4, FS_Injection
<1>6. PICK n \in S : rank[n] = k
  BY <1>5 DEF Surjection
<1> QED
  BY <1>6

\* InOrder lists its numbers.
LEMMA InOrderLists ==
  ASSUME NEW S \in SUBSET Nat, IsFiniteSet(S)
  PROVE  Lists(InOrder(S), S)
<1> DEFINE c == Cardinality(S)
           s == InOrder(S)
<1>1. c \in Nat
  BY FS_CardinalityType
<1>2. \A k \in 1 .. c : s[k] \in S /\ Cardinality(UpTo(S, s[k])) = k
  BY RankIsReached DEF InOrder, UpTo
<1>3. s \in [1 .. c -> S] /\ Len(s) = c /\ s \in Seq(Nat)
  <2>1. DOMAIN s = 1 .. c /\ s = [k \in 1 .. c |-> s[k]]
    BY DEF InOrder
  <2>2. s \in [1 .. c -> S]
    BY <1>2, <2>1
  <2> HIDE DEF s, c
  <2>3. s \in [1 .. c -> Nat]
    BY <2>2
  <2>4. s \in Seq(Nat) /\ Len(s) = c
    BY <1>1, <2>3
  <2> QED
    BY <2>2, <2>4
<1> HIDE DEF s, c
<1>4. ASSUME NEW j \in 1 .. c, NEW k \in 1 .. c, j < k
      PROVE  s[j] < s[k]
  <2>1. s[j] \in Nat /\ s[k] \in Nat /\ s[j] \in S /\ s[k] \in S
    BY <1>2
  <2>2. CASE s[j] = s[k]
    BY <1>2, <1>4, <2>2
  <2>3. CASE s[k] < s[j]
    <3>1. Cardinality(UpTo(S, s[k])) < Cardinality(UpTo(S, s[j]))
      BY <2>1, <2>3, RankGrows
    <3> QED
      BY <1>2, <1>4, <3>1
  <2> QED
    BY <2>1, <2>2, <2>3
<1>5. Indices(s) = S
  <2>1. \A n \in S : \E k \in 1 .. c : s[k] = n
    <3> SUFFICES ASSUME NEW n \in S PROVE \E k \in 1 .. c : s[k] = n
      OBVIOUS
    <3> DEFINE k == Cardinality(UpTo(S, n))
    <3>1. k \in 1 .. c
      BY RankGrows DEF c
    <3> HIDE DEF k
    <3>2. s[k] \in S /\ Cardinality(UpTo(S, s[k])) = k
      BY <1>2, <3>1
    <3>3. n \in Nat /\ s[k] \in Nat /\ k \in Nat
      <4>1. \A i \in S : i \in Nat
        OBVIOUS
      <4>2. k \in Nat
        BY <1>1, <3>1
      <4>3. n \in Nat /\ s[k] \in Nat
        BY <3>2, <4>1
      <4> QED
        BY <4>2, <4>3
    <3>4. ~(s[k] < n) /\ ~(n < s[k])
      <4>1. k = Cardinality(UpTo(S, n))
        BY DEF k
      <4>2. s[k] < n => Cardinality(UpTo(S, s[k])) < k
        BY <3>2, <4>1, RankGrows
      <4>3. n < s[k] => k < Cardinality(UpTo(S, s[k]))
        BY <3>2, <4>1, RankGrows
      <4> QED
        BY <3>2, <3>3, <4>2, <4>3
    <3> QED
      BY <3>1, <3>3, <3>4
  <2> QED
    BY <1>2, <1>3, <2>1 DEF Indices
<1> QED
  BY <1>3, <1>4, <1>5 DEF Lists, s

\* There is one list of the same numbers.
LEMMA ListsUnique ==
  ASSUME NEW S, NEW s, Lists(s, S)
  PROVE  s = InOrder(S) /\ S \in SUBSET Nat /\ IsFiniteSet(S)
<1> DEFINE l == Len(s)
<1>1. s \in Seq(Nat) /\ l \in Nat /\ s \in [1 .. l -> Nat] /\ S = {s[k] : k \in 1 .. l}
  BY DEF Lists, Indices
<1>2. S \in SUBSET Nat
  BY <1>1
<1>3. IsFiniteSet(1 .. l) /\ Cardinality(1 .. l) = l
  <2>1. IsFiniteSet(1 .. l) /\ Cardinality(1 .. l) = (IF 1 > l THEN 0 ELSE l - 1 + 1)
    BY <1>1, FS_Interval
  <2> QED
    BY <1>1, <2>1
<1>4. \A j, k \in 1 .. l : s[j] <= s[k] <=> j <= k
  <2> SUFFICES ASSUME NEW j \in 1 .. l, NEW k \in 1 .. l
               PROVE  s[j] <= s[k] <=> j <= k
    OBVIOUS
  <2>1. s[j] \in Nat /\ s[k] \in Nat /\ j \in Nat /\ k \in Nat
    BY <1>1
  <2>2. (j < k => s[j] < s[k]) /\ (k < j => s[k] < s[j])
    BY DEF Lists
  <2> QED
    BY <2>1, <2>2
<1>5. s \in Bijection(1 .. l, S)
  BY <1>1, <1>4 DEF Bijection, Injection, IsInjective, Surjection
<1>6. IsFiniteSet(S) /\ Cardinality(S) = l
  <2>1. ExistsBijection(1 .. l, S)
    BY <1>5 DEF ExistsBijection
  <2> QED
    BY <1>3, <2>1, FS_Bijection
<1>7. \A k \in 1 .. l : Cardinality(UpTo(S, s[k])) = k
  <2> SUFFICES ASSUME NEW k \in 1 .. l PROVE Cardinality(UpTo(S, s[k])) = k
    OBVIOUS
  <2> DEFINE f == [j \in 1 .. k |-> s[j]]
  <2>1. UpTo(S, s[k]) = {s[j] : j \in 1 .. k}
    BY <1>1, <1>4 DEF UpTo
  <2>2. f \in Bijection(1 .. k, UpTo(S, s[k]))
    BY <1>1, <1>4, <2>1 DEF Bijection, Injection, IsInjective, Surjection
  <2>3. IsFiniteSet(1 .. k) /\ Cardinality(1 .. k) = (IF 1 > k THEN 0 ELSE k - 1 + 1)
    BY FS_Interval
  <2>4. ExistsBijection(1 .. k, UpTo(S, s[k]))
    BY <2>2 DEF ExistsBijection
  <2>5. Cardinality(1 .. k) = Cardinality(UpTo(S, s[k]))
    BY <2>3, <2>4, FS_Bijection
  <2> QED
    BY <2>3, <2>5
<1>8. \A k \in 1 .. l : InOrder(S)[k] = s[k]
  <2> SUFFICES ASSUME NEW k \in 1 .. l PROVE InOrder(S)[k] = s[k]
    OBVIOUS
  <2>1. InOrder(S)[k] \in S /\ Cardinality(UpTo(S, InOrder(S)[k])) = k
    <3>1. InOrder(S)[k] = CHOOSE n \in S : Cardinality(UpTo(S, n)) = k
      BY <1>6 DEF InOrder, UpTo
    <3>2. s[k] \in S /\ Cardinality(UpTo(S, s[k])) = k
      BY <1>1, <1>7
    <3> QED
      BY <3>1, <3>2
  <2>2. PICK j \in 1 .. l : InOrder(S)[k] = s[j]
    BY <1>1, <2>1
  <2> QED
    BY <1>7, <2>1, <2>2
<1>9. InOrder(S) = [k \in 1 .. l |-> InOrder(S)[k]]
  BY <1>6 DEF InOrder
<1> QED
  BY <1>1, <1>2, <1>6, <1>8, <1>9

LEMMA EmptyLists == Lists(<<>>, {})
  BY EmptySeq DEF Lists, Indices

LEMMA ListFacts ==
  ASSUME NEW S, NEW s, Lists(s, S)
  PROVE  /\ s \in Seq(Nat) /\ Len(s) \in Nat /\ DOMAIN s = 1 .. Len(s)
         /\ \A k \in 1 .. Len(s) : s[k] \in S /\ s[k] \in Nat
         /\ \A n \in S : n \in Nat /\ \E k \in 1 .. Len(s) : s[k] = n
         /\ \A j, k \in 1 .. Len(s) : j < k => s[j] < s[k]
  BY DEF Lists, Indices

LEMMA ConcatLists ==
  ASSUME NEW S, NEW T, NEW s, NEW t, Lists(s, S), Lists(t, T), \A i \in S, j \in T : i < j
  PROVE  Lists(s \o t, S \cup T)
<1> DEFINE m == Len(s)
           n == Len(t)
           u == s \o t
<1>1. /\ s \in Seq(Nat) /\ t \in Seq(Nat) /\ m \in Nat /\ n \in Nat
      /\ \A k \in 1 .. m : s[k] \in S /\ s[k] \in Nat
      /\ \A k \in 1 .. n : t[k] \in T /\ t[k] \in Nat
      /\ \A i \in S : \E k \in 1 .. m : s[k] = i
      /\ \A i \in T : \E k \in 1 .. n : t[k] = i
  BY ListFacts
<1>2. /\ u \in Seq(Nat) /\ Len(u) = m + n
      /\ \A k \in 1 .. m : u[k] = s[k]
      /\ \A k \in m + 1 .. m + n : u[k] = t[k - m]
  <2>1. u \in Seq(Nat) /\ Len(u) = m + n
    BY <1>1, ConcatProperties
  <2>2. \A k \in 1 .. m + n : u[k] = IF k <= m THEN s[k] ELSE t[k - m]
    BY <1>1, ConcatProperties
  <2> QED
    BY <1>1, <2>1, <2>2
<1> HIDE DEF u, m, n
<1>3. ASSUME NEW j \in 1 .. m + n, NEW k \in 1 .. m + n, j < k
      PROVE  u[j] < u[k]
  <2>1. CASE k <= m
    <3>1. u[j] = s[j] /\ u[k] = s[k] /\ j \in 1 .. m /\ k \in 1 .. m
      BY <1>1, <1>2, <1>3, <2>1
    <3> QED
      BY <1>3, <3>1, ListFacts DEF m
  <2>2. CASE j > m
    <3>1. u[j] = t[j - m] /\ u[k] = t[k - m] /\ j - m \in 1 .. n /\ k - m \in 1 .. n
          /\ j - m < k - m
      BY <1>1, <1>2, <1>3, <2>2, SMTT(20)
    <3> QED
      BY <3>1, ListFacts DEF n
  <2>3. CASE j <= m /\ m < k
    <3>1. u[j] = s[j] /\ u[k] = t[k - m] /\ j \in 1 .. m /\ k - m \in 1 .. n
      BY <1>1, <1>2, <1>3, <2>3, SMTT(20)
    <3>2. s[j] \in S /\ t[k - m] \in T
      BY <1>1, <3>1
    <3> QED
      BY <3>1, <3>2
  <2> QED
    BY <1>1, <2>1, <2>2, <2>3
<1>4. Indices(u) = S \cup T
  <2>1. ASSUME NEW k \in 1 .. m + n PROVE u[k] \in S \cup T
    <3>1. CASE k <= m
      BY <1>1, <1>2, <3>1
    <3>2. CASE ~(k <= m)
      <4>1. u[k] = t[k - m] /\ k - m \in 1 .. n
        BY <1>1, <1>2, <3>2
      <4> QED
        BY <1>1, <4>1
    <3> QED
      BY <3>1, <3>2
  <2>2. ASSUME NEW i \in S PROVE \E k \in 1 .. m + n : u[k] = i
    <3>1. PICK k \in 1 .. m : s[k] = i
      BY <1>1
    <3>2. k \in 1 .. m + n /\ u[k] = i
      BY <1>1, <1>2, <3>1
    <3> QED
      BY <3>2
  <2>3. ASSUME NEW i \in T PROVE \E k \in 1 .. m + n : u[k] = i
    <3>1. PICK k \in 1 .. n : t[k] = i
      BY <1>1
    <3>2. m + k \in m + 1 .. m + n /\ m + k \in 1 .. m + n /\ (m + k) - m = k
      BY <1>1
    <3>3. u[m + k] = i
      BY <1>2, <3>1, <3>2
    <3> QED
      BY <3>2, <3>3
  <2>4. Indices(u) = {u[k] : k \in 1 .. m + n}
    BY <1>2 DEF Indices
  <2> QED
    BY <2>1, <2>2, <2>3, <2>4
<1>5. \A j, k \in 1 .. Len(u) : j < k => u[j] < u[k]
  BY <1>2, <1>3
<1>6. Lists(u, S \cup T)
  BY <1>2, <1>4, <1>5 DEF Lists
<1> QED
  BY <1>6 DEF u

LEMMA AppendLists ==
  ASSUME NEW S, NEW s, Lists(s, S), NEW n \in Nat, \A i \in S : i < n
  PROVE  Lists(Append(s, n), S \cup {n})
<1>1. Lists(<<n>>, {n})
  BY DEF Lists, Indices
<1>2. Append(s, n) = s \o <<n>>
  BY ListFacts, AppendIsConcat
<1> QED
  BY <1>1, <1>2, ConcatLists

\* What is kept of a list is in order, wherever its numbers are counted from.
Kept(s, positions, from) ==
  LET kept == InOrder(positions) IN [k \in DOMAIN kept |-> s[kept[k]] - from]

LEMMA KeptLists ==
  ASSUME NEW S, NEW s, Lists(s, S), NEW positions \in SUBSET DOMAIN s, NEW from \in Nat,
         \A k \in positions : from <= s[k]
  PROVE  Lists(Kept(s, positions, from), {s[k] - from : k \in positions})
<1> DEFINE kept == InOrder(positions)
           u == Kept(s, positions, from)
           l == Len(kept)
<1>1. positions \in SUBSET Nat /\ IsFiniteSet(positions)
  <2>1. DOMAIN s = 1 .. Len(s) /\ Len(s) \in Nat
    BY ListFacts
  <2>2. IsFiniteSet(1 .. Len(s)) /\ 1 .. Len(s) \subseteq Nat
    BY <2>1, FS_Interval
  <2> QED
    BY <2>1, <2>2, FS_Subset
<1>2. Lists(kept, positions)
  BY <1>1, InOrderLists
<1>3. /\ l \in Nat /\ DOMAIN kept = 1 .. l
      /\ \A k \in 1 .. l : kept[k] \in positions /\ kept[k] \in Nat
      /\ \A n \in positions : \E k \in 1 .. l : kept[k] = n
      /\ \A j, k \in 1 .. l : j < k => kept[j] < kept[k]
  BY <1>2, ListFacts
<1>4. u = [k \in 1 .. l |-> s[kept[k]] - from]
  BY <1>3 DEF Kept
<1> HIDE DEF kept, l, u
<1>5. \A k \in positions : s[k] - from \in Nat /\ s[k] \in Nat /\ k \in 1 .. Len(s)
  <2>1. \A k \in positions : k \in 1 .. Len(s)
    BY ListFacts
  <2>2. \A k \in positions : s[k] \in Nat /\ from <= s[k]
    BY <2>1, ListFacts
  <2> QED
    BY <2>1, <2>2
<1>6. u \in Seq(Nat) /\ Len(u) = l
  <2>1. u \in [1 .. l -> Nat]
    BY <1>3, <1>4, <1>5
  <2> QED
    BY <1>3, <2>1
<1>7. ASSUME NEW j \in 1 .. l, NEW k \in 1 .. l, j < k
      PROVE  u[j] < u[k]
  <2>1. kept[j] < kept[k] /\ kept[j] \in positions /\ kept[k] \in positions
    BY <1>3, <1>7
  <2>2. s[kept[j]] < s[kept[k]]
    <3>1. kept[j] \in 1 .. Len(s) /\ kept[k] \in 1 .. Len(s)
      BY <1>5, <2>1
    <3> QED
      BY <2>1, <3>1, ListFacts
  <2>3. s[kept[j]] \in Nat /\ s[kept[k]] \in Nat
    BY <1>5, <2>1
  <2>4. u[j] = s[kept[j]] - from /\ u[k] = s[kept[k]] - from
    BY <1>4
  <2> QED
    BY <2>2, <2>3, <2>4
<1>8. Indices(u) = {s[k] - from : k \in positions}
  <2>1. Indices(u) = {s[kept[k]] - from : k \in 1 .. l}
    BY <1>4, <1>6 DEF Indices
  <2>2. {s[kept[k]] - from : k \in 1 .. l} \subseteq {s[k] - from : k \in positions}
    BY <1>3
  <2>3. ASSUME NEW n \in positions PROVE s[n] - from \in {s[kept[k]] - from : k \in 1 .. l}
    <3>1. PICK k \in 1 .. l : kept[k] = n
      BY <1>3
    <3> QED
      BY <3>1
  <2> QED
    BY <2>1, <2>2, <2>3
<1>9. \A j, k \in 1 .. Len(u) : j < k => u[j] < u[k]
  BY <1>6, <1>7
<1>10. Lists(u, {s[k] - from : k \in positions})
  BY <1>6, <1>8, <1>9 DEF Lists
<1> QED
  BY <1>10 DEF u

LEMMA RebasedLists ==
  ASSUME NEW S, NEW s, Lists(s, S), NEW removed \in Nat, NEW len \in Nat
  PROVE  Lists(Rebased(s, removed, len), {i \in 0 .. len - 1 : i + removed \in S})
<1> DEFINE positions == {k \in DOMAIN s : s[k] \in removed .. removed + len - 1}
<1>1. DOMAIN s = 1 .. Len(s) /\ \A k \in DOMAIN s : s[k] \in S /\ s[k] \in Nat
  BY ListFacts
<1>2. Rebased(s, removed, len) = Kept(s, positions, removed)
  BY DEF Rebased, Kept
<1>3. Lists(Kept(s, positions, removed), {s[k] - removed : k \in positions})
  <2>1. positions \in SUBSET DOMAIN s
    OBVIOUS
  <2>2. \A k \in positions : removed <= s[k]
    BY <1>1
  <2> HIDE DEF positions
  <2> QED
    BY <2>1, <2>2, KeptLists
<1>4. {s[k] - removed : k \in positions} = {i \in 0 .. len - 1 : i + removed \in S}
  <2>1. ASSUME NEW k \in positions
        PROVE  s[k] - removed \in 0 .. len - 1 /\ (s[k] - removed) + removed \in S
    <3>1. s[k] \in Nat /\ s[k] \in S /\ removed <= s[k] /\ s[k] <= removed + len - 1
      BY <1>1
    <3>2. (s[k] - removed) + removed = s[k] /\ s[k] - removed \in 0 .. len - 1
      BY <3>1
    <3> QED
      BY <3>1, <3>2
  <2>2. ASSUME NEW i \in 0 .. len - 1, i + removed \in S
        PROVE  \E k \in positions : i = s[k] - removed
    <3>1. PICK k \in 1 .. Len(s) : s[k] = i + removed
      BY <2>2, ListFacts
    <3>2. k \in positions /\ i = s[k] - removed
      BY <1>1, <3>1
    <3> QED
      BY <3>2
  <2> HIDE DEF positions
  <2> QED
    BY <2>1, <2>2
<1> QED
  BY <1>2, <1>3, <1>4

-------------------------------------------------------------------------------
(* The list: the invariants *)

\* The rows before an index that the filter in force selects.
Selecting(a, below) ==
  {i \in 0 .. below - 1 :
     /\ a.active.query \notin InvalidQuery
     /\ EntryMatches(a.entries[i + 1], a.active, a.active.query)}

\* The list is in order and within the rows; as far as rows are classified it is exact.
ListInv(a) ==
  /\ a \in AppType
  /\ \E S \in SUBSET (0 .. Len(a.entries) - 1) : Lists(a.matches, S)
  /\ a.progress.some =>
       /\ a.progress.generation = a.generation /\ a.progress.log_epoch = a.epoch
       /\ a.progress.next_absolute \in a.dropped .. End(a)
       /\ a.pending <=> a.progress.next_absolute < End(a)
       /\ a.matcher = Compiled(a.active.query)
       /\ Lists(a.matches, Selecting(a, a.progress.next_absolute - a.dropped))
  /\ ~a.pending /\ ~a.progress.some =>
       a.matcher = Failed /\ a.active.query \in InvalidQuery /\ a.matches = <<>>

\* b comes from a by what the handlers do to the rows.
Later(a, b) ==
  /\ a.generation <= b.generation
  /\ b.generation = a.generation =>
       /\ b.epoch = a.epoch /\ b.active = a.active
       /\ a.dropped <= b.dropped /\ End(a) <= End(b)
       /\ \A n \in b.dropped .. End(a) - 1 :
            b.entries[n - b.dropped + 1] = a.entries[n - a.dropped + 1]

\* As long as its generation lasts a request holds the rows that were there then.
Snapshot(q, a) ==
  /\ q \in RequestType
  /\ q.generation <= a.generation
  /\ q.generation = a.generation =>
       /\ q.log_epoch = a.epoch /\ q.spec = a.active
       /\ q.snapshot_base <= a.dropped /\ q.snapshot_base + Len(q.entries) <= End(a)
       /\ \A n \in a.dropped .. q.snapshot_base + Len(q.entries) - 1 :
            a.entries[n - a.dropped + 1] = q.entries[n - q.snapshot_base + 1]

Answer(r, a) ==
  \E q \in RequestType : Snapshot(q, a) /\ r = FilterResult(q, Compiled(q.spec.query))

HighlightAnswer(r) == r.key \in Queries /\ r.matcher = Compiled(r.key)

LEMMA AppFields ==
  ASSUME NEW a \in AppType
  PROVE  /\ a.entries \in Seq(Kinds) /\ a.dropped \in Nat /\ a.epoch \in Nat
         /\ a.generation \in Nat /\ a.draft \in Filters /\ a.dirty \in BOOLEAN
         /\ a.active \in Filters /\ a.matcher \in Matcher /\ a.pending \in BOOLEAN
         /\ a.progress.next_absolute \in Nat /\ a.progress.some \in BOOLEAN
         /\ a.progress \in [next_absolute : Nat, generation : Nat, log_epoch : Nat,
                            some : BOOLEAN]
         /\ a.error \in BOOLEAN /\ a.matches \in Seq(Nat) /\ a.document \in BOOLEAN
         /\ a.highlight_key \in Queries /\ a.highlight_matcher \in Queries \cup {None}
         /\ Len(a.entries) \in Nat /\ End(a) = a.dropped + Len(a.entries) /\ End(a) \in Nat
         /\ \A k \in 1 .. Len(a.entries) : a.entries[k] \in Kinds
         /\ a.active.query \in Queries /\ a.active.meta \in SUBSET Kinds
  BY FilterAssumption DEF AppType, End

LEMMA CompiledFacts ==
  /\ Failed \notin Queries /\ None \notin Queries
  /\ \A q \in Queries : /\ Compiled(q) \in Matcher
                        /\ q \in InvalidQuery <=> Compiled(q) = Failed
                        /\ q \notin InvalidQuery => Compiled(q) = q
  BY FilterAssumption, QueryAssumption DEF Compiled, Matcher

LEMMA LaterIsTransitive ==
  ASSUME NEW a \in AppType, NEW b \in AppType, NEW q, Snapshot(q, a), Later(a, b)
  PROVE  Snapshot(q, b)
<1>1. /\ q \in RequestType /\ q.generation \in Nat /\ q.snapshot_base \in Nat
      /\ Len(q.entries) \in Nat /\ q.generation <= a.generation
  BY DEF Snapshot, RequestType
<1>2. q.generation <= b.generation
  BY <1>1, AppFields DEF Later
<1>3. ASSUME q.generation = b.generation
      PROVE  /\ q.log_epoch = b.epoch /\ q.spec = b.active
             /\ q.snapshot_base <= b.dropped /\ q.snapshot_base + Len(q.entries) <= End(b)
             /\ \A n \in b.dropped .. q.snapshot_base + Len(q.entries) - 1 :
                  b.entries[n - b.dropped + 1] = q.entries[n - q.snapshot_base + 1]
  <2>1. a.generation = b.generation /\ q.generation = a.generation
    BY <1>1, <1>3, AppFields DEF Later
  <2>2. /\ q.log_epoch = a.epoch /\ q.spec = a.active
        /\ q.snapshot_base <= a.dropped /\ q.snapshot_base + Len(q.entries) <= End(a)
    BY <2>1 DEF Snapshot
  <2>3. b.epoch = a.epoch /\ b.active = a.active /\ a.dropped <= b.dropped /\ End(a) <= End(b)
    BY <2>1 DEF Later
  <2>4. q.snapshot_base <= b.dropped /\ q.snapshot_base + Len(q.entries) <= End(b)
    BY <1>1, <2>2, <2>3, AppFields
  <2>5. ASSUME NEW n \in b.dropped .. q.snapshot_base + Len(q.entries) - 1
        PROVE  b.entries[n - b.dropped + 1] = q.entries[n - q.snapshot_base + 1]
    <3>1. n \in b.dropped .. End(a) - 1 /\ n \in a.dropped .. q.snapshot_base + Len(q.entries) - 1
      <4>1. a.dropped \in Nat /\ b.dropped \in Nat /\ End(a) \in Nat
        BY AppFields
      <4>2. n \in Int /\ b.dropped <= n /\ n <= q.snapshot_base + Len(q.entries) - 1
        BY <1>1, <4>1
      <4>3. n <= End(a) - 1
        BY <1>1, <2>2, <4>1, <4>2
      <4>4. a.dropped <= n
        BY <2>3, <4>1, <4>2
      <4> QED
        BY <1>1, <4>1, <4>2, <4>3, <4>4
    <3>2. b.entries[n - b.dropped + 1] = a.entries[n - a.dropped + 1]
      BY <2>1, <3>1 DEF Later
    <3>3. a.entries[n - a.dropped + 1] = q.entries[n - q.snapshot_base + 1]
      BY <2>1, <3>1 DEF Snapshot
    <3> QED
      BY <3>2, <3>3
  <2> QED
    BY <2>2, <2>3, <2>4, <2>5
<1> QED
  BY <1>1, <1>2, <1>3 DEF Snapshot

LEMMA AnswerStays ==
  ASSUME NEW a \in AppType, NEW b \in AppType, NEW r, Answer(r, a), Later(a, b)
  PROVE  Answer(r, b)
  BY LaterIsTransitive DEF Answer

LEMMA SameRows ==
  ASSUME NEW a \in AppType, NEW b \in AppType, b.generation = a.generation, b.epoch = a.epoch,
         b.active = a.active, b.dropped = a.dropped, b.entries = a.entries
  PROVE  Later(a, b)
<1>1. End(b) = End(a)
  BY DEF End
<1> QED
  BY <1>1, AppFields DEF Later

LEMMA RequestSnapshot ==
  ASSUME NEW a \in AppType
  PROVE  Snapshot(Request(a), a)
<1> DEFINE q == Request(a)
<1>1. /\ q.generation = a.generation /\ q.log_epoch = a.epoch /\ q.snapshot_base = a.dropped
      /\ q.entries = a.entries /\ q.spec = a.active
  BY DEF Request
<1>2. q \in RequestType
  BY AppFields DEF Request, RequestType
<1> HIDE DEF q
<1>3. Snapshot(q, a)
  BY <1>1, <1>2, AppFields DEF Snapshot, End
<1> QED
  BY <1>3 DEF q

-------------------------------------------------------------------------------
(* The list: what the handlers do to the application *)

\* b is a but for what the user edits and the highlighting.
Edited(a, b) ==
  /\ b \in AppType
  /\ b.entries = a.entries /\ b.dropped = a.dropped /\ b.epoch = a.epoch
  /\ b.generation = a.generation /\ b.active = a.active /\ b.matcher = a.matcher
  /\ b.pending = a.pending /\ b.progress = a.progress /\ b.matches = a.matches

LEMMA EditedKeeps ==
  ASSUME NEW a, ListInv(a), NEW b, Edited(a, b)
  PROVE  ListInv(b) /\ Later(a, b)
<1>1. a \in AppType
  BY DEF ListInv
<1>2. End(b) = End(a) /\ \A n : Selecting(b, n) = Selecting(a, n)
  BY DEF Edited, End, Selecting
<1>3. Later(a, b)
  BY <1>1, SameRows DEF Edited
<1>4. ListInv(b)
  BY <1>2 DEF ListInv, Edited
<1> QED
  BY <1>3, <1>4

LEMMA HighlightedEdits ==
  ASSUME NEW a \in AppType, NEW r, HighlightAnswer(r)
  PROVE  Edited(a, Highlighted(a, r))
<1>1. IF r.matcher = Failed THEN TRUE ELSE r.matcher \in Queries
  BY CompiledFacts DEF HighlightAnswer
<1> QED
  BY <1>1 DEF Highlighted, Edited, AppType, HighlightAnswer

LEMMA DrawnEdits ==
  ASSUME NEW a \in AppType
  PROVE  Edited(a, Drawn(a))
<1>1. a.draft.query \in Queries
  BY AppFields, FilterAssumption
<1> QED
  BY <1>1 DEF Drawn, Edited, AppType

LEMMA QueuedEdits ==
  ASSUME NEW a \in AppType, NEW filter \in Filters
  PROVE  Edited(a, [a EXCEPT !.draft = filter, !.dirty = TRUE])
  BY DEF Edited, AppType

\* A filter that is pending without progress: the list shown is an older one.
ProgressType == [next_absolute : Nat, generation : Nat, log_epoch : Nat, some : BOOLEAN]

LEMMA RestartedFields ==
  ASSUME NEW a \in AppType, NEW b, b = Restarted(a)
  PROVE  /\ b \in AppType /\ b.entries = a.entries /\ b.dropped = a.dropped
         /\ b.generation = a.generation + 1 /\ b.matches = a.matches
         /\ b.pending = TRUE /\ b.progress = NoProgress /\ ~b.progress.some
<1>1. a.generation + 1 \in Nat
  BY AppFields
<1>2. NoProgress \in ProgressType /\ ~NoProgress.some
  BY DEF NoProgress, ProgressType
<1>3. b = [a EXCEPT !.generation = a.generation + 1, !.pending = TRUE,
                    !.progress = NoProgress, !.error = FALSE]
  BY DEF Restarted
<1> QED
  BY <1>1, <1>2, <1>3 DEF AppType, ProgressType

LEMMA RestartedKeeps ==
  ASSUME NEW a, ListInv(a), NEW filter \in Filters, NEW dirty \in BOOLEAN, NEW draft \in Filters,
         NEW b, b = Restarted([a EXCEPT !.active = filter, !.dirty = dirty, !.draft = draft])
  PROVE  ListInv(b) /\ Later(a, b) /\ ~b.progress.some /\ b.pending
<1>1. a \in AppType
  BY DEF ListInv
<1>2. /\ b \in AppType /\ b.entries = a.entries /\ b.dropped = a.dropped
      /\ b.generation = a.generation + 1 /\ b.matches = a.matches
      /\ b.pending = TRUE /\ ~b.progress.some
  <2> DEFINE c == [a EXCEPT !.active = filter, !.dirty = dirty, !.draft = draft]
  <2>1. /\ c \in AppType /\ c.entries = a.entries /\ c.dropped = a.dropped
        /\ c.generation = a.generation /\ c.matches = a.matches
    BY <1>1 DEF AppType
  <2>2. b = Restarted(c)
    OBVIOUS
  <2> HIDE DEF c
  <2> QED
    BY <2>1, <2>2, RestartedFields
<1>3. Later(a, b)
  BY <1>1, <1>2, AppFields DEF Later
<1>4. \E S \in SUBSET (0 .. Len(b.entries) - 1) : Lists(b.matches, S)
  BY <1>2 DEF ListInv
<1>5. ListInv(b)
  BY <1>2, <1>4 DEF ListInv
<1> QED
  BY <1>2, <1>3, <1>5

LEMMA ScheduledKeeps ==
  ASSUME NEW a, ListInv(a), NEW b, b = Scheduled(a)
  PROVE  ListInv(b) /\ Later(a, b) /\ ~b.progress.some /\ b.pending
<1>1. a \in AppType
  BY DEF ListInv
<1>2. b = Restarted([a EXCEPT !.active = a.draft, !.dirty = FALSE, !.draft = a.draft])
  <2>1. [a EXCEPT !.dirty = FALSE, !.active = a.draft]
          = [a EXCEPT !.active = a.draft, !.dirty = FALSE, !.draft = a.draft]
    BY <1>1 DEF AppType
  <2> QED
    BY <2>1 DEF Scheduled
<1>3. a.draft \in Filters
  BY <1>1, AppFields
<1> QED
  BY <1>2, <1>3, RestartedKeeps

LEMMA EmptySelecting ==
  ASSUME NEW a, NEW n \in Int, n <= 0
  PROVE  Selecting(a, n) = {}
  BY DEF Selecting

LEMMA ClearedKeeps ==
  ASSUME NEW a, ListInv(a), NEW b, b = Cleared(a)
  PROVE  /\ ListInv(b) /\ Later(a, b) /\ b.entries = <<>> /\ b.matches = <<>>
         /\ b.generation = a.generation + 1 /\ (a.pending => ~b.progress.some)
<1>1. a \in AppType
  BY DEF ListInv
<1> DEFINE c == [a EXCEPT !.epoch = a.epoch + 1, !.entries = <<>>, !.matches = <<>>,
                          !.dropped = 0, !.generation = a.generation + 1]
<1>2. /\ c \in AppType /\ c.entries = <<>> /\ c.matches = <<>> /\ c.dropped = 0
      /\ c.generation = a.generation + 1 /\ c.active = a.active /\ c.matcher = a.matcher
      /\ c.pending = a.pending
  <2>1. a.epoch + 1 \in Nat /\ a.generation + 1 \in Nat /\ <<>> \in Seq(Kinds) /\ <<>> \in Seq(Nat)
    BY <1>1, AppFields
  <2> QED
    BY <1>1, <2>1 DEF AppType
<1>3. b = [c EXCEPT !.progress = IF a.pending THEN NoProgress ELSE Progress(c, 0)]
  BY DEF Cleared
<1> HIDE DEF c
<1>4. /\ b \in AppType /\ b.entries = <<>> /\ b.matches = <<>> /\ b.dropped = 0
      /\ b.generation = a.generation + 1 /\ b.active = a.active /\ b.matcher = a.matcher
      /\ b.pending = a.pending /\ b.epoch = c.epoch
      /\ b.progress = IF a.pending THEN NoProgress ELSE Progress(c, 0)
  <2> DEFINE p == IF a.pending THEN NoProgress ELSE Progress(c, 0)
  <2>1. p \in ProgressType
    BY <1>2, AppFields DEF NoProgress, Progress, ProgressType
  <2>2. b = [c EXCEPT !.progress = p]
    BY <1>3
  <2> HIDE DEF p
  <2>3. /\ b \in AppType /\ b.entries = c.entries /\ b.matches = c.matches
        /\ b.dropped = c.dropped /\ b.generation = c.generation /\ b.active = c.active
        /\ b.matcher = c.matcher /\ b.pending = c.pending /\ b.epoch = c.epoch
        /\ b.progress = p
    BY <1>2, <2>1, <2>2 DEF AppType, ProgressType
  <2> QED
    BY <1>2, <2>3 DEF p
<1>5. Later(a, b)
  BY <1>1, <1>4, AppFields DEF Later
<1>6. Len(b.entries) = 0 /\ End(b) = 0
  BY <1>4 DEF End
<1>7. Lists(b.matches, {})
  BY <1>4, EmptyLists
<1>8. \E S \in SUBSET (0 .. Len(b.entries) - 1) : Lists(b.matches, S)
  BY <1>7
<1>9. ASSUME b.progress.some
      PROVE  /\ b.progress.generation = b.generation /\ b.progress.log_epoch = b.epoch
             /\ b.progress.next_absolute \in b.dropped .. End(b)
             /\ b.pending <=> b.progress.next_absolute < End(b)
             /\ b.matcher = Compiled(b.active.query)
             /\ Lists(b.matches, Selecting(b, b.progress.next_absolute - b.dropped))
  <2>1. ~a.pending /\ ~b.pending
    BY <1>4, <1>9 DEF NoProgress
  <2>2. b.progress.next_absolute = 0 /\ b.progress.generation = c.generation
        /\ b.progress.log_epoch = c.epoch
    BY <1>4, <2>1 DEF Progress
  <2>3. a.matcher = Compiled(a.active.query)
    <3>1. a.active.query \in Queries
      BY <1>1, AppFields
    <3> QED
      BY <2>1, <3>1, CompiledFacts DEF ListInv
  <2>4. b.progress.next_absolute - b.dropped = 0
    BY <1>4, <2>2
  <2>5. Selecting(b, b.progress.next_absolute - b.dropped) = {}
    BY <2>4, EmptySelecting
  <2>6. b.progress.next_absolute \in b.dropped .. End(b) /\ ~(b.progress.next_absolute < End(b))
    BY <1>4, <1>6, <2>2
  <2> QED
    BY <1>2, <1>4, <1>7, <2>1, <2>2, <2>3, <2>5, <2>6
<1>10. ~b.pending => b.progress.some
  BY <1>4 DEF Progress
<1>11. a.pending => ~b.progress.some
  BY <1>4 DEF NoProgress
<1> QED
  BY <1>4, <1>5, <1>8, <1>9, <1>10, <1>11 DEF ListInv

LEMMA InstalledKeeps ==
  ASSUME NEW a, ListInv(a), NEW rows \in Files, NEW filter \in Filters,
         NEW b, b = Installed(a, rows, filter)
  PROVE  /\ ListInv(b) /\ Later(a, b) /\ ~b.progress.some /\ b.pending /\ b.matches = <<>>
         /\ b.generation = a.generation + 1 + 1
<1> DEFINE c == Cleared(a)
           d == [c EXCEPT !.entries = rows, !.document = TRUE, !.draft = filter]
<1>1. /\ a \in AppType /\ c \in AppType /\ c.matches = <<>> /\ a.generation <= c.generation
      /\ c.generation = a.generation + 1
  BY ClearedKeeps DEF ListInv, Later
<1> HIDE DEF c
<1>2. d \in AppType /\ d.matches = <<>> /\ d.generation = c.generation
  BY <1>1, PipelineAssumption DEF AppType
<1> HIDE DEF d
<1>3. b = Scheduled(d)
  BY DEF Installed, d, c
<1>4. /\ b \in AppType /\ b.matches = <<>> /\ b.generation = c.generation + 1
      /\ b.pending /\ ~b.progress.some
  <2> DEFINE e == [d EXCEPT !.dirty = FALSE, !.active = d.draft]
  <2>1. d.draft \in Filters
    BY <1>2, AppFields
  <2>2. e \in AppType /\ e.matches = <<>> /\ e.generation = c.generation
    BY <1>2, <2>1 DEF AppType
  <2>3. b = Restarted(e)
    BY <1>3 DEF Scheduled
  <2> HIDE DEF e
  <2>4. /\ b \in AppType /\ b.matches = e.matches /\ b.generation = e.generation + 1
        /\ b.pending = TRUE /\ ~b.progress.some
    BY <2>2, <2>3, RestartedFields
  <2> QED
    BY <2>2, <2>4
<1>5. Later(a, b)
  BY <1>1, <1>4, AppFields DEF Later
<1>6. ListInv(b)
  BY <1>4, EmptyLists DEF ListInv
<1> QED
  BY <1>1, <1>4, <1>5, <1>6

\* What a trim leaves.
TrimmedTo(a, remove, b) ==
  /\ b \in AppType
  /\ b.entries = SubSeq(a.entries, remove + 1, Len(a.entries))
  /\ b.dropped = a.dropped + remove /\ b.epoch = a.epoch /\ b.generation = a.generation
  /\ b.active = a.active /\ b.matcher = a.matcher /\ b.document = a.document
  /\ b.matches = Rebased(a.matches, remove, Len(b.entries))
  /\ Len(b.entries) = Len(a.entries) - remove /\ End(b) = End(a)
  /\ \A i \in 1 .. Len(b.entries) : b.entries[i] = a.entries[i + remove]
  /\ b.progress.some = a.progress.some
  /\ IF a.progress.some
     THEN /\ b.progress.next_absolute = Larger(a.progress.next_absolute, b.dropped)
          /\ b.progress.generation = a.progress.generation
          /\ b.progress.log_epoch = a.progress.log_epoch
          /\ b.pending = (b.progress.next_absolute < End(b))
     ELSE b.progress = a.progress /\ b.pending = a.pending

LEMMA TrimmedFields ==
  ASSUME NEW a, ListInv(a), NEW remove \in 1 .. Len(a.entries), NEW b, b = Trimmed(a, remove)
  PROVE  TrimmedTo(a, remove, b)
<1> DEFINE dropped == a.dropped + remove
           entries == SubSeq(a.entries, remove + 1, Len(a.entries))
           next == Larger(a.progress.next_absolute, dropped)
           matches == Rebased(a.matches, remove, Len(entries))
           progress == IF a.progress.some THEN [a.progress EXCEPT !.next_absolute = next]
                       ELSE a.progress
           pending == IF a.progress.some THEN next < dropped + Len(entries) ELSE a.pending
<1>1. a \in AppType /\ remove \in Nat /\ remove # 0 /\ Len(a.entries) \in Nat
      /\ remove <= Len(a.entries)
  <2>1. a \in AppType
    BY DEF ListInv
  <2> QED
    BY <2>1, AppFields
<1>2. /\ entries \in Seq(Kinds) /\ Len(entries) = Len(a.entries) - remove
      /\ \A i \in 1 .. Len(entries) : entries[i] = a.entries[i + remove]
  <2>1. \A i \in remove + 1 .. Len(a.entries) : a.entries[i] \in Kinds
    BY <1>1, AppFields
  <2>2. remove + 1 \in Int /\ Len(a.entries) \in Int
    BY <1>1
  <2>3. /\ entries \in Seq(Kinds)
        /\ Len(entries) = IF remove + 1 <= Len(a.entries) THEN Len(a.entries) - (remove + 1) + 1 ELSE 0
        /\ \A i \in 1 .. Len(a.entries) - (remove + 1) + 1 : entries[i] = a.entries[(remove + 1) + i - 1]
    BY <2>1, <2>2, SubSeqProperties
  <2> HIDE DEF entries
  <2>4. Len(entries) = Len(a.entries) - remove
    BY <1>1, <2>3
  <2> QED
    BY <1>1, <2>3, <2>4
<1>3. b = [a EXCEPT !.entries = entries, !.dropped = dropped, !.matches = matches,
                    !.progress = progress, !.pending = pending]
  BY <1>1 DEF Trimmed
<1>4. dropped \in Nat /\ next \in Nat
  BY <1>1, AppFields DEF Larger
<1>5. matches \in Seq(Nat)
  <2>1. PICK S : Lists(a.matches, S)
    BY DEF ListInv
  <2>2. Len(entries) \in Nat
    BY <1>2
  <2> HIDE DEF entries
  <2>3. Lists(matches, {i \in 0 .. Len(entries) - 1 : i + remove \in S})
    BY <1>1, <2>1, <2>2, RebasedLists
  <2> QED
    BY <2>3, ListFacts
<1> HIDE DEF next, matches
<1>6. /\ progress \in ProgressType /\ progress.some = a.progress.some
      /\ a.progress.some => /\ progress.next_absolute = next
                            /\ progress.generation = a.progress.generation
                            /\ progress.log_epoch = a.progress.log_epoch
  BY <1>1, <1>4, AppFields DEF ProgressType
<1>7. pending \in BOOLEAN
  <2>1. a.pending \in BOOLEAN
    BY <1>1, AppFields
  <2>2. \A m, n : (m < n) \in BOOLEAN
    OBVIOUS
  <2> HIDE DEF entries, dropped
  <2> QED
    BY <2>1, <2>2
<1>8. /\ b \in AppType /\ b.entries = entries /\ b.dropped = dropped /\ b.matches = matches
      /\ b.progress = progress /\ b.pending = pending
      /\ b.epoch = a.epoch /\ b.generation = a.generation
      /\ b.active = a.active /\ b.matcher = a.matcher /\ b.document = a.document
  <2> HIDE DEF entries, dropped, progress, pending
  <2> QED
    BY <1>1, <1>2, <1>3, <1>4, <1>5, <1>6, <1>7, ZenonT(40) DEF AppType, ProgressType
<1>9. End(b) = End(a) /\ End(b) = dropped + Len(entries)
  <2>1. End(b) = dropped + Len(entries)
    BY <1>8 DEF End
  <2> HIDE DEF entries
  <2> QED
    BY <1>1, <1>2, <2>1, AppFields
<1>10. b.matches = Rebased(a.matches, remove, Len(b.entries))
  BY <1>8 DEF matches
<1>11. IF a.progress.some
       THEN b.pending = (b.progress.next_absolute < End(b)) /\ b.progress.next_absolute = next
       ELSE b.progress = a.progress /\ b.pending = a.pending
  BY <1>6, <1>8, <1>9
<1>12. next = Larger(a.progress.next_absolute, b.dropped)
  BY <1>8 DEF next
<1>13. b.entries = SubSeq(a.entries, remove + 1, Len(a.entries)) /\ b.dropped = a.dropped + remove
  BY <1>8
<1> HIDE DEF entries, dropped, progress, pending
<1> QED
  BY <1>2, <1>6, <1>8, <1>9, <1>10, <1>11, <1>12, <1>13 DEF TrimmedTo

LEMMA TrimmedKeeps ==
  ASSUME NEW a, ListInv(a), NEW remove \in 0 .. Len(a.entries), NEW b, b = Trimmed(a, remove)
  PROVE  ListInv(b) /\ Later(a, b)
<1>1. a \in AppType
  BY DEF ListInv
<1>2. CASE remove = 0
  <2>1. b = a
    BY <1>2 DEF Trimmed
  <2> QED
    BY <1>1, <2>1, SameRows
<1>3. CASE remove # 0
  <2>1. remove \in 1 .. Len(a.entries) /\ remove \in Nat
    BY <1>1, <1>3, AppFields
  <2>0. TrimmedTo(a, remove, b)
    BY <2>1, TrimmedFields
  <2>2. /\ b \in AppType
        /\ b.dropped = a.dropped + remove /\ b.epoch = a.epoch /\ b.generation = a.generation
        /\ b.active = a.active /\ b.matcher = a.matcher
        /\ b.matches = Rebased(a.matches, remove, Len(b.entries))
        /\ Len(b.entries) = Len(a.entries) - remove /\ End(b) = End(a)
        /\ \A i \in 1 .. Len(b.entries) : b.entries[i] = a.entries[i + remove]
        /\ b.progress.some = a.progress.some
    BY <2>0 DEF TrimmedTo
  <2>3. IF a.progress.some
        THEN /\ b.progress.next_absolute = Larger(a.progress.next_absolute, b.dropped)
             /\ b.progress.generation = a.progress.generation
             /\ b.progress.log_epoch = a.progress.log_epoch
             /\ b.pending = (b.progress.next_absolute < End(b))
        ELSE b.progress = a.progress /\ b.pending = a.pending
    BY <2>0 DEF TrimmedTo
  <2>4. /\ a.dropped \in Nat /\ Len(a.entries) \in Nat /\ End(a) = a.dropped + Len(a.entries)
        /\ Len(b.entries) \in Nat /\ b.dropped \in Nat /\ a.generation \in Nat
    BY <1>1, <2>2, AppFields
  <2>5. Later(a, b)
    <3>1. ASSUME NEW n \in b.dropped .. End(a) - 1
          PROVE  b.entries[n - b.dropped + 1] = a.entries[n - a.dropped + 1]
      <4> DEFINE m == n - b.dropped + 1
      <4>1. n \in Int /\ b.dropped <= n /\ n < a.dropped + Len(a.entries)
        BY <2>4
      <4>2. m \in 1 .. Len(b.entries) /\ m + remove = n - a.dropped + 1
        <5>1. b.dropped = a.dropped + remove /\ Len(b.entries) = Len(a.entries) - remove
          BY <2>2
        <5>2. b.dropped \in Int /\ a.dropped \in Int /\ Len(a.entries) \in Int
              /\ Len(b.entries) \in Int /\ remove \in Int
          BY <2>1, <2>4
        <5> DEFINE bd == b.dropped
                   bl == Len(b.entries)
                   ad == a.dropped
                   al == Len(a.entries)
        <5>3. bd = ad + remove /\ bl = al - remove /\ bd <= n /\ n < ad + al
          BY <4>1, <5>1
        <5>4. bd \in Int /\ bl \in Int /\ ad \in Int /\ al \in Int /\ remove \in Int /\ n \in Int
          BY <4>1, <5>2
        <5> HIDE DEF bd, bl, ad, al
        <5>5. n - bd + 1 \in 1 .. bl /\ (n - bd + 1) + remove = n - ad + 1
          BY <5>3, <5>4
        <5> QED
          BY <5>5 DEF bd, bl, ad, al
      <4> HIDE DEF m
      <4>3. b.entries[m] = a.entries[n - a.dropped + 1]
        BY <2>2, <4>2
      <4> QED
        BY <4>3 DEF m
    <3> QED
      BY <2>1, <2>2, <2>4, <3>1 DEF Later
  <2>6. \A S : Lists(a.matches, S) =>
                 Lists(b.matches, {i \in 0 .. Len(b.entries) - 1 : i + remove \in S})
    BY <2>1, <2>2, <2>4, RebasedLists
  <2>7. \E S \in SUBSET (0 .. Len(b.entries) - 1) : Lists(b.matches, S)
    <3>1. PICK S : Lists(a.matches, S)
      BY DEF ListInv
    <3> QED
      BY <2>6, <3>1
  <2>8. ASSUME b.progress.some
        PROVE  /\ b.progress.generation = b.generation /\ b.progress.log_epoch = b.epoch
               /\ b.progress.next_absolute \in b.dropped .. End(b)
               /\ b.pending <=> b.progress.next_absolute < End(b)
               /\ b.matcher = Compiled(b.active.query)
               /\ Lists(b.matches, Selecting(b, b.progress.next_absolute - b.dropped))
    <3> DEFINE m == a.progress.next_absolute
               n == b.progress.next_absolute
    <3>1. /\ a.progress.some /\ a.progress.generation = a.generation
          /\ a.progress.log_epoch = a.epoch /\ m \in a.dropped .. End(a)
          /\ a.matcher = Compiled(a.active.query)
          /\ Lists(a.matches, Selecting(a, m - a.dropped))
      BY <2>2, <2>8 DEF ListInv
    <3>2. n = Larger(m, b.dropped) /\ b.progress.generation = a.progress.generation
          /\ b.progress.log_epoch = a.progress.log_epoch
          /\ b.pending = (n < End(b))
      BY <2>3, <3>1
    <3> HIDE DEF m, n
    <3>3. n \in b.dropped .. End(b) /\ m \in Nat
      BY <2>1, <2>2, <2>4, <3>1, <3>2 DEF Larger
    <3>4. {i \in 0 .. Len(b.entries) - 1 : i + remove \in Selecting(a, m - a.dropped)}
            = Selecting(b, n - b.dropped)
      <4>1. ASSUME NEW i \in 0 .. Len(b.entries) - 1
            PROVE  i + remove \in 0 .. (m - a.dropped) - 1 <=> i \in 0 .. (n - b.dropped) - 1
        BY <2>1, <2>2, <2>4, <3>1, <3>2, <3>3, SMTT(20) DEF Larger
      <4>2. ASSUME NEW i \in 0 .. Len(b.entries) - 1
            PROVE  b.entries[i + 1] = a.entries[(i + remove) + 1]
        <5>1. i + 1 \in 1 .. Len(b.entries) /\ (i + 1) + remove = (i + remove) + 1
          BY <2>1, <2>4
        <5> QED
          BY <2>2, <5>1
      <4>3. (n - b.dropped) - 1 <= Len(b.entries) - 1
        BY <2>1, <2>2, <2>4, <3>3, SMTT(20)
      <4>4. \A i \in 0 .. (n - b.dropped) - 1 : i \in 0 .. Len(b.entries) - 1
        BY <2>4, <3>3, <4>3
      <4>5. ASSUME NEW i \in 0 .. Len(b.entries) - 1
            PROVE  i + remove \in Selecting(a, m - a.dropped) <=> i \in Selecting(b, n - b.dropped)
        BY <2>2, <4>1, <4>2 DEF Selecting
      <4>6. Selecting(b, n - b.dropped) \subseteq 0 .. Len(b.entries) - 1
        BY <4>4 DEF Selecting
      <4> QED
        BY <4>5, <4>6
    <3>5. Lists(b.matches, Selecting(b, n - b.dropped))
      BY <2>6, <3>1, <3>4
    <3>6. (b.pending <=> n < End(b)) /\ b.matcher = Compiled(b.active.query)
          /\ b.progress.generation = b.generation /\ b.progress.log_epoch = b.epoch
      BY <2>2, <3>1, <3>2
    <3> QED
      BY <3>3, <3>5, <3>6 DEF n
  <2>9. ASSUME ~b.pending, ~b.progress.some
        PROVE  b.matcher = Failed /\ b.active.query \in InvalidQuery /\ b.matches = <<>>
    <3>1. ~a.pending /\ ~a.progress.some
      BY <2>2, <2>3, <2>9
    <3>2. a.matcher = Failed /\ a.active.query \in InvalidQuery /\ a.matches = <<>>
      BY <3>1 DEF ListInv
    <3>3. Lists(b.matches, {i \in 0 .. Len(b.entries) - 1 : i + remove \in {}})
      BY <2>6, <3>2, EmptyLists
    <3>4. Lists(b.matches, {})
      BY <3>3
    <3>5. b.matches = <<>>
      BY <3>4, EmptyLists, ListsUnique
    <3> QED
      BY <2>2, <3>2, <3>5
  <2> QED
    BY <2>2, <2>5, <2>7, <2>8, <2>9 DEF ListInv
<1> QED
  BY <1>2, <1>3

\* What is selected before an index depends on the rows before it.
LEMMA SelectingSame ==
  ASSUME NEW a, NEW b, NEW n \in Int, b.active = a.active,
         \A i \in 1 .. n : b.entries[i] = a.entries[i]
  PROVE  Selecting(b, n) = Selecting(a, n)
<1>1. \A i \in 0 .. n - 1 : b.entries[i + 1] = a.entries[i + 1]
  <2> SUFFICES ASSUME NEW i \in 0 .. n - 1 PROVE b.entries[i + 1] = a.entries[i + 1]
    OBVIOUS
  <2>1. i + 1 \in 1 .. n
    OBVIOUS
  <2> QED
    BY <2>1
<1> QED
  BY <1>1 DEF Selecting

\* What a received row leaves.
AppendedTo(a, row, b) ==
  /\ b \in AppType
  /\ b.entries = Append(a.entries, row) /\ Len(b.entries) = Len(a.entries) + 1
  /\ b.dropped = a.dropped /\ b.epoch = a.epoch /\ b.generation = a.generation
  /\ b.active = a.active /\ b.matcher = a.matcher /\ b.pending = a.pending
  /\ b.document = a.document /\ End(b) = End(a) + 1
  /\ \A i \in 1 .. Len(a.entries) : b.entries[i] = a.entries[i]
  /\ b.entries[Len(b.entries)] = row
  /\ b.matches = IF ~a.pending /\ a.matcher # Failed /\ EntryMatches(row, a.active, a.matcher)
                 THEN Append(a.matches, Len(a.entries)) ELSE a.matches
  /\ b.progress = IF ~a.pending /\ a.progress.some
                  THEN [a.progress EXCEPT !.next_absolute = End(b)] ELSE a.progress

LEMMA AppendedFields ==
  ASSUME NEW a \in AppType, NEW row \in Kinds, NEW b, b = Appended(a, row)
  PROVE  AppendedTo(a, row, b)
<1> DEFINE take == ~a.pending /\ a.matcher # Failed /\ EntryMatches(row, a.active, a.matcher)
           entries == Append(a.entries, row)
           matches == IF take THEN Append(a.matches, Len(a.entries)) ELSE a.matches
           c == [a EXCEPT !.entries = entries, !.matches = matches]
<1>1. /\ entries \in Seq(Kinds) /\ Len(entries) = Len(a.entries) + 1
      /\ \A i \in 1 .. Len(a.entries) : entries[i] = a.entries[i]
      /\ entries[Len(entries)] = row
  BY AppFields
<1>2. matches \in Seq(Nat)
  <2>1. Append(a.matches, Len(a.entries)) \in Seq(Nat)
    BY AppFields
  <2> QED
    BY <2>1, AppFields
<1> HIDE DEF entries, matches
<1>3. /\ c \in AppType /\ c.entries = entries /\ c.matches = matches
      /\ c.dropped = a.dropped /\ c.epoch = a.epoch /\ c.generation = a.generation
      /\ c.active = a.active /\ c.matcher = a.matcher /\ c.pending = a.pending
      /\ c.document = a.document /\ c.progress = a.progress
  BY <1>1, <1>2 DEF AppType
<1>4. b = IF ~a.pending /\ a.progress.some THEN [c EXCEPT !.progress.next_absolute = End(c)] ELSE c
  <2>1. c = [a EXCEPT !.entries = Append(a.entries, row),
                      !.matches = IF take THEN Append(@, Len(a.entries)) ELSE @]
    BY DEF entries, matches
  <2> QED
    BY <2>1 DEF Appended
<1> HIDE DEF c
<1> DEFINE progress == IF ~a.pending /\ a.progress.some
                       THEN [a.progress EXCEPT !.next_absolute = End(c)] ELSE a.progress
<1>5. End(c) \in Nat /\ End(c) = End(a) + 1
  <2>1. End(c) = a.dropped + Len(entries)
    BY <1>3 DEF End
  <2>2. a.dropped \in Nat /\ Len(a.entries) \in Nat /\ End(a) = a.dropped + Len(a.entries)
    BY AppFields
  <2>3. Len(entries) = Len(a.entries) + 1
    BY <1>1
  <2> DEFINE d == a.dropped
             l == Len(a.entries)
             m == Len(entries)
  <2>4. d \in Nat /\ l \in Nat /\ m = l + 1 /\ End(a) = d + l /\ End(c) = d + m
    BY <2>1, <2>2, <2>3
  <2> HIDE DEF d, l, m
  <2> QED
    BY <2>4
<1>6. progress \in ProgressType
  BY <1>5, AppFields DEF ProgressType
<1>7. b = [c EXCEPT !.progress = progress]
  BY <1>3, <1>4 DEF AppType
<1> HIDE DEF progress
<1>8. /\ b \in AppType /\ b.entries = entries /\ b.matches = matches
      /\ b.dropped = a.dropped /\ b.epoch = a.epoch /\ b.generation = a.generation
      /\ b.active = a.active /\ b.matcher = a.matcher /\ b.pending = a.pending
      /\ b.document = a.document /\ b.progress = progress
  BY <1>3, <1>6, <1>7 DEF AppType, ProgressType
<1>9. End(b) = End(c)
  BY <1>3, <1>8 DEF End
<1> QED
  BY <1>1, <1>5, <1>8, <1>9 DEF AppendedTo, entries, matches, progress

LEMMA AppendedKeeps ==
  ASSUME NEW a, ListInv(a), NEW row \in Kinds, NEW b, b = Appended(a, row)
  PROVE  ListInv(b) /\ Later(a, b)
<1>1. a \in AppType
  BY DEF ListInv
<1>2. AppendedTo(a, row, b)
  BY <1>1, AppendedFields
<1> DEFINE l == Len(a.entries)
           take == ~a.pending /\ a.matcher # Failed /\ EntryMatches(row, a.active, a.matcher)
<1>3. /\ b \in AppType /\ Len(b.entries) = l + 1
      /\ b.dropped = a.dropped /\ b.epoch = a.epoch /\ b.generation = a.generation
      /\ b.active = a.active /\ b.matcher = a.matcher /\ b.pending = a.pending
      /\ End(b) = End(a) + 1
      /\ \A i \in 1 .. l : b.entries[i] = a.entries[i]
      /\ b.entries[l + 1] = row
  BY <1>2 DEF AppendedTo
<1>4. b.matches = IF take THEN Append(a.matches, l) ELSE a.matches
  BY <1>2 DEF AppendedTo
<1>5. /\ ~a.pending /\ a.progress.some =>
           /\ b.progress.next_absolute = End(b) /\ b.progress.generation = a.progress.generation
           /\ b.progress.log_epoch = a.progress.log_epoch
      /\ ~(~a.pending /\ a.progress.some) => b.progress = a.progress
      /\ b.progress.some = a.progress.some
  <2>1. b.progress = IF ~a.pending /\ a.progress.some
                     THEN [a.progress EXCEPT !.next_absolute = End(b)] ELSE a.progress
    BY <1>2 DEF AppendedTo
  <2>2. a.progress \in ProgressType
    BY <1>1, AppFields DEF ProgressType
  <2> QED
    BY <2>1, <2>2 DEF ProgressType
<1>6. l \in Nat /\ a.dropped \in Nat /\ End(a) = a.dropped + l /\ End(a) \in Nat
  BY <1>1, AppFields
<1>7. Later(a, b)
  <2>1. ASSUME NEW n \in b.dropped .. End(a) - 1
        PROVE  b.entries[n - b.dropped + 1] = a.entries[n - a.dropped + 1]
    <3>1. n \in Int /\ a.dropped <= n /\ n < a.dropped + l
      BY <1>3, <1>6
    <3>2. n - a.dropped + 1 \in 1 .. l
      BY <1>6, <3>1
    <3> QED
      BY <1>3, <3>2
  <2>2. a.dropped <= b.dropped /\ End(a) <= End(b) /\ a.generation <= b.generation
    BY <1>1, <1>3, <1>6, AppFields
  <2> QED
    BY <1>3, <2>1, <2>2 DEF Later
<1> HIDE DEF take, l
<1>8. \E S \in SUBSET (0 .. Len(b.entries) - 1) : Lists(b.matches, S)
  <2>1. PICK S \in SUBSET (0 .. l - 1) : Lists(a.matches, S)
    BY DEF ListInv, l
  <2>2. S \in SUBSET (0 .. Len(b.entries) - 1) /\ S \cup {l} \in SUBSET (0 .. Len(b.entries) - 1)
    BY <1>3, <1>6
  <2>3. Lists(Append(a.matches, l), S \cup {l})
    <3>1. \A i \in S : i < l
      BY <1>6
    <3> QED
      BY <1>6, <2>1, <3>1, AppendLists
  <2> QED
    BY <1>4, <2>1, <2>2, <2>3
<1>9. \A n \in Int : n <= l => Selecting(b, n) = Selecting(a, n)
  <2> SUFFICES ASSUME NEW n \in Int, n <= l PROVE Selecting(b, n) = Selecting(a, n)
    OBVIOUS
  <2>1. \A i \in 1 .. n : b.entries[i] = a.entries[i]
    BY <1>3, <1>6
  <2> QED
    BY <1>3, <2>1, SelectingSame
<1>10. ASSUME b.progress.some
       PROVE  /\ b.progress.generation = b.generation /\ b.progress.log_epoch = b.epoch
              /\ b.progress.next_absolute \in b.dropped .. End(b)
              /\ b.pending <=> b.progress.next_absolute < End(b)
              /\ b.matcher = Compiled(b.active.query)
              /\ Lists(b.matches, Selecting(b, b.progress.next_absolute - b.dropped))
  <2> DEFINE m == a.progress.next_absolute
             n == b.progress.next_absolute
  <2>1. /\ a.progress.some /\ a.progress.generation = a.generation
        /\ a.progress.log_epoch = a.epoch /\ m \in a.dropped .. End(a)
        /\ a.pending <=> m < End(a)
        /\ a.matcher = Compiled(a.active.query)
        /\ Lists(a.matches, Selecting(a, m - a.dropped))
    BY <1>5, <1>10 DEF ListInv
  <2>2. CASE a.pending
    <3>1. b.progress = a.progress /\ b.matches = a.matches
      BY <1>4, <1>5, <2>2 DEF take
    <3>2. m \in b.dropped .. End(b) /\ m < End(b) /\ m - b.dropped \in Int /\ m - b.dropped <= l
          /\ b.dropped = a.dropped
      BY <1>3, <1>6, <2>1
    <3>3. Lists(b.matches, Selecting(b, m - b.dropped))
      BY <1>9, <2>1, <3>1, <3>2
    <3> QED
      BY <1>3, <2>1, <2>2, <3>1, <3>2, <3>3
  <2>3. CASE ~a.pending
    <3>1. n = End(b) /\ b.progress.generation = a.progress.generation
          /\ b.progress.log_epoch = a.progress.log_epoch
      BY <1>5, <2>1, <2>3
    <3>2. m = End(a) /\ m - a.dropped = l /\ n - b.dropped = l + 1
          /\ n \in b.dropped .. End(b) /\ ~(n < End(b))
      <4>1. m = End(a)
        BY <1>6, <2>1, <2>3
      <4>2. m - a.dropped = l
        BY <1>6, <4>1
      <4>3. n - b.dropped = l + 1 /\ n \in b.dropped .. End(b) /\ ~(n < End(b))
        BY <1>3, <1>6, <3>1
      <4> QED
        BY <4>1, <4>2, <4>3
    <3>3. a.active.query \in Queries
      BY <1>1, AppFields
    <3>4. take <=> /\ b.active.query \notin InvalidQuery
                   /\ EntryMatches(b.entries[l + 1], b.active, b.active.query)
      BY <1>3, <2>1, <2>3, <3>3, CompiledFacts DEF take
    <3>5. Selecting(b, l + 1) = IF take THEN Selecting(b, l) \cup {l} ELSE Selecting(b, l)
      <4>1. 0 .. (l + 1) - 1 = (0 .. l - 1) \cup {l}
        BY <1>6
      <4> QED
        BY <3>4, <4>1 DEF Selecting
    <3>6. Lists(a.matches, Selecting(b, l))
      BY <1>6, <1>9, <2>1, <3>2
    <3>7. Lists(Append(a.matches, l), Selecting(b, l) \cup {l})
      <4>1. \A i \in Selecting(b, l) : i < l
        BY <1>6 DEF Selecting
      <4> QED
        BY <1>6, <3>6, <4>1, AppendLists
    <3>8. Lists(b.matches, Selecting(b, l + 1))
      BY <1>4, <3>5, <3>6, <3>7
    <3> QED
      BY <1>3, <2>1, <2>3, <3>1, <3>2, <3>8
  <2> QED
    BY <2>2, <2>3
<1>11. ASSUME ~b.pending, ~b.progress.some
       PROVE  b.matcher = Failed /\ b.active.query \in InvalidQuery /\ b.matches = <<>>
  <2>1. a.matcher = Failed /\ a.active.query \in InvalidQuery /\ a.matches = <<>>
    BY <1>3, <1>5, <1>11 DEF ListInv
  <2> QED
    BY <1>3, <1>4, <2>1 DEF take
<1> QED
  BY <1>3, <1>7, <1>8, <1>10, <1>11 DEF ListInv

LEMMA CaughtUpKeeps ==
  ASSUME NEW a, ListInv(a), NEW rows \in Nat, NEW b, b = CaughtUp(a, rows)
  PROVE  ListInv(b) /\ Later(a, b)
<1>1. a \in AppType
  BY DEF ListInv
<1>2. CASE ~CatchesUp(a)
  <2>1. b = a
    BY <1>2 DEF CaughtUp
  <2> QED
    BY <1>1, <2>1, SameRows
<1>3. CASE CatchesUp(a)
  <2> DEFINE l == Len(a.entries)
             d == a.dropped
             start == Larger(a.progress.next_absolute, a.dropped) - a.dropped
             next == IF a.matcher = Failed THEN start ELSE Smaller(start + rows, l)
             T == Matching(a.entries, a.active, a.matcher) \cap start .. next - 1
             found == InOrder(T)
  <2>1. l \in Nat /\ d \in Nat /\ End(a) = d + l /\ a.active.query \in Queries
    BY <1>1, AppFields
  <2>2. /\ a.pending /\ a.progress.some /\ a.progress.next_absolute \in d .. End(a)
        /\ a.matcher = Compiled(a.active.query)
        /\ Lists(a.matches, Selecting(a, a.progress.next_absolute - d))
    BY <1>3 DEF ListInv, CatchesUp
  <2>3. start = a.progress.next_absolute - d /\ start \in 0 .. l
    BY <2>1, <2>2 DEF Larger
  <2>4. next \in start .. l
    BY <2>1, <2>3 DEF Smaller
  <2> HIDE DEF start, next, l, d
  <2>5. T \in SUBSET Nat /\ IsFiniteSet(T)
    <3>1. T \subseteq start .. next - 1
      OBVIOUS
    <3>2. start \in Int /\ next - 1 \in Int /\ start .. next - 1 \subseteq Nat
      BY <2>1, <2>3, <2>4
    <3>3. IsFiniteSet(start .. next - 1)
      BY <3>2, FS_Interval
    <3> QED
      BY <3>1, <3>2, <3>3, FS_Subset
  <2>6. Lists(found, T)
    BY <2>5, InOrderLists
  <2>7. Selecting(a, next) = Selecting(a, start) \cup T
    <3>1. CASE a.matcher = Failed
      <4>1. next = start
        BY <3>1 DEF next
      <4>2. T = {}
        BY <2>1, <2>3, <4>1
      <4> QED
        BY <4>1, <4>2
    <3>2. CASE a.matcher # Failed
      <4>1. a.active.query \notin InvalidQuery /\ a.matcher = a.active.query
        BY <2>1, <2>2, <3>2, CompiledFacts
      <4>2. T = {i \in start .. next - 1 : EntryMatches(a.entries[i + 1], a.active, a.active.query)}
        <5>1. start .. next - 1 \subseteq 0 .. l - 1
          BY <2>1, <2>3, <2>4
        <5> QED
          BY <4>1, <5>1 DEF Matching, l
      <4>3. 0 .. next - 1 = (0 .. start - 1) \cup (start .. next - 1)
        BY <2>1, <2>3, <2>4
      <4> HIDE DEF T
      <4> QED
        BY <4>1, <4>2, <4>3 DEF Selecting
    <3> QED
      BY <3>1, <3>2
  <2>8. Lists(a.matches \o found, Selecting(a, next))
    <3>1. \A i \in Selecting(a, start), j \in T : i < j
      <4>1. \A i \in Selecting(a, start) : i \in Nat /\ i < start
        BY <2>1, <2>3 DEF Selecting
      <4>2. \A j \in T : j \in Int /\ start <= j
        BY <2>1, <2>3, <2>4
      <4> HIDE DEF T
      <4> QED
        BY <2>1, <2>3, <4>1, <4>2
    <3>2. Lists(a.matches, Selecting(a, start))
      BY <2>2, <2>3
    <3> QED
      BY <2>6, <2>7, <3>1, <3>2, ConcatLists
  <2> HIDE DEF found, T
  <2>9. /\ b \in AppType /\ b.entries = a.entries /\ b.dropped = d /\ b.epoch = a.epoch
        /\ b.generation = a.generation /\ b.active = a.active /\ b.matcher = a.matcher
        /\ b.matches = a.matches \o found /\ b.progress = Progress(a, d + next)
        /\ b.pending = (next < l)
    <3>1. b = [a EXCEPT !.matches = a.matches \o found, !.progress = Progress(a, d + next),
                        !.pending = next < l]
      BY <1>3 DEF CaughtUp, found, T, next, start, l, d
    <3>2. a.matches \o found \in Seq(Nat)
      BY <2>8, ListFacts
    <3>3. d + next \in Nat /\ (next < l) \in BOOLEAN
      BY <2>1, <2>3, <2>4
    <3>4. Progress(a, d + next) \in ProgressType
      BY <1>1, <3>3, AppFields DEF Progress, ProgressType
    <3> DEFINE pending == next < l
               matches == a.matches \o found
               progress == Progress(a, d + next)
    <3>5. pending \in BOOLEAN /\ matches \in Seq(Nat) /\ progress \in ProgressType
          /\ b = [a EXCEPT !.matches = matches, !.progress = progress, !.pending = pending]
      BY <3>1, <3>2, <3>3, <3>4
    <3> HIDE DEF pending, matches, progress
    <3>6. /\ b \in AppType /\ b.entries = a.entries /\ b.dropped = a.dropped /\ b.epoch = a.epoch
          /\ b.generation = a.generation /\ b.active = a.active /\ b.matcher = a.matcher
          /\ b.matches = matches /\ b.progress = progress /\ b.pending = pending
      BY <1>1, <3>5 DEF AppType, ProgressType
    <3> QED
      BY <3>6 DEF pending, matches, progress, d
  <2>10. Later(a, b)
    BY <1>1, <2>9, SameRows DEF d
  <2>11. End(b) = d + l
    BY <2>9 DEF End, l
  <2>12. Selecting(b, next) = Selecting(a, next)
    BY <2>9 DEF Selecting
  <2>13. Selecting(b, next) \in SUBSET (0 .. Len(b.entries) - 1)
    <3>1. 0 .. next - 1 \subseteq 0 .. l - 1
      BY <2>1, <2>3, <2>4
    <3> QED
      BY <2>9, <3>1 DEF Selecting, l
  <2>14. /\ b.progress.generation = b.generation /\ b.progress.log_epoch = b.epoch
         /\ b.progress.next_absolute = d + next /\ b.progress.some
    BY <2>9 DEF Progress
  <2>15. d + next \in b.dropped .. End(b) /\ (b.pending <=> d + next < End(b))
         /\ (d + next) - b.dropped = next
    <3>1. d \in Int /\ next \in Int /\ l \in Int /\ 0 <= next /\ next <= l
      BY <2>1, <2>3, <2>4
    <3>2. d + next \in d .. d + l /\ (next < l <=> d + next < d + l) /\ (d + next) - d = next
      BY <3>1
    <3> QED
      BY <2>9, <2>11, <3>2
  <2> QED
    BY <2>2, <2>8, <2>9, <2>10, <2>12, <2>13, <2>14, <2>15 DEF ListInv
<1> QED
  BY <1>2, <1>3

\* What an answer that is not stale answers.
LEMMA AnswerFacts ==
  ASSUME NEW a \in AppType, NEW q, Snapshot(q, a),
         NEW r, r = FilterResult(q, Compiled(q.spec.query)), ~Stale(a, r)
  PROVE  /\ q.spec = a.active /\ r.matcher = Compiled(a.active.query)
         /\ q.entries \in Seq(Kinds) /\ q.snapshot_base \in Nat /\ Len(q.entries) \in Nat
         /\ r.snapshot_base = q.snapshot_base /\ r.processed_len = Len(q.entries)
         /\ q.snapshot_base <= a.dropped /\ q.snapshot_base + Len(q.entries) <= End(a)
         /\ \A n \in a.dropped .. q.snapshot_base + Len(q.entries) - 1 :
              a.entries[n - a.dropped + 1] = q.entries[n - q.snapshot_base + 1]
         /\ r.matcher # Failed =>
              r.matches = ScanEntries(q.entries, a.active, a.active.query)
              /\ a.active.query \notin InvalidQuery /\ r.matcher = a.active.query
<1>1. /\ r.generation = q.generation /\ r.snapshot_base = q.snapshot_base
      /\ r.processed_len = Len(q.entries) /\ r.matcher = Compiled(q.spec.query)
      /\ r.matcher # Failed => r.matches = ScanEntries(q.entries, q.spec, r.matcher)
  BY DEF FilterResult
<1>2. q.generation = a.generation
  BY <1>1 DEF Stale
<1>3. /\ q.entries \in Seq(Kinds) /\ q.snapshot_base \in Nat /\ q.spec = a.active
      /\ q.snapshot_base <= a.dropped /\ q.snapshot_base + Len(q.entries) <= End(a)
      /\ \A n \in a.dropped .. q.snapshot_base + Len(q.entries) - 1 :
           a.entries[n - a.dropped + 1] = q.entries[n - q.snapshot_base + 1]
  BY <1>2 DEF Snapshot, RequestType
<1>4. Len(q.entries) \in Nat
  BY <1>3
<1>5. a.active.query \in Queries
  BY AppFields
<1>6. r.matcher # Failed => a.active.query \notin InvalidQuery /\ r.matcher = a.active.query
  BY <1>1, <1>3, <1>5, CompiledFacts
<1> QED
  BY <1>1, <1>3, <1>4, <1>6

LEMMA ScanLists ==
  ASSUME NEW rows, Len(rows) \in Nat, NEW spec, NEW matcher
  PROVE  Lists(ScanEntries(rows, spec, matcher), Matching(rows, spec, matcher))
<1>1. Matching(rows, spec, matcher) \subseteq 0 .. Len(rows) - 1
  BY DEF Matching
<1>2. IsFiniteSet(0 .. Len(rows) - 1) /\ 0 .. Len(rows) - 1 \subseteq Nat
  BY FS_Interval
<1>3. Matching(rows, spec, matcher) \in SUBSET Nat /\ IsFiniteSet(Matching(rows, spec, matcher))
  BY <1>1, <1>2, FS_Subset
<1> QED
  BY <1>3, InOrderLists DEF ScanEntries

LEMMA AcceptedKeeps ==
  ASSUME NEW a, ListInv(a), NEW r, Answer(r, a), NEW b, b = Accepted(a, r)
  PROVE  ListInv(b) /\ Later(a, b)
<1>1. a \in AppType
  BY DEF ListInv
<1>2. CASE Stale(a, r)
  <2>1. b = a
    BY <1>2 DEF Accepted
  <2> QED
    BY <1>1, <2>1, SameRows
<1>3. CASE ~Stale(a, r)
  <2>1. PICK q : Snapshot(q, a) /\ r = FilterResult(q, Compiled(q.spec.query))
    BY DEF Answer
  <2>2. r.matcher = Compiled(a.active.query) /\ a.active.query \in Queries
    BY <1>1, <1>3, <2>1, AnswerFacts, AppFields
  <2>3. CASE r.matcher = Failed
    <3>1. b = [a EXCEPT !.error = TRUE, !.matcher = Failed, !.matches = <<>>,
                        !.pending = FALSE, !.progress = NoProgress]
      BY <1>3, <2>3 DEF Accepted, AcceptedError
    <3>2. NoProgress \in ProgressType /\ ~NoProgress.some /\ <<>> \in Seq(Nat) /\ Failed \in Matcher
      BY DEF NoProgress, ProgressType, Matcher
    <3>3. /\ b \in AppType /\ b.entries = a.entries /\ b.dropped = a.dropped
          /\ b.epoch = a.epoch /\ b.generation = a.generation /\ b.active = a.active
          /\ b.matcher = Failed /\ b.matches = <<>> /\ b.progress = NoProgress
      BY <1>1, <3>1, <3>2 DEF AppType, ProgressType
    <3>4. a.active.query \in InvalidQuery
      BY <2>2, <2>3, CompiledFacts
    <3>5. ListInv(b)
      BY <3>2, <3>3, <3>4, EmptyLists DEF ListInv
    <3> QED
      BY <1>1, <3>3, <3>5, SameRows
  <2>4. CASE r.matcher # Failed
    <3> DEFINE base == q.snapshot_base
               p == Len(q.entries)
               d == a.dropped
               l == Len(a.entries)
               next == Smaller(Larger(base + p, d), d + l)
               M == Matching(q.entries, a.active, a.active.query)
               matches == Rebased(r.matches, d - base, l)
               pending == next < d + l
               progress == Progress(a, next)
    <3>1. /\ base \in Nat /\ p \in Nat /\ d \in Nat /\ l \in Nat /\ End(a) = d + l
          /\ base <= d /\ base + p <= d + l
          /\ r.snapshot_base = base /\ r.processed_len = p
          /\ r.matches = ScanEntries(q.entries, a.active, a.active.query)
          /\ a.active.query \notin InvalidQuery /\ r.matcher = a.active.query
      BY <1>1, <1>3, <2>1, <2>4, AnswerFacts, AppFields
    <3>2. \A n \in d .. base + p - 1 : a.entries[n - d + 1] = q.entries[n - base + 1]
      BY <1>1, <1>3, <2>1, AnswerFacts
    <3>3. Lists(r.matches, M)
      BY <3>1, ScanLists
    <3>4. b = [a EXCEPT !.error = FALSE, !.matcher = r.matcher, !.matches = matches,
                        !.progress = progress, !.pending = pending]
      BY <1>3, <2>4, <3>1 DEF Accepted, AcceptedMatches
    <3> HIDE DEF base, p, d, l, next
    <3>5. next \in d .. d + l /\ d - base \in Nat
          /\ next = IF d <= base + p THEN base + p ELSE d
      BY <3>1 DEF next, Larger, Smaller
    <3>6. {i \in 0 .. l - 1 : i + (d - base) \in M} = Selecting(a, next - d)
      <4>1. ASSUME NEW i \in 0 .. l - 1
            PROVE  i + (d - base) \in 0 .. p - 1 <=> i \in 0 .. (next - d) - 1
        BY <3>1, <3>5
      <4>2. ASSUME NEW i \in 0 .. (next - d) - 1
            PROVE  a.entries[i + 1] = q.entries[(i + (d - base)) + 1]
        <5>1. i + d \in d .. base + p - 1 /\ (i + d) - d + 1 = i + 1
              /\ (i + d) - base + 1 = (i + (d - base)) + 1
          <6>1. i \in Int /\ 0 <= i /\ i < next - d
            BY <3>1, <3>5
          <6>2. next = base + p
            BY <3>1, <3>5, <6>1
          <6> QED
            BY <3>1, <6>1, <6>2
        <5> QED
          BY <3>2, <5>1
      <4>3. 0 .. (next - d) - 1 \subseteq 0 .. l - 1
        BY <3>1, <3>5
      <4>4. \A i : i \in M <=> i \in 0 .. p - 1
                               /\ EntryMatches(q.entries[i + 1], a.active, a.active.query)
        BY DEF Matching, p
      <4>5. \A i : i \in Selecting(a, next - d) <=>
                     i \in 0 .. (next - d) - 1
                     /\ EntryMatches(a.entries[i + 1], a.active, a.active.query)
        BY <3>1 DEF Selecting
      <4> HIDE DEF M
      <4>6. ASSUME NEW i \in 0 .. l - 1
            PROVE  i + (d - base) \in M <=> i \in Selecting(a, next - d)
        BY <4>1, <4>2, <4>4, <4>5
      <4> QED
        BY <4>3, <4>5, <4>6
    <3>7. Lists(matches, Selecting(a, next - d))
      <4>1. d - base \in Nat /\ l \in Nat
        BY <3>1, <3>5
      <4> HIDE DEF M
      <4> QED
        BY <3>3, <3>6, <4>1, RebasedLists
    <3> HIDE DEF M, matches, pending, progress
    <3>8. /\ b \in AppType /\ b.entries = a.entries /\ b.dropped = a.dropped
          /\ b.epoch = a.epoch /\ b.generation = a.generation /\ b.active = a.active
          /\ b.matcher = r.matcher /\ b.matches = matches /\ b.progress = progress
          /\ b.pending = pending
      <4>1. matches \in Seq(Nat)
        BY <3>7, ListFacts
      <4>2. next \in Nat
        BY <3>1, <3>5
      <4>3. progress \in ProgressType
        BY <1>1, <4>2, AppFields DEF progress, Progress, ProgressType
      <4>4. pending \in BOOLEAN /\ r.matcher \in Matcher
        BY <2>2, CompiledFacts DEF pending
      <4> QED
        BY <1>1, <3>4, <4>1, <4>3, <4>4 DEF AppType, ProgressType
    <3>9. Later(a, b)
      BY <1>1, <3>8, SameRows
    <3>10. /\ b.progress.generation = b.generation /\ b.progress.log_epoch = b.epoch
           /\ b.progress.next_absolute = next /\ b.progress.some
      BY <3>8 DEF Progress, progress
    <3>11. End(b) = d + l /\ b.dropped = d
      BY <3>8 DEF End, d, l
    <3>12. Selecting(b, next - d) = Selecting(a, next - d)
      BY <3>8 DEF Selecting
    <3>13. Selecting(b, next - d) \in SUBSET (0 .. Len(b.entries) - 1)
      <4>1. 0 .. (next - d) - 1 \subseteq 0 .. l - 1
        BY <3>1, <3>5
      <4> QED
        BY <3>8, <4>1 DEF Selecting, l
    <3> QED
      BY <2>2, <3>5, <3>7, <3>8, <3>9, <3>10, <3>11, <3>12, <3>13 DEF ListInv, pending
  <2> QED
    BY <2>3, <2>4
<1> QED
  BY <1>2, <1>3

-------------------------------------------------------------------------------
(* The list: what is on its way between the UI thread and the filter thread *)

MailType ==
  [request : SUBSET [revision : Nat, body : RequestType], revision : Nat,
   highlight : SUBSET [revision : Nat, body : Queries \ {EmptyQuery}],
   highlight_revision : Nat]

MailInv(m, a) ==
  /\ m \in MailType
  /\ \A request \in m.request : request.revision = m.revision /\ Snapshot(request.body, a)
  /\ \A request \in m.highlight : request.revision = m.highlight_revision

\* The thread holds a snapshot that was current once, or an expression; once it
\* is compiled the cache is about it.
Working(kind, stages, bodies) ==
  [stage : stages, kind : {kind}, revision : Nat, body : bodies]

WorkInv(w, a, c) ==
  \/ w = Idle
  \/ /\ w \in Working("filter", {"taken", "compiled"}, RequestType)
     /\ Snapshot(w.body, a)
     /\ w.stage = "compiled" => \A e \in c : e.key = w.body.spec.query
  \/ /\ w \in Working("highlight", {"taken", "compiled"}, Queries)
     /\ w.stage = "compiled" => \A e \in c : e.key = w.body
  \/ w.stage = "ready" /\ w.kind = "filter" /\ Answer(w.result, a)
  \/ w.stage = "ready" /\ w.kind = "highlight" /\ HighlightAnswer(w.result)

CacheInv(c) ==
  /\ \A e \in c : HighlightAnswer(e)
  /\ \A e, f \in c : e = f

SlotsInv(c, a) ==
  /\ c = [filter |-> c.filter, highlight |-> c.highlight]
  /\ \A r \in c.filter : Answer(r, a)
  /\ \A r \in c.highlight : HighlightAnswer(r)

PipelineInv ==
  /\ ListInv(app)
  /\ acts \in 0 .. MaxActs
  /\ MailInv(mailbox, app)
  /\ WorkInv(work, app, cached)
  /\ CacheInv(cached)
  /\ SlotsInv(completed, app)

LEMMA MailStays ==
  ASSUME NEW a \in AppType, NEW b \in AppType, Later(a, b), NEW m, MailInv(m, a)
  PROVE  MailInv(m, b)
  BY LaterIsTransitive DEF MailInv

LEMMA WorkStays ==
  ASSUME NEW a \in AppType, NEW b \in AppType, Later(a, b), NEW w, NEW c, WorkInv(w, a, c)
  PROVE  WorkInv(w, b, c)
  BY LaterIsTransitive, AnswerStays DEF WorkInv

LEMMA SlotsStay ==
  ASSUME NEW a \in AppType, NEW b \in AppType, Later(a, b), NEW c, SlotsInv(c, a)
  PROVE  SlotsInv(c, b)
  BY AnswerStays DEF SlotsInv

LEMMA SentMail ==
  ASSUME NEW a, NEW m, MailInv(m, a), NEW b \in AppType
  PROVE  MailInv(Send(m, Request(b)), b)
<1> DEFINE n == Send(m, Request(b))
           body == Request(b)
<1>1. m \in MailType /\ m.revision + 1 \in Nat
  BY DEF MailInv, MailType
<1>2. Snapshot(body, b) /\ body \in RequestType
  BY RequestSnapshot DEF Snapshot
<1> HIDE DEF body
<1>3. /\ n \in MailType /\ n.request = {[revision |-> m.revision + 1, body |-> body]}
      /\ n.revision = m.revision + 1 /\ n.highlight = m.highlight
      /\ n.highlight_revision = m.highlight_revision
  <2>1. n = [m EXCEPT !.revision = m.revision + 1,
                      !.request = {[revision |-> m.revision + 1, body |-> body]}]
    BY DEF Send, body
  <2> DEFINE requests == {[revision |-> m.revision + 1, body |-> body]}
             k == m.revision + 1
  <2>2. requests \in SUBSET [revision : Nat, body : RequestType] /\ k \in Nat
    BY <1>1, <1>2
  <2>3. n = [m EXCEPT !.revision = k, !.request = requests]
    BY <2>1
  <2> HIDE DEF n, requests, k
  <2>4. /\ n \in MailType /\ n.request = requests /\ n.revision = k
        /\ n.highlight = m.highlight /\ n.highlight_revision = m.highlight_revision
    BY <1>1, <2>2, <2>3 DEF MailType
  <2> QED
    BY <2>4 DEF requests, k
<1> HIDE DEF n
<1>4. MailInv(n, b)
  BY <1>2, <1>3 DEF MailInv
<1> QED
  BY <1>4 DEF n, body

LEMMA CancelledMail ==
  ASSUME NEW a, NEW m, MailInv(m, a), NEW b
  PROVE  MailInv(Cancel(m), b)
<1> DEFINE n == Cancel(m)
<1>1. m \in MailType /\ m.revision + 1 \in Nat
  BY DEF MailInv, MailType
<1>2. n \in MailType /\ n.request = {} /\ n.highlight = m.highlight
      /\ n.highlight_revision = m.highlight_revision
  BY <1>1 DEF Cancel, MailType
<1> HIDE DEF n
<1>3. MailInv(n, b)
  BY <1>2 DEF MailInv
<1> QED
  BY <1>3 DEF n

LEMMA DrawnMail ==
  ASSUME NEW a, NEW m, MailInv(m, a), NEW b \in AppType
  PROVE  MailInv(MailAfterDrawing(b, m), a)
<1> DEFINE n == SendHighlight(m, b.draft.query)
           query == b.draft.query
<1>1. m \in MailType /\ m.highlight_revision + 1 \in Nat
  BY DEF MailInv, MailType
<1>2. query \in Queries
  BY AppFields, FilterAssumption
<1>3. ASSUME query # EmptyQuery PROVE MailInv(n, a)
  <2> HIDE DEF query
  <2>1. n = [m EXCEPT !.highlight_revision = m.highlight_revision + 1,
                      !.highlight = {[revision |-> m.highlight_revision + 1, body |-> query]}]
    BY DEF SendHighlight, query
  <2> DEFINE requests == {[revision |-> m.highlight_revision + 1, body |-> query]}
             k == m.highlight_revision + 1
  <2>3. requests \in SUBSET [revision : Nat, body : Queries \ {EmptyQuery}] /\ k \in Nat
    BY <1>1, <1>2, <1>3
  <2>4. n = [m EXCEPT !.highlight_revision = k, !.highlight = requests]
    BY <2>1
  <2> HIDE DEF n, requests, k
  <2>5. /\ n \in MailType /\ n.highlight = requests /\ n.highlight_revision = k
        /\ n.request = m.request /\ n.revision = m.revision
    BY <1>1, <2>3, <2>4 DEF MailType
  <2>2. /\ n \in MailType
        /\ n.highlight = {[revision |-> m.highlight_revision + 1, body |-> query]}
        /\ n.highlight_revision = m.highlight_revision + 1
        /\ n.request = m.request /\ n.revision = m.revision
    BY <2>5 DEF requests, k
  <2> QED
    BY <2>2 DEF MailInv
<1> QED
  BY <1>3 DEF MailAfterDrawing

-------------------------------------------------------------------------------
(* The list: the filter thread *)

LEMMA WorkerKeeps ==
  ASSUME PipelineInv, WorkerNext, UNCHANGED <<app, acts>>
  PROVE  PipelineInv'
<1>1. app \in AppType /\ mailbox \in MailType
  BY DEF PipelineInv, ListInv, MailInv
<1>2. CASE WorkerTake
  <2>1. CASE /\ \E request \in mailbox.request : work' = Holds("filter", "taken", request)
             /\ mailbox' = [mailbox EXCEPT !.request = {}]
    <3>1. PICK request \in mailbox.request : work' = Holds("filter", "taken", request)
      BY <2>1
    <3>2. request \in [revision : Nat, body : RequestType] /\ Snapshot(request.body, app)
      BY <1>1, <3>1 DEF PipelineInv, MailInv, MailType
    <3>3. WorkInv(work', app, cached)
      BY <3>1, <3>2 DEF WorkInv, Holds, Working
    <3>4. MailInv(mailbox', app)
      BY <1>1, <2>1 DEF PipelineInv, MailInv, MailType
    <3> QED
      BY <1>2, <3>3, <3>4 DEF PipelineInv, WorkerTake
  <2>2. CASE /\ \E query \in mailbox.highlight : work' = Holds("highlight", "taken", query)
             /\ mailbox' = [mailbox EXCEPT !.highlight = {}]
    <3>1. PICK query \in mailbox.highlight : work' = Holds("highlight", "taken", query)
      BY <2>2
    <3>2. query \in [revision : Nat, body : Queries \ {EmptyQuery}]
      BY <1>1, <3>1 DEF MailType
    <3>3. WorkInv(work', app, cached)
      BY <3>1, <3>2 DEF WorkInv, Holds, Working
    <3>4. MailInv(mailbox', app)
      BY <1>1, <2>2 DEF PipelineInv, MailInv, MailType
    <3> QED
      BY <1>2, <3>3, <3>4 DEF PipelineInv, WorkerTake
  <2> QED
    BY <1>2, <2>1, <2>2 DEF WorkerTake
<1>3. CASE WorkerAbandon
  <2>1. WorkInv(work', app, cached)
    BY <1>3 DEF WorkerAbandon, WorkInv
  <2> QED
    BY <1>3, <2>1 DEF WorkerAbandon, PipelineInv
<1>4. CASE WorkerCompile
  <2>1. /\ work.stage = "taken" /\ work' = [work EXCEPT !.stage = "compiled"]
        /\ cached' = IF \E c \in cached : c.key = WorkQuery THEN cached
                     ELSE {[key |-> WorkQuery, matcher |-> Compiled(WorkQuery)]}
    BY <1>4 DEF WorkerCompile
  <2>2. \/ work \in Working("filter", {"taken", "compiled"}, RequestType) /\ Snapshot(work.body, app)
        \/ work \in Working("highlight", {"taken", "compiled"}, Queries)
    BY <2>1 DEF PipelineInv, WorkInv, Idle
  <2>3. WorkQuery \in Queries
    BY <2>2, FilterAssumption DEF WorkQuery, Working, RequestType
  <2>4. CacheInv(cached') /\ \A e \in cached' : e.key = WorkQuery
    <3>1. CASE \E c \in cached : c.key = WorkQuery
      BY <2>1, <3>1 DEF PipelineInv, CacheInv
    <3>2. CASE ~\E c \in cached : c.key = WorkQuery
      BY <2>1, <2>3, <3>2 DEF CacheInv, HighlightAnswer
    <3> QED
      BY <3>1, <3>2
  <2>5. WorkInv(work', app, cached')
    <3>1. CASE work \in Working("filter", {"taken", "compiled"}, RequestType) /\ Snapshot(work.body, app)
      <4>1. /\ work' \in Working("filter", {"taken", "compiled"}, RequestType)
            /\ work'.body = work.body /\ WorkQuery = work.body.spec.query
        BY <2>1, <3>1 DEF Working, WorkQuery
      <4> QED
        BY <2>4, <3>1, <4>1 DEF WorkInv
    <3>2. CASE work \in Working("highlight", {"taken", "compiled"}, Queries)
      <4>1. /\ work' \in Working("highlight", {"taken", "compiled"}, Queries)
            /\ work'.body = work.body /\ WorkQuery = work.body
        BY <2>1, <3>2 DEF Working, WorkQuery
      <4> QED
        BY <2>4, <4>1 DEF WorkInv
    <3> QED
      BY <2>2, <3>1, <3>2
  <2> QED
    BY <1>4, <2>4, <2>5 DEF WorkerCompile, PipelineInv
<1>5. CASE WorkerScan
  <2>1. PICK c \in cached :
          work' = [stage |-> "ready", kind |-> work.kind,
                   result |-> IF work.kind = "filter" THEN FilterResult(work.body, c.matcher)
                              ELSE [key |-> work.body, matcher |-> c.matcher]]
    BY <1>5 DEF WorkerScan
  <2>2. work.stage = "compiled"
    BY <1>5 DEF WorkerScan
  <2>3. c.key \in Queries /\ c.matcher = Compiled(c.key)
    BY <2>1 DEF PipelineInv, CacheInv, HighlightAnswer
  <2>4. WorkInv(work', app, cached)
    <3>1. CASE work \in Working("filter", {"taken", "compiled"}, RequestType) /\ Snapshot(work.body, app)
                /\ \A e \in cached : e.key = work.body.spec.query
      <4>1. /\ work'.stage = "ready" /\ work'.kind = "filter"
            /\ work'.result = FilterResult(work.body, Compiled(work.body.spec.query))
        BY <2>1, <2>3, <3>1 DEF Working
      <4>2. work.body \in RequestType
        BY <3>1 DEF Working
      <4>3. Answer(work'.result, app)
        BY <3>1, <4>1, <4>2 DEF Answer
      <4> QED
        BY <4>1, <4>3 DEF WorkInv
    <3>2. CASE work \in Working("highlight", {"taken", "compiled"}, Queries)
                /\ \A e \in cached : e.key = work.body
      <4>1. /\ work'.stage = "ready" /\ work'.kind = "highlight"
            /\ work'.result = [key |-> work.body, matcher |-> Compiled(work.body)]
            /\ work.body \in Queries
        BY <2>1, <2>3, <3>2 DEF Working
      <4> QED
        BY <4>1 DEF WorkInv, HighlightAnswer
    <3> QED
      BY <2>2, <3>1, <3>2 DEF PipelineInv, WorkInv, Idle
  <2> QED
    BY <1>5, <2>4 DEF WorkerScan, PipelineInv
<1>6. CASE WorkerPublish
  <2>1. work.stage = "ready" /\ completed' = [completed EXCEPT ![work.kind] = {work.result}]
        /\ work' = Idle
    BY <1>6 DEF WorkerPublish
  <2>2. \/ work.kind = "filter" /\ Answer(work.result, app)
        \/ work.kind = "highlight" /\ HighlightAnswer(work.result)
    BY <2>1 DEF PipelineInv, WorkInv, Idle, Working
  <2>3. SlotsInv(completed', app)
    <3>1. SlotsInv(completed, app)
      BY DEF PipelineInv
    <3>2. CASE work.kind = "filter" /\ Answer(work.result, app)
      <4>1. completed' = [filter |-> {work.result}, highlight |-> completed.highlight]
        BY <2>1, <3>1, <3>2 DEF SlotsInv
      <4> QED
        BY <3>1, <3>2, <4>1 DEF SlotsInv
    <3>3. CASE work.kind = "highlight" /\ HighlightAnswer(work.result)
      <4>1. completed' = [filter |-> completed.filter, highlight |-> {work.result}]
        BY <2>1, <3>1, <3>3 DEF SlotsInv
      <4> QED
        BY <3>1, <3>3, <4>1 DEF SlotsInv
    <3> QED
      BY <2>2, <3>2, <3>3
  <2>4. WorkInv(work', app, cached)
    BY <2>1 DEF WorkInv
  <2> QED
    BY <1>6, <2>3, <2>4 DEF WorkerPublish, PipelineInv
<1> QED
  BY <1>2, <1>3, <1>4, <1>5, <1>6 DEF WorkerNext

-------------------------------------------------------------------------------
(* The list: the application as it starts, and the UI thread *)

LEMMA NewAppFields ==
  ASSUME NEW filter \in Filters, NEW a, a = NewApp(filter)
  PROVE  /\ a \in AppType /\ a.entries = <<>> /\ a.matches = <<>> /\ a.dropped = 0
         /\ a.active = filter /\ a.matcher = EmptyQuery /\ a.pending = FALSE
         /\ a.progress = Progress(a, 0) /\ a.epoch = 0 /\ a.generation = 0
<1> DEFINE c == [entries |-> <<>>, dropped |-> 0, epoch |-> 0, generation |-> 0,
                 draft |-> filter, dirty |-> FALSE, active |-> filter,
                 matcher |-> EmptyQuery, pending |-> FALSE, progress |-> NoProgress,
                 error |-> FALSE, matches |-> <<>>, document |-> FALSE,
                 highlight_key |-> EmptyQuery, highlight_matcher |-> None]
<1>1. a = [c EXCEPT !.progress = Progress(c, 0)]
  BY DEF NewApp
<1>2. /\ c \in AppType /\ c.entries = <<>> /\ c.matches = <<>> /\ c.dropped = 0
      /\ c.active = filter /\ c.matcher = EmptyQuery /\ c.pending = FALSE
      /\ c.epoch = 0 /\ c.generation = 0
  <2>1. NoProgress \in ProgressType /\ <<>> \in Seq(Kinds) /\ <<>> \in Seq(Nat)
    BY DEF NoProgress, ProgressType
  <2>2. EmptyQuery \in Queries /\ EmptyQuery \in Matcher
    BY FilterAssumption DEF Matcher
  <2> QED
    BY <2>1, <2>2 DEF AppType, ProgressType
<1> HIDE DEF c
<1>3. Progress(c, 0) \in ProgressType
  BY <1>2 DEF Progress, ProgressType
<1>4. /\ a \in AppType /\ a.entries = c.entries /\ a.matches = c.matches
      /\ a.dropped = c.dropped /\ a.active = c.active /\ a.matcher = c.matcher
      /\ a.pending = c.pending /\ a.epoch = c.epoch /\ a.generation = c.generation
      /\ a.progress = Progress(c, 0)
  BY <1>1, <1>2, <1>3 DEF AppType, ProgressType
<1>5. Progress(c, 0) = Progress(a, 0)
  BY <1>4 DEF Progress
<1> QED
  BY <1>2, <1>4, <1>5

LEMMA PipelineInit == Init => PipelineInv
<1> SUFFICES ASSUME Init PROVE PipelineInv
  OBVIOUS
<1>1. PICK filter \in Filters :
        LET a == NewApp(filter) IN
        \/ /\ filter.query = EmptyQuery
           /\ app = a
           /\ mailbox = EmptyMailbox
        \/ /\ app = Scheduled(a)
           /\ mailbox = Send(EmptyMailbox, Request(Scheduled(a)))
  BY DEF Init
<1>2. MailInv(EmptyMailbox, app)
  BY DEF EmptyMailbox, MailInv, MailType
<1> DEFINE a == NewApp(filter)
<1>3. /\ a \in AppType /\ a.entries = <<>> /\ a.matches = <<>> /\ a.dropped = 0
      /\ a.active = filter /\ a.matcher = EmptyQuery /\ a.pending = FALSE
      /\ a.progress = Progress(a, 0) /\ a.epoch = 0 /\ a.generation = 0
  BY NewAppFields
<1> HIDE DEF a
<1>4. ListInv(app) /\ MailInv(mailbox, app)
  <2>1. CASE filter.query = EmptyQuery /\ app = a /\ mailbox = EmptyMailbox
    <3>1. Len(a.entries) = 0 /\ End(a) = 0
      BY <1>3 DEF End
    <3>2. /\ a.progress.some /\ a.progress.generation = a.generation
          /\ a.progress.log_epoch = a.epoch /\ a.progress.next_absolute = 0
      BY <1>3 DEF Progress
    <3>3. a.matcher = Compiled(a.active.query)
      BY <1>3, <2>1, FilterAssumption DEF Compiled
    <3>4. a.progress.next_absolute - a.dropped = 0 /\ Selecting(a, 0) = {}
      BY <1>3, <3>2, EmptySelecting
    <3>5. Lists(a.matches, {})
      BY <1>3, EmptyLists
    <3>6. \E S \in SUBSET (0 .. Len(a.entries) - 1) : Lists(a.matches, S)
      BY <3>5
    <3>7. Lists(a.matches, Selecting(a, a.progress.next_absolute - a.dropped))
      BY <3>4, <3>5
    <3>8. /\ a.progress.next_absolute \in a.dropped .. End(a)
          /\ a.pending <=> a.progress.next_absolute < End(a)
      BY <1>3, <3>1, <3>2
    <3>9. ListInv(a)
      BY <1>3, <3>2, <3>3, <3>6, <3>7, <3>8 DEF ListInv
    <3> QED
      BY <1>2, <2>1, <3>9
  <2>2. CASE app = Scheduled(a) /\ mailbox = Send(EmptyMailbox, Request(app))
    <3> DEFINE c == [a EXCEPT !.dirty = FALSE, !.active = a.draft]
    <3>1. c \in AppType /\ c.matches = <<>>
      BY <1>3, AppFields DEF AppType
    <3>2. app = Restarted(c)
      BY <2>2 DEF Scheduled
    <3> HIDE DEF c
    <3>3. app \in AppType /\ app.matches = <<>> /\ app.pending = TRUE /\ ~app.progress.some
      BY <3>1, <3>2, RestartedFields
    <3>4. ListInv(app)
      BY <3>3, EmptyLists DEF ListInv
    <3> QED
      BY <1>2, <2>2, <3>3, <3>4, SentMail
  <2> QED
    BY <1>1, <2>1, <2>2 DEF a
<1>5. acts \in 0 .. MaxActs
  BY PipelineAssumption DEF Init
<1>6. WorkInv(work, app, cached) /\ CacheInv(cached) /\ SlotsInv(completed, app)
  BY DEF Init, WorkerInit, WorkInv, CacheInv, SlotsInv, NoResults
<1> QED
  BY <1>4, <1>5, <1>6 DEF PipelineInv

\* What is on its way stays right when the rows move on.
OnItsWay(a) ==
  /\ MailInv(mailbox, a)
  /\ WorkInv(work, a, cached)
  /\ SlotsInv(completed, a)

LEMMA WayStays ==
  ASSUME NEW a, NEW b, ListInv(a), ListInv(b), Later(a, b), OnItsWay(a)
  PROVE  OnItsWay(b)
  BY MailStays, WorkStays, SlotsStay DEF OnItsWay, ListInv

LEMMA UiKeeps ==
  ASSUME PipelineInv, ListInv(app'), OnItsWay(app'), acts' \in 0 .. MaxActs,
         MailInv(mailbox', app'), UNCHANGED <<work, cached>>,
         completed' = completed \/ completed' = NoResults
  PROVE  PipelineInv'
<1>1. SlotsInv(completed', app')
  BY DEF OnItsWay, SlotsInv, NoResults
<1> QED
  BY <1>1 DEF PipelineInv, OnItsWay

LEMMA TakenHighlight ==
  ASSUME NEW a, ListInv(a), NEW slot, \A r \in slot : HighlightAnswer(r)
  PROVE  LET b == Taken(Highlighted, a, slot) IN ListInv(b) /\ Later(a, b)
<1>1. a \in AppType
  BY DEF ListInv
<1>2. CASE slot = {}
  BY <1>1, <1>2, SameRows DEF Taken
<1>3. CASE slot # {}
  <2> DEFINE r == CHOOSE result \in slot : TRUE
  <2>1. Taken(Highlighted, a, slot) = Highlighted(a, r)
    BY <1>3 DEF Taken
  <2>2. HighlightAnswer(r)
    BY <1>3
  <2> HIDE DEF r
  <2> QED
    BY <1>1, <2>1, <2>2, HighlightedEdits, EditedKeeps
<1> QED
  BY <1>2, <1>3

LEMMA TakenAnswer ==
  ASSUME NEW a, ListInv(a), NEW slot, \A r \in slot : Answer(r, a)
  PROVE  LET b == Taken(Accepted, a, slot) IN ListInv(b) /\ Later(a, b)
<1>1. a \in AppType
  BY DEF ListInv
<1>2. CASE slot = {}
  BY <1>1, <1>2, SameRows DEF Taken
<1>3. CASE slot # {}
  <2> DEFINE r == CHOOSE result \in slot : TRUE
  <2>1. Taken(Accepted, a, slot) = Accepted(a, r)
    BY <1>3 DEF Taken
  <2>2. Answer(r, a)
    BY <1>3
  <2> HIDE DEF r
  <2> QED
    BY <2>1, <2>2, AcceptedKeeps
<1> QED
  BY <1>2, <1>3

LEMMA PipelineStep == PipelineInv /\ [Next]_pipelineVars => PipelineInv'
<1> SUFFICES ASSUME PipelineInv, [Next]_pipelineVars PROVE PipelineInv'
  OBVIOUS
<1>1. ListInv(app) /\ app \in AppType /\ OnItsWay(app) /\ acts \in 0 .. MaxActs
  BY DEF PipelineInv, ListInv, OnItsWay
<1>2. MaxActs \in Nat /\ CatchUpRows \in Nat
  BY PipelineAssumption
<1>3. UserActs => acts' \in 0 .. MaxActs
  BY <1>1, <1>2 DEF UserActs
<1>4. ASSUME NEW b, ListInv(b), Later(app, b), app' = b,
             MailInv(mailbox', b) \/ mailbox' = mailbox, acts' \in 0 .. MaxActs,
             UNCHANGED <<work, cached>>, completed' = completed
      PROVE  PipelineInv'
  <2>1. OnItsWay(b)
    BY <1>1, <1>4, WayStays
  <2>2. MailInv(mailbox', b)
    BY <1>4, <2>1 DEF OnItsWay
  <2> QED
    BY <1>4, <2>1, <2>2, UiKeeps
<1>5. CASE PollFilter
  <2> DEFINE a == Taken(Highlighted, app, completed.highlight)
             b == Taken(Accepted, a, completed.filter)
  <2>1. PICK rows \in 1 .. CatchUpRows : app' = CaughtUp(b, rows)
    BY <1>5 DEF PollFilter
  <2>2. completed' = NoResults /\ UNCHANGED <<mailbox, work, cached, acts>>
    BY <1>5 DEF PollFilter
  <2>3. ListInv(a) /\ Later(app, a)
    BY <1>1, TakenHighlight DEF OnItsWay, SlotsInv
  <2>4. OnItsWay(a)
    BY <1>1, <2>3, WayStays
  <2> HIDE DEF a
  <2>5. ListInv(b) /\ Later(a, b)
    BY <2>3, <2>4, TakenAnswer DEF OnItsWay, SlotsInv
  <2>6. OnItsWay(b)
    BY <2>3, <2>4, <2>5, WayStays
  <2> HIDE DEF b
  <2>7. ListInv(app') /\ Later(b, app')
    <3>1. rows \in Nat
      BY <1>2, <2>1
    <3> QED
      BY <2>1, <2>5, <3>1, CaughtUpKeeps
  <2>8. OnItsWay(app')
    BY <2>5, <2>6, <2>7, WayStays
  <2>9. MailInv(mailbox', app')
    BY <2>2, <2>8 DEF OnItsWay
  <2>10. acts' \in 0 .. MaxActs /\ UNCHANGED <<work, cached>>
    BY <1>1, <2>2
  <2> QED
    BY <2>2, <2>7, <2>8, <2>9, <2>10, UiKeeps
<1>6. CASE AppendReceivedEntry
  <2>1. PICK row \in Kinds :
          LET a == Appended(app, row)
              len == Len(a.entries)
          IN \E remove \in IF len > MaxRetained THEN 1 .. len ELSE {0} : app' = Trimmed(a, remove)
    BY <1>6 DEF AppendReceivedEntry
  <2> DEFINE a == Appended(app, row)
             len == Len(a.entries)
  <2>2. PICK remove \in IF len > MaxRetained THEN 1 .. len ELSE {0} : app' = Trimmed(a, remove)
    BY <2>1
  <2>3. ListInv(a) /\ Later(app, a)
    BY <1>1, AppendedKeeps
  <2>4. len \in Nat
    BY <2>3, AppFields DEF ListInv
  <2>5. remove \in 0 .. len
    BY <2>2, <2>4
  <2>6. OnItsWay(a)
    BY <1>1, <2>3, WayStays
  <2> HIDE DEF a
  <2>7. ListInv(app') /\ Later(a, app')
    BY <2>2, <2>3, <2>5, TrimmedKeeps
  <2>8. OnItsWay(app')
    BY <2>3, <2>6, <2>7, WayStays
  <2>9. UNCHANGED <<acts, workerVars>>
    BY <1>6 DEF AppendReceivedEntry
  <2>10. MailInv(mailbox', app')
    BY <2>8, <2>9 DEF OnItsWay, workerVars
  <2> QED
    BY <1>1, <2>7, <2>8, <2>9, <2>10, UiKeeps DEF workerVars
<1>7. CASE Debounce
  <2> DEFINE b == Scheduled(app)
  <2>1. ListInv(b) /\ Later(app, b)
    BY <1>1, ScheduledKeeps
  <2>2. app' = b /\ mailbox' = Send(mailbox, Request(b)) /\ UNCHANGED <<work, cached, completed, acts>>
    BY <1>7 DEF Debounce
  <2> HIDE DEF b
  <2>3. MailInv(mailbox', b)
    BY <1>1, <2>1, <2>2, SentMail DEF OnItsWay, ListInv
  <2> QED
    BY <1>1, <1>4, <2>1, <2>2, <2>3
<1>8. CASE DrawFirstFrame
  <2>1. app' = Drawn(app) /\ mailbox' = MailAfterDrawing(app, mailbox)
        /\ UNCHANGED <<work, cached, completed, acts>>
    BY <1>8 DEF DrawFirstFrame
  <2> DEFINE b == Drawn(app)
  <2>2. ListInv(b) /\ Later(app, b)
    BY <1>1, DrawnEdits, EditedKeeps
  <2>3. OnItsWay(b)
    BY <1>1, <2>2, WayStays
  <2> HIDE DEF b
  <2>4. MailInv(mailbox', b)
    BY <1>1, <2>1, <2>3, DrawnMail DEF OnItsWay
  <2>5. app' = b
    BY <2>1 DEF b
  <2> QED
    BY <1>1, <1>4, <2>1, <2>2, <2>4, <2>5
<1>9. CASE QueueFilter
  <2>1. PICK filter \in Filters :
          /\ app' = Drawn([app EXCEPT !.draft = filter, !.dirty = TRUE])
          /\ mailbox' = MailAfterDrawing([app EXCEPT !.draft = filter, !.dirty = TRUE], mailbox)
    BY <1>9 DEF QueueFilter
  <2> DEFINE a == [app EXCEPT !.draft = filter, !.dirty = TRUE]
             b == Drawn(a)
  <2>2. ListInv(a) /\ Later(app, a)
    BY <1>1, QueuedEdits, EditedKeeps
  <2>3. app' = b /\ mailbox' = MailAfterDrawing(a, mailbox)
    BY <2>1
  <2> HIDE DEF a
  <2>4. ListInv(b) /\ Later(a, b)
    BY <2>2, DrawnEdits, EditedKeeps DEF ListInv
  <2>5. OnItsWay(a) /\ OnItsWay(b)
    BY <1>1, <2>2, <2>4, WayStays
  <2> HIDE DEF b
  <2>6. MailInv(mailbox', b)
    BY <2>2, <2>3, <2>5, DrawnMail DEF OnItsWay, ListInv
  <2>7. UNCHANGED <<work, cached, completed>> /\ acts' \in 0 .. MaxActs
    BY <1>3, <1>9 DEF QueueFilter
  <2> QED
    BY <2>3, <2>4, <2>5, <2>6, <2>7, UiKeeps
<1>10. CASE ScheduleFilter
  <2>1. PICK filter \in Filters :
          LET a == Scheduled([app EXCEPT !.draft = filter])
          IN /\ app' = Drawn(a)
             /\ mailbox' = MailAfterDrawing(a, Send(mailbox, Request(a)))
    BY <1>10 DEF ScheduleFilter
  <2> DEFINE e == [app EXCEPT !.draft = filter]
             a == Scheduled(e)
             b == Drawn(a)
  <2>2. ListInv(e) /\ Later(app, e)
    <3>1. Edited(app, e)
      BY <1>1 DEF Edited, AppType
    <3> QED
      BY <1>1, <3>1, EditedKeeps
  <2>3. app' = b /\ mailbox' = MailAfterDrawing(a, Send(mailbox, Request(a)))
    BY <2>1
  <2> HIDE DEF e
  <2>4. ListInv(a) /\ Later(e, a)
    BY <2>2, ScheduledKeeps
  <2> HIDE DEF a
  <2>5. ListInv(b) /\ Later(a, b)
    BY <2>4, DrawnEdits, EditedKeeps DEF ListInv
  <2>6. OnItsWay(e) /\ OnItsWay(a) /\ OnItsWay(b)
    BY <1>1, <2>2, <2>4, <2>5, WayStays
  <2> HIDE DEF b
  <2>7. MailInv(Send(mailbox, Request(a)), a) /\ a \in AppType
    BY <2>4, <2>6, SentMail DEF OnItsWay, ListInv
  <2>8. MailInv(mailbox', a) /\ b \in AppType
    BY <2>3, <2>5, <2>7, DrawnMail DEF ListInv
  <2>9. MailInv(mailbox', b)
    BY <2>5, <2>7, <2>8, MailStays
  <2>10. UNCHANGED <<work, cached, completed>> /\ acts' \in 0 .. MaxActs
    BY <1>3, <1>10 DEF ScheduleFilter
  <2> QED
    BY <2>3, <2>5, <2>6, <2>9, <2>10, UiKeeps
<1>11. ASSUME NEW a, NEW b, ListInv(a), OnItsWay(a), b = Cleared(a)
       PROVE  MailInv(MailAfterClear(a), b) /\ b \in AppType
  <2>1. ListInv(b) /\ Later(a, b)
    BY <1>11, ClearedKeeps
  <2>2. MailInv(Cancel(mailbox), b)
    BY <1>11, CancelledMail DEF OnItsWay
  <2>3. MailInv(Send(Cancel(mailbox), Request(b)), b)
    BY <2>1, <2>2, SentMail DEF ListInv
  <2> QED
    BY <1>11, <2>1, <2>2, <2>3 DEF MailAfterClear, ListInv
<1>12. CASE ClearLogs
  <2> DEFINE a == Cleared(app)
             b == [a EXCEPT !.document = FALSE]
  <2>1. ListInv(a) /\ Later(app, a)
    BY <1>1, ClearedKeeps
  <2>2. MailInv(MailAfterClear(app), a)
    BY <1>1, <1>11
  <2>3. app' = b /\ mailbox' = MailAfterClear(app) /\ UNCHANGED <<work, cached, completed>>
        /\ acts' \in 0 .. MaxActs
    BY <1>3, <1>12 DEF ClearLogs
  <2> HIDE DEF a
  <2>4. Edited(a, b)
    BY <2>1 DEF Edited, AppType, ListInv
  <2> HIDE DEF b
  <2>5. ListInv(b) /\ Later(a, b)
    BY <2>1, <2>4, EditedKeeps
  <2>6. OnItsWay(a) /\ OnItsWay(b)
    BY <1>1, <2>1, <2>5, WayStays
  <2>7. MailInv(mailbox', b)
    BY <2>1, <2>2, <2>3, <2>5, MailStays DEF ListInv
  <2> QED
    BY <2>3, <2>5, <2>6, <2>7, UiKeeps
<1>13. CASE InstallCandidate
  <2>1. PICK rows \in Files, filter \in Filters : app' = Installed(app, rows, filter)
    BY <1>13 DEF InstallCandidate
  <2>2. mailbox' = Send(MailAfterClear(app), Request(app')) /\ UNCHANGED <<work, cached, completed>>
        /\ acts' \in 0 .. MaxActs
    BY <1>3, <1>13 DEF InstallCandidate
  <2> DEFINE b == Installed(app, rows, filter)
  <2>3. ListInv(b) /\ Later(app, b) /\ app' = b
    BY <1>1, <2>1, InstalledKeeps
  <2> HIDE DEF b
  <2>4. MailInv(mailbox', b)
    <3>1. MailInv(MailAfterClear(app), Cleared(app))
      BY <1>1, <1>11
    <3> QED
      BY <2>2, <2>3, <3>1, SentMail DEF ListInv
  <2> QED
    BY <1>4, <2>2, <2>3, <2>4
<1>14. CASE ApplyMemoryBudget
  <2>1. PICK remove \in IF app.document THEN {0} ELSE 0 .. Len(app.entries) :
          LET a == Trimmed(app, remove)
              restarts == a.pending /\ ~a.progress.some
          IN /\ app' = IF restarts THEN Restarted(a) ELSE a
             /\ mailbox' = IF restarts THEN Send(mailbox, Request(app')) ELSE mailbox
    BY <1>14 DEF ApplyMemoryBudget
  <2> DEFINE a == Trimmed(app, remove)
             b == Restarted(a)
  <2>2. remove \in 0 .. Len(app.entries)
    BY <1>1, <2>1, AppFields
  <2>3. ListInv(a) /\ Later(app, a) /\ a \in AppType
    BY <1>1, <2>2, TrimmedKeeps DEF ListInv
  <2>4. UNCHANGED <<work, cached, completed>> /\ acts' \in 0 .. MaxActs
    BY <1>3, <1>14 DEF ApplyMemoryBudget
  <2>5. \/ app' = a /\ mailbox' = mailbox
        \/ app' = b /\ mailbox' = Send(mailbox, Request(b))
    BY <2>1
  <2> HIDE DEF a
  <2>6. ListInv(b) /\ Later(a, b) /\ b \in AppType
    <3>1. b = Restarted([a EXCEPT !.active = a.active, !.dirty = a.dirty, !.draft = a.draft])
      <4>1. [a EXCEPT !.active = a.active, !.dirty = a.dirty, !.draft = a.draft] = a
        BY <2>3 DEF AppType
      <4> QED
        BY <4>1
    <3>2. a.active \in Filters /\ a.dirty \in BOOLEAN /\ a.draft \in Filters
      BY <2>3, AppFields
    <3> HIDE DEF b
    <3>3. ListInv(b) /\ Later(a, b)
      BY <2>3, <3>1, <3>2, RestartedKeeps
    <3> QED
      BY <3>3 DEF ListInv
  <2> HIDE DEF b
  <2>7. OnItsWay(a) /\ OnItsWay(b)
    BY <1>1, <2>3, <2>6, WayStays
  <2>8. CASE app' = a /\ mailbox' = mailbox
    BY <1>4, <2>3, <2>4, <2>8
  <2>9. CASE app' = b /\ mailbox' = Send(mailbox, Request(b))
    <3>1. MailInv(mailbox', b)
      BY <2>6, <2>7, <2>9, SentMail DEF OnItsWay
    <3> QED
      BY <2>4, <2>6, <2>7, <2>9, <3>1, UiKeeps
  <2> QED
    BY <2>5, <2>8, <2>9
<1>15. CASE WorkerStep
  BY <1>15, WorkerKeeps DEF WorkerStep
<1>16. CASE UNCHANGED pipelineVars
  BY <1>16 DEF PipelineInv, pipelineVars, workerVars
<1> QED
  BY <1>5, <1>6, <1>7, <1>8, <1>9, <1>10, <1>12, <1>13, <1>14, <1>15, <1>16 DEF Next

LEMMA ListIsRight == PipelineInv => ListIsExact /\ TypeOK
<1> SUFFICES ASSUME PipelineInv PROVE ListIsExact /\ TypeOK
  OBVIOUS
<1>1. ListInv(app) /\ app \in AppType
  BY DEF PipelineInv, ListInv
<1>2. \A n \in Int : InForce(n) = InOrder(Selecting(app, n))
  BY DEF InForce, Selects, Selecting
<1>3. /\ Len(app.entries) \in Nat /\ app.dropped \in Nat
      /\ End(app) = app.dropped + Len(app.entries)
  BY <1>1, AppFields
<1>4. ListIndexesRetainedRows
  <2>1. PICK S \in SUBSET (0 .. Len(app.entries) - 1) : Lists(app.matches, S)
    BY <1>1 DEF ListInv
  <2>2. /\ Len(app.matches) \in Nat
        /\ \A k \in 1 .. Len(app.matches) : app.matches[k] \in S
        /\ \A j, k \in 1 .. Len(app.matches) : j < k => app.matches[j] < app.matches[k]
    BY <2>1, ListFacts
  <2>3. ASSUME NEW k \in 2 .. Len(app.matches)
        PROVE  app.matches[k - 1] < app.matches[k]
    <3>1. k - 1 \in 1 .. Len(app.matches) /\ k \in 1 .. Len(app.matches) /\ k - 1 < k
      BY <2>2
    <3> QED
      BY <2>2, <3>1
  <2>4. \A i \in S : i < Len(app.entries)
    BY <1>3
  <2> QED
    BY <2>2, <2>3, <2>4 DEF ListIndexesRetainedRows
<1>5. ASSUME app.progress.some
      PROVE  /\ app.progress.next_absolute \in app.dropped .. End(app)
             /\ app.matches = InForce(app.progress.next_absolute - app.dropped)
             /\ ~app.pending => app.matches = InForce(Len(app.entries))
  <2> DEFINE n == app.progress.next_absolute - app.dropped
  <2>1. /\ app.progress.next_absolute \in app.dropped .. End(app)
        /\ app.pending <=> app.progress.next_absolute < End(app)
        /\ Lists(app.matches, Selecting(app, n))
    BY <1>1, <1>5 DEF ListInv
  <2>2. n \in Int /\ (~app.pending => n = Len(app.entries))
    BY <1>3, <2>1
  <2>3. app.matches = InForce(n)
    BY <1>2, <2>1, <2>2, ListsUnique
  <2> QED
    BY <2>1, <2>2, <2>3
<1>6. ASSUME ~app.progress.some, ~app.pending
      PROVE  app.matches = InForce(Len(app.entries))
  <2>1. app.active.query \in InvalidQuery /\ app.matches = <<>>
    BY <1>1, <1>6 DEF ListInv
  <2>2. Selecting(app, Len(app.entries)) = {}
    BY <2>1 DEF Selecting
  <2>3. Lists(app.matches, Selecting(app, Len(app.entries)))
    BY <2>1, <2>2, EmptyLists
  <2> QED
    BY <1>2, <1>3, <2>3, ListsUnique
<1>7. ListIsExact
  BY <1>4, <1>5, <1>6 DEF ListIsExact
<1>8. TypeOK
  <2>1. \A request \in mailbox.request :
          request.revision = mailbox.revision /\ request.body \in RequestType
    BY DEF PipelineInv, MailInv, Snapshot
  <2>2. \A request \in mailbox.highlight :
          request.revision = mailbox.highlight_revision /\ request.body \in Queries \ {EmptyQuery}
    BY DEF PipelineInv, MailInv, MailType
  <2>3. work.stage \in {"idle", "taken", "compiled", "ready"}
    BY DEF PipelineInv, WorkInv, Idle, Working
  <2>4. \A c \in cached : c.matcher = Compiled(c.key)
    BY DEF PipelineInv, CacheInv, HighlightAnswer
  <2> QED
    BY <1>1, <2>1, <2>2, <2>3, <2>4 DEF TypeOK, PipelineInv
<1> QED
  BY <1>7, <1>8

\* The types of FilterPipeline, in every reachable state.
THEOREM PipelineTypes == Spec => []TypeOK
<1>1. PipelineInv => TypeOK
  BY ListIsRight
<1> QED
  BY <1>1, PipelineInit, PipelineStep, PTL DEF Spec

\* Once the filter is no longer pending, the list shows exactly the retained
\* rows it selects, in order; while rows are left to classify, those before the
\* cursor - for any number of rows, any filters, and whatever was received,
\* trimmed, cleared or replaced while a snapshot was with the thread.
THEOREM ListStaysExact == Spec => []ListIsExact
<1>1. PipelineInv => ListIsExact
  BY ListIsRight
<1> QED
  BY <1>1, PipelineInit, PipelineStep, PTL DEF Spec

-------------------------------------------------------------------------------
(* Reading: the invariants *)

SelectionType == [rows : SUBSET Nat, anchor : Nat \cup {NoRow}, revision : Nat]
ContextType == [open : BOOLEAN, rows : Seq(Nat), epoch : Nat, absolute : Nat]
ReadingType ==
  [selection : SelectionType, selected : Nat \cup {NoRow}, context : ContextType]

\* The rows of an open context are all the retained ones of an interval around
\* its origin, and what is chosen is chosen of them.
Neighbours(a, first, last) == {i \in Nat : first <= a.dropped + i /\ a.dropped + i <= last}

ContextInv(r, a) ==
  IF r.context.open
  THEN /\ r.context.epoch = a.epoch
       /\ \E first, last \in Nat :
            /\ r.context.absolute <= first + Around /\ first <= r.context.absolute
            /\ r.context.absolute <= last /\ last <= r.context.absolute + Around
            /\ last < End(a)
            /\ Lists(r.context.rows, Neighbours(a, first, last))
       /\ Chosen(r) \subseteq Indices(r.context.rows)
  ELSE r.context.rows = <<>>

\* Outside a context, what is chosen and classified is in the list.
ListedInv(r, a) ==
  a.progress.some /\ ~r.context.open =>
    \A i \in Chosen(r) : a.dropped + i < a.progress.next_absolute => i \in Indices(a.matches)

ReadingInv(r, a) ==
  /\ r \in ReadingType
  /\ \A i \in Chosen(r) : i < Len(a.entries)
  /\ ContextInv(r, a)
  /\ ListedInv(r, a)

LEMMA NoRowIsNone == NoRow \notin Nat /\ NoRow \in Int /\ \A n \in Nat : NoRow < n /\ NoRow # n
  BY DEF NoRow

LEMMA ReadingFields ==
  ASSUME NEW r \in ReadingType
  PROVE  /\ r.selection \in SelectionType /\ r.selection.rows \in SUBSET Nat
         /\ r.selection.anchor \in Nat \cup {NoRow} /\ r.selection.revision \in Nat
         /\ r.selected \in Nat \cup {NoRow} /\ r.context \in ContextType
         /\ r.context.open \in BOOLEAN /\ r.context.rows \in Seq(Nat)
         /\ r.context.epoch \in Nat /\ r.context.absolute \in Nat
         /\ Chosen(r) \in SUBSET Nat
         /\ \A i \in Chosen(r) : i \in r.selection.rows \/ i = r.selected \/ i = r.selection.anchor
         /\ r.selection.rows \subseteq Chosen(r)
         /\ r.selected # NoRow => r.selected \in Chosen(r)
         /\ r.selection.anchor # NoRow => r.selection.anchor \in Chosen(r)
<1>1. /\ r.selection \in SelectionType /\ r.selection.rows \in SUBSET Nat
      /\ r.selection.anchor \in Nat \cup {NoRow} /\ r.selection.revision \in Nat
      /\ r.selected \in Nat \cup {NoRow} /\ r.context \in ContextType
      /\ r.context.open \in BOOLEAN /\ r.context.rows \in Seq(Nat)
      /\ r.context.epoch \in Nat /\ r.context.absolute \in Nat
  BY DEF ReadingType, SelectionType, ContextType
<1> QED
  BY <1>1, NoRowIsNone DEF Chosen

LEMMA ClearedSelection ==
  ASSUME NEW s \in SelectionType
  PROVE  /\ ClearSelection(s) \in SelectionType
         /\ ClearSelection(s).rows = {} /\ ClearSelection(s).anchor = NoRow
  BY DEF ClearSelection, SelectionType

\* A selection made among the rows of a list is of those and of what was selected.
LEMMA SelectFacts ==
  ASSUME NEW s \in SelectionType, NEW list \in Seq(Nat), NEW index \in Nat \cup {NoRow},
         NEW extend \in BOOLEAN, NEW toggle \in BOOLEAN,
         NEW t, t = Select(s, list, index, extend, toggle)
  PROVE  /\ t \in SelectionType
         /\ Refuses(s, list, index, extend) => t = s
         /\ ~Refuses(s, list, index, extend) =>
              /\ index \in Indices(list) /\ t.rows \subseteq s.rows \cup Indices(list)
              /\ t.anchor \in Indices(list)
<1>1. Indices(list) \subseteq Nat
  BY DEF Indices
<1>2. CASE Refuses(s, list, index, extend)
  BY <1>2 DEF Select
<1>3. CASE ~Refuses(s, list, index, extend)
  <2>1. /\ index \in Indices(list) /\ index \in Nat
        /\ extend => s.anchor = NoRow \/ s.anchor \in Indices(list)
    BY <1>1, <1>3 DEF Refuses
  <2>2. s.revision + 1 \in Nat /\ s.rows \in SUBSET Nat
    BY DEF SelectionType
  <2>3. CASE extend
    <3> DEFINE from == IF s.anchor = NoRow THEN index ELSE s.anchor
               range == Between(list, from, index)
    <3>1. t = [rows |-> IF toggle THEN s.rows \cup range ELSE range,
               anchor |-> from, revision |-> s.revision + 1]
      BY <1>3, <2>3 DEF Select, Extended
    <3>2. range \subseteq Indices(list)
      BY DEF Between
    <3>3. from \in Indices(list)
      BY <2>1, <2>3
    <3> DEFINE rows == IF toggle THEN s.rows \cup range ELSE range
    <3>4. rows \subseteq s.rows \cup Indices(list)
      BY <3>2
    <3> HIDE DEF from, range, rows
    <3>5. t = [rows |-> rows, anchor |-> from, revision |-> s.revision + 1]
      BY <3>1 DEF rows
    <3>6. t \in SelectionType /\ t.rows = rows /\ t.anchor = from
      BY <1>1, <2>2, <3>3, <3>4, <3>5 DEF SelectionType
    <3> QED
      BY <1>3, <2>1, <3>3, <3>4, <3>6
  <2>4. CASE ~extend
    <3> DEFINE rows == IF ~toggle THEN {index}
                       ELSE IF index \in s.rows THEN s.rows \ {index} ELSE s.rows \cup {index}
    <3>1. t = [rows |-> rows, anchor |-> index, revision |-> s.revision + 1]
      BY <1>3, <2>4 DEF Select, Clicked
    <3>2. rows \subseteq s.rows \cup Indices(list)
      BY <2>1
    <3> HIDE DEF rows
    <3> QED
      BY <1>1, <1>3, <2>1, <2>2, <3>1, <3>2 DEF SelectionType
  <2> QED
    BY <2>3, <2>4
<1> QED
  BY <1>2, <1>3

\* A plain click on a listed row selects it alone.
Click(s, list, index) == Select(s, list, index, FALSE, FALSE)

LEMMA ClickFacts ==
  ASSUME NEW s \in SelectionType, NEW list, \A i \in Indices(list) : i \in Nat, NEW index,
         NEW t, t = Click(s, list, index)
  PROVE  /\ t \in SelectionType
         /\ index \in Indices(list) => t.rows = {index} /\ t.anchor = index
         /\ index \notin Indices(list) => t = s
<1>1. t = IF index \notin Indices(list) THEN s
          ELSE [rows |-> {index}, anchor |-> index, revision |-> s.revision + 1]
  BY DEF Click, Select, Refuses, Clicked
<1>2. s.revision + 1 \in Nat
  BY DEF SelectionType
<1>3. CASE index \in Indices(list)
  <2>1. t = [rows |-> {index}, anchor |-> index, revision |-> s.revision + 1] /\ index \in Nat
    BY <1>1, <1>3
  <2> QED
    BY <1>2, <1>3, <2>1 DEF SelectionType
<1>4. CASE index \notin Indices(list)
  BY <1>1, <1>4
<1> QED
  BY <1>3, <1>4

LEMMA ListedIndices ==
  ASSUME NEW S, NEW s, Lists(s, S)
  PROVE  Indices(s) = S
  BY DEF Lists

\* The list is within the rows.
LEMMA MatchesAreRows ==
  ASSUME NEW a, ListInv(a)
  PROVE  /\ a.matches \in Seq(Nat)
         /\ \A i \in Indices(a.matches) : i \in Nat /\ i < Len(a.entries)
<1>1. PICK S \in SUBSET (0 .. Len(a.entries) - 1) : Lists(a.matches, S)
  BY DEF ListInv
<1>2. Len(a.entries) \in Nat
  BY AppFields DEF ListInv
<1>3. \A i \in S : i \in Nat /\ i < Len(a.entries)
  BY <1>2
<1>4. Indices(a.matches) = S /\ a.matches \in Seq(Nat)
  BY <1>1, ListedIndices, ListFacts
<1> QED
  BY <1>3, <1>4

-------------------------------------------------------------------------------
(* Reading: what the methods do *)

\* Nothing is chosen any more.
LEMMA DeselectedKeeps ==
  ASSUME NEW r, NEW a, ReadingInv(r, a), NEW q, q = Deselected(r)
  PROVE  ReadingInv(q, a) /\ Chosen(q) = {} /\ q.context = r.context
<1>1. r \in ReadingType
  BY DEF ReadingInv
<1>2. q \in ReadingType /\ Chosen(q) = {} /\ q.context = r.context
  <2> DEFINE s == ClearSelection(r.selection)
  <2>1. s \in SelectionType /\ s.rows = {} /\ s.anchor = NoRow
    BY <1>1, ReadingFields, ClearedSelection
  <2>2. q = [r EXCEPT !.selection = s, !.selected = NoRow]
    BY DEF Deselected
  <2> HIDE DEF s
  <2>3. q \in ReadingType /\ q.selection = s /\ q.selected = NoRow /\ q.context = r.context
    BY <1>1, <2>1, <2>2 DEF ReadingType
  <2> QED
    BY <2>1, <2>3 DEF Chosen
<1> QED
  BY <1>2 DEF ReadingInv, ContextInv, ListedInv

LEMMA ClosedKeeps ==
  ASSUME NEW r, NEW a, ReadingInv(r, a), NEW b, NEW q, q = Closed(r)
  PROVE  ReadingInv(q, b) /\ Chosen(q) = {} /\ ~q.context.open
<1> DEFINE p == Deselected(r)
<1>1. p \in ReadingType /\ Chosen(p) = {}
  BY DeselectedKeeps DEF ReadingInv
<1>2. q = [p EXCEPT !.context = NoContext]
  BY DEF Closed
<1> HIDE DEF p
<1>3. NoContext \in ContextType /\ ~NoContext.open /\ NoContext.rows = <<>>
  BY DEF NoContext, ContextType
<1>4. /\ q \in ReadingType /\ q.selection = p.selection /\ q.selected = p.selected
      /\ q.context = NoContext
  BY <1>1, <1>2, <1>3 DEF ReadingType
<1>5. Chosen(q) = {}
  BY <1>1, <1>4 DEF Chosen
<1> QED
  BY <1>3, <1>4, <1>5 DEF ReadingInv, ContextInv, ListedInv

\* What leaving a context selects is its origin, if that is in the list.
LEMMA LeftKeeps ==
  ASSUME NEW a, ListInv(a), NEW r, ReadingInv(r, a), NEW q, q = Left(r, a)
  PROVE  /\ ReadingInv(q, a) /\ ~q.context.open
         /\ ~r.context.open => q = r
         /\ r.context.open => \A i \in Chosen(q) : i = Resolved(r.context, a)
         /\ r.context.open => Chosen(q) \subseteq Indices(a.matches)
<1>1. r \in ReadingType
  BY DEF ReadingInv
<1>2. CASE ~r.context.open
  BY <1>2 DEF Left
<1>3. CASE r.context.open
  <2> DEFINE origin == Resolved(r.context, a)
             index == IF origin \in Indices(a.matches) THEN origin ELSE NoRow
             cleared == ClearSelection(r.selection)
             s == Click(cleared, a.matches, index)
  <2>1. q = [selection |-> s, selected |-> index, context |-> NoContext]
    BY <1>3 DEF Left, Click
  <2>2. cleared \in SelectionType /\ cleared.rows = {} /\ cleared.anchor = NoRow
    BY <1>1, ReadingFields, ClearedSelection
  <2>3. a.matches \in Seq(Nat) /\ \A i \in Indices(a.matches) : i \in Nat /\ i < Len(a.entries)
    BY MatchesAreRows
  <2>4. index \in Nat \cup {NoRow} /\ (index # NoRow => index = origin /\ index \in Indices(a.matches))
    BY <2>3
  <2> HIDE DEF cleared, index, origin
  <2>5. /\ s \in SelectionType
        /\ s.rows \subseteq {index} /\ s.anchor \in {index, NoRow}
        /\ index = NoRow => s.rows = {} /\ s.anchor = NoRow
    <3>1. /\ s \in SelectionType
          /\ index \in Indices(a.matches) => s.rows = {index} /\ s.anchor = index
          /\ index \notin Indices(a.matches) => s = cleared
      BY <2>2, <2>3, ClickFacts
    <3>2. index = NoRow => index \notin Indices(a.matches)
      BY <2>3, NoRowIsNone
    <3> QED
      BY <2>2, <3>1, <3>2
  <2> HIDE DEF s
  <2>6. NoContext \in ContextType /\ ~NoContext.open /\ NoContext.rows = <<>>
    BY DEF NoContext, ContextType
  <2>7. /\ q \in ReadingType /\ q.context = NoContext
        /\ \A i \in Chosen(q) : i = index /\ index # NoRow
    <3>1. q \in ReadingType
      BY <2>1, <2>4, <2>5, <2>6 DEF ReadingType
    <3>2. q.selection = s /\ q.selected = index /\ q.context = NoContext
      BY <2>1
    <3> QED
      BY <2>5, <3>1, <3>2 DEF Chosen
  <2>8. \A i \in Chosen(q) : i \in Indices(a.matches) /\ i < Len(a.entries) /\ i = origin
    BY <2>3, <2>4, <2>7
  <2>9. ReadingInv(q, a)
    BY <2>6, <2>7, <2>8 DEF ReadingInv, ContextInv, ListedInv
  <2> QED
    BY <1>3, <2>6, <2>7, <2>8, <2>9 DEF origin
<1> QED
  BY <1>2, <1>3

\* The numbers of S that are not trimmed, counted from the new first row.
After(S, remove) == {i - remove : i \in {j \in S : remove <= j}}

LEMMA RebaseFacts ==
  ASSUME NEW s \in SelectionType, NEW remove \in Nat, NEW t, t = Rebase(s, remove)
  PROVE  /\ t \in SelectionType
         /\ t.rows = After(s.rows, remove)
         /\ t.anchor = IF s.anchor \in Nat /\ remove <= s.anchor THEN s.anchor - remove ELSE NoRow
<1>1. s.rows \in SUBSET Nat /\ s.anchor \in Nat \cup {NoRow} /\ s.revision \in Nat
  BY DEF SelectionType
<1>2. \A i \in Nat : /\ remove <= i => Shifted(i, remove) = i - remove /\ i - remove \in Nat
                     /\ ~(remove <= i) => Shifted(i, remove) = NoRow
  BY DEF Shifted
<1>3. Shifted(NoRow, remove) = NoRow
  BY DEF Shifted, NoRow
<1>4. {Shifted(i, remove) : i \in s.rows} \ {NoRow} = After(s.rows, remove)
  BY <1>1, <1>2, NoRowIsNone DEF After
<1>5. Shifted(s.anchor, remove)
        = IF s.anchor \in Nat /\ remove <= s.anchor THEN s.anchor - remove ELSE NoRow
  BY <1>1, <1>2, <1>3
<1> DEFINE rows == After(s.rows, remove)
           anchor == Shifted(s.anchor, remove)
           revision == IF remove # 0 /\ (s.rows # {} \/ s.anchor # NoRow)
                       THEN s.revision + 1 ELSE s.revision
<1>6. t = [rows |-> rows, anchor |-> anchor, revision |-> revision]
  BY <1>4 DEF Rebase
<1>7. rows \in SUBSET Nat
  BY <1>1, <1>2 DEF After
<1>8. anchor \in Nat \cup {NoRow}
  BY <1>1, <1>2, <1>3
<1>9. revision \in Nat
  BY <1>1
<1> HIDE DEF rows, anchor, revision
<1>10. t \in SelectionType /\ t.rows = rows /\ t.anchor = anchor
  BY <1>6, <1>7, <1>8, <1>9 DEF SelectionType
<1> QED
  BY <1>5, <1>10 DEF rows, anchor

\* Moved only drops what is trimmed and counts the rest from the new first row.
LEMMA MovedFields ==
  ASSUME NEW r \in ReadingType, NEW S, Lists(r.context.rows, S), NEW remove \in Nat, remove # 0,
         NEW q, q = Moved(r, remove)
  PROVE  /\ q \in ReadingType
         /\ q.context.open = r.context.open /\ q.context.epoch = r.context.epoch
         /\ q.context.absolute = r.context.absolute
         /\ Lists(q.context.rows, After(S, remove))
         /\ Chosen(q) = After(Chosen(r), remove)
         /\ r.context.rows = <<>> => q.context.rows = <<>>
<1> DEFINE positions == {k \in DOMAIN r.context.rows : r.context.rows[k] >= remove}
           rows == Kept(r.context.rows, positions, remove)
           s == Rebase(r.selection, remove)
           index == Shifted(r.selected, remove)
           context == [r.context EXCEPT !.rows = rows]
<1>1. q = [selection |-> s, selected |-> index, context |-> context]
  BY DEF Moved, Kept
<1>2. s \in SelectionType
      /\ s.rows = After(r.selection.rows, remove)
      /\ s.anchor = IF r.selection.anchor \in Nat /\ remove <= r.selection.anchor
                    THEN r.selection.anchor - remove ELSE NoRow
  <2>1. r.selection \in SelectionType
    BY ReadingFields
  <2> QED
    BY <2>1, RebaseFacts
<1>3. index = IF r.selected \in Nat /\ remove <= r.selected THEN r.selected - remove ELSE NoRow
  <2>1. r.selected \in Nat \cup {NoRow}
    BY ReadingFields
  <2>2. Shifted(NoRow, remove) = NoRow
    BY DEF Shifted, NoRow
  <2> QED
    BY <2>1, <2>2, NoRowIsNone DEF Shifted
<1>4. Lists(rows, After(S, remove))
  <2>1. /\ DOMAIN r.context.rows = 1 .. Len(r.context.rows)
        /\ \A k \in DOMAIN r.context.rows : r.context.rows[k] \in S /\ r.context.rows[k] \in Nat
        /\ \A n \in S : n \in Nat /\ \E k \in DOMAIN r.context.rows : r.context.rows[k] = n
    BY ListFacts
  <2>2. \A k \in positions : remove <= r.context.rows[k]
    BY <2>1
  <2>3. positions \in SUBSET DOMAIN r.context.rows
    OBVIOUS
  <2>4. {r.context.rows[k] - remove : k \in positions} = After(S, remove)
    <3>1. \A k \in positions : r.context.rows[k] - remove \in After(S, remove)
      BY <2>1 DEF After
    <3>2. ASSUME NEW i \in S, remove <= i
          PROVE  \E k \in positions : r.context.rows[k] - remove = i - remove
      <4> DEFINE rs == r.context.rows
      <4>3. \E k \in 1 .. Len(rs) : rs[k] = i
        BY ListFacts
      <4>1. PICK k \in DOMAIN r.context.rows : r.context.rows[k] = i
        BY <2>1, <4>3
      <4>2. k \in positions
        BY <2>1, <3>2, <4>1
      <4> QED
        BY <4>1, <4>2
    <3> QED
      BY <3>1, <3>2 DEF After
  <2> HIDE DEF positions
  <2>5. Lists(rows, {r.context.rows[k] - remove : k \in positions})
    BY <2>2, <2>3, KeptLists
  <2> QED
    BY <2>4, <2>5
<1> HIDE DEF s, index, rows, positions
<1>5. /\ context \in ContextType /\ context.rows = rows /\ context.open = r.context.open
      /\ context.epoch = r.context.epoch /\ context.absolute = r.context.absolute
  <2>1. r.context \in ContextType /\ rows \in Seq(Nat)
    BY <1>4, ReadingFields, ListFacts
  <2> QED
    BY <2>1 DEF ContextType
<1> HIDE DEF context
<1>6. index \in Nat \cup {NoRow}
  BY <1>3
<1>7. /\ q \in ReadingType /\ q.selection = s /\ q.selected = index /\ q.context = context
  BY <1>1, <1>2, <1>5, <1>6 DEF ReadingType
<1>8. Chosen(q) = After(Chosen(r), remove)
  <2>1. Chosen(q) = (s.rows \cup {index, s.anchor}) \ {NoRow}
    BY <1>7 DEF Chosen
  <2>2. \A j : j \in Chosen(r) <=> j # NoRow /\ (j \in r.selection.rows \/ j = r.selected
                                                  \/ j = r.selection.anchor)
    BY DEF Chosen
  <2>3. /\ r.selection.rows \in SUBSET Nat /\ r.selected \in Nat \cup {NoRow}
        /\ r.selection.anchor \in Nat \cup {NoRow} /\ Chosen(r) \in SUBSET Nat
    BY ReadingFields
  <2>4. \A j \in Nat : remove <= j => j - remove \in Nat /\ j - remove # NoRow
    BY NoRowIsNone
  <2>5. ASSUME NEW i \in Chosen(q)
        PROVE  \E j \in Chosen(r) : remove <= j /\ i = j - remove
    BY <1>2, <1>3, <2>1, <2>2, <2>3, NoRowIsNone DEF After
  <2>6. ASSUME NEW j \in Chosen(r), remove <= j
        PROVE  j - remove \in Chosen(q)
    <3>1. j - remove # NoRow
      BY <2>3, <2>4, <2>6
    <3>2. j \in r.selection.rows \/ j = r.selected \/ j = r.selection.anchor
      BY <2>2
    <3> QED
      BY <1>2, <1>3, <2>1, <2>3, <2>6, <3>1, <3>2 DEF After
  <2> QED
    BY <2>5, <2>6 DEF After
<1>9. r.context.rows = <<>> => q.context.rows = <<>>
  <2> SUFFICES ASSUME r.context.rows = <<>> PROVE q.context.rows = <<>>
    OBVIOUS
  <2>1. S = {}
    BY ListFacts
  <2>2. Lists(rows, {})
    BY <1>4, <2>1 DEF After
  <2> QED
    BY <1>5, <1>7, <2>2, EmptyLists, ListsUnique
<1> QED
  BY <1>4, <1>5, <1>7, <1>8, <1>9

LEMMA MovedKeeps ==
  ASSUME NEW a, ListInv(a), NEW remove \in 1 .. Len(a.entries), NEW b, TrimmedTo(a, remove, b),
         NEW r, ReadingInv(r, a), NEW q, q = Moved(r, remove)
  PROVE  ReadingInv(q, b) /\ Records(q, b) \subseteq Records(r, a)
<1>1. a \in AppType /\ r \in ReadingType
  BY DEF ListInv, ReadingInv
<1>2. /\ a.dropped \in Nat /\ Len(a.entries) \in Nat /\ End(a) = a.dropped + Len(a.entries)
      /\ remove \in Nat /\ remove # 0 /\ remove <= Len(a.entries)
  BY <1>1, AppFields
<1>3. /\ b.dropped = a.dropped + remove /\ Len(b.entries) = Len(a.entries) - remove
      /\ End(b) = End(a) /\ b.epoch = a.epoch /\ b.progress.some = a.progress.some
      /\ b.matches = Rebased(a.matches, remove, Len(b.entries))
  BY DEF TrimmedTo
<1>4. a.progress.some =>
        b.progress.next_absolute = Larger(a.progress.next_absolute, b.dropped)
  BY DEF TrimmedTo
<1>5. PICK T : Lists(r.context.rows, T)
  BY <1>1, EmptyLists DEF ReadingInv, ContextInv
<1>6. /\ q \in ReadingType
      /\ q.context.open = r.context.open /\ q.context.epoch = r.context.epoch
      /\ q.context.absolute = r.context.absolute
      /\ \A S : Lists(r.context.rows, S) => Lists(q.context.rows, After(S, remove))
      /\ Chosen(q) = After(Chosen(r), remove)
      /\ r.context.rows = <<>> => q.context.rows = <<>>
  BY <1>1, <1>2, <1>5, MovedFields
<1>7. Chosen(r) \in SUBSET Nat /\ \A i \in Chosen(r) : i < Len(a.entries)
  BY <1>1, ReadingFields DEF ReadingInv
<1>8. ASSUME NEW i \in Chosen(q)
      PROVE  /\ i + remove \in Chosen(r) /\ i \in Nat /\ i < Len(b.entries)
             /\ b.dropped + i = a.dropped + (i + remove)
  <2>1. PICK j \in Chosen(r) : remove <= j /\ i = j - remove
    BY <1>6 DEF After
  <2>2. j \in Nat /\ j < Len(a.entries)
    BY <1>7
  <2>3. i \in Nat /\ i + remove = j
    BY <1>2, <2>1, <2>2
  <2>4. i < Len(b.entries) /\ b.dropped + i = a.dropped + (i + remove)
    BY <1>2, <1>3, <2>1, <2>2, <2>3
  <2> QED
    BY <2>1, <2>3, <2>4
<1>9. Records(q, b) \subseteq Records(r, a)
  BY <1>3, <1>8 DEF Records
<1>10. ContextInv(q, b)
  <2>1. CASE ~r.context.open
    BY <1>6, <2>1 DEF ReadingInv, ContextInv
  <2>2. CASE r.context.open
    <3>1. PICK first \in Nat, last \in Nat :
            /\ r.context.absolute <= first + Around /\ first <= r.context.absolute
            /\ r.context.absolute <= last /\ last <= r.context.absolute + Around
            /\ last < End(a)
            /\ Lists(r.context.rows, Neighbours(a, first, last))
      BY <2>2 DEF ReadingInv, ContextInv
    <3>2. After(Neighbours(a, first, last), remove) = Neighbours(b, first, last)
      <4>1. ASSUME NEW i \in Nat, first <= a.dropped + i, a.dropped + i <= last, remove <= i
            PROVE  i - remove \in Nat /\ b.dropped + (i - remove) = a.dropped + i
        BY <1>2, <1>3, <4>1
      <4>2. ASSUME NEW i \in Nat, first <= b.dropped + i, b.dropped + i <= last
            PROVE  i + remove \in Nat /\ a.dropped + (i + remove) = b.dropped + i
                   /\ remove <= i + remove /\ (i + remove) - remove = i
        BY <1>2, <1>3, <4>2
      <4>3. ASSUME NEW i \in After(Neighbours(a, first, last), remove)
            PROVE  i \in Neighbours(b, first, last)
        <5>1. PICK j \in Neighbours(a, first, last) : remove <= j /\ i = j - remove
          BY DEF After
        <5> QED
          BY <4>1, <5>1 DEF Neighbours
      <4>4. ASSUME NEW i \in Neighbours(b, first, last)
            PROVE  i \in After(Neighbours(a, first, last), remove)
        <5>1. i \in Nat /\ i + remove \in Neighbours(a, first, last) /\ remove <= i + remove
              /\ i = (i + remove) - remove
          BY <4>2 DEF Neighbours
        <5> QED
          BY <5>1 DEF After
      <4> QED
        BY <4>3, <4>4
    <3>3. Lists(q.context.rows, Neighbours(b, first, last))
      BY <1>6, <3>1, <3>2
    <3>4. Chosen(q) \subseteq Indices(q.context.rows)
      <4>1. Chosen(r) \subseteq Neighbours(a, first, last)
        BY <2>2, <3>1, ListedIndices DEF ReadingInv, ContextInv
      <4>2. Chosen(q) \subseteq After(Neighbours(a, first, last), remove)
        BY <1>6, <4>1 DEF After
      <4> QED
        BY <3>2, <3>3, <4>2, ListedIndices
    <3>5. q.context.epoch = b.epoch
      BY <1>3, <1>6, <2>2 DEF ReadingInv, ContextInv
    <3> QED
      BY <1>3, <1>6, <2>2, <3>1, <3>3, <3>4, <3>5 DEF ContextInv
  <2> QED
    BY <2>1, <2>2
<1>11. ListedInv(q, b)
  <2> SUFFICES ASSUME b.progress.some, ~q.context.open, NEW i \in Chosen(q),
                      b.dropped + i < b.progress.next_absolute
               PROVE  i \in Indices(b.matches)
    BY DEF ListedInv
  <2>1. a.progress.some /\ a.progress.next_absolute \in Nat
    BY <1>1, <1>3, AppFields
  <2>2. a.dropped + (i + remove) < a.progress.next_absolute
    <3>1. /\ b.dropped + i = a.dropped + (i + remove) /\ i \in Nat /\ b.dropped \in Nat
          /\ b.progress.next_absolute = Larger(a.progress.next_absolute, b.dropped)
      BY <1>2, <1>3, <1>4, <1>8, <2>1
    <3> QED
      BY <2>1, <3>1 DEF Larger
  <2>3. i + remove \in Indices(a.matches)
    BY <1>6, <1>8, <2>1, <2>2 DEF ReadingInv, ListedInv
  <2>4. Lists(a.matches, Indices(a.matches))
    <3>1. PICK S : Lists(a.matches, S)
      BY DEF ListInv
    <3> QED
      BY <3>1, ListedIndices
  <2>5. Len(b.entries) \in Nat
    BY <1>2, <1>3
  <2>6. Lists(b.matches, {j \in 0 .. Len(b.entries) - 1 : j + remove \in Indices(a.matches)})
    BY <1>2, <1>3, <2>4, <2>5, RebasedLists
  <2>7. i \in 0 .. Len(b.entries) - 1
    BY <1>8, <2>5
  <2> QED
    BY <2>3, <2>6, <2>7, ListedIndices
<1> QED
  BY <1>6, <1>8, <1>9, <1>10, <1>11 DEF ReadingInv

\* The rows and the filter in force stay as they are.
SameLog(a, b) ==
  /\ b.entries = a.entries /\ b.dropped = a.dropped /\ b.epoch = a.epoch /\ b.active = a.active
  /\ End(b) = End(a)

LEMMA AcceptedLog ==
  ASSUME NEW a \in AppType, NEW r
  PROVE  SameLog(a, Accepted(a, r))
<1>1. /\ Accepted(a, r).entries = a.entries /\ Accepted(a, r).dropped = a.dropped
      /\ Accepted(a, r).epoch = a.epoch /\ Accepted(a, r).active = a.active
  BY DEF Accepted, AcceptedError, AcceptedMatches, AppType
<1> QED
  BY <1>1 DEF SameLog, End

LEMMA CaughtUpLog ==
  ASSUME NEW a \in AppType, NEW rows
  PROVE  SameLog(a, CaughtUp(a, rows))
<1>1. /\ CaughtUp(a, rows).entries = a.entries /\ CaughtUp(a, rows).dropped = a.dropped
      /\ CaughtUp(a, rows).epoch = a.epoch /\ CaughtUp(a, rows).active = a.active
  BY DEF CaughtUp, AppType
<1> QED
  BY <1>1 DEF SameLog, End

LEMMA SameLogContext ==
  ASSUME NEW a, NEW b, SameLog(a, b), NEW r, ContextInv(r, a)
  PROVE  ContextInv(r, b)
<1>1. \A first, last : Neighbours(b, first, last) = Neighbours(a, first, last)
  BY DEF Neighbours, SameLog
<1> QED
  BY <1>1 DEF ContextInv, SameLog

\* A step that leaves the list as it is leaves what is read.
LEMMA EditedReading ==
  ASSUME NEW a, NEW b, Edited(a, b), NEW r, ReadingInv(r, a)
  PROVE  ReadingInv(r, b) /\ Records(r, b) = Records(r, a) /\ SameLog(a, b)
<1>1. SameLog(a, b) /\ b.progress = a.progress /\ b.matches = a.matches
  BY DEF Edited, SameLog, End
<1> QED
  BY <1>1, SameLogContext DEF ReadingInv, ListedInv, SameLog, Records

LEMMA AppendedReading ==
  ASSUME NEW a, ListInv(a), NEW row, NEW b, AppendedTo(a, row, b), ListInv(b),
         NEW r, ReadingInv(r, a)
  PROVE  ReadingInv(r, b) /\ Records(r, b) = Records(r, a)
<1>1. a \in AppType /\ r \in ReadingType
  BY DEF ListInv, ReadingInv
<1>2. /\ Len(a.entries) \in Nat /\ End(a) \in Nat /\ a.dropped \in Nat
      /\ End(a) = a.dropped + Len(a.entries)
  BY <1>1, AppFields
<1>3. /\ Len(b.entries) = Len(a.entries) + 1 /\ b.dropped = a.dropped /\ b.epoch = a.epoch
      /\ End(b) = End(a) + 1 /\ b.pending = a.pending
  BY DEF AppendedTo
<1>4. Chosen(r) \in SUBSET Nat /\ \A i \in Chosen(r) : i < Len(a.entries) /\ i < Len(b.entries)
  <2>1. Chosen(r) \in SUBSET Nat /\ \A i \in Chosen(r) : i < Len(a.entries)
    BY <1>1, ReadingFields DEF ReadingInv
  <2> QED
    BY <1>2, <1>3, <2>1
<1>5. ContextInv(r, b)
  <2>1. \A first, last : Neighbours(b, first, last) = Neighbours(a, first, last)
    BY <1>3 DEF Neighbours
  <2>2. \A n \in Nat : n < End(a) => n < End(b)
    BY <1>2, <1>3
  <2> QED
    BY <1>3, <2>1, <2>2 DEF ContextInv, ReadingInv
<1>6. ListedInv(r, b)
  <2> SUFFICES ASSUME b.progress.some, ~r.context.open, NEW i \in Chosen(r),
                      b.dropped + i < b.progress.next_absolute
               PROVE  i \in Indices(b.matches)
    BY DEF ListedInv
  <2>1. a.progress.some /\ a.progress.next_absolute \in a.dropped .. End(a)
        /\ (a.pending <=> a.progress.next_absolute < End(a))
    <3>1. a.progress \in ProgressType
      BY <1>1, AppFields DEF ProgressType
    <3>2. a.progress.some
      BY <3>1 DEF AppendedTo, ProgressType
    <3> QED
      BY <3>2 DEF ListInv
  <2>2. a.dropped + i < a.progress.next_absolute
    <3>1. CASE a.pending
      <4>1. b.progress = a.progress
        BY <3>1 DEF AppendedTo
      <4> QED
        BY <1>3, <4>1
    <3>2. CASE ~a.pending
      <4>1. a.progress.next_absolute = End(a)
        BY <1>2, <2>1, <3>2
      <4> QED
        BY <1>2, <1>4, <4>1
    <3> QED
      BY <3>1, <3>2
  <2>3. i \in Indices(a.matches)
    BY <2>1, <2>2 DEF ReadingInv, ListedInv
  <2>4. Indices(a.matches) \subseteq Indices(b.matches)
    <3>1. b.matches = a.matches \/ b.matches = Append(a.matches, Len(a.entries))
      BY DEF AppendedTo
    <3>2. Indices(a.matches) \subseteq Indices(Append(a.matches, Len(a.entries)))
      <4>1. a.matches \in Seq(Nat)
        BY <1>1, AppFields
      <4> QED
        BY <4>1 DEF Indices
    <3> QED
      BY <3>1, <3>2
  <2> QED
    BY <2>3, <2>4
<1>7. Records(r, b) = Records(r, a)
  BY <1>3 DEF Records
<1> QED
  BY <1>1, <1>4, <1>5, <1>6, <1>7 DEF ReadingInv

\* Pruning drops what is classified and not in the list.
LEMMA PrunedKeeps ==
  ASSUME NEW b, NEW r \in ReadingType, \A i \in Chosen(r) : i < Len(b.entries), ContextInv(r, b),
         NEW range,
         b.progress.some /\ ~r.context.open =>
           \A i \in Chosen(r) : b.dropped + i < b.progress.next_absolute =>
             i \in range \/ i \in Indices(b.matches),
         NEW q, q = Pruned(r, b, range)
  PROVE  ReadingInv(q, b) /\ Chosen(q) \subseteq Chosen(r) /\ q.context = r.context
<1>1. CASE r.context.open
  <2>1. q = r
    BY <1>1 DEF Pruned
  <2> QED
    BY <1>1, <2>1 DEF ReadingInv, ListedInv
<1>2. CASE ~r.context.open
  <2> DEFINE s == RetainClassified(r.selection, b.matches, range)
             index == IF r.selected \in range \ Indices(b.matches) THEN NoRow ELSE r.selected
             gone == range \ Indices(b.matches)
  <2>1. q = [r EXCEPT !.selection = s, !.selected = index]
    BY <1>2 DEF Pruned
  <2>2. r.selection \in SelectionType
    BY ReadingFields
  <2>3. /\ s \in SelectionType /\ s.rows = r.selection.rows \ gone
        /\ s.anchor = IF r.selection.anchor \in gone THEN NoRow ELSE r.selection.anchor
    <3> DEFINE t == r.selection
               rows == t.rows \ (t.rows \cap gone)
               anchor == IF t.anchor \in gone THEN NoRow ELSE t.anchor
               moved == IF t.rows \cap gone = {} THEN t.revision ELSE t.revision + 1
               revision == IF t.anchor \in gone THEN moved + 1 ELSE moved
    <3>1. s = [rows |-> rows, anchor |-> anchor, revision |-> revision]
      BY DEF RetainClassified
    <3>2. rows \in SUBSET Nat /\ anchor \in Nat \cup {NoRow}
      BY <2>2 DEF SelectionType
    <3>3. revision \in Nat
      <4>1. t.revision \in Nat
        BY <2>2 DEF SelectionType
      <4>2. moved \in Nat
        BY <4>1
      <4> HIDE DEF moved
      <4> QED
        BY <4>2
    <3>4. rows = t.rows \ gone
      OBVIOUS
    <3> HIDE DEF rows, anchor, revision, s, t
    <3>5. s \in SelectionType /\ s.rows = rows /\ s.anchor = anchor
      BY <3>1, <3>2, <3>3 DEF SelectionType
    <3> QED
      BY <3>4, <3>5 DEF anchor, t
  <2>4. index \in Nat \cup {NoRow}
    BY ReadingFields
  <2> HIDE DEF s, index
  <2>5. /\ q \in ReadingType /\ q.selection = s /\ q.selected = index /\ q.context = r.context
    BY <2>1, <2>3, <2>4 DEF ReadingType
  <2>6. Chosen(q) \subseteq Chosen(r) /\ \A i \in Chosen(q) : i \notin gone
    BY <2>3, <2>5 DEF Chosen, index
  <2>7. ContextInv(q, b)
    BY <1>2, <2>5 DEF ContextInv
  <2>8. ListedInv(q, b)
    BY <1>2, <2>5, <2>6 DEF ListedInv
  <2> QED
    BY <2>5, <2>6, <2>7, <2>8 DEF ReadingInv
<1> QED
  BY <1>1, <1>2

LEMMA AcceptedReadingKeeps ==
  ASSUME NEW a, ListInv(a), NEW result, NEW b, b = Accepted(a, result), ListInv(b),
         NEW r, ReadingInv(r, a), NEW q, q = AcceptedReading(r, a, b, result)
  PROVE  /\ ReadingInv(q, b) /\ Chosen(q) \subseteq Chosen(r)
         /\ q.context = r.context /\ SameLog(a, b)
<1>1. a \in AppType /\ b \in AppType /\ r \in ReadingType /\ SameLog(a, b)
  BY AcceptedLog DEF ListInv, ReadingInv
<1>2. CASE Stale(a, result)
  BY <1>1, <1>2 DEF Accepted, AcceptedReading
<1>3. CASE ~Stale(a, result) /\ b.error
  <2>1. ContextInv(r, b) /\ \A i \in Chosen(r) : i < Len(b.entries)
    BY <1>1, SameLogContext DEF ReadingInv, SameLog
  <2> DEFINE p == Deselected(r)
  <2>2. q = p
    BY <1>3 DEF AcceptedReading
  <2>3. ReadingInv(p, a) /\ Chosen(p) = {} /\ p.context = r.context
    BY DeselectedKeeps
  <2> HIDE DEF p
  <2>4. ReadingInv(p, b)
    BY <1>1, <2>3, SameLogContext DEF ReadingInv, ListedInv
  <2> QED
    BY <1>1, <2>2, <2>3, <2>4
<1>4. CASE ~Stale(a, result) /\ ~b.error
  <2> DEFINE range == 0 .. b.progress.next_absolute - b.dropped - 1
  <2>1. ContextInv(r, b) /\ \A i \in Chosen(r) : i < Len(b.entries)
    BY <1>1, SameLogContext DEF ReadingInv, SameLog
  <2>2. \A i \in Chosen(r) : b.dropped + i < b.progress.next_absolute => i \in range
    <3>1. Chosen(r) \in SUBSET Nat /\ b.dropped \in Nat /\ b.progress.next_absolute \in Nat
      BY <1>1, ReadingFields, AppFields
    <3> QED
      BY <3>1
  <2>3. q = Pruned(r, b, range)
    BY <1>4 DEF AcceptedReading
  <2> HIDE DEF range
  <2>4. ReadingInv(q, b) /\ Chosen(q) \subseteq Chosen(r) /\ q.context = r.context
    BY <1>1, <2>1, <2>2, <2>3, PrunedKeeps
  <2> QED
    BY <1>1, <2>4
<1> QED
  BY <1>2, <1>3, <1>4

LEMMA CaughtUpReadingKeeps ==
  ASSUME NEW a, ListInv(a), NEW rows, NEW b, b = CaughtUp(a, rows), ListInv(b),
         NEW r, ReadingInv(r, a), NEW q, q = CaughtUpReading(r, a, b)
  PROVE  /\ ReadingInv(q, b) /\ Chosen(q) \subseteq Chosen(r)
         /\ q.context = r.context /\ SameLog(a, b)
<1>1. a \in AppType /\ b \in AppType /\ r \in ReadingType /\ SameLog(a, b)
  BY CaughtUpLog DEF ListInv, ReadingInv
<1>2. CASE ~CatchesUp(a)
  BY <1>1, <1>2 DEF CaughtUp, CaughtUpReading
<1>3. CASE CatchesUp(a)
  <2> DEFINE m == a.progress.next_absolute
             n == b.progress.next_absolute
             range == (Larger(m, a.dropped) - a.dropped) .. (n - b.dropped - 1)
  <2>1. ContextInv(r, b) /\ \A i \in Chosen(r) : i < Len(b.entries)
    BY <1>1, SameLogContext DEF ReadingInv, SameLog
  <2>2. a.progress.some /\ m \in a.dropped .. End(a) /\ Lists(a.matches, Selecting(a, m - a.dropped))
    BY <1>3 DEF CatchesUp, ListInv
  <2>3. a.dropped \in Nat /\ m \in Nat /\ n \in Nat /\ b.dropped = a.dropped
        /\ Chosen(r) \in SUBSET Nat
    BY <1>1, AppFields, ReadingFields DEF SameLog
  <2>4. Larger(m, a.dropped) = m
    BY <2>2, <2>3 DEF Larger
  <2>5. ASSUME b.progress.some, ~r.context.open, NEW i \in Chosen(r), b.dropped + i < n
        PROVE  i \in range \/ i \in Indices(b.matches)
    <3>1. CASE a.dropped + i < m
      <4>1. i \in Selecting(a, m - a.dropped)
        BY <2>2, <2>5, <3>1, ListedIndices DEF ReadingInv, ListedInv
      <4>2. i \in 0 .. (n - b.dropped) - 1
        BY <2>3, <2>5
      <4>3. i \in Selecting(b, n - b.dropped)
        BY <1>1, <4>1, <4>2 DEF Selecting, SameLog
      <4>4. Lists(b.matches, Selecting(b, n - b.dropped))
        BY <2>5 DEF ListInv
      <4> QED
        BY <4>3, <4>4, ListedIndices
    <3>2. CASE ~(a.dropped + i < m)
      <4>1. i \in (m - a.dropped) .. (n - b.dropped - 1)
        BY <2>3, <2>5, <3>2
      <4> QED
        BY <2>4, <4>1
    <3> QED
      BY <3>1, <3>2
  <2>6. q = Pruned(r, b, range)
    BY <1>3 DEF CaughtUpReading
  <2> HIDE DEF range
  <2>7. ReadingInv(q, b) /\ Chosen(q) \subseteq Chosen(r) /\ q.context = r.context
    BY <1>1, <2>1, <2>5, <2>6, PrunedKeeps
  <2> QED
    BY <1>1, <2>7
<1> QED
  BY <1>2, <1>3

\* The rows on screen.
RowsOf(r, a) == IF r.context.open THEN r.context.rows ELSE a.matches

LEMMA RowsFacts ==
  ASSUME NEW a, ListInv(a), NEW r, ReadingInv(r, a)
  PROVE  /\ RowsOf(r, a) \in Seq(Nat)
         /\ \A i \in Indices(RowsOf(r, a)) : i \in Nat /\ i < Len(a.entries)
<1>1. a \in AppType /\ r \in ReadingType
  BY DEF ListInv, ReadingInv
<1>2. CASE ~r.context.open
  BY <1>2, MatchesAreRows DEF RowsOf
<1>3. CASE r.context.open
  <2>1. PICK first \in Nat, last \in Nat :
          last < End(a) /\ Lists(r.context.rows, Neighbours(a, first, last))
    BY <1>3 DEF ReadingInv, ContextInv
  <2>2. /\ a.dropped \in Nat /\ Len(a.entries) \in Nat /\ End(a) = a.dropped + Len(a.entries)
    BY <1>1, AppFields
  <2>3. \A i \in Neighbours(a, first, last) : i \in Nat /\ i < Len(a.entries)
    BY <2>1, <2>2 DEF Neighbours
  <2>4. r.context.rows \in Seq(Nat)
    BY <1>1, ReadingFields
  <2> QED
    BY <1>3, <2>1, <2>3, <2>4, ListedIndices DEF RowsOf
<1> QED
  BY <1>2, <1>3

\* A selection among the rows on screen is as right as the rows are.
LEMMA SelectedKeeps ==
  ASSUME NEW a, ListInv(a), NEW r, ReadingInv(r, a), NEW s \in SelectionType,
         NEW index \in Nat \cup {NoRow},
         NEW q, q = [r EXCEPT !.selection = s, !.selected = index],
         Chosen(q) \subseteq Chosen(r) \cup Indices(RowsOf(r, a))
  PROVE  ReadingInv(q, a) /\ q.context = r.context
<1>1. a \in AppType /\ r \in ReadingType
  BY DEF ListInv, ReadingInv
<1>2. q \in ReadingType /\ q.context = r.context
  BY <1>1 DEF ReadingType
<1>3. \A i \in Chosen(q) : i < Len(a.entries)
  BY RowsFacts DEF ReadingInv
<1>4. ContextInv(q, a)
  BY <1>2 DEF ReadingInv, ContextInv, RowsOf
<1>5. ListedInv(q, a)
  BY <1>2 DEF ReadingInv, ListedInv, RowsOf
<1> QED
  BY <1>2, <1>3, <1>4, <1>5 DEF ReadingInv

\* show_context makes an interval of rows around its origin.
LEMMA ShownKeeps ==
  ASSUME NEW a, ListInv(a), NEW r, ReadingInv(r, a), NEW index \in Nat,
         NEW q, q = Shown(r, a, index)
  PROVE  ReadingInv(q, a)
<1>1. a \in AppType /\ r \in ReadingType
  BY DEF ListInv, ReadingInv
<1>2. CASE r.context.open \/ a.pending \/ a.dirty \/ index >= Len(a.entries)
  BY <1>2 DEF Shown
<1>3. CASE ~(r.context.open \/ a.pending \/ a.dirty \/ index >= Len(a.entries))
  <2> DEFINE l == Len(a.entries)
             d == a.dropped
             first == IF index < Around THEN 0 ELSE index - Around
             last == Smaller(index + Around, l - 1)
             rows == [k \in 1 .. last - first + 1 |-> first + k - 1]
             s == Click(r.selection, rows, index)
             context == [open |-> TRUE, rows |-> rows, epoch |-> a.epoch, absolute |-> d + index]
  <2>1. q = [selection |-> s, selected |-> index, context |-> context]
    BY <1>3 DEF Shown, Click
  <2>2. l \in Nat /\ d \in Nat /\ End(a) = d + l /\ a.epoch \in Nat /\ index < l /\ Around \in Nat
    <3>1. l \in Nat /\ d \in Nat /\ End(a) = d + l /\ a.epoch \in Nat
      BY <1>1, AppFields
    <3> HIDE DEF l
    <3>2. index < l
      BY <1>3, <3>1 DEF l
    <3> QED
      BY <3>1, <3>2, ReadingAssumption
  <2> HIDE DEF l, d
  <2>3. /\ first \in Nat /\ last \in Nat /\ first <= index /\ index <= last
        /\ index <= first + Around /\ last <= index + Around /\ last < l
    BY <2>2 DEF Smaller
  <2> HIDE DEF first, last
  <2>4. Lists(rows, first .. last)
    <3> DEFINE n == last - first + 1
    <3>1. n \in Nat
      BY <2>3
    <3>2. \A k \in 1 .. n : first + k - 1 \in Nat
      BY <2>3
    <3>3. rows \in [1 .. n -> Nat]
      BY <3>2
    <3>4. rows \in Seq(Nat) /\ Len(rows) = n /\ \A k \in 1 .. n : rows[k] = first + k - 1
      <4>1. \A k \in 1 .. n : rows[k] = first + k - 1
        OBVIOUS
      <4> HIDE DEF rows, n
      <4> QED
        BY <3>1, <3>3, <4>1
    <3> HIDE DEF rows
    <3>5. \A j, k \in 1 .. n : j < k => rows[j] < rows[k]
      BY <2>3, <3>4
    <3>6. ASSUME NEW i \in first .. last
          PROVE  \E k \in 1 .. n : rows[k] = i
      <4>1. i - first + 1 \in 1 .. n /\ first + (i - first + 1) - 1 = i
        BY <2>3
      <4> QED
        BY <3>4, <4>1
    <3>7. \A k \in 1 .. n : rows[k] \in first .. last
      BY <2>3, <3>4
    <3>8. Indices(rows) = first .. last
      BY <3>4, <3>6, <3>7 DEF Indices
    <3> QED
      BY <3>4, <3>5, <3>8 DEF Lists
  <2> HIDE DEF rows
  <2>5. Indices(rows) = first .. last /\ rows \in Seq(Nat) /\ index \in first .. last
    BY <2>3, <2>4, ListedIndices, ListFacts
  <2>6. s \in SelectionType /\ s.rows = {index} /\ s.anchor = index
    <3>1. r.selection \in SelectionType
      BY <1>1, ReadingFields
    <3>2. \A i \in Indices(rows) : i \in Nat
      BY <2>3, <2>5
    <3>3. index \in Indices(rows)
      BY <2>5
    <3> QED
      BY <3>1, <3>2, <3>3, ClickFacts
  <2> HIDE DEF s
  <2>7. /\ context \in ContextType /\ context.open /\ context.rows = rows
        /\ context.epoch = a.epoch /\ context.absolute = d + index
    BY <2>2, <2>5 DEF ContextType
  <2> HIDE DEF context
  <2>8. q \in ReadingType /\ q.selection = s /\ q.selected = index /\ q.context = context
    BY <2>1, <2>6, <2>7 DEF ReadingType
  <2>9. Chosen(q) = {index}
    BY <2>6, <2>8, NoRowIsNone DEF Chosen
  <2>10. Neighbours(a, d + first, d + last) = first .. last
    BY <2>2, <2>3 DEF Neighbours, d
  <2>11. /\ d + first \in Nat /\ d + last \in Nat
         /\ d + index <= (d + first) + Around /\ d + first <= d + index
         /\ d + index <= d + last /\ d + last <= (d + index) + Around /\ d + last < End(a)
    BY <2>2, <2>3
  <2>12. ContextInv(q, a)
    <3>1. Lists(q.context.rows, Neighbours(a, d + first, d + last))
      BY <2>4, <2>7, <2>8, <2>10
    <3>2. Chosen(q) \subseteq Indices(q.context.rows)
      BY <2>5, <2>7, <2>8, <2>9
    <3>3. q.context.absolute = d + index /\ q.context.open /\ q.context.epoch = a.epoch
      BY <2>7, <2>8
    <3> QED
      BY <2>11, <3>1, <3>2, <3>3 DEF ContextInv
  <2>13. ListedInv(q, a)
    BY <2>7, <2>8 DEF ListedInv
  <2>14. \A i \in Chosen(q) : i < Len(a.entries)
    BY <2>2, <2>9 DEF l
  <2> QED
    BY <2>8, <2>12, <2>13, <2>14 DEF ReadingInv
<1> QED
  BY <1>2, <1>3

LEMMA TrimReads ==
  ASSUME NEW a, ListInv(a), NEW remove \in 0 .. Len(a.entries), NEW b, b = Trimmed(a, remove),
         NEW r, ReadingInv(r, a)
  PROVE  /\ b.dropped - a.dropped = remove
         /\ ReadingInv(Moved(r, remove), b) /\ Records(Moved(r, remove), b) \subseteq Records(r, a)
<1>1. a \in AppType
  BY DEF ListInv
<1>2. a.dropped \in Nat /\ Len(a.entries) \in Nat
  BY <1>1, AppFields
<1>3. CASE remove = 0
  <2>1. b = a /\ Moved(r, remove) = r
    BY <1>3 DEF Trimmed, Moved
  <2> QED
    BY <1>2, <1>3, <2>1
<1>4. CASE remove # 0
  <2>1. remove \in 1 .. Len(a.entries)
    BY <1>2, <1>4
  <2>2. TrimmedTo(a, remove, b)
    BY <2>1, TrimmedFields
  <2>3. ReadingInv(Moved(r, remove), b) /\ Records(Moved(r, remove), b) \subseteq Records(r, a)
    BY <2>1, <2>2, MovedKeeps
  <2>4. b.dropped = a.dropped + remove
    BY <2>2 DEF TrimmedTo
  <2> QED
    BY <1>2, <2>1, <2>3, <2>4
<1> QED
  BY <1>3, <1>4

LEMMA AcceptedReads ==
  ASSUME NEW a, ListInv(a), NEW slot, \A r \in slot : Answer(r, a),
         NEW b, b = Taken(Accepted, a, slot), NEW r, ReadingInv(r, a),
         NEW q, q = IF slot = {} THEN r ELSE AcceptedReading(r, a, b, CHOOSE result \in slot : TRUE)
  PROVE  /\ ReadingInv(q, b) /\ Chosen(q) \subseteq Chosen(r) /\ q.context = r.context
         /\ SameLog(a, b) /\ ListInv(b)
<1>1. ListInv(b)
  BY TakenAnswer
<1>2. CASE slot = {}
  <2>1. b = a /\ q = r
    BY <1>2 DEF Taken
  <2> QED
    BY <1>1, <2>1 DEF SameLog
<1>3. CASE slot # {}
  <2> DEFINE result == CHOOSE result \in slot : TRUE
  <2>1. b = Accepted(a, result) /\ q = AcceptedReading(r, a, b, result)
    BY <1>3 DEF Taken
  <2> HIDE DEF result
  <2>2. /\ ReadingInv(q, b) /\ Chosen(q) \subseteq Chosen(r)
        /\ q.context = r.context /\ SameLog(a, b)
    BY <1>1, <2>1, AcceptedReadingKeeps
  <2> QED
    BY <1>1, <2>2
<1> QED
  BY <1>2, <1>3

LEMMA HighlightReads ==
  ASSUME NEW a, ListInv(a), NEW slot, \A r \in slot : HighlightAnswer(r),
         NEW b, b = Taken(Highlighted, a, slot), NEW r, ReadingInv(r, a)
  PROVE  ReadingInv(r, b) /\ SameLog(a, b) /\ ListInv(b)
<1>1. ListInv(b)
  BY TakenHighlight
<1>2. CASE slot = {}
  <2>1. b = a
    BY <1>2 DEF Taken
  <2> QED
    BY <2>1, <1>1 DEF SameLog
<1>3. CASE slot # {}
  <2> DEFINE result == CHOOSE result \in slot : TRUE
  <2>1. b = Highlighted(a, result)
    BY <1>3 DEF Taken
  <2>2. HighlightAnswer(result)
    BY <1>3
  <2> HIDE DEF result
  <2>3. Edited(a, b)
    BY <2>1, <2>2, HighlightedEdits DEF ListInv
  <2> QED
    BY <1>1, <2>3, EditedReading
<1> QED
  BY <1>2, <1>3

\* Reading does not disturb the list.
LEMMA ReadingIsPipeline ==
  ASSUME [ReadingNext]_<<pipelineVars, readingVars>>
  PROVE  [Next]_pipelineVars
<1>1. CASE PollFilterReading \/ AppendReading \/ EditReading \/ ClearReading \/ BudgetReading
  BY <1>1 DEF PollFilterReading, AppendReading, EditReading, ClearReading, BudgetReading, Next
<1>2. CASE (DrawFirstFrame \/ WorkerStep) /\ UNCHANGED readingVars
  BY <1>2 DEF Next
<1>3. CASE SelectRow \/ SelectAllRows \/ Deselect \/ ShowContext \/ JumpToIncident \/ LeaveContext
  BY <1>3 DEF SelectRow, SelectAllRows, Deselect, ShowContext, JumpToIncident, LeaveContext, Reads
<1>4. CASE UNCHANGED <<pipelineVars, readingVars>>
  BY <1>4
<1> QED
  BY <1>1, <1>2, <1>3, <1>4 DEF ReadingNext

\* The handlers of the list: what is read stays right, and no other record is chosen.
Drops == /\ ReadingInv(reading', app')
         /\ Records(reading', app') \subseteq Records(reading, app) \cup Origin(reading)

LEMMA PollReads ==
  ASSUME PipelineInv, ReadingInv(reading, app), PollFilterReading
  PROVE  Drops
<1> DEFINE a == Taken(Highlighted, app, completed.highlight)
           b == Taken(Accepted, a, completed.filter)
           r == IF completed.filter = {} THEN reading
                ELSE AcceptedReading(reading, a, b, CHOOSE result \in completed.filter : TRUE)
<1>1. PICK rows \in 1 .. CatchUpRows : app' = CaughtUp(b, rows)
  BY DEF PollFilterReading, PollFilter
<1>2. reading' = CaughtUpReading(r, b, app')
  BY DEF PollFilterReading
<1>3. ListInv(app) /\ ListInv(app')
  <2>1. [Next]_pipelineVars
    BY DEF PollFilterReading, Next
  <2> QED
    BY <2>1, PipelineStep DEF PipelineInv
<1>4. ListInv(a) /\ ReadingInv(reading, a) /\ SameLog(app, a)
  BY <1>3, HighlightReads DEF PipelineInv, SlotsInv
<1>5. \A result \in completed.filter : Answer(result, a)
  <2>1. Later(app, a)
    BY <1>3, TakenHighlight DEF PipelineInv, SlotsInv
  <2> QED
    BY <1>3, <1>4, <2>1, AnswerStays DEF PipelineInv, SlotsInv, ListInv
<1> HIDE DEF a
<1>6. /\ ReadingInv(r, b) /\ Chosen(r) \subseteq Chosen(reading) /\ SameLog(a, b) /\ ListInv(b)
  BY <1>4, <1>5, AcceptedReads
<1> HIDE DEF b, r
<1>7. /\ ReadingInv(reading', app') /\ Chosen(reading') \subseteq Chosen(r) /\ SameLog(b, app')
  BY <1>1, <1>2, <1>3, <1>6, CaughtUpReadingKeeps
<1>8. app'.epoch = app.epoch /\ app'.dropped = app.dropped
  BY <1>4, <1>6, <1>7 DEF SameLog
<1>9. Chosen(reading') \subseteq Chosen(reading)
  BY <1>6, <1>7
<1> QED
  BY <1>7, <1>8, <1>9 DEF Records, Drops

LEMMA AppendReads ==
  ASSUME PipelineInv, ReadingInv(reading, app), AppendReading
  PROVE  Drops
<1>1. PICK row \in Kinds :
        LET a == Appended(app, row)
            len == Len(a.entries)
        IN \E remove \in IF len > MaxRetained THEN 1 .. len ELSE {0} : app' = Trimmed(a, remove)
  BY DEF AppendReading, AppendReceivedEntry
<1> DEFINE a == Appended(app, row)
           len == Len(a.entries)
<1>2. PICK remove \in IF len > MaxRetained THEN 1 .. len ELSE {0} : app' = Trimmed(a, remove)
  BY <1>1
<1>3. reading' = Moved(reading, app'.dropped - app.dropped)
  BY DEF AppendReading
<1>4. ListInv(app) /\ app \in AppType
  BY DEF PipelineInv, ListInv
<1>5. ListInv(a) /\ AppendedTo(app, row, a)
  BY <1>4, AppendedKeeps, AppendedFields
<1>6. len \in Nat
  BY <1>5, AppFields DEF ListInv
<1>7. remove \in 0 .. len
  BY <1>2, <1>6
<1> HIDE DEF a
<1>8. ReadingInv(reading, a) /\ Records(reading, a) = Records(reading, app)
  BY <1>4, <1>5, AppendedReading
<1>9. /\ app'.dropped - a.dropped = remove
      /\ ReadingInv(Moved(reading, remove), app')
      /\ Records(Moved(reading, remove), app') \subseteq Records(reading, a)
  BY <1>2, <1>5, <1>7, <1>8, TrimReads
<1>10. a.dropped = app.dropped
  BY <1>5 DEF AppendedTo
<1> QED
  BY <1>3, <1>8, <1>9, <1>10 DEF Drops

\* Leaving a context selects its origin at most, of the rows as they are.
LEMMA LeftReads ==
  ASSUME NEW a, ListInv(a), NEW r, ReadingInv(r, a), NEW q, q = Left(r, a)
  PROVE  Records(q, a) \subseteq Records(r, a) \cup Origin(r)
<1>1. a \in AppType /\ r \in ReadingType
  BY DEF ListInv, ReadingInv
<1>2. CASE ~r.context.open
  BY <1>2, LeftKeeps
<1>3. CASE r.context.open
  <2>1. /\ \A i \in Chosen(q) : i = Resolved(r.context, a)
        /\ Chosen(q) \subseteq Indices(a.matches)
    BY <1>3, LeftKeeps
  <2> SUFFICES ASSUME NEW i \in Chosen(q)
               PROVE  <<a.epoch, a.dropped + i>> \in Origin(r)
    BY DEF Records
  <2>2. i \in Nat /\ i = Resolved(r.context, a)
    BY <2>1, MatchesAreRows
  <2>3. i = r.context.absolute - a.dropped /\ r.context.epoch = a.epoch
    BY <2>2, NoRowIsNone DEF Resolved
  <2>4. r.context.absolute \in Nat /\ a.dropped \in Nat
    BY <1>1, ReadingFields, AppFields
  <2>5. a.dropped + i = r.context.absolute
    BY <2>2, <2>3, <2>4
  <2> QED
    BY <1>3, <2>3, <2>5 DEF Origin
<1> QED
  BY <1>2, <1>3

\* A filter that is pending again has no cursor: what is read waits for its result.
LEMMA RestartedReads ==
  ASSUME NEW a \in AppType, NEW b, b = Restarted(a), NEW r, ReadingInv(r, a)
  PROVE  ReadingInv(r, b) /\ Records(r, b) = Records(r, a) /\ b \in AppType
<1>1. b \in AppType /\ b.entries = a.entries /\ b.dropped = a.dropped /\ ~b.progress.some
  BY RestartedFields
<1>2. b.epoch = a.epoch /\ b.active = a.active
  BY DEF Restarted, AppType
<1>3. SameLog(a, b)
  BY <1>1, <1>2 DEF SameLog, End
<1>4. ReadingInv(r, b)
  BY <1>1, <1>3, SameLogContext DEF ReadingInv, ListedInv
<1> QED
  BY <1>1, <1>2, <1>4 DEF Records

LEMMA ScheduledReads ==
  ASSUME NEW a \in AppType, NEW b, b = Scheduled(a), NEW r, ReadingInv(r, a), ~r.context.open
  PROVE  ReadingInv(r, b) /\ Records(r, b) = Records(r, a) /\ b \in AppType
<1> DEFINE c == [a EXCEPT !.dirty = FALSE, !.active = a.draft]
<1>1. /\ c \in AppType /\ c.entries = a.entries /\ c.dropped = a.dropped /\ c.epoch = a.epoch
      /\ c.progress = a.progress /\ c.matches = a.matches
  BY AppFields DEF AppType
<1>2. b = Restarted(c)
  BY DEF Scheduled
<1> HIDE DEF c
<1>3. ReadingInv(r, c) /\ Records(r, c) = Records(r, a)
  BY <1>1 DEF ReadingInv, ContextInv, ListedInv, Records
<1> QED
  BY <1>1, <1>2, <1>3, RestartedReads

LEMMA EditReads ==
  ASSUME PipelineInv, ReadingInv(reading, app), EditReading
  PROVE  Drops
<1> DEFINE q == Left(reading, app)
<1>1. reading' = q
  BY DEF EditReading
<1>2. ListInv(app) /\ app \in AppType
  BY DEF PipelineInv, ListInv
<1>3. /\ ReadingInv(q, app) /\ ~q.context.open
      /\ Records(q, app) \subseteq Records(reading, app) \cup Origin(reading)
  BY <1>2, LeftKeeps, LeftReads
<1> HIDE DEF q
<1>4. CASE QueueFilter
  <2>1. PICK filter \in Filters : app' = Drawn([app EXCEPT !.draft = filter, !.dirty = TRUE])
    BY <1>4 DEF QueueFilter
  <2> DEFINE a == [app EXCEPT !.draft = filter, !.dirty = TRUE]
             b == Drawn(a)
  <2>2. Edited(app, a)
    BY <1>2, QueuedEdits
  <2> HIDE DEF a
  <2>3. Edited(a, b)
    BY <2>2, DrawnEdits DEF Edited
  <2>4. app' = b
    BY <2>1 DEF a
  <2> HIDE DEF b
  <2>5. ReadingInv(q, a) /\ Records(q, a) = Records(q, app)
    BY <1>3, <2>2, EditedReading
  <2>6. ReadingInv(q, b) /\ Records(q, b) = Records(q, a)
    BY <2>3, <2>5, EditedReading
  <2> QED
    BY <1>1, <1>3, <2>4, <2>5, <2>6 DEF Drops
<1>5. CASE ScheduleFilter
  <2>1. PICK filter \in Filters : app' = Drawn(Scheduled([app EXCEPT !.draft = filter]))
    BY <1>5 DEF ScheduleFilter
  <2> DEFINE e == [app EXCEPT !.draft = filter]
             a == Scheduled(e)
             b == Drawn(a)
  <2>2. Edited(app, e)
    BY <1>2 DEF Edited, AppType
  <2>3. app' = b
    BY <2>1
  <2> HIDE DEF e
  <2>4. ReadingInv(q, e) /\ Records(q, e) = Records(q, app) /\ e \in AppType
    BY <1>3, <2>2, EditedReading DEF Edited
  <2>5. ReadingInv(q, a) /\ Records(q, a) = Records(q, e) /\ a \in AppType
    BY <1>3, <2>4, ScheduledReads
  <2> HIDE DEF a
  <2>6. Edited(a, b)
    BY <2>5, DrawnEdits
  <2> HIDE DEF b
  <2>7. ReadingInv(q, b) /\ Records(q, b) = Records(q, a)
    BY <2>5, <2>6, EditedReading
  <2> QED
    BY <1>1, <1>3, <2>3, <2>4, <2>5, <2>7 DEF Drops
<1>6. CASE Debounce
  <2>1. app' = Scheduled(app)
    BY <1>6 DEF Debounce
  <2>2. ReadingInv(q, app') /\ Records(q, app') = Records(q, app)
    BY <1>2, <1>3, <2>1, ScheduledReads
  <2> QED
    BY <1>1, <1>3, <2>2 DEF Drops
<1> QED
  BY <1>4, <1>5, <1>6 DEF EditReading

LEMMA ClearReads ==
  ASSUME PipelineInv, ReadingInv(reading, app), ClearReading
  PROVE  Drops
<1> DEFINE q == Closed(reading)
<1>1. reading' = q
  BY DEF ClearReading
<1>2. ReadingInv(q, app') /\ Chosen(q) = {}
  BY ClosedKeeps
<1> HIDE DEF q
<1> QED
  BY <1>1, <1>2 DEF Drops, Records

LEMMA BudgetReads ==
  ASSUME PipelineInv, ReadingInv(reading, app), BudgetReading
  PROVE  Drops
<1>1. PICK remove \in IF app.document THEN {0} ELSE 0 .. Len(app.entries) :
        LET a == Trimmed(app, remove)
            restarts == a.pending /\ ~a.progress.some
        IN app' = IF restarts THEN Restarted(a) ELSE a
  BY DEF BudgetReading, ApplyMemoryBudget
<1>2. reading' = Moved(reading, app'.dropped - app.dropped)
  BY DEF BudgetReading
<1>3. ListInv(app) /\ app \in AppType
  BY DEF PipelineInv, ListInv
<1>4. remove \in 0 .. Len(app.entries)
  BY <1>1, <1>3, AppFields
<1> DEFINE a == Trimmed(app, remove)
           q == Moved(reading, remove)
<1>5. a.dropped - app.dropped = remove /\ ReadingInv(q, a) /\ Records(q, a) \subseteq Records(reading, app)
  BY <1>3, <1>4, TrimReads
<1>6. a \in AppType
  BY <1>3, <1>4, TrimmedKeeps DEF ListInv
<1>7. app' = a \/ app' = Restarted(a)
  BY <1>1
<1> HIDE DEF a
<1>8. CASE app' = a
  BY <1>2, <1>5, <1>8 DEF Drops
<1>9. CASE app' = Restarted(a)
  <2>1. app'.dropped = a.dropped
    BY <1>6, <1>9, RestartedFields
  <2>2. reading' = q
    BY <1>2, <1>5, <2>1
  <2> HIDE DEF q
  <2>3. ReadingInv(q, app') /\ Records(q, app') = Records(q, a)
    BY <1>5, <1>6, <1>9, RestartedReads
  <2> QED
    BY <1>5, <2>2, <2>3 DEF Drops
<1> QED
  BY <1>7, <1>8, <1>9

LEMMA OtherReads ==
  ASSUME PipelineInv, ReadingInv(reading, app), DrawFirstFrame \/ WorkerStep, UNCHANGED readingVars
  PROVE  Drops
<1>1. app \in AppType
  BY DEF PipelineInv, ListInv
<1>2. CASE DrawFirstFrame
  <2>1. Edited(app, app')
    BY <1>1, <1>2, DrawnEdits DEF DrawFirstFrame
  <2> QED
    BY <2>1, EditedReading DEF Drops, readingVars
<1>3. CASE WorkerStep
  BY <1>3 DEF WorkerStep, Drops, readingVars
<1> QED
  BY <1>2, <1>3

-------------------------------------------------------------------------------
(* Reading: the user, and the theorems *)

LEMMA UserReads ==
  ASSUME PipelineInv, ReadingInv(reading, app), reads \in 0 .. MaxReads,
         SelectRow \/ SelectAllRows \/ Deselect \/ ShowContext \/ JumpToIncident \/ LeaveContext
  PROVE  /\ ReadingInv(reading', app') /\ app' = app
         /\ reads' # reads /\ reads' \in 0 .. MaxReads
<1>1. ListInv(app) /\ app \in AppType /\ reading \in ReadingType
  BY DEF PipelineInv, ListInv, ReadingInv
<1>2. ASSUME NEW r, Reads(r)
      PROVE  /\ reading' = r /\ app' = app
             /\ reads' # reads /\ reads' \in 0 .. MaxReads
  <2>1. reading' = r /\ app' = app /\ reads < MaxReads /\ reads' = reads + 1
    BY <1>2 DEF Reads, pipelineVars
  <2>2. MaxReads \in Nat /\ reads \in Nat
    BY ReadingAssumption
  <2> QED
    BY <2>1, <2>2
<1>3. Rows = RowsOf(reading, app)
  BY DEF Rows, RowsOf
<1>4. Rows \in Seq(Nat) /\ \A i \in Indices(Rows) : i \in Nat /\ i < Len(app.entries)
  BY <1>1, <1>3, RowsFacts
<1>5. reading.selection \in SelectionType /\ reading.selected \in Nat \cup {NoRow}
      /\ reading.selection.rows \subseteq Chosen(reading)
  BY <1>1, ReadingFields
<1>6. ASSUME NEW s \in SelectionType, NEW index \in Nat \cup {NoRow},
             s.rows \subseteq reading.selection.rows \cup Indices(Rows),
             s.anchor \in Indices(Rows) \cup {NoRow},
             index \in Chosen(reading) \cup Indices(Rows) \cup {NoRow},
             Reads([reading EXCEPT !.selection = s, !.selected = index])
      PROVE  ReadingInv(reading', app')
  <2> DEFINE q == [reading EXCEPT !.selection = s, !.selected = index]
  <2>1. q.selection = s /\ q.selected = index
    BY <1>1 DEF ReadingType
  <2>2. Chosen(q) \subseteq Chosen(reading) \cup Indices(RowsOf(reading, app))
    BY <1>3, <1>5, <1>6, <2>1 DEF Chosen
  <2>3. reading' = q /\ app' = app
    BY <1>2, <1>6
  <2> HIDE DEF q
  <2>4. q = [reading EXCEPT !.selection = s, !.selected = index]
    BY DEF q
  <2>5. ReadingInv(q, app)
    BY <1>1, <2>2, <2>4, SelectedKeeps
  <2> QED
    BY <2>3, <2>5
<1>7. CASE SelectRow
  <2>1. PICK index \in Indices(Rows), extend \in BOOLEAN, toggle \in BOOLEAN :
          LET s == Select(reading.selection, Rows, index, extend, toggle)
          IN /\ ~Refuses(reading.selection, Rows, index, extend)
             /\ Reads([reading EXCEPT !.selection = s,
                                      !.selected = IF index \in s.rows THEN index ELSE NoRow])
    BY <1>7 DEF SelectRow
  <2> DEFINE s == Select(reading.selection, Rows, index, extend, toggle)
             selected == IF index \in s.rows THEN index ELSE NoRow
  <2>2. ~Refuses(reading.selection, Rows, index, extend)
        /\ Reads([reading EXCEPT !.selection = s, !.selected = selected])
    BY <2>1
  <2>3. index \in Nat
    BY <1>4
  <2>4. /\ s \in SelectionType /\ s.rows \subseteq reading.selection.rows \cup Indices(Rows)
        /\ s.anchor \in Indices(Rows)
    BY <1>4, <1>5, <2>2, <2>3, SelectFacts
  <2>5. selected \in Nat \cup {NoRow} /\ selected \in Indices(Rows) \cup {NoRow}
    BY <2>3
  <2> HIDE DEF s, selected
  <2> QED
    BY <1>2, <1>6, <2>2, <2>4, <2>5
<1>8. CASE SelectAllRows
  <2> DEFINE s == SelectAll(reading.selection, Rows)
             kept == IF reading.selected \in s.rows THEN reading.selected ELSE NoRow
             selected == IF kept = NoRow THEN s.anchor ELSE kept
  <2>1. Reads([reading EXCEPT !.selection = s, !.selected = selected])
    BY <1>8 DEF SelectAllRows
  <2>2. /\ s.rows = Indices(Rows)
        /\ s.anchor = IF Rows = <<>> THEN NoRow ELSE Head(Rows)
        /\ s.revision = reading.selection.revision + 1
        /\ s = [rows |-> s.rows, anchor |-> s.anchor, revision |-> s.revision]
    BY DEF SelectAll
  <2>3. s.anchor \in Indices(Rows) \cup {NoRow}
    <3>1. Rows # <<>> => Head(Rows) \in Indices(Rows)
      <4>1. Rows # <<>> => Len(Rows) \in Nat /\ 1 \in 1 .. Len(Rows) /\ Head(Rows) = Rows[1]
        BY <1>4
      <4> QED
        BY <4>1 DEF Indices
    <3> QED
      BY <2>2, <3>1
  <2>4. s \in SelectionType
    <3>1. s.revision \in Nat
      BY <1>5, <2>2 DEF SelectionType
    <3>2. s.rows \in SUBSET Nat /\ s.anchor \in Nat \cup {NoRow}
      BY <1>4, <2>2, <2>3
    <3> HIDE DEF s
    <3> QED
      BY <2>2, <3>1, <3>2 DEF SelectionType
  <2>5. selected \in Indices(Rows) \cup {NoRow}
    BY <2>2, <2>3
  <2>6. selected \in Nat \cup {NoRow}
    BY <1>4, <2>5
  <2> HIDE DEF s, selected
  <2> QED
    BY <1>2, <1>6, <2>1, <2>2, <2>3, <2>4, <2>5, <2>6
<1>9. CASE Deselect
  <2>1. ~reading.context.open /\ Reads(Deselected(reading))
    BY <1>9 DEF Deselect
  <2>2. reading' = Deselected(reading) /\ app' = app
    BY <1>2, <2>1
  <2> QED
    BY <1>2, <2>1, <2>2, DeselectedKeeps
<1>10. CASE ShowContext
  <2>1. PICK index \in (Nat \cap {reading.selected}) \cup Indices(Rows) :
          Reads(Shown(reading, app, index))
    BY <1>10 DEF ShowContext
  <2>2. index \in Nat
    BY <1>4, <2>1
  <2>3. reading' = Shown(reading, app, index) /\ app' = app
    BY <1>2, <2>1
  <2> QED
    BY <1>1, <1>2, <2>1, <2>2, <2>3, ShownKeeps
<1>11. CASE JumpToIncident
  <2>1. PICK index \in 0 .. Len(app.entries) - 1 : Reads(Shown(Left(reading, app), app, index))
    BY <1>11 DEF JumpToIncident
  <2> DEFINE r == Left(reading, app)
  <2>2. index \in Nat
    BY <1>1, AppFields
  <2>3. reading' = Shown(r, app, index) /\ app' = app
    BY <1>2, <2>1
  <2>4. ReadingInv(r, app)
    BY <1>1, LeftKeeps
  <2> HIDE DEF r
  <2>5. ReadingInv(reading', app)
    BY <1>1, <2>2, <2>3, <2>4, ShownKeeps
  <2> QED
    BY <1>2, <2>1, <2>3, <2>5
<1>12. CASE LeaveContext
  <2>1. Reads(Left(reading, app))
    BY <1>12 DEF LeaveContext
  <2>2. reading' = Left(reading, app) /\ app' = app
    BY <1>2, <2>1
  <2> QED
    BY <1>1, <1>2, <2>1, <2>2, LeftKeeps
<1> QED
  BY <1>7, <1>8, <1>9, <1>10, <1>11, <1>12

ReadingAll == PipelineInv /\ ReadingInv(reading, app) /\ reads \in 0 .. MaxReads

LEMMA ReadingStarts == Init /\ ReadingInit => ReadingAll
<1> SUFFICES ASSUME Init, ReadingInit PROVE ReadingAll
  OBVIOUS
<1>1. PipelineInv
  BY PipelineInit
<1>2. reading = NewReading /\ reads = 0 /\ MaxReads \in Nat
  BY ReadingAssumption DEF ReadingInit
<1>3. /\ NewReading \in ReadingType /\ Chosen(NewReading) = {}
      /\ ~NewReading.context.open /\ NewReading.context.rows = <<>>
  BY DEF NewReading, NoSelection, NoContext, ReadingType, SelectionType, ContextType, Chosen
<1>4. ReadingInv(reading, app)
  BY <1>2, <1>3 DEF ReadingInv, ContextInv, ListedInv
<1> QED
  BY <1>1, <1>2, <1>4 DEF ReadingAll

\* One step: what is read stays right, and only a step of the user chooses.
ProgramReads ==
  \/ PollFilterReading \/ AppendReading \/ EditReading \/ ClearReading \/ BudgetReading
  \/ (DrawFirstFrame \/ WorkerStep) /\ UNCHANGED readingVars

OnlyDrops ==
  UNCHANGED reads => Records(reading', app') \subseteq Records(reading, app) \cup Origin(reading)

LEMMA ProgramSteps ==
  ASSUME ReadingAll, ProgramReads
  PROVE  ReadingAll' /\ OnlyDrops
<1>1. PipelineInv /\ ReadingInv(reading, app) /\ reads \in 0 .. MaxReads
  BY DEF ReadingAll
<1>2. PipelineInv'
  <2>1. ReadingNext
    BY DEF ProgramReads, ReadingNext
  <2> QED
    BY <1>1, <2>1, ReadingIsPipeline, PipelineStep
<1>3. Drops
  BY <1>1, PollReads, AppendReads, EditReads, ClearReads, BudgetReads, OtherReads DEF ProgramReads
<1>4. reads' = reads
  BY DEF ProgramReads, PollFilterReading, AppendReading, EditReading, ClearReading, BudgetReading,
         readingVars
<1> QED
  BY <1>1, <1>2, <1>3, <1>4 DEF Drops, OnlyDrops, ReadingAll

LEMMA UserSteps ==
  ASSUME ReadingAll, SelectRow \/ SelectAllRows \/ Deselect \/ ShowContext \/ JumpToIncident \/ LeaveContext
  PROVE  ReadingAll' /\ OnlyDrops
<1>1. PipelineInv'
  <2>1. ReadingNext
    BY DEF ReadingNext
  <2> QED
    BY <2>1, ReadingIsPipeline, PipelineStep DEF ReadingAll
<1> QED
  BY <1>1, UserReads DEF ReadingAll, OnlyDrops

LEMMA ReadingSteps ==
  ASSUME ReadingAll, [ReadingNext]_<<pipelineVars, readingVars>>
  PROVE  ReadingAll' /\ OnlyDrops
<1>1. CASE ReadingNext
  <2>1. \/ ProgramReads
        \/ SelectRow \/ SelectAllRows \/ Deselect \/ ShowContext \/ JumpToIncident \/ LeaveContext
    BY <1>1 DEF ReadingNext, ProgramReads
  <2> QED
    BY <2>1, ProgramSteps, UserSteps
<1>2. CASE UNCHANGED <<pipelineVars, readingVars>>
  <2>1. PipelineInv'
    BY <1>2, ReadingIsPipeline, PipelineStep DEF ReadingAll
  <2> QED
    BY <1>2, <2>1 DEF ReadingAll, OnlyDrops, Records, pipelineVars, readingVars
<1> QED
  BY <1>1, <1>2

LEMMA ReadingIsRight ==
  ReadingAll => ListIsExact /\ SelectionIsListed /\ ContextSurroundsItsOrigin
<1> SUFFICES ASSUME ReadingAll PROVE ListIsExact /\ SelectionIsListed /\ ContextSurroundsItsOrigin
  OBVIOUS
<1>1. /\ ListInv(app) /\ app \in AppType /\ ReadingInv(reading, app) /\ reading \in ReadingType
  BY DEF ReadingAll, PipelineInv, ListInv, ReadingInv
<1>2. /\ app.dropped \in Nat /\ Len(app.entries) \in Nat
      /\ End(app) = app.dropped + Len(app.entries)
  BY <1>1, AppFields
<1>3. ASSUME reading.context.open
      PROVE  \E first, last \in Nat :
               /\ reading.context.absolute <= first + Around /\ first <= reading.context.absolute
               /\ reading.context.absolute <= last /\ last <= reading.context.absolute + Around
               /\ last < End(app)
               /\ Indices(reading.context.rows) = Neighbours(app, first, last)
  BY <1>1, <1>3, ListedIndices DEF ReadingInv, ContextInv
<1>4. \A i \in Indices(reading.context.rows) : i < Len(app.entries)
  <2>1. CASE reading.context.open
    <3>1. PICK first \in Nat, last \in Nat :
            last < End(app) /\ Indices(reading.context.rows) = Neighbours(app, first, last)
      BY <1>3, <2>1
    <3> QED
      BY <1>2, <3>1 DEF Neighbours
  <2>2. CASE ~reading.context.open
    <3>1. reading.context.rows = <<>>
      BY <1>1, <2>2 DEF ReadingInv, ContextInv
    <3> QED
      BY <3>1 DEF Indices
  <2> QED
    BY <2>1, <2>2
<1>5. SelectionIsListed
  BY <1>1, <1>4 DEF SelectionIsListed, ReadingInv, ListedInv
<1>6. ContextSurroundsItsOrigin
  <2> DEFINE origin == Resolved(reading.context, app)
             rows == Indices(reading.context.rows)
             absolute == reading.context.absolute
  <2> SUFFICES ASSUME reading.context.open, origin # NoRow
               PROVE  /\ origin \in rows
                      /\ \A i \in rows : origin - Around <= i /\ i <= origin + Around
                      /\ \A i, j \in rows : i .. j \subseteq rows
    BY DEF ContextSurroundsItsOrigin
  <2>1. PICK first \in Nat, last \in Nat :
          /\ absolute <= first + Around /\ first <= absolute
          /\ absolute <= last /\ last <= absolute + Around
          /\ rows = Neighbours(app, first, last)
    BY <1>3
  <2>2. absolute \in Nat /\ Around \in Nat
    BY <1>1, ReadingFields, ReadingAssumption
  <2>3. origin = absolute - app.dropped /\ origin \in 0 .. Len(app.entries) - 1
    BY DEF Resolved
  <2> HIDE DEF origin, rows, absolute
  <2>4. origin \in Nat /\ app.dropped + origin = absolute
    BY <1>2, <2>2, <2>3
  <2>5. \A i : i \in rows <=> i \in Nat /\ first <= app.dropped + i /\ app.dropped + i <= last
    BY <2>1 DEF Neighbours
  <2>6. origin \in rows
    BY <2>1, <2>4, <2>5
  <2>7. ASSUME NEW i \in rows
        PROVE  origin - Around <= i /\ i <= origin + Around
    <3>1. i \in Nat /\ first <= app.dropped + i /\ app.dropped + i <= last
      BY <2>5
    <3>2. absolute <= first + Around /\ last <= absolute + Around
      BY <2>1
    <3> QED
      BY <1>2, <2>2, <2>4, <3>1, <3>2
  <2>8. ASSUME NEW i \in rows, NEW j \in rows, NEW k \in i .. j
        PROVE  k \in rows
    <3>1. i \in Nat /\ j \in Nat /\ first <= app.dropped + i /\ app.dropped + j <= last
      BY <2>5
    <3>2. k \in Nat /\ i <= k /\ k <= j
      BY <3>1
    <3>3. first <= app.dropped + k /\ app.dropped + k <= last
      BY <1>2, <3>1, <3>2
    <3> QED
      BY <2>5, <3>2, <3>3
  <2> QED
    BY <2>6, <2>7, <2>8
<1>7. ListIsExact
  BY ListIsRight DEF ReadingAll
<1> QED
  BY <1>5, <1>6, <1>7

\* What holds of the list holds while it is read.
THEOREM ReadingKeepsTheList == ReadingSpec => [](TypeOK /\ ListIsExact)
<1>1. ReadingAll => TypeOK /\ ListIsExact
  BY ListIsRight DEF ReadingAll
<1>2. ReadingAll /\ [ReadingNext]_<<pipelineVars, readingVars>> => ReadingAll'
  BY ReadingSteps
<1> QED
  BY <1>1, <1>2, ReadingStarts, PTL DEF ReadingSpec

\* Selection, anchor, details and context only ever refer to retained rows, and
\* what is selected of the classified ones is in the list - for any filters, any
\* number of rows and any neighbourhood a context shows.
THEOREM SelectionStaysListed == ReadingSpec => []SelectionIsListed
<1>1. ReadingAll => SelectionIsListed
  BY ReadingIsRight
<1>2. ReadingAll /\ [ReadingNext]_<<pipelineVars, readingVars>> => ReadingAll'
  BY ReadingSteps
<1> QED
  BY <1>1, <1>2, ReadingStarts, PTL DEF ReadingSpec

\* A context shows its origin and neighbours of it without a gap, as long as the
\* origin is retained, for any neighbourhood.
THEOREM ContextStaysAround == ReadingSpec => []ContextSurroundsItsOrigin
<1>1. ReadingAll => ContextSurroundsItsOrigin
  BY ReadingIsRight
<1>2. ReadingAll /\ [ReadingNext]_<<pipelineVars, readingVars>> => ReadingAll'
  BY ReadingSteps
<1> QED
  BY <1>1, <1>2, ReadingStarts, PTL DEF ReadingSpec

\* A step of the program keeps the selected records or drops them; it never
\* moves the selection to a record the user did not choose.
THEOREM NothingElseSelects == ReadingSpec => OnlyTheUserSelects
<1>1. ReadingAll /\ [ReadingNext]_<<pipelineVars, readingVars>> => ReadingAll'
  BY ReadingSteps
<1>2. ReadingAll /\ [ReadingNext]_<<pipelineVars, readingVars>> =>
        [UNCHANGED reads =>
           Records(reading', app') \subseteq Records(reading, app) \cup Origin(reading)]_<<app, reading>>
  BY ReadingSteps DEF OnlyDrops
<1> QED
  BY <1>1, <1>2, ReadingStarts, PTL DEF ReadingSpec, OnlyTheUserSelects

-------------------------------------------------------------------------------
(* Copying: what the revision of the selection tells                       *)

\* With the same revision a selection has the same rows.
Succeeds(s, t) ==
  /\ t.revision \in Nat /\ s.revision <= t.revision
  /\ t.revision = s.revision => t.rows = s.rows

\* And if any row is selected, the context is still open, or still closed.
Follows(r, q) ==
  /\ Succeeds(r.selection, q.selection)
  /\ q.selection.revision = r.selection.revision /\ r.selection.rows # {} =>
       q.context.open = r.context.open

LEMMA SelectionSucceeds ==
  ASSUME NEW s, s.revision \in Nat
  PROVE  /\ Succeeds(s, s)
         /\ Succeeds(s, ClearSelection(s))
         /\ s.rows # {} => ClearSelection(s).revision = s.revision + 1
         /\ \A n : n # 0 => Succeeds(s, Rebase(s, n))
         /\ \A list, range : Succeeds(s, RetainClassified(s, list, range))
         /\ \A list : Succeeds(s, SelectAll(s, list))
         /\ \A list, index, extend, toggle : Succeeds(s, Select(s, list, index, extend, toggle))
         /\ \A list, index :
              Click(s, list, index).revision
                = IF index \in Indices(list) THEN s.revision + 1 ELSE s.revision
<1>1. s.revision + 1 \in Nat /\ s.revision < s.revision + 1 /\ s.revision + 1 # s.revision
      /\ s.revision + 1 + 1 \in Nat /\ s.revision < s.revision + 1 + 1
      /\ s.revision + 1 + 1 # s.revision
  OBVIOUS
<1>2. Succeeds(s, s)
  BY DEF Succeeds
<1>3. ASSUME NEW t, t.revision = s.revision + 1 PROVE Succeeds(s, t)
  BY <1>1, <1>3 DEF Succeeds
<1>4. Succeeds(s, ClearSelection(s)) /\ (s.rows # {} => ClearSelection(s).revision = s.revision + 1)
  BY <1>2, <1>3 DEF ClearSelection
<1>5. ASSUME NEW n, n # 0 PROVE Succeeds(s, Rebase(s, n))
  <2>1. CASE s.rows # {} \/ s.anchor # NoRow
    BY <1>3, <1>5, <2>1 DEF Rebase
  <2>2. CASE s.rows = {} /\ s.anchor = NoRow
    <3>1. Rebase(s, n).revision = s.revision /\ Rebase(s, n).rows = {}
      BY <2>2 DEF Rebase
    <3> QED
      BY <2>2, <3>1 DEF Succeeds
  <2> QED
    BY <2>1, <2>2
<1>6. ASSUME NEW list, NEW range PROVE Succeeds(s, RetainClassified(s, list, range))
  <2> DEFINE gone == range \ Indices(list)
             excluded == s.rows \cap gone
             t == RetainClassified(s, list, range)
  <2>1. /\ t.rows = s.rows \ excluded
        /\ t.revision = IF s.anchor \in gone
                        THEN (IF excluded = {} THEN s.revision ELSE s.revision + 1) + 1
                        ELSE (IF excluded = {} THEN s.revision ELSE s.revision + 1)
    BY DEF RetainClassified
  <2>2. excluded = {} => t.rows = s.rows
    BY <2>1
  <2> HIDE DEF t, gone, excluded
  <2>3. Succeeds(s, t)
    BY <1>1, <2>1, <2>2 DEF Succeeds
  <2> QED
    BY <2>3 DEF t
<1>7. ASSUME NEW list PROVE Succeeds(s, SelectAll(s, list))
  BY <1>3 DEF SelectAll
<1>8. ASSUME NEW list, NEW index, NEW extend, NEW toggle
      PROVE  Succeeds(s, Select(s, list, index, extend, toggle))
  BY <1>2, <1>3 DEF Select, Extended, Clicked
<1>9. ASSUME NEW list, NEW index
      PROVE  Click(s, list, index).revision
               = IF index \in Indices(list) THEN s.revision + 1 ELSE s.revision
  BY DEF Click, Select, Refuses, Clicked
<1> QED
  BY <1>2, <1>4, <1>5, <1>6, <1>7, <1>8, <1>9

LEMMA FollowsOn ==
  ASSUME NEW r, NEW p, NEW q, r.selection.revision \in Nat, Follows(r, p), Follows(p, q)
  PROVE  Follows(r, q)
<1> DEFINE a == r.selection.revision
           b == p.selection.revision
           c == q.selection.revision
<1>1. a \in Nat /\ b \in Nat /\ c \in Nat /\ a <= b /\ b <= c
  BY DEF Follows, Succeeds
<1>2. c = a => b = a /\ c = b
  <2> HIDE DEF a, b, c
  <2> QED
    BY <1>1
<1>3. a <= c
  <2> HIDE DEF a, b, c
  <2> QED
    BY <1>1
<1> QED
  BY <1>1, <1>2, <1>3 DEF Follows, Succeeds

\* What the methods of LogReading do.
LEMMA ReadingFollows ==
  ASSUME NEW r \in ReadingType
  PROVE  /\ Follows(r, r) /\ Follows(r, Deselected(r)) /\ Follows(r, Closed(r))
         /\ \A a, range : Follows(r, Pruned(r, a, range))
         /\ \A n : Follows(r, Moved(r, n))
         /\ \A a : Follows(r, Left(r, a))
<1>1. r.selection.revision \in Nat
  BY ReadingFields
<1>2. Follows(r, r)
  BY <1>1, SelectionSucceeds DEF Follows
<1> DEFINE s == ClearSelection(r.selection)
<1>3. Succeeds(r.selection, s) /\ (r.selection.rows # {} => s.revision = r.selection.revision + 1)
  BY <1>1, SelectionSucceeds
<1> HIDE DEF s
<1>4. Deselected(r).selection = s /\ Deselected(r).context = r.context
  BY DEF Deselected, ReadingType, s
<1>5. Closed(r).selection = s
  <2> DEFINE d == Deselected(r)
  <2>1. d = [r EXCEPT !.selection = s, !.selected = NoRow]
    BY DEF Deselected, s
  <2> HIDE DEF d
  <2>2. d.selection = s /\ "selection" \in DOMAIN d
    BY <2>1 DEF ReadingType
  <2>3. Closed(r) = [d EXCEPT !.context = NoContext]
    BY DEF Closed, d
  <2> QED
    BY <2>2, <2>3
<1>6. ASSUME NEW q, q.selection = s PROVE Follows(r, q)
  BY <1>1, <1>3, <1>6 DEF Follows
<1>7. ASSUME NEW a, NEW range PROVE Follows(r, Pruned(r, a, range))
  <2>1. CASE r.context.open
    BY <1>2, <2>1 DEF Pruned
  <2>2. CASE ~r.context.open
    <3> DEFINE t == RetainClassified(r.selection, a.matches, range)
               q == Pruned(r, a, range)
    <3>1. Succeeds(r.selection, t)
      BY <1>1, SelectionSucceeds
    <3>2. q = [r EXCEPT !.selection = t,
                        !.selected = IF @ \in range \ Indices(a.matches) THEN NoRow ELSE @]
      BY <2>2 DEF Pruned
    <3> HIDE DEF t, q
    <3>3. q.selection = t /\ q.context = r.context
      BY <3>2 DEF ReadingType
    <3>4. Follows(r, q)
      BY <3>1, <3>3 DEF Follows
    <3> QED
      BY <3>4 DEF q
  <2> QED
    BY <2>1, <2>2
<1>8. ASSUME NEW n PROVE Follows(r, Moved(r, n))
  <2>1. CASE n = 0
    BY <1>2, <2>1 DEF Moved
  <2>2. CASE n # 0
    <3>1. Moved(r, n).selection = Rebase(r.selection, n)
      BY <2>2 DEF Moved
    <3>2. Moved(r, n).context.open = r.context.open
      <4> DEFINE rows == [k \in DOMAIN InOrder({k \in DOMAIN r.context.rows : r.context.rows[k] >= n}) |->
                            r.context.rows[InOrder({j \in DOMAIN r.context.rows : r.context.rows[j] >= n})[k]] - n]
      <4>1. Moved(r, n).context = [r.context EXCEPT !.rows = rows]
        BY <2>2 DEF Moved
      <4> HIDE DEF rows
      <4> QED
        BY <4>1 DEF ReadingType, ContextType
    <3>3. Succeeds(r.selection, Rebase(r.selection, n))
      BY <1>1, <2>2, SelectionSucceeds
    <3> QED
      BY <3>1, <3>2, <3>3 DEF Follows
  <2> QED
    BY <2>1, <2>2
<1>9. ASSUME NEW a PROVE Follows(r, Left(r, a))
  <2>1. CASE ~r.context.open
    BY <1>2, <2>1 DEF Left
  <2>2. CASE r.context.open
    <3> DEFINE origin == Resolved(r.context, a)
               index == IF origin \in Indices(a.matches) THEN origin ELSE NoRow
               t == Click(s, a.matches, index)
    <3>1. Left(r, a).selection = t
      BY <2>2 DEF Left, s, Click
    <3>2. Succeeds(s, t)
      <4>1. s.revision \in Nat
        BY <1>3 DEF Succeeds
      <4> QED
        BY <4>1, SelectionSucceeds DEF Click
    <3> HIDE DEF t
    <3>3. /\ r.selection.revision <= t.revision /\ t.revision \in Nat
          /\ r.selection.rows # {} => r.selection.revision < t.revision
      BY <1>1, <1>3, <3>2 DEF Succeeds
    <3>4. t.revision = r.selection.revision => t.rows = r.selection.rows
      <4>1. t.revision = r.selection.revision => s.revision = t.revision /\ s.revision = r.selection.revision
        BY <1>1, <1>3, <3>2 DEF Succeeds
      <4> QED
        BY <1>3, <3>2, <4>1 DEF Succeeds
    <3> QED
      BY <1>1, <3>1, <3>3, <3>4 DEF Follows, Succeeds
  <2> QED
    BY <2>1, <2>2
<1> QED
  BY <1>2, <1>4, <1>5, <1>6, <1>7, <1>8, <1>9

LEMMA ShownFollows ==
  ASSUME NEW r \in ReadingType, NEW a \in AppType, NEW index \in Nat
  PROVE  Follows(r, Shown(r, a, index))
<1>1. r.selection.revision \in Nat
  BY ReadingFields
<1>2. CASE r.context.open \/ a.pending \/ a.dirty \/ index >= Len(a.entries)
  BY <1>2, ReadingFollows DEF Shown
<1>3. CASE ~(r.context.open \/ a.pending \/ a.dirty \/ index >= Len(a.entries))
  <2> DEFINE l == Len(a.entries)
             first == IF index < Around THEN 0 ELSE index - Around
             last == Smaller(index + Around, l - 1)
             rows == [k \in 1 .. last - first + 1 |-> first + k - 1]
             s == Click(r.selection, rows, index)
  <2>1. Shown(r, a, index).selection = s
    BY <1>3 DEF Shown, Click
  <2>2. l \in Nat /\ Around \in Nat
    BY AppFields, ReadingAssumption
  <2>3. ~(index >= l)
    BY <1>3
  <2> HIDE DEF l
  <2>4. first \in Nat /\ last \in Nat /\ first <= index /\ index <= last
    BY <2>2, <2>3 DEF Smaller
  <2> HIDE DEF first, last
  <2>5. index \in Indices(rows)
    <3> DEFINE n == last - first + 1
               k == index - first + 1
    <3>1. n \in Nat /\ k \in 1 .. n /\ first + k - 1 = index
      BY <2>4
    <3>2. rows \in [1 .. n -> Int]
      BY <2>4
    <3>3. rows \in Seq(Int) /\ Len(rows) = n /\ rows[k] = first + k - 1
      <4>1. rows[k] = first + k - 1
        BY <3>1
      <4> HIDE DEF rows, n, k
      <4> QED
        BY <3>1, <3>2, <4>1
    <3> HIDE DEF rows, n, k
    <3> QED
      BY <3>1, <3>3 DEF Indices
  <2>6. s.revision = r.selection.revision + 1
    BY <1>1, <2>5, SelectionSucceeds
  <2> HIDE DEF s
  <2> QED
    BY <1>1, <2>1, <2>6 DEF Follows, Succeeds
<1> QED
  BY <1>2, <1>3

LEMMA PollFollows ==
  ASSUME PipelineInv, ReadingInv(reading, app), PollFilterReading
  PROVE  Follows(reading, reading')
<1> DEFINE a == Taken(Highlighted, app, completed.highlight)
           b == Taken(Accepted, a, completed.filter)
           r == IF completed.filter = {} THEN reading
                ELSE AcceptedReading(reading, a, b, CHOOSE result \in completed.filter : TRUE)
<1>1. reading' = CaughtUpReading(r, b, app')
  <2> HIDE DEF a, b
  <2>1. PollFilterReading
    OBVIOUS
  <2> QED
    BY <2>1 DEF PollFilterReading, a, b
<1>2. ListInv(a) /\ ReadingInv(reading, a) /\ Later(app, a) /\ app \in AppType
  BY HighlightReads, TakenHighlight, ZenonT(40) DEF PipelineInv, SlotsInv, ListInv
<1>3. \A result \in completed.filter : Answer(result, a)
  BY <1>2, AnswerStays DEF PipelineInv, SlotsInv, ListInv
<1> HIDE DEF a
<1>4. ReadingInv(r, b)
  BY <1>2, <1>3, AcceptedReads
<1>5. r \in ReadingType /\ reading \in ReadingType /\ reading.selection.revision \in Nat
  BY <1>4, ReadingFields DEF ReadingInv
<1>6. Follows(reading, r)
  BY <1>5, ReadingFollows DEF AcceptedReading
<1> HIDE DEF b, r
<1>7. Follows(r, reading')
  BY <1>1, <1>5, ReadingFollows DEF CaughtUpReading
<1> QED
  BY <1>5, <1>6, <1>7, FollowsOn

LEMMA StepFollows ==
  ASSUME ReadingAll, [ReadingNext]_<<pipelineVars, readingVars>>
  PROVE  Follows(reading, reading')
<1>1. /\ PipelineInv /\ ReadingInv(reading, app) /\ ListInv(app)
      /\ reading \in ReadingType /\ app \in AppType /\ reading.selection.revision \in Nat
  BY ReadingFields DEF ReadingAll, PipelineInv, ListInv, ReadingInv
<1>2. CASE PollFilterReading
  BY <1>1, <1>2, PollFollows
<1>3. CASE AppendReading \/ BudgetReading
  <2>1. reading' = Moved(reading, app'.dropped - app.dropped)
    BY <1>3 DEF AppendReading, BudgetReading
  <2> QED
    BY <1>1, <2>1, ReadingFollows
<1>4. CASE EditReading \/ LeaveContext
  <2>1. reading' = Left(reading, app)
    BY <1>4 DEF EditReading, LeaveContext, Reads
  <2> QED
    BY <1>1, <2>1, ReadingFollows
<1>5. CASE ClearReading \/ Deselect
  <2>1. reading' = Closed(reading) \/ reading' = Deselected(reading)
    BY <1>5 DEF ClearReading, Deselect, Reads
  <2> QED
    BY <1>1, <2>1, ReadingFollows
<1>6. CASE UNCHANGED reading
  BY <1>1, <1>6, ReadingFollows
<1>7. ASSUME NEW s, NEW index, Succeeds(reading.selection, s),
             reading' = [reading EXCEPT !.selection = s, !.selected = index]
      PROVE  Follows(reading, reading')
  <2>1. reading'.selection = s /\ reading'.context = reading.context
    BY <1>1, <1>7 DEF ReadingType
  <2> QED
    BY <1>7, <2>1 DEF Follows
<1>8. CASE SelectRow
  <2>1. PICK index \in Indices(Rows), extend \in BOOLEAN, toggle \in BOOLEAN :
          LET s == Select(reading.selection, Rows, index, extend, toggle)
          IN reading' = [reading EXCEPT !.selection = s,
                                        !.selected = IF index \in s.rows THEN index ELSE NoRow]
    BY <1>8 DEF SelectRow, Reads
  <2> DEFINE s == Select(reading.selection, Rows, index, extend, toggle)
             selected == IF index \in s.rows THEN index ELSE NoRow
  <2>2. Succeeds(reading.selection, s)
    BY <1>1, SelectionSucceeds
  <2>3. reading' = [reading EXCEPT !.selection = s, !.selected = selected]
    BY <2>1
  <2> HIDE DEF s, selected
  <2> QED
    BY <1>7, <2>2, <2>3
<1>9. CASE SelectAllRows
  <2> DEFINE s == SelectAll(reading.selection, Rows)
             kept == IF reading.selected \in s.rows THEN reading.selected ELSE NoRow
             selected == IF kept = NoRow THEN s.anchor ELSE kept
  <2>1. Succeeds(reading.selection, s)
    BY <1>1, SelectionSucceeds
  <2>2. reading' = [reading EXCEPT !.selection = s, !.selected = selected]
    BY <1>9 DEF SelectAllRows, Reads
  <2> HIDE DEF s, selected
  <2> QED
    BY <1>7, <2>1, <2>2
<1>10. CASE ShowContext
  <2>1. PICK index \in (Nat \cap {reading.selected}) \cup Indices(Rows) :
          reading' = Shown(reading, app, index)
    BY <1>10 DEF ShowContext, Reads
  <2>2. index \in Nat
    BY <1>1, <2>1, RowsFacts DEF Rows, RowsOf
  <2> QED
    BY <1>1, <2>1, <2>2, ShownFollows
<1>11. CASE JumpToIncident
  <2>1. PICK index \in 0 .. Len(app.entries) - 1 : reading' = Shown(Left(reading, app), app, index)
    BY <1>11 DEF JumpToIncident, Reads
  <2> DEFINE r == Left(reading, app)
  <2>2. index \in Nat
    BY <1>1, AppFields
  <2>3. r \in ReadingType /\ Follows(reading, r)
    BY <1>1, LeftKeeps, ReadingFollows DEF ReadingInv
  <2>4. reading' = Shown(r, app, index)
    BY <2>1
  <2> HIDE DEF r
  <2>5. Follows(r, reading')
    BY <1>1, <2>2, <2>3, <2>4, ShownFollows
  <2> QED
    BY <1>1, <2>3, <2>5, FollowsOn
<1> QED
  BY <1>2, <1>3, <1>4, <1>5, <1>6, <1>8, <1>9, <1>10, <1>11 DEF ReadingNext, readingVars

-------------------------------------------------------------------------------
(* Copying: a snapshot is answered once, so that rows only get classified  *)

InMail(m, g) == \E request \in m.request : request.body.generation = g
InWork(w, g) ==
  \/ w.stage \in {"taken", "compiled"} /\ w.kind = "filter" /\ w.body.generation = g
  \/ w.stage = "ready" /\ w.kind = "filter" /\ w.result.generation = g
InSlot(c, g) == \E r \in c.filter : r.generation = g

\* Whatever is on its way for the filter in force is in one place, and nothing
\* is once its rows are being classified.
Once(a, m, w, c) ==
  /\ InSlot(c, a.generation) => ~InWork(w, a.generation) /\ ~InMail(m, a.generation)
  /\ InWork(w, a.generation) => ~InMail(m, a.generation)
  /\ a.progress.some =>
       ~InSlot(c, a.generation) /\ ~InWork(w, a.generation) /\ ~InMail(m, a.generation)

OnceInv == Once(app, mailbox, work, completed)

\* Rows that were classified for a filter stay classified while it is in force.
Advances(a, b) ==
  b.generation = a.generation /\ a.progress.some =>
    b.progress.some /\ a.progress.next_absolute <= b.progress.next_absolute

\* What a handler does to the filter in force and to the mail: nothing, or it
\* starts another filter.
Orderly(a, m, b, n) ==
  \/ b.generation = a.generation /\ n.request \subseteq m.request
     /\ (b.progress.some => a.progress.some) /\ Advances(a, b)
  \/ b.generation # a.generation /\ a.generation < b.generation
     /\ (n.request = {} \/ ~b.progress.some)

LEMMA NothingOfLater ==
  ASSUME PipelineInv, NEW g \in Nat, app.generation < g
  PROVE  ~InWork(work, g) /\ ~InSlot(completed, g)
<1>1. app.generation \in Nat
  BY AppFields DEF PipelineInv, ListInv
<1>2. \A r : Answer(r, app) => r.generation # g
  <2> SUFFICES ASSUME NEW q \in RequestType, Snapshot(q, app)
               PROVE  FilterResult(q, Compiled(q.spec.query)).generation # g
    BY DEF Answer
  <2>1. q.generation \in Nat /\ q.generation <= app.generation
    BY DEF Snapshot, RequestType
  <2>2. FilterResult(q, Compiled(q.spec.query)).generation = q.generation
    BY DEF FilterResult
  <2>3. q.generation # g
    BY <1>1, <2>1
  <2> QED
    BY <2>2, <2>3
<1>3. ~InSlot(completed, g)
  BY <1>2 DEF PipelineInv, SlotsInv, InSlot
<1>4. ASSUME work.stage \in {"taken", "compiled"}, work.kind = "filter"
      PROVE  work.body.generation # g
  <2>1. Snapshot(work.body, app)
    BY <1>4 DEF PipelineInv, WorkInv, Idle, Working
  <2>2. work.body.generation \in Nat /\ work.body.generation <= app.generation
    BY <2>1 DEF Snapshot, RequestType
  <2> HIDE <1>4
  <2> QED
    BY <1>1, <2>2
<1>5. ASSUME work.stage = "ready", work.kind = "filter"
      PROVE  work.result.generation # g
  <2>1. Answer(work.result, app)
    BY <1>5 DEF PipelineInv, WorkInv, Idle, Working
  <2> QED
    BY <1>2, <2>1
<1> QED
  BY <1>3, <1>4, <1>5 DEF InWork

LEMMA OrderlyOnce ==
  ASSUME PipelineInv, OnceInv, NEW b \in AppType, NEW n, Orderly(app, mailbox, b, n)
  PROVE  Once(b, n, work, completed) /\ Advances(app, b)
<1>1. CASE b.generation = app.generation /\ n.request \subseteq mailbox.request
           /\ (b.progress.some => app.progress.some) /\ Advances(app, b)
  BY <1>1 DEF OnceInv, Once, InMail
<1>2. CASE b.generation # app.generation /\ app.generation < b.generation
           /\ (n.request = {} \/ ~b.progress.some)
  <2>1. ~InWork(work, b.generation) /\ ~InSlot(completed, b.generation)
    BY <1>2, NothingOfLater, AppFields
  <2> QED
    BY <1>2, <2>1 DEF Once, InMail, Advances
<1> QED
  BY <1>1, <1>2 DEF Orderly

\* The mailbox of the filter thread.
LEMMA MailFields ==
  ASSUME NEW m \in MailType
  PROVE  /\ Cancel(m).request = {}
         /\ \A a : MailAfterDrawing(a, m).request = m.request
<1>1. Cancel(m).request = {}
  BY DEF MailType, Cancel
<1>2. ASSUME NEW a PROVE MailAfterDrawing(a, m).request = m.request
  BY DEF MailType, MailAfterDrawing, SendHighlight
<1> QED
  BY <1>1, <1>2

LEMMA TrimAdvances ==
  ASSUME NEW a, ListInv(a), NEW remove \in 0 .. Len(a.entries), NEW b, b = Trimmed(a, remove)
  PROVE  /\ b \in AppType /\ b.generation = a.generation /\ b.progress.some = a.progress.some
         /\ Advances(a, b)
<1>1. a \in AppType /\ Len(a.entries) \in Nat /\ a.progress.next_absolute \in Nat
  BY AppFields DEF ListInv
<1>2. CASE remove = 0
  BY <1>1, <1>2 DEF Trimmed, Advances
<1>3. CASE remove # 0
  <2>1. TrimmedTo(a, remove, b)
    BY <1>1, <1>3, TrimmedFields
  <2>2. b \in AppType /\ b.dropped \in Nat
    BY <2>1, AppFields DEF TrimmedTo
  <2>3. a.progress.some => b.progress.next_absolute = Larger(a.progress.next_absolute, b.dropped)
    BY <2>1 DEF TrimmedTo
  <2>4. a.progress.some => a.progress.next_absolute <= b.progress.next_absolute
    <3> DEFINE m == a.progress.next_absolute
               n == b.progress.next_absolute
               d == b.dropped
    <3>1. m \in Nat /\ d \in Nat /\ (a.progress.some => n = Larger(m, d))
      BY <1>1, <2>2, <2>3
    <3> HIDE DEF m, n, d
    <3>2. a.progress.some => m <= n
      BY <3>1 DEF Larger
    <3> QED
      BY <3>2 DEF m, n
  <2> QED
    BY <2>1, <2>4 DEF TrimmedTo, Advances
<1> QED
  BY <1>2, <1>3

LEMMA EditedAdvances ==
  ASSUME NEW a \in AppType, NEW b, Edited(a, b)
  PROVE  /\ b.generation = a.generation /\ b.progress.some = a.progress.some
         /\ Advances(a, b)
<1>1. a.progress.next_absolute \in Nat
  BY AppFields
<1> QED
  BY <1>1 DEF Edited, Advances

LEMMA ScheduledRestarts ==
  ASSUME NEW a \in AppType, NEW b, b = Scheduled(a)
  PROVE  b \in AppType /\ b.generation = a.generation + 1 /\ ~b.progress.some
<1> DEFINE c == [a EXCEPT !.dirty = FALSE, !.active = a.draft]
<1>1. c \in AppType /\ c.generation = a.generation
  BY AppFields DEF AppType
<1>2. b = Restarted(c)
  BY DEF Scheduled
<1> HIDE DEF c
<1>3. b \in AppType /\ b.generation = c.generation + 1 /\ ~b.progress.some
  BY <1>1, <1>2, RestartedFields
<1> QED
  BY <1>1, <1>3

LEMMA UiOrderly ==
  ASSUME PipelineInv,
         AppendReceivedEntry \/ Debounce \/ DrawFirstFrame \/ QueueFilter \/ ScheduleFilter
           \/ ClearLogs \/ InstallCandidate \/ ApplyMemoryBudget
  PROVE  Orderly(app, mailbox, app', mailbox')
<1>1. ListInv(app) /\ app \in AppType /\ app.generation \in Nat /\ mailbox \in MailType
  BY AppFields DEF PipelineInv, ListInv, MailInv
<1>2. \A n \in Nat : n < n + 1 /\ n + 1 # n /\ n < n + 1 + 1 /\ n + 1 + 1 # n
  OBVIOUS
<1>3. ASSUME app'.generation = app.generation + 1, mailbox'.request = {} \/ ~app'.progress.some
      PROVE  Orderly(app, mailbox, app', mailbox')
  BY <1>1, <1>2, <1>3 DEF Orderly
<1>4. ASSUME app'.generation = app.generation + 1 + 1, ~app'.progress.some
      PROVE  Orderly(app, mailbox, app', mailbox')
  BY <1>1, <1>2, <1>4 DEF Orderly
<1>5. CASE AppendReceivedEntry
  <2>1. PICK row \in Kinds :
          LET a == Appended(app, row)
              len == Len(a.entries)
          IN \E remove \in IF len > MaxRetained THEN 1 .. len ELSE {0} : app' = Trimmed(a, remove)
    BY <1>5 DEF AppendReceivedEntry
  <2> DEFINE a == Appended(app, row)
             len == Len(a.entries)
  <2>2. PICK remove \in IF len > MaxRetained THEN 1 .. len ELSE {0} : app' = Trimmed(a, remove)
    BY <2>1
  <2>3. ListInv(a) /\ AppendedTo(app, row, a)
    BY <1>1, AppendedKeeps, AppendedFields
  <2>4. len \in Nat
    BY <2>3, AppFields DEF ListInv
  <2>5. remove \in 0 .. len
    BY <2>2, <2>4
  <2>6. a.generation = app.generation /\ a.progress.some = app.progress.some /\ Advances(app, a)
    <3>1. /\ app.progress.next_absolute \in Nat /\ End(app) \in Nat
          /\ app.progress \in ProgressType /\ app.dropped \in Nat
      BY <1>1, AppFields DEF AppType, ProgressType
    <3>2. a.progress = IF ~app.pending /\ app.progress.some
                       THEN [app.progress EXCEPT !.next_absolute = End(a)] ELSE app.progress
      BY <2>3 DEF AppendedTo
    <3>3. End(a) = End(app) + 1
      BY <2>3 DEF AppendedTo
    <3>4. app.progress.some => app.progress.next_absolute <= End(a)
      <4>1. app.progress.some => app.progress.next_absolute \in app.dropped .. End(app)
        BY <1>1 DEF ListInv
      <4> DEFINE e == End(app)
                 m == app.progress.next_absolute
                 d == app.dropped
      <4>2. e \in Nat /\ m \in Nat /\ d \in Nat /\ (app.progress.some => m \in d .. e)
        BY <3>1, <4>1
      <4> HIDE DEF e, m, d
      <4>3. app.progress.some => m <= e + 1
        BY <4>2
      <4> QED
        BY <3>3, <4>3 DEF e, m
    <3> HIDE DEF a
    <3>5. CASE ~app.pending /\ app.progress.some
      <4>1. a.progress.some = app.progress.some /\ a.progress.next_absolute = End(a)
        BY <3>1, <3>2, <3>5 DEF ProgressType
      <4> QED
        BY <2>3, <3>4, <3>5, <4>1 DEF AppendedTo, Advances
    <3>6. CASE ~(~app.pending /\ app.progress.some)
      BY <2>3, <3>1, <3>2, <3>6 DEF AppendedTo, Advances
    <3> QED
      BY <3>5, <3>6
  <2> HIDE DEF a
  <2>7. app'.generation = a.generation /\ app'.progress.some = a.progress.some /\ Advances(a, app')
        /\ app' \in AppType
    BY <2>2, <2>3, <2>5, TrimAdvances
  <2>8. Advances(app, app')
    <3> DEFINE m == app.progress.next_absolute
               n == a.progress.next_absolute
               k == app'.progress.next_absolute
    <3>1. m \in Nat /\ n \in Nat /\ k \in Nat
      BY <1>1, <2>3, <2>7, AppFields DEF ListInv
    <3>2. app.progress.some => m <= n /\ n <= k
      BY <2>6, <2>7 DEF Advances
    <3> HIDE DEF m, n, k
    <3>3. app.progress.some => m <= k
      BY <3>1, <3>2
    <3> QED
      BY <2>6, <2>7, <3>3 DEF Advances, m, k
  <2>9. mailbox' = mailbox
    BY <1>5 DEF AppendReceivedEntry, workerVars
  <2> QED
    BY <2>6, <2>7, <2>8, <2>9 DEF Orderly
<1>6. CASE Debounce
  <2>1. app' = Scheduled(app)
    BY <1>6 DEF Debounce
  <2> QED
    BY <1>1, <1>3, <2>1, ScheduledRestarts
<1>7. CASE DrawFirstFrame
  <2>1. Edited(app, app') /\ mailbox' = MailAfterDrawing(app, mailbox)
    BY <1>1, <1>7, DrawnEdits DEF DrawFirstFrame
  <2> QED
    BY <1>1, <2>1, EditedAdvances, MailFields DEF Orderly
<1>8. CASE QueueFilter
  <2>1. PICK filter \in Filters :
          /\ app' = Drawn([app EXCEPT !.draft = filter, !.dirty = TRUE])
          /\ mailbox' = MailAfterDrawing([app EXCEPT !.draft = filter, !.dirty = TRUE], mailbox)
    BY <1>8 DEF QueueFilter
  <2> DEFINE a == [app EXCEPT !.draft = filter, !.dirty = TRUE]
  <2>2. Edited(app, a)
    BY <1>1, QueuedEdits
  <2>3. app' = Drawn(a) /\ mailbox' = MailAfterDrawing(a, mailbox)
    BY <2>1
  <2> HIDE DEF a
  <2>4. Edited(a, app')
    BY <2>2, <2>3, DrawnEdits DEF Edited
  <2>5. Edited(app, app')
    BY <2>2, <2>4 DEF Edited
  <2>6. mailbox'.request = mailbox.request
    BY <1>1, <2>3, MailFields
  <2> QED
    BY <1>1, <2>5, <2>6, EditedAdvances DEF Orderly
<1>9. CASE ScheduleFilter
  <2>1. PICK filter \in Filters : app' = Drawn(Scheduled([app EXCEPT !.draft = filter]))
    BY <1>9 DEF ScheduleFilter
  <2> DEFINE e == [app EXCEPT !.draft = filter]
             a == Scheduled(e)
  <2>2. e \in AppType /\ e.generation = app.generation
    BY <1>1 DEF AppType
  <2>3. app' = Drawn(a)
    BY <2>1
  <2> HIDE DEF e
  <2>4. a \in AppType /\ a.generation = app.generation + 1 /\ ~a.progress.some
    BY <2>2, ScheduledRestarts
  <2> HIDE DEF a
  <2>5. app'.generation = a.generation /\ app'.progress.some = a.progress.some
    BY <2>3, <2>4, DrawnEdits, EditedAdvances
  <2> QED
    BY <1>3, <2>4, <2>5
<1>10. CASE ClearLogs
  <2> DEFINE a == Cleared(app)
  <2>1. a \in AppType /\ a.generation = app.generation + 1 /\ (app.pending => ~a.progress.some)
    BY <1>1, ClearedKeeps DEF ListInv
  <2>2. app' = [a EXCEPT !.document = FALSE] /\ mailbox' = MailAfterClear(app)
    BY <1>10 DEF ClearLogs
  <2> HIDE DEF a
  <2>3. app'.generation = a.generation /\ app'.progress = a.progress
    BY <2>1, <2>2 DEF AppType
  <2>4. ~app.pending => mailbox'.request = {}
    BY <1>1, <2>2, MailFields DEF MailAfterClear
  <2> QED
    BY <1>3, <2>1, <2>3, <2>4
<1>11. CASE InstallCandidate
  <2>1. PICK rows \in Files, filter \in Filters : app' = Installed(app, rows, filter)
    BY <1>11 DEF InstallCandidate
  <2>2. app'.generation = app.generation + 1 + 1 /\ ~app'.progress.some
    BY <1>1, <2>1, InstalledKeeps
  <2> QED
    BY <1>4, <2>2
<1>12. CASE ApplyMemoryBudget
  <2>1. PICK remove \in IF app.document THEN {0} ELSE 0 .. Len(app.entries) :
          LET a == Trimmed(app, remove)
              restarts == a.pending /\ ~a.progress.some
          IN /\ app' = IF restarts THEN Restarted(a) ELSE a
             /\ mailbox' = IF restarts THEN Send(mailbox, Request(app')) ELSE mailbox
    BY <1>12 DEF ApplyMemoryBudget
  <2> DEFINE a == Trimmed(app, remove)
  <2>2. remove \in 0 .. Len(app.entries)
    BY <1>1, <2>1, AppFields
  <2>3. \/ app' = a /\ mailbox' = mailbox
        \/ app' = Restarted(a)
    BY <2>1
  <2>4. /\ a \in AppType /\ a.generation = app.generation /\ a.progress.some = app.progress.some
        /\ Advances(app, a)
    BY <1>1, <2>2, TrimAdvances
  <2> HIDE DEF a
  <2>5. CASE app' = a /\ mailbox' = mailbox
    BY <2>4, <2>5 DEF Orderly
  <2>6. CASE app' = Restarted(a)
    <3> DEFINE b == Restarted(a)
    <3>1. b.generation = a.generation + 1 /\ ~b.progress.some
      BY <2>4, RestartedFields
    <3>2. app' = b
      BY <2>6
    <3> HIDE DEF b
    <3> QED
      BY <1>3, <2>4, <3>1, <3>2
  <2> QED
    BY <2>3, <2>5, <2>6
<1> QED
  BY <1>5, <1>6, <1>7, <1>8, <1>9, <1>10, <1>11, <1>12

LEMMA CatchingUpAdvances ==
  ASSUME NEW a, ListInv(a), NEW rows \in Nat, NEW b, b = CaughtUp(a, rows)
  PROVE  /\ b.generation = a.generation /\ b.progress.some = a.progress.some
         /\ Advances(a, b)
<1>1. a \in AppType /\ a.progress.next_absolute \in Nat
  BY AppFields DEF ListInv
<1>2. CASE ~CatchesUp(a)
  BY <1>1, <1>2 DEF CaughtUp, Advances
<1>3. CASE CatchesUp(a)
  <2> DEFINE l == Len(a.entries)
             d == a.dropped
             m == a.progress.next_absolute
             start == Larger(m, d) - d
             next == IF a.matcher = Failed THEN start ELSE Smaller(start + rows, l)
             found == InOrder(Matching(a.entries, a.active, a.matcher) \cap start .. next - 1)
             matches == a.matches \o found
             pending == next < l
  <2>1. b = [a EXCEPT !.matches = matches, !.progress = Progress(a, d + next), !.pending = pending]
    BY <1>3 DEF CaughtUp
  <2>2. l \in Nat /\ d \in Nat /\ End(a) = d + l /\ m \in Nat
    BY <1>1, AppFields
  <2>3. a.progress.some /\ m \in d .. End(a)
    BY <1>3 DEF CatchesUp, ListInv
  <2> HIDE DEF l, d, m
  <2>4. start = m - d /\ start \in Nat /\ start <= l
    BY <2>2, <2>3 DEF Larger
  <2>5. next \in Int /\ start <= next
    BY <2>2, <2>4 DEF Smaller
  <2>6. m <= d + next
    BY <2>2, <2>4, <2>5
  <2> HIDE DEF matches, pending, next, start
  <2>7. b.generation = a.generation /\ b.progress = Progress(a, d + next)
    BY <1>1, <2>1 DEF AppType
  <2>8. b.progress.some /\ b.progress.next_absolute = d + next
    BY <2>7 DEF Progress
  <2> QED
    BY <1>1, <2>3, <2>6, <2>7, <2>8 DEF Advances, m, AppType
<1> QED
  BY <1>2, <1>3

LEMMA AcceptedOnce ==
  ASSUME NEW a \in AppType, NEW slot, NEW b, b = Taken(Accepted, a, slot)
  PROVE  \/ b = a
         \/ b.generation = a.generation /\ \E r \in slot : r.generation = a.generation
<1>1. CASE slot = {}
  <2>1. b = a
    BY <1>1 DEF Taken
  <2> QED
    BY <2>1
<1>2. CASE slot # {}
  <2> DEFINE r == CHOOSE result \in slot : TRUE
  <2>1. b = Accepted(a, r) /\ r \in slot
    BY <1>2 DEF Taken
  <2> HIDE DEF r
  <2>2. CASE Stale(a, r)
    <3>1. b = a
      BY <2>1, <2>2 DEF Accepted
    <3> QED
      BY <3>1
  <2>3. CASE ~Stale(a, r)
    <3>1. r.generation = a.generation
      BY <2>3 DEF Stale
    <3>2. b.generation = a.generation
      BY <2>1 DEF Accepted, AcceptedError, AcceptedMatches, AppType
    <3> QED
      BY <2>1, <3>1, <3>2
  <2> QED
    BY <2>2, <2>3
<1> QED
  BY <1>1, <1>2

LEMMA PollOnce ==
  ASSUME PipelineInv, OnceInv, PollFilter
  PROVE  OnceInv' /\ Advances(app, app') /\ app'.generation = app.generation
<1> DEFINE a == Taken(Highlighted, app, completed.highlight)
           b == Taken(Accepted, a, completed.filter)
           g == app.generation
<1>1. PICK rows \in 1 .. CatchUpRows : app' = CaughtUp(b, rows)
  BY DEF PollFilter
<1>2. rows \in Nat
  BY PipelineAssumption
<1>3. mailbox' = mailbox /\ work' = work /\ completed' = NoResults
  BY DEF PollFilter
<1>4. ListInv(app) /\ app \in AppType
  BY DEF PipelineInv, ListInv
<1>5. /\ ListInv(a) /\ a \in AppType /\ Later(app, a)
      /\ a.generation = g /\ a.progress = app.progress
  <2>1. ListInv(a) /\ Later(app, a)
    BY <1>4, TakenHighlight DEF PipelineInv, SlotsInv
  <2>2. a.generation = g /\ a.progress = app.progress
    <3>1. CASE completed.highlight = {}
      BY <3>1 DEF Taken
    <3>2. CASE completed.highlight # {}
      <4> DEFINE r == CHOOSE result \in completed.highlight : TRUE
      <4>1. a = Highlighted(app, r) /\ HighlightAnswer(r)
        BY <3>2 DEF Taken, PipelineInv, SlotsInv
      <4> HIDE DEF r
      <4>2. Edited(app, a)
        BY <1>4, <4>1, HighlightedEdits
      <4> QED
        BY <4>2 DEF Edited
    <3> QED
      BY <3>1, <3>2
  <2> QED
    BY <2>1, <2>2 DEF ListInv
<1>6. \A result \in completed.filter : Answer(result, a)
  BY <1>4, <1>5, AnswerStays DEF PipelineInv, SlotsInv
<1> HIDE DEF a
<1>7. \/ b = a
      \/ b.generation = a.generation /\ InSlot(completed, g)
  BY <1>5, AcceptedOnce DEF InSlot
<1>8. ListInv(b)
  BY <1>5, <1>6, TakenAnswer
<1> HIDE DEF b
<1>9. app'.generation = b.generation /\ app'.progress.some = b.progress.some /\ Advances(b, app')
  BY <1>1, <1>2, <1>8, CatchingUpAdvances
<1>10. app'.generation = g
  BY <1>5, <1>7, <1>9
<1>11. ~InSlot(completed', g)
  BY <1>3 DEF InSlot, NoResults
<1>12. CASE b = a
  <2>1. app'.progress.some = app.progress.some /\ Advances(app, app')
    BY <1>5, <1>9, <1>10, <1>12 DEF Advances
  <2> QED
    BY <1>3, <1>10, <1>11, <2>1 DEF OnceInv, Once
<1>13. CASE InSlot(completed, g)
  <2>1. ~InWork(work, g) /\ ~InMail(mailbox, g) /\ ~app.progress.some
    BY <1>13 DEF OnceInv, Once
  <2> QED
    BY <1>3, <1>10, <1>11, <2>1 DEF OnceInv, Once, Advances
<1> QED
  BY <1>7, <1>12, <1>13

LEMMA WorkerOnce ==
  ASSUME PipelineInv, OnceInv, WorkerStep
  PROVE  OnceInv' /\ Advances(app, app')
<1> DEFINE g == app.generation
<1>1. app' = app /\ mailbox \in MailType /\ app.progress.next_absolute \in Nat
  BY AppFields DEF WorkerStep, PipelineInv, MailInv, ListInv
<1>2. Advances(app, app')
  BY <1>1 DEF Advances
<1>3. CASE WorkerTake
  <2>1. completed' = completed /\ work = Idle /\ ~InWork(work, g)
    BY <1>3 DEF WorkerTake, Idle, InWork
  <2>2. CASE /\ \E request \in mailbox.request : work' = Holds("filter", "taken", request)
             /\ mailbox' = [mailbox EXCEPT !.request = {}]
    <3>1. PICK request \in mailbox.request : work' = Holds("filter", "taken", request)
      BY <2>2
    <3>2. mailbox'.request = {}
      BY <1>1, <2>2 DEF MailType
    <3>3. work'.stage = "taken" /\ work'.kind = "filter" /\ work'.body = request.body
      BY <3>1 DEF Holds
    <3>4. ~InMail(mailbox', g)
      BY <3>2 DEF InMail
    <3>5. InWork(work', g) => InMail(mailbox, g)
      BY <3>1, <3>3 DEF InWork, InMail
    <3> HIDE DEF g
    <3> QED
      BY <1>1, <1>2, <2>1, <3>4, <3>5 DEF OnceInv, Once, g
  <2>3. CASE /\ \E query \in mailbox.highlight : work' = Holds("highlight", "taken", query)
             /\ mailbox' = [mailbox EXCEPT !.highlight = {}]
    <3>1. mailbox'.request = mailbox.request /\ work'.kind = "highlight"
      BY <1>1, <2>3 DEF MailType, Holds
    <3>2. ~InWork(work', g) /\ (InMail(mailbox', g) = InMail(mailbox, g))
      BY <3>1 DEF InWork, InMail
    <3> HIDE DEF g
    <3> QED
      BY <1>1, <1>2, <2>1, <3>2 DEF OnceInv, Once, g
  <2> QED
    BY <1>3, <2>2, <2>3 DEF WorkerTake
<1>4. CASE WorkerAbandon
  <2>1. completed' = completed /\ mailbox' = mailbox /\ ~InWork(work', g)
    BY <1>4 DEF WorkerAbandon, Idle, InWork
  <2> QED
    BY <1>1, <1>2, <2>1 DEF OnceInv, Once
<1>5. ASSUME completed' = completed, mailbox' = mailbox, InWork(work', g) => InWork(work, g)
      PROVE  OnceInv'
  BY <1>1, <1>5 DEF OnceInv, Once
<1>6. CASE WorkerCompile
  <2>1. work.stage = "taken" /\ work' = [work EXCEPT !.stage = "compiled"]
    BY <1>6 DEF WorkerCompile
  <2>2. \/ work \in Working("filter", {"taken", "compiled"}, RequestType)
        \/ work \in Working("highlight", {"taken", "compiled"}, Queries)
    BY <2>1 DEF PipelineInv, WorkInv, Idle
  <2>3. work'.kind = work.kind /\ work'.body = work.body /\ work'.stage = "compiled"
    BY <2>1, <2>2 DEF Working
  <2>4. InWork(work', g) => InWork(work, g)
    BY <2>1, <2>3 DEF InWork
  <2> QED
    BY <1>2, <1>5, <1>6, <2>4 DEF WorkerCompile
<1>7. CASE WorkerScan
  <2>1. PICK c \in cached :
          work' = [stage |-> "ready", kind |-> work.kind,
                   result |-> IF work.kind = "filter" THEN FilterResult(work.body, c.matcher)
                              ELSE [key |-> work.body, matcher |-> c.matcher]]
    BY <1>7 DEF WorkerScan
  <2>2. work.stage = "compiled"
    BY <1>7 DEF WorkerScan
  <2>3. work'.stage = "ready" /\ work'.kind = work.kind
        /\ (work.kind = "filter" => work'.result.generation = work.body.generation)
    BY <2>1 DEF FilterResult
  <2>4. InWork(work', g) => InWork(work, g)
    BY <2>2, <2>3 DEF InWork
  <2> QED
    BY <1>2, <1>5, <1>7, <2>4 DEF WorkerScan
<1>8. CASE WorkerPublish
  <2>1. work.stage = "ready" /\ completed' = [completed EXCEPT ![work.kind] = {work.result}]
        /\ work' = Idle /\ mailbox' = mailbox
    BY <1>8 DEF WorkerPublish
  <2>2. ~InWork(work', g)
    BY <2>1 DEF InWork, Idle
  <2>3. completed = [filter |-> completed.filter, highlight |-> completed.highlight]
    BY DEF PipelineInv, SlotsInv
  <2>4. work.kind = "filter" \/ work.kind = "highlight"
    BY <2>1 DEF PipelineInv, WorkInv, Idle, Working
  <2>5. CASE work.kind = "filter"
    <3>1. completed'.filter = {work.result}
      BY <2>1, <2>3, <2>5
    <3>2. InSlot(completed', g) => InWork(work, g)
      BY <2>1, <2>5, <3>1 DEF InSlot, InWork
    <3> HIDE DEF g
    <3> QED
      BY <1>1, <1>2, <2>1, <2>2, <3>2 DEF OnceInv, Once, g
  <2>6. CASE work.kind = "highlight"
    <3>1. completed'.filter = completed.filter
      BY <2>1, <2>3, <2>6
    <3>2. InSlot(completed', g) = InSlot(completed, g)
      BY <3>1 DEF InSlot
    <3> HIDE DEF g
    <3> QED
      BY <1>1, <1>2, <2>1, <2>2, <3>2 DEF OnceInv, Once, g
  <2> QED
    BY <2>4, <2>5, <2>6
<1> QED
  BY <1>2, <1>3, <1>4, <1>6, <1>7, <1>8 DEF WorkerStep, WorkerNext

LEMMA StepOnce ==
  ASSUME PipelineInv, OnceInv, [ReadingNext]_<<pipelineVars, readingVars>>
  PROVE  OnceInv' /\ Advances(app, app') /\ app.generation <= app'.generation
<1>1. [Next]_pipelineVars
  BY ReadingIsPipeline
<1>2. app' \in AppType /\ app.generation \in Nat /\ app'.generation \in Nat
  BY <1>1, PipelineStep, AppFields DEF PipelineInv, ListInv
<1>3. CASE AppendReceivedEntry \/ Debounce \/ DrawFirstFrame \/ QueueFilter \/ ScheduleFilter
             \/ ClearLogs \/ InstallCandidate \/ ApplyMemoryBudget
  <2>1. Orderly(app, mailbox, app', mailbox')
    BY <1>3, UiOrderly
  <2>2. work' = work /\ completed' = completed
    BY <1>3 DEF AppendReceivedEntry, Debounce, DrawFirstFrame, QueueFilter, ScheduleFilter,
                ClearLogs, InstallCandidate, ApplyMemoryBudget, workerVars
  <2>3. Once(app', mailbox', work, completed) /\ Advances(app, app')
    BY <1>2, <2>1, OrderlyOnce
  <2>4. app.generation <= app'.generation
    BY <1>2, <2>1 DEF Orderly
  <2> QED
    BY <2>2, <2>3, <2>4 DEF OnceInv
<1>4. CASE PollFilter
  <2>1. OnceInv' /\ Advances(app, app') /\ app'.generation = app.generation
    BY <1>4, PollOnce
  <2> QED
    BY <1>2, <2>1
<1>5. CASE WorkerStep
  <2>1. app' = app
    BY <1>5 DEF WorkerStep
  <2> QED
    BY <1>2, <1>5, <2>1, WorkerOnce
<1>6. CASE UNCHANGED pipelineVars
  <2>1. app.progress.next_absolute \in Nat
    BY AppFields DEF PipelineInv, ListInv
  <2> QED
    BY <1>2, <1>6, <2>1 DEF OnceInv, Advances, pipelineVars, workerVars
<1> QED
  BY <1>1, <1>3, <1>4, <1>5, <1>6 DEF Next

LEMMA OnceStarts == Init => OnceInv
<1> SUFFICES ASSUME Init PROVE OnceInv
  OBVIOUS
<1>1. ~InWork(work, app.generation) /\ ~InSlot(completed, app.generation)
  BY DEF Init, WorkerInit, Idle, NoResults, InWork, InSlot
<1>2. PICK filter \in Filters :
        \/ app = NewApp(filter) /\ mailbox = EmptyMailbox
        \/ app = Scheduled(NewApp(filter))
  BY DEF Init
<1>3. CASE mailbox = EmptyMailbox
  BY <1>1, <1>3 DEF OnceInv, Once, InMail, EmptyMailbox
<1>4. CASE app = Scheduled(NewApp(filter))
  <2>1. NewApp(filter) \in AppType
    BY NewAppFields
  <2>2. ~app.progress.some
    BY <1>4, <2>1, ScheduledRestarts
  <2> QED
    BY <1>1, <2>2 DEF OnceInv, Once
<1> QED
  BY <1>2, <1>3, <1>4

-------------------------------------------------------------------------------
(* Copying: the invariant                                                  *)

\* The text of a copy: the rows it is of, as they were numbered at its stamp.
Copied(stamp, R) == {<<stamp.log_epoch, stamp.retained_base + i>> : i \in R}

\* Everything made for a pending copy holds the text T it was asked for.
Faithful(p, T, m, w, c) ==
  /\ \A q \in m.request : q.generation = p.generation => q.text = T
  /\ w.stage = "building" /\ w.generation = p.generation => w.text = T
  /\ w.stage = "built" /\ w.generation = p.generation => w.text \subseteq {T}
  /\ \A q \in m.result : q.generation = p.generation => q.text \subseteq {T}
  /\ c.ready \subseteq {T}

\* As long as the revision of its stamp lasts, a copy is of what is selected;
\* and if the filter is still the one in force, its rows are classified.
AsSelected(stamp, R, r) ==
  /\ R # {} /\ stamp.selection_revision \in Nat
  /\ stamp.selection_revision <= r.selection.revision
  /\ stamp.selection_revision = r.selection.revision => r.selection.rows = R

AsChecked(stamp, R, r, a) ==
  /\ stamp.retained_base \in Nat
  /\ stamp.filter_generation \in Nat /\ stamp.filter_generation <= a.generation
  /\ stamp.selection_revision = r.selection.revision
     /\ stamp.filter_generation = a.generation /\ ~r.context.open =>
       /\ a.progress.some
       /\ \A i \in R : stamp.retained_base + i < a.progress.next_absolute

CopyOf(p, R, r, a) ==
  IF p.target = Selection THEN AsSelected(p.stamp, R, r) /\ AsChecked(p.stamp, R, r, a)
  ELSE R = {p.target}

CopierInv(m, w, c) ==
  /\ m = [revision |-> m.revision, request |-> m.request, result |-> m.result]
  /\ c = [pending |-> c.pending, ready |-> c.ready]
  /\ m.revision \in Nat
  /\ \A q \in m.request : q.generation \in Nat /\ q.generation <= m.revision
  /\ w.stage # "idle" => w.generation \in Nat /\ w.generation <= m.revision
  /\ \A p \in c.pending : p.generation = m.revision

PendingInv(p, m, w, c, r, a) ==
  \E R \in SUBSET Nat : Faithful(p, Copied(p.stamp, R), m, w, c) /\ CopyOf(p, R, r, a)

CopyInv ==
  /\ CopierInv(copier, preparing, copy)
  /\ \A p \in copy.pending : PendingInv(p, copier, preparing, copy, reading, app)

CopyAll == ReadingAll /\ OnceInv /\ CopyInv

LEMMA CopyStarts == Init /\ ReadingInit /\ CopyInit => CopyAll
<1>1. CopyInit => CopyInv
  BY DEF CopyInit, CopyInv, CopierInv, NoCopy
<1> QED
  BY <1>1, ReadingStarts, OnceStarts DEF CopyAll

\* Reading on: the selection and the filter only move on.
LEMMA CopyOfStays ==
  ASSUME NEW p, NEW R, NEW r, NEW a, NEW q, NEW b, CopyOf(p, R, r, a),
         r.selection.revision \in Nat, a.generation \in Nat, b.generation \in Nat,
         a.progress.next_absolute \in Nat, b.progress.next_absolute \in Nat,
         R \in SUBSET Nat,
         Follows(r, q), Advances(a, b), a.generation <= b.generation
  PROVE  CopyOf(p, R, q, b)
<1>1. CASE p.target # Selection
  BY <1>1 DEF CopyOf
<1>2. CASE p.target = Selection
  <2> DEFINE n == p.stamp.selection_revision
             k == r.selection.revision
             l == q.selection.revision
             g == p.stamp.filter_generation
             h == a.generation
             i == b.generation
  <2>1. /\ n \in Nat /\ k \in Nat /\ l \in Nat /\ n <= k /\ k <= l
        /\ g \in Nat /\ h \in Nat /\ i \in Nat /\ g <= h /\ h <= i
    BY <1>2 DEF CopyOf, AsSelected, AsChecked, Follows, Succeeds
  <2>2. n <= l /\ (n = l => n = k /\ k = l) /\ g <= i /\ (g = i => g = h /\ h = i)
    <3> HIDE DEF n, k, l, g, h, i
    <3> QED
      BY <2>1
  <2>3. AsSelected(p.stamp, R, q)
    BY <1>2, <2>1, <2>2 DEF CopyOf, AsSelected, Follows, Succeeds
  <2>4. ASSUME n = l, g = i, ~q.context.open
        PROVE  /\ b.progress.some
               /\ \A j \in R : p.stamp.retained_base + j < b.progress.next_absolute
    <3>1. n = k /\ k = l /\ g = h /\ h = i
      BY <2>2, <2>4
    <3>2. R = r.selection.rows /\ R # {}
      BY <1>2, <3>1 DEF CopyOf, AsSelected
    <3>3. ~r.context.open
      BY <2>4, <3>1, <3>2 DEF Follows
    <3>4. a.progress.some /\ \A j \in R : p.stamp.retained_base + j < a.progress.next_absolute
      BY <1>2, <3>1, <3>3 DEF CopyOf, AsChecked
    <3>5. b.progress.some /\ a.progress.next_absolute <= b.progress.next_absolute
      BY <3>1, <3>4 DEF Advances
    <3>6. ASSUME NEW j \in R
          PROVE  p.stamp.retained_base + j < b.progress.next_absolute
      <4> DEFINE base == p.stamp.retained_base
                 x == a.progress.next_absolute
                 y == b.progress.next_absolute
      <4>1. base \in Nat /\ j \in Nat /\ x \in Nat /\ y \in Nat /\ base + j < x /\ x <= y
        BY <1>2, <3>4, <3>5 DEF CopyOf, AsChecked
      <4> HIDE DEF base, x, y
      <4>2. base + j < y
        BY <4>1
      <4> QED
        BY <4>2 DEF base, y
    <3> QED
      BY <3>5, <3>6
  <2>5. AsChecked(p.stamp, R, q, b)
    BY <1>2, <2>1, <2>2, <2>4 DEF CopyOf, AsChecked
  <2> QED
    BY <1>2, <2>3, <2>5 DEF CopyOf
<1> QED
  BY <1>1, <1>2

LEMMA ReadingStepKeeps ==
  ASSUME CopyAll, ReadingNext, UNCHANGED <<copy, copier, preparing>>
  PROVE  CopyAll'
<1>1. PipelineInv /\ OnceInv /\ app \in AppType /\ reading \in ReadingType
  BY DEF CopyAll, ReadingAll, PipelineInv, ListInv, ReadingInv
<1>2. ReadingAll'
  BY ReadingSteps DEF CopyAll
<1>3. OnceInv' /\ Advances(app, app') /\ app.generation <= app'.generation
  BY <1>1, StepOnce
<1>4. Follows(reading, reading')
  BY StepFollows DEF CopyAll
<1>5. app' \in AppType
  BY <1>2 DEF ReadingAll, PipelineInv, ListInv
<1>6. /\ reading.selection.revision \in Nat /\ app.generation \in Nat /\ app'.generation \in Nat
      /\ app.progress.next_absolute \in Nat /\ app'.progress.next_absolute \in Nat
  BY <1>1, <1>5, ReadingFields, AppFields
<1>7. ASSUME NEW p \in copy.pending
      PROVE  PendingInv(p, copier, preparing, copy, reading', app')
  <2>1. PICK R \in SUBSET Nat :
          Faithful(p, Copied(p.stamp, R), copier, preparing, copy) /\ CopyOf(p, R, reading, app)
    BY <1>7 DEF CopyAll, CopyInv, PendingInv
  <2>2. CopyOf(p, R, reading', app')
    BY <1>3, <1>4, <1>6, <2>1, CopyOfStays
  <2> QED
    BY <2>1, <2>2 DEF PendingInv
<1>8. CopyInv'
  BY <1>7 DEF CopyAll, CopyInv
<1> QED
  BY <1>2, <1>3, <1>8 DEF CopyAll

LEMMA CopierKeeps ==
  ASSUME CopyInv, CopierTake \/ CopierAbandon \/ CopierBuild \/ CopierPublish,
         UNCHANGED <<copy, reading, app>>
  PROVE  CopyInv'
<1>1. CopierInv(copier, preparing, copy)
  BY DEF CopyInv
<1>2. ASSUME CopierInv(copier', preparing', copy),
             \A T : \A p \in copy.pending :
               Faithful(p, T, copier, preparing, copy) => Faithful(p, T, copier', preparing', copy)
      PROVE  CopyInv'
  <2>1. ASSUME NEW p \in copy.pending
        PROVE  PendingInv(p, copier', preparing', copy, reading, app)
    BY <1>2, <2>1 DEF CopyInv, PendingInv
  <2> QED
    BY <1>2, <2>1 DEF CopyInv
<1>3. CASE CopierTake
  <2>1. PICK request \in copier.request :
          preparing' = [stage |-> "building", generation |-> request.generation,
                        text |-> request.text]
    BY <1>3 DEF CopierTake
  <2>2. copier'.revision = copier.revision /\ copier'.result = copier.result /\ copier'.request = {}
        /\ copier' = [revision |-> copier'.revision, request |-> copier'.request, result |-> copier'.result]
    <3>1. copier' = [copier EXCEPT !.request = {}]
      BY <1>3 DEF CopierTake
    <3>2. copier = [revision |-> copier.revision, request |-> copier.request, result |-> copier.result]
      BY <1>1 DEF CopierInv
    <3>3. copier' = [revision |-> copier.revision, request |-> {}, result |-> copier.result]
      BY <3>1, <3>2
    <3> QED
      BY <3>3
  <2>3. CopierInv(copier', preparing', copy)
    BY <1>1, <2>1, <2>2 DEF CopierInv
  <2>4. \A T : \A p \in copy.pending :
          Faithful(p, T, copier, preparing, copy) => Faithful(p, T, copier', preparing', copy)
    BY <2>1, <2>2 DEF Faithful
  <2> QED
    BY <1>2, <2>3, <2>4
<1>4. CASE CopierAbandon
  <2>1. copier' = copier /\ preparing'.stage = "idle"
    BY <1>4 DEF CopierAbandon
  <2>2. CopierInv(copier', preparing', copy)
    BY <1>1, <2>1 DEF CopierInv
  <2>3. \A T : \A p \in copy.pending :
          Faithful(p, T, copier, preparing, copy) => Faithful(p, T, copier', preparing', copy)
    BY <2>1 DEF Faithful
  <2> QED
    BY <1>2, <2>2, <2>3
<1>5. CASE CopierBuild
  <2>1. /\ copier' = copier /\ preparing.stage = "building" /\ preparing'.stage = "built"
        /\ preparing'.generation = preparing.generation /\ preparing'.text \subseteq {preparing.text}
    BY <1>5 DEF CopierBuild
  <2>2. CopierInv(copier', preparing', copy)
    BY <1>1, <2>1 DEF CopierInv
  <2>3. \A T : \A p \in copy.pending :
          Faithful(p, T, copier, preparing, copy) => Faithful(p, T, copier', preparing', copy)
    BY <2>1 DEF Faithful
  <2> QED
    BY <1>2, <2>2, <2>3
<1>6. CASE CopierPublish
  <2>1. preparing.stage = "built" /\ preparing'.stage = "idle"
    BY <1>6 DEF CopierPublish
  <2>2. /\ copier'.revision = copier.revision /\ copier'.request = copier.request
        /\ copier'.result = {[generation |-> preparing.generation, text |-> preparing.text]}
        /\ copier' = [revision |-> copier'.revision, request |-> copier'.request, result |-> copier'.result]
    <3> DEFINE result == {[generation |-> preparing.generation, text |-> preparing.text]}
    <3>1. copier' = [copier EXCEPT !.result = result]
      BY <1>6 DEF CopierPublish
    <3>2. copier = [revision |-> copier.revision, request |-> copier.request, result |-> copier.result]
      BY <1>1 DEF CopierInv
    <3> HIDE DEF result
    <3>3. copier' = [revision |-> copier.revision, request |-> copier.request, result |-> result]
      BY <3>1, <3>2
    <3>4. copier'.revision = copier.revision /\ copier'.request = copier.request /\ copier'.result = result
      BY <3>3
    <3> QED
      BY <3>3, <3>4 DEF result
  <2>3. CopierInv(copier', preparing', copy)
    BY <1>1, <2>1, <2>2 DEF CopierInv
  <2>4. \A T : \A p \in copy.pending :
          Faithful(p, T, copier, preparing, copy) => Faithful(p, T, copier', preparing', copy)
    BY <2>1, <2>2 DEF Faithful
  <2> QED
    BY <1>2, <2>3, <2>4
<1> QED
  BY <1>3, <1>4, <1>5, <1>6

\* A copy that is no longer pending, whatever the thread still makes for it.
LEMMA NothingPending ==
  ASSUME CopyInv, copy' = NoCopy, UNCHANGED preparing,
         \/ copier' = Cancelled(copier)
         \/ copier' = [copier EXCEPT !.result = {}]
  PROVE  CopyInv'
<1>1. CopierInv(copier, preparing, copy)
  BY DEF CopyInv
<1>2. copier.revision \in Nat /\ copier.revision + 1 \in Nat
  BY <1>1 DEF CopierInv
<1>3. \A n \in Nat : n <= copier.revision => n <= copier.revision + 1
  BY <1>2
<1>4. copy'.pending = {} /\ copy'.ready = {} /\ copy' = [pending |-> copy'.pending, ready |-> copy'.ready]
  BY DEF NoCopy
<1>5. CASE copier' = Cancelled(copier)
  <2>1. /\ copier'.revision = copier.revision + 1 /\ copier'.request = {} /\ copier'.result = {}
        /\ copier' = [revision |-> copier'.revision, request |-> copier'.request, result |-> copier'.result]
    BY <1>5 DEF Cancelled
  <2>2. CopierInv(copier', preparing', copy')
    BY <1>1, <1>2, <1>3, <1>4, <2>1 DEF CopierInv
  <2> QED
    BY <1>4, <2>2 DEF CopyInv
<1>6. CASE copier' = [copier EXCEPT !.result = {}]
  <2>1. copier = [revision |-> copier.revision, request |-> copier.request, result |-> copier.result]
    BY <1>1 DEF CopierInv
  <2>2. copier' = [revision |-> copier.revision, request |-> copier.request, result |-> {}]
    BY <1>6, <2>1
  <2>3. /\ copier'.revision = copier.revision /\ copier'.request = copier.request
        /\ copier' = [revision |-> copier'.revision, request |-> copier'.request, result |-> copier'.result]
    BY <2>2
  <2>4. CopierInv(copier', preparing', copy')
    BY <1>1, <1>4, <2>3 DEF CopierInv
  <2> QED
    BY <1>4, <2>4 DEF CopyInv
<1> QED
  BY <1>5, <1>6

\* What a poll makes ready was prepared for the copy that is pending.
LEMMA PolledFacts ==
  ASSUME CopyInv
  PROVE  /\ PolledCopy = [pending |-> PolledCopy.pending, ready |-> PolledCopy.ready]
         /\ PolledCopy.pending \subseteq copy.pending
         /\ copy.ready # {} => PolledCopy.ready # {}
         /\ \A T : \A p \in copy.pending :
              Faithful(p, T, copier, preparing, copy) => PolledCopy.ready \subseteq {T}
<1>1. /\ copy = [pending |-> copy.pending, ready |-> copy.ready]
      /\ \A p \in copy.pending : p.generation = copier.revision
  BY DEF CopyInv, CopierInv
<1> DEFINE prepared == {result \in copier.result :
                          \E pending \in copy.pending : pending.generation = result.generation}
           text == UNION {result.text : result \in prepared}
<1>2. ASSUME NEW p \in copy.pending, NEW T, Faithful(p, T, copier, preparing, copy)
      PROVE  copy.ready \subseteq {T} /\ text \subseteq {T}
  <2>1. \A result \in prepared : result.text \subseteq {T}
    BY <1>1, <1>2 DEF Faithful
  <2>2. text \subseteq {T}
    <3> HIDE DEF prepared
    <3> QED
      BY <2>1
  <2> QED
    BY <1>2, <2>2 DEF Faithful
<1>3. PolledCopy = IF prepared = {} THEN copy
                   ELSE IF text = {} THEN [copy EXCEPT !.pending = {}] ELSE [copy EXCEPT !.ready = text]
  BY DEF PolledCopy
<1> HIDE DEF prepared, text
<1>4. CASE prepared = {}
  BY <1>1, <1>2, <1>3, <1>4
<1>5. CASE prepared # {} /\ text = {}
  <2>1. PolledCopy = [pending |-> {}, ready |-> copy.ready]
    BY <1>1, <1>3, <1>5
  <2> QED
    BY <1>2, <2>1
<1>6. CASE prepared # {} /\ text # {}
  <2>1. PolledCopy = [pending |-> copy.pending, ready |-> text]
    BY <1>1, <1>3, <1>6
  <2> QED
    BY <1>2, <1>6, <2>1
<1> QED
  BY <1>4, <1>5, <1>6

LEMMA PollCopyKeeps ==
  ASSUME CopyInv, PollCopy
  PROVE  CopyInv'
<1>1. preparing' = preparing /\ reading' = reading /\ app' = app
  BY DEF PollCopy, pipelineVars, readingVars
<1>2. CASE StampChanged
  BY <1>1, <1>2, NothingPending DEF PollCopy
<1>3. CASE ~StampChanged
  <2>1. copy' = PolledCopy /\ copier' = [copier EXCEPT !.result = {}]
    BY <1>3 DEF PollCopy
  <2>2. CopierInv(copier, preparing, copy)
    BY DEF CopyInv
  <2>3. copier' = [revision |-> copier.revision, request |-> copier.request, result |-> {}]
    <3>1. copier = [revision |-> copier.revision, request |-> copier.request, result |-> copier.result]
      BY <2>2 DEF CopierInv
    <3> QED
      BY <2>1, <3>1
  <2>4. /\ copier'.revision = copier.revision /\ copier'.request = copier.request /\ copier'.result = {}
        /\ copier' = [revision |-> copier'.revision, request |-> copier'.request, result |-> copier'.result]
    BY <2>3
  <2>5. copy' = [pending |-> copy'.pending, ready |-> copy'.ready] /\ copy'.pending \subseteq copy.pending
    BY <2>1, PolledFacts
  <2>6. CopierInv(copier', preparing', copy')
    BY <1>1, <2>2, <2>4, <2>5 DEF CopierInv
  <2>7. ASSUME NEW p \in copy'.pending
        PROVE  PendingInv(p, copier', preparing', copy', reading', app')
    <3>1. p \in copy.pending
      BY <2>5
    <3>2. PICK R \in SUBSET Nat :
            Faithful(p, Copied(p.stamp, R), copier, preparing, copy) /\ CopyOf(p, R, reading, app)
      BY <3>1 DEF CopyInv, PendingInv
    <3>3. copy'.ready \subseteq {Copied(p.stamp, R)}
      BY <2>1, <3>1, <3>2, PolledFacts
    <3>4. Faithful(p, Copied(p.stamp, R), copier', preparing', copy')
      BY <1>1, <2>4, <3>2, <3>3 DEF Faithful
    <3> QED
      BY <1>1, <3>2, <3>4 DEF PendingInv
  <2> QED
    BY <2>6, <2>7 DEF CopyInv
<1> QED
  BY <1>2, <1>3

-------------------------------------------------------------------------------
(* Copying: what is asked for, and the theorems                            *)

LEMMA HighestExists ==
  ASSUME NEW S \in SUBSET Nat, NEW n \in Nat, \A i \in S : i < n, S # {}
  PROVE  \E last \in S : \A i \in S : i <= last
<1>1. S \subseteq 0 .. n - 1 /\ IsFiniteSet(0 .. n - 1)
  BY FS_Interval
<1>2. IsFiniteSet(S)
  BY <1>1, FS_Subset
<1> DEFINE s == InOrder(S)
<1>3. Lists(s, S)
  BY <1>2, InOrderLists
<1> HIDE DEF s
<1>4. PICK i \in S : TRUE
  OBVIOUS
<1>5. /\ Len(s) \in Nat /\ \A k \in 1 .. Len(s) : s[k] \in S /\ s[k] \in Nat
      /\ \A m \in S : \E k \in 1 .. Len(s) : s[k] = m
      /\ \A j, k \in 1 .. Len(s) : j < k => s[j] < s[k]
  BY <1>3, ListFacts
<1>6. Len(s) \in 1 .. Len(s)
  <2>1. PICK k \in 1 .. Len(s) : s[k] = i
    BY <1>5
  <2> QED
    BY <1>5, <2>1
<1>7. ASSUME NEW m \in S PROVE m <= s[Len(s)]
  <2>1. PICK k \in 1 .. Len(s) : s[k] = m
    BY <1>5
  <2>2. k < Len(s) => s[k] < s[Len(s)]
    BY <1>5, <1>6, <2>1
  <2>3. k = Len(s) => s[k] = s[Len(s)]
    OBVIOUS
  <2>4. k < Len(s) \/ k = Len(s)
    BY <1>5, <2>1
  <2>5. s[k] \in Nat /\ s[Len(s)] \in Nat
    BY <1>5, <1>6, <2>1
  <2> QED
    BY <2>1, <2>2, <2>3, <2>4, <2>5
<1> QED
  BY <1>5, <1>6, <1>7

\* What the list is about the filter in force, so only the cursor decides.
LEMMA PendingFacts ==
  ASSUME ListInv(app), NEW index \in Nat
  PROVE  ClassificationPending(index) <=>
           ~reading.context.open
           /\ (~app.progress.some \/ ~(app.dropped + index < app.progress.next_absolute))
<1>1. app.progress.some => app.progress.generation = app.generation /\ app.progress.log_epoch = app.epoch
  BY DEF ListInv
<1>2. app.dropped + index >= app.progress.next_absolute
        <=> ~(app.dropped + index < app.progress.next_absolute)
  <2> DEFINE m == app.dropped + index
             n == app.progress.next_absolute
  <2>1. m \in Nat /\ n \in Nat
    BY AppFields DEF ListInv
  <2> HIDE DEF m, n
  <2>2. m >= n <=> ~(m < n)
    BY <2>1
  <2> QED
    BY <2>2 DEF m, n
<1> QED
  BY <1>1, <1>2 DEF ClassificationPending

\* Chosen rows that are classified are on screen.
LEMMA ChosenOnScreen ==
  ASSUME ReadingAll, NEW i \in Chosen(reading), ~ClassificationPending(i)
  PROVE  i \in Indices(Rows)
<1>1. /\ ListInv(app) /\ ReadingInv(reading, app) /\ reading \in ReadingType
  BY DEF ReadingAll, PipelineInv, ReadingInv
<1>2. i \in Nat
  BY <1>1, ReadingFields
<1>3. CASE reading.context.open
  BY <1>1, <1>3 DEF ReadingInv, ContextInv, Rows
<1>4. CASE ~reading.context.open
  <2>1. app.progress.some /\ app.dropped + i < app.progress.next_absolute
    BY <1>1, <1>2, <1>4, PendingFacts
  <2> QED
    BY <1>1, <1>4, <2>1 DEF ReadingInv, ListedInv, Rows
<1> QED
  BY <1>3, <1>4

LEMMA AskedFacts ==
  ASSUME ReadingAll, NEW target, CopyFrom(target), ~Unchecked(target)
  PROVE  /\ Aimed(target) # {} /\ Aimed(target) \in SUBSET Nat
         /\ target = Selection => Aimed(target) = reading.selection.rows
         /\ target # Selection => Aimed(target) = {target}
         /\ \A i \in Aimed(target) : i \in Indices(Rows) /\ ~ClassificationPending(i)
<1>1. /\ ListInv(app) /\ app \in AppType /\ ReadingInv(reading, app) /\ reading \in ReadingType
      /\ Len(app.entries) \in Nat
  BY AppFields DEF ReadingAll, PipelineInv, ListInv, ReadingInv
<1>2. Rows = RowsOf(reading, app) /\ \A i \in Indices(Rows) : i \in Nat
  BY <1>1, RowsFacts DEF Rows, RowsOf
<1>3. CASE target = Selection
  <2> DEFINE S == reading.selection.rows
  <2>1. Aimed(target) = S /\ S \in SUBSET Nat /\ S \subseteq Chosen(reading)
    BY <1>1, <1>3, ReadingFields DEF Aimed
  <2>2. S # {}
    BY <1>2, <1>3, NoRowIsNone DEF CopyFrom, Selection
  <2>3. \A i \in S : i < Len(app.entries)
    BY <1>1, <2>1 DEF ReadingInv
  <2>4. PICK last \in S : \A i \in S : i <= last
    BY <1>1, <2>1, <2>2, <2>3, HighestExists
  <2>5. ~ClassificationPending(last)
    BY <2>1, <2>4 DEF Unchecked
  <2> HIDE DEF S
  <2>6. ASSUME NEW i \in S
        PROVE  i \in Indices(Rows) /\ ~ClassificationPending(i)
    <3>1. i \in Nat /\ last \in Nat /\ i <= last
      BY <2>1, <2>4
    <3>2. ~ClassificationPending(i)
      <4>1. CASE reading.context.open
        BY <1>1, <3>1, <4>1, PendingFacts
      <4>2. CASE ~reading.context.open
        <5> DEFINE d == app.dropped
                   n == app.progress.next_absolute
        <5>1. app.progress.some /\ d + last < n
          BY <1>1, <2>5, <3>1, <4>2, PendingFacts
        <5>2. d \in Nat /\ n \in Nat
          BY <1>1, AppFields
        <5> HIDE DEF d, n
        <5>3. d + i < n
          BY <3>1, <5>1, <5>2
        <5> QED
          BY <1>1, <3>1, <5>1, <5>3, PendingFacts DEF d, n
      <4> QED
        BY <4>1, <4>2
    <3> QED
      BY <2>1, <3>2, ChosenOnScreen
  <2> QED
    BY <1>3, <2>1, <2>2, <2>6 DEF S
<1>4. CASE target # Selection
  <2>1. Aimed(target) = {target}
    BY <1>4 DEF Aimed
  <2>2. \/ target \in Indices(Rows)
        \/ target \in Nat /\ target = reading.selected
    BY <1>4 DEF CopyFrom
  <2>3. target \in Nat
    BY <1>2, <2>2
  <2>4. ~ClassificationPending(target)
    BY <2>1, <2>3 DEF Unchecked
  <2>5. target \in Indices(Rows)
    <3>1. CASE target = reading.selected /\ target \in Nat
      <4>1. target \in Chosen(reading)
        BY <3>1, NoRowIsNone DEF Chosen
      <4> QED
        BY <2>4, <4>1, ChosenOnScreen
    <3> QED
      BY <2>2, <3>1
  <2> QED
    BY <1>4, <2>1, <2>3, <2>4, <2>5
<1> QED
  BY <1>3, <1>4

LEMMA CopyRowsKeeps ==
  ASSUME CopyAll, NEW target \in Target, CopyRows(target)
  PROVE  CopyInv'
<1>1. preparing' = preparing /\ reading' = reading /\ app' = app
  BY DEF CopyRows, pipelineVars, readingVars
<1>2. /\ CopyInv /\ CopierInv(copier, preparing, copy) /\ ReadingAll
      /\ app \in AppType /\ reading \in ReadingType
  BY DEF CopyAll, CopyInv, ReadingAll, PipelineInv, ListInv, ReadingInv
<1> DEFINE m == Cancelled(copier)
           text == Text(app, Aimed(target))
           k == m.revision + 1
           p == [generation |-> k, stamp |-> Stamp, target |-> target]
<1>3. \/ copy' = NoCopy /\ copier' = m
      \/ ~Unchecked(target) /\ copy' = [NoCopy EXCEPT !.pending = {p}] /\ copier' = Submitted(m, text)
  BY DEF CopyRows
<1>4. CASE copy' = NoCopy /\ copier' = m
  BY <1>1, <1>2, <1>4, NothingPending
<1>5. CASE ~Unchecked(target) /\ copy' = [NoCopy EXCEPT !.pending = {p}] /\ copier' = Submitted(m, text)
  <2> DEFINE R == Aimed(target)
             r == copier.revision
  <2>1. CopyFrom(target)
    BY DEF CopyRows
  <2>2. /\ R # {} /\ R \in SUBSET Nat
        /\ target = Selection => R = reading.selection.rows
        /\ target # Selection => R = {target}
        /\ \A i \in R : i \in Indices(Rows) /\ ~ClassificationPending(i)
    BY <1>2, <1>5, <2>1, AskedFacts
  <2>3. m.revision = r + 1
    BY DEF Cancelled
  <2>4. r \in Nat /\ k \in Nat /\ \A n \in Nat : n <= r => n <= k /\ n # k
    <3>1. r \in Nat
      BY <1>2 DEF CopierInv
    <3> HIDE DEF r
    <3>2. k = r + 1 + 1
      BY <2>3
    <3> HIDE DEF k
    <3> QED
      BY <3>1, <3>2
  <2>5. /\ copier'.revision = k /\ copier'.result = {}
        /\ copier'.request = {[generation |-> k, text |-> text]}
        /\ copier' = [revision |-> copier'.revision, request |-> copier'.request, result |-> copier'.result]
    BY <1>5 DEF Submitted
  <2>6. copy' = [pending |-> {p}, ready |-> {}]
    BY <1>5 DEF NoCopy
  <2>7. p.generation = k /\ p.stamp = Stamp /\ p.target = target
    OBVIOUS
  <2> HIDE DEF k, p, r, m
  <2>8. copy' = [pending |-> copy'.pending, ready |-> copy'.ready]
        /\ copy'.pending = {p} /\ copy'.ready = {}
    BY <2>6
  <2>9. preparing.stage # "idle" => preparing.generation \in Nat /\ preparing.generation <= r
    BY <1>2 DEF CopierInv, r
  <2>10. CopierInv(copier', preparing', copy')
    BY <1>1, <2>4, <2>5, <2>7, <2>8, <2>9 DEF CopierInv
  <2>11. /\ Stamp.log_epoch = app.epoch /\ Stamp.retained_base = app.dropped
         /\ Stamp.filter_generation = app.generation
         /\ Stamp.selection_revision = reading.selection.revision
    BY DEF Stamp, CopyStamp
  <2>12. text = Copied(p.stamp, R)
    BY <2>7, <2>11 DEF Text, Copied
  <2> HIDE DEF text
  <2>13. Faithful(p, text, copier', preparing', copy')
    <3>1. preparing.stage # "idle" => preparing.generation # p.generation
      BY <2>4, <2>7, <2>9
    <3>2. \A q \in copier'.request : q.text = text
      BY <2>5
    <3> QED
      BY <1>1, <2>5, <2>8, <3>1, <3>2 DEF Faithful
  <2>14. CopyOf(p, R, reading, app)
    <3>1. CASE target # Selection
      BY <2>2, <2>7, <3>1 DEF CopyOf
    <3>2. CASE target = Selection
      <4>1. /\ reading.selection.revision \in Nat /\ app.generation \in Nat /\ app.dropped \in Nat
            /\ ListInv(app)
        BY <1>2, ReadingFields, AppFields DEF ReadingAll, PipelineInv
      <4>2. AsSelected(Stamp, R, reading)
        BY <2>2, <2>11, <3>2, <4>1 DEF AsSelected
      <4>3. ASSUME ~reading.context.open
            PROVE  /\ app.progress.some
                   /\ \A i \in R : app.dropped + i < app.progress.next_absolute
        BY <2>2, <4>1, <4>3, PendingFacts
      <4>4. AsChecked(Stamp, R, reading, app)
        BY <2>11, <4>1, <4>3 DEF AsChecked
      <4> QED
        BY <2>7, <3>2, <4>2, <4>4 DEF CopyOf
    <3> QED
      BY <3>1, <3>2
  <2>15. PendingInv(p, copier', preparing', copy', reading', app')
    BY <1>1, <2>2, <2>12, <2>13, <2>14 DEF PendingInv
  <2> QED
    BY <2>8, <2>10, <2>15 DEF CopyInv
<1> QED
  BY <1>3, <1>4, <1>5

LEMMA CopySteps ==
  ASSUME CopyAll, [CopyNext]_vars
  PROVE  CopyAll'
<1>1. CASE ReadingStep
  <2>1. ReadingNext /\ UNCHANGED <<copy, copier, preparing>>
    BY <1>1 DEF ReadingStep
  <2> QED
    BY <2>1, ReadingStepKeeps
<1>2. ASSUME UNCHANGED <<pipelineVars, readingVars>>
      PROVE  ReadingAll' /\ OnceInv'
  <2>1. ReadingAll'
    BY <1>2, ReadingSteps DEF CopyAll
  <2>2. OnceInv'
    BY <1>2 DEF CopyAll, OnceInv, pipelineVars, workerVars
  <2> QED
    BY <2>1, <2>2
<1>3. CASE CopierStep
  <2>1. CopyInv'
    BY <1>3, CopierKeeps DEF CopyAll, CopierStep, pipelineVars, readingVars
  <2> QED
    BY <1>2, <1>3, <2>1 DEF CopierStep, CopyAll
<1>4. CASE \E target \in Target : CopyRows(target)
  <2>1. CopyInv'
    BY <1>4, CopyRowsKeeps
  <2>2. UNCHANGED <<pipelineVars, readingVars>>
    BY <1>4 DEF CopyRows
  <2> QED
    BY <1>2, <2>1, <2>2 DEF CopyAll
<1>5. CASE PollCopy
  <2>1. CopyInv'
    BY <1>5, PollCopyKeeps DEF CopyAll
  <2>2. UNCHANGED <<pipelineVars, readingVars>>
    BY <1>5 DEF PollCopy
  <2> QED
    BY <1>2, <2>1, <2>2 DEF CopyAll
<1>6. CASE CommitPreparedCopy \/ CancelCopy
  <2>1. /\ copy' = NoCopy /\ UNCHANGED preparing /\ UNCHANGED <<pipelineVars, readingVars>>
        /\ copier' = Cancelled(copier) \/ copier' = [copier EXCEPT !.result = {}]
    BY <1>6 DEF CommitPreparedCopy, CancelCopy
  <2>2. CopyInv'
    BY <2>1, NothingPending DEF CopyAll
  <2> QED
    BY <1>2, <2>1, <2>2 DEF CopyAll
<1>7. CASE UNCHANGED vars
  <2>1. UNCHANGED <<pipelineVars, readingVars>> /\ CopyInv'
    BY <1>7 DEF CopyAll, CopyInv, vars, copyVars, pipelineVars, readingVars
  <2> QED
    BY <1>2, <2>1 DEF CopyAll
<1> QED
  BY <1>1, <1>3, <1>4, <1>5, <1>6, <1>7 DEF CopyNext

\* With the stamp of the click, what is ready is what the copy aims at now.
LEMMA ReadyFacts ==
  ASSUME CopyInv, NEW p \in copy.pending, p.stamp = Stamp
  PROVE  \E R \in SUBSET Nat :
           /\ Faithful(p, Copied(p.stamp, R), copier, preparing, copy)
           /\ CopyOf(p, R, reading, app) /\ R = Aimed(p.target)
           /\ Copied(p.stamp, R) = Text(app, Aimed(p.target))
<1>1. PICK R \in SUBSET Nat :
        Faithful(p, Copied(p.stamp, R), copier, preparing, copy) /\ CopyOf(p, R, reading, app)
  BY DEF CopyInv, PendingInv
<1>2. /\ p.stamp.log_epoch = app.epoch /\ p.stamp.retained_base = app.dropped
      /\ p.stamp.selection_revision = reading.selection.revision
  BY DEF Stamp, CopyStamp
<1>3. R = Aimed(p.target)
  BY <1>1, <1>2 DEF CopyOf, AsSelected, Aimed
<1>4. Copied(p.stamp, R) = Text(app, Aimed(p.target))
  BY <1>2, <1>3 DEF Copied, Text
<1> QED
  BY <1>1, <1>3, <1>4

LEMMA CopyIsRight == CopyAll => ReadyCopyIsTheSelection
<1> SUFFICES ASSUME CopyAll, NEW p \in copy.pending, NEW text \in copy.ready, p.stamp = Stamp
             PROVE  text = Text(app, Aimed(p.target))
  BY DEF ReadyCopyIsTheSelection
<1>1. PICK R \in SUBSET Nat :
        /\ Faithful(p, Copied(p.stamp, R), copier, preparing, copy)
        /\ Copied(p.stamp, R) = Text(app, Aimed(p.target))
  BY ReadyFacts DEF CopyAll
<1> QED
  BY <1>1 DEF Faithful

OnlyChecked ==
  clipboard' # clipboard =>
    \A record \in clipboard' : CheckedOnScreen(record) \/ AskedAsRow(record)

LEMMA CommitChecks ==
  ASSUME CopyAll, CommitPreparedCopy, clipboard' # clipboard, NEW record \in clipboard'
  PROVE  CheckedOnScreen(record) \/ AskedAsRow(record)
<1>1. /\ copy.ready # {} /\ ~StampChanged
      /\ clipboard' = CHOOSE text \in PolledCopy.ready : TRUE
  BY DEF CommitPreparedCopy
<1>2. PICK p \in copy.pending : p.stamp = Stamp
  BY <1>1 DEF CommitPreparedCopy, StampChanged
<1>3. CopyInv /\ ReadingAll
  BY DEF CopyAll
<1>4. PICK R \in SUBSET Nat :
        /\ Faithful(p, Copied(p.stamp, R), copier, preparing, copy)
        /\ CopyOf(p, R, reading, app) /\ R = Aimed(p.target)
        /\ Copied(p.stamp, R) = Text(app, Aimed(p.target))
  BY <1>2, <1>3, ReadyFacts
<1>5. PolledCopy.ready # {} /\ PolledCopy.ready \subseteq {Copied(p.stamp, R)}
  BY <1>1, <1>3, <1>4, PolledFacts
<1>6. clipboard' = Text(app, Aimed(p.target))
  BY <1>1, <1>4, <1>5
<1>7. CASE p.target # Selection
  BY <1>6, <1>7 DEF AskedAsRow, Aimed
<1>8. CASE p.target = Selection
  <2>1. PICK i \in R : record = <<app.epoch, app.dropped + i>>
    BY <1>4, <1>6 DEF Text
  <2>2. R = reading.selection.rows
    BY <1>4, <1>8 DEF Aimed
  <2>3. /\ p.stamp.retained_base = app.dropped /\ p.stamp.filter_generation = app.generation
        /\ p.stamp.selection_revision = reading.selection.revision
    BY <1>2 DEF Stamp, CopyStamp
  <2>4. ListInv(app) /\ reading \in ReadingType
    BY <1>3 DEF ReadingAll, PipelineInv, ReadingInv
  <2>5. i \in Nat /\ i \in Chosen(reading)
    BY <2>1, <2>2, <2>4, ReadingFields
  <2>6. ~reading.context.open =>
          app.progress.some /\ app.dropped + i < app.progress.next_absolute
    BY <1>4, <1>8, <2>1, <2>3 DEF CopyOf, AsChecked
  <2>7. ~ClassificationPending(i)
    BY <2>4, <2>5, <2>6, PendingFacts
  <2>8. i \in Indices(Rows)
    BY <1>3, <2>5, <2>7, ChosenOnScreen
  <2> QED
    BY <2>1, <2>7, <2>8 DEF CheckedOnScreen
<1> QED
  BY <1>7, <1>8

LEMMA CopyChecks ==
  ASSUME CopyAll, [CopyNext]_vars
  PROVE  OnlyChecked
<1>1. CASE \E target \in Target : CopyRows(target)
  <2>1. PICK target \in Target : CopyRows(target)
    BY <1>1
  <2>2. /\ CopyFrom(target)
        /\ \/ clipboard' = clipboard
           \/ ~Unchecked(target) /\ clipboard' = Text(app, Aimed(target))
    BY <2>1 DEF CopyRows
  <2> SUFFICES ASSUME clipboard' # clipboard, NEW record \in clipboard'
               PROVE  CheckedOnScreen(record)
    BY DEF OnlyChecked
  <2>3. \A i \in Aimed(target) : i \in Indices(Rows) /\ ~ClassificationPending(i)
    BY <2>2, AskedFacts DEF CopyAll
  <2> QED
    BY <2>2, <2>3 DEF Text, CheckedOnScreen
<1>2. CASE CommitPreparedCopy
  BY <1>2, CommitChecks DEF OnlyChecked
<1>3. CASE ReadingStep \/ CopierStep \/ PollCopy \/ CancelCopy \/ UNCHANGED vars
  <2>1. clipboard' = clipboard
    BY <1>3 DEF ReadingStep, CopierStep, PollCopy, CancelCopy, vars, copyVars
  <2> QED
    BY <2>1 DEF OnlyChecked
<1> QED
  BY <1>1, <1>2, <1>3 DEF CopyNext

\* What holds of the list and of what is read of it holds while it is copied.
THEOREM CopyingKeepsReading ==
  CopySpec => [](TypeOK /\ ListIsExact /\ SelectionIsListed /\ ContextSurroundsItsOrigin)
<1>1. CopyAll => TypeOK /\ ListIsExact /\ SelectionIsListed /\ ContextSurroundsItsOrigin
  BY ListIsRight, ReadingIsRight DEF CopyAll, ReadingAll
<1>2. CopyAll /\ [CopyNext]_vars => CopyAll'
  BY CopySteps
<1> QED
  BY <1>1, <1>2, CopyStarts, PTL DEF CopySpec

\* A click on a ready copy writes the records that are selected at the click, or
\* nothing - for any list, any number of copies asked for and any order in which
\* the thread prepares them.
THEOREM ReadyStaysTheSelection == CopySpec => []ReadyCopyIsTheSelection
<1>1. CopyAll /\ [CopyNext]_vars => CopyAll'
  BY CopySteps
<1> QED
  BY <1>1, CopyStarts, CopyIsRight, PTL DEF CopySpec

\* Whatever is written to the clipboard was checked against the filter in force
\* and is on screen, or is the row its menu or its details asked for.
THEOREM NothingUncheckedIsCopied == CopySpec => OnlyCheckedRowsAreCopied
<1>1. CopyAll /\ [CopyNext]_vars => CopyAll'
  BY CopySteps
<1>2. CopyAll /\ [CopyNext]_vars =>
        [clipboard' # clipboard =>
           \A record \in clipboard' : CheckedOnScreen(record) \/ AskedAsRow(record)]_vars
  BY CopyChecks DEF OnlyChecked
<1> QED
  BY <1>1, <1>2, CopyStarts, PTL DEF CopySpec, OnlyCheckedRowsAreCopied
===============================================================================
