--------------------------- MODULE QueryPagingProofs ---------------------------
(***************************************************************************)
(* What a query promises, for all clients, requests, page sizes and files. *)
(*                                                                         *)
(* Every token verifies: whatever processes race for query.key, one key is *)
(* published, no command signs or verifies before it holds that one, and   *)
(* so every token, kept by the user or in use by a command, is signed with *)
(* it.                                                                     *)
(*                                                                         *)
(* What a command answers is exactly what its filter selects, or what      *)
(* stands around the record it asks for, and after a closure nothing that  *)
(* comes later is answered.  Both follow from PagingInv: a file only ever  *)
(* held a prefix of what was written to it, statuses and tokens point into *)
(* what was written, and the rows of a command are those between the place *)
(* its token names and the place it has come to.                           *)
(*                                                                         *)
(* And a command on a session does not fail without a reason: as long as   *)
(* nobody cuts, replaces or closes the session, what every token and every *)
(* open source knows of it is still there and still agrees, so that no     *)
(* check on the way finds anything wrong.  This follows from FairInv.      *)
(***************************************************************************)
EXTENDS QueryPaging, SequenceTheorems, FiniteSetTheorems, TLAPS

CommandFields ==
  {"pc", "request", "key", "predicate", "read", "source", "cursor", "reference",
   "page", "rows", "more_before", "more_after", "error"}

\* What the state is made of, as far as a key goes.
Shaped ==
  /\ DOMAIN cmd = Clients
  /\ DOMAIN held = {"cursor", "reference"}

\* A token signed with the key k.
Signed(t, k) == "key" \in DOMAIN t /\ t.key = k /\ k # {}

\* What a command may be: without the key it has neither signed nor verified yet.
Sound(command, k) ==
  /\ DOMAIN command = CommandFields
  /\ command.pc \notin {"idle", "key", "link"} => command.key = k /\ k # {}
  /\ \A t \in command.cursor \cup command.reference : Signed(t, k)
  /\ command.error # "invalid_token"

OneKey ==
  /\ Shaped
  /\ \A c \in Clients : Sound(cmd[c], key)
  /\ \A t \in held.cursor \cup held.reference : Signed(t, key)

\* A command's fields.
LEMMA CommandIsShaped ==
  ASSUME NEW pc, NEW r
  PROVE  /\ DOMAIN Command(pc, r) = CommandFields
         /\ Command(pc, r).pc = pc
         /\ Command(pc, r).error = "none"
         /\ Command(pc, r).cursor = {} /\ Command(pc, r).reference = {}
  BY DEF Command, CommandFields

LEMMA IdleIsShaped ==
  ASSUME NEW error
  PROVE  /\ DOMAIN Idle(error) = CommandFields
         /\ Idle(error).pc = "idle" /\ Idle(error).error = error
         /\ Idle(error).cursor = {} /\ Idle(error).reference = {}
<1> DEFINE i == Command("idle", AnyRequest)
<1>1. DOMAIN i = CommandFields /\ i.pc = "idle" /\ i.cursor = {} /\ i.reference = {}
  BY CommandIsShaped
<1> HIDE DEF i
<1>2. Idle(error) = [i EXCEPT !.error = error, !.read = StatusOf("recorded", <<>>, FALSE)]
  BY DEF Idle, i
<1> QED
  BY <1>1, <1>2 DEF CommandFields

LEMMA IdleIsSound ==
  ASSUME NEW error, error # "invalid_token"
  PROVE  Sound(Idle(error), key)
  BY IdleIsShaped DEF Sound

\* A step of one client with the key that is there.
LEMMA ClientStep ==
  ASSUME OneKey, NEW c \in Clients, NEW new, Sound(new, key), Continues(c, new),
         UNCHANGED <<key, held>>
  PROVE  OneKey'
  BY DEF OneKey, Shaped, Sound, Signed, Continues

LEMMA ClientFails ==
  ASSUME OneKey, NEW c \in Clients, NEW error, error # "invalid_token", Fails(c, error),
         UNCHANGED <<key, held>>
  PROVE  OneKey'
<1> DEFINE new == Idle(error)
<1>1. Sound(new, key)
  BY IdleIsSound
<1>2. Continues(c, new)
  BY DEF Fails
<1> HIDE DEF new
<1> QED
  BY <1>1, <1>2, ClientStep

LEMMA BeginKeepsOneKey ==
  ASSUME OneKey, NEW c \in Clients, Begin(c)
  PROVE  OneKey'
<1>1. PICK r \in Requests :
        Continues(c, [Command("key", r) EXCEPT
          !.cursor = IF r.resume /\ r.command = "query" THEN held.cursor ELSE {},
          !.reference = IF r.command = "query" THEN {} ELSE held.reference])
  BY DEF Begin
<1> DEFINE old == Command("key", r)
           cursor == IF r.resume /\ r.command = "query" THEN held.cursor ELSE {}
           reference == IF r.command = "query" THEN {} ELSE held.reference
           new == [old EXCEPT !.cursor = cursor, !.reference = reference]
<1>2. DOMAIN old = CommandFields /\ old.pc = "key" /\ old.error = "none"
  BY CommandIsShaped
<1>3. \A t \in cursor \cup reference : Signed(t, key)
  BY DEF OneKey
<1>4. Continues(c, new)
  BY <1>1
<1> HIDE DEF old, cursor, reference
<1>5. /\ DOMAIN new = CommandFields /\ new.pc = "key" /\ new.error = "none"
      /\ new.cursor = cursor /\ new.reference = reference
  BY <1>2 DEF CommandFields
<1> HIDE DEF new
<1>6. Sound(new, key)
  BY <1>3, <1>5 DEF Sound
<1> QED
  BY <1>4, <1>6, ClientStep DEF Begin

LEMMA LoadKeyKeepsOneKey ==
  ASSUME OneKey, NEW c \in Clients, LoadKey(c)
  PROVE  OneKey'
<1> DEFINE new == IF key # {} THEN [cmd[c] EXCEPT !.key = key, !.pc = "status"]
                  ELSE [cmd[c] EXCEPT !.pc = "link"]
<1>1. Sound(cmd[c], key)
  BY DEF OneKey
<1>2. Sound(new, key)
  BY <1>1 DEF Sound, CommandFields
<1> HIDE DEF new
<1> QED
  BY <1>2, ClientStep DEF LoadKey, new

\* The first link wins: when there is no key yet, no one has signed anything.
LEMMA LinkKeyKeepsOneKey ==
  ASSUME OneKey, NEW c \in Clients, LinkKey(c)
  PROVE  OneKey'
<1> DEFINE new == [cmd[c] EXCEPT !.key = key', !.pc = "status"]
<1>1. Sound(cmd[c], key) /\ key' # {} /\ (key # {} => key' = key) /\ UNCHANGED held
  BY DEF OneKey, LinkKey
<1>2. cmd' = [cmd EXCEPT ![c] = new]
  BY DEF LinkKey, Continues
<1>3. /\ DOMAIN new = CommandFields /\ new.key = key'
      /\ new.cursor = cmd[c].cursor /\ new.reference = cmd[c].reference
      /\ new.error = cmd[c].error
  BY <1>1 DEF Sound, CommandFields
<1> HIDE DEF new
<1>4. \A t : Signed(t, key) => Signed(t, key')
  BY <1>1 DEF Signed
<1>5. \A command : Sound(command, key) => Sound(command, key')
  BY <1>1, <1>4 DEF Sound, Signed
<1>6. Sound(new, key')
  BY <1>1, <1>3, <1>4 DEF Sound
<1> QED
  BY <1>1, <1>2, <1>4, <1>5, <1>6 DEF OneKey, Shaped

\* A command that holds the key refuses no token.
LEMMA ReadStatusKeepsOneKey ==
  ASSUME OneKey, NEW c \in Clients, ReadStatus(c)
  PROVE  OneKey'
<1>1. Sound(cmd[c], key) /\ cmd[c].pc = "status"
  BY DEF OneKey, ReadStatus, At
<1>2. ~\E t \in cmd[c].cursor \cup cmd[c].reference : ~Verifies(t, cmd[c].key)
  BY <1>1 DEF Sound, Signed, Verifies
<1> DEFINE predicate == Predicate(cmd[c].request.filter, TimeAnchor(cmd[c].cursor))
           new == [cmd[c] EXCEPT !.predicate = predicate, !.read = Effective, !.pc = "open"]
<1>3. Fails(c, "cursor_mismatch") \/ Continues(c, new)
  BY <1>2 DEF ReadStatus
<1>4. Sound(new, key)
  BY <1>1 DEF Sound, CommandFields
<1> HIDE DEF new
<1> QED
  BY <1>3, <1>4, ClientStep, ClientFails DEF ReadStatus

LEMMA OtherLinksKeyKeepsOneKey ==
  ASSUME OneKey, OtherLinksKey
  PROVE  OneKey'
  BY DEF OneKey, Shaped, Sound, Signed, OtherLinksKey

LEMMA OnlyIsMember ==
  ASSUME NEW x, x # {}
  PROVE  Only(x) \in x
  BY DEF Only

\* A page's cursor is signed with the key of the command, whether it is the
\* first of a chain or goes on from an earlier one.
LEMMA OpenSourceKeepsOneKey ==
  ASSUME OneKey, NEW c \in Clients, OpenSource(c)
  PROVE  OneKey'
<1> DEFINE command == cmd[c]
           o == Opened(command.request.session, command.read,
                       {t.binding : t \in command.cursor \cup command.reference})
           s == o.source
           Scanning(source, cursor) ==
             [command EXCEPT !.source = source, !.cursor = cursor, !.pc = "scan"]
           Scans(source, cursor) == Continues(c, Scanning(source, cursor))
<1>1. Sound(command, key) /\ command.pc = "open" /\ UNCHANGED <<key, held>>
  BY DEF OneKey, OpenSource, At
<1>2. ASSUME NEW source, NEW cursor, \A t \in cursor : Signed(t, key), Scans(source, cursor)
      PROVE  OneKey'
  <2> DEFINE new == Scanning(source, cursor)
  <2>1. Sound(new, key)
    BY <1>1, <1>2 DEF Sound, CommandFields
  <2> HIDE DEF new
  <2> QED
    BY <1>1, <1>2, <2>1, ClientStep DEF new
<1>3. ASSUME NEW error, error \in {"not_ready", "stale", "invalid"}, Fails(c, error)
      PROVE  OneKey'
  BY <1>1, <1>3, ClientFails
<1>4. o.error \in {"none", "not_ready", "stale", "invalid"}
  BY DEF Opened
<1>5. CASE o.error # "none"
  BY <1>3, <1>4, <1>5 DEF OpenSource
<1>6. CASE o.error = "none" /\ command.reference # {}
  <2>1. \/ Scans(Pinned(s, Only(command.reference).upper), {})
        \/ Fails(c, "stale")
    BY <1>6 DEF OpenSource
  <2> QED
    BY <1>2, <1>3, <2>1
<1>7. CASE o.error = "none" /\ command.reference = {} /\ command.cursor # {}
  <2> DEFINE k == Resumed(Only(command.cursor), s)
  <2>1. Fails(c, "stale") \/ Scans(Pinned(s, k.upper), {k})
    BY <1>7 DEF OpenSource
  <2>2. Signed(Only(command.cursor), key)
    BY <1>1, <1>7, OnlyIsMember DEF Sound
  <2>3. Signed(k, key)
    BY <2>2 DEF Resumed, Signed
  <2> HIDE DEF k, o, Scanning
  <2>4. \A t \in {k} : Signed(t, key)
    BY <2>3
  <2> QED
    BY <1>2, <1>3, <2>1, <2>4
<1>8. CASE o.error = "none" /\ command.reference = {} /\ command.cursor = {}
  <2> DEFINE k == NewCursor(c, s)
  <2>1. Fails(c, "invalid") \/ Scans(s, {k})
    BY <1>8 DEF OpenSource
  <2>2. Signed(k, key)
    BY <1>1 DEF NewCursor, Signed, Sound
  <2> HIDE DEF k, o, Scanning
  <2>3. \A t \in {k} : Signed(t, key)
    BY <2>2
  <2> QED
    BY <1>2, <1>3, <2>1, <2>3
<1> QED
  BY <1>5, <1>6, <1>7, <1>8

LEMMA ScanPageKeepsOneKey ==
  ASSUME OneKey, NEW c \in Clients, ScanPage(c)
  PROVE  OneKey'
<1> DEFINE k == Only(cmd[c].cursor)
           s == cmd[c].source
           next(n) == Advanced(k, s, n)
           new(n) == [cmd[c] EXCEPT !.cursor = {next(n)}, !.page = k.offset,
                                    !.rows = next(n).seen, !.pc = "check"]
<1>1. Sound(cmd[c], key) /\ cmd[c].pc = "scan" /\ UNCHANGED <<key, held>> /\ cmd[c].cursor # {}
  BY DEF OneKey, ScanPage, At
<1>2. Fails(c, "invalid") \/ \E n : Continues(c, new(n))
  BY DEF ScanPage
<1>3. Signed(k, key)
  BY <1>1, OnlyIsMember DEF Sound
<1>4. ASSUME NEW n
      PROVE  Signed(next(n), key)
  BY <1>3 DEF Signed, Advanced
<1>5. ASSUME NEW n
      PROVE  Sound(new(n), key)
  <2> HIDE DEF next
  <2> QED
    BY <1>1, <1>4 DEF Sound, CommandFields
<1> HIDE DEF new
<1> QED
  BY Zenon, <1>1, <1>2, <1>5, ClientStep, ClientFails

LEMMA ScanOneKeepsOneKey ==
  ASSUME OneKey, NEW c \in Clients, ScanGet(c) \/ ScanContext(c)
  PROVE  OneKey'
<1> DEFINE get(rows) == [cmd[c] EXCEPT !.rows = rows, !.pc = "check"]
           context(rows, before, after) ==
             [cmd[c] EXCEPT !.rows = rows, !.more_before = before, !.more_after = after,
                            !.pc = "check"]
<1>1. Sound(cmd[c], key) /\ cmd[c].pc = "scan" /\ UNCHANGED <<key, held>>
  BY DEF OneKey, ScanGet, ScanContext, At
<1>2. \/ Fails(c, "invalid")
      \/ \E rows : Continues(c, get(rows))
      \/ \E rows, before, after : Continues(c, context(rows, before, after))
  <2>1. CASE ScanGet(c)
    BY <2>1 DEF ScanGet
  <2>2. CASE ScanContext(c)
    BY <2>2 DEF ScanContext
  <2> QED
    BY <2>1, <2>2
<1>3. ASSUME NEW rows
      PROVE  Sound(get(rows), key)
  BY <1>1 DEF Sound, CommandFields
<1>4. ASSUME NEW rows, NEW before, NEW after
      PROVE  Sound(context(rows, before, after), key)
  BY <1>1 DEF Sound, CommandFields
<1> HIDE DEF get, context
<1> QED
  BY Zenon, <1>1, <1>2, <1>3, <1>4, ClientStep, ClientFails

\* The user keeps what a checked command signed.
LEMMA CheckKeepsOneKey ==
  ASSUME OneKey, NEW c \in Clients, Check(c)
  PROVE  OneKey'
<1> DEFINE command == cmd[c]
           again == [command EXCEPT !.pc = "status"]
<1>1. Sound(command, key) /\ command.pc = "check" /\ UNCHANGED key
  BY DEF OneKey, Check, At
<1>2. CASE ~Current(command.source, Upper(command))
  BY <1>1, <1>2, ClientFails DEF Check
<1>3. CASE Current(command.source, Upper(command)) /\ GoesOn(command)
  <2>1. Continues(c, again) /\ UNCHANGED held
    BY <1>3 DEF Check
  <2>2. Sound(again, key)
    BY <1>1 DEF Sound, CommandFields
  <2> HIDE DEF again
  <2> QED
    BY <1>1, <2>1, <2>2, ClientStep
<1>4. CASE Current(command.source, Upper(command)) /\ ~GoesOn(command)
  <2> DEFINE new == Idle("none")
  <2>1. cmd' = [cmd EXCEPT ![c] = new] /\ Keeps(command)
    BY <1>4 DEF Check, Continues
  <2>2. Sound(new, key)
    BY IdleIsSound
  <2>3. \A r \in References(command) : Signed(r, key)
    BY <1>1 DEF References, Sound, Signed
  <2>4. /\ DOMAIN held' = {"cursor", "reference"}
        /\ \A t \in held'.cursor \cup held'.reference : Signed(t, key)
    BY <1>1, <2>1, <2>3 DEF Keeps, OneKey, Shaped, Sound
  <2> HIDE DEF new
  <2> QED
    BY <1>1, <2>1, <2>2, <2>4 DEF OneKey, Shaped
<1> QED
  BY <1>2, <1>3, <1>4

LEMMA OneKeyStep == OneKey /\ [Next]_vars => OneKey'
<1> SUFFICES ASSUME OneKey, [Next]_vars
             PROVE  OneKey'
  OBVIOUS
<1>1. ASSUME NEW c \in Clients, Step(c)
      PROVE  OneKey'
  BY <1>1, BeginKeepsOneKey, LoadKeyKeepsOneKey, LinkKeyKeepsOneKey, ReadStatusKeepsOneKey,
     OpenSourceKeepsOneKey, ScanPageKeepsOneKey, ScanOneKeepsOneKey, CheckKeepsOneKey DEF Step
<1>2. CASE UNCHANGED <<key, cmd, held, commands>>
  BY <1>2 DEF OneKey, Shaped
<1> QED
  BY <1>1, <1>2, OtherLinksKeyKeepsOneKey DEF Next, vars

LEMMA OneKeyHolds == Spec => []OneKey
<1>1. Init => OneKey
  <2> SUFFICES ASSUME Init
               PROVE  OneKey
    OBVIOUS
  <2>1. Sound(Idle("none"), key)
    BY IdleIsSound
  <2>2. \A c \in Clients : cmd[c] = Idle("none")
    BY DEF Init
  <2> QED
    BY <2>1, <2>2 DEF Init, OneKey, Shaped
<1> QED
  BY <1>1, OneKeyStep, PTL DEF Spec

\* Whoever made the key, a token that a command signed verifies in every later
\* one: no command refuses a token the program gave out (Signer::load, open).
THEOREM TokensAlwaysVerify == Spec => []TokensVerify
<1>1. OneKey => TokensVerify
  BY DEF OneKey, Sound, Signed, TokensVerify
<1> QED
  BY <1>1, OneKeyHolds, PTL

-------------------------------------------------------------------------------
(* What is collected from lines *)

LineType ==
  [kind : {"header", "record", "end", "hole"}, artifact : Artifacts \cup {"none"},
   seq : Nat, count : Nat]

UpTo(S, n) == {m \in S : m <= n}

\* The n-th number of a set.
Nth(S, n) == CHOOSE i \in S : Cardinality({j \in S : j <= i}) = n

LEMMA RankGrows ==
  ASSUME NEW S \in SUBSET Nat, IsFiniteSet(S)
  PROVE  /\ Cardinality(S) \in Nat
         /\ \A n \in S : Cardinality(UpTo(S, n)) \in 1 .. Cardinality(S)
         /\ \A m, n \in S : m < n => Cardinality(UpTo(S, m)) < Cardinality(UpTo(S, n))
<1>1. Cardinality(S) \in Nat
  BY FS_CardinalityType
<1>2. \A n \in S : /\ IsFiniteSet(UpTo(S, n)) /\ Cardinality(UpTo(S, n)) \in Nat
                   /\ Cardinality(UpTo(S, n)) <= Cardinality(S)
  <2>1. \A n \in S : UpTo(S, n) \in SUBSET S
    BY DEF UpTo
  <2> QED
    BY <2>1, FS_Subset, FS_CardinalityType
<1>3. ASSUME NEW n \in S PROVE Cardinality(UpTo(S, n)) # 0
  <2>1. n \in UpTo(S, n)
    BY DEF UpTo
  <2> QED
    BY <1>2, <2>1, FS_EmptySet
<1>4. ASSUME NEW m \in S, NEW n \in S, m < n
      PROVE  Cardinality(UpTo(S, m)) < Cardinality(UpTo(S, n))
  <2>1. UpTo(S, m) \subseteq UpTo(S, n) /\ n \in UpTo(S, n) /\ n \notin UpTo(S, m)
    <3>1. m \in Nat /\ n \in Nat /\ ~(n <= m)
      BY <1>4
    <3>2. \A i \in S : i <= m => i <= n
      BY <1>4, <3>1
    <3>3. UpTo(S, m) \subseteq UpTo(S, n)
      BY <3>2 DEF UpTo
    <3>4. n \in UpTo(S, n)
      BY <3>1 DEF UpTo
    <3>5. n \notin UpTo(S, m)
      BY <3>1 DEF UpTo
    <3> QED
      BY <3>3, <3>4, <3>5
  <2>2. Cardinality(UpTo(S, m)) <= Cardinality(UpTo(S, n))
    BY <1>2, <2>1, FS_Subset
  <2>3. Cardinality(UpTo(S, m)) # Cardinality(UpTo(S, n))
    BY <1>2, <2>1, FS_Subset
  <2> QED
    BY <1>2, <2>2, <2>3
<1> QED
  BY <1>1, <1>2, <1>3, <1>4

\* There is one number of each rank.
LEMMA NthFacts ==
  ASSUME NEW S \in SUBSET Nat, IsFiniteSet(S), NEW k \in 1 .. Cardinality(S)
  PROVE  /\ Nth(S, k) \in S /\ Cardinality(UpTo(S, Nth(S, k))) = k
         /\ \A n \in S : Cardinality(UpTo(S, n)) = k => n = Nth(S, k)
<1> DEFINE c == Cardinality(S)
           rank == [n \in S |-> Cardinality(UpTo(S, n))]
<1>1. c \in Nat /\ IsFiniteSet(1 .. c) /\ Cardinality(1 .. c) = c
  <2>1. c \in Nat
    BY FS_CardinalityType
  <2>2. IsFiniteSet(1 .. c) /\ Cardinality(1 .. c) = (IF 1 > c THEN 0 ELSE c - 1 + 1)
    BY <2>1, FS_Interval
  <2> QED
    BY <2>1, <2>2
<1>2. rank \in [S -> 1 .. c]
  BY RankGrows
<1>3. \A m, n \in S : rank[m] = rank[n] => m = n
  <2> SUFFICES ASSUME NEW m \in S, NEW n \in S, rank[m] = rank[n], m # n
               PROVE  FALSE
    OBVIOUS
  <2>1. m \in Nat /\ n \in Nat /\ (m < n \/ n < m)
    OBVIOUS
  <2>2. rank[m] < rank[n] \/ rank[n] < rank[m]
    BY <2>1, RankGrows
  <2>3. rank[m] \in Nat
    BY <1>1, <1>2
  <2> QED
    BY <2>2, <2>3
<1>4. rank \in Injection(S, 1 .. c)
  BY <1>2, <1>3 DEF Injection, IsInjective
<1>5. rank \in Surjection(S, 1 .. c)
  BY <1>1, <1>4, FS_Injection
<1>6. PICK n \in S : rank[n] = k
  BY <1>5 DEF Surjection
<1>7. Nth(S, k) \in S /\ rank[Nth(S, k)] = k
  BY <1>6 DEF Nth, UpTo
<1> QED
  BY <1>3, <1>7

Shifted(m, S) == {m + j : j \in S}

LEMMA ShiftedFacts ==
  ASSUME NEW m \in Nat, NEW S \in SUBSET Nat, IsFiniteSet(S)
  PROVE  IsFiniteSet(Shifted(m, S)) /\ Cardinality(Shifted(m, S)) = Cardinality(S)
<1> DEFINE f == [j \in S |-> m + j]
<1>1. \A i, j \in S : m + i = m + j => i = j
  OBVIOUS
<1>2. f \in Bijection(S, Shifted(m, S))
  BY <1>1 DEF Bijection, Injection, IsInjective, Surjection, Shifted
<1>3. ExistsBijection(S, Shifted(m, S))
  BY <1>2 DEF ExistsBijection
<1> QED
  BY <1>3, FS_Bijection

\* Of the numbers up to m and those after it, the ones up to m come first.
LEMMA NthOfBoth ==
  ASSUME NEW m \in Nat, NEW P \in SUBSET (1 .. m), NEW Q \in SUBSET (Nat \ {0}),
         IsFiniteSet(Q)
  PROVE  LET both == P \cup Shifted(m, Q)
             p == Cardinality(P)
             q == Cardinality(Q)
         IN /\ p \in Nat /\ q \in Nat /\ Cardinality(both) = p + q
            /\ \A k \in 1 .. p : Nth(both, k) = Nth(P, k)
            /\ \A k \in 1 .. q : Nth(both, p + k) = m + Nth(Q, k)
<1> DEFINE both == P \cup Shifted(m, Q)
           p == Cardinality(P)
           q == Cardinality(Q)
<1>1. IsFiniteSet(P) /\ P \in SUBSET Nat /\ Q \in SUBSET Nat /\ p \in Nat /\ q \in Nat
  <2>1. IsFiniteSet(1 .. m)
    BY FS_Interval
  <2>2. IsFiniteSet(P)
    BY <2>1, FS_Subset
  <2>3. P \in SUBSET Nat
    OBVIOUS
  <2> QED
    BY <2>2, <2>3, FS_CardinalityType
<1>2. \A S \in SUBSET Q : IsFiniteSet(Shifted(m, S)) /\ Cardinality(Shifted(m, S)) = Cardinality(S)
  BY <1>1, ShiftedFacts, FS_Subset
<1>3. ASSUME NEW S \in SUBSET Q
      PROVE  /\ P \cap Shifted(m, S) = {}
             /\ IsFiniteSet(P \cup Shifted(m, S))
             /\ Cardinality(P \cup Shifted(m, S)) = p + Cardinality(S)
  <2>1. \A j \in S : m + j \notin 1 .. m
    OBVIOUS
  <2>2. P \cap Shifted(m, S) = {}
    BY <2>1 DEF Shifted
  <2>3. /\ IsFiniteSet(P \cup Shifted(m, S))
        /\ Cardinality(P \cup Shifted(m, S))
             = Cardinality(P) + Cardinality(Shifted(m, S)) - Cardinality(P \cap Shifted(m, S))
    BY <1>1, <1>2, FS_Union
  <2>4. Cardinality(P \cap Shifted(m, S)) = 0
    BY <2>2, FS_EmptySet
  <2>5. Cardinality(S) \in Nat
    BY FS_Subset, FS_CardinalityType
  <2> QED
    BY <1>1, <1>2, <2>2, <2>3, <2>4, <2>5
<1>4. both \in SUBSET Nat /\ IsFiniteSet(both) /\ Cardinality(both) = p + q
  <2>1. \A j \in Q : m + j \in Nat
    BY <1>1
  <2>2. Shifted(m, Q) \in SUBSET Nat
    BY <2>1 DEF Shifted
  <2>3. both \in SUBSET Nat
    BY <1>1, <2>2
  <2> QED
    BY <1>3, <2>3
<1>5. ASSUME NEW k \in 1 .. p
      PROVE  Nth(both, k) = Nth(P, k)
  <2> DEFINE i == Nth(P, k)
  <2>1. i \in P /\ Cardinality(UpTo(P, i)) = k
    BY <1>1, NthFacts
  <2>2. UpTo(both, i) = UpTo(P, i)
    <3>1. i \in 1 .. m
      BY <2>1
    <3> HIDE DEF i
    <3>2. \A j \in Q : ~(m + j <= i)
      BY <3>1
    <3> QED
      BY <3>2 DEF UpTo, Shifted
  <2>3. k \in 1 .. Cardinality(both)
    BY <1>1, <1>4
  <2> QED
    BY <1>4, <2>1, <2>2, <2>3, NthFacts
<1>6. ASSUME NEW k \in 1 .. q
      PROVE  Nth(both, p + k) = m + Nth(Q, k)
  <2> DEFINE i == Nth(Q, k)
  <2>1. i \in Q /\ Cardinality(UpTo(Q, i)) = k
    BY <1>1, NthFacts
  <2> HIDE DEF i
  <2>2. UpTo(both, m + i) = P \cup Shifted(m, UpTo(Q, i))
    <3>1. i \in Nat /\ \A j \in P : j \in Nat /\ j <= m + i
      BY <2>1
    <3>2. \A j \in Q : m + j <= m + i <=> j <= i
      BY <3>1
    <3> QED
      BY <3>1, <3>2 DEF UpTo, Shifted
  <2>3. Cardinality(UpTo(both, m + i)) = p + k
    <3>1. UpTo(Q, i) \in SUBSET Q
      BY DEF UpTo
    <3> HIDE DEF p
    <3> QED
      BY <1>3, <2>1, <2>2, <3>1
  <2>4. m + i \in both
    BY <2>1 DEF Shifted
  <2>5. p + k \in 1 .. Cardinality(both)
    <3> HIDE DEF p, q, both
    <3> QED
      BY <1>1, <1>4
  <2> HIDE DEF both, p
  <2>6. \A n \in both : Cardinality(UpTo(both, n)) = p + k => n = Nth(both, p + k)
    BY <1>4, <2>5, NthFacts
  <2>7. m + i = Nth(both, p + k)
    BY <2>3, <2>4, <2>6
  <2> QED
    BY <2>7 DEF i
<1> QED
  BY <1>1, <1>4, <1>5, <1>6

LEMMA PickedFacts ==
  ASSUME NEW T, NEW lines \in Seq(T), NEW places \in SUBSET (1 .. Len(lines))
  PROVE  /\ Picked(lines, places) \in Seq(T)
         /\ Cardinality(places) \in Nat
         /\ Len(Picked(lines, places)) = Cardinality(places)
         /\ \A k \in 1 .. Cardinality(places) :
              /\ Picked(lines, places)[k] = lines[Nth(places, k)]
              /\ Nth(places, k) \in places
<1> DEFINE p == Picked(lines, places)
           c == Cardinality(places)
<1>1. IsFiniteSet(places) /\ places \in SUBSET Nat /\ c \in Nat
  <2>1. IsFiniteSet(1 .. Len(lines)) /\ 1 .. Len(lines) \in SUBSET Nat
    BY FS_Interval
  <2>2. IsFiniteSet(places)
    BY <2>1, FS_Subset
  <2> QED
    BY <2>1, <2>2, FS_CardinalityType
<1>2. p = [k \in 1 .. c |-> lines[Nth(places, k)]]
  BY DEF Picked, Nth
<1>3. \A k \in 1 .. c : Nth(places, k) \in places /\ lines[Nth(places, k)] \in T
  <2>1. \A k \in 1 .. c : Nth(places, k) \in places
    BY <1>1, NthFacts
  <2>2. \A i \in places : lines[i] \in T
    OBVIOUS
  <2> QED
    BY <2>1, <2>2
<1> HIDE DEF p, c
<1>4. p \in Seq(T) /\ Len(p) = c
  BY <1>1, <1>2, <1>3
<1> QED
  BY <1>1, <1>2, <1>3, <1>4 DEF p, c

LEMMA PickedOfNothing == \A lines : Picked(lines, {}) = <<>>
<1>1. Cardinality({}) = 0
  BY FS_EmptySet
<1>2. 1 .. 0 = {}
  OBVIOUS
<1> QED
  BY <1>1, <1>2 DEF Picked

\* What is collected from two pieces is collected from one after the other.
LEMMA PickedOfBoth ==
  ASSUME NEW a \in Seq(LineType), NEW b \in Seq(LineType),
         NEW P \in SUBSET (1 .. Len(a)), NEW Q \in SUBSET (1 .. Len(b))
  PROVE  Picked(a \o b, P \cup Shifted(Len(a), Q)) = Picked(a, P) \o Picked(b, Q)
<1> DEFINE m == Len(a)
           n == Len(b)
           p == Cardinality(P)
           q == Cardinality(Q)
           both == P \cup Shifted(m, Q)
           ab == a \o b
           left == Picked(ab, both)
           right == Picked(a, P) \o Picked(b, Q)
<1>1. /\ ab \in Seq(LineType) /\ m \in Nat /\ n \in Nat /\ Len(ab) = m + n
      /\ \A k \in 1 .. m : ab[k] = a[k]
      /\ \A k \in 1 .. n : ab[m + k] = b[k]
  <2>1. /\ ab \in Seq(LineType) /\ Len(ab) = m + n
        /\ \A k \in 1 .. m + n : ab[k] = IF k <= m THEN a[k] ELSE b[k - m]
    BY ConcatProperties
  <2>2. m \in Nat /\ n \in Nat
    OBVIOUS
  <2>3. ASSUME NEW k \in 1 .. n PROVE ab[m + k] = b[k]
    <3>1. m + k \in 1 .. m + n /\ ~(m + k <= m) /\ (m + k) - m = k
      BY <2>2
    <3> QED
      BY <2>1, <3>1
  <2> HIDE DEF ab, m, n
  <2>4. \A k \in 1 .. m : ab[k] = a[k]
    BY <2>1, <2>2
  <2> QED
    BY <2>1, <2>2, <2>3, <2>4
<1>2. both \in SUBSET (1 .. m + n)
  <2>1. \A j \in Q : m + j \in 1 .. m + n
    BY <1>1
  <2>2. \A j \in P : j \in 1 .. m + n
    BY <1>1
  <2> QED
    BY <2>1, <2>2 DEF Shifted
<1>3. /\ p \in Nat /\ q \in Nat /\ Cardinality(both) = p + q
      /\ \A k \in 1 .. p : Nth(both, k) = Nth(P, k)
      /\ \A k \in 1 .. q : Nth(both, p + k) = m + Nth(Q, k)
  <2>1. Q \in SUBSET (Nat \ {0})
    <3>1. \A j \in Q : j \in Nat \ {0}
      OBVIOUS
    <3> QED
      BY <3>1
  <2>2. IsFiniteSet(Q)
    <3>1. IsFiniteSet(1 .. Len(b))
      BY FS_Interval
    <3> QED
      BY <3>1, FS_Subset
  <2> QED
    BY <1>1, <2>1, <2>2, NthOfBoth
<1>4. /\ Picked(a, P) \in Seq(LineType) /\ Len(Picked(a, P)) = p
      /\ \A k \in 1 .. p : Picked(a, P)[k] = a[Nth(P, k)] /\ Nth(P, k) \in 1 .. m
  BY PickedFacts
<1>5. /\ Picked(b, Q) \in Seq(LineType) /\ Len(Picked(b, Q)) = q
      /\ \A k \in 1 .. q : Picked(b, Q)[k] = b[Nth(Q, k)] /\ Nth(Q, k) \in 1 .. n
  BY PickedFacts
<1>6. /\ left \in Seq(LineType) /\ Len(left) = p + q
      /\ \A k \in 1 .. p + q : left[k] = ab[Nth(both, k)]
  <2> HIDE DEF ab, both, p, q, m, n
  <2>1. both \in SUBSET (1 .. Len(ab))
    BY <1>1, <1>2
  <2> QED
    BY <1>1, <1>3, <2>1, PickedFacts
<1>7. /\ right \in Seq(LineType) /\ Len(right) = p + q
      /\ \A k \in 1 .. p + q :
           right[k] = IF k <= p THEN Picked(a, P)[k] ELSE Picked(b, Q)[k - p]
  <2> HIDE DEF p, q
  <2> QED
    BY <1>4, <1>5, ConcatProperties
<1> HIDE DEF p, q, m, n, both, ab, left, right
<1>8. ASSUME NEW k \in 1 .. p + q
      PROVE  left[k] = right[k]
  <2>1. CASE k <= p
    <3>1. k \in 1 .. p
      BY <1>3, <2>1
    <3>2. left[k] = ab[Nth(P, k)] /\ right[k] = a[Nth(P, k)] /\ Nth(P, k) \in 1 .. m
      BY <1>3, <1>4, <1>6, <1>7, <2>1, <3>1
    <3> QED
      BY <1>1, <3>2
  <2>2. CASE ~(k <= p)
    <3> DEFINE j == k - p
    <3>1. j \in 1 .. q /\ p + j = k
      BY <1>3, <2>2
    <3>2. left[k] = ab[Nth(both, k)] /\ right[k] = Picked(b, Q)[j]
      BY <1>6, <1>7, <2>2
    <3> HIDE DEF j
    <3>3. Nth(both, k) = m + Nth(Q, j)
      <4>1. Nth(both, p + j) = m + Nth(Q, j)
        BY <1>3, <3>1
      <4> QED
        BY <3>1, <4>1
    <3>4. Picked(b, Q)[j] = b[Nth(Q, j)] /\ Nth(Q, j) \in 1 .. n
      BY <1>5, <3>1
    <3>5. ab[m + Nth(Q, j)] = b[Nth(Q, j)]
      BY <1>1, <3>4
    <3> QED
      BY <3>2, <3>3, <3>4, <3>5
  <2> QED
    BY <2>1, <2>2
<1>9. left = right
  BY <1>3, <1>6, <1>7, <1>8, SeqEqual
<1> QED
  BY <1>9 DEF left, right, ab, both, m

\* The lines from one place to another, and those that follow them.
Passed(lines, from, to) == SubSeq(lines, from + 1, to)

LEMMA PassedFacts ==
  ASSUME NEW lines \in Seq(LineType), NEW from \in Nat, NEW to \in Nat,
         to <= Len(lines)
  PROVE  /\ Passed(lines, from, to) \in Seq(LineType)
         /\ Len(Passed(lines, from, to)) = IF from <= to THEN to - from ELSE 0
         /\ \A i \in 1 .. to - from : Passed(lines, from, to)[i] = lines[from + i]
         /\ from = to => Passed(lines, from, to) = <<>>
<1>1. \A i \in from + 1 .. to : lines[i] \in LineType
  <2>1. \A i \in from + 1 .. to : i \in 1 .. Len(lines)
    OBVIOUS
  <2> QED
    BY <2>1
<1>2. /\ SubSeq(lines, from + 1, to) \in Seq(LineType)
      /\ Len(SubSeq(lines, from + 1, to)) = IF from + 1 <= to THEN to - (from + 1) + 1 ELSE 0
      /\ \A i \in 1 .. to - (from + 1) + 1 : SubSeq(lines, from + 1, to)[i] = lines[(from + 1) + i - 1]
  BY <1>1, SubSeqProperties
<1>3. from = to => SubSeq(lines, from + 1, to) = <<>>
  BY SubSeqEmpty
<1> HIDE <1>2
<1>4. Len(SubSeq(lines, from + 1, to)) = IF from <= to THEN to - from ELSE 0
  BY <1>2
<1>5. \A i \in 1 .. to - from : SubSeq(lines, from + 1, to)[i] = lines[from + i]
  <2> SUFFICES ASSUME NEW i \in 1 .. to - from
               PROVE  SubSeq(lines, from + 1, to)[i] = lines[from + i]
    OBVIOUS
  <2>1. i \in 1 .. to - (from + 1) + 1 /\ (from + 1) + i - 1 = from + i
    OBVIOUS
  <2> QED
    BY <1>2, <2>1
<1> QED
  BY <1>2, <1>3, <1>4, <1>5 DEF Passed

LEMMA PassedBetween ==
  ASSUME NEW lines \in Seq(LineType), NEW from \in Nat, NEW to \in Nat,
         from <= to, to <= Len(lines)
  PROVE  /\ Passed(lines, from, to) \in Seq(LineType)
         /\ Len(Passed(lines, from, to)) = to - from
         /\ \A i \in 1 .. to - from : Passed(lines, from, to)[i] = lines[from + i]
  BY PassedFacts

LEMMA PassedGrows ==
  ASSUME NEW lines \in Seq(LineType), NEW from \in Nat, NEW to \in Nat, NEW n \in Nat,
         from <= to, to + n <= Len(lines)
  PROVE  Passed(lines, from, to + n) = Passed(lines, from, to) \o Passed(lines, to, to + n)
<1>1. from + 1 \in 1 .. Len(lines) + 1 /\ to \in (from + 1) - 1 .. Len(lines) /\ to + n \in to .. Len(lines)
  OBVIOUS
<1> QED
  BY <1>1, ConcatAdjacentSubSeq DEF Passed

\* What was passed depends on the lines up to there.
LEMMA PassedAgrees ==
  ASSUME NEW a \in Seq(LineType), NEW b \in Seq(LineType), NEW from \in Nat, NEW to \in Nat
  PROVE  to <= Len(a) /\ to <= Len(b) /\ (\A i \in 1 .. to : a[i] = b[i])
           => Passed(a, from, to) = Passed(b, from, to)
<1> DEFINE s == Passed(a, from, to)
           t == Passed(b, from, to)
<1>1. to <= Len(a) =>
        /\ s \in Seq(LineType) /\ Len(s) = (IF from <= to THEN to - from ELSE 0)
        /\ \A i \in 1 .. to - from : s[i] = a[from + i]
  BY PassedFacts
<1>2. to <= Len(b) =>
        /\ t \in Seq(LineType) /\ Len(t) = (IF from <= to THEN to - from ELSE 0)
        /\ \A i \in 1 .. to - from : t[i] = b[from + i]
  BY PassedFacts
<1> HIDE DEF s, t
<1> SUFFICES ASSUME to <= Len(a), to <= Len(b), \A i \in 1 .. to : a[i] = b[i]
             PROVE  s = t
  BY DEF s, t
<1>3. \A i \in 1 .. Len(s) : s[i] = t[i]
  <2>1. Len(s) \in Nat /\ Len(s) = IF from <= to THEN to - from ELSE 0
    BY <1>1
  <2>2. \A i \in 1 .. to - from : from + i \in 1 .. to
    OBVIOUS
  <2>3. \A i \in 1 .. to - from : s[i] = t[i]
    BY <1>1, <1>2, <2>2
  <2> QED
    BY <2>1, <2>3
<1> QED
  BY <1>1, <1>2, <1>3, SeqEqual

LEMMA SelectedFacts ==
  ASSUME NEW lines \in Seq(LineType), NEW predicate
  PROVE  /\ Selected(predicate, lines) \in Seq(LineType)
         /\ \A i \in DOMAIN Selected(predicate, lines) : \E j \in 1 .. Len(lines) :
              Selected(predicate, lines)[i] = lines[j] /\ Matches(predicate, lines[j])
<1> DEFINE places == {i \in DOMAIN lines : Matches(predicate, lines[i])}
<1>1. places \in SUBSET (1 .. Len(lines))
  OBVIOUS
<1>2. \A i \in places : Matches(predicate, lines[i])
  OBVIOUS
<1>3. Selected(predicate, lines) = Picked(lines, places)
  BY DEF Selected
<1> HIDE DEF places
<1>4. /\ Picked(lines, places) \in Seq(LineType) /\ Len(Picked(lines, places)) = Cardinality(places)
      /\ \A k \in 1 .. Cardinality(places) :
           Picked(lines, places)[k] = lines[Nth(places, k)] /\ Nth(places, k) \in places
  BY <1>1, PickedFacts
<1> DEFINE s == Selected(predicate, lines)
<1>5. /\ s \in Seq(LineType) /\ DOMAIN s = 1 .. Cardinality(places)
      /\ \A k \in 1 .. Cardinality(places) : s[k] = lines[Nth(places, k)] /\ Nth(places, k) \in places
  BY <1>3, <1>4
<1> HIDE DEF s
<1>6. \A i \in DOMAIN s : \E j \in 1 .. Len(lines) :
        s[i] = lines[j] /\ Matches(predicate, lines[j])
  BY <1>1, <1>2, <1>5
<1> QED
  BY <1>5, <1>6 DEF s

\* What a filter selects of two pieces is what it selects of one and of the other.
LEMMA SelectedOfBoth ==
  ASSUME NEW a \in Seq(LineType), NEW b \in Seq(LineType), NEW predicate
  PROVE  Selected(predicate, a \o b) = Selected(predicate, a) \o Selected(predicate, b)
<1>0. ASSUME NEW P \in SUBSET (1 .. Len(a)), NEW Q \in SUBSET (1 .. Len(b))
      PROVE  Picked(a \o b, P \cup Shifted(Len(a), Q)) = Picked(a, P) \o Picked(b, Q)
  BY <1>0, PickedOfBoth, ZenonT(40)
<1> DEFINE ab == a \o b
           m == Len(a)
           P == {i \in DOMAIN a : Matches(predicate, a[i])}
           Q == {i \in DOMAIN b : Matches(predicate, b[i])}
           R == {i \in DOMAIN ab : Matches(predicate, ab[i])}
<1>1. /\ m \in Nat /\ Len(b) \in Nat /\ ab \in Seq(LineType)
      /\ DOMAIN ab = 1 .. m + Len(b) /\ DOMAIN a = 1 .. m /\ DOMAIN b = 1 .. Len(b)
      /\ \A k \in 1 .. m + Len(b) : ab[k] = IF k <= m THEN a[k] ELSE b[k - m]
  BY ConcatProperties
<1>2. R = P \cup Shifted(m, Q)
  <2> HIDE DEF ab, m
  <2>1. ASSUME NEW i \in R PROVE i \in P \cup Shifted(m, Q)
    <3>1. CASE i <= m
      BY <1>1, <3>1
    <3>2. CASE ~(i <= m)
      <4>1. i - m \in DOMAIN b /\ ab[i] = b[i - m] /\ i = m + (i - m)
        BY <1>1, <3>2
      <4>2. i - m \in Q
        BY <4>1
      <4> QED
        BY <4>1, <4>2 DEF Shifted
    <3> QED
      BY <3>1, <3>2
  <2>2. ASSUME NEW i \in P PROVE i \in R
    BY <1>1
  <2>3. ASSUME NEW j \in Q PROVE m + j \in R
    <3>1. m + j \in DOMAIN ab /\ ~(m + j <= m) /\ (m + j) - m = j
      BY <1>1
    <3>2. ab[m + j] = b[j]
      BY <1>1, <3>1
    <3> QED
      BY <3>1, <3>2
  <2> QED
    BY <2>1, <2>2, <2>3 DEF Shifted
<1>3. P \in SUBSET (1 .. Len(a)) /\ Q \in SUBSET (1 .. Len(b))
  BY <1>1
<1>4. Picked(ab, P \cup Shifted(m, Q)) = Picked(a, P) \o Picked(b, Q)
  <2> HIDE DEF P, Q
  <2>1. Picked(a \o b, P \cup Shifted(Len(a), Q)) = Picked(a, P) \o Picked(b, Q)
    BY <1>3, <1>0, Zenon
  <2> QED
    BY <2>1
<1> QED
  BY <1>2, <1>4 DEF Selected

\* Records are what the filter selects that lets every record pass.
LEMMA RecordsAreSelected ==
  ASSUME NEW lines \in Seq(LineType)
  PROVE  Records(lines) = Selected(Predicate("any", 0), lines)
<1>1. Predicate("any", 0).since = 0
  BY DEF Predicate
<1>2. \A i \in DOMAIN lines : lines[i].seq \in Nat
  <2>1. \A i \in DOMAIN lines : lines[i] \in LineType
    OBVIOUS
  <2> QED
    BY <2>1 DEF LineType
<1>3. \A i \in DOMAIN lines : lines[i].kind = "record" <=> Matches(Predicate("any", 0), lines[i])
  BY <1>1, <1>2 DEF Matches
<1>4. {i \in DOMAIN lines : lines[i].kind = "record"}
        = {i \in DOMAIN lines : Matches(Predicate("any", 0), lines[i])}
  BY <1>3
<1> QED
  BY <1>4 DEF Records, Selected

LEMMA RecordsFacts ==
  ASSUME NEW lines \in Seq(LineType)
  PROVE  /\ Records(lines) \in Seq(LineType) /\ Len(Records(lines)) \in Nat
         /\ LastSeq(lines) \in Nat
<1>1. Records(lines) \in Seq(LineType)
  BY RecordsAreSelected, SelectedFacts
<1>2. Len(Records(lines)) \in Nat
  BY <1>1
<1>3. CASE Records(lines) # <<>>
  <2>1. Len(Records(lines)) \in 1 .. Len(Records(lines))
    BY <1>1, <1>3, EmptySeq
  <2>2. Records(lines)[Len(Records(lines))] \in LineType
    BY <1>1, <2>1
  <2> QED
    BY <1>1, <1>2, <1>3, <2>2 DEF LastSeq, LineType
<1>4. CASE Records(lines) = <<>>
  BY <1>1, <1>2, <1>4 DEF LastSeq
<1> QED
  BY <1>1, <1>2, <1>3, <1>4

LEMMA RecordsOfBoth ==
  ASSUME NEW a \in Seq(LineType), NEW b \in Seq(LineType)
  PROVE  Len(Records(a \o b)) = Len(Records(a)) + Len(Records(b))
<1>1. a \o b \in Seq(LineType)
  BY ConcatProperties
<1>2. Records(a \o b) = Records(a) \o Records(b)
  <2> DEFINE p == Predicate("any", 0)
  <2> HIDE DEF p
  <2>1. Records(a \o b) = Selected(p, a \o b)
    BY <1>1, RecordsAreSelected DEF p
  <2>2. Records(a) = Selected(p, a) /\ Records(b) = Selected(p, b)
    BY RecordsAreSelected DEF p
  <2>3. Selected(p, a \o b) = Selected(p, a) \o Selected(p, b)
    BY SelectedOfBoth
  <2> QED
    BY <2>1, <2>2, <2>3
<1>3. Records(a) \in Seq(LineType) /\ Records(b) \in Seq(LineType)
  BY RecordsFacts
<1> QED
  BY <1>2, <1>3, ConcatProperties

LEMMA NoRecords ==
  ASSUME NEW lines, \A i \in DOMAIN lines : lines[i].kind # "record"
  PROVE  Records(lines) = <<>>
<1>1. {i \in DOMAIN lines : lines[i].kind = "record"} = {}
  OBVIOUS
<1> QED
  BY <1>1, PickedOfNothing DEF Records

-------------------------------------------------------------------------------
(* What was written and what is left of it *)

BoundaryType == [offset : Nat, seq : Nat]
StatusType == [artifact : Artifacts, end : BoundaryType, entries : Nat, final : BOOLEAN]

LEMMA LineFacts ==
  ASSUME NEW a \in Artifacts, NEW n \in Nat, NEW m \in Nat
  PROVE  /\ Header(a) \in LineType /\ Header(a).kind = "header" /\ Header(a).artifact = a
         /\ Record(a, n) \in LineType /\ Record(a, n).kind = "record" /\ Record(a, n).seq = n
         /\ End(a, n, m) \in LineType /\ End(a, n, m).kind = "end"
         /\ Hole \in LineType /\ Hole.kind = "hole"
  BY DEF Header, Record, End, Hole, Line, LineType

\* The lines a session wrote: header, numbered records, and maybe the footer.
Written(lines, a) ==
  /\ lines \in Seq(LineType) /\ lines # <<>>
  /\ lines[1] = Header(a)
  /\ \A i \in 2 .. Len(lines) :
       \/ lines[i] = Record(a, i - 1)
       \/ lines[i] = End(a, i - 2, i - 2) /\ i = Len(lines)

NoEnd(lines) == \A i \in 1 .. Len(lines) : lines[i].kind # "end"

\* What is left of them in a file: a beginning, with holes.
Left(lines, whole) ==
  /\ lines \in Seq(LineType) /\ lines # <<>>
  /\ lines[1] = whole[1]
  /\ Len(lines) <= Len(whole)
  /\ \A i \in 1 .. Len(lines) : lines[i] \in {whole[i], Hole}

\* A session that is not over goes on.
Grown(lines, more) ==
  \/ more = lines
  \/ NoEnd(lines) /\ \E line \in LineType : more = Append(lines, line)

\* A boundary is in what was written, and no record before it has a later number.
Reaches(b, lines) ==
  /\ b \in BoundaryType
  /\ b.offset <= Len(lines)
  /\ \A i \in 1 .. b.offset : lines[i].kind = "record" => lines[i].seq <= b.seq

StatusInv(st, h) == st \in StatusType /\ Reaches(st.end, h[st.artifact])

ArchiveType ==
  /\ DOMAIN files = Id /\ DOMAIN history = Artifacts
  /\ path \in Id
  /\ recorder \in {"running", "ending", "ended"}

ArchiveInv ==
  /\ ArchiveType
  /\ history["other"] = Other
  /\ \A a \in Artifacts : Written(history[a], a)
  /\ \A id \in Id : files[id] = <<>> \/ \E a \in Artifacts : Left(files[id], history[a])
  /\ files[path] # <<>>
  /\ recorder # "ended" => Left(files[1], history["recorded"])
  /\ recorder = "running" => NoEnd(history["recorded"])
  /\ \A st \in {status} \cup closure \cup closer : StatusInv(st, history)

LEMMA WrittenFacts ==
  ASSUME NEW a \in Artifacts, NEW lines, Written(lines, a)
  PROVE  /\ lines \in Seq(LineType) /\ Len(lines) \in Nat /\ Len(lines) >= 1
         /\ lines[1].artifact = a /\ lines[1].kind = "header"
         /\ \A i \in 1 .. Len(lines) :
              /\ lines[i] \in LineType
              /\ lines[i].kind = "end" => i = Len(lines)
              /\ i >= 2 => lines[i].kind \in {"record", "end"}
              /\ lines[i].kind = "record" => lines[i].seq = i - 1
<1>1. lines \in Seq(LineType) /\ Len(lines) \in Nat /\ Len(lines) >= 1
  BY EmptySeq DEF Written
<1>2. lines[1].artifact = a /\ lines[1].kind = "header"
  BY DEF Written, Header, Line
<1>3. ASSUME NEW i \in 1 .. Len(lines)
      PROVE  /\ lines[i] \in LineType
             /\ lines[i].kind = "end" => i = Len(lines)
             /\ i >= 2 => lines[i].kind \in {"record", "end"}
             /\ lines[i].kind = "record" => lines[i].seq = i - 1
  <2>1. lines[i] \in LineType
    BY <1>1
  <2>2. CASE i = 1
    BY <1>2, <2>1, <2>2
  <2>3. CASE i # 1
    <3>1. i \in 2 .. Len(lines) /\ i - 1 \in Nat /\ i - 2 \in Nat
      BY <1>1, <2>3
    <3>2. \/ lines[i] = Record(a, i - 1)
          \/ lines[i] = End(a, i - 2, i - 2) /\ i = Len(lines)
      BY <3>1 DEF Written
    <3> QED
      BY <2>1, <3>1, <3>2, LineFacts
  <2> QED
    BY <2>2, <2>3
<1> QED
  BY <1>1, <1>2, <1>3

\* A session that is not over is a header and a record in every line after it.
LEMMA RecordCount ==
  ASSUME NEW a \in Artifacts, NEW lines, Written(lines, a), NoEnd(lines)
  PROVE  Len(Records(lines)) = Len(lines) - 1
<1> DEFINE places == {i \in DOMAIN lines : lines[i].kind = "record"}
<1>1. places = 2 .. Len(lines)
  <2>1. /\ DOMAIN lines = 1 .. Len(lines) /\ Len(lines) \in Nat
        /\ \A i \in 1 .. Len(lines) :
             i >= 2 => lines[i].kind = "record"
        /\ lines[1].kind = "header"
    BY WrittenFacts DEF NoEnd
  <2> QED
    BY <2>1
<1>2. Len(Records(lines)) = Cardinality(places)
  <2>1. lines \in Seq(LineType) /\ places \in SUBSET (1 .. Len(lines))
    BY WrittenFacts
  <2> HIDE DEF places
  <2>2. Len(Picked(lines, places)) = Cardinality(places)
    BY <2>1, PickedFacts
  <2> QED
    BY <2>2 DEF Records, places
<1>3. Len(lines) \in Nat /\ Len(lines) >= 1
  BY WrittenFacts
<1>4. Cardinality(2 .. Len(lines)) = IF 2 > Len(lines) THEN 0 ELSE Len(lines) - 2 + 1
  BY <1>3, FS_Interval
<1> HIDE DEF places
<1>5. Cardinality(places) = Len(lines) - 1
  BY <1>1, <1>3, <1>4
<1> QED
  BY <1>2, <1>5

-------------------------------------------------------------------------------
(* What is known of an archive stays true *)

LEMMA GrownFacts ==
  ASSUME NEW lines \in Seq(LineType), NEW more, Grown(lines, more)
  PROVE  /\ more \in Seq(LineType) /\ Len(lines) \in Nat /\ Len(more) \in Nat
         /\ Len(lines) <= Len(more)
         /\ \A i \in 1 .. Len(lines) : more[i] = lines[i]
<1>1. CASE more = lines
  BY <1>1
<1>2. CASE more # lines
  <2>1. PICK line \in LineType : more = Append(lines, line)
    BY <1>2 DEF Grown
  <2>2. /\ more \in Seq(LineType) /\ Len(more) = Len(lines) + 1
        /\ \A i \in 1 .. Len(lines) : more[i] = lines[i]
    BY <2>1, AppendProperties
  <2> QED
    BY <2>2
<1> QED
  BY <1>1, <1>2

LEMMA GrownByNothing ==
  ASSUME NEW lines
  PROVE  Grown(lines, lines)
  BY DEF Grown

LEMMA LeftStays ==
  ASSUME NEW whole \in Seq(LineType), NEW more, Grown(whole, more), NEW lines, Left(lines, whole)
  PROVE  Left(lines, more)
<1>1. lines \in Seq(LineType) /\ lines # <<>> /\ Len(lines) \in Nat /\ Len(lines) >= 1
  BY EmptySeq DEF Left
<1>2. /\ Len(whole) \in Nat /\ Len(more) \in Nat /\ Len(whole) <= Len(more)
      /\ \A i \in 1 .. Len(whole) : more[i] = whole[i]
  BY GrownFacts
<1>3. Len(lines) <= Len(whole) /\ lines[1] = whole[1]
      /\ \A i \in 1 .. Len(lines) : lines[i] \in {whole[i], Hole}
  BY DEF Left
<1>4. \A i \in 1 .. Len(lines) : more[i] = whole[i]
  BY <1>1, <1>2, <1>3
<1> QED
  BY <1>1, <1>2, <1>3, <1>4 DEF Left

LEMMA ReachesStays ==
  ASSUME NEW lines \in Seq(LineType), NEW more, Grown(lines, more), NEW b, Reaches(b, lines)
  PROVE  Reaches(b, more)
<1>1. /\ Len(lines) \in Nat /\ Len(more) \in Nat /\ Len(lines) <= Len(more)
      /\ \A i \in 1 .. Len(lines) : more[i] = lines[i]
  BY GrownFacts
<1>2. b \in BoundaryType /\ b.offset \in Nat /\ b.offset <= Len(lines)
  BY DEF Reaches, BoundaryType
<1>3. \A i \in 1 .. b.offset : more[i] = lines[i]
  BY <1>1, <1>2
<1> QED
  BY <1>1, <1>2, <1>3 DEF Reaches

\* What the recorder adds leaves the file as it was, holes and all.
LEMMA ExtendedIsLeft ==
  ASSUME NEW lines, NEW line \in LineType, history["recorded"] \in Seq(LineType),
         Left(lines, history["recorded"])
  PROVE  Left(Extended(lines, line), Append(history["recorded"], line))
<1> DEFINE whole == history["recorded"]
           n == Len(whole)
           e == Extended(lines, line)
           more == Append(whole, line)
<1>1. /\ lines \in Seq(LineType) /\ Len(lines) \in Nat /\ Len(lines) >= 1
      /\ Len(lines) <= n /\ lines[1] = whole[1]
      /\ \A i \in 1 .. Len(lines) : lines[i] \in {whole[i], Hole} /\ lines[i] \in LineType
  BY EmptySeq DEF Left
<1>2. n \in Nat /\ Hole \in LineType
  BY DEF Hole, Line, LineType
<1>3. /\ more \in Seq(LineType) /\ Len(more) = n + 1
      /\ more[n + 1] = line
      /\ \A i \in 1 .. n : more[i] = whole[i]
  BY AppendProperties
<1>4. e = [i \in 1 .. n + 1 |-> IF i <= Len(lines) THEN lines[i] ELSE IF i <= n THEN Hole ELSE line]
  BY DEF Extended
<1> HIDE DEF e, n, more, whole
<1>5. e \in Seq(LineType) /\ Len(e) = n + 1
  <2>1. e \in [1 .. n + 1 -> LineType]
    BY <1>1, <1>2, <1>4
  <2> QED
    BY <1>2, <2>1
<1>6. \A i \in 1 .. n + 1 : e[i] \in {more[i], Hole}
  <2> SUFFICES ASSUME NEW i \in 1 .. n + 1 PROVE e[i] \in {more[i], Hole}
    OBVIOUS
  <2>1. CASE i <= n
    BY <1>1, <1>2, <1>3, <1>4, <2>1
  <2>2. CASE ~(i <= n)
    <3>1. i = n + 1 /\ ~(i <= Len(lines))
      BY <1>1, <1>2, <2>2
    <3> QED
      BY <1>3, <1>4, <2>2, <3>1
  <2> QED
    BY <2>1, <2>2
<1>7. e[1] = more[1]
  BY <1>1, <1>2, <1>3, <1>4
<1>8. e # <<>>
  BY <1>2, <1>5
<1>9. Left(e, more)
  BY <1>2, <1>3, <1>5, <1>6, <1>7, <1>8 DEF Left
<1> QED
  BY <1>9 DEF e, more, whole

\* A status tells of the last record there is.
LEMMA LastSeqFacts ==
  ASSUME NEW a \in Artifacts, NEW lines, Written(lines, a)
  PROVE  /\ LastSeq(lines) \in Nat
         /\ \A i \in 1 .. Len(lines) : lines[i].kind = "record" => lines[i].seq <= LastSeq(lines)
<1> DEFINE places == {i \in DOMAIN lines : lines[i].kind = "record"}
           c == Cardinality(places)
<1>1. /\ lines \in Seq(LineType) /\ Len(lines) \in Nat /\ DOMAIN lines = 1 .. Len(lines)
      /\ \A i \in 1 .. Len(lines) : lines[i].kind = "record" => lines[i].seq = i - 1
  BY WrittenFacts
<1>2. LastSeq(lines) \in Nat
  BY <1>1, RecordsFacts
<1>3. /\ places \in SUBSET (1 .. Len(lines)) /\ places \in SUBSET Nat
      /\ \A i \in 1 .. Len(lines) : lines[i].kind = "record" <=> i \in places
  BY <1>1
<1>4. Records(lines) = Picked(lines, places)
  BY DEF Records
<1> HIDE DEF places
<1>5. /\ c \in Nat /\ Len(Picked(lines, places)) = c
      /\ \A k \in 1 .. c : Picked(lines, places)[k] = lines[Nth(places, k)] /\ Nth(places, k) \in places
  BY <1>1, <1>3, PickedFacts
<1>6. IsFiniteSet(places)
  <2>1. IsFiniteSet(1 .. Len(lines))
    BY <1>1, FS_Interval
  <2> QED
    BY <1>3, <2>1, FS_Subset
<1>7. ASSUME NEW i \in places PROVE lines[i].seq <= LastSeq(lines)
  <2>1. c >= 1
    <3>1. c # 0
      BY <1>6, <1>7, FS_EmptySet
    <3> QED
      BY <1>5, <3>1
  <2> DEFINE last == Nth(places, c)
  <2>2. last \in places /\ Picked(lines, places)[c] = lines[last] /\ Picked(lines, places) # <<>>
    BY <1>5, <2>1
  <2>3. LastSeq(lines) = lines[last].seq
    BY <1>4, <1>5, <2>2 DEF LastSeq
  <2>4. Cardinality(UpTo(places, last)) = c
    BY <1>3, <1>5, <1>6, <2>1, NthFacts
  <2> HIDE DEF last
  <2>5. i <= last
    <3>1. ~(last < i)
      <4>1. Cardinality(UpTo(places, i)) \in 1 .. c
        BY <1>3, <1>6, <1>7, RankGrows
      <4>2. last < i => Cardinality(UpTo(places, last)) < Cardinality(UpTo(places, i))
        BY <1>3, <1>6, <1>7, <2>2, RankGrows
      <4> QED
        BY <1>5, <2>4, <4>1, <4>2
    <3>2. last \in Nat /\ i \in Nat
      BY <1>3, <1>7, <2>2
    <3> QED
      BY <3>1, <3>2
  <2>6. lines[i].seq = i - 1 /\ lines[last].seq = last - 1
    BY <1>1, <1>3, <1>7, <2>2
  <2>7. i \in Nat /\ last \in Nat
    BY <1>3, <1>7, <2>2
  <2> QED
    BY <2>3, <2>5, <2>6, <2>7
<1> QED
  BY <1>2, <1>3, <1>7

LEMMA StatusFacts ==
  ASSUME NEW a \in Artifacts, NEW lines, Written(lines, a), NEW final \in BOOLEAN
  PROVE  /\ StatusOf(a, lines, final) \in StatusType /\ StatusOf(a, lines, final).artifact = a
         /\ Reaches(StatusOf(a, lines, final).end, lines)
<1> DEFINE b == Boundary(Len(lines), LastSeq(lines))
           n == Len(Records(lines))
           st == [artifact |-> a, end |-> b, entries |-> n, final |-> final]
<1>1. lines \in Seq(LineType) /\ Len(lines) \in Nat
  BY WrittenFacts
<1>2. n \in Nat
  BY <1>1, RecordsFacts
<1>3. /\ LastSeq(lines) \in Nat
      /\ \A i \in 1 .. Len(lines) : lines[i].kind = "record" => lines[i].seq <= LastSeq(lines)
  BY LastSeqFacts
<1>4. b \in BoundaryType /\ b.offset = Len(lines) /\ b.seq = LastSeq(lines)
  BY <1>1, <1>3 DEF BoundaryType, Boundary
<1>5. Reaches(b, lines)
  BY <1>1, <1>3, <1>4 DEF Reaches
<1>6. StatusOf(a, lines, final) = st
  BY DEF StatusOf
<1> HIDE DEF b, n
<1>7. st \in StatusType /\ st.artifact = a /\ st.end = b
  BY <1>2, <1>4 DEF StatusType
<1> QED
  BY <1>5, <1>6, <1>7

\* The first status tells of nothing.
LEMMA FirstStatus ==
  ASSUME NEW h
  PROVE  Len(h["recorded"]) \in Nat => StatusInv(StatusOf("recorded", <<>>, FALSE), h)
<1> DEFINE b == Boundary(0, 0)
           st == [artifact |-> "recorded", end |-> b, entries |-> 0, final |-> FALSE]
<1>1. Records(<<>>) = <<>>
  <2>1. \A i \in DOMAIN <<>> : <<>>[i].kind # "record"
    OBVIOUS
  <2> QED
    BY <2>1, NoRecords
<1>2. StatusOf("recorded", <<>>, FALSE) = st
  BY <1>1 DEF StatusOf, LastSeq
<1>3. b \in BoundaryType /\ b.offset = 0
  BY DEF BoundaryType, Boundary
<1> HIDE DEF b
<1>4. st \in StatusType /\ st.artifact = "recorded" /\ st.end = b
  BY <1>3 DEF StatusType, Artifacts
<1>5. Len(h["recorded"]) \in Nat => Reaches(b, h["recorded"])
  BY <1>3 DEF Reaches
<1> QED
  BY <1>2, <1>4, <1>5 DEF StatusInv

LEMMA AppendFacts ==
  ASSUME NEW a \in Artifacts, NEW lines, Written(lines, a), NoEnd(lines)
  PROVE  LET n == Len(Records(lines)) IN
         /\ n \in Nat
         /\ Record(a, n + 1) \in LineType /\ End(a, n, n) \in LineType
         /\ Written(Append(lines, Record(a, n + 1)), a) /\ NoEnd(Append(lines, Record(a, n + 1)))
         /\ Written(Append(lines, End(a, n, n)), a)
<1> DEFINE n == Len(Records(lines))
           m == Len(lines)
<1>1. lines \in Seq(LineType) /\ m \in Nat /\ m >= 1 /\ n = m - 1 /\ n \in Nat
  BY WrittenFacts, RecordCount
<1> HIDE DEF n
<1>2. /\ Record(a, n + 1) \in LineType /\ Record(a, n + 1).kind = "record"
      /\ End(a, n, n) \in LineType
  BY <1>1, LineFacts
<1>3. ASSUME NEW line \in LineType, line = Record(a, n + 1) \/ line = End(a, n, n)
      PROVE  Written(Append(lines, line), a)
  <2> DEFINE more == Append(lines, line)
  <2>1. /\ more \in Seq(LineType) /\ Len(more) = m + 1 /\ more[m + 1] = line
        /\ \A i \in 1 .. m : more[i] = lines[i]
    BY <1>1, AppendProperties
  <2>2. more # <<>> /\ more[1] = Header(a)
    BY <1>1, <2>1 DEF Written
  <2> HIDE DEF more
  <2>3. ASSUME NEW i \in 2 .. Len(more)
        PROVE  \/ more[i] = Record(a, i - 1)
               \/ more[i] = End(a, i - 2, i - 2) /\ i = Len(more)
    <3>1. CASE i = m + 1
      <4>1. i - 1 = n + 1 /\ i - 2 = n
        BY <1>1, <3>1
      <4> QED
        BY <1>3, <2>1, <3>1, <4>1
    <3>2. CASE i # m + 1
      <4>1. i \in 2 .. m
        BY <1>1, <2>1, <3>2
      <4>2. \/ lines[i] = Record(a, i - 1)
            \/ lines[i] = End(a, i - 2, i - 2)
        BY <4>1 DEF Written
      <4>3. lines[i].kind # "end" /\ more[i] = lines[i]
        BY <1>1, <2>1, <4>1 DEF NoEnd
      <4>4. End(a, i - 2, i - 2).kind = "end"
        BY DEF End, Line
      <4> QED
        BY <4>2, <4>3, <4>4
    <3> QED
      BY <3>1, <3>2
  <2>4. Written(more, a)
    BY <2>1, <2>2, <2>3 DEF Written
  <2> QED
    BY <2>4 DEF more
<1>4. NoEnd(Append(lines, Record(a, n + 1)))
  <2> DEFINE line == Record(a, n + 1)
             more == Append(lines, line)
  <2> HIDE DEF line
  <2>1. /\ Len(more) = m + 1 /\ more[m + 1] = line
        /\ \A i \in 1 .. m : more[i] = lines[i]
    BY <1>1, <1>2, AppendProperties DEF line
  <2> HIDE DEF more
  <2>2. \A i \in 1 .. m + 1 : more[i].kind # "end"
    <3>1. line.kind # "end"
      BY <1>2 DEF line
    <3>2. \A i \in 1 .. m : lines[i].kind # "end"
      BY DEF NoEnd
    <3>3. \A i \in 1 .. m + 1 : i = m + 1 \/ i \in 1 .. m
      BY <1>1
    <3> QED
      BY <2>1, <3>1, <3>2, <3>3
  <2> QED
    BY <2>1, <2>2 DEF NoEnd, more, line
<1> QED
  BY <1>1, <1>2, <1>3, <1>4 DEF n

-------------------------------------------------------------------------------
(* Steps of those who write *)

\* What was written is never taken back, and no file that is open is replaced.
Onward(open) ==
  /\ \A a \in Artifacts : Grown(history[a], history'[a])
  /\ \A id \in open \cap Id, a \in Artifacts :
       Left(files[id], history[a]) => Left(files'[id], history'[a])

LEMMA OtherFacts == Other \in Seq(LineType) /\ Written(Other, "other") /\ Left(Other, Other)
<1>1. "other" \in Artifacts
  BY DEF Artifacts
<1>2. /\ Header("other") \in LineType /\ Record("other", 1) \in LineType
      /\ Record("other", 2) \in LineType /\ End("other", 2, 2) \in LineType
  BY DEF Artifacts, Header, Record, End, Line, LineType
<1> DEFINE w == Header("other")
           x == Record("other", 1)
           y == Record("other", 2)
           z == End("other", 2, 2)
           lines == <<w, x, y, z>>
<1>3. Other = lines
  BY DEF Other
<1> HIDE DEF w, x, y, z
<1>4. w \in LineType /\ x \in LineType /\ y \in LineType /\ z \in LineType
  BY <1>2 DEF w, x, y, z
<1>5. /\ lines \in Seq(LineType) /\ Len(lines) = 4 /\ lines # <<>>
      /\ lines[1] = w /\ lines[2] = x /\ lines[3] = y /\ lines[4] = z
  BY <1>4
<1> HIDE DEF lines
<1>6. ASSUME NEW i \in 2 .. 4
      PROVE  \/ lines[i] = Record("other", i - 1)
             \/ lines[i] = End("other", i - 2, i - 2) /\ i = 4
  <2>1. CASE i = 2
    BY <1>5, <2>1 DEF x
  <2>2. CASE i = 3
    BY <1>5, <2>2 DEF y
  <2>3. CASE i = 4
    BY <1>5, <2>3 DEF z
  <2> QED
    BY <2>1, <2>2, <2>3
<1>7. Written(lines, "other")
  BY <1>5, <1>6 DEF Written, w
<1>8. Left(lines, lines)
  BY <1>5 DEF Left
<1> QED
  BY <1>3, <1>5, <1>7, <1>8

LEMMA StatusStays ==
  ASSUME ArchiveInv, \A a \in Artifacts : Grown(history[a], history'[a]),
         NEW st, StatusInv(st, history)
  PROVE  StatusInv(st, history')
<1>1. st \in StatusType /\ st.artifact \in Artifacts /\ Reaches(st.end, history[st.artifact])
  BY DEF StatusInv, StatusType
<1>2. history[st.artifact] \in Seq(LineType)
  BY <1>1 DEF ArchiveInv, Written
<1>3. Reaches(st.end, history'[st.artifact])
  BY <1>1, <1>2, ReachesStays
<1> QED
  BY <1>1, <1>3 DEF StatusInv

\* A step that writes nothing and changes no file.
LEMMA NothingWritten ==
  ASSUME ArchiveInv, UNCHANGED <<files, path, history>>, NEW open,
         recorder' \in {"running", "ending", "ended"},
         recorder' # "ended" => recorder # "ended", recorder' = "running" => recorder = "running",
         \A st \in {status'} \cup closure' \cup closer' : StatusInv(st, history)
  PROVE  ArchiveInv' /\ Onward(open)
<1>1. ArchiveType' /\ Onward(open)
  <2>1. ArchiveType'
    BY DEF ArchiveInv, ArchiveType
  <2>2. files' = files /\ history' = history
    OBVIOUS
  <2>3. \A a \in Artifacts : Grown(history[a], history'[a])
    BY <2>2, GrownByNothing
  <2> QED
    BY <2>1, <2>2, <2>3 DEF Onward
<1>2. /\ history["other"]' = Other
      /\ \A a \in Artifacts : Written(history'[a], a)
      /\ \A id \in Id : files'[id] = <<>> \/ \E a \in Artifacts : Left(files'[id], history'[a])
      /\ files'[path'] # <<>>
  BY DEF ArchiveInv
<1>3. /\ recorder' # "ended" => Left(files'[1], history'["recorded"])
      /\ recorder' = "running" => NoEnd(history'["recorded"])
  BY DEF ArchiveInv
<1> QED
  BY <1>1, <1>2, <1>3 DEF ArchiveInv

LEMMA PublishKeepsArchive ==
  ASSUME ArchiveInv, NEW open, PublishStatus \/ RecorderDies \/ ReadToClose \/ LinkClosure
  PROVE  ArchiveInv' /\ Onward(open)
<1>1. Written(history["recorded"], "recorded") /\ "recorded" \in Artifacts
  BY DEF ArchiveInv, Artifacts
<1>2. \A st \in {status} \cup closure \cup closer : StatusInv(st, history)
  BY DEF ArchiveInv
<1>3. recorder \in {"running", "ending", "ended"}
  BY DEF ArchiveInv, ArchiveType
<1>4. CASE PublishStatus
  <2> DEFINE new == StatusOf("recorded", history["recorded"], recorder = "ending")
  <2>1. new \in StatusType /\ new.artifact = "recorded" /\ Reaches(new.end, history["recorded"])
    <3>1. (recorder = "ending") \in BOOLEAN
      OBVIOUS
    <3> QED
      BY <1>1, <3>1, StatusFacts
  <2>2. StatusInv(new, history) /\ status' = new
    BY <1>4, <2>1 DEF StatusInv, PublishStatus
  <2> HIDE DEF new
  <2> QED
    BY <1>2, <1>3, <1>4, <2>2, NothingWritten DEF PublishStatus
<1>5. CASE RecorderDies
  BY <1>2, <1>5, NothingWritten DEF RecorderDies
<1>6. CASE ReadToClose
  BY <1>2, <1>3, <1>6, NothingWritten DEF ReadToClose
<1>7. CASE LinkClosure
  BY <1>2, <1>3, <1>7, NothingWritten DEF LinkClosure
<1> QED
  BY <1>4, <1>5, <1>6, <1>7

\* A file is left of what the artifact in its header wrote, and of no other.
LEMMA LeftOfOne ==
  ASSUME ArchiveInv, NEW lines, NEW a \in Artifacts, NEW b \in Artifacts,
         Left(lines, history[a]), Left(lines, history[b])
  PROVE  a = b
<1>1. /\ lines[1] = history[a][1] /\ lines[1] = history[b][1]
      /\ history[a][1] = Header(a) /\ history[b][1] = Header(b)
  BY DEF Left, ArchiveInv, Written
<1>2. Header(a).artifact = a /\ Header(b).artifact = b
  BY DEF Header, Line
<1> QED
  BY <1>1, <1>2

LEMMA AppendsKeepArchive ==
  ASSUME ArchiveInv, NEW open, NEW line \in LineType, recorder = "running", Appends(line),
         Written(Append(history["recorded"], line), "recorded"),
         recorder' \in {"running", "ending"},
         recorder' = "running" => NoEnd(Append(history["recorded"], line)),
         UNCHANGED <<path, status, closure, closer>>
  PROVE  ArchiveInv' /\ Onward(open)
<1> DEFINE whole == history["recorded"]
           more == Append(whole, line)
           e == Extended(files[1], line)
<1>1. /\ files' = [files EXCEPT ![1] = e] /\ DOMAIN files = Id /\ DOMAIN history = Artifacts
      /\ history' = [history EXCEPT !["recorded"] = more]
      /\ 1 \in Id /\ "recorded" \in Artifacts /\ "other" \in Artifacts
  BY DEF ArchiveInv, ArchiveType, Appends, Id, Artifacts
<1>2. /\ Left(files[1], whole) /\ whole \in Seq(LineType) /\ NoEnd(whole)
  BY DEF ArchiveInv, Written, Artifacts
<1>3. Left(e, more)
  BY <1>2, ExtendedIsLeft
<1>4. Written(more, "recorded") /\ Grown(whole, more)
  BY <1>2 DEF Grown
<1>5. recorder' = "running" => NoEnd(more)
  OBVIOUS
<1>6. ArchiveInv
  OBVIOUS
<1> HIDE DEF e, more, whole
<1>7. /\ files'[1] = e /\ \A id \in Id : id # 1 => files'[id] = files[id]
      /\ history'["recorded"] = more
      /\ \A a \in Artifacts : a # "recorded" => history'[a] = history[a]
      /\ DOMAIN files' = Id /\ DOMAIN history' = Artifacts
  BY <1>1
<1>8. \A a \in Artifacts : Grown(history[a], history'[a])
  <2>1. \A a \in Artifacts : a # "recorded" => Grown(history[a], history'[a])
    BY <1>7, GrownByNothing
  <2> QED
    BY <1>4, <1>7, <2>1 DEF whole
<1>9. \A id \in Id, a \in Artifacts : Left(files[id], history[a]) => Left(files'[id], history'[a])
  <2> SUFFICES ASSUME NEW id \in Id, NEW a \in Artifacts, Left(files[id], history[a])
               PROVE  Left(files'[id], history'[a])
    OBVIOUS
  <2>1. CASE id = 1
    <3>1. a = "recorded"
      BY <1>1, <1>2, <1>6, <2>1, LeftOfOne DEF whole
    <3> QED
      BY <1>3, <1>7, <2>1, <3>1
  <2>2. CASE id # 1
    <3>1. history[a] \in Seq(LineType)
      BY <1>6 DEF ArchiveInv, Written
    <3>2. Left(files[id], history'[a])
      BY <1>8, <3>1, LeftStays
    <3> QED
      BY <1>7, <2>2, <3>2
  <2> QED
    BY <2>1, <2>2
<1>10. Onward(open)
  BY <1>8, <1>9 DEF Onward
<1>11. ArchiveType'
  BY <1>6, <1>7 DEF ArchiveInv, ArchiveType
<1>12. history'["other"] = Other /\ \A a \in Artifacts : Written(history'[a], a)
  <2>1. history["other"] = Other /\ \A a \in Artifacts : Written(history[a], a)
    BY <1>6 DEF ArchiveInv
  <2>2. "other" # "recorded"
    OBVIOUS
  <2> QED
    BY <1>1, <1>4, <1>7, <2>1, <2>2
<1>13. \A id \in Id : files'[id] = <<>> \/ \E a \in Artifacts : Left(files'[id], history'[a])
  <2>1. ASSUME NEW id \in Id, files[id] = <<>>
        PROVE  files'[id] = <<>>
    <3>1. id # 1
      BY <1>2, <2>1 DEF Left
    <3> QED
      BY <1>7, <2>1, <3>1
  <2>2. \A id \in Id : files[id] = <<>> \/ \E a \in Artifacts : Left(files[id], history[a])
    BY <1>6 DEF ArchiveInv
  <2> QED
    BY <1>9, <2>1, <2>2
<1>14. files'[path'] # <<>>
  <2>1. files[path] # <<>> /\ path \in Id /\ path' = path
    BY <1>6 DEF ArchiveInv, ArchiveType
  <2>2. e # <<>>
    BY <1>3 DEF Left
  <2> QED
    BY <1>7, <2>1, <2>2
<1>15. Left(files'[1], history'["recorded"]) /\ (recorder' = "running" => NoEnd(history'["recorded"]))
  BY <1>3, <1>5, <1>7
<1>16. \A st \in {status'} \cup closure' \cup closer' : StatusInv(st, history')
  <2>1. \A st \in {status} \cup closure \cup closer : StatusInv(st, history)
    BY <1>6 DEF ArchiveInv
  <2> QED
    BY <1>6, <1>8, <2>1, StatusStays
<1> QED
  BY <1>11, <1>12, <1>13, <1>14, <1>15, <1>16, <1>10 DEF ArchiveInv

LEMMA RecorderKeepsArchive ==
  ASSUME ArchiveInv, NEW open, AppendRecord \/ AppendEnd
  PROVE  ArchiveInv' /\ Onward(open)
<1> DEFINE whole == history["recorded"]
           n == Len(Records(whole))
<1>1. recorder = "running" /\ UNCHANGED <<path, status, closure, closer>>
  BY DEF AppendRecord, AppendEnd
<1>2. Written(whole, "recorded") /\ NoEnd(whole) /\ "recorded" \in Artifacts
  BY <1>1 DEF ArchiveInv, Artifacts
<1>3. /\ Record("recorded", n + 1) \in LineType /\ End("recorded", n, n) \in LineType
      /\ Written(Append(whole, Record("recorded", n + 1)), "recorded")
      /\ NoEnd(Append(whole, Record("recorded", n + 1)))
      /\ Written(Append(whole, End("recorded", n, n)), "recorded")
  BY <1>2, AppendFacts
<1>4. CASE AppendRecord
  <2> DEFINE line == Record("recorded", n + 1)
  <2>1. Appends(line) /\ recorder' = "running"
    BY <1>4 DEF AppendRecord
  <2>2. line \in LineType /\ Written(Append(whole, line), "recorded") /\ NoEnd(Append(whole, line))
    BY <1>3
  <2> HIDE DEF line
  <2> QED
    BY <1>1, <2>1, <2>2, AppendsKeepArchive
<1>5. CASE AppendEnd
  <2> DEFINE line == End("recorded", n, n)
  <2>1. Appends(line) /\ recorder' = "ending"
    BY <1>5 DEF AppendEnd
  <2>2. line \in LineType /\ Written(Append(whole, line), "recorded")
    BY <1>3
  <2> HIDE DEF line
  <2> QED
    BY <1>1, <2>1, <2>2, AppendsKeepArchive
<1> QED
  BY <1>4, <1>5

LEMMA CutKeepsArchive ==
  ASSUME ArchiveInv, NEW open, Cut
  PROVE  ArchiveInv' /\ Onward(open)
<1>1. PICK n \in 1 .. Len(files[path]) - 1 :
        files' = [files EXCEPT ![path] = SubSeq(files[path], 1, n)]
  BY DEF Cut
<1> DEFINE lines == files[path]
           less == SubSeq(lines, 1, n)
<1>2. /\ DOMAIN files = Id /\ path \in Id
      /\ UNCHANGED <<path, status, closure, closer, recorder, history>>
  BY DEF ArchiveInv, ArchiveType, Cut
<1>3. \A id \in Id : files'[id] = IF id = path THEN less ELSE files[id]
  BY <1>1, <1>2
<1>4. lines \in Seq(LineType)
  BY <1>2 DEF ArchiveInv, Left
<1>5. n \in Nat /\ n >= 1 /\ n < Len(lines) /\ Len(lines) \in Nat
  BY <1>1, <1>4
<1>6. less \in Seq(LineType) /\ Len(less) = n /\ \A i \in 1 .. n : less[i] = lines[i]
  <2>1. \A i \in 1 .. n : lines[i] \in LineType
    BY <1>4, <1>5
  <2> HIDE DEF lines
  <2>2. /\ less \in Seq(LineType)
        /\ Len(less) = IF 1 <= n THEN n - 1 + 1 ELSE 0
        /\ \A i \in 1 .. n - 1 + 1 : less[i] = lines[1 + i - 1]
    BY <1>4, <1>5, <2>1, SubSeqProperties
  <2> HIDE DEF less
  <2>3. n - 1 + 1 = n /\ \A i \in 1 .. n : 1 + i - 1 = i
    BY <1>5
  <2> QED
    BY <1>5, <2>2, <2>3
<1> HIDE DEF lines, less
<1>7. less # <<>>
  BY <1>5, <1>6
<1>8. ASSUME NEW whole, Left(lines, whole) PROVE Left(less, whole)
  BY <1>5, <1>6, <1>7, <1>8, SMTT(20) DEF Left
<1>9. \A id \in Id : \A whole : Left(files[id], whole) => Left(files'[id], whole)
  BY <1>3, <1>8 DEF lines
<1>10. Onward(open)
  BY <1>2, <1>9, GrownByNothing DEF Onward
<1>11. ArchiveType'
  <2>1. DOMAIN files' = Id
    BY <1>1, <1>2
  <2> QED
    BY <1>2, <2>1 DEF ArchiveInv, ArchiveType
<1>12. files'[path'] # <<>>
  BY <1>2, <1>3, <1>7
<1>13. \A id \in Id : files'[id] = <<>> \/ \E a \in Artifacts : Left(files'[id], history'[a])
  <2>1. \A id \in Id : files[id] = <<>> \/ \E a \in Artifacts : Left(files[id], history[a])
    BY DEF ArchiveInv
  <2>2. \A id \in Id : files[id] = <<>> => files'[id] = <<>>
    <3>1. lines # <<>>
      BY DEF lines, ArchiveInv
    <3> QED
      BY <1>3, <3>1 DEF lines
  <2> QED
    BY <1>2, <1>9, <2>1, <2>2
<1>14. recorder' # "ended" => Left(files'[1], history'["recorded"])
  BY <1>2, <1>9 DEF ArchiveInv, Id
<1>15. /\ history'["other"] = Other
       /\ \A a \in Artifacts : Written(history'[a], a)
       /\ recorder' = "running" => NoEnd(history'["recorded"])
       /\ \A st \in {status'} \cup closure' \cup closer' : StatusInv(st, history')
  BY <1>2 DEF ArchiveInv
<1> QED
  BY <1>10, <1>11, <1>12, <1>13, <1>14, <1>15 DEF ArchiveInv

LEMMA ReplaceKeepsArchive ==
  ASSUME ArchiveInv, NEW open, Replace(open)
  PROVE  ArchiveInv' /\ Onward(open)
<1>1. PICK id \in Id \ open : files' = [files EXCEPT ![id] = Other] /\ path' = id
  BY DEF Replace
<1>2. /\ DOMAIN files = Id /\ recorder = "ended" /\ recorder' = "ended" /\ history' = history
      /\ closure' = {} /\ closer' = {} /\ status' = StatusOf("other", Other, TRUE)
  BY DEF ArchiveInv, ArchiveType, Replace
<1>3. files'[id] = Other /\ \A i \in Id : i # id => files'[i] = files[i]
  BY <1>1, <1>2
<1>4. Left(Other, Other) /\ Written(Other, "other") /\ "other" \in Artifacts
  BY OtherFacts DEF Artifacts
<1>5. Onward(open)
  <2>1. \A i \in open \cap Id : files'[i] = files[i]
    BY <1>3
  <2> QED
    BY <1>2, <2>1, GrownByNothing DEF Onward
<1>6. ArchiveType'
  <2>1. DOMAIN files' = Id
    BY <1>1, <1>2
  <2> QED
    BY <1>1, <1>2, <2>1 DEF ArchiveInv, ArchiveType
<1>7. /\ history'["other"] = Other
      /\ \A a \in Artifacts : Written(history'[a], a)
  BY <1>2 DEF ArchiveInv
<1>8. \A i \in Id : files'[i] = <<>> \/ \E a \in Artifacts : Left(files'[i], history'[a])
  <2>1. \A i \in Id : files[i] = <<>> \/ \E a \in Artifacts : Left(files[i], history[a])
    BY DEF ArchiveInv
  <2>2. Left(files'[id], history'["other"])
    BY <1>3, <1>4, <1>7
  <2> QED
    BY <1>2, <1>3, <1>4, <2>1, <2>2
<1>9. files'[path'] # <<>>
  BY <1>1, <1>3, <1>4 DEF Left
<1>10. StatusInv(status', history')
  <2> DEFINE st == StatusOf("other", Other, TRUE)
  <2>1. st \in StatusType /\ st.artifact = "other" /\ Reaches(st.end, Other)
    BY <1>4, StatusFacts
  <2> HIDE DEF st
  <2>2. StatusInv(st, history')
    BY <1>7, <2>1 DEF StatusInv
  <2> QED
    BY <1>2, <2>2 DEF st
<1> QED
  BY <1>2, <1>5, <1>6, <1>7, <1>8, <1>9, <1>10 DEF ArchiveInv

LEMMA SurroundingsKeepArchive ==
  ASSUME ArchiveInv, NEW open, Surroundings(open)
  PROVE  ArchiveInv' /\ Onward(open)
  BY PublishKeepsArchive, RecorderKeepsArchive, CutKeepsArchive, ReplaceKeepsArchive DEF Surroundings

LEMMA ArchiveStarts == SourceInit => ArchiveInv
<1> SUFFICES ASSUME SourceInit PROVE ArchiveInv
  OBVIOUS
<1> DEFINE header == Header("recorded")
           first == <<header>>
<1>1. /\ DOMAIN files = Id /\ DOMAIN history = Artifacts /\ path = 1 /\ 1 \in Id
      /\ files[1] = first /\ \A id \in Id : id # 1 => files[id] = <<>>
      /\ history["recorded"] = first /\ history["other"] = Other
      /\ status = StatusOf("recorded", <<>>, FALSE) /\ closure = {} /\ closer = {}
      /\ recorder = "running" /\ Artifacts = {"recorded", "other"}
  BY DEF SourceInit, Id, Artifacts
<1>2. header \in LineType /\ header.kind = "header"
  BY DEF Header, Line, LineType, Artifacts
<1>3. header = Header("recorded")
  OBVIOUS
<1> HIDE DEF header
<1>4. first \in Seq(LineType) /\ Len(first) = 1 /\ first[1] = header /\ first # <<>>
  BY <1>2
<1> HIDE DEF first
<1>5. Written(first, "recorded")
  <2>1. 2 .. Len(first) = {}
    BY <1>4
  <2> QED
    BY <1>3, <1>4, <2>1 DEF Written
<1>6. Left(first, first) /\ NoEnd(first)
  BY <1>2, <1>4 DEF Left, NoEnd
<1>7. StatusInv(status, history)
  <2>1. Len(history["recorded"]) \in Nat
    BY <1>1, <1>4
  <2>2. StatusInv(StatusOf("recorded", <<>>, FALSE), history)
    BY <2>1, FirstStatus
  <2> QED
    BY <1>1, <2>2
<1>8. ArchiveType
  BY <1>1 DEF ArchiveType
<1>9. \A a \in Artifacts : Written(history[a], a)
  BY <1>1, <1>5, OtherFacts
<1>10. \A id \in Id : files[id] = <<>> \/ \E a \in Artifacts : Left(files[id], history[a])
  BY <1>1, <1>6
<1> QED
  BY <1>1, <1>4, <1>6, <1>7, <1>8, <1>9, <1>10 DEF ArchiveInv

-------------------------------------------------------------------------------
(* What commands and tokens know of an archive *)

CursorFields ==
  {"key", "binding", "mode", "predicate", "upper", "upper_anchor", "offset", "last",
   "count", "finalized", "anchor", "skipped", "from", "seen"}

SourceFields == {"id", "session", "artifact", "prefix", "upper", "fence", "published"}

AtMostOne(tokens) == \A t, u \in tokens : t = u

\* The pages of a chain up to the cursor are what its artifact has there.
CursorInv(k, h) ==
  LET lines == h[k.binding.artifact] IN
  /\ DOMAIN k = CursorFields
  /\ k.binding.artifact \in Artifacts
  /\ k.from \in Nat /\ k.offset \in Nat /\ k.from <= k.offset
  /\ Reaches(k.upper, lines) /\ k.offset <= k.upper.offset
  /\ k.seen = Selected(k.predicate, Passed(lines, k.from, k.offset))
  /\ k.count = Len(Records(Passed(lines, k.from, k.offset)))
  /\ k.finalized => k.offset = Len(lines) /\ lines[k.offset].kind = "end"

\* A file that is open is left of its artifact, and read up to a place in it.
SourceInv(s, f, h) ==
  /\ DOMAIN s = SourceFields
  /\ s.id \in Id /\ s.artifact \in Artifacts
  /\ s.fence \in BoundaryType /\ s.fence.offset <= Len(h[s.artifact])
  /\ Left(f[s.id], h[s.artifact])

\* A token in use is of the source, and its boundary is the fence.
CursorInUse(k, s) ==
  /\ k.binding.artifact = s.artifact /\ k.upper = s.fence
  /\ Start <= k.offset

ReferenceInUse(t, s) ==
  /\ t.binding.artifact = s.artifact /\ t.upper = s.fence
  /\ t.offset \in Start .. t.upper.offset - 1
  /\ t.line \in LineType /\ t.line.seq <= t.upper.seq

\* What a context says of the records around a reference.
ContextIsExact(command, t, h) ==
  LET lines == SubSeq(h[t.binding.artifact], 1, t.upper.offset)
      rows == command.rows
  IN \E first \in 1 .. t.offset + 1 :
       LET last == first + Len(rows) - 1 IN
       /\ t.offset + 1 <= last /\ rows = SubSeq(lines, first, last)
       /\ ~command.more_before => t.offset + 1 - first = Around \/ first = Start + 1
       /\ ~command.more_after =>
            last - t.offset - 1 = Around \/ Records(SubSeq(lines, last + 1, Len(lines))) = <<>>

AnswerInv(command, h) ==
  /\ command.rows \in Seq(LineType)
  /\ \A i \in DOMAIN command.rows : command.rows[i].seq <= command.source.fence.seq
  /\ command.request.command = "context" =>
       \A t \in command.reference : ContextIsExact(command, t, h)

\* What the user keeps and a command goes on with.
TokensInv(cursor, reference, h) ==
  /\ AtMostOne(cursor) /\ AtMostOne(reference)
  /\ \A k \in cursor : CursorInv(k, h)
  /\ \A t \in reference : t.upper \in BoundaryType

ScanInv(command, f, h) ==
  /\ command.reference = {} <=> command.cursor # {}
  /\ SourceInv(command.source, f, h)
  /\ \A k \in command.cursor : CursorInUse(k, command.source)
  /\ \A t \in command.reference : ReferenceInUse(t, command.source)

CommandInv(command, f, h) ==
  /\ DOMAIN command = CommandFields
  /\ StatusInv(command.read, h)
  /\ command.request.command = "query" <=> command.reference = {}
  /\ TokensInv(command.cursor, command.reference, h)
  /\ command.pc \in {"scan", "check"} => ScanInv(command, f, h)
  /\ command.pc = "check" => AnswerInv(command, h)

PagingInv ==
  /\ ArchiveInv /\ Shaped
  /\ \A c \in Clients : CommandInv(cmd[c], files, history)
  /\ TokensInv(held.cursor, held.reference, history)

LEMMA CursorStays ==
  ASSUME ArchiveInv, NEW open, Onward(open), NEW k, CursorInv(k, history)
  PROVE  CursorInv(k, history')
<1> DEFINE lines == history[k.binding.artifact]
           more == history'[k.binding.artifact]
<1>1. /\ k.binding.artifact \in Artifacts /\ DOMAIN k = CursorFields
      /\ k.from \in Nat /\ k.offset \in Nat /\ k.from <= k.offset
      /\ Reaches(k.upper, lines) /\ k.offset <= k.upper.offset
      /\ k.seen = Selected(k.predicate, Passed(lines, k.from, k.offset))
      /\ k.count = Len(Records(Passed(lines, k.from, k.offset)))
      /\ k.finalized => k.offset = Len(lines) /\ lines[k.offset].kind = "end"
  BY DEF CursorInv
<1>2. Grown(lines, more) /\ lines \in Seq(LineType) /\ Len(lines) >= 1
  BY <1>1, EmptySeq DEF Onward, ArchiveInv, Written
<1> HIDE DEF lines, more
<1>3. /\ more \in Seq(LineType) /\ Len(lines) \in Nat /\ Len(more) \in Nat
      /\ Len(lines) <= Len(more) /\ \A i \in 1 .. Len(lines) : more[i] = lines[i]
  BY <1>2, GrownFacts
<1>4. Reaches(k.upper, more)
  BY <1>1, <1>2, ReachesStays
<1>5. k.offset <= Len(lines) /\ k.upper.offset \in Nat
  BY <1>1, <1>3 DEF Reaches, BoundaryType
<1>6. Passed(more, k.from, k.offset) = Passed(lines, k.from, k.offset)
  BY <1>1, <1>2, <1>3, <1>5, PassedAgrees, SMTT(20)
<1>7. k.finalized => more = lines
  <2> SUFFICES ASSUME k.finalized PROVE more = lines
    OBVIOUS
  <2>1. ~NoEnd(lines)
    BY <1>1, <1>2, <1>3 DEF NoEnd
  <2> QED
    BY <1>2, <2>1 DEF Grown
<1>8. /\ k.seen = Selected(k.predicate, Passed(more, k.from, k.offset))
      /\ k.count = Len(Records(Passed(more, k.from, k.offset)))
      /\ k.finalized => k.offset = Len(more) /\ more[k.offset].kind = "end"
  BY <1>1, <1>6, <1>7
<1> QED
  BY <1>1, <1>4, <1>8 DEF CursorInv, more

LEMMA TokensStay ==
  ASSUME ArchiveInv, NEW open, Onward(open), NEW cursor, NEW reference,
         TokensInv(cursor, reference, history)
  PROVE  TokensInv(cursor, reference, history')
  BY CursorStays DEF TokensInv

LEMMA CommandStays ==
  ASSUME ArchiveInv, NEW open, Onward(open), NEW command, command.source.id \in open,
         CommandInv(command, files, history)
  PROVE  CommandInv(command, files', history')
<1> DEFINE s == command.source
           a == s.artifact
<1>1. /\ DOMAIN command = CommandFields
      /\ command.request.command = "query" <=> command.reference = {}
      /\ StatusInv(command.read, history)
      /\ TokensInv(command.cursor, command.reference, history)
      /\ command.pc \in {"scan", "check"} => ScanInv(command, files, history)
      /\ command.pc = "check" => AnswerInv(command, history)
  BY DEF CommandInv
<1>2. StatusInv(command.read, history')
  BY <1>1, StatusStays DEF Onward
<1>3. TokensInv(command.cursor, command.reference, history')
  BY <1>1, TokensStay
<1>4. ASSUME SourceInv(s, files, history)
      PROVE  /\ SourceInv(s, files', history')
             /\ \A n \in Nat : n <= Len(history[a]) =>
                  SubSeq(history'[a], 1, n) = SubSeq(history[a], 1, n)
  <2> DEFINE lines == history[a]
             more == history'[a]
  <2>1. /\ DOMAIN s = SourceFields /\ s.id \in Id /\ a \in Artifacts /\ s.fence \in BoundaryType
        /\ s.fence.offset <= Len(lines) /\ Left(files[s.id], lines)
    BY <1>4 DEF SourceInv
  <2>2. Left(files'[s.id], more) /\ Grown(lines, more) /\ lines \in Seq(LineType)
    BY <2>1 DEF Onward, ArchiveInv, Written
  <2> HIDE DEF lines, more
  <2>3. /\ more \in Seq(LineType) /\ Len(lines) \in Nat /\ Len(more) \in Nat
        /\ Len(lines) <= Len(more) /\ \A i \in 1 .. Len(lines) : more[i] = lines[i]
    BY <2>2, GrownFacts
  <2>4. s.fence.offset <= Len(more)
    BY <2>1, <2>3 DEF BoundaryType
  <2>5. SourceInv(s, files', history')
    BY <2>1, <2>2, <2>4 DEF SourceInv, more
  <2>6. ASSUME NEW n \in Nat, n <= Len(lines)
        PROVE  SubSeq(more, 1, n) = SubSeq(lines, 1, n)
    <3>1. Passed(more, 0, n) = Passed(lines, 0, n)
      BY <2>2, <2>3, <2>6, PassedAgrees
    <3> QED
      BY <3>1 DEF Passed
  <2> QED
    BY <2>5, <2>6 DEF lines, more
<1>5. ASSUME ScanInv(command, files, history)
      PROVE  ScanInv(command, files', history')
  BY <1>4, <1>5 DEF ScanInv
<1>6. ASSUME ScanInv(command, files, history), NEW t \in command.reference
      PROVE  ContextIsExact(command, t, history) => ContextIsExact(command, t, history')
  <2>1. /\ SourceInv(s, files, history)
        /\ t.binding.artifact = a /\ t.upper = s.fence
    BY <1>6 DEF ScanInv, ReferenceInUse
  <2>2. t.upper.offset \in Nat /\ t.upper.offset <= Len(history[a])
    BY <2>1 DEF SourceInv, BoundaryType
  <2>3. SubSeq(history'[t.binding.artifact], 1, t.upper.offset)
          = SubSeq(history[t.binding.artifact], 1, t.upper.offset)
    BY <1>4, <2>1, <2>2
  <2> QED
    BY <2>3 DEF ContextIsExact
<1>7. command.pc = "check" => AnswerInv(command, history')
  BY <1>1, <1>6 DEF AnswerInv
<1> QED
  BY <1>1, <1>2, <1>3, <1>5, <1>7 DEF CommandInv

LEMMA SurroundingsKeepPaging ==
  ASSUME PagingInv, Surroundings(OpenFiles), UNCHANGED <<key, cmd, held, commands>>
  PROVE  PagingInv'
<1>1. ArchiveInv' /\ Onward(OpenFiles) /\ ArchiveInv /\ Shaped
  BY SurroundingsKeepArchive DEF PagingInv
<1>2. \A c \in Clients : CommandInv(cmd'[c], files', history')
  <2>1. \A c \in Clients : cmd[c].source.id \in OpenFiles /\ CommandInv(cmd[c], files, history)
    BY DEF OpenFiles, PagingInv
  <2> QED
    BY <1>1, <2>1, CommandStays
<1>3. TokensInv(held'.cursor, held'.reference, history')
  BY <1>1, TokensStay DEF PagingInv
<1> QED
  BY <1>1, <1>2, <1>3 DEF PagingInv, Shaped

\* A step of one client.
LEMMA ClientKeepsPaging ==
  ASSUME PagingInv, NEW c \in Clients, NEW new, Continues(c, new),
         CommandInv(new, files, history), UNCHANGED <<sourceVars, held>>
  PROVE  PagingInv'
<1>1. UNCHANGED <<files, path, status, closure, closer, recorder, harmed, history>>
  BY DEF sourceVars
<1>2. ArchiveInv'
  BY <1>1 DEF PagingInv, ArchiveInv, ArchiveType
<1>3. DOMAIN cmd = Clients /\ cmd' = [cmd EXCEPT ![c] = new]
  BY DEF PagingInv, Shaped, Continues
<1>4. \A d \in Clients : CommandInv(cmd'[d], files', history')
  BY <1>1, <1>3 DEF PagingInv
<1>5. TokensInv(held'.cursor, held'.reference, history')
  BY <1>1 DEF PagingInv
<1>6. Shaped'
  BY <1>3 DEF PagingInv, Shaped
<1> QED
  BY <1>2, <1>4, <1>5, <1>6 DEF PagingInv

LEMMA IdleIsExact ==
  ASSUME ArchiveInv, NEW error
  PROVE  CommandInv(Idle(error), files, history)
<1> DEFINE i == Command("idle", AnyRequest)
           st == StatusOf("recorded", <<>>, FALSE)
           new == [i EXCEPT !.error = error, !.read = st]
<1>1. /\ DOMAIN i = CommandFields /\ i.pc = "idle" /\ i.cursor = {} /\ i.reference = {}
      /\ i.request = AnyRequest
  BY DEF Command, CommandFields
<1>2. StatusInv(st, history)
  <2>1. Len(history["recorded"]) \in Nat
    BY DEF ArchiveInv, Written, Artifacts
  <2> QED
    BY <2>1, FirstStatus
<1>3. Idle(error) = new
  BY DEF Idle
<1>4. AnyRequest.command = "query"
  BY DEF AnyRequest, Request
<1> HIDE DEF i, st
<1>5. /\ DOMAIN new = CommandFields /\ new.pc = "idle" /\ new.cursor = {} /\ new.reference = {}
      /\ new.request.command = "query" /\ new.read = st
  BY <1>1, <1>4 DEF CommandFields
<1> HIDE DEF new
<1>6. TokensInv({}, {}, history)
  BY DEF TokensInv, AtMostOne
<1>7. CommandInv(new, files, history)
  BY <1>2, <1>5, <1>6 DEF CommandInv
<1> QED
  BY <1>3, <1>7

LEMMA FailureKeepsPaging ==
  ASSUME PagingInv, NEW c \in Clients, NEW error, Fails(c, error), UNCHANGED <<sourceVars, held>>
  PROVE  PagingInv'
<1>1. CommandInv(Idle(error), files, history)
  BY IdleIsExact DEF PagingInv
<1> QED
  BY <1>1, ClientKeepsPaging DEF Fails

\* A command that has not opened the source yet, or has to open it again.
LEMMA WaitingIsExact ==
  ASSUME NEW command, CommandInv(command, files, history), NEW new,
         DOMAIN new = CommandFields, StatusInv(new.read, history),
         new.request = command.request, new.cursor = command.cursor,
         new.reference = command.reference, new.pc \notin {"scan", "check"}
  PROVE  CommandInv(new, files, history)
  BY DEF CommandInv

LEMMA BeginKeepsPaging ==
  ASSUME PagingInv, NEW c \in Clients, Begin(c)
  PROVE  PagingInv'
<1>1. PICK r \in Requests :
        /\ Valid(r)
        /\ r.resume => IF r.command = "query" THEN held.cursor # {} ELSE held.reference # {}
        /\ Continues(c, [Command("key", r) EXCEPT
             !.cursor = IF r.resume /\ r.command = "query" THEN held.cursor ELSE {},
             !.reference = IF r.command = "query" THEN {} ELSE held.reference])
  BY DEF Begin
<1> DEFINE b == Command("key", r)
           cursor == IF r.resume /\ r.command = "query" THEN held.cursor ELSE {}
           reference == IF r.command = "query" THEN {} ELSE held.reference
           new == [b EXCEPT !.cursor = cursor, !.reference = reference]
<1>2. DOMAIN b = CommandFields /\ b.pc = "key" /\ b.request = r /\ b.read = status
  BY DEF Command, CommandFields
<1>3. Continues(c, new)
  BY <1>1
<1>4. r.command = "query" <=> reference = {}
  BY <1>1 DEF Valid
<1>5. TokensInv(cursor, reference, history)
  BY DEF PagingInv, TokensInv, AtMostOne
<1>6. StatusInv(status, history)
  BY DEF PagingInv, ArchiveInv
<1> HIDE DEF b, cursor, reference
<1>7. /\ DOMAIN new = CommandFields /\ new.pc = "key" /\ new.request = r /\ new.read = status
      /\ new.cursor = cursor /\ new.reference = reference
  BY <1>2 DEF CommandFields
<1> HIDE DEF new
<1>8. CommandInv(new, files, history)
  BY <1>4, <1>5, <1>6, <1>7 DEF CommandInv
<1> QED
  BY <1>3, <1>8, ClientKeepsPaging DEF Begin

LEMMA KeyKeepsPaging ==
  ASSUME PagingInv, NEW c \in Clients, LoadKey(c) \/ LinkKey(c)
  PROVE  PagingInv'
<1> DEFINE command == cmd[c]
<1>1. CommandInv(command, files, history) /\ DOMAIN command = CommandFields
      /\ StatusInv(command.read, history)
  BY DEF PagingInv, CommandInv
<1>2. UNCHANGED <<sourceVars, held>>
  BY DEF LoadKey, LinkKey
<1> HIDE DEF command
<1>3. ASSUME NEW k
      PROVE  CommandInv([command EXCEPT !.key = k, !.pc = "status"], files, history)
  <2> DEFINE new == [command EXCEPT !.key = k, !.pc = "status"]
  <2>1. /\ DOMAIN new = CommandFields /\ new.read = command.read /\ new.request = command.request
        /\ new.cursor = command.cursor /\ new.reference = command.reference /\ new.pc = "status"
    BY <1>1 DEF CommandFields
  <2> HIDE DEF new
  <2>2. CommandInv(new, files, history)
    BY <1>1, <2>1, WaitingIsExact
  <2> QED
    BY <2>2 DEF new
<1>4. CommandInv([command EXCEPT !.pc = "link"], files, history)
  <2> DEFINE new == [command EXCEPT !.pc = "link"]
  <2>1. /\ DOMAIN new = CommandFields /\ new.read = command.read /\ new.request = command.request
        /\ new.cursor = command.cursor /\ new.reference = command.reference /\ new.pc = "link"
    BY <1>1 DEF CommandFields
  <2> HIDE DEF new
  <2>2. CommandInv(new, files, history)
    BY <1>1, <2>1, WaitingIsExact
  <2> QED
    BY <2>2 DEF new
<1>5. \/ \E k : Continues(c, [command EXCEPT !.key = k, !.pc = "status"])
      \/ Continues(c, [command EXCEPT !.pc = "link"])
  BY DEF LoadKey, LinkKey, command
<1> QED
  BY <1>2, <1>3, <1>4, <1>5, ClientKeepsPaging

LEMMA ReadStatusKeepsPaging ==
  ASSUME PagingInv, NEW c \in Clients, ReadStatus(c)
  PROVE  PagingInv'
<1> DEFINE command == cmd[c]
           predicate == Predicate(command.request.filter, TimeAnchor(command.cursor))
           new == [command EXCEPT !.predicate = predicate, !.read = Effective, !.pc = "open"]
<1>1. CommandInv(command, files, history) /\ DOMAIN command = CommandFields
  BY DEF PagingInv, CommandInv
<1>2. UNCHANGED <<sourceVars, held>>
  BY DEF ReadStatus
<1>3. Continues(c, new) \/ \E error : Fails(c, error)
  BY DEF ReadStatus
<1>4. StatusInv(Effective, history)
  <2>1. \A st \in {status} \cup closure : StatusInv(st, history)
    BY DEF PagingInv, ArchiveInv
  <2>2. closure # {} => (CHOOSE closed \in closure : TRUE) \in closure
    OBVIOUS
  <2> QED
    BY <2>1, <2>2 DEF Effective
<1> HIDE DEF command, predicate
<1>5. /\ DOMAIN new = CommandFields /\ new.read = Effective /\ new.request = command.request
      /\ new.cursor = command.cursor /\ new.reference = command.reference /\ new.pc = "open"
  BY <1>1 DEF CommandFields
<1> HIDE DEF new
<1>6. CommandInv(new, files, history)
  BY <1>1, <1>4, <1>5, WaitingIsExact
<1> QED
  BY <1>2, <1>3, <1>6, ClientKeepsPaging, FailureKeepsPaging

\* What can be read through an open file is what was written.
LEMMA LineAtFacts ==
  ASSUME ArchiveInv, NEW s, SourceInv(s, files, history), NEW offset \in Nat
  PROVE  LET lines == history[s.artifact]
             line == LineAt(s, offset)
         IN /\ line \in LineType
            /\ line.kind # "hole" =>
                 /\ offset < Len(lines) /\ line = lines[offset + 1]
                 /\ line.kind = "end" => offset + 1 = Len(lines)
<1> DEFINE whole == history[s.artifact]
           lines == files[s.id]
           line == LineAt(s, offset)
<1>1. Left(lines, whole) /\ Written(whole, s.artifact) /\ s.artifact \in Artifacts
  BY DEF SourceInv, ArchiveInv
<1>2. line = IF offset < Len(lines) THEN lines[offset + 1] ELSE Hole
  BY DEF LineAt
<1>3. Hole \in LineType /\ Hole.kind = "hole"
  BY DEF Hole, Line, LineType
<1> HIDE DEF lines, line, whole
<1>4. /\ lines \in Seq(LineType) /\ Len(lines) \in Nat /\ Len(lines) <= Len(whole)
      /\ \A i \in 1 .. Len(lines) : lines[i] \in {whole[i], Hole}
  BY <1>1 DEF Left
<1>5. /\ Len(whole) \in Nat
      /\ \A i \in 1 .. Len(whole) : whole[i] \in LineType /\ (whole[i].kind = "end" => i = Len(whole))
  BY <1>1, WrittenFacts
<1>6. CASE offset < Len(lines)
  <2>1. offset + 1 \in 1 .. Len(lines) /\ offset + 1 \in 1 .. Len(whole) /\ offset < Len(whole)
    BY <1>4, <1>5, <1>6
  <2> QED
    BY <1>2, <1>3, <1>4, <1>5, <1>6, <2>1 DEF line, whole
<1>7. CASE ~(offset < Len(lines))
  BY <1>2, <1>3, <1>7 DEF line
<1> QED
  BY <1>6, <1>7

\* The boundary of a file on its own is its footer.
LEMMA OfflineEndFacts ==
  ASSUME NEW a \in Artifacts, NEW whole, Written(whole, a), NEW lines, Left(lines, whole),
         lines[Len(lines)].kind = "end"
  PROVE  Reaches(OfflineEnd(lines), whole)
<1> DEFINE n == Len(lines)
<1>1. /\ lines \in Seq(LineType) /\ n \in Nat /\ n >= 1 /\ n <= Len(whole)
      /\ lines[n] \in {whole[n], Hole}
  BY EmptySeq DEF Left
<1>2. /\ Len(whole) \in Nat /\ whole[1].kind = "header"
      /\ \A i \in 1 .. Len(whole) :
           /\ whole[i] \in LineType
           /\ whole[i].kind = "record" => whole[i].seq = i - 1
  BY WrittenFacts
<1>3. Hole.kind = "hole"
  BY DEF Hole, Line
<1>4. lines[n] = whole[n] /\ whole[n].kind = "end"
  BY <1>1, <1>3
<1>5. n \in 2 .. Len(whole)
  BY <1>1, <1>2, <1>4
<1>6. whole[n].seq = n - 2
  <2>1. whole[n] = Record(a, n - 1) \/ whole[n] = End(a, n - 2, n - 2)
    BY <1>5 DEF Written
  <2>2. Record(a, n - 1).kind = "record" /\ End(a, n - 2, n - 2).seq = n - 2
    BY DEF Record, End, Line
  <2> QED
    BY <1>4, <2>1, <2>2
<1> DEFINE b == Boundary(n, lines[n].seq)
<1>7. OfflineEnd(lines) = b
  BY DEF OfflineEnd
<1> HIDE DEF n
<1>8. b.offset = n /\ b.seq = n - 2 /\ b \in BoundaryType
  BY <1>1, <1>4, <1>5, <1>6 DEF Boundary, BoundaryType
<1> HIDE DEF b
<1>9. ASSUME NEW i \in 1 .. n, whole[i].kind = "record"
      PROVE  whole[i].seq <= n - 2
  <2>1. i # n
    BY <1>4, <1>9
  <2>2. i \in 1 .. Len(whole)
    BY <1>1, <1>2
  <2>3. whole[i].seq = i - 1
    BY <1>2, <1>9, <2>2
  <2> QED
    BY <1>1, <2>1, <2>3
<1> QED
  BY <1>1, <1>7, <1>8, <1>9 DEF Reaches

LEMMA OpenedFacts ==
  ASSUME ArchiveInv, NEW session, NEW read, StatusInv(read, history), NEW expected,
         Opened(session, read, expected).error = "none"
  PROVE  LET s == Opened(session, read, expected).source IN
         /\ SourceInv(s, files, history)
         /\ Reaches(s.upper, history[s.artifact])
         /\ Start <= s.upper.offset /\ s.fence = s.upper
         /\ \A b \in expected : b = Binding(s)
<1> DEFINE lines == files[path]
           upper == IF session THEN read.end ELSE OfflineEnd(lines)
           source == [id |-> path, session |-> session, artifact |-> lines[1].artifact,
                      prefix |-> SubSeq(lines, 1, PrefixLength(upper, expected)),
                      upper |-> upper, fence |-> upper,
                      published |-> IF session THEN read.entries ELSE 0]
           o == Opened(session, read, expected)
<1>1. path \in Id /\ lines # <<>>
  BY DEF ArchiveInv, ArchiveType
<1>2. PICK a \in Artifacts : Left(lines, history[a])
  BY <1>1 DEF ArchiveInv
<1>3. Written(history[a], a)
  BY DEF ArchiveInv
<1>4. lines[1].artifact = a
  BY <1>2, <1>3 DEF Left, Written, Header, Line
<1>5. /\ upper.offset # 0 /\ ~(upper.offset > Len(lines))
      /\ session => read.artifact = lines[1].artifact
      /\ ~session => lines[Len(lines)].kind = "end"
      /\ \A b \in expected : b = Binding(source)
      /\ o.source = source
  <2>1. /\ upper.offset # 0 /\ ~(upper.offset > Len(lines))
        /\ ~(session /\ read.artifact # lines[1].artifact)
        /\ ~(~session /\ lines[Len(lines)].kind # "end")
        /\ ~\E b \in expected : b # Binding(source)
        /\ o = [source |-> source, error |-> "none"]
    BY DEF Opened
  <2> HIDE DEF o, source, upper, lines
  <2> QED
    BY <2>1
<1>6. Reaches(upper, history[a])
  <2>1. CASE session
    BY <1>4, <1>5, <2>1 DEF StatusInv
  <2>2. CASE ~session
    BY <1>2, <1>3, <1>5, <2>2, OfflineEndFacts
  <2> QED
    BY <2>1, <2>2
<1> HIDE DEF upper, o
<1>7. /\ DOMAIN source = SourceFields /\ source.id = path /\ source.artifact = a
      /\ source.upper = upper /\ source.fence = upper
  BY <1>4 DEF SourceFields
<1>8. upper \in BoundaryType /\ upper.offset \in Nat /\ upper.offset <= Len(history[a])
  BY <1>6 DEF Reaches, BoundaryType
<1> HIDE DEF source
<1>9. SourceInv(source, files, history)
  BY <1>1, <1>2, <1>7, <1>8 DEF SourceInv, lines
<1>10. Start <= upper.offset
  BY <1>5, <1>8 DEF Start
<1> QED
  BY <1>5, <1>6, <1>7, <1>9, <1>10 DEF o

LEMMA PinnedFacts ==
  ASSUME NEW s, SourceInv(s, files, history), NEW upper \in BoundaryType,
         upper.offset <= Len(history[s.artifact])
  PROVE  /\ SourceInv(Pinned(s, upper), files, history)
         /\ Pinned(s, upper).artifact = s.artifact /\ Pinned(s, upper).fence = upper
         /\ Pinned(s, upper).id = s.id
<1> DEFINE p == [s EXCEPT !.fence = upper]
<1>1. DOMAIN s = SourceFields
  BY DEF SourceInv
<1>2. /\ DOMAIN p = SourceFields /\ p.id = s.id /\ p.artifact = s.artifact /\ p.fence = upper
  BY <1>1 DEF SourceFields
<1>3. Pinned(s, upper) = p
  BY DEF Pinned
<1> HIDE DEF p
<1>4. SourceInv(p, files, history)
  BY <1>2 DEF SourceInv
<1> QED
  BY <1>2, <1>3, <1>4

\* A chain begins with no page, at the first record or at the boundary.
LEMMA NewCursorIsExact ==
  ASSUME ArchiveInv, NEW c, NEW s, SourceInv(s, files, history),
         Reaches(s.upper, history[s.artifact]), Start <= s.upper.offset, s.fence = s.upper
  PROVE  CursorInv(NewCursor(c, s), history) /\ CursorInUse(NewCursor(c, s), s)
<1> DEFINE k == NewCursor(c, s)
           lines == history[s.artifact]
           offset == IF cmd[c].request.from_end THEN s.upper.offset ELSE Start
<1>1. /\ DOMAIN k = CursorFields /\ k.binding = Binding(s) /\ k.upper = s.upper
      /\ k.offset = offset /\ k.from = offset /\ k.seen = <<>> /\ k.count = 0
      /\ k.finalized = FinalizedFromStart(cmd[c].request, s)
  BY DEF NewCursor, CursorFields
<1>2. k.binding.artifact = s.artifact
  BY <1>1 DEF Binding
<1>3. s.artifact \in Artifacts /\ lines \in Seq(LineType) /\ Len(lines) \in Nat
  BY DEF SourceInv, ArchiveInv, Written
<1>4. s.upper \in BoundaryType /\ s.upper.offset \in Nat /\ s.upper.offset <= Len(lines)
  BY DEF Reaches, BoundaryType
<1>5. offset \in Nat /\ Start <= offset /\ offset <= s.upper.offset
  BY <1>4 DEF Start
<1>6. Passed(lines, offset, offset) = <<>>
  <2>1. offset + 1 > offset
    BY <1>5
  <2> HIDE DEF lines, offset
  <2> QED
    BY <1>5, <2>1, SubSeqEmpty DEF Passed
<1>7. Records(<<>>) = <<>> /\ Selected(k.predicate, <<>>) = <<>>
  <2>1. {i \in DOMAIN <<>> : Matches(k.predicate, <<>>[i])} = {}
    OBVIOUS
  <2>2. \A i \in DOMAIN <<>> : <<>>[i].kind # "record"
    OBVIOUS
  <2> QED
    BY <2>1, <2>2, NoRecords, PickedOfNothing DEF Selected
<1>8. ASSUME k.finalized
      PROVE  offset = Len(lines) /\ lines[offset].kind = "end"
  <2>1. /\ cmd[c].request.from_end
        /\ s.upper.offset > Start /\ LineAt(s, s.upper.offset - 1).kind = "end"
    BY <1>1, <1>8 DEF FinalizedFromStart, EndStart
  <2>2. s.upper.offset - 1 \in Nat /\ (s.upper.offset - 1) + 1 = s.upper.offset
    BY <1>4, <2>1 DEF Start
  <2> DEFINE line == LineAt(s, s.upper.offset - 1)
  <2>3. line.kind # "hole" =>
          /\ line = lines[(s.upper.offset - 1) + 1]
          /\ line.kind = "end" => (s.upper.offset - 1) + 1 = Len(lines)
    BY <2>2, LineAtFacts
  <2> QED
    BY <2>1, <2>2, <2>3
<1> HIDE DEF k, lines, offset
<1>9. CursorInv(k, history)
  BY <1>1, <1>2, <1>3, <1>4, <1>5, <1>6, <1>7, <1>8 DEF CursorInv, lines
<1>10. CursorInUse(k, s)
  BY <1>1, <1>2, <1>5 DEF CursorInUse
<1> QED
  BY <1>9, <1>10 DEF k

\* A chain goes on where it was, up to its boundary or, with a tail, a later one.
LEMMA ResumedIsExact ==
  ASSUME ArchiveInv, NEW s, SourceInv(s, files, history),
         Reaches(s.upper, history[s.artifact]),
         NEW k, CursorInv(k, history), k.binding = Binding(s), Fits(k, s)
  PROVE  LET r == Resumed(k, s) IN
         /\ CursorInv(r, history)
         /\ SourceInv(Pinned(s, r.upper), files, history)
         /\ CursorInUse(r, Pinned(s, r.upper))
<1> DEFINE r == Resumed(k, s)
           lines == history[s.artifact]
           p == Pinned(s, r.upper)
<1>1. DOMAIN k = CursorFields /\ k.binding.artifact = s.artifact
  BY DEF CursorInv, Binding
<1>2. /\ DOMAIN r = CursorFields /\ r.upper \in {k.upper, s.upper}
      /\ r.binding = k.binding /\ r.predicate = k.predicate /\ r.offset = k.offset /\ r.from = k.from
      /\ r.count = k.count /\ r.finalized = k.finalized /\ r.seen = k.seen
  BY <1>1 DEF Resumed, CursorFields
<1>3. k.upper.offset <= s.upper.offset /\ k.offset \in Start .. k.upper.offset
  BY DEF Fits, Pinnable
<1>4. Reaches(r.upper, lines) /\ Reaches(k.upper, lines) /\ Reaches(s.upper, lines)
  BY <1>1, <1>2 DEF CursorInv
<1> HIDE DEF r
<1>5. r.upper \in BoundaryType /\ r.upper.offset \in Nat /\ r.upper.offset <= Len(lines)
  BY <1>4 DEF Reaches, BoundaryType
<1>6. Start <= r.offset /\ r.offset <= r.upper.offset
  <2>1. k.upper.offset \in Nat /\ s.upper.offset \in Nat
    BY <1>4 DEF Reaches, BoundaryType
  <2> QED
    BY <1>2, <1>3, <2>1 DEF Start
<1>7. CursorInv(r, history)
  BY <1>1, <1>2, <1>4, <1>6 DEF CursorInv
<1>8. SourceInv(p, files, history) /\ p.artifact = s.artifact /\ p.fence = r.upper
  BY <1>5, PinnedFacts
<1> HIDE DEF p
<1>9. CursorInUse(r, p)
  BY <1>1, <1>2, <1>6, <1>8 DEF CursorInUse
<1> QED
  BY <1>7, <1>8, <1>9 DEF p, r

LEMMA ReferredIsExact ==
  ASSUME ArchiveInv, NEW s, SourceInv(s, files, history),
         Reaches(s.upper, history[s.artifact]),
         NEW t, t.upper \in BoundaryType, t.binding = Binding(s), Refers(t, s)
  PROVE  /\ SourceInv(Pinned(s, t.upper), files, history)
         /\ ReferenceInUse(t, Pinned(s, t.upper))
<1> DEFINE p == Pinned(s, t.upper)
<1>1. /\ t.upper.offset <= s.upper.offset
      /\ t.offset \in Start .. t.upper.offset - 1
      /\ LineAt(p, t.offset) = t.line
      /\ IsRow(p, t.line, 0)
  BY DEF Refers, Pinnable
<1>2. /\ s.upper.offset \in Nat /\ s.upper.offset <= Len(history[s.artifact])
      /\ t.upper.offset \in Nat
      /\ Len(history[s.artifact]) \in Nat
  BY DEF Reaches, BoundaryType, ArchiveInv, Written, SourceInv
<1>3. t.upper.offset <= Len(history[s.artifact])
  BY <1>1, <1>2
<1>4. SourceInv(p, files, history) /\ p.artifact = s.artifact /\ p.fence = t.upper
  BY <1>3, PinnedFacts
<1>5. t.offset \in Nat
  BY <1>1, <1>2 DEF Start
<1> HIDE DEF p
<1>6. t.line \in LineType
  BY <1>1, <1>4, <1>5, LineAtFacts
<1>7. t.line.seq <= t.upper.seq
  BY <1>1, <1>4 DEF IsRow
<1>8. t.binding.artifact = p.artifact
  BY <1>4 DEF Binding
<1>9. ReferenceInUse(t, p)
  BY <1>1, <1>4, <1>6, <1>7, <1>8 DEF ReferenceInUse
<1> QED
  BY <1>4, <1>9 DEF p

LEMMA OpenSourceKeepsPaging ==
  ASSUME PagingInv, NEW c \in Clients, OpenSource(c)
  PROVE  PagingInv'
<1> DEFINE command == cmd[c]
           expected == {t.binding : t \in command.cursor \cup command.reference}
           o == Opened(command.request.session, command.read, expected)
           s == o.source
           Scanning(source, cursor) ==
             [command EXCEPT !.source = source, !.cursor = cursor, !.pc = "scan"]
           Scans(source, cursor) == Continues(c, Scanning(source, cursor))
<1>1. /\ ArchiveInv /\ CommandInv(command, files, history)
      /\ UNCHANGED <<sourceVars, held>>
  BY DEF PagingInv, OpenSource
<1>2. /\ DOMAIN command = CommandFields /\ StatusInv(command.read, history)
      /\ command.request.command = "query" <=> command.reference = {}
      /\ AtMostOne(command.cursor) /\ AtMostOne(command.reference)
      /\ \A k \in command.cursor : CursorInv(k, history)
      /\ \A t \in command.reference : t.upper \in BoundaryType
  BY <1>1 DEF CommandInv, TokensInv
<1>3. o.error = "none" =>
        /\ SourceInv(s, files, history) /\ Reaches(s.upper, history[s.artifact])
        /\ Start <= s.upper.offset /\ s.fence = s.upper
        /\ \A b \in expected : b = Binding(s)
  <2> HIDE DEF expected, command
  <2> QED
    BY <1>1, <1>2, OpenedFacts
<1>4. ASSUME NEW error, Fails(c, error) PROVE PagingInv'
  BY <1>1, <1>4, FailureKeepsPaging
<1>5. ASSUME NEW source, NEW cursor, Scans(source, cursor), SourceInv(source, files, history),
             AtMostOne(cursor), command.reference = {} <=> cursor # {},
             \A k \in cursor : CursorInv(k, history) /\ CursorInUse(k, source),
             \A t \in command.reference : ReferenceInUse(t, source)
      PROVE  PagingInv'
  <2> DEFINE new == Scanning(source, cursor)
  <2>1. /\ DOMAIN new = CommandFields /\ new.read = command.read /\ new.request = command.request
        /\ new.cursor = cursor /\ new.reference = command.reference /\ new.pc = "scan"
        /\ new.source = source
    BY <1>2 DEF CommandFields
  <2>2. Continues(c, new)
    BY <1>5
  <2> HIDE DEF new
  <2>3. TokensInv(new.cursor, new.reference, history)
    BY <1>2, <1>5, <2>1 DEF TokensInv
  <2>4. ScanInv(new, files, history)
    BY <1>5, <2>1 DEF ScanInv
  <2>5. CommandInv(new, files, history)
    BY <1>2, <2>1, <2>3, <2>4 DEF CommandInv
  <2> QED
    BY <1>1, <2>2, <2>5, ClientKeepsPaging
<1> HIDE DEF Scanning
<1>6. CASE o.error # "none"
  BY <1>4, <1>6 DEF OpenSource, Scanning
<1>7. CASE o.error = "none" /\ command.reference # {}
  <2> DEFINE t == Only(command.reference)
             p == Pinned(s, t.upper)
  <2>1. (Refers(t, s) /\ Scans(p, {})) \/ Fails(c, "stale")
    BY <1>7 DEF OpenSource, Scanning
  <2>2. t \in command.reference /\ \A u \in command.reference : u = t
    BY <1>2, <1>7, OnlyIsMember DEF AtMostOne
  <2>3. t.upper \in BoundaryType /\ t.binding = Binding(s)
    BY <1>2, <1>3, <1>7, <2>2
  <2>4. SourceInv(s, files, history) /\ Reaches(s.upper, history[s.artifact])
    BY <1>3, <1>7
  <2> HIDE DEF t, o
  <2>5. Refers(t, s) => SourceInv(p, files, history) /\ ReferenceInUse(t, p)
    BY <1>1, <2>3, <2>4, ReferredIsExact
  <2> HIDE DEF p
  <2>6. AtMostOne({})
    BY DEF AtMostOne
  <2>7. Refers(t, s) => \A u \in command.reference : ReferenceInUse(u, p)
    BY <2>2, <2>5
  <2> QED
    BY <1>4, <1>5, <1>7, <2>1, <2>5, <2>6, <2>7
<1>8. CASE o.error = "none" /\ command.reference = {} /\ command.cursor # {}
  <2> DEFINE k == Only(command.cursor)
             r == Resumed(k, s)
             p == Pinned(s, r.upper)
  <2>1. Fails(c, "stale") \/ (Fits(k, s) /\ Scans(p, {r}))
    BY <1>8 DEF OpenSource, Scanning
  <2>2. k \in command.cursor
    BY <1>8, OnlyIsMember
  <2>3. CursorInv(k, history) /\ k.binding = Binding(s)
    BY <1>2, <1>3, <1>8, <2>2
  <2>4. SourceInv(s, files, history) /\ Reaches(s.upper, history[s.artifact])
    BY <1>3, <1>8
  <2> HIDE DEF k, o
  <2>5. Fits(k, s) => CursorInv(r, history) /\ SourceInv(p, files, history) /\ CursorInUse(r, p)
    BY <1>1, <2>3, <2>4, ResumedIsExact
  <2> HIDE DEF r, p
  <2>6. AtMostOne({r})
    BY DEF AtMostOne
  <2> QED
    BY <1>4, <1>5, <1>8, <2>1, <2>5, <2>6
<1>9. CASE o.error = "none" /\ command.reference = {} /\ command.cursor = {}
  <2> DEFINE k == NewCursor(c, s)
  <2>1. Fails(c, "invalid") \/ Scans(s, {k})
    BY <1>9 DEF OpenSource, Scanning
  <2>2. CursorInv(k, history) /\ CursorInUse(k, s) /\ SourceInv(s, files, history)
    BY <1>1, <1>3, <1>9, NewCursorIsExact
  <2> HIDE DEF k, o
  <2>3. AtMostOne({k})
    BY DEF AtMostOne
  <2> QED
    BY <1>4, <1>5, <1>9, <2>1, <2>2, <2>3
<1> QED
  BY <1>6, <1>7, <1>8, <1>9

-------------------------------------------------------------------------------
(* Scans *)

\* Lines that are there, read one by one, are the lines that were written.
LEMMA LinesFacts ==
  ASSUME ArchiveInv, NEW s, SourceInv(s, files, history), NEW offset \in Nat, NEW n \in Nat,
         offset <= Len(history[s.artifact]),
         \A i \in 0 .. n - 1 : LineAt(s, offset + i).kind # "hole"
  PROVE  /\ offset + n <= Len(history[s.artifact])
         /\ Lines(s, offset, n) = Passed(history[s.artifact], offset, offset + n)
<1> DEFINE whole == history[s.artifact]
           read == Lines(s, offset, n)
           passed == Passed(whole, offset, offset + n)
<1>1. whole \in Seq(LineType) /\ Len(whole) \in Nat
  BY DEF SourceInv, ArchiveInv, Written
<1>2. ASSUME NEW i \in 1 .. n
      PROVE  /\ LineAt(s, offset + i - 1) \in LineType
             /\ offset + i <= Len(whole) /\ LineAt(s, offset + i - 1) = whole[offset + i]
  <2> DEFINE place == offset + i - 1
  <2>1. place \in Nat /\ i - 1 \in 0 .. n - 1 /\ place = offset + (i - 1) /\ place + 1 = offset + i
    OBVIOUS
  <2>2. LineAt(s, place).kind # "hole"
    BY <2>1
  <2> HIDE DEF place
  <2>3. /\ LineAt(s, place) \in LineType
        /\ place < Len(whole) /\ LineAt(s, place) = whole[place + 1]
    BY <2>1, <2>2, LineAtFacts
  <2>4. offset + i <= Len(whole)
    BY SMTT(20), <1>1, <2>1, <2>3
  <2> QED
    BY <2>1, <2>3, <2>4 DEF place
<1>3. offset + n <= Len(whole)
  <2>1. CASE n = 0
    BY <2>1
  <2>2. CASE n # 0
    BY <1>2, <2>2
  <2> QED
    BY <2>1, <2>2
<1>4. read = [i \in 1 .. n |-> LineAt(s, offset + i - 1)]
  BY DEF Lines
<1> HIDE DEF read, whole, passed
<1>5. read \in Seq(LineType) /\ Len(read) = n /\ \A i \in 1 .. n : read[i] = whole[offset + i]
  <2>1. read \in [1 .. n -> LineType]
    BY <1>2, <1>4
  <2>2. \A i \in 1 .. n : read[i] = whole[offset + i]
    BY <1>2, <1>4
  <2> QED
    BY <2>1, <2>2
<1>6. /\ passed \in Seq(LineType) /\ Len(passed) = n
      /\ \A i \in 1 .. n : passed[i] = whole[offset + i]
  <2>1. offset + n \in Nat /\ offset <= offset + n /\ (offset + n) - offset = n
    OBVIOUS
  <2>2. /\ passed \in Seq(LineType)
        /\ Len(passed) = IF offset <= offset + n THEN (offset + n) - offset ELSE 0
        /\ \A i \in 1 .. (offset + n) - offset : passed[i] = whole[offset + i]
    BY <1>1, <1>3, <2>1, PassedFacts DEF passed
  <2> QED
    BY <2>1, <2>2
<1>7. read = passed
  <2>1. \A i \in 1 .. Len(read) : read[i] = passed[i]
    BY <1>5, <1>6
  <2> QED
    BY <1>5, <1>6, <2>1, SeqEqual
<1> QED
  BY <1>3, <1>7 DEF read, passed, whole

\* The records a chain returned are before its boundary.
LEMMA SeenFacts ==
  ASSUME ArchiveInv, NEW k, CursorInv(k, history)
  PROVE  k.seen \in Seq(LineType) /\ \A i \in DOMAIN k.seen : k.seen[i].seq <= k.upper.seq
<1> DEFINE lines == history[k.binding.artifact]
           passed == Passed(lines, k.from, k.offset)
<1>1. /\ k.from \in Nat /\ k.offset \in Nat /\ k.from <= k.offset
      /\ Reaches(k.upper, lines) /\ k.offset <= k.upper.offset
      /\ k.seen = Selected(k.predicate, passed) /\ lines \in Seq(LineType)
  BY DEF CursorInv, ArchiveInv, Written
<1> HIDE DEF lines
<1>2. /\ k.upper.offset \in Nat /\ k.upper.offset <= Len(lines) /\ Len(lines) \in Nat
      /\ \A i \in 1 .. k.upper.offset : lines[i].kind = "record" => lines[i].seq <= k.upper.seq
  BY <1>1 DEF Reaches, BoundaryType
<1>3. k.offset <= Len(lines)
  BY <1>1, <1>2
<1>4. /\ passed \in Seq(LineType) /\ Len(passed) = k.offset - k.from
      /\ \A j \in 1 .. k.offset - k.from : passed[j] = lines[k.from + j]
  BY <1>1, <1>3, PassedFacts
<1> HIDE DEF passed
<1>5. ASSUME NEW j \in 1 .. Len(passed), Matches(k.predicate, passed[j])
      PROVE  passed[j].seq <= k.upper.seq
  <2>1. k.from + j \in 1 .. k.upper.offset /\ passed[j] = lines[k.from + j]
    BY <1>1, <1>2, <1>4
  <2>2. passed[j].kind = "record"
    BY <1>5 DEF Matches
  <2> QED
    BY <1>2, <2>1, <2>2
<1>6. /\ Selected(k.predicate, passed) \in Seq(LineType)
      /\ \A i \in DOMAIN Selected(k.predicate, passed) : \E j \in 1 .. Len(passed) :
           Selected(k.predicate, passed)[i] = passed[j] /\ Matches(k.predicate, passed[j])
  BY <1>4, SelectedFacts
<1> QED
  BY <1>1, <1>5, <1>6

\* A page takes up what was written from the cursor on.
LEMMA AdvancedIsExact ==
  ASSUME ArchiveInv, NEW s, SourceInv(s, files, history),
         NEW k, CursorInv(k, history), CursorInUse(k, s),
         NEW n \in Nat, n <= k.upper.offset - k.offset, Scannable(k, s, n)
  PROVE  CursorInv(Advanced(k, s, n), history) /\ CursorInUse(Advanced(k, s, n), s)
<1> DEFINE lines == history[s.artifact]
           read == Lines(s, k.offset, n)
           r == Advanced(k, s, n)
           before == Passed(lines, k.from, k.offset)
           after == Passed(lines, k.from, k.offset + n)
<1>1. /\ DOMAIN k = CursorFields /\ k.binding.artifact = s.artifact /\ s.artifact \in Artifacts
      /\ k.upper = s.fence /\ Start <= k.offset
      /\ k.from \in Nat /\ k.offset \in Nat /\ k.from <= k.offset
      /\ Reaches(k.upper, lines) /\ k.offset <= k.upper.offset
      /\ k.seen = Selected(k.predicate, before)
      /\ k.count = Len(Records(before))
      /\ k.finalized => k.offset = Len(lines) /\ lines[k.offset].kind = "end"
  BY DEF CursorInv, CursorInUse
<1>2. /\ k.upper.offset \in Nat /\ k.upper.offset <= Len(lines) /\ Len(lines) \in Nat
      /\ lines \in Seq(LineType)
  BY <1>1 DEF Reaches, BoundaryType, ArchiveInv, Written
<1>3. k.offset <= Len(lines) /\ k.offset + n \in Nat /\ k.offset + n <= k.upper.offset
      /\ k.offset + n <= Len(lines) /\ k.from <= k.offset + n
  BY SMTT(20), <1>1, <1>2
<1>4. \A i \in 0 .. n - 1 : LineAt(s, k.offset + i).kind # "hole"
  BY DEF Scannable, IsRow, IsEnd
<1>5. read = Passed(lines, k.offset, k.offset + n)
  BY <1>1, <1>3, <1>4, LinesFacts
<1>6. /\ DOMAIN r = CursorFields /\ r.upper = k.upper /\ r.binding = k.binding
      /\ r.predicate = k.predicate /\ r.from = k.from
      /\ r.offset = k.offset + n
      /\ r.count = k.count + Len(Records(read))
      /\ r.seen = k.seen \o Selected(k.predicate, read)
      /\ r.finalized = (k.finalized \/ (n > 0 /\ read[n].kind = "end"))
  BY <1>1 DEF Advanced, CursorFields
<1> HIDE DEF r, read, lines
<1>7. before \in Seq(LineType) /\ read \in Seq(LineType) /\ after = before \o read
  <2>1. before \in Seq(LineType)
    BY <1>1, <1>2, <1>3, PassedFacts
  <2>2. read \in Seq(LineType)
    BY <1>1, <1>2, <1>3, <1>5, PassedFacts
  <2>3. after = before \o Passed(lines, k.offset, k.offset + n)
    <3>1. /\ k.from \in Nat /\ k.offset \in Nat /\ k.from <= k.offset
          /\ k.offset + n <= Len(lines) /\ lines \in Seq(LineType)
      BY <1>1, <1>2, <1>3
    <3> QED
      BY <3>1, PassedGrows
  <2> QED
    BY <1>5, <2>1, <2>2, <2>3
<1> HIDE DEF before, after
<1>8. /\ r.seen = Selected(k.predicate, after)
      /\ r.count = Len(Records(after))
  <2>1. Selected(k.predicate, before \o read) = Selected(k.predicate, before) \o Selected(k.predicate, read)
    BY <1>7, SelectedOfBoth
  <2>2. Len(Records(before \o read)) = Len(Records(before)) + Len(Records(read))
    BY <1>7, RecordsOfBoth
  <2> QED
    BY <1>1, <1>6, <1>7, <2>1, <2>2
<1>9. ASSUME r.finalized
      PROVE  r.offset = Len(lines) /\ lines[r.offset].kind = "end"
  <2>1. CASE k.finalized
    <3>1. n = 0
      BY <1>1, <1>2, <1>3, <2>1
    <3> QED
      BY <1>1, <1>6, <2>1, <3>1
  <2>2. CASE ~k.finalized
    <3>0. n > 0 /\ read[n].kind = "end"
      BY <1>6, <1>9, <2>2, Zenon
    <3>1. n \in 1 .. n /\ read[n].kind = "end"
      BY <3>0
    <3>2. read[n] = LineAt(s, k.offset + n - 1) /\ k.offset + n - 1 \in Nat
      BY <1>1, <3>1 DEF read, Lines
    <3>3. LineAt(s, k.offset + n - 1) = lines[(k.offset + n - 1) + 1]
          /\ (k.offset + n - 1) + 1 = Len(lines)
      BY <3>1, <3>2, LineAtFacts DEF lines
    <3>4. (k.offset + n - 1) + 1 = k.offset + n
      BY <1>1
    <3> QED
      BY <1>6, <3>1, <3>2, <3>3, <3>4
  <2> QED
    BY <2>1, <2>2
<1>10. CursorInv(r, history)
  BY <1>1, <1>3, <1>6, <1>8, <1>9 DEF CursorInv, lines, after
<1>11. CursorInUse(r, s)
  BY <1>1, <1>3, <1>6 DEF CursorInUse, Start
<1> QED
  BY <1>10, <1>11 DEF r

LEMMA ScanPageKeepsPaging ==
  ASSUME PagingInv, NEW c \in Clients, ScanPage(c)
  PROVE  PagingInv'
<1> DEFINE command == cmd[c]
           k == Only(command.cursor)
           s == command.source
           left == k.upper.offset - k.offset
           new(n) == [command EXCEPT !.cursor = {Advanced(k, s, n)}, !.page = k.offset,
                                     !.rows = Advanced(k, s, n).seen, !.pc = "check"]
<1>1. /\ ArchiveInv /\ CommandInv(command, files, history)
      /\ UNCHANGED <<sourceVars, held>> /\ command.pc = "scan" /\ command.cursor # {}
  BY DEF PagingInv, ScanPage, At
<1>2. /\ DOMAIN command = CommandFields /\ StatusInv(command.read, history)
      /\ command.request.command = "query" <=> command.reference = {}
      /\ ScanInv(command, files, history)
      /\ \A j \in command.cursor : CursorInv(j, history)
  BY <1>1 DEF CommandInv, TokensInv
<1>3. /\ SourceInv(s, files, history) /\ command.reference = {}
      /\ CursorInv(k, history) /\ CursorInUse(k, s)
  BY <1>1, <1>2, OnlyIsMember DEF ScanInv
<1>4. left \in Nat
  <2>1. k.offset \in Nat /\ k.offset <= k.upper.offset /\ k.upper \in BoundaryType
    BY <1>3 DEF CursorInv, Reaches
  <2> HIDE DEF k, s, command
  <2>2. k.upper.offset \in Nat
    BY <2>1 DEF BoundaryType
  <2> QED
    BY <2>1, <2>2
<1>5. \/ \E n \in (IF left = 0 THEN {0} ELSE 1 .. left) : Scannable(k, s, n) /\ Continues(c, new(n))
      \/ Fails(c, "invalid")
  BY DEF ScanPage
<1>6. ASSUME NEW n \in Nat, n <= left, Scannable(k, s, n)
      PROVE  CommandInv(new(n), files, history)
  <2> DEFINE r == Advanced(k, s, n)
             m == new(n)
  <2>1. CursorInv(r, history) /\ CursorInUse(r, s)
    BY <1>1, <1>3, <1>6, AdvancedIsExact
  <2>2. r.seen \in Seq(LineType) /\ \A i \in DOMAIN r.seen : r.seen[i].seq <= r.upper.seq
    BY <1>1, <2>1, SeenFacts
  <2> HIDE DEF r, s, k
  <2>3. /\ DOMAIN m = CommandFields /\ m.read = command.read /\ m.request = command.request
        /\ m.cursor = {r} /\ m.reference = {} /\ m.source = s /\ m.rows = r.seen /\ m.pc = "check"
    BY <1>2, <1>3 DEF CommandFields, s, r
  <2> HIDE DEF m
  <2>4. TokensInv(m.cursor, m.reference, history)
    BY <2>1, <2>3 DEF TokensInv, AtMostOne
  <2>5. ScanInv(m, files, history)
    BY <1>3, <2>1, <2>3 DEF ScanInv
  <2>6. AnswerInv(m, history)
    BY <2>1, <2>2, <2>3 DEF AnswerInv, CursorInUse
  <2>7. CommandInv(m, files, history)
    BY <1>2, <1>3, <2>3, <2>4, <2>5, <2>6 DEF CommandInv
  <2> QED
    BY <2>7 DEF m
<1> HIDE DEF new, left, k, s
<1>7. ASSUME NEW n \in (IF left = 0 THEN {0} ELSE 1 .. left), Scannable(k, s, n), Continues(c, new(n))
      PROVE  PagingInv'
  <2>1. n \in Nat /\ n <= left
    BY <1>4, <1>7
  <2>2. CommandInv(new(n), files, history)
    BY <1>6, <1>7, <2>1
  <2> QED
    BY <1>1, <1>7, <2>2, ClientKeepsPaging
<1> QED
  BY Zenon, <1>1, <1>5, <1>7, FailureKeepsPaging

LEMMA ScanGetKeepsPaging ==
  ASSUME PagingInv, NEW c \in Clients, ScanGet(c)
  PROVE  PagingInv'
<1> DEFINE command == cmd[c]
           t == Only(command.reference)
           new == [command EXCEPT !.rows = <<t.line>>, !.pc = "check"]
<1>1. /\ ArchiveInv /\ CommandInv(command, files, history)
      /\ UNCHANGED <<sourceVars, held>> /\ command.pc = "scan" /\ command.request.command = "get"
      /\ Continues(c, new)
  BY DEF PagingInv, ScanGet, At
<1>2. /\ DOMAIN command = CommandFields /\ StatusInv(command.read, history)
      /\ command.request.command = "query" <=> command.reference = {}
      /\ ScanInv(command, files, history)
      /\ TokensInv(command.cursor, command.reference, history)
  BY <1>1 DEF CommandInv
<1>3. t \in command.reference
  BY <1>1, <1>2, OnlyIsMember
<1>4. t.line \in LineType /\ t.line.seq <= command.source.fence.seq
  BY <1>2, <1>3 DEF ScanInv, ReferenceInUse
<1> HIDE DEF t, command
<1>5. /\ DOMAIN new = CommandFields /\ new.read = command.read /\ new.request = command.request
      /\ new.cursor = command.cursor /\ new.reference = command.reference
      /\ new.source = command.source /\ new.rows = <<t.line>> /\ new.pc = "check"
  BY <1>2 DEF CommandFields
<1> HIDE DEF new
<1>6. ScanInv(new, files, history)
  BY <1>2, <1>5 DEF ScanInv
<1>7. AnswerInv(new, history)
  <2>1. new.rows \in Seq(LineType) /\ \A i \in DOMAIN new.rows : new.rows[i] = t.line
    BY <1>4, <1>5
  <2> QED
    BY <1>1, <1>4, <1>5, <2>1 DEF AnswerInv
<1>8. CommandInv(new, files, history)
  BY <1>2, <1>5, <1>6, <1>7 DEF CommandInv
<1> QED
  BY <1>1, <1>8, ClientKeepsPaging

LEMMA FirstLines ==
  ASSUME NEW lines \in Seq(LineType), NEW to \in Nat, to <= Len(lines)
  PROVE  /\ SubSeq(lines, 1, to) \in Seq(LineType) /\ Len(SubSeq(lines, 1, to)) = to
         /\ \A i \in 1 .. to : SubSeq(lines, 1, to)[i] = lines[i]
<1> DEFINE none == 0
           s == Passed(lines, none, to)
<1>1. none \in Nat /\ none <= to /\ to - none = to /\ none + 1 = 1 /\ \A i \in 1 .. to : none + i = i
  OBVIOUS
<1>2. s = SubSeq(lines, 1, to)
  BY <1>1 DEF Passed
<1> HIDE DEF none, s
<1>3. /\ s \in Seq(LineType) /\ Len(s) = to - none
      /\ \A i \in 1 .. to - none : s[i] = lines[none + i]
  BY <1>1, PassedBetween DEF s
<1> QED
  BY <1>1, <1>2, <1>3

\* Of the first u lines, those between two places and those after them.
Between(rows, lines, whole, u, first, next) ==
  /\ Len(lines) = u
  /\ rows \in Seq(LineType) /\ Len(rows) = next - first
  /\ rows = SubSeq(lines, first + 1, next)
  /\ next = u \/ (next + 1 = u /\ whole[u].kind = "end")
       => Records(SubSeq(lines, next + 1, u)) = <<>>

LEMMA OneAfter ==
  ASSUME NEW u \in Nat, NEW next \in Nat, next + 1 = u
  PROVE  u \in 1 .. u /\ u - next = 1 /\ 1 \in 1 .. u - next
<1>1. u - next = 1 /\ 1 <= u
  OBVIOUS
<1> QED
  BY <1>1

LEMMA AroundFacts ==
  ASSUME NEW whole \in Seq(LineType), NEW u \in Nat, u <= Len(whole),
         NEW first \in Nat, NEW next \in Nat, first <= next, next <= u,
         NEW lines, lines = SubSeq(whole, 1, u),
         NEW rows, rows = Passed(whole, first, next)
  PROVE  Between(rows, lines, whole, u, first, next)
<1> DEFINE rest == Passed(lines, next, u)
<1>1. lines \in Seq(LineType) /\ Len(lines) = u /\ \A i \in 1 .. u : lines[i] = whole[i]
  BY FirstLines
<1>2. SubSeq(lines, next + 1, u) = rest
  BY DEF Passed
<1>3. next <= Len(whole)
  OBVIOUS
<1>4. rows \in Seq(LineType) /\ Len(rows) = next - first
  BY <1>3, PassedBetween
<1>5. rows = SubSeq(lines, first + 1, next)
  <2>1. \A i \in 1 .. next : lines[i] = whole[i]
    BY <1>1
  <2>2. lines \in Seq(LineType) /\ next <= Len(lines) /\ next <= Len(whole)
    BY <1>1, <1>3
  <2>3. Passed(lines, first, next) = Passed(whole, first, next)
    BY <2>1, <2>2, PassedAgrees
  <2> QED
    BY <2>3 DEF Passed
<1>6. /\ rest \in Seq(LineType) /\ Len(rest) = u - next
      /\ \A i \in 1 .. u - next : rest[i] = lines[next + i]
  <2>1. lines \in Seq(LineType) /\ u <= Len(lines) /\ next <= u
    BY <1>1
  <2> QED
    BY <2>1, PassedBetween
<1> HIDE DEF rest
<1>7. CASE next = u
  <2>1. \A i \in DOMAIN rest : rest[i].kind # "record"
    BY <1>6, <1>7
  <2>2. Records(rest) = <<>>
    BY <2>1, NoRecords
  <2> QED
    BY <1>1, <1>2, <1>4, <1>5, <2>2 DEF Between
<1>8. CASE next + 1 = u /\ whole[u].kind = "end"
  <2>1. u \in 1 .. u /\ u - next = 1 /\ 1 \in 1 .. u - next
    BY <1>8, OneAfter
  <2>2. rest[1] = lines[u] /\ lines[u] = whole[u]
    BY <1>1, <1>6, <1>8, <2>1
  <2>3. \A i \in DOMAIN rest : i = 1
    BY <1>6, <2>1
  <2>4. \A i \in DOMAIN rest : rest[i].kind # "record"
    BY <1>8, <2>2, <2>3
  <2>5. Records(rest) = <<>>
    BY <2>4, NoRecords
  <2> QED
    BY <1>1, <1>2, <1>4, <1>5, <2>5 DEF Between
<1> QED
  BY <1>1, <1>2, <1>4, <1>5, <1>7, <1>8 DEF Between

\* What a context reads of the n lines from first to next.
ReadAround(command, s, t, before, after, first, n, next) ==
  /\ before <= Around /\ first = t.offset - before /\ Start <= first
  /\ after <= Around /\ next = t.offset + after + 1 /\ next <= t.upper.offset
  /\ first + n = next
  /\ \A i \in Nat : first <= i /\ i < next =>
       LineAt(s, i).kind = "record" /\ LineAt(s, i).seq <= s.fence.seq
  /\ command.rows = Lines(s, first, n)
  /\ command.more_before = MoreBefore(before, first)
  /\ ~command.more_after =>
       \/ after >= Around
       \/ next >= t.upper.offset
       \/ next = t.upper.offset - 1 /\ LineAt(s, next).kind = "end"

\* The records read around a reference are the ones around it in the session.
LEMMA ContextFacts ==
  ASSUME ArchiveInv, NEW s, SourceInv(s, files, history), NEW t, ReferenceInUse(t, s),
         NEW before \in Nat, NEW after \in Nat, NEW first \in Nat, NEW next \in Nat,
         NEW n \in Nat, NEW command,
         ReadAround(command, s, t, before, after, first, n, next)
  PROVE  /\ ContextIsExact(command, t, history)
         /\ command.rows \in Seq(LineType)
         /\ \A i \in DOMAIN command.rows : command.rows[i].seq <= s.fence.seq
<1> DEFINE whole == history[s.artifact]
           u == t.upper.offset
           o == t.offset
           lines == SubSeq(whole, 1, u)
           rows == Lines(s, first, n)
<1>1. /\ t.binding.artifact = s.artifact /\ o \in Start .. u - 1
      /\ u \in Nat /\ u <= Len(whole) /\ whole \in Seq(LineType) /\ Len(whole) \in Nat
  <2>1. /\ t.binding.artifact = s.artifact /\ t.upper = s.fence /\ o \in Start .. u - 1
        /\ s.fence \in BoundaryType /\ u <= Len(whole) /\ s.artifact \in Artifacts
    BY DEF ReferenceInUse, SourceInv
  <2>2. whole \in Seq(LineType)
    BY <2>1 DEF ArchiveInv, Written
  <2>3. u \in Nat
    BY <2>1 DEF BoundaryType
  <2> QED
    BY <2>1, <2>2, <2>3
<1>2. /\ first = o - before /\ next = o + after + 1 /\ next <= u
      /\ command.rows = rows /\ command.more_before = MoreBefore(before, first)
      /\ ~command.more_after =>
           \/ after >= Around \/ next >= u
           \/ next = u - 1 /\ LineAt(s, next).kind = "end"
      /\ \A i \in Nat : first <= i /\ i < next =>
           LineAt(s, i).kind = "record" /\ LineAt(s, i).seq <= s.fence.seq
      /\ before <= Around /\ after <= Around /\ Start <= first /\ first + n = next
  BY DEF ReadAround
<1>3. rows = [i \in 1 .. n |-> LineAt(s, first + i - 1)]
  BY DEF Lines
<1>4. lines = SubSeq(history[t.binding.artifact], 1, t.upper.offset)
  BY <1>1
<1>5. Around \in Nat
  BY QueryPagingAssumption
<1> HIDE DEF whole, u, o, lines, rows
<1>6. o \in Nat /\ Start <= o /\ o < u /\ first <= o /\ o < next /\ first < next /\ first <= Len(whole)
  BY <1>1, <1>2 DEF Start
<1>7. rows = Passed(whole, first, next)
  <2>1. \A i \in 0 .. n - 1 : LineAt(s, first + i).kind # "hole"
    <3>1. \A i \in 0 .. n - 1 : first + i \in Nat /\ first <= first + i /\ first + i < next
      BY <1>2
    <3> QED
      BY <1>2, <3>1
  <2>2. Lines(s, first, n) = Passed(history[s.artifact], first, first + n)
    BY <1>6, <2>1, LinesFacts DEF whole
  <2> QED
    BY <1>2, <2>2 DEF rows, whole
<1>8. /\ Len(lines) = u
      /\ rows \in Seq(LineType) /\ Len(rows) = next - first
      /\ rows = SubSeq(lines, first + 1, next)
      /\ next = u \/ (next + 1 = u /\ whole[u].kind = "end")
           => Records(SubSeq(lines, next + 1, u)) = <<>>
  <2>1. first <= next
    BY <1>6
  <2>2. lines = SubSeq(whole, 1, u)
    BY DEF lines
  <2> QED
    <3>1. whole \in Seq(LineType) /\ u \in Nat /\ u <= Len(whole) /\ next <= u
      BY <1>1, <1>2
    <3>2. Between(rows, lines, whole, u, first, next)
      BY <1>7, <2>1, <2>2, <3>1, AroundFacts
    <3> QED
      BY <3>2 DEF Between
<1>9. \A i \in DOMAIN rows : rows[i].seq <= s.fence.seq
  <2> SUFFICES ASSUME NEW i \in 1 .. n PROVE rows[i].seq <= s.fence.seq
    BY <1>3
  <2>1. first + i - 1 \in Nat /\ first <= first + i - 1 /\ first + i - 1 < next
    BY <1>2
  <2> QED
    BY <1>2, <1>3, <2>1
<1>10. ~command.more_before => o - first = Around \/ first = Start
  <2> SUFFICES ASSUME ~command.more_before PROVE o - first = Around \/ first = Start
    OBVIOUS
  <2>1. ~(before < Around /\ first > Start)
    BY <1>2 DEF MoreBefore
  <2> QED
    BY <1>2, <1>5, <1>6, <2>1 DEF Start
<1>11. ~command.more_after => next - o - 1 = Around \/ Records(SubSeq(lines, next + 1, u)) = <<>>
  <2> SUFFICES ASSUME ~command.more_after
               PROVE  next - o - 1 = Around \/ Records(SubSeq(lines, next + 1, u)) = <<>>
    OBVIOUS
  <2>1. CASE after >= Around
    BY <1>2, <1>5, <1>6, <2>1
  <2>2. CASE next >= u
    <3>1. next = u
      BY <1>1, <1>2, <2>2
    <3> QED
      BY <1>8, <3>1
  <2>3. CASE next = u - 1 /\ LineAt(s, next).kind = "end"
    <3>1. whole[next + 1] = LineAt(s, next)
      BY <1>2, <2>3, LineAtFacts DEF whole
    <3>2. next + 1 = u
      BY <1>1, <2>3
    <3> QED
      BY <1>8, <2>3, <3>1, <3>2
  <2> QED
    BY <1>2, <2>1, <2>2, <2>3
<1>12. ContextIsExact(command, t, history)
  <2> DEFINE f == first + 1
             m == Len(command.rows)
             g == f + m - 1
  <2>1. f \in 1 .. o + 1 /\ g = next
    <3>1. m = next - first
      BY <1>2, <1>8
    <3>2. f + (next - first) - 1 = next /\ f \in 1 .. o + 1
      BY <1>6
    <3> HIDE DEF f, m
    <3> QED
      BY <3>1, <3>2
  <2>2. /\ o + 1 <= next /\ o + 1 - f = o - first /\ (f = Start + 1 <=> first = Start)
    BY <1>6 DEF Start
  <2> HIDE DEF f, g, m
  <2>3. o + 1 <= g /\ command.rows = SubSeq(lines, f, g)
    BY <1>2, <1>8, <2>1, <2>2 DEF f
  <2>4. ~command.more_before => o + 1 - f = Around \/ f = Start + 1
    BY <1>10, <2>2
  <2>5. ~command.more_after =>
          g - o - 1 = Around \/ Records(SubSeq(lines, g + 1, Len(lines))) = <<>>
    BY <1>8, <1>11, <2>1
  <2> QED
    BY <1>4, <2>1, <2>3, <2>4, <2>5 DEF ContextIsExact, g, m, o
<1> QED
  BY <1>2, <1>8, <1>9, <1>12

LEMMA ScanContextKeepsPaging ==
  ASSUME PagingInv, NEW c \in Clients, ScanContext(c)
  PROVE  PagingInv'
<1> DEFINE command == cmd[c]
           t == Only(command.reference)
           s == command.source
           Row(offset) == LineAt(s, offset)
           Footer(offset) == offset = t.upper.offset - 1 /\ Row(offset).kind = "end"
           First(before) == t.offset - before
           Last(after) == t.offset + after
           AllRows(before, after) ==
             \A i \in First(before) .. Last(after) :
               IsRow(s, Row(i), IF i = First(before) THEN 0 ELSE Row(i - 1).seq)
           Ended(after, footer) == footer /\ Footer(Last(after) + 1) /\ after < Around
           new(before, after, footer) ==
             [command EXCEPT
                !.rows = Lines(s, First(before), before + after + 1),
                !.more_before = MoreBefore(before, First(before)),
                !.more_after = /\ after < Around /\ Last(after) + 1 < t.upper.offset
                               /\ ~Ended(after, footer),
                !.pc = "check"]
<1>1. /\ ArchiveInv /\ CommandInv(command, files, history)
      /\ UNCHANGED <<sourceVars, held>> /\ command.pc = "scan" /\ command.request.command = "context"
  BY DEF PagingInv, ScanContext, At
<1>2. /\ DOMAIN command = CommandFields /\ StatusInv(command.read, history)
      /\ command.request.command = "query" <=> command.reference = {}
      /\ ScanInv(command, files, history)
      /\ TokensInv(command.cursor, command.reference, history)
  BY <1>1 DEF CommandInv
<1>3. /\ t \in command.reference /\ \A u \in command.reference : u = t
      /\ SourceInv(s, files, history) /\ ReferenceInUse(t, s)
  BY <1>1, <1>2, OnlyIsMember DEF ScanInv, TokensInv, AtMostOne
<1>4. \/ Fails(c, "invalid")
      \/ \E before \in 0 .. AtMost(Around, t.offset - Start),
            after \in 0 .. AtMost(Around, t.upper.offset - t.offset - 1), footer \in BOOLEAN :
           AllRows(before, after) /\ Continues(c, new(before, after, footer))
  <2>1. \E before \in 0 .. AtMost(Around, t.offset - Start),
           after \in 0 .. AtMost(Around, t.upper.offset - t.offset - 1), footer \in BOOLEAN :
          IF AllRows(before, after) THEN Continues(c, new(before, after, footer))
          ELSE ~Footer(Last(after)) /\ Fails(c, "invalid")
    BY Zenon DEF ScanContext
  <2> HIDE DEF AllRows, new, Footer, Last, t
  <2> QED
    BY <2>1
<1>5. /\ t.upper.offset \in Nat /\ t.offset \in Nat /\ Start <= t.offset
      /\ t.offset < t.upper.offset /\ Around \in Nat
  <2>1. t.upper = s.fence /\ s.fence \in BoundaryType /\ t.offset \in Start .. t.upper.offset - 1
    BY <1>3 DEF ReferenceInUse, SourceInv
  <2>2. t.upper.offset \in Nat
    BY <2>1 DEF BoundaryType
  <2> HIDE DEF t, s
  <2> QED
    BY <2>1, <2>2, QueryPagingAssumption DEF Start
<1>6. ASSUME NEW before \in 0 .. AtMost(Around, t.offset - Start),
             NEW after \in 0 .. AtMost(Around, t.upper.offset - t.offset - 1),
             NEW footer \in BOOLEAN, AllRows(before, after)
      PROVE  CommandInv(new(before, after, footer), files, history)
  <2> DEFINE m == new(before, after, footer)
             first == First(before)
             next == t.offset + after + 1
             n == before + after + 1
  <2>1. /\ DOMAIN m = CommandFields /\ m.read = command.read /\ m.request = command.request
        /\ m.cursor = command.cursor /\ m.reference = command.reference
        /\ m.source = s /\ m.pc = "check"
        /\ m.rows = Lines(s, first, n)
        /\ m.more_before = MoreBefore(before, first)
        /\ m.more_after = (/\ after < Around /\ Last(after) + 1 < t.upper.offset
                           /\ ~Ended(after, footer))
    <3> HIDE DEF t, Row, Footer, First, Last, Ended
    <3> QED
      BY <1>2 DEF CommandFields
  <2> HIDE DEF m
  <2>2. /\ ~m.more_after =>
             \/ ~(after < Around) \/ ~(Last(after) + 1 < t.upper.offset)
             \/ Last(after) + 1 = t.upper.offset - 1 /\ LineAt(s, Last(after) + 1).kind = "end"
    BY <2>1, Zenon
  <2>3. \A i \in first .. Last(after) : LineAt(s, i).kind = "record" /\ LineAt(s, i).seq <= s.fence.seq
    BY <1>6 DEF IsRow
  <2> HIDE DEF t
  <2>4. /\ before \in Nat /\ before <= Around /\ before <= t.offset - Start
        /\ after \in Nat /\ after <= Around /\ after <= t.upper.offset - t.offset - 1
    BY <1>5, <1>6 DEF AtMost, Start
  <2>5. /\ first \in Nat /\ Start <= first /\ next \in Nat /\ next <= t.upper.offset
        /\ n \in Nat /\ first + n = next /\ Last(after) + 1 = next
    BY <1>5, <2>4 DEF Start
  <2>6. \A i \in Nat : first <= i /\ i < next =>
          LineAt(s, i).kind = "record" /\ LineAt(s, i).seq <= s.fence.seq
    <3>1. \A i \in Nat : first <= i /\ i < next => i \in first .. Last(after)
      BY <1>5, <2>4, <2>5
    <3> QED
      BY <2>3, <3>1
  <2>7. ~m.more_after =>
          \/ after >= Around \/ next >= t.upper.offset
          \/ next = t.upper.offset - 1 /\ LineAt(s, next).kind = "end"
    BY <1>5, <2>2, <2>4, <2>5
  <2>8. first = t.offset - before /\ next = t.offset + after + 1
    OBVIOUS
  <2> HIDE DEF first, next, n, Last
  <2>9. ReadAround(m, s, t, before, after, first, n, next)
    BY <2>1, <2>4, <2>5, <2>6, <2>7, <2>8 DEF ReadAround
  <2>10. /\ ContextIsExact(m, t, history) /\ m.rows \in Seq(LineType)
         /\ \A i \in DOMAIN m.rows : m.rows[i].seq <= s.fence.seq
    BY <1>1, <1>3, <2>4, <2>5, <2>9, ContextFacts
  <2>11. AnswerInv(m, history)
    BY <1>3, <2>1, <2>10 DEF AnswerInv
  <2>12. ScanInv(m, files, history)
    BY <1>2, <2>1 DEF ScanInv
  <2>13. CommandInv(m, files, history)
    BY <1>2, <2>1, <2>11, <2>12 DEF CommandInv
  <2> QED
    BY <2>13 DEF m
<1> HIDE DEF new, AllRows, t
<1>7. ASSUME NEW before \in 0 .. AtMost(Around, t.offset - Start),
             NEW after \in 0 .. AtMost(Around, t.upper.offset - t.offset - 1),
             NEW footer \in BOOLEAN, AllRows(before, after),
             Continues(c, new(before, after, footer))
      PROVE  PagingInv'
  <2>1. CommandInv(new(before, after, footer), files, history)
    BY <1>6, <1>7
  <2> QED
    BY <1>1, <1>7, <2>1, ClientKeepsPaging
<1> QED
  BY <1>1, <1>4, <1>7, FailureKeepsPaging

LEMMA CheckKeepsPaging ==
  ASSUME PagingInv, NEW c \in Clients, Check(c)
  PROVE  PagingInv'
<1> DEFINE command == cmd[c]
<1>1. /\ ArchiveInv /\ CommandInv(command, files, history) /\ DOMAIN cmd = Clients
      /\ UNCHANGED sourceVars /\ command.pc = "check"
  BY DEF PagingInv, Shaped, Check, At
<1>2. /\ DOMAIN command = CommandFields /\ StatusInv(command.read, history)
      /\ TokensInv(command.cursor, command.reference, history)
  BY <1>1 DEF CommandInv
<1>3. \/ Fails(c, "stale") /\ UNCHANGED held
      \/ Continues(c, [command EXCEPT !.pc = "status"]) /\ UNCHANGED held
      \/ Continues(c, Idle("none")) /\ Keeps(command)
  BY DEF Check
<1>4. CASE Fails(c, "stale") /\ UNCHANGED held
  BY <1>1, <1>4, FailureKeepsPaging
<1>5. CASE Continues(c, [command EXCEPT !.pc = "status"]) /\ UNCHANGED held
  <2> DEFINE new == [command EXCEPT !.pc = "status"]
  <2>1. /\ DOMAIN new = CommandFields /\ new.read = command.read /\ new.request = command.request
        /\ new.cursor = command.cursor /\ new.reference = command.reference /\ new.pc = "status"
    BY <1>2 DEF CommandFields
  <2>2. Continues(c, new)
    BY <1>5
  <2> HIDE DEF new
  <2>3. CommandInv(new, files, history)
    BY <1>1, <1>2, <2>1, WaitingIsExact
  <2> QED
    BY <1>1, <1>5, <2>2, <2>3, ClientKeepsPaging
<1>6. CASE Continues(c, Idle("none")) /\ Keeps(command)
  <2>1. CommandInv(Idle("none"), files, history)
    BY <1>1, IdleIsExact
  <2>2. CASE UNCHANGED held
    BY <1>1, <1>6, <2>1, <2>2, ClientKeepsPaging
  <2>3. CASE ~UNCHANGED held
    <3>1. PICK t \in {{}} \cup {{r} : r \in References(command)} :
            held' = [cursor |-> command.cursor, reference |-> t]
      BY <1>6, <2>3 DEF Keeps
    <3>2. command.cursor # {}
      BY <1>6, <2>3 DEF Keeps
    <3>3. Upper(command) \in BoundaryType
      BY <1>2, <3>2, OnlyIsMember DEF Upper, TokensInv, CursorInv, Reaches
    <3>4. \A r \in References(command) : r.upper = Upper(command)
      BY DEF References
    <3> HIDE DEF command
    <3>5. AtMostOne(t) /\ \A r \in t : r.upper \in BoundaryType
      BY <3>1, <3>3, <3>4 DEF AtMostOne
    <3>6. TokensInv(held'.cursor, held'.reference, history) /\ DOMAIN held' = {"cursor", "reference"}
      BY <1>2, <3>1, <3>5 DEF TokensInv
    <3>7. UNCHANGED <<files, path, status, closure, closer, recorder, harmed, history>>
      BY <1>1 DEF sourceVars
    <3>8. ArchiveInv'
      BY <1>1, <3>7 DEF ArchiveInv, ArchiveType
    <3>9. /\ DOMAIN cmd' = Clients
          /\ \A d \in Clients : CommandInv(cmd'[d], files', history')
      <4>1. cmd' = [cmd EXCEPT ![c] = Idle("none")]
        BY <1>6 DEF Continues
      <4> QED
        BY <1>1, <2>1, <3>7, <4>1 DEF PagingInv
    <3> QED
      BY <3>6, <3>7, <3>8, <3>9 DEF PagingInv, Shaped
  <2> QED
    BY <2>2, <2>3
<1> QED
  BY <1>3, <1>4, <1>5, <1>6

LEMMA PagingStarts == Init => PagingInv
<1> SUFFICES ASSUME Init PROVE PagingInv
  OBVIOUS
<1>1. ArchiveInv
  BY ArchiveStarts DEF Init
<1>2. cmd = [c \in Clients |-> Idle("none")] /\ held = [cursor |-> {}, reference |-> {}]
  BY DEF Init
<1>3. \A c \in Clients : CommandInv(cmd[c], files, history)
  BY <1>1, <1>2, IdleIsExact
<1>4. TokensInv(held.cursor, held.reference, history)
  BY <1>2 DEF TokensInv, AtMostOne
<1>5. Shaped
  BY <1>2 DEF Shaped
<1> QED
  BY <1>1, <1>3, <1>4, <1>5 DEF PagingInv

LEMMA PagingStep == PagingInv /\ [Next]_vars => PagingInv'
<1> SUFFICES ASSUME PagingInv, [Next]_vars PROVE PagingInv'
  OBVIOUS
<1>1. CASE UNCHANGED vars
  <2>1. UNCHANGED <<files, path, status, closure, closer, recorder, harmed, history, cmd, held>>
    BY <1>1 DEF vars, sourceVars
  <2>2. ArchiveInv'
    BY <2>1 DEF PagingInv, ArchiveInv, ArchiveType
  <2> QED
    BY <2>1, <2>2 DEF PagingInv, Shaped
<1>2. ASSUME NEW c \in Clients, Step(c) PROVE PagingInv'
  BY <1>2, BeginKeepsPaging, KeyKeepsPaging, ReadStatusKeepsPaging, OpenSourceKeepsPaging,
     ScanPageKeepsPaging, ScanGetKeepsPaging, ScanContextKeepsPaging, CheckKeepsPaging DEF Step
<1>3. CASE OtherLinksKey
  <2>1. UNCHANGED <<files, path, status, closure, closer, recorder, harmed, history, cmd, held>>
    BY <1>3 DEF OtherLinksKey, sourceVars
  <2>2. ArchiveInv'
    BY <2>1 DEF PagingInv, ArchiveInv, ArchiveType
  <2> QED
    BY <2>1, <2>2 DEF PagingInv, Shaped
<1>4. CASE Surroundings(OpenFiles) /\ UNCHANGED <<key, cmd, held, commands>>
  BY <1>4, SurroundingsKeepPaging
<1> QED
  BY <1>1, <1>2, <1>3, <1>4 DEF Next

LEMMA PagingHolds == Spec => []PagingInv
<1>1. Init => PagingInv
  BY PagingStarts
<1>2. PagingInv /\ [Next]_vars => PagingInv'
  BY PagingStep
<1> QED
  BY <1>1, <1>2, PTL DEF Spec

-------------------------------------------------------------------------------
(* Without harm *)

\* The records in the first n lines of a session: as many as the last one's number.
Counted(lines, n) ==
  IF n = 0 THEN 0 ELSE IF lines[n].kind = "end" THEN n - 2 ELSE n - 1

\* A boundary the recorder published, or could have.
Published(b, lines) ==
  /\ b \in BoundaryType /\ b.offset <= Len(lines)
  /\ b.seq = Counted(lines, b.offset)

Tells(st, lines) ==
  /\ st.artifact = "recorded" /\ Published(st.end, lines) /\ st.entries = st.end.seq

\* Nobody but the recorder touched the session.
Pristine == ~harmed /\ closure = {}

Intact ==
  /\ path = 1 /\ files[1] = history["recorded"]
  /\ Tells(status, history["recorded"])

Place(lines, n) == [at |-> n, line |-> lines[n]]

Identifies(b, upper, lines) ==
  \E n \in 1 .. upper.offset :
    b = [id |-> 1, session |-> b.session, artifact |-> "recorded", prefix |-> SubSeq(lines, 1, n)]

\* A token of the session knows it up to a boundary that was published.
TokenFits(t, lines, limit) ==
  t.binding.session =>
    /\ Identifies(t.binding, t.upper, lines)
    /\ Published(t.upper, lines)
    /\ Start <= t.upper.offset /\ t.upper.offset <= limit

CursorFits(k, lines) ==
  k.binding.session =>
    /\ Start <= k.from
    /\ k.upper_anchor = Place(lines, k.upper.offset) /\ k.anchor = Place(lines, k.offset)
    /\ k.last = Counted(lines, k.offset)
    /\ \/ k.skipped = {Counted(lines, k.from)}
       \/ k.skipped = {} /\ k.from = Start

ReferenceFits(t, lines) ==
  t.binding.session =>
    /\ t.offset \in Start .. t.upper.offset - 1
    /\ t.line = lines[t.offset + 1] /\ t.line.kind = "record"

TokensFit(cursor, reference, lines, limit) ==
  /\ \A t \in cursor \cup reference : TokenFits(t, lines, limit)
  /\ \A k \in cursor : CursorFits(k, lines)
  /\ \A t \in reference : ReferenceFits(t, lines)

CommandFits(command, lines, limit) ==
  /\ TokensFit(command.cursor, command.reference, lines, limit)
  /\ command.pc = "open" =>
       /\ Tells(command.read, lines) /\ command.read.end.offset <= limit
       /\ TokensFit(command.cursor, command.reference, lines, command.read.end.offset)
  /\ command.pc = "scan" /\ command.request.session =>
       \A k \in command.cursor :
         k.skipped # {} => command.source.published = command.source.fence.seq

\* What holds of flags and tokens whatever happens to the session.
FlagsFit(predicate) == predicate = Predicate(predicate.filter, predicate.since)

CursorKept(k) == FlagsFit(k.predicate) /\ (k.skipped # {} => k.mode = "tail")

CommandKept(command) ==
  /\ Valid(command.request) /\ FlagsFit(command.predicate)
  /\ command.cursor = {} \/ command.reference = {}
  /\ \A k \in command.cursor : CursorKept(k)
  /\ command.pc \in {"scan", "check"} =>
       /\ command.source.session = command.request.session
       /\ \A t \in command.cursor \cup command.reference : t.binding = Binding(command.source)
  /\ command.pc = "check" /\ command.cursor # {} => command.page \in Nat /\ Start <= command.page

KeptInv ==
  /\ \A c \in Clients : CommandKept(cmd[c])
  /\ \A k \in held.cursor : CursorKept(k)

FitInv ==
  LET lines == history["recorded"]
      limit == status.end.offset
  IN /\ Intact
     /\ \A c \in Clients : CommandFits(cmd[c], lines, limit)
     /\ TokensFit(held.cursor, held.reference, lines, limit)

FairInv == KeptInv /\ (Pristine => FitInv)

AlarmInv == PagingInv /\ FairInv

-------------------------------------------------------------------------------
(* The numbers of a session's records *)

LEMMA RecordsJoin ==
  ASSUME NEW a \in Seq(LineType), NEW b \in Seq(LineType)
  PROVE  Records(a \o b) = Records(a) \o Records(b)
<1> DEFINE p == Predicate("any", 0)
<1> HIDE DEF p
<1>1. a \o b \in Seq(LineType)
  BY ConcatProperties
<1>2. Records(a \o b) = Selected(p, a \o b)
  BY <1>1, RecordsAreSelected DEF p
<1>3. Records(a) = Selected(p, a) /\ Records(b) = Selected(p, b)
  BY RecordsAreSelected DEF p
<1>4. Selected(p, a \o b) = Selected(p, a) \o Selected(p, b)
  BY SelectedOfBoth
<1> QED
  BY <1>2, <1>3, <1>4

LEMMA PassedJoin ==
  ASSUME NEW lines \in Seq(LineType), NEW from \in Nat, NEW mid \in Nat, NEW to \in Nat,
         from <= mid, mid <= to, to <= Len(lines)
  PROVE  Passed(lines, from, to) = Passed(lines, from, mid) \o Passed(lines, mid, to)
<1>1. /\ from + 1 \in 1 .. Len(lines) + 1 /\ mid \in (from + 1) - 1 .. Len(lines)
      /\ to \in mid .. Len(lines)
  OBVIOUS
<1> QED
  BY <1>1, ConcatAdjacentSubSeq DEF Passed

\* What a place among the lines of a session tells.
LEMMA PlaceFacts ==
  ASSUME NEW a \in Artifacts, NEW lines, Written(lines, a), NEW n \in Nat,
         1 <= n, n <= Len(lines)
  PROVE  /\ lines[n] \in LineType
         /\ lines[n].kind = "end" =>
              /\ n = Len(lines) /\ 2 <= n /\ Counted(lines, n) = n - 2
              /\ lines[n].seq = n - 2 /\ lines[n].count = n - 2
         /\ lines[n].kind # "end" => Counted(lines, n) = n - 1
         /\ lines[n].kind # "end" /\ 2 <= n => lines[n].kind = "record" /\ lines[n].seq = n - 1
         /\ n < Len(lines) => lines[n].kind # "end"
         /\ Counted(lines, n) \in Nat
<1>1. /\ n \in 1 .. Len(lines) /\ Len(lines) \in Nat /\ lines[1].kind = "header"
      /\ lines[n] \in LineType
      /\ lines[n].kind = "end" => n = Len(lines)
      /\ n >= 2 => lines[n].kind \in {"record", "end"}
      /\ lines[n].kind = "record" => lines[n].seq = n - 1
  BY WrittenFacts
<1>2. ASSUME lines[n].kind = "end"
      PROVE  2 <= n /\ lines[n].seq = n - 2 /\ lines[n].count = n - 2
  <2>1. n # 1
    BY <1>1, <1>2
  <2>2. n \in 2 .. Len(lines) /\ n - 1 \in Nat /\ n - 2 \in Nat
    BY <1>1, <2>1
  <2>3. lines[n] = Record(a, n - 1) \/ lines[n] = End(a, n - 2, n - 2)
    BY <2>2 DEF Written
  <2>4. lines[n] = End(a, n - 2, n - 2)
    BY <1>2, <2>2, <2>3, LineFacts
  <2> QED
    BY <2>2, <2>4 DEF End, Line
<1>3. Counted(lines, n) = IF lines[n].kind = "end" THEN n - 2 ELSE n - 1
  BY DEF Counted
<1> QED
  BY <1>1, <1>2, <1>3

\* Further on, more were counted.
LEMMA CountedGrows ==
  ASSUME NEW a \in Artifacts, NEW lines, Written(lines, a), NEW m \in Nat, NEW n \in Nat,
         m <= n, n <= Len(lines)
  PROVE  /\ Counted(lines, m) \in Nat /\ Counted(lines, n) \in Nat
         /\ Counted(lines, m) <= Counted(lines, n)
<1>0. Len(lines) \in Nat
  BY WrittenFacts
<1>1. CASE m = 0
  <2>1. Counted(lines, m) = 0
    BY <1>1 DEF Counted
  <2>2. n = 0 \/ Counted(lines, n) \in Nat
    BY PlaceFacts
  <2> QED
    BY <1>1, <2>1, <2>2
<1>2. CASE m # 0
  <2>1. 1 <= m /\ m <= Len(lines) /\ 1 <= n
    BY <1>0, <1>2
  <2>2. /\ Counted(lines, m) \in Nat
        /\ m < Len(lines) => Counted(lines, m) = m - 1
    BY <2>1, PlaceFacts
  <2>3. /\ Counted(lines, n) \in Nat
        /\ Counted(lines, n) = n - 1 \/ Counted(lines, n) = n - 2
    BY <2>1, PlaceFacts
  <2>4. CASE m = n
    BY <2>2, <2>4
  <2>5. CASE m < n
    BY <1>0, <2>1, <2>2, <2>3, <2>5
  <2> QED
    BY <2>4, <2>5
<1> QED
  BY <1>1, <1>2

\* The number of the last record is that of a record, or there is none.
LEMMA LastSeqIsOne ==
  ASSUME NEW lines \in Seq(LineType), NEW n \in Nat,
         \A i \in 1 .. Len(lines) : lines[i].kind = "record" => lines[i].seq <= n
  PROVE  LastSeq(lines) <= n
<1> DEFINE p == Predicate("any", 0)
           r == Records(lines)
<1>1. /\ Selected(p, lines) \in Seq(LineType)
      /\ \A i \in DOMAIN Selected(p, lines) : \E j \in 1 .. Len(lines) :
           Selected(p, lines)[i] = lines[j] /\ Matches(p, lines[j])
  BY SelectedFacts
<1>2. r = Selected(p, lines)
  BY RecordsAreSelected
<1>3. /\ r \in Seq(LineType)
      /\ \A i \in DOMAIN r : \E j \in 1 .. Len(lines) : r[i] = lines[j] /\ lines[j].kind = "record"
  BY <1>1, <1>2 DEF Matches
<1>4. LastSeq(lines) = IF r = <<>> THEN 0 ELSE r[Len(r)].seq
  BY DEF LastSeq
<1> HIDE DEF r, p
<1>5. CASE r = <<>>
  BY <1>4, <1>5
<1>6. CASE r # <<>>
  <2>1. Len(r) \in DOMAIN r
    BY <1>3, <1>6, EmptySeq
  <2>2. PICK j \in 1 .. Len(lines) : r[Len(r)] = lines[j] /\ lines[j].kind = "record"
    BY <1>3, <2>1
  <2> QED
    BY <1>4, <1>6, <2>2
<1> QED
  BY <1>5, <1>6

\* As many records and such a last number as are counted are in the first lines.
LEMMA FirstRecords ==
  ASSUME NEW a \in Artifacts, NEW lines, Written(lines, a), NEW n \in Nat, n <= Len(lines)
  PROVE  /\ Len(Records(SubSeq(lines, 1, n))) = Counted(lines, n)
         /\ LastSeq(SubSeq(lines, 1, n)) = Counted(lines, n)
<1>1. lines \in Seq(LineType) /\ Len(lines) \in Nat
  BY WrittenFacts
<1>2. ASSUME NEW m \in Nat, 1 <= m, m <= Len(lines), lines[m].kind # "end"
      PROVE  /\ Len(Records(SubSeq(lines, 1, m))) = m - 1
             /\ LastSeq(SubSeq(lines, 1, m)) = m - 1
  <2> DEFINE first == SubSeq(lines, 1, m)
  <2>1. first \in Seq(LineType) /\ Len(first) = m /\ \A i \in 1 .. m : first[i] = lines[i]
    BY <1>1, <1>2, FirstLines
  <2> HIDE DEF first
  <2>2. \A i \in 1 .. m : lines[i].kind # "end"
    BY <1>1, <1>2, WrittenFacts
  <2>3. Written(first, a)
    <3>1. first # <<>> /\ first[1] = Header(a)
      BY <1>2, <2>1 DEF Written
    <3>2. \A i \in 2 .. m : first[i] = Record(a, i - 1)
      <4> SUFFICES ASSUME NEW i \in 2 .. m PROVE first[i] = Record(a, i - 1)
        OBVIOUS
      <4>1. i \in 2 .. Len(lines) /\ i \in 1 .. m /\ i - 2 \in Nat
        BY <1>1, <1>2
      <4>2. lines[i] = Record(a, i - 1) \/ lines[i] = End(a, i - 2, i - 2)
        BY <4>1 DEF Written
      <4> QED
        BY <2>1, <2>2, <4>1, <4>2, LineFacts
    <3> QED
      BY <2>1, <3>1, <3>2 DEF Written
  <2>4. NoEnd(first)
    BY <2>1, <2>2 DEF NoEnd
  <2>5. Len(Records(first)) = m - 1
    BY <2>1, <2>3, <2>4, RecordCount
  <2>6. LastSeq(first) \in Nat /\ LastSeq(first) <= m - 1
    <3>1. \A i \in 1 .. Len(first) : first[i].kind = "record" => first[i].seq <= m - 1
      BY <2>1, <2>3, WrittenFacts
    <3>2. m - 1 \in Nat
      BY <1>2
    <3> QED
      BY <2>1, <3>1, <3>2, LastSeqIsOne, RecordsFacts
  <2>7. m - 1 <= LastSeq(first)
    <3>1. CASE m = 1
      BY <2>6, <3>1
    <3>2. CASE m # 1
      <4>1. 2 <= m /\ m \in 1 .. Len(first)
        BY <1>2, <2>1, <3>2
      <4>2. first[m].kind = "record" /\ first[m].seq = m - 1
        BY <1>2, <2>1, <4>1, PlaceFacts
      <4> QED
        BY <2>3, <4>1, <4>2, LastSeqFacts
    <3> QED
      BY <3>1, <3>2
  <2> QED
    BY <2>5, <2>6, <2>7 DEF first
<1>3. CASE n = 0
  <2> DEFINE first == SubSeq(lines, 1, n)
  <2>1. first \in Seq(LineType) /\ Len(first) = 0
    BY <1>1, <1>3, FirstLines
  <2> HIDE DEF first
  <2>2. \A i \in DOMAIN first : first[i].kind # "record"
    BY <2>1
  <2>3. Records(first) = <<>>
    BY <2>2, NoRecords
  <2>4. Len(Records(first)) = 0 /\ LastSeq(first) = 0
    BY <2>3 DEF LastSeq
  <2> QED
    BY <1>3, <2>4 DEF first, Counted
<1>4. CASE n # 0 /\ lines[n].kind # "end"
  <2>1. 1 <= n /\ Counted(lines, n) = n - 1
    BY <1>4 DEF Counted
  <2> QED
    BY <1>2, <1>4, <2>1
<1>5. CASE n # 0 /\ lines[n].kind = "end"
  <2> DEFINE m == n - 1
             none == 0
  <2>1. 1 <= n /\ n = Len(lines) /\ 2 <= n /\ Counted(lines, n) = n - 2
    BY <1>5, PlaceFacts
  <2>2. m \in Nat /\ 1 <= m /\ m <= Len(lines) /\ m < Len(lines) /\ n = m + 1 /\ none \in Nat
        /\ none <= m /\ none + 1 = 1 /\ m - 1 = n - 2 /\ n - m = 1
    BY <2>1
  <2> HIDE DEF m, none
  <2>3. lines[m].kind # "end"
    BY <2>2, PlaceFacts
  <2>4. Len(Records(SubSeq(lines, 1, m))) = m - 1 /\ LastSeq(SubSeq(lines, 1, m)) = m - 1
    BY <1>2, <2>2, <2>3
  <2> DEFINE last == Passed(lines, m, n)
             most == SubSeq(lines, 1, m)
  <2>5. last \in Seq(LineType) /\ Len(last) = 1 /\ last[1] = lines[m + 1]
    <3>1. /\ last \in Seq(LineType) /\ Len(last) = n - m
          /\ \A i \in 1 .. n - m : last[i] = lines[m + i]
      BY <1>1, <2>1, <2>2, PassedBetween
    <3> QED
      BY <2>2, <3>1
  <2>6. SubSeq(lines, 1, n) = most \o last
    <3>1. m <= n /\ n <= Len(lines)
      BY <1>1, <2>1, <2>2
    <3>2. Passed(lines, none, n) = Passed(lines, none, m) \o Passed(lines, m, n)
      BY ZenonT(40), <1>1, <2>2, <3>1, PassedJoin
    <3> QED
      BY <2>2, <3>2 DEF Passed
  <2>7. most \in Seq(LineType)
    BY <1>1, <2>2, FirstLines
  <2> HIDE DEF last
  <2>8. Records(last) = <<>>
    <3>1. \A i \in DOMAIN last : last[i].kind # "record"
      BY <1>5, <2>2, <2>5
    <3> QED
      BY <3>1, NoRecords
  <2> HIDE DEF most
  <2>9. Records(most \o last) = Records(most)
    <3>1. Records(most \o last) = Records(most) \o Records(last) /\ Records(most) \in Seq(LineType)
      BY <2>5, <2>7, RecordsJoin, RecordsFacts
    <3> QED
      BY <2>8, <3>1, ConcatEmptySeq
  <2>10. LastSeq(most \o last) = LastSeq(most)
    BY <2>9 DEF LastSeq
  <2> QED
    BY <2>1, <2>2, <2>4, <2>6, <2>9, <2>10 DEF most
<1> QED
  BY <1>3, <1>4, <1>5

\* So are those between two places.
LEMMA RecordsBetween ==
  ASSUME NEW a \in Artifacts, NEW lines, Written(lines, a), NEW m \in Nat, NEW n \in Nat,
         m <= n, n <= Len(lines)
  PROVE  LET passed == Passed(lines, m, n) IN
         /\ Len(Records(passed)) = Counted(lines, n) - Counted(lines, m)
         /\ IF Records(passed) = <<>> THEN Counted(lines, n) = Counted(lines, m)
            ELSE LastSeq(passed) = Counted(lines, n)
<1> DEFINE passed == Passed(lines, m, n)
           before == SubSeq(lines, 1, m)
           all == SubSeq(lines, 1, n)
           none == 0
<1>1. lines \in Seq(LineType) /\ Len(lines) \in Nat /\ m <= Len(lines)
  BY WrittenFacts
<1>2. none \in Nat /\ none <= m /\ none + 1 = 1
  OBVIOUS
<1> HIDE DEF none
<1>3. all = before \o passed
  <2>1. Passed(lines, none, n) = Passed(lines, none, m) \o Passed(lines, m, n)
    BY <1>1, <1>2, PassedJoin
  <2> QED
    BY <1>2, <2>1 DEF Passed
<1>4. before \in Seq(LineType) /\ passed \in Seq(LineType)
  BY <1>1, FirstLines, PassedBetween
<1>5. /\ Len(Records(before)) = Counted(lines, m) /\ LastSeq(before) = Counted(lines, m)
      /\ Len(Records(all)) = Counted(lines, n) /\ LastSeq(all) = Counted(lines, n)
  BY <1>1, FirstRecords
<1> HIDE DEF before, passed, all
<1>6. /\ Records(all) = Records(before) \o Records(passed)
      /\ Records(before) \in Seq(LineType) /\ Records(passed) \in Seq(LineType)
  BY <1>3, <1>4, RecordsJoin, RecordsFacts
<1> DEFINE b == Records(before)
           p == Records(passed)
           r == Records(all)
<1>7. LastSeq(all) = (IF r = <<>> THEN 0 ELSE r[Len(r)].seq)
      /\ LastSeq(passed) = (IF p = <<>> THEN 0 ELSE p[Len(p)].seq)
  BY DEF LastSeq
<1> HIDE DEF b, p, r
<1>8. b \in Seq(LineType) /\ p \in Seq(LineType) /\ r = b \o p
  BY <1>6 DEF b, p, r
<1>9. /\ Len(r) = Len(b) + Len(p) /\ Len(b) \in Nat /\ Len(p) \in Nat
      /\ \A i \in 1 .. Len(r) : r[i] = IF i <= Len(b) THEN b[i] ELSE p[i - Len(b)]
  BY <1>8, ConcatProperties
<1>10. Len(p) = Counted(lines, n) - Counted(lines, m)
  BY <1>5, <1>9 DEF b, r
<1>11. CASE p = <<>>
  <2>1. Len(p) = 0
    BY <1>11
  <2>2. Len(r) = Len(b)
    BY <1>9, <2>1
  <2> QED
    BY <1>5, <1>10, <1>11, <2>2 DEF p, passed, b, r
<1>12. CASE p # <<>>
  <2>1. Len(p) >= 1
    BY <1>8, <1>9, <1>12, EmptySeq
  <2>2. Len(r) \in 1 .. Len(r) /\ ~(Len(r) <= Len(b)) /\ Len(r) - Len(b) = Len(p) /\ Len(r) # 0
    BY <1>9, <2>1
  <2>3. r[Len(r)] = p[Len(p)] /\ r # <<>>
    BY <1>9, <2>2
  <2>4. LastSeq(passed) = Counted(lines, n)
    BY <1>5, <1>7, <1>12, <2>3
  <2> QED
    BY <1>10, <1>12, <2>4 DEF p, passed
<1> QED
  BY <1>11, <1>12

-------------------------------------------------------------------------------
(* The recorder takes back nothing that fits *)

LEMMA PublishedFacts ==
  ASSUME NEW b, NEW lines, Published(b, lines)
  PROVE  /\ b \in BoundaryType /\ b.offset \in Nat /\ b.seq \in Nat
         /\ b.offset <= Len(lines) /\ b.seq = Counted(lines, b.offset)
  BY DEF Published, BoundaryType

LEMMA PublishedStays ==
  ASSUME NEW lines \in Seq(LineType), NEW more, Grown(lines, more), NEW b, Published(b, lines)
  PROVE  Published(b, more)
<1>1. /\ Len(lines) \in Nat /\ Len(more) \in Nat /\ Len(lines) <= Len(more)
      /\ \A i \in 1 .. Len(lines) : more[i] = lines[i]
  BY GrownFacts
<1>2. /\ b \in BoundaryType /\ b.offset \in Nat /\ b.offset <= Len(lines)
      /\ b.seq = Counted(lines, b.offset)
  BY PublishedFacts
<1>3. Counted(more, b.offset) = Counted(lines, b.offset)
  <2>1. b.offset = 0 \/ more[b.offset] = lines[b.offset]
    BY <1>1, <1>2
  <2> QED
    BY <2>1 DEF Counted
<1>4. b.offset <= Len(more)
  BY <1>1, <1>2
<1> QED
  BY <1>2, <1>3, <1>4 DEF Published

LEMMA TellsStays ==
  ASSUME NEW lines \in Seq(LineType), NEW more, Grown(lines, more), NEW st, Tells(st, lines)
  PROVE  Tells(st, more)
  BY PublishedStays DEF Tells

LEMMA IdentifiesStays ==
  ASSUME NEW lines \in Seq(LineType), NEW more, Grown(lines, more), NEW b, NEW upper,
         Published(upper, lines), Identifies(b, upper, lines)
  PROVE  Identifies(b, upper, more)
<1>1. PICK n \in 1 .. upper.offset :
        b = [id |-> 1, session |-> b.session, artifact |-> "recorded", prefix |-> SubSeq(lines, 1, n)]
  BY DEF Identifies
<1>2. /\ Len(lines) \in Nat /\ Len(more) \in Nat /\ Len(lines) <= Len(more)
      /\ \A i \in 1 .. Len(lines) : more[i] = lines[i]
      /\ more \in Seq(LineType)
  BY GrownFacts
<1>3. n \in Nat /\ n <= Len(lines) /\ n <= Len(more) /\ \A i \in 1 .. n : more[i] = lines[i]
  <2>1. upper.offset \in Nat /\ upper.offset <= Len(lines)
    BY PublishedFacts
  <2> QED
    BY <1>2, <2>1
<1> DEFINE none == 0
<1>4. none \in Nat /\ none + 1 = 1
  OBVIOUS
<1> HIDE DEF none
<1>5. Passed(more, none, n) = Passed(lines, none, n)
  BY <1>2, <1>3, <1>4, PassedAgrees
<1>6. SubSeq(more, 1, n) = SubSeq(lines, 1, n)
  BY <1>4, <1>5 DEF Passed
<1> QED
  BY <1>1, <1>6 DEF Identifies

LEMMA TokenStaysFit ==
  ASSUME NEW lines \in Seq(LineType), NEW more, Grown(lines, more),
         NEW limit \in Nat, NEW next \in Nat, limit <= next, NEW t, TokenFits(t, lines, limit)
  PROVE  TokenFits(t, more, next)
<1> SUFFICES ASSUME t.binding.session
             PROVE  /\ Identifies(t.binding, t.upper, more)
                    /\ Published(t.upper, more)
                    /\ Start <= t.upper.offset /\ t.upper.offset <= next
  BY DEF TokenFits
<1>1. /\ Identifies(t.binding, t.upper, lines) /\ Published(t.upper, lines)
      /\ Start <= t.upper.offset /\ t.upper.offset <= limit
  BY DEF TokenFits
<1>2. t.upper.offset <= next
  <2>1. t.upper.offset \in Nat
    BY <1>1, PublishedFacts
  <2> QED
    BY <1>1, <2>1
<1> QED
  BY <1>1, <1>2, IdentifiesStays, PublishedStays

\* What a cursor is, to be used with what fits.
CursorSpan(k) ==
  k.from \in Nat /\ k.offset \in Nat /\ k.from <= k.offset /\ k.offset <= k.upper.offset

LEMMA CursorStaysFit ==
  ASSUME NEW lines \in Seq(LineType), NEW more, Grown(lines, more),
         NEW limit, NEW k, TokenFits(k, lines, limit), CursorSpan(k), CursorFits(k, lines)
  PROVE  CursorFits(k, more)
<1> SUFFICES ASSUME k.binding.session PROVE CursorFits(k, more)
  BY DEF CursorFits
<1>1. /\ Start <= k.from
      /\ k.upper_anchor = Place(lines, k.upper.offset) /\ k.anchor = Place(lines, k.offset)
      /\ k.last = Counted(lines, k.offset)
      /\ \/ k.skipped = {Counted(lines, k.from)}
         \/ k.skipped = {} /\ k.from = Start
  BY DEF CursorFits
<1>2. k.upper.offset \in Nat /\ k.upper.offset <= Len(lines)
  BY PublishedFacts DEF TokenFits
<1>3. /\ Len(lines) \in Nat /\ \A i \in 1 .. Len(lines) : more[i] = lines[i]
  BY GrownFacts
<1>4. /\ k.from \in 1 .. Len(lines) /\ k.offset \in 1 .. Len(lines)
      /\ k.upper.offset \in 1 .. Len(lines)
  BY <1>1, <1>2, <1>3 DEF CursorSpan, Start
<1>5. /\ Counted(more, k.from) = Counted(lines, k.from)
      /\ Counted(more, k.offset) = Counted(lines, k.offset)
      /\ Place(more, k.upper.offset) = Place(lines, k.upper.offset)
      /\ Place(more, k.offset) = Place(lines, k.offset)
  BY <1>3, <1>4 DEF Counted, Place
<1> QED
  BY <1>1, <1>5 DEF CursorFits

LEMMA ReferenceStaysFit ==
  ASSUME NEW lines \in Seq(LineType), NEW more, Grown(lines, more),
         NEW limit, NEW t, TokenFits(t, lines, limit), ReferenceFits(t, lines)
  PROVE  ReferenceFits(t, more)
<1> SUFFICES ASSUME t.binding.session PROVE ReferenceFits(t, more)
  BY DEF ReferenceFits
<1>1. /\ t.offset \in Start .. t.upper.offset - 1
      /\ t.line = lines[t.offset + 1] /\ t.line.kind = "record"
  BY DEF ReferenceFits
<1>2. t.upper.offset \in Nat /\ t.upper.offset <= Len(lines)
  BY PublishedFacts DEF TokenFits
<1>3. /\ Len(lines) \in Nat /\ \A i \in 1 .. Len(lines) : more[i] = lines[i]
  BY GrownFacts
<1>4. t.offset + 1 \in 1 .. Len(lines)
  BY <1>1, <1>2, <1>3 DEF Start
<1> QED
  BY <1>1, <1>3, <1>4 DEF ReferenceFits

LEMMA TokensStayFit ==
  ASSUME NEW lines \in Seq(LineType), NEW more, Grown(lines, more),
         NEW limit \in Nat, NEW next \in Nat, limit <= next, NEW cursor, NEW reference,
         \A k \in cursor : CursorSpan(k), TokensFit(cursor, reference, lines, limit)
  PROVE  TokensFit(cursor, reference, more, next)
<1>1. \A t \in cursor \cup reference : TokenFits(t, lines, limit)
  BY DEF TokensFit
<1>2. \A t \in cursor \cup reference : TokenFits(t, more, next)
  BY <1>1, TokenStaysFit
<1>3. \A k \in cursor : CursorFits(k, more)
  BY <1>1, CursorStaysFit DEF TokensFit
<1>4. \A t \in reference : ReferenceFits(t, more)
  BY <1>1, ReferenceStaysFit DEF TokensFit
<1> QED
  BY <1>2, <1>3, <1>4 DEF TokensFit

LEMMA CommandStaysFit ==
  ASSUME NEW lines \in Seq(LineType), NEW more, Grown(lines, more),
         NEW limit \in Nat, NEW next \in Nat, limit <= next, NEW command,
         \A k \in command.cursor : CursorSpan(k), CommandFits(command, lines, limit)
  PROVE  CommandFits(command, more, next)
<1>1. /\ TokensFit(command.cursor, command.reference, lines, limit)
      /\ command.pc = "open" =>
           /\ Tells(command.read, lines) /\ command.read.end.offset <= limit
           /\ TokensFit(command.cursor, command.reference, lines, command.read.end.offset)
      /\ command.pc = "scan" /\ command.request.session =>
           \A k \in command.cursor :
             k.skipped # {} => command.source.published = command.source.fence.seq
  BY DEF CommandFits
<1>2. TokensFit(command.cursor, command.reference, more, next)
  BY <1>1, TokensStayFit
<1>3. ASSUME command.pc = "open"
      PROVE  /\ Tells(command.read, more) /\ command.read.end.offset <= next
             /\ TokensFit(command.cursor, command.reference, more, command.read.end.offset)
  <2> DEFINE n == command.read.end.offset
  <2>1. n \in Nat
    BY <1>1, <1>3, PublishedFacts DEF Tells
  <2>2. Tells(command.read, more)
    BY <1>1, <1>3, TellsStays
  <2> HIDE DEF n
  <2>3. n <= n /\ n <= next
    BY <1>1, <1>3, <2>1 DEF n
  <2>4. TokensFit(command.cursor, command.reference, lines, n)
    BY <1>1, <1>3 DEF n
  <2>5. TokensFit(command.cursor, command.reference, more, n)
    BY <2>1, <2>3, <2>4, TokensStayFit
  <2> QED
    BY <2>2, <2>3, <2>5 DEF n
<1> QED
  BY <1>1, <1>2, <1>3 DEF CommandFits

\* The status published of all that was written tells of it.
LEMMA StatusTells ==
  ASSUME NEW lines, Written(lines, "recorded"), NEW final
  PROVE  Tells(StatusOf("recorded", lines, final), lines)
<1> DEFINE n == Len(lines)
           b == Boundary(n, LastSeq(lines))
           entries == Len(Records(lines))
           st == [artifact |-> "recorded", end |-> b, entries |-> entries, final |-> final]
<1>1. lines \in Seq(LineType) /\ n \in Nat /\ "recorded" \in Artifacts
  BY WrittenFacts DEF Artifacts
<1>2. SubSeq(lines, 1, n) = lines
  <2> DEFINE s == SubSeq(lines, 1, n)
  <2>1. s \in Seq(LineType) /\ Len(s) = n /\ \A i \in 1 .. n : s[i] = lines[i]
    BY <1>1, FirstLines
  <2> HIDE DEF s
  <2>2. \A i \in 1 .. Len(s) : s[i] = lines[i]
    BY <2>1
  <2>3. s = lines
    BY <1>1, <2>1, <2>2, SeqEqual
  <2> QED
    BY <2>3 DEF s
<1>3. /\ Len(Records(SubSeq(lines, 1, n))) = Counted(lines, n)
      /\ LastSeq(SubSeq(lines, 1, n)) = Counted(lines, n)
  BY <1>1, FirstRecords
<1>4. entries = Counted(lines, n) /\ LastSeq(lines) = Counted(lines, n) /\ entries \in Nat
  BY <1>1, <1>2, <1>3, RecordsFacts
<1>5. b.offset = n /\ b.seq = Counted(lines, n) /\ b \in BoundaryType
  BY <1>1, <1>4 DEF Boundary, BoundaryType
<1>6. StatusOf("recorded", lines, final) = st
  BY DEF StatusOf
<1> HIDE DEF n, b, entries
<1>7. st.artifact = "recorded" /\ st.end = b /\ st.entries = entries
  OBVIOUS
<1>8. Published(b, lines)
  BY <1>1, <1>5 DEF Published, n
<1> QED
  BY <1>4, <1>5, <1>6, <1>7, <1>8 DEF Tells

LEMMA FirstStatusTells ==
  ASSUME NEW lines \in Seq(LineType)
  PROVE  Tells(StatusOf("recorded", <<>>, FALSE), lines)
<1> DEFINE b == Boundary(0, 0)
           st == [artifact |-> "recorded", end |-> b, entries |-> 0, final |-> FALSE]
<1>1. Records(<<>>) = <<>>
  <2>1. \A i \in DOMAIN <<>> : <<>>[i].kind # "record"
    OBVIOUS
  <2> QED
    BY <2>1, NoRecords
<1>2. StatusOf("recorded", <<>>, FALSE) = st
  BY <1>1 DEF StatusOf, LastSeq
<1>3. b \in BoundaryType /\ b.offset = 0 /\ b.seq = 0
  BY DEF BoundaryType, Boundary
<1> HIDE DEF b
<1>4. st.artifact = "recorded" /\ st.end = b /\ st.entries = 0
  OBVIOUS
<1>5. Published(b, lines)
  BY <1>3 DEF Published, Counted
<1> QED
  BY <1>2, <1>3, <1>4, <1>5 DEF Tells

\* A file nobody cut goes on where it ends.
LEMMA ExtendedIsAppended ==
  ASSUME NEW line, history["recorded"] \in Seq(LineType)
  PROVE  Extended(history["recorded"], line) = Append(history["recorded"], line)
<1> DEFINE whole == history["recorded"]
           n == Len(whole)
           e == Extended(whole, line)
<1>1. e = [i \in 1 .. n + 1 |-> IF i <= n THEN whole[i] ELSE IF i <= n THEN Hole ELSE line]
  BY DEF Extended
<1>2. n \in Nat /\ Append(whole, line) = [i \in 1 .. n + 1 |-> IF i = n + 1 THEN line ELSE whole[i]]
  OBVIOUS
<1> HIDE DEF e, n, whole
<1>3. e = [i \in 1 .. n + 1 |-> IF i = n + 1 THEN line ELSE whole[i]]
  <2>1. \A i \in 1 .. n + 1 : i <= n <=> i # n + 1
    BY <1>2
  <2> QED
    BY <1>1, <2>1
<1> QED
  BY <1>2, <1>3 DEF e, whole

LEMMA RecorderKeepsIntact ==
  ASSUME ArchiveInv, NEW open, Surroundings(open), Pristine => Intact, Pristine'
  PROVE  /\ Pristine /\ Intact'
         /\ status.end.offset \in Nat /\ status'.end.offset \in Nat
         /\ status.end.offset <= status'.end.offset
<1> DEFINE lines == history["recorded"]
           more == history'["recorded"]
<1>1. AppendRecord \/ AppendEnd \/ PublishStatus \/ RecorderDies \/ ReadToClose
  <2>1. ~LinkClosure /\ ~Cut /\ ~Replace(open)
    BY DEF Pristine, LinkClosure, Cut, Replace
  <2> QED
    BY <2>1 DEF Surroundings
<1>2. Pristine
  BY <1>1 DEF Pristine, AppendRecord, AppendEnd, PublishStatus, RecorderDies, ReadToClose
<1>3. path = 1 /\ files[1] = lines /\ Tells(status, lines)
  BY <1>2 DEF Intact
<1>4. /\ Written(lines, "recorded") /\ lines \in Seq(LineType) /\ Len(lines) \in Nat
      /\ DOMAIN files = Id /\ DOMAIN history = Artifacts /\ 1 \in Id /\ "recorded" \in Artifacts
  BY WrittenFacts DEF ArchiveInv, ArchiveType, Artifacts, Id
<1>5. status.end.offset \in Nat /\ status.end.offset <= Len(lines)
  BY <1>3, PublishedFacts DEF Tells
<1>6. ArchiveInv' /\ Onward(open)
  BY SurroundingsKeepArchive
<1>7. Grown(lines, more)
  BY <1>4, <1>6 DEF Onward
<1>8. CASE AppendRecord \/ AppendEnd
  <2>1. PICK line : Appends(line)
    BY <1>8 DEF AppendRecord, AppendEnd
  <2>2. path' = path /\ status' = status
    BY <1>8 DEF AppendRecord, AppendEnd
  <2>3. files'[1] = Extended(lines, line) /\ more = Append(lines, line)
    BY <1>3, <1>4, <2>1 DEF Appends
  <2>4. files'[1] = more
    BY <1>4, <2>3, ExtendedIsAppended
  <2> HIDE DEF lines, more
  <2>5. Tells(status, more)
    BY <1>3, <1>4, <1>7, TellsStays
  <2>6. Intact'
    BY <1>3, <2>2, <2>4, <2>5 DEF Intact, more
  <2> QED
    BY <1>2, <1>5, <2>2, <2>6
<1>9. CASE PublishStatus
  <2>1. /\ status' = StatusOf("recorded", lines, recorder = "ending")
        /\ files' = files /\ path' = path /\ history' = history
    BY <1>9 DEF PublishStatus
  <2>2. Tells(status', lines)
    BY <1>4, <2>1, StatusTells
  <2>3. Intact'
    BY <1>3, <2>1, <2>2 DEF Intact
  <2>4. status'.end.offset = Len(lines)
    BY <2>1 DEF StatusOf, Boundary
  <2> QED
    BY <1>2, <1>4, <1>5, <2>3, <2>4
<1>10. CASE RecorderDies \/ ReadToClose
  <2>1. status' = status /\ files' = files /\ path' = path /\ history' = history
    BY <1>10 DEF RecorderDies, ReadToClose
  <2>2. Intact'
    BY <1>3, <2>1 DEF Intact
  <2> QED
    BY <1>2, <1>5, <2>1, <2>2
<1> QED
  BY <1>1, <1>8, <1>9, <1>10

-------------------------------------------------------------------------------
(* Steps before the source is opened *)

\* A step of one client.
LEMMA ClientKeepsFair ==
  ASSUME PagingInv, FairInv, NEW c \in Clients, NEW new, Continues(c, new), CommandKept(new),
         Pristine => CommandFits(new, history["recorded"], status.end.offset),
         UNCHANGED <<sourceVars, held>>
  PROVE  FairInv'
<1>1. UNCHANGED <<files, path, status, closure, closer, recorder, harmed, history>>
  BY DEF sourceVars
<1>2. DOMAIN cmd = Clients /\ cmd' = [cmd EXCEPT ![c] = new] /\ held' = held
  BY DEF PagingInv, Shaped, Continues
<1>3. \A d \in Clients : cmd'[d] = IF d = c THEN new ELSE cmd[d]
  BY <1>2
<1>4. KeptInv'
  BY <1>2, <1>3 DEF FairInv, KeptInv
<1>5. Pristine' => FitInv'
  <2> SUFFICES ASSUME Pristine' PROVE FitInv'
    OBVIOUS
  <2>1. Pristine /\ FitInv
    BY <1>1 DEF Pristine, FairInv
  <2>2. Intact'
    BY <1>1, <2>1 DEF FitInv, Intact
  <2>3. \A d \in Clients : CommandFits(cmd'[d], history'["recorded"], status'.end.offset)
    BY <1>1, <1>3, <2>1 DEF FitInv
  <2>4. TokensFit(held'.cursor, held'.reference, history'["recorded"], status'.end.offset)
    BY <1>1, <1>2, <2>1 DEF FitInv
  <2> QED
    BY <2>2, <2>3, <2>4 DEF FitInv
<1> QED
  BY <1>4, <1>5 DEF FairInv

LEMMA IdleFits ==
  ASSUME NEW error, NEW lines, NEW limit
  PROVE  CommandKept(Idle(error)) /\ CommandFits(Idle(error), lines, limit)
<1> DEFINE i == Command("idle", AnyRequest)
           st == StatusOf("recorded", <<>>, FALSE)
           new == [i EXCEPT !.error = error, !.read = st]
<1>1. /\ DOMAIN i = CommandFields /\ i.pc = "idle" /\ i.cursor = {} /\ i.reference = {}
      /\ i.request = AnyRequest /\ i.predicate = Predicate("any", 0)
  BY DEF Command, CommandFields
<1>2. Idle(error) = new
  BY DEF Idle
<1> HIDE DEF i, st
<1>3. /\ new.pc = "idle" /\ new.cursor = {} /\ new.reference = {}
      /\ new.request = AnyRequest /\ new.predicate = Predicate("any", 0)
  BY <1>1 DEF CommandFields
<1> HIDE DEF new
<1>4. Valid(AnyRequest)
  BY DEF Valid, AnyRequest, Request
<1>5. FlagsFit(Predicate("any", 0))
  BY DEF FlagsFit, Predicate
<1>6. CommandKept(new)
  BY <1>3, <1>4, <1>5 DEF CommandKept
<1>7. CommandFits(new, lines, limit)
  BY <1>3 DEF CommandFits, TokensFit
<1> QED
  BY <1>2, <1>6, <1>7

LEMMA FailureKeepsFair ==
  ASSUME PagingInv, FairInv, NEW c \in Clients, NEW error, Fails(c, error),
         UNCHANGED <<sourceVars, held>>
  PROVE  FairInv'
<1>1. /\ CommandKept(Idle(error))
      /\ CommandFits(Idle(error), history["recorded"], status.end.offset)
  BY IdleFits
<1> QED
  BY <1>1, ClientKeepsFair DEF Fails

\* Only where it goes on changes.
LEMMA WaitingFits ==
  ASSUME NEW command, NEW new, CommandKept(command),
         new.request = command.request, new.cursor = command.cursor,
         new.reference = command.reference, new.predicate = command.predicate,
         new.pc \notin {"open", "scan", "check"}
  PROVE  /\ CommandKept(new)
         /\ \A lines, limit : CommandFits(command, lines, limit) => CommandFits(new, lines, limit)
<1>1. CommandKept(new)
  BY DEF CommandKept
<1>2. ASSUME NEW lines, NEW limit, CommandFits(command, lines, limit)
      PROVE  CommandFits(new, lines, limit)
  BY <1>2 DEF CommandFits
<1> QED
  BY <1>1, <1>2

LEMMA BeginKeepsFair ==
  ASSUME PagingInv, FairInv, NEW c \in Clients, Begin(c)
  PROVE  FairInv'
<1>1. PICK r \in Requests :
        /\ Valid(r)
        /\ Continues(c, [Command("key", r) EXCEPT
             !.cursor = IF r.resume /\ r.command = "query" THEN held.cursor ELSE {},
             !.reference = IF r.command = "query" THEN {} ELSE held.reference])
  BY DEF Begin
<1> DEFINE b == Command("key", r)
           cursor == IF r.resume /\ r.command = "query" THEN held.cursor ELSE {}
           reference == IF r.command = "query" THEN {} ELSE held.reference
           new == [b EXCEPT !.cursor = cursor, !.reference = reference]
<1>2. DOMAIN b = CommandFields /\ b.pc = "key" /\ b.request = r /\ b.predicate = Predicate("any", 0)
  BY DEF Command, CommandFields
<1>3. Continues(c, new) /\ UNCHANGED <<sourceVars, held>>
  BY <1>1 DEF Begin
<1>4. cursor = {} \/ reference = {}
  OBVIOUS
<1>5. cursor \subseteq held.cursor /\ reference \subseteq held.reference
  OBVIOUS
<1> HIDE DEF b, cursor, reference
<1>6. /\ new.pc = "key" /\ new.request = r /\ new.predicate = Predicate("any", 0)
      /\ new.cursor = cursor /\ new.reference = reference
  BY <1>2 DEF CommandFields
<1> HIDE DEF new
<1>7. FlagsFit(Predicate("any", 0))
  BY DEF FlagsFit, Predicate
<1>8. CommandKept(new)
  <2>1. \A k \in new.cursor : CursorKept(k)
    BY <1>5, <1>6 DEF FairInv, KeptInv
  <2> QED
    BY <1>1, <1>4, <1>6, <1>7, <2>1 DEF CommandKept
<1>9. ASSUME Pristine PROVE CommandFits(new, history["recorded"], status.end.offset)
  <2>1. TokensFit(held.cursor, held.reference, history["recorded"], status.end.offset)
    BY <1>9 DEF FairInv, FitInv
  <2>2. TokensFit(cursor, reference, history["recorded"], status.end.offset)
    BY <1>5, <2>1 DEF TokensFit
  <2> QED
    BY <1>6, <2>2 DEF CommandFits
<1> QED
  BY <1>3, <1>8, <1>9, ClientKeepsFair

LEMMA KeyKeepsFair ==
  ASSUME PagingInv, FairInv, NEW c \in Clients, LoadKey(c) \/ LinkKey(c)
  PROVE  FairInv'
<1> DEFINE command == cmd[c]
<1>1. /\ DOMAIN command = CommandFields /\ CommandKept(command)
      /\ Pristine => CommandFits(command, history["recorded"], status.end.offset)
  BY DEF PagingInv, CommandInv, FairInv, KeptInv, FitInv
<1>2. UNCHANGED <<sourceVars, held>>
  BY DEF LoadKey, LinkKey
<1>3. \/ \E k : Continues(c, [command EXCEPT !.key = k, !.pc = "status"])
      \/ Continues(c, [command EXCEPT !.pc = "link"])
  BY DEF LoadKey, LinkKey
<1> HIDE DEF command
<1>4. ASSUME NEW k, Continues(c, [command EXCEPT !.key = k, !.pc = "status"])
      PROVE  FairInv'
  <2> DEFINE new == [command EXCEPT !.key = k, !.pc = "status"]
  <2>1. /\ new.request = command.request /\ new.predicate = command.predicate
        /\ new.cursor = command.cursor /\ new.reference = command.reference /\ new.pc = "status"
    BY <1>1 DEF CommandFields
  <2>2. Continues(c, new)
    BY <1>4
  <2> HIDE DEF new
  <2>3. CommandKept(new) /\ (Pristine => CommandFits(new, history["recorded"], status.end.offset))
    BY <1>1, <2>1, WaitingFits
  <2> QED
    BY <1>2, <2>2, <2>3, ClientKeepsFair
<1>5. ASSUME Continues(c, [command EXCEPT !.pc = "link"])
      PROVE  FairInv'
  <2> DEFINE new == [command EXCEPT !.pc = "link"]
  <2>1. /\ new.request = command.request /\ new.predicate = command.predicate
        /\ new.cursor = command.cursor /\ new.reference = command.reference /\ new.pc = "link"
    BY <1>1 DEF CommandFields
  <2>2. Continues(c, new)
    BY <1>5
  <2> HIDE DEF new
  <2>3. CommandKept(new) /\ (Pristine => CommandFits(new, history["recorded"], status.end.offset))
    BY <1>1, <2>1, WaitingFits
  <2> QED
    BY <1>2, <2>2, <2>3, ClientKeepsFair
<1> QED
  BY <1>3, <1>4, <1>5

\* The flags of a cursor are the flags it began with.
LEMMA SameFlags ==
  ASSUME NEW cursor, AtMostOne(cursor), NEW k \in cursor, FlagsFit(k.predicate)
  PROVE  Predicate(k.predicate.filter, TimeAnchor(cursor)) = k.predicate
<1>1. CASE k.predicate.filter = "recent"
  <2>1. (CHOOSE j \in cursor : TRUE) = k
    BY DEF AtMostOne
  <2>2. TimeAnchor(cursor) = k.predicate.since
    BY <1>1, <2>1 DEF TimeAnchor
  <2> QED
    BY <2>2 DEF FlagsFit
<1>2. CASE k.predicate.filter # "recent"
  <2>1. \A x : Predicate(k.predicate.filter, x) = [filter |-> k.predicate.filter, since |-> 0]
    BY <1>2 DEF Predicate
  <2> QED
    BY <2>1 DEF FlagsFit
<1> QED
  BY <1>1, <1>2

LEMMA ReadStatusKeepsFair ==
  ASSUME PagingInv, FairInv, NEW c \in Clients, ReadStatus(c)
  PROVE  FairInv'
<1> DEFINE command == cmd[c]
           predicate == Predicate(command.request.filter, TimeAnchor(command.cursor))
           new == [command EXCEPT !.predicate = predicate, !.read = Effective, !.pc = "open"]
<1>1. /\ DOMAIN command = CommandFields /\ CommandKept(command)
      /\ Pristine => FitInv /\ CommandFits(command, history["recorded"], status.end.offset)
  BY DEF PagingInv, CommandInv, FairInv, KeptInv, FitInv
<1>2. UNCHANGED <<sourceVars, held>>
  BY DEF ReadStatus
<1>3. Continues(c, new) \/ \E error : Fails(c, error)
  BY DEF ReadStatus
<1>4. FlagsFit(predicate)
  BY DEF FlagsFit, Predicate
<1> HIDE DEF command, predicate
<1>5. /\ new.read = Effective /\ new.request = command.request /\ new.predicate = predicate
      /\ new.cursor = command.cursor /\ new.reference = command.reference /\ new.pc = "open"
  BY <1>1 DEF CommandFields
<1> HIDE DEF new
<1>6. CommandKept(new)
  BY <1>1, <1>4, <1>5 DEF CommandKept
<1>7. ASSUME Pristine PROVE CommandFits(new, history["recorded"], status.end.offset)
  <2> DEFINE lines == history["recorded"]
             limit == status.end.offset
  <2>1. new.read = status
    BY <1>5, <1>7 DEF Effective, Pristine
  <2>2. Tells(status, lines) /\ TokensFit(command.cursor, command.reference, lines, limit)
    BY <1>1, <1>7 DEF FitInv, Intact, CommandFits
  <2>3. limit \in Nat
    BY <2>2, PublishedFacts DEF Tells
  <2>4. limit <= limit
    BY <2>3
  <2> QED
    BY <1>5, <2>1, <2>2, <2>4 DEF CommandFits
<1> QED
  BY <1>2, <1>3, <1>6, <1>7, ClientKeepsFair, FailureKeepsFair

\* A chain goes on with the flags it began with.
Unchanged(command) ==
  \A k \in command.cursor :
    k.mode = command.request.mode /\ k.predicate.filter = command.request.filter

LEMMA ReadStatusIsFair ==
  ASSUME PagingInv, FairInv, NEW c \in Clients, ReadStatus(c), Unchanged(cmd[c])
  PROVE  cmd'[c].pc = "idle" => cmd'[c].error = "invalid_token"
<1> DEFINE command == cmd[c]
           predicate == Predicate(command.request.filter, TimeAnchor(command.cursor))
           new == [command EXCEPT !.predicate = predicate, !.read = Effective, !.pc = "open"]
<1>1. /\ DOMAIN command = CommandFields /\ CommandKept(command) /\ AtMostOne(command.cursor)
      /\ DOMAIN cmd = Clients
  BY DEF PagingInv, Shaped, CommandInv, TokensInv, FairInv, KeptInv
<1>2. \A k \in command.cursor : k.mode = command.request.mode /\ k.predicate = predicate
  BY <1>1, SameFlags DEF CommandKept, CursorKept, Unchanged
<1>3. Fails(c, "invalid_token") \/ Continues(c, new)
  BY <1>2 DEF ReadStatus
<1>4. new.pc = "open"
  BY <1>1 DEF CommandFields
<1> HIDE DEF new
<1>5. Idle("invalid_token").error = "invalid_token"
  BY IdleIsShaped
<1> QED
  BY <1>1, <1>3, <1>4, <1>5 DEF Fails, Continues

-------------------------------------------------------------------------------
(* Opening *)

LEMMA PinnedIs ==
  ASSUME NEW s, DOMAIN s = SourceFields, NEW upper
  PROVE  LET p == Pinned(s, upper) IN
         /\ DOMAIN p = SourceFields /\ p.fence = upper
         /\ p.id = s.id /\ p.session = s.session /\ p.upper = s.upper /\ p.published = s.published
         /\ Binding(p) = Binding(s)
         /\ \A offset : LineAt(p, offset) = LineAt(s, offset)
<1> DEFINE p == [s EXCEPT !.fence = upper]
<1>1. /\ DOMAIN p = SourceFields /\ p.fence = upper
      /\ p.id = s.id /\ p.session = s.session /\ p.upper = s.upper /\ p.published = s.published
      /\ p.artifact = s.artifact /\ p.prefix = s.prefix
  BY DEF SourceFields
<1>2. Pinned(s, upper) = p
  BY DEF Pinned
<1> HIDE DEF p
<1>3. Binding(p) = Binding(s) /\ \A offset : LineAt(p, offset) = LineAt(s, offset)
  BY <1>1 DEF Binding, LineAt
<1> QED
  BY <1>1, <1>2, <1>3

\* What a source says when there is one.
IsOpened(s, session, read, expected) ==
  /\ DOMAIN s = SourceFields
  /\ s.id = path /\ s.session = session /\ s.artifact = files[path][1].artifact
  /\ s.prefix = SubSeq(files[path], 1, PrefixLength(s.upper, expected))
  /\ s.fence = s.upper
  /\ session => s.upper = read.end /\ s.published = read.entries
  /\ \A b \in expected : b = Binding(s)

LEMMA OpenedIs ==
  ASSUME NEW session, NEW read, NEW expected, Opened(session, read, expected).error = "none"
  PROVE  LET s == Opened(session, read, expected).source IN
         IsOpened(s, session, read, expected) /\ s.upper.offset # 0
<1> DEFINE lines == files[path]
           upper == IF session THEN read.end ELSE OfflineEnd(lines)
           source == [id |-> path, session |-> session, artifact |-> lines[1].artifact,
                      prefix |-> SubSeq(lines, 1, PrefixLength(upper, expected)),
                      upper |-> upper, fence |-> upper,
                      published |-> IF session THEN read.entries ELSE 0]
           o == Opened(session, read, expected)
<1>1. /\ upper.offset # 0
      /\ \A b \in expected : b = Binding(source)
      /\ o.source = source
  <2>1. /\ upper.offset # 0
        /\ ~\E b \in expected : b # Binding(source)
        /\ o = [source |-> source, error |-> "none"]
    BY DEF Opened
  <2> HIDE DEF o, source, upper, lines
  <2> QED
    BY <2>1
<1>2. session => upper = read.end
  OBVIOUS
<1> HIDE DEF upper, o
<1>3. /\ DOMAIN source = SourceFields /\ source.id = path /\ source.session = session
      /\ source.artifact = lines[1].artifact
      /\ source.prefix = SubSeq(lines, 1, PrefixLength(upper, expected))
      /\ source.upper = upper /\ source.fence = upper
      /\ session => source.published = read.entries
  BY DEF SourceFields
<1> HIDE DEF source
<1> QED
  BY <1>1, <1>2, <1>3 DEF IsOpened, o

\* A line that was written can be read.
LEMMA LineIsWritten ==
  ASSUME Intact, NEW s, s.id = 1, NEW offset \in Nat, offset < Len(history["recorded"])
  PROVE  LineAt(s, offset) = history["recorded"][offset + 1]
  BY DEF Intact, LineAt

LEMMA AnchorIsPlace ==
  ASSUME Intact, NEW s, s.id = 1, NEW n \in Nat, 1 <= n, n <= Len(history["recorded"]),
         Len(history["recorded"]) \in Nat
  PROVE  /\ LineAt(s, n - 1) = history["recorded"][n]
         /\ Anchor(s, n) = Place(history["recorded"], n)
<1>1. n - 1 \in Nat /\ n - 1 < Len(history["recorded"]) /\ (n - 1) + 1 = n
  OBVIOUS
<1>2. LineAt(s, n - 1) = history["recorded"][n]
  BY <1>1, LineIsWritten
<1> QED
  BY <1>2 DEF Anchor, Place

\* A token that fits names the source.
Fitting(b, session, limit, lines) ==
  /\ b.session = session
  /\ \E upper : Published(upper, lines) /\ upper.offset <= limit /\ Identifies(b, upper, lines)

\* It names it so that both agree.
Names(b, session, limit, lines) ==
  /\ b = [id |-> 1, session |-> session, artifact |-> "recorded",
          prefix |-> SubSeq(lines, 1, Len(b.prefix))]
  /\ Len(b.prefix) \in 1 .. limit
  /\ b.id = 1 /\ b.session = session

LEMMA FittingFacts ==
  ASSUME NEW lines \in Seq(LineType), NEW limit \in Nat, limit <= Len(lines), NEW session, NEW b,
         Fitting(b, session, limit, lines)
  PROVE  Names(b, session, limit, lines)
<1>1. PICK upper : Published(upper, lines) /\ upper.offset <= limit /\ Identifies(b, upper, lines)
  BY DEF Fitting
<1>2. PICK n \in 1 .. upper.offset :
        b = [id |-> 1, session |-> b.session, artifact |-> "recorded", prefix |-> SubSeq(lines, 1, n)]
  BY <1>1 DEF Identifies
<1>3. upper.offset \in Nat
  BY <1>1, PublishedFacts
<1>4. n \in Nat /\ n <= Len(lines) /\ n \in 1 .. limit
  BY <1>1, <1>2, <1>3
<1>5. b.session = session
  BY DEF Fitting
<1>6. b.prefix = SubSeq(lines, 1, n)
  BY <1>2
<1>7. Len(SubSeq(lines, 1, n)) = n
  BY <1>4, FirstLines
<1>8. Len(b.prefix) = n /\ b.id = 1
  BY <1>2, <1>6, <1>7
<1> QED
  BY <1>2, <1>4, <1>5, <1>8 DEF Names

\* The prefix is as long as what is expected.
LEMMA PrefixFacts ==
  ASSUME NEW expected, NEW b \in expected, \A a \in expected : a = b, NEW upper
  PROVE  PrefixLength(upper, expected) = Len(b.prefix)
<1>1. {Len(a.prefix) : a \in expected} = {Len(b.prefix)}
  OBVIOUS
<1>2. (CHOOSE n \in {Len(b.prefix)} : TRUE) = Len(b.prefix)
  OBVIOUS
<1>3. expected # {}
  OBVIOUS
<1> QED
  BY <1>1, <1>2, <1>3 DEF PrefixLength

\* A session nobody touched can be opened, and its tokens name it.
LEMMA OpensWell ==
  ASSUME ArchiveInv, Intact, NEW session, session, NEW read, Tells(read, history["recorded"]),
         NEW expected, AtMostOne(expected),
         \A b \in expected : Fitting(b, session, read.end.offset, history["recorded"])
  PROVE  Opened(session, read, expected).error \in {"none", "not_ready"}
<1> DEFINE lines == history["recorded"]
           upper == read.end
           source == [id |-> path, session |-> session, artifact |-> lines[1].artifact,
                      prefix |-> SubSeq(lines, 1, PrefixLength(upper, expected)),
                      upper |-> upper, fence |-> upper,
                      published |-> IF session THEN read.entries ELSE 0]
<1>1. /\ files[path] = lines /\ path = 1
      /\ Written(lines, "recorded") /\ lines \in Seq(LineType) /\ Len(lines) \in Nat
      /\ lines[1].artifact = "recorded"
  BY WrittenFacts DEF Intact, ArchiveInv, Artifacts
<1>2. upper.offset \in Nat /\ upper.offset <= Len(lines) /\ read.artifact = "recorded"
  BY PublishedFacts DEF Tells
<1>3. ~(upper.offset > Len(lines))
  BY <1>1, <1>2
<1>4. \A b \in expected : Names(b, session, upper.offset, lines)
  <2> HIDE DEF upper, lines
  <2> QED
    BY <1>1, <1>2, FittingFacts DEF upper, lines
<1>5. ~\E b \in expected : b.id # path \/ b.session # session \/ Len(b.prefix) > upper.offset
  <2> SUFFICES ASSUME NEW b \in expected
               PROVE  b.id = path /\ b.session = session /\ ~(Len(b.prefix) > upper.offset)
    OBVIOUS
  <2> HIDE DEF upper, lines
  <2>1. b.id = 1 /\ b.session = session
    BY <1>4 DEF Names
  <2>2. Len(b.prefix) \in 1 .. upper.offset
    BY <1>4 DEF Names
  <2> QED
    BY <1>1, <1>2, <2>1, <2>2
<1>6. ~\E b \in expected : b # Binding(source)
  <2> SUFFICES ASSUME NEW b \in expected PROVE b = Binding(source)
    OBVIOUS
  <2>1. PrefixLength(upper, expected) = Len(b.prefix)
    <3>1. \A a \in expected : a = b
      BY DEF AtMostOne
    <3> HIDE DEF upper
    <3> QED
      BY <3>1, PrefixFacts
  <2>2. Binding(source) = [id |-> 1, session |-> session, artifact |-> "recorded",
                           prefix |-> SubSeq(lines, 1, Len(b.prefix))]
    <3> HIDE DEF upper, lines
    <3> QED
      BY <1>1, <2>1 DEF Binding
  <2> HIDE DEF source, upper, lines
  <2> QED
    BY <1>4, <2>2 DEF Names
<1> DEFINE o == Opened(session, read, expected)
<1>7. o = IF upper.offset = 0 THEN [source |-> NoSource, error |-> "not_ready"]
          ELSE [source |-> source, error |-> "none"]
  <2> HIDE DEF source
  <2>1. source = [id |-> path, session |-> session, artifact |-> files[path][1].artifact,
                  prefix |-> SubSeq(files[path], 1, PrefixLength(read.end, expected)),
                  upper |-> read.end, fence |-> read.end,
                  published |-> IF session THEN read.entries ELSE 0]
    BY <1>1 DEF source
  <2> HIDE DEF lines
  <2> QED
    BY <1>1, <1>2, <1>3, <1>5, <1>6, <2>1 DEF Opened
<1> HIDE DEF source, upper, o
<1>8. o.error \in {"none", "not_ready"}
  BY <1>7
<1> QED
  BY <1>8 DEF o

\* It is identified by a beginning of what was written.
LEMMA OpenedIdentifies ==
  ASSUME ArchiveInv, Intact, NEW session, session, NEW read, Tells(read, history["recorded"]),
         NEW expected, AtMostOne(expected),
         \A b \in expected : Fitting(b, session, read.end.offset, history["recorded"]),
         NEW s, IsOpened(s, session, read, expected), s.upper.offset # 0
  PROVE  Identifies(Binding(s), s.upper, history["recorded"])
<1> DEFINE lines == history["recorded"]
           upper == read.end
<1>1. /\ files[path] = lines /\ path = 1
      /\ Written(lines, "recorded") /\ lines \in Seq(LineType) /\ Len(lines) \in Nat
      /\ lines[1].artifact = "recorded"
  BY WrittenFacts DEF Intact, ArchiveInv, Artifacts
<1>2. /\ s.id = 1 /\ s.session = session /\ s.artifact = "recorded" /\ s.upper = upper
      /\ s.prefix = SubSeq(lines, 1, PrefixLength(upper, expected))
  BY <1>1 DEF IsOpened
<1>3. upper.offset \in Nat /\ upper.offset <= Len(lines) /\ upper.offset # 0
  BY <1>2, PublishedFacts DEF Tells
<1> HIDE DEF lines, upper
<1>4. PrefixLength(upper, expected) \in 1 .. upper.offset
  <2>1. CASE expected = {}
    <3>1. PrefixLength(upper, expected) = AtMost(upper.offset, Prefix)
      BY <2>1 DEF PrefixLength
    <3>2. AtMost(upper.offset, Prefix) \in 1 .. upper.offset
      BY <1>3, QuerySourceAssumption DEF AtMost
    <3> QED
      BY <3>1, <3>2
  <2>2. CASE expected # {}
    <3>1. PICK b \in expected : TRUE
      BY <2>2
    <3>2. \A a \in expected : a = b
      BY DEF AtMostOne
    <3>3. PrefixLength(upper, expected) = Len(b.prefix)
      BY <3>2, PrefixFacts
    <3>4. Len(b.prefix) \in 1 .. upper.offset
      BY <1>1, <1>3, FittingFacts DEF lines, upper, Names
    <3> QED
      BY <3>3, <3>4
  <2> QED
    BY <2>1, <2>2
<1>5. Binding(s) = [id |-> 1, session |-> s.session, artifact |-> "recorded",
                    prefix |-> SubSeq(lines, 1, PrefixLength(upper, expected))]
  BY <1>2 DEF Binding
<1>6. Binding(s).session = s.session
  BY <1>5
<1> QED
  BY <1>2, <1>4, <1>5, <1>6 DEF Identifies, lines

\* A source of the session nobody touched, as far as it was published.
Open(s, lines) ==
  /\ DOMAIN s = SourceFields /\ s.id = 1
  /\ Published(s.upper, lines) /\ Start <= s.upper.offset
  /\ Identifies(Binding(s), s.upper, lines)
  /\ s.published = s.upper.seq

\* The beginning and the end agree with what the status counts.
LEMMA EndAgrees ==
  ASSUME ArchiveInv, Intact, NEW s, Open(s, history["recorded"])
  PROVE  EndStart(s).agrees
<1> DEFINE lines == history["recorded"]
           u == s.upper.offset
           last == LineAt(s, u - 1)
           footer == u > Start /\ last.kind = "end"
           end == IF footer THEN u - 1 ELSE u
           first == LineAt(s, Start)
           final == LineAt(s, end - 1)
           count == s.published
           agrees ==
             /\ footer => last.count = count
             /\ IF end = Start THEN count = 0 /\ s.upper.seq = 0
                ELSE /\ first.kind = "record" /\ final.kind = "record"
                     /\ s.upper.seq = final.seq
                     /\ count \in 1 .. final.seq + 1 - first.seq
                     /\ end = Start + 1 => count = 1
                     /\ end > Start + 1 => count >= 2 /\ first.seq < final.seq
<1>1. EndStart(s).agrees = agrees
  BY DEF EndStart
<1>2. Written(lines, "recorded") /\ "recorded" \in Artifacts /\ Len(lines) \in Nat
      /\ lines[1].kind = "header"
  BY WrittenFacts DEF ArchiveInv, Artifacts
<1>3. /\ u \in Nat /\ 1 <= u /\ u <= Len(lines) /\ s.id = 1
      /\ s.upper.seq = Counted(lines, u) /\ count = Counted(lines, u)
  BY PublishedFacts DEF Open, Start
<1> HIDE DEF lines, u
<1>4. last = lines[u]
  BY <1>2, <1>3, AnchorIsPlace DEF lines
<1>5. /\ lines[u].kind = "end" =>
           /\ 2 <= u /\ Counted(lines, u) = u - 2 /\ lines[u].count = u - 2 /\ u = Len(lines)
      /\ lines[u].kind # "end" => Counted(lines, u) = u - 1
      /\ Counted(lines, u) \in Nat
  BY <1>2, <1>3, PlaceFacts
<1> HIDE DEF last, count
<1>6. footer <=> lines[u].kind = "end"
  BY <1>3, <1>4, <1>5 DEF Start
<1>7. footer => last.count = count
  BY <1>3, <1>4, <1>5, <1>6
<1> HIDE DEF footer
<1>8. /\ end \in Nat /\ 1 <= end /\ end <= Len(lines) /\ end = count + 1
  BY <1>2, <1>3, <1>5, <1>6
<1> HIDE DEF end
<1>9. CASE end = Start
  <2>1. count = 0
    BY <1>3, <1>5, <1>8, <1>9 DEF Start
  <2> QED
    BY <1>1, <1>3, <1>7, <1>9, <2>1
<1>10. CASE end # Start
  <2>1. 2 <= end /\ 2 <= Len(lines)
    BY <1>2, <1>8, <1>10 DEF Start
  <2>2. lines[end].kind # "end"
    <3>1. CASE lines[u].kind = "end"
      <4>1. end < Len(lines)
        BY <1>3, <1>5, <1>6, <3>1 DEF end
      <4> QED
        BY <1>2, <1>8, <4>1, PlaceFacts
    <3>2. CASE lines[u].kind # "end"
      BY <1>6, <3>2 DEF end
    <3> QED
      BY <3>1, <3>2
  <2>3. lines[end].kind = "record" /\ lines[end].seq = end - 1
    BY <1>2, <1>8, <2>1, <2>2, PlaceFacts
  <2>4. final = lines[end]
    BY <1>2, <1>3, <1>8, AnchorIsPlace DEF lines
  <2>5. lines[2].kind = "record" /\ lines[2].seq = 1
    <3>1. lines[2].kind # "end"
      <4>1. CASE end = 2
        BY <2>2, <4>1
      <4>2. CASE end # 2
        <5>1. 2 < Len(lines)
          BY <1>2, <1>8, <2>1, <4>2
        <5> QED
          BY <1>2, <5>1, PlaceFacts
      <4> QED
        BY <4>1, <4>2
    <3> QED
      BY <1>2, <2>1, <3>1, PlaceFacts
  <2>6. first = lines[2]
    <3>1. Start \in Nat /\ Start < Len(lines) /\ Start + 1 = 2
      BY <1>2, <2>1 DEF Start
    <3>2. LineAt(s, Start) = lines[Start + 1]
      BY <1>3, <3>1, LineIsWritten DEF lines
    <3> QED
      BY <3>1, <3>2
  <2> HIDE DEF first, final
  <2>7. /\ first.kind = "record" /\ final.kind = "record" /\ first.seq = 1
        /\ final.seq = count /\ s.upper.seq = count /\ count \in Nat /\ 1 <= count
    BY <1>3, <1>5, <1>8, <2>1, <2>3, <2>4, <2>5, <2>6
  <2>8. /\ count \in 1 .. count + 1 - 1
        /\ end = Start + 1 => count = 1
        /\ end > Start + 1 => count >= 2 /\ 1 < count
    BY <1>8, <2>7 DEF Start
  <2>9. /\ s.upper.seq = final.seq
        /\ count \in 1 .. final.seq + 1 - first.seq
        /\ end > Start + 1 => count >= 2 /\ first.seq < final.seq
    BY <2>7, <2>8
  <2> QED
    BY <1>1, <1>7, <1>10, <2>7, <2>8, <2>9
<1> QED
  BY <1>9, <1>10

LEMMA NewCursorFits ==
  ASSUME ArchiveInv, Intact, NEW c, NEW s, Open(s, history["recorded"]),
         NEW limit \in Nat, s.upper.offset <= limit
  PROVE  /\ TokenFits(NewCursor(c, s), history["recorded"], limit)
         /\ CursorFits(NewCursor(c, s), history["recorded"])
<1> DEFINE lines == history["recorded"]
           k == NewCursor(c, s)
           u == s.upper.offset
           offset == IF cmd[c].request.from_end THEN u ELSE Start
<1>1. /\ k.binding = Binding(s) /\ k.upper = s.upper /\ k.upper_anchor = Anchor(s, u)
      /\ k.offset = offset /\ k.from = offset /\ k.anchor = Anchor(s, offset)
      /\ k.last = (IF cmd[c].request.from_end THEN s.upper.seq ELSE 0)
      /\ k.skipped = (IF cmd[c].request.from_end THEN {EndStart(s).count} ELSE {})
  BY DEF NewCursor
<1>2. EndStart(s).count = s.published
  BY DEF EndStart
<1>3. Written(lines, "recorded") /\ "recorded" \in Artifacts /\ Len(lines) \in Nat
      /\ lines[1].kind = "header"
  BY WrittenFacts DEF ArchiveInv, Artifacts
<1>4. /\ u \in Nat /\ 1 <= u /\ u <= Len(lines) /\ s.id = 1 /\ Published(s.upper, lines)
      /\ s.upper.seq = Counted(lines, u) /\ s.published = Counted(lines, u)
      /\ Identifies(Binding(s), s.upper, lines) /\ Start <= u
  BY PublishedFacts DEF Open, Start
<1>5. Counted(lines, 1) = 0
  BY <1>3 DEF Counted
<1> HIDE DEF lines, k
<1>6. TokenFits(k, lines, limit)
  BY <1>1, <1>4 DEF TokenFits
<1>7. offset \in Nat /\ 1 <= offset /\ offset <= Len(lines)
  BY <1>3, <1>4 DEF Start
<1>8. k.upper_anchor = Place(lines, k.upper.offset) /\ k.anchor = Place(lines, k.offset)
  <2> HIDE DEF offset
  <2> QED
    BY <1>1, <1>3, <1>4, <1>7, AnchorIsPlace DEF lines
<1>9. CASE cmd[c].request.from_end
  <2>1. k.offset = u /\ k.from = u /\ k.last = s.upper.seq /\ k.skipped = {s.published}
    BY <1>1, <1>2, <1>9
  <2> HIDE DEF u
  <2>2. CursorFits(k, lines)
    BY <1>4, <1>8, <2>1 DEF CursorFits
  <2> QED
    BY <1>6, <2>2 DEF k, lines
<1>10. CASE ~cmd[c].request.from_end
  <2>1. k.offset = Start /\ k.from = Start /\ k.last = 0 /\ k.skipped = {}
    BY <1>1, <1>10
  <2>2. k.last = Counted(lines, k.offset)
    BY <1>5, <2>1 DEF Start
  <2>3. Start <= k.from
    BY <2>1 DEF Start
  <2>4. CursorFits(k, lines)
    BY <1>8, <2>1, <2>2, <2>3 DEF CursorFits
  <2> QED
    BY <1>6, <2>4 DEF k, lines
<1> QED
  BY <1>9, <1>10

\* Two boundaries at one place are one.
LEMMA PublishedOnce ==
  ASSUME NEW lines, NEW a, NEW b, Published(a, lines), Published(b, lines), a.offset = b.offset
  PROVE  a = b
  BY DEF Published, BoundaryType

\* What was published earlier can be pinned.
LEMMA PinnableFacts ==
  ASSUME ArchiveInv, NEW s, Open(s, history["recorded"]),
         NEW upper, Published(upper, history["recorded"]),
         Start <= upper.offset, upper.offset <= s.upper.offset
  PROVE  Pinnable(s, upper)
<1> DEFINE lines == history["recorded"]
<1>1. Written(lines, "recorded") /\ "recorded" \in Artifacts
  BY DEF ArchiveInv, Artifacts
<1>2. /\ upper.offset \in Nat /\ upper.seq = Counted(lines, upper.offset)
      /\ s.upper.offset \in Nat /\ s.upper.seq = Counted(lines, s.upper.offset)
      /\ s.upper.offset <= Len(lines)
  BY PublishedFacts DEF Open
<1>3. Counted(lines, upper.offset) <= Counted(lines, s.upper.offset)
  BY <1>1, <1>2, CountedGrows
<1> QED
  BY <1>2, <1>3 DEF Pinnable

\* The source is still the one a cursor knows.
LEMMA CursorIsKnown ==
  ASSUME ArchiveInv, Intact, NEW s, Open(s, history["recorded"]),
         NEW k, k.binding.session, CursorInv(k, history), k.binding.artifact = "recorded",
         TokenFits(k, history["recorded"], s.upper.offset), CursorFits(k, history["recorded"])
  PROVE  Fits(k, s)
<1> DEFINE lines == history["recorded"]
           u == k.upper.offset
           p == Pinned(s, k.upper)
<1>1. /\ Published(k.upper, lines) /\ Start <= u /\ u <= s.upper.offset
      /\ k.upper_anchor = Place(lines, u) /\ k.anchor = Place(lines, k.offset)
      /\ Start <= k.from
  BY DEF TokenFits, CursorFits
<1>2. u \in Nat /\ u <= Len(lines) /\ Len(lines) \in Nat /\ s.upper.offset \in Nat
      /\ s.upper.offset <= Len(lines) /\ s.id = 1 /\ DOMAIN s = SourceFields
  BY <1>1, PublishedFacts, WrittenFacts DEF Open, ArchiveInv, Artifacts
<1>3. k.from \in Nat /\ k.offset \in Nat /\ k.from <= k.offset /\ k.offset <= u
  BY DEF CursorInv
<1>4. k.finalized => k.offset = Len(lines)
  BY DEF CursorInv
<1>5. Pinnable(s, k.upper)
  BY <1>1, PinnableFacts
<1>6. p.id = 1 /\ p.fence = k.upper
  BY <1>2, PinnedIs
<1> HIDE DEF p, lines, u
<1>7. ASSUME NEW n \in Nat, 1 <= n, n <= u, NEW anchor, anchor = Place(lines, n)
      PROVE  Anchored(p, anchor)
  <2>1. anchor.at = n /\ anchor.line = lines[n]
    BY <1>7 DEF Place
  <2>2. n <= Len(lines)
    BY <1>2, <1>7
  <2>3. LineAt(p, n - 1) = lines[n]
    BY <1>2, <1>6, <1>7, <2>2, AnchorIsPlace DEF lines
  <2>4. anchor.at <= p.fence.offset
    BY <1>6, <1>7, <2>1 DEF u
  <2> QED
    BY <2>1, <2>3, <2>4 DEF Anchored
<1>8. 1 <= u /\ 1 <= k.offset /\ k.offset \in Start .. u
  BY <1>1, <1>2, <1>3 DEF Start
<1>9. Anchored(p, k.upper_anchor) /\ Anchored(p, k.anchor)
  BY <1>1, <1>2, <1>3, <1>7, <1>8
<1>10. ASSUME k.finalized PROVE k.upper = s.upper
  <2>1. u = s.upper.offset
    BY <1>1, <1>2, <1>3, <1>4, <1>10
  <2>2. Published(s.upper, lines)
    BY DEF Open, lines
  <2> QED
    BY <1>1, <2>1, <2>2, PublishedOnce DEF u
<1> QED
  BY <1>5, <1>8, <1>9, <1>10 DEF Fits, p, u

\* A record a reference names is there.
LEMMA ReferenceIsThere ==
  ASSUME ArchiveInv, Intact, NEW s, Open(s, history["recorded"]), NEW t, t.binding.session,
         TokenFits(t, history["recorded"], s.upper.offset), ReferenceFits(t, history["recorded"])
  PROVE  Refers(t, s)
<1> DEFINE lines == history["recorded"]
           u == t.upper.offset
           o == t.offset
           p == Pinned(s, t.upper)
<1>1. /\ Published(t.upper, lines) /\ Start <= u /\ u <= s.upper.offset
      /\ o \in Start .. u - 1 /\ t.line = lines[o + 1] /\ t.line.kind = "record"
  BY DEF TokenFits, ReferenceFits
<1>2. /\ u \in Nat /\ u <= Len(lines) /\ t.upper.seq = Counted(lines, u)
      /\ s.id = 1 /\ DOMAIN s = SourceFields
  BY <1>1, PublishedFacts DEF Open
<1>3. Written(lines, "recorded") /\ "recorded" \in Artifacts /\ Len(lines) \in Nat
  BY WrittenFacts DEF ArchiveInv, Artifacts
<1>4. Pinnable(s, t.upper)
  BY <1>1, PinnableFacts
<1>5. p.id = 1 /\ p.fence = t.upper
  BY <1>2, PinnedIs
<1> HIDE DEF p, lines, u, o
<1>6. o \in Nat /\ 1 <= o /\ o + 1 <= u /\ o + 1 <= Len(lines) /\ o < Len(lines)
  BY <1>1, <1>2, <1>3 DEF Start
<1>7. LineAt(p, o) = t.line
  BY <1>1, <1>5, <1>6, LineIsWritten DEF lines
<1>8. t.line.seq = o /\ Counted(lines, o + 1) = o
  <2>1. o + 1 \in Nat /\ 1 <= o + 1 /\ (o + 1) - 1 = o /\ 2 <= o + 1
    BY <1>6
  <2>2. /\ lines[o + 1].kind # "end" => Counted(lines, o + 1) = (o + 1) - 1
        /\ lines[o + 1].kind # "end" /\ 2 <= o + 1 => lines[o + 1].seq = (o + 1) - 1
    BY <1>3, <1>6, <2>1, PlaceFacts
  <2> QED
    BY <1>1, <2>1, <2>2
<1>9. o <= t.upper.seq
  <2>1. Counted(lines, o + 1) <= Counted(lines, u)
    BY <1>2, <1>3, <1>6, CountedGrows
  <2> QED
    BY <1>2, <1>8, <2>1
<1>10. IsRow(p, t.line, 0)
  <2>1. t.line.seq > 0
    BY <1>6, <1>8
  <2> QED
    BY <1>1, <1>5, <1>8, <1>9, <2>1 DEF IsRow
<1> QED
  BY <1>1, <1>4, <1>7, <1>10 DEF Refers, p, u, o

\* What a command on a session has opened.
Expected(command) == {t.binding : t \in command.cursor \cup command.reference}

Source(command) == Opened(command.request.session, command.read, Expected(command)).source
Refusal(command) == Opened(command.request.session, command.read, Expected(command)).error

LEMMA CommandKnows ==
  ASSUME PagingInv, FairInv, NEW c \in Clients, At(c, "open")
  PROVE  LET command == cmd[c] IN
         /\ DOMAIN cmd = Clients /\ DOMAIN command = CommandFields /\ CommandKept(command)
         /\ StatusInv(command.read, history) /\ command.pc = "open"
         /\ AtMostOne(command.cursor) /\ AtMostOne(command.reference)
         /\ AtMostOne(Expected(command))
         /\ \A k \in command.cursor : CursorInv(k, history)
         /\ command.request.command = "query" <=> command.reference = {}
<1> DEFINE command == cmd[c]
<1>1. /\ DOMAIN cmd = Clients /\ CommandInv(command, files, history) /\ CommandKept(command)
      /\ command.pc = "open"
  BY DEF PagingInv, Shaped, FairInv, KeptInv, At
<1> HIDE DEF command
<1>2. /\ DOMAIN command = CommandFields /\ StatusInv(command.read, history)
      /\ AtMostOne(command.cursor) /\ AtMostOne(command.reference)
      /\ \A k \in command.cursor : CursorInv(k, history)
      /\ command.request.command = "query" <=> command.reference = {}
  BY <1>1 DEF CommandInv, TokensInv
<1>3. command.cursor = {} \/ command.reference = {}
  BY <1>1 DEF CommandKept
<1>4. AtMostOne(Expected(command))
  BY <1>2, <1>3 DEF AtMostOne, Expected
<1> QED
  BY <1>1, <1>2, <1>4 DEF command

\* Without harm, the status that was read tells of the session, and the tokens fit.
LEMMA CommandTells ==
  ASSUME PagingInv, FairInv, NEW c \in Clients, At(c, "open"), Pristine
  PROVE  LET command == cmd[c]
             lines == history["recorded"]
         IN /\ ArchiveInv /\ Intact /\ lines \in Seq(LineType) /\ Len(lines) \in Nat
            /\ Tells(command.read, lines)
            /\ command.read.end.offset \in Nat /\ command.read.end.offset <= Len(lines)
            /\ status.end.offset \in Nat /\ command.read.end.offset <= status.end.offset
            /\ TokensFit(command.cursor, command.reference, lines, command.read.end.offset)
            /\ TokensFit(command.cursor, command.reference, lines, status.end.offset)
<1> DEFINE command == cmd[c]
           lines == history["recorded"]
<1>1. /\ ArchiveInv /\ Intact /\ CommandFits(command, lines, status.end.offset)
      /\ command.pc = "open"
  BY DEF PagingInv, FairInv, FitInv, At
<1> HIDE DEF command
<1>2. /\ Tells(command.read, lines) /\ command.read.end.offset <= status.end.offset
      /\ TokensFit(command.cursor, command.reference, lines, command.read.end.offset)
      /\ TokensFit(command.cursor, command.reference, lines, status.end.offset)
  BY <1>1 DEF CommandFits
<1>3. lines \in Seq(LineType) /\ Len(lines) \in Nat
  BY <1>1, WrittenFacts DEF ArchiveInv, Artifacts
<1>4. command.read.end.offset \in Nat /\ command.read.end.offset <= Len(lines)
      /\ status.end.offset \in Nat
  BY <1>1, <1>2, PublishedFacts DEF Tells, Intact
<1> QED
  BY <1>1, <1>2, <1>3, <1>4 DEF command

\* All that is expected is of the session.
LEMMA ExpectedFits ==
  ASSUME NEW command, NEW lines, NEW limit, command.request.session,
         TokensFit(command.cursor, command.reference, lines, limit),
         \A b \in Expected(command) : b.session = command.request.session
  PROVE  \A b \in Expected(command) : Fitting(b, command.request.session, limit, lines)
<1> SUFFICES ASSUME NEW t \in command.cursor \cup command.reference
             PROVE  Fitting(t.binding, command.request.session, limit, lines)
  BY DEF Expected
<1>1. t.binding.session = command.request.session
  BY DEF Expected
<1>2. TokenFits(t, lines, limit)
  BY DEF TokensFit
<1>3. /\ Identifies(t.binding, t.upper, lines) /\ Published(t.upper, lines)
      /\ t.upper.offset <= limit
  BY <1>1, <1>2 DEF TokenFits
<1> QED
  BY <1>1, <1>3 DEF Fitting

LEMMA SourceIsOpen ==
  ASSUME PagingInv, FairInv, NEW c \in Clients, At(c, "open"), Pristine,
         cmd[c].request.session, Refusal(cmd[c]) = "none"
  PROVE  Open(Source(cmd[c]), history["recorded"]) /\ Source(cmd[c]).upper = cmd[c].read.end
<1> DEFINE command == cmd[c]
           session == command.request.session
           s == Source(command)
           expected == Expected(command)
           lines == history["recorded"]
<1>1. IsOpened(s, session, command.read, expected) /\ s.upper.offset # 0
  BY OpenedIs DEF Source, Refusal
<1>2. /\ ArchiveInv /\ Intact /\ Tells(command.read, lines)
      /\ command.read.end.offset \in Nat
      /\ TokensFit(command.cursor, command.reference, lines, command.read.end.offset)
  BY CommandTells
<1>3. AtMostOne(expected)
  BY CommandKnows
<1> HIDE DEF command, s, lines
<1>4. \A b \in expected : b.session = session
  <2>1. \A b \in expected : b = Binding(s)
    BY <1>1 DEF IsOpened
  <2>2. Binding(s).session = session
    BY <1>1 DEF IsOpened, Binding
  <2> QED
    BY <2>1, <2>2
<1>5. session
  BY DEF command
<1>6. \A b \in expected : Fitting(b, session, command.read.end.offset, lines)
  BY <1>2, <1>4, <1>5, ExpectedFits
<1> HIDE DEF expected, session
<1>7. Identifies(Binding(s), s.upper, lines)
  BY <1>1, <1>2, <1>3, <1>5, <1>6, OpenedIdentifies DEF lines
<1>8. /\ DOMAIN s = SourceFields /\ s.id = 1 /\ s.upper = command.read.end
      /\ s.published = command.read.entries
  BY <1>1, <1>2, <1>5 DEF IsOpened, Intact
<1>9. Published(s.upper, lines) /\ s.published = s.upper.seq /\ Start <= s.upper.offset
  BY <1>1, <1>2, <1>8 DEF Tells, Start
<1> QED
  BY <1>7, <1>8, <1>9 DEF Open, command, s, lines

\* The source is that of the command, whatever it is.
LEMMA SourceIsNamed ==
  ASSUME PagingInv, FairInv, NEW c \in Clients, At(c, "open"), Refusal(cmd[c]) = "none"
  PROVE  LET s == Source(cmd[c]) IN
         /\ DOMAIN s = SourceFields /\ s.session = cmd[c].request.session /\ s.fence = s.upper
         /\ Binding(s).session = s.session
         /\ \A t \in cmd[c].cursor \cup cmd[c].reference : t.binding = Binding(s)
<1> DEFINE command == cmd[c]
           session == command.request.session
           s == Source(command)
           expected == Expected(command)
<1>1. IsOpened(s, session, command.read, expected)
  BY OpenedIs DEF Source, Refusal
<1> HIDE DEF s
<1>2. \A t \in command.cursor \cup command.reference : t.binding = Binding(s)
  <2>1. \A b \in expected : b = Binding(s)
    BY <1>1 DEF IsOpened
  <2> QED
    BY <2>1 DEF Expected
<1>3. Binding(s).session = s.session
  BY DEF Binding
<1> QED
  BY <1>1, <1>2, <1>3 DEF IsOpened, s

\* A step that opens the source, in words of the above.
LEMMA OpenSourceIs ==
  ASSUME NEW c, OpenSource(c)
  PROVE  LET command == cmd[c]
             s == Source(command)
             Scans(source, cursor) ==
               Continues(c, [command EXCEPT !.source = source, !.cursor = cursor, !.pc = "scan"])
         IN /\ At(c, "open") /\ UNCHANGED <<sourceVars, held>>
            /\ IF Refusal(command) # "none" THEN Fails(c, Refusal(command))
               ELSE IF command.reference # {}
                 THEN IF Refers(Only(command.reference), s)
                      THEN Scans(Pinned(s, Only(command.reference).upper), {})
                      ELSE Fails(c, "stale")
               ELSE IF command.cursor # {}
                 THEN LET k == Only(command.cursor) IN
                      IF ~Fits(k, s) THEN Fails(c, "stale")
                      ELSE Scans(Pinned(s, Resumed(k, s).upper), {Resumed(k, s)})
               ELSE IF command.request.from_end /\ ~EndStart(s).agrees THEN Fails(c, "invalid")
               ELSE Scans(s, {NewCursor(c, s)})
  BY DEF OpenSource, Source, Refusal, Expected

\* A source is read with the one token there is.
LEMMA ScanKeepsFair ==
  ASSUME PagingInv, FairInv, NEW c \in Clients, At(c, "open"), UNCHANGED <<sourceVars, held>>,
         NEW source, NEW cursor,
         Continues(c, [cmd[c] EXCEPT !.source = source, !.cursor = cursor, !.pc = "scan"]),
         source.session = cmd[c].request.session,
         cursor = {} \/ cmd[c].reference = {},
         \A t \in cursor \cup cmd[c].reference : t.binding = Binding(source),
         \A k \in cursor : CursorKept(k),
         Pristine => \A k \in cursor :
           /\ TokenFits(k, history["recorded"], status.end.offset)
           /\ CursorFits(k, history["recorded"])
           /\ cmd[c].request.session /\ k.skipped # {} => source.published = source.fence.seq
  PROVE  FairInv'
<1> DEFINE command == cmd[c]
           new == [command EXCEPT !.source = source, !.cursor = cursor, !.pc = "scan"]
           lines == history["recorded"]
           limit == status.end.offset
<1>1. DOMAIN command = CommandFields /\ CommandKept(command)
  BY CommandKnows
<1>2. Continues(c, new)
  OBVIOUS
<1>3. /\ new.pc = "scan" /\ new.request = command.request /\ new.predicate = command.predicate
      /\ new.cursor = cursor /\ new.reference = command.reference /\ new.source = source
  BY <1>1 DEF CommandFields
<1> HIDE DEF new
<1>4. CommandKept(new)
  BY <1>1, <1>3 DEF CommandKept
<1>5. ASSUME Pristine PROVE CommandFits(new, lines, limit)
  <2>1. TokensFit(command.cursor, command.reference, lines, limit)
    BY <1>5, CommandTells
  <2>2. \A k \in cursor :
          /\ TokenFits(k, lines, limit) /\ CursorFits(k, lines)
          /\ command.request.session /\ k.skipped # {} => source.published = source.fence.seq
    BY <1>5
  <2> HIDE DEF lines, limit, command
  <2>3. TokensFit(new.cursor, new.reference, lines, limit)
    BY <1>3, <2>1, <2>2 DEF TokensFit
  <2> QED
    BY <1>3, <2>2, <2>3 DEF CommandFits
<1> QED
  BY <1>2, <1>4, <1>5, ClientKeepsFair

LEMMA ReferenceKeepsFair ==
  ASSUME PagingInv, FairInv, NEW c \in Clients, OpenSource(c),
         Refusal(cmd[c]) = "none", cmd[c].reference # {}
  PROVE  FairInv'
<1> DEFINE command == cmd[c]
           s == Source(command)
           t == Only(command.reference)
           p == Pinned(s, t.upper)
           Scans(source, cursor) ==
             Continues(c, [command EXCEPT !.source = source, !.cursor = cursor, !.pc = "scan"])
<1>1. /\ At(c, "open") /\ UNCHANGED <<sourceVars, held>>
      /\ Scans(p, {}) \/ Fails(c, "stale")
  BY OpenSourceIs
<1>2. /\ DOMAIN s = SourceFields /\ s.session = command.request.session
      /\ \A u \in command.cursor \cup command.reference : u.binding = Binding(s)
  BY <1>1, SourceIsNamed
<1>3. p.session = s.session /\ Binding(p) = Binding(s)
  BY <1>2, PinnedIs
<1> HIDE DEF p, s
<1>4. ASSUME Scans(p, {}) PROVE FairInv'
  <2> DEFINE cursor == {}
  <2>1. /\ cursor = {}
        /\ \A u \in cursor \cup command.reference : u.binding = Binding(p)
        /\ \A k \in cursor : CursorKept(k)
    BY <1>2, <1>3
  <2>2. Pristine => \A k \in cursor :
          /\ TokenFits(k, history["recorded"], status.end.offset)
          /\ CursorFits(k, history["recorded"])
          /\ command.request.session /\ k.skipped # {} => p.published = p.fence.seq
    OBVIOUS
  <2>3. Scans(p, cursor)
    BY <1>4
  <2> HIDE DEF cursor
  <2> QED
    BY <1>1, <1>2, <1>3, <2>1, <2>2, <2>3, ScanKeepsFair
<1> QED
  BY <1>1, <1>4, FailureKeepsFair

LEMMA ResumedFits ==
  ASSUME ArchiveInv, Intact, NEW s, Open(s, history["recorded"]), NEW k, DOMAIN k = CursorFields,
         k.binding = Binding(s), k.binding.session,
         NEW limit \in Nat, s.upper.offset <= limit,
         TokenFits(k, history["recorded"], limit), CursorFits(k, history["recorded"])
  PROVE  /\ TokenFits(Resumed(k, s), history["recorded"], limit)
         /\ CursorFits(Resumed(k, s), history["recorded"])
<1> DEFINE lines == history["recorded"]
           r == Resumed(k, s)
<1>1. CASE k.mode # "tail"
  BY <1>1 DEF Resumed
<1>2. CASE k.mode = "tail"
  <2>1. /\ r.binding = k.binding /\ r.upper = s.upper /\ r.upper_anchor = Anchor(s, s.upper.offset)
        /\ r.offset = k.offset /\ r.from = k.from /\ r.anchor = k.anchor
        /\ r.last = k.last /\ r.skipped = k.skipped
    BY <1>2 DEF Resumed, CursorFields
  <2>2. /\ Published(s.upper, lines) /\ Start <= s.upper.offset /\ s.id = 1
        /\ Identifies(Binding(s), s.upper, lines)
    BY DEF Open
  <2>3. s.upper.offset \in Nat /\ 1 <= s.upper.offset /\ s.upper.offset <= Len(lines)
    BY <2>2, PublishedFacts DEF Start
  <2>4. Len(lines) \in Nat
    BY WrittenFacts DEF ArchiveInv, Artifacts
  <2>5. Anchor(s, s.upper.offset) = Place(lines, s.upper.offset)
    BY <2>2, <2>3, <2>4, AnchorIsPlace
  <2> HIDE DEF r, lines
  <2>6. TokenFits(r, lines, limit)
    BY <2>1, <2>2 DEF TokenFits
  <2>7. CursorFits(k, lines)
    BY DEF lines
  <2>8. CursorFits(r, lines)
    BY <2>1, <2>5, <2>7 DEF CursorFits
  <2> QED
    BY <2>6, <2>8 DEF r, lines
<1> QED
  BY <1>1, <1>2

LEMMA CursorKeepsFair ==
  ASSUME PagingInv, FairInv, NEW c \in Clients, OpenSource(c),
         Refusal(cmd[c]) = "none", cmd[c].reference = {}, cmd[c].cursor # {}
  PROVE  FairInv'
<1> DEFINE command == cmd[c]
           s == Source(command)
           k == Only(command.cursor)
           r == Resumed(k, s)
           p == Pinned(s, r.upper)
           lines == history["recorded"]
           limit == status.end.offset
           Scans(source, cursor) ==
             Continues(c, [command EXCEPT !.source = source, !.cursor = cursor, !.pc = "scan"])
<1>1. /\ At(c, "open") /\ UNCHANGED <<sourceVars, held>>
      /\ Scans(p, {r}) \/ Fails(c, "stale")
  BY OpenSourceIs
<1>2. k \in command.cursor
  BY OnlyIsMember
<1>3. /\ DOMAIN s = SourceFields /\ s.session = command.request.session /\ s.fence = s.upper
      /\ Binding(s).session = s.session
      /\ k.binding = Binding(s)
  BY <1>1, <1>2, SourceIsNamed
<1>4. DOMAIN k = CursorFields /\ CursorKept(k)
  BY <1>1, <1>2, CommandKnows DEF CursorInv, CommandKept
<1>5. p.session = s.session /\ Binding(p) = Binding(s) /\ p.published = s.published /\ p.fence = r.upper
  BY <1>3, PinnedIs
<1>6. /\ r.binding = k.binding /\ r.predicate = k.predicate /\ r.skipped = k.skipped /\ r.mode = k.mode
      /\ k.mode = "tail" => r.upper = s.upper
  BY <1>4 DEF Resumed, CursorFields
<1>7. CursorKept(r)
  BY <1>4, <1>6 DEF CursorKept
<1>8. ASSUME Pristine
      PROVE  /\ TokenFits(r, lines, limit) /\ CursorFits(r, lines)
             /\ command.request.session /\ r.skipped # {} => p.published = p.fence.seq
  <2>1. CASE ~command.request.session
    BY <1>3, <1>6, <2>1 DEF TokenFits, CursorFits
  <2>2. CASE command.request.session
    <3>1. Open(s, lines) /\ s.upper = command.read.end
      BY <1>1, <1>8, <2>2, SourceIsOpen
    <3>2. /\ ArchiveInv /\ Intact /\ limit \in Nat /\ command.read.end.offset <= limit
          /\ TokenFits(k, lines, limit) /\ CursorFits(k, lines)
      BY <1>1, <1>2, <1>8, CommandTells DEF TokensFit
    <3>3. k.binding.session
      BY <1>3, <2>2
    <3> HIDE DEF s, k, limit, command
    <3>4. TokenFits(r, lines, limit) /\ CursorFits(r, lines)
      BY <1>3, <1>4, <3>1, <3>2, <3>3, ResumedFits
    <3> HIDE DEF r, p
    <3>5. r.skipped # {} => p.published = p.fence.seq
      BY <1>4, <1>5, <1>6, <3>1 DEF CursorKept, Open
    <3> QED
      BY <3>4, <3>5
  <2> QED
    BY <2>1, <2>2
<1> HIDE DEF r, p, s
<1>9. ASSUME Scans(p, {r}) PROVE FairInv'
  <2> DEFINE cursor == {r}
  <2>1. /\ \A t \in cursor \cup command.reference : t.binding = Binding(p)
        /\ \A j \in cursor : CursorKept(j)
    BY <1>3, <1>5, <1>6, <1>7
  <2>2. Pristine => \A j \in cursor :
          /\ TokenFits(j, lines, limit) /\ CursorFits(j, lines)
          /\ command.request.session /\ j.skipped # {} => p.published = p.fence.seq
    BY <1>8
  <2>3. Scans(p, cursor)
    BY <1>9
  <2> HIDE DEF cursor
  <2> QED
    BY ZenonT(40), <1>1, <1>3, <1>5, <2>1, <2>2, <2>3, ScanKeepsFair
<1> QED
  BY <1>1, <1>9, FailureKeepsFair

LEMMA NewCursorKeepsFair ==
  ASSUME PagingInv, FairInv, NEW c \in Clients, OpenSource(c),
         Refusal(cmd[c]) = "none", cmd[c].reference = {}, cmd[c].cursor = {}
  PROVE  FairInv'
<1> DEFINE command == cmd[c]
           s == Source(command)
           k == NewCursor(c, s)
           lines == history["recorded"]
           limit == status.end.offset
           Scans(source, cursor) ==
             Continues(c, [command EXCEPT !.source = source, !.cursor = cursor, !.pc = "scan"])
<1>1. /\ At(c, "open") /\ UNCHANGED <<sourceVars, held>>
      /\ Scans(s, {k}) \/ Fails(c, "invalid")
  BY OpenSourceIs
<1>2. /\ s.session = command.request.session /\ s.fence = s.upper
      /\ Binding(s).session = s.session
  BY <1>1, SourceIsNamed
<1>3. CommandKept(command)
  BY <1>1, CommandKnows
<1>4. /\ k.binding = Binding(s) /\ k.mode = command.request.mode /\ k.predicate = command.predicate
      /\ k.skipped # {} => command.request.from_end
  BY DEF NewCursor
<1>5. CursorKept(k)
  BY <1>3, <1>4 DEF CommandKept, CursorKept, Valid
<1>6. ASSUME Pristine
      PROVE  /\ TokenFits(k, lines, limit) /\ CursorFits(k, lines)
             /\ command.request.session => s.published = s.fence.seq
  <2>1. CASE ~command.request.session
    BY <1>2, <1>4, <2>1 DEF TokenFits, CursorFits
  <2>2. CASE command.request.session
    <3>1. Open(s, lines) /\ s.upper = command.read.end
      BY <1>1, <1>6, <2>2, SourceIsOpen
    <3>2. ArchiveInv /\ Intact /\ limit \in Nat /\ command.read.end.offset <= limit
      BY <1>1, <1>6, CommandTells
    <3>3. s.upper.offset <= limit
      BY <3>1, <3>2
    <3> HIDE DEF s, limit
    <3>4. TokenFits(k, lines, limit) /\ CursorFits(k, lines)
      BY <3>1, <3>2, <3>3, NewCursorFits
    <3> QED
      BY <1>2, <3>1, <3>4 DEF Open
  <2> QED
    BY <2>1, <2>2
<1> HIDE DEF k, s
<1>7. ASSUME Scans(s, {k}) PROVE FairInv'
  <2> DEFINE cursor == {k}
  <2>1. /\ \A t \in cursor \cup command.reference : t.binding = Binding(s)
        /\ \A j \in cursor : CursorKept(j)
    BY <1>4, <1>5
  <2>2. Pristine => \A j \in cursor :
          /\ TokenFits(j, lines, limit) /\ CursorFits(j, lines)
          /\ command.request.session /\ j.skipped # {} => s.published = s.fence.seq
    BY <1>6
  <2>3. Scans(s, cursor)
    BY <1>7
  <2> HIDE DEF cursor
  <2> QED
    BY <1>1, <1>2, <2>1, <2>2, <2>3, ScanKeepsFair
<1> QED
  BY <1>1, <1>7, FailureKeepsFair

LEMMA OpenSourceKeepsFair ==
  ASSUME PagingInv, FairInv, NEW c \in Clients, OpenSource(c)
  PROVE  FairInv'
<1>1. CASE Refusal(cmd[c]) # "none"
  <2>1. Fails(c, Refusal(cmd[c])) /\ UNCHANGED <<sourceVars, held>>
    BY <1>1, OpenSourceIs
  <2> QED
    BY <2>1, FailureKeepsFair
<1>2. CASE Refusal(cmd[c]) = "none"
  BY <1>2, ReferenceKeepsFair, CursorKeepsFair, NewCursorKeepsFair
<1> QED
  BY <1>1, <1>2

LEMMA IdentifiesRecorded ==
  ASSUME NEW b, NEW upper, NEW lines, Identifies(b, upper, lines)
  PROVE  b.artifact = "recorded" /\ b.id = 1
<1>1. PICK n \in 1 .. upper.offset :
        b = [id |-> 1, session |-> b.session, artifact |-> "recorded", prefix |-> SubSeq(lines, 1, n)]
  BY DEF Identifies
<1> DEFINE prefix == SubSeq(lines, 1, n)
<1>2. \E session : b = [id |-> 1, session |-> session, artifact |-> "recorded", prefix |-> prefix]
  BY <1>1
<1> HIDE DEF prefix
<1> QED
  BY <1>2

\* A command on a session, with tokens of a session.
Trusted(command) ==
  /\ command.request.session
  /\ \A t \in command.cursor \cup command.reference : t.binding.session = command.request.session

\* Without harm, such a command finds its source as it left it.
LEMMA OpenSourceIsFair ==
  ASSUME PagingInv, FairInv, NEW c \in Clients, OpenSource(c), Pristine, Trusted(cmd[c])
  PROVE  cmd'[c].pc = "idle" => cmd'[c].error = "not_ready"
<1> DEFINE command == cmd[c]
           session == command.request.session
           s == Source(command)
           expected == Expected(command)
           lines == history["recorded"]
           Scanning(source, cursor) ==
             [command EXCEPT !.source = source, !.cursor = cursor, !.pc = "scan"]
           Scans(source, cursor) == Continues(c, Scanning(source, cursor))
<1>1. /\ At(c, "open")
      /\ IF Refusal(command) # "none" THEN Fails(c, Refusal(command))
         ELSE IF command.reference # {}
           THEN IF Refers(Only(command.reference), s)
                THEN Scans(Pinned(s, Only(command.reference).upper), {})
                ELSE Fails(c, "stale")
         ELSE IF command.cursor # {}
           THEN LET k == Only(command.cursor) IN
                IF ~Fits(k, s) THEN Fails(c, "stale")
                ELSE Scans(Pinned(s, Resumed(k, s).upper), {Resumed(k, s)})
         ELSE IF command.request.from_end /\ ~EndStart(s).agrees THEN Fails(c, "invalid")
         ELSE Scans(s, {NewCursor(c, s)})
  BY OpenSourceIs
<1>2. /\ DOMAIN cmd = Clients /\ DOMAIN command = CommandFields /\ AtMostOne(expected)
      /\ \A k \in command.cursor : CursorInv(k, history)
  BY <1>1, CommandKnows
<1>3. /\ ArchiveInv /\ Intact /\ Tells(command.read, lines)
      /\ TokensFit(command.cursor, command.reference, lines, command.read.end.offset)
  BY <1>1, CommandTells
<1>4. session /\ \A t \in command.cursor \cup command.reference : t.binding.session = session
  BY DEF Trusted
<1>5. \A b \in expected : Fitting(b, session, command.read.end.offset, lines)
  <2>1. \A b \in expected : b.session = session
    BY <1>4 DEF Expected
  <2> HIDE DEF command
  <2> QED
    BY <1>3, <1>4, <2>1, ExpectedFits
<1>6. Refusal(command) \in {"none", "not_ready"}
  <2> HIDE DEF command, session, expected, lines
  <2>1. Opened(session, command.read, expected).error \in {"none", "not_ready"}
    BY <1>2, <1>3, <1>4, <1>5, OpensWell DEF lines
  <2> QED
    BY <2>1 DEF Refusal, session, expected
<1>7. ASSUME NEW source, NEW cursor, Scans(source, cursor) PROVE cmd'[c].pc = "scan"
  <2>1. Scanning(source, cursor).pc = "scan"
    BY <1>2 DEF CommandFields
  <2> HIDE DEF Scanning
  <2> QED
    BY <1>2, <1>7, <2>1 DEF Continues
<1> HIDE DEF Scans
<1>8. CASE Refusal(command) # "none"
  <2>1. Fails(c, "not_ready")
    BY <1>1, <1>6, <1>8
  <2>2. cmd'[c] = Idle("not_ready")
    BY <1>2, <2>1 DEF Fails, Continues
  <2> QED
    BY <2>2, IdleIsShaped
<1>9. CASE Refusal(command) = "none"
  <2>1. Open(s, lines) /\ s.upper = command.read.end
    BY <1>1, <1>4, <1>9, SourceIsOpen
  <2>2. TokensFit(command.cursor, command.reference, lines, s.upper.offset)
    BY <1>3, <2>1
  <2> HIDE DEF s
  <2>3. CASE command.reference # {}
    <3> DEFINE t == Only(command.reference)
    <3>1. t \in command.reference
      BY <2>3, OnlyIsMember
    <3>2. t.binding.session
      BY <1>4, <3>1
    <3>3. TokenFits(t, lines, s.upper.offset) /\ ReferenceFits(t, lines)
      BY <2>2, <3>1 DEF TokensFit
    <3> HIDE DEF t
    <3>4. Refers(t, s)
      BY <1>3, <2>1, <3>2, <3>3, ReferenceIsThere
    <3> QED
      BY <1>1, <1>7, <1>9, <2>3, <3>4 DEF t
  <2>4. CASE command.reference = {} /\ command.cursor # {}
    <3> DEFINE k == Only(command.cursor)
    <3>1. k \in command.cursor
      BY <2>4, OnlyIsMember
    <3>2. k.binding.session /\ CursorInv(k, history)
      BY <1>2, <1>4, <3>1
    <3>3. TokenFits(k, lines, s.upper.offset) /\ CursorFits(k, lines)
      BY <2>2, <3>1 DEF TokensFit
    <3> HIDE DEF k
    <3>4. k.binding.artifact = "recorded"
      <4>1. Identifies(k.binding, k.upper, lines)
        BY <3>2, <3>3 DEF TokenFits
      <4> QED
        BY <4>1, IdentifiesRecorded
    <3>5. Fits(k, s)
      BY <1>3, <2>1, <3>2, <3>3, <3>4, CursorIsKnown
    <3> QED
      BY <1>1, <1>7, <1>9, <2>4, <3>5 DEF k
  <2>5. CASE command.reference = {} /\ command.cursor = {}
    <3>1. EndStart(s).agrees
      BY <1>3, <2>1, EndAgrees
    <3> QED
      BY <1>1, <1>7, <1>9, <2>5, <3>1
  <2> QED
    BY <2>3, <2>4, <2>5
<1> QED
  BY <1>8, <1>9

-------------------------------------------------------------------------------
(* Steps that scan *)

LEMMA ScanKnows ==
  ASSUME PagingInv, FairInv, NEW c \in Clients, NEW command, command = cmd[c],
         command.pc \in {"scan", "check"}
  PROVE  /\ ArchiveInv /\ DOMAIN cmd = Clients /\ DOMAIN command = CommandFields
         /\ CommandKept(command) /\ ScanInv(command, files, history)
         /\ TokensInv(command.cursor, command.reference, history)
         /\ command.request.command = "query" <=> command.reference = {}
         /\ Pristine => Intact /\ CommandFits(command, history["recorded"], status.end.offset)
<1>1. ArchiveInv /\ DOMAIN cmd = Clients /\ CommandInv(command, files, history)
  BY DEF PagingInv, Shaped
<1>2. CommandKept(command)
  BY DEF FairInv, KeptInv
<1>3. Pristine => Intact /\ CommandFits(command, history["recorded"], status.end.offset)
  BY DEF FairInv, FitInv
<1>4. /\ DOMAIN command = CommandFields
      /\ command.request.command = "query" <=> command.reference = {}
      /\ TokensInv(command.cursor, command.reference, history)
      /\ ScanInv(command, files, history)
  BY <1>1 DEF CommandInv
<1> QED
  BY <1>1, <1>2, <1>3, <1>4

\* A cursor of the session in use with the source nobody touched.
Reading(k, s, limit) ==
  /\ SourceInv(s, files, history) /\ CursorInv(k, history) /\ CursorInUse(k, s)
  /\ k.binding = Binding(s) /\ k.binding.session
  /\ TokenFits(k, history["recorded"], limit) /\ CursorFits(k, history["recorded"])

\* Where it is, and what its fields tell of it.
ReadingAt(k, s, lines) ==
  /\ s.id = 1 /\ s.artifact = "recorded" /\ k.binding.artifact = "recorded"
  /\ k.from \in Nat /\ k.offset \in Nat /\ k.upper.offset \in Nat
  /\ 1 <= k.from /\ k.from <= k.offset /\ k.offset <= k.upper.offset
  /\ k.upper.offset <= Len(lines)
  /\ s.fence = k.upper /\ k.upper.seq = Counted(lines, k.upper.offset)
  /\ k.last = Counted(lines, k.offset)

LEMMA ReadingFacts ==
  ASSUME ArchiveInv, NEW k, NEW s, NEW limit, Reading(k, s, limit)
  PROVE  ReadingAt(k, s, history["recorded"])
<1> DEFINE lines == history["recorded"]
<1>1. /\ CursorInv(k, history) /\ CursorInUse(k, s) /\ k.binding = Binding(s)
      /\ Identifies(k.binding, k.upper, lines) /\ Published(k.upper, lines)
      /\ Start <= k.from /\ k.last = Counted(lines, k.offset)
  BY DEF Reading, TokenFits, CursorFits
<1>2. k.binding.artifact = "recorded" /\ k.binding.id = 1
  BY <1>1, IdentifiesRecorded
<1>3. s.id = 1 /\ s.artifact = "recorded"
  BY <1>1, <1>2 DEF Binding
<1>4. /\ k.upper.offset \in Nat /\ k.upper.offset <= Len(lines)
      /\ k.upper.seq = Counted(lines, k.upper.offset)
  BY <1>1, PublishedFacts
<1>5. k.from \in Nat /\ k.offset \in Nat /\ k.from <= k.offset /\ k.offset <= k.upper.offset
  BY <1>1 DEF CursorInv
<1>6. s.fence = k.upper
  BY <1>1 DEF CursorInUse
<1> QED
  BY <1>1, <1>2, <1>3, <1>4, <1>5, <1>6 DEF ReadingAt, Start

\* What it counts and what its tail skipped are all the records before it.
LEMMA CountsAll ==
  ASSUME ArchiveInv, NEW k, NEW s, NEW limit, Reading(k, s, limit)
  PROVE  LET counted == Counted(history["recorded"], k.offset) IN
         /\ k.count \in Nat
         /\ k.count + (IF k.skipped = {} THEN 0 ELSE Only(k.skipped)) = counted
         /\ \A skipped \in k.skipped : skipped + k.count = counted
<1> DEFINE lines == history["recorded"]
<1>1. ReadingAt(k, s, lines)
  BY ReadingFacts
<1>2. /\ Written(lines, "recorded") /\ "recorded" \in Artifacts
      /\ lines \in Seq(LineType) /\ Len(lines) \in Nat /\ Len(lines) >= 1
  BY WrittenFacts DEF ArchiveInv, Artifacts
<1>3. /\ k.skipped = {Counted(lines, k.from)} \/ (k.skipped = {} /\ k.from = 1)
      /\ k.count = Len(Records(Passed(history[k.binding.artifact], k.from, k.offset)))
  BY DEF Reading, CursorFits, CursorInv, Start
<1> HIDE DEF lines
<1>4. k.count = Len(Records(Passed(lines, k.from, k.offset)))
  BY <1>1, <1>3 DEF ReadingAt, lines
<1>5. /\ k.from \in Nat /\ k.offset \in Nat /\ k.from <= k.offset /\ k.offset <= Len(lines)
  BY <1>1, <1>2 DEF ReadingAt
<1>6. k.count = Counted(lines, k.offset) - Counted(lines, k.from)
  BY <1>2, <1>4, <1>5, RecordsBetween
<1>7. /\ Counted(lines, k.offset) \in Nat /\ Counted(lines, k.from) \in Nat
      /\ Counted(lines, k.from) <= Counted(lines, k.offset)
  BY <1>2, <1>5, CountedGrows
<1>8. Counted(lines, 1) = 0
  <2>1. lines[1].kind = "header"
    BY <1>2, WrittenFacts
  <2> QED
    BY <2>1 DEF Counted
<1>9. CASE k.skipped = {Counted(lines, k.from)}
  <2>1. Only(k.skipped) = Counted(lines, k.from)
    BY <1>9 DEF Only
  <2> QED
    BY <1>6, <1>7, <1>9, <2>1 DEF lines
<1>10. CASE k.skipped = {} /\ k.from = 1
  BY <1>6, <1>7, <1>8, <1>10 DEF lines
<1> QED
  BY <1>3, <1>9, <1>10

\* A line inside a session and the one after it.
Followed(lines, o) ==
  /\ Counted(lines, o) = o - 1
  /\ 2 <= o => lines[o].seq = o - 1
  /\ lines[o + 1].kind # "end" =>
       lines[o + 1].kind = "record" /\ lines[o + 1].seq = o /\ Counted(lines, o + 1) = o
  /\ lines[o + 1].kind = "end" =>
       o + 1 = Len(lines) /\ lines[o + 1].seq = o - 1 /\ lines[o + 1].count = o - 1

LEMMA LineFollows ==
  ASSUME NEW a \in Artifacts, NEW lines, Written(lines, a), NEW o \in Nat,
         1 <= o, o < Len(lines)
  PROVE  Followed(lines, o)
<1>1. Len(lines) \in Nat
  BY WrittenFacts
<1>2. o <= Len(lines)
  BY <1>1
<1>3. /\ lines[o].kind # "end" => Counted(lines, o) = o - 1
      /\ lines[o].kind # "end" /\ 2 <= o => lines[o].seq = o - 1
      /\ o < Len(lines) => lines[o].kind # "end"
  BY <1>2, PlaceFacts
<1> DEFINE n == o + 1
<1>4. n \in Nat /\ 1 <= n /\ 2 <= n /\ n <= Len(lines) /\ n - 1 = o /\ n - 2 = o - 1
  BY <1>1
<1> HIDE DEF n
<1>5. /\ lines[n].kind = "end" =>
           n = Len(lines) /\ lines[n].seq = n - 2 /\ lines[n].count = n - 2
      /\ lines[n].kind # "end" => Counted(lines, n) = n - 1
      /\ lines[n].kind # "end" /\ 2 <= n => lines[n].kind = "record" /\ lines[n].seq = n - 1
  BY <1>4, PlaceFacts
<1>6. /\ lines[n].kind # "end" =>
           lines[n].kind = "record" /\ lines[n].seq = o /\ Counted(lines, n) = o
      /\ lines[n].kind = "end" =>
           n = Len(lines) /\ lines[n].seq = o - 1 /\ lines[n].count = o - 1
  BY <1>4, <1>5
<1> QED
  BY <1>2, <1>3, <1>6 DEF n, Followed

\* The lines up to the fence can be read, one by one, each after the one before.
LEMMA LineIsScannable ==
  ASSUME ArchiveInv, Intact, NEW k, NEW s, NEW limit, Reading(k, s, limit),
         NEW i \in Nat, NEW o \in Nat, o = k.offset + i, o < k.upper.offset
  PROVE  \/ IsRow(s, LineAt(s, o), IF i = 0 THEN k.last ELSE LineAt(s, o - 1).seq)
         \/ IsEnd(k, s, i)
<1> DEFINE lines == history["recorded"]
           u == k.upper.offset
           previous == IF i = 0 THEN k.last ELSE LineAt(s, o - 1).seq
           skipped == IF k.skipped = {} THEN 0 ELSE Only(k.skipped)
<1>1. ReadingAt(k, s, lines)
  BY ReadingFacts
<1>2. Written(lines, "recorded") /\ "recorded" \in Artifacts /\ Len(lines) \in Nat
  BY WrittenFacts DEF ArchiveInv, Artifacts
<1>3. k.count \in Nat /\ k.count + skipped = Counted(lines, k.offset)
  BY CountsAll
<1>4. skipped \in Nat
  <2>1. k.skipped = {Counted(lines, k.from)} \/ k.skipped = {}
    BY DEF Reading, CursorFits
  <2>2. Counted(lines, k.from) \in Nat
    <3>1. k.from \in Nat /\ k.from <= Len(lines)
      BY <1>1, <1>2 DEF ReadingAt
    <3> QED
      BY <1>2, <3>1, CountedGrows
  <2>3. CASE k.skipped = {Counted(lines, k.from)}
    <3>1. Only(k.skipped) = Counted(lines, k.from)
      BY <2>3 DEF Only
    <3> QED
      BY <2>2, <2>3, <3>1
  <2> QED
    BY <2>1, <2>3
<1> HIDE DEF lines, skipped
<1>5. /\ k.offset \in Nat /\ 1 <= k.offset /\ u \in Nat /\ u <= Len(lines)
      /\ 1 <= o /\ o < u /\ o < Len(lines) /\ k.offset < Len(lines)
      /\ i # 0 => 2 <= o
  BY <1>1, <1>2 DEF ReadingAt
<1>6. LineAt(s, o) = lines[o + 1]
  BY <1>1, <1>5, LineIsWritten DEF ReadingAt, lines
<1>7. Counted(lines, k.offset) = k.offset - 1
  BY <1>2, <1>5, LineFollows DEF Followed
<1>8. Followed(lines, o)
  BY <1>2, <1>5, LineFollows
<1>9. previous = o - 1
  <2>1. CASE i = 0
    <3>1. k.last = Counted(lines, k.offset) /\ o = k.offset
      BY <1>1, <1>5, <2>1 DEF ReadingAt
    <3> QED
      BY <1>7, <2>1, <3>1
  <2>2. CASE i # 0
    <3> DEFINE m == o - 1
    <3>1. m \in Nat /\ m < Len(lines) /\ m + 1 = o
      BY <1>2, <1>5, <2>2
    <3> HIDE DEF m
    <3>2. LineAt(s, m) = lines[o]
      BY <1>1, <3>1, LineIsWritten DEF ReadingAt, lines
    <3>3. LineAt(s, o - 1) = lines[o]
      BY <3>2 DEF m
    <3> QED
      BY <1>5, <1>8, <2>2, <3>3 DEF Followed
  <2> QED
    BY <2>1, <2>2
<1>10. CASE lines[o + 1].kind # "end"
  <2> DEFINE n == o + 1
  <2>1. n \in Nat /\ n <= u
    BY <1>5
  <2>2. /\ lines[n].kind = "record" /\ lines[n].seq = o /\ Counted(lines, n) = o
    BY <1>8, <1>10 DEF Followed
  <2>3. LineAt(s, o) = lines[n]
    BY <1>6
  <2> HIDE DEF n
  <2>4. Counted(lines, n) <= Counted(lines, u)
    BY <1>2, <1>5, <2>1, CountedGrows
  <2>5. o <= s.fence.seq
    BY <1>1, <2>2, <2>4 DEF ReadingAt, lines
  <2>6. o > previous
    BY <1>9
  <2> HIDE DEF previous
  <2>7. IsRow(s, LineAt(s, o), previous)
    BY <2>2, <2>3, <2>5, <2>6 DEF IsRow
  <2> QED
    BY <2>7 DEF previous
<1>11. CASE lines[o + 1].kind = "end"
  <2> DEFINE line == lines[o + 1]
  <2>1. o + 1 = Len(lines) /\ line.kind = "end" /\ line.seq = o - 1 /\ line.count = o - 1
    BY <1>8, <1>11 DEF Followed
  <2>2. k.offset + i + 1 = k.upper.offset
    BY <1>2, <1>5, <2>1
  <2>3. line.count = k.count + i + skipped
    <3>1. k.count + skipped = k.offset - 1 /\ k.count \in Nat
      BY <1>3, <1>7
    <3>2. line.count = o - 1
      BY <2>1
    <3>3. o - 1 = k.count + i + skipped
      <4>1. \A a, b, d, e \in Nat : a + e = d - 1 => (d + b) - 1 = a + b + e
        OBVIOUS
      <4>2. k.count \in Nat /\ k.offset \in Nat /\ skipped \in Nat
        BY <1>4, <1>5, <3>1
      <4>3. (k.offset + i) - 1 = k.count + i + skipped
        BY <3>1, <4>1, <4>2
      <4> QED
        BY <4>3
    <3> HIDE DEF line
    <3> QED
      BY <3>2, <3>3
  <2>4. LineAt(s, k.offset + i) = line
    BY <1>6
  <2>5. line.seq = IF i = 0 THEN k.last ELSE LineAt(s, k.offset + i - 1).seq
    <3>1. line.seq = previous
      BY <1>9, <2>1
    <3>2. o - 1 = k.offset + i - 1
      BY <1>5
    <3> HIDE DEF line
    <3> QED
      BY <3>1, <3>2
  <2> HIDE DEF line, previous
  <2>6. IsEnd(k, s, i)
    BY <2>1, <2>2, <2>3, <2>4, <2>5 DEF IsEnd, skipped
  <2> QED
    BY <2>6
<1> QED
  BY <1>10, <1>11

LEMMA AllIsScannable ==
  ASSUME ArchiveInv, Intact, NEW k, NEW s, NEW limit, Reading(k, s, limit),
         NEW n \in Nat, n <= k.upper.offset - k.offset
  PROVE  Scannable(k, s, n)
<1>1. k.offset \in Nat /\ k.upper.offset \in Nat
  BY ReadingFacts DEF ReadingAt
<1> SUFFICES ASSUME NEW i \in 0 .. n - 1
             PROVE  \/ IsRow(s, LineAt(s, k.offset + i),
                             IF i = 0 THEN k.last ELSE LineAt(s, k.offset + i - 1).seq)
                    \/ IsEnd(k, s, i)
  BY DEF Scannable
<1> DEFINE o == k.offset + i
<1>2. i \in Nat /\ o \in Nat /\ o < k.upper.offset /\ o = k.offset + i
  BY <1>1
<1> HIDE DEF o
<1>3. \/ IsRow(s, LineAt(s, o), IF i = 0 THEN k.last ELSE LineAt(s, o - 1).seq)
      \/ IsEnd(k, s, i)
  BY <1>2, LineIsScannable
<1>4. /\ LineAt(s, o) = LineAt(s, k.offset + i)
      /\ LineAt(s, o - 1) = LineAt(s, k.offset + i - 1)
  <2>1. o = k.offset + i /\ o - 1 = k.offset + i - 1
    BY <1>1, <1>2
  <2> QED
    BY <2>1
<1> QED
  BY <1>3, <1>4

\* What a page changes of a cursor.
LEMMA AdvancedIs ==
  ASSUME NEW k, DOMAIN k = CursorFields, NEW s, NEW n
  PROVE  LET r == Advanced(k, s, n)
             read == Lines(s, k.offset, n)
         IN /\ r.binding = k.binding /\ r.upper = k.upper /\ r.upper_anchor = k.upper_anchor
            /\ r.predicate = k.predicate /\ r.mode = k.mode
            /\ r.skipped = k.skipped /\ r.from = k.from
            /\ r.offset = k.offset + n /\ r.anchor = Anchor(s, k.offset + n)
            /\ r.last = IF Records(read) = <<>> THEN k.last ELSE LastSeq(read)
  BY DEF Advanced, CursorFields

\* A page leaves a cursor that fits.
LEMMA AdvancedFits ==
  ASSUME ArchiveInv, Intact, NEW k, NEW s, NEW limit, Reading(k, s, limit),
         NEW n \in Nat, n <= k.upper.offset - k.offset, Scannable(k, s, n)
  PROVE  Reading(Advanced(k, s, n), s, limit)
<1> DEFINE lines == history["recorded"]
           r == Advanced(k, s, n)
           o == k.offset + n
           read == Lines(s, k.offset, n)
<1>1. /\ SourceInv(s, files, history) /\ CursorInv(k, history) /\ CursorInUse(k, s)
      /\ k.binding = Binding(s) /\ k.binding.session
      /\ TokenFits(k, lines, limit) /\ CursorFits(k, lines)
  BY DEF Reading
<1>2. ReadingAt(k, s, lines)
  BY ReadingFacts
<1>3. CursorInv(r, history) /\ CursorInUse(r, s)
  BY <1>1, AdvancedIsExact
<1>4. DOMAIN k = CursorFields
  BY <1>1 DEF CursorInv
<1>5. /\ r.binding = k.binding /\ r.upper = k.upper /\ r.upper_anchor = k.upper_anchor
      /\ r.skipped = k.skipped /\ r.from = k.from
      /\ r.offset = o /\ r.anchor = Anchor(s, o)
      /\ r.last = IF Records(read) = <<>> THEN k.last ELSE LastSeq(read)
  BY <1>4, AdvancedIs
<1>6. Written(lines, "recorded") /\ "recorded" \in Artifacts /\ Len(lines) \in Nat
  BY WrittenFacts DEF ArchiveInv, Artifacts
<1> HIDE DEF r, read
<1>7. /\ k.offset \in Nat /\ k.offset <= Len(lines) /\ o \in Nat /\ 1 <= o
      /\ k.offset <= o /\ o <= Len(lines)
  BY <1>2, <1>6 DEF ReadingAt
<1>8. r.anchor = Place(lines, o)
  BY <1>2, <1>5, <1>6, <1>7, AnchorIsPlace DEF ReadingAt
<1>9. read = Passed(lines, k.offset, o)
  <2>1. \A i \in 0 .. n - 1 : LineAt(s, k.offset + i).kind # "hole"
    BY DEF Scannable, IsRow, IsEnd
  <2>2. k.offset <= Len(history[s.artifact]) /\ s.artifact = "recorded"
    BY <1>2, <1>7 DEF ReadingAt
  <2> QED
    <3> DEFINE whole == history[s.artifact]
    <3>1. Lines(s, k.offset, n) = Passed(whole, k.offset, k.offset + n)
      BY <1>1, <1>7, <2>1, <2>2, LinesFacts
    <3> QED
      BY <2>2, <3>1 DEF read
<1>10. r.last = Counted(lines, o)
  <2>1. IF Records(read) = <<>> THEN Counted(lines, o) = Counted(lines, k.offset)
        ELSE LastSeq(read) = Counted(lines, o)
    <3> HIDE DEF lines, o
    <3> QED
      BY <1>6, <1>7, <1>9, RecordsBetween
  <2> QED
    BY <1>2, <1>5, <2>1 DEF ReadingAt
<1> HIDE DEF lines, o
<1>11. TokenFits(r, lines, limit)
  BY <1>1, <1>5 DEF TokenFits
<1>12. CursorFits(r, lines)
  BY <1>1, <1>5, <1>8, <1>10 DEF CursorFits
<1> QED
  BY <1>1, <1>3, <1>5, <1>11, <1>12 DEF Reading, lines, r

\* At the boundary all agrees with what was published.
LEMMA AdvancedAgrees ==
  ASSUME ArchiveInv, NEW k, NEW s, NEW limit, Reading(k, s, limit),
         k.skipped # {} => s.published = s.fence.seq
  PROVE  Agrees(k, s)
<1> DEFINE lines == history["recorded"]
<1>1. ReadingAt(k, s, lines)
  BY ReadingFacts
<1>2. \A skipped \in k.skipped : skipped + k.count = Counted(lines, k.offset)
  BY CountsAll
<1> QED
  BY <1>1, <1>2 DEF Agrees, ReadingAt

LEMMA CursorIsReading ==
  ASSUME PagingInv, FairInv, NEW c \in Clients, NEW command, command = cmd[c],
         command.pc = "scan", Pristine, NEW k \in command.cursor, k.binding.session
  PROVE  Reading(k, command.source, status.end.offset)
<1>1. /\ CommandKept(command) /\ ScanInv(command, files, history)
      /\ TokensInv(command.cursor, command.reference, history)
      /\ CommandFits(command, history["recorded"], status.end.offset)
  BY ScanKnows
<1>2. TokenFits(k, history["recorded"], status.end.offset) /\ CursorFits(k, history["recorded"])
  BY <1>1 DEF CommandFits, TokensFit
<1>3. k.binding = Binding(command.source)
  BY <1>1 DEF CommandKept
<1>4. CursorInv(k, history)
  BY <1>1 DEF TokensInv
<1>5. SourceInv(command.source, files, history) /\ CursorInUse(k, command.source)
  BY <1>1 DEF ScanInv
<1> QED
  BY <1>2, <1>3, <1>4, <1>5 DEF Reading

\* The page, in words of the above.
Paged(command, k, n) ==
  [command EXCEPT !.cursor = {Advanced(k, command.source, n)}, !.page = k.offset,
                  !.rows = Advanced(k, command.source, n).seen, !.pc = "check"]

LEMMA PagedIs ==
  ASSUME NEW command, DOMAIN command = CommandFields, NEW k, NEW n
  PROVE  LET new == Paged(command, k, n) IN
         /\ new.pc = "check" /\ new.request = command.request
         /\ new.predicate = command.predicate /\ new.source = command.source
         /\ new.reference = command.reference
         /\ new.cursor = {Advanced(k, command.source, n)} /\ new.page = k.offset
<1> DEFINE r == Advanced(k, command.source, n)
<1> HIDE DEF r
<1>1. LET new == [command EXCEPT !.cursor = {r}, !.page = k.offset, !.rows = r.seen, !.pc = "check"]
      IN /\ new.pc = "check" /\ new.request = command.request
         /\ new.predicate = command.predicate /\ new.source = command.source
         /\ new.reference = command.reference /\ new.cursor = {r} /\ new.page = k.offset
  BY DEF CommandFields
<1> QED
  BY <1>1 DEF Paged, r

LEMMA ScanPageIs ==
  ASSUME PagingInv, FairInv, NEW c \in Clients, NEW command, command = cmd[c], ScanPage(c)
  PROVE  LET k == Only(command.cursor)
             left == k.upper.offset - k.offset
         IN /\ command.pc = "scan" /\ command.cursor # {} /\ command.reference = {}
            /\ k \in command.cursor /\ left \in Nat
            /\ UNCHANGED <<sourceVars, held>>
            /\ \/ \E n \in 0 .. left :
                    /\ Scannable(k, command.source, n)
                    /\ IF Agrees(Advanced(k, command.source, n), command.source)
                       THEN Continues(c, Paged(command, k, n))
                       ELSE Fails(c, "invalid")
               \/ /\ \E n \in 0 .. left : ~Scannable(k, command.source, n)
                  /\ Fails(c, "invalid")
<1> DEFINE k == Only(command.cursor)
           left == k.upper.offset - k.offset
<1>1. command.pc = "scan" /\ command.cursor # {} /\ UNCHANGED <<sourceVars, held>>
  BY DEF ScanPage, At
<1>2. k \in command.cursor
  BY <1>1, OnlyIsMember
<1>3. /\ ScanInv(command, files, history)
      /\ TokensInv(command.cursor, command.reference, history)
  BY <1>1, ScanKnows
<1>4. command.reference = {}
  BY <1>1, <1>3 DEF ScanInv
<1>5. left \in Nat
  <2>1. CursorInv(k, history)
    BY <1>2, <1>3 DEF TokensInv
  <2>2. k.offset \in Nat /\ k.offset <= k.upper.offset /\ k.upper \in BoundaryType
    BY <2>1 DEF CursorInv, Reaches
  <2> HIDE DEF k
  <2>3. k.upper.offset \in Nat
    BY <2>2 DEF BoundaryType
  <2> QED
    BY <2>2, <2>3
<1>6. \/ \E n \in (IF left = 0 THEN {0} ELSE 1 .. left) :
           /\ Scannable(k, command.source, n)
           /\ IF Agrees(Advanced(k, command.source, n), command.source)
              THEN Continues(c, Paged(command, k, n))
              ELSE Fails(c, "invalid")
      \/ /\ \E n \in 1 .. left : ~Scannable(k, command.source, n)
         /\ Fails(c, "invalid")
  BY DEF ScanPage, Paged
<1> HIDE DEF k, left
<1>7. (IF left = 0 THEN {0} ELSE 1 .. left) \subseteq 0 .. left /\ 1 .. left \subseteq 0 .. left
  BY <1>5
<1> QED
  BY <1>1, <1>2, <1>4, <1>5, <1>6, <1>7 DEF k, left

LEMMA ScanPageKeepsFair ==
  ASSUME PagingInv, FairInv, NEW c \in Clients, ScanPage(c)
  PROVE  FairInv'
<1> DEFINE command == cmd[c]
           k == Only(command.cursor)
           s == command.source
           left == k.upper.offset - k.offset
           lines == history["recorded"]
           limit == status.end.offset
<1>1. /\ command.pc = "scan" /\ k \in command.cursor /\ left \in Nat
      /\ UNCHANGED <<sourceVars, held>> /\ command.reference = {}
      /\ \/ \E n \in 0 .. left : Scannable(k, s, n) /\ Continues(c, Paged(command, k, n))
         \/ Fails(c, "invalid")
  BY ScanPageIs
<1>2. /\ ArchiveInv /\ DOMAIN command = CommandFields /\ CommandKept(command)
      /\ ScanInv(command, files, history)
      /\ TokensInv(command.cursor, command.reference, history)
      /\ Pristine => Intact
  BY <1>1, ScanKnows
<1>3. /\ CursorInv(k, history) /\ CursorInUse(k, s) /\ CursorKept(k) /\ k.binding = Binding(s)
      /\ Valid(command.request) /\ FlagsFit(command.predicate)
      /\ s.session = command.request.session
  BY <1>1, <1>2 DEF CommandKept, ScanInv, TokensInv
<1>4. DOMAIN k = CursorFields /\ k.offset \in Nat /\ Start <= k.offset
  BY <1>3 DEF CursorInv, CursorInUse
<1>5. ASSUME NEW n \in 0 .. left, Scannable(k, s, n)
      PROVE  /\ CommandKept(Paged(command, k, n))
             /\ Pristine => CommandFits(Paged(command, k, n), lines, limit)
  <2> DEFINE new == Paged(command, k, n)
             r == Advanced(k, s, n)
  <2>1. /\ new.pc = "check" /\ new.request = command.request
        /\ new.predicate = command.predicate /\ new.source = s
        /\ new.reference = {} /\ new.cursor = {r} /\ new.page = k.offset
    BY <1>1, <1>2, PagedIs
  <2>2. /\ r.binding = k.binding /\ r.predicate = k.predicate /\ r.mode = k.mode
        /\ r.skipped = k.skipped
    BY <1>4, AdvancedIs
  <2>3. n \in Nat /\ n <= k.upper.offset - k.offset
    BY <1>1, <1>5
  <2>4. ASSUME Pristine, k.binding.session
        PROVE  TokenFits(r, lines, limit) /\ CursorFits(r, lines)
    <3>1. Reading(k, s, limit)
      BY <1>1, <2>4, CursorIsReading
    <3> HIDE DEF r, k, s, limit
    <3>2. Reading(Advanced(k, s, n), s, limit)
      BY <1>2, <1>5, <2>3, <2>4, <3>1, AdvancedFits
    <3> QED
      BY <3>2 DEF Reading, r
  <2> HIDE DEF new, r, s, k
  <2>5. CursorKept(r)
    BY <1>3, <2>2 DEF CursorKept
  <2>6. CommandKept(new)
    BY <1>3, <1>4, <2>1, <2>2, <2>5 DEF CommandKept
  <2>7. ASSUME Pristine PROVE CommandFits(new, lines, limit)
    <3>1. TokenFits(r, lines, limit) /\ CursorFits(r, lines)
      BY <2>2, <2>4, <2>7 DEF TokenFits, CursorFits
    <3>2. TokensFit(new.cursor, new.reference, lines, limit)
      BY <2>1, <3>1 DEF TokensFit
    <3> QED
      BY <2>1, <3>2 DEF CommandFits
  <2> QED
    BY <2>6, <2>7 DEF new
<1>6. ASSUME NEW n \in 0 .. left, Scannable(k, s, n), Continues(c, Paged(command, k, n))
      PROVE  FairInv'
  <2> DEFINE new == Paged(command, k, n)
  <2>1. CommandKept(new) /\ (Pristine => CommandFits(new, lines, limit)) /\ Continues(c, new)
    BY <1>5, <1>6
  <2> HIDE DEF new
  <2> QED
    BY <1>1, <2>1, ClientKeepsFair
<1> HIDE DEF left, k, s
<1> QED
  BY <1>1, <1>6, FailureKeepsFair

\* Without harm, the page of a command on a session is read to its end.
LEMMA ScanPageIsFair ==
  ASSUME PagingInv, FairInv, NEW c \in Clients, ScanPage(c), Pristine, Trusted(cmd[c])
  PROVE  cmd'[c].pc # "idle"
<1> DEFINE command == cmd[c]
           k == Only(command.cursor)
           s == command.source
           left == k.upper.offset - k.offset
           limit == status.end.offset
<1>1. /\ command.pc = "scan" /\ k \in command.cursor /\ left \in Nat
      /\ \/ \E n \in 0 .. left :
              /\ Scannable(k, s, n)
              /\ IF Agrees(Advanced(k, s, n), s) THEN Continues(c, Paged(command, k, n))
                 ELSE Fails(c, "invalid")
         \/ \E n \in 0 .. left : ~Scannable(k, s, n)
  BY ScanPageIs
<1>2. /\ ArchiveInv /\ Intact /\ DOMAIN cmd = Clients /\ DOMAIN command = CommandFields
      /\ TokensInv(command.cursor, command.reference, history)
      /\ CommandFits(command, history["recorded"], limit)
  BY <1>1, ScanKnows
<1>3. command.request.session /\ k.binding.session
  BY <1>1 DEF Trusted
<1>4. Reading(k, s, limit)
  BY <1>1, <1>3, CursorIsReading
<1>5. k.skipped # {} => s.published = s.fence.seq
  BY <1>1, <1>2, <1>3 DEF CommandFits
<1>6. DOMAIN k = CursorFields
  BY <1>1, <1>2 DEF TokensInv, CursorInv
<1> HIDE DEF command, k, s, limit
<1>7. ASSUME NEW n \in 0 .. left
      PROVE  Scannable(k, s, n) /\ Agrees(Advanced(k, s, n), s)
  <2>1. n \in Nat /\ n <= k.upper.offset - k.offset
    BY <1>1
  <2>2. Scannable(k, s, n)
    BY <1>2, <1>4, <2>1, AllIsScannable
  <2> DEFINE r == Advanced(k, s, n)
  <2>3. Reading(r, s, limit)
    BY <1>2, <1>4, <2>1, <2>2, AdvancedFits
  <2>4. r.skipped = k.skipped
    BY <1>6, AdvancedIs
  <2> HIDE DEF r
  <2>5. Agrees(r, s)
    BY <1>2, <1>5, <2>3, <2>4, AdvancedAgrees
  <2> QED
    BY <2>2, <2>5 DEF r
<1>8. PICK n \in 0 .. left : Continues(c, Paged(command, k, n))
  BY <1>1, <1>7
<1>9. Paged(command, k, n).pc = "check"
  BY <1>2, PagedIs
<1> DEFINE new == Paged(command, k, n)
<1>10. Continues(c, new) /\ new.pc = "check"
  BY <1>8, <1>9
<1> HIDE DEF new
<1> QED
  BY <1>2, <1>10 DEF Continues

\* A reference's command goes on to answer with what it read.
LEMMA ReadFits ==
  ASSUME NEW command, NEW new, CommandKept(command), command.pc = "scan", command.cursor = {},
         new.request = command.request, new.cursor = command.cursor,
         new.reference = command.reference, new.predicate = command.predicate,
         new.source = command.source, new.pc = "check"
  PROVE  /\ CommandKept(new)
         /\ \A lines, limit : CommandFits(command, lines, limit) => CommandFits(new, lines, limit)
<1>1. CommandKept(new)
  BY DEF CommandKept
<1>2. ASSUME NEW lines, NEW limit, CommandFits(command, lines, limit)
      PROVE  CommandFits(new, lines, limit)
  BY <1>2 DEF CommandFits
<1> QED
  BY <1>1, <1>2

LEMMA ReadKeepsFair ==
  ASSUME PagingInv, FairInv, NEW c \in Clients, NEW command, command = cmd[c],
         command.pc = "scan", command.request.command # "query",
         NEW new, Continues(c, new), UNCHANGED <<sourceVars, held>>,
         new.request = command.request, new.cursor = command.cursor,
         new.reference = command.reference, new.predicate = command.predicate,
         new.source = command.source, new.pc = "check"
  PROVE  FairInv'
<1>1. /\ CommandKept(command)
      /\ command.request.command = "query" <=> command.reference = {}
      /\ Pristine => CommandFits(command, history["recorded"], status.end.offset)
  BY ScanKnows
<1>2. command.cursor = {}
  BY <1>1 DEF CommandKept
<1>3. CommandKept(new) /\ (Pristine => CommandFits(new, history["recorded"], status.end.offset))
  BY <1>1, <1>2, ReadFits
<1> QED
  BY <1>3, ClientKeepsFair

LEMMA ScanGetKeepsFair ==
  ASSUME PagingInv, FairInv, NEW c \in Clients, ScanGet(c)
  PROVE  FairInv'
<1> DEFINE command == cmd[c]
           rows == <<Only(command.reference).line>>
           new == [command EXCEPT !.rows = rows, !.pc = "check"]
<1>1. /\ command.pc = "scan" /\ command.request.command # "query"
      /\ UNCHANGED <<sourceVars, held>> /\ Continues(c, new)
  BY DEF ScanGet, At
<1>2. DOMAIN command = CommandFields
  BY <1>1, ScanKnows
<1> HIDE DEF rows
<1>3. /\ new.request = command.request /\ new.cursor = command.cursor
      /\ new.reference = command.reference /\ new.predicate = command.predicate
      /\ new.source = command.source /\ new.pc = "check"
  BY <1>2 DEF CommandFields
<1> HIDE DEF new
<1> QED
  BY <1>1, <1>3, ReadKeepsFair

\* All lines around the record at t are records.
AllAreRows(s, first, last) ==
  \A i \in first .. last :
    IsRow(s, LineAt(s, i), IF i = first THEN 0 ELSE LineAt(s, i - 1).seq)

\* The answer with the records around t.
Surrounded(command, rows, more_before, more_after) ==
  [command EXCEPT !.rows = rows, !.more_before = more_before, !.more_after = more_after,
                  !.pc = "check"]

LEMMA ScanContextIs ==
  ASSUME NEW c \in Clients, ScanContext(c)
  PROVE  LET command == cmd[c]
             t == Only(command.reference)
             s == command.source
         IN /\ command.pc = "scan" /\ command.request.command = "context"
            /\ UNCHANGED <<sourceVars, held>>
            /\ \/ \E rows, more_before, more_after :
                    Continues(c, Surrounded(command, rows, more_before, more_after))
               \/ /\ Fails(c, "invalid")
                  /\ \E before \in 0 .. AtMost(Around, t.offset - Start),
                        after \in 0 .. AtMost(Around, t.upper.offset - t.offset - 1) :
                       /\ ~AllAreRows(s, t.offset - before, t.offset + after)
                       /\ ~(/\ t.offset + after = t.upper.offset - 1
                            /\ LineAt(s, t.offset + after).kind = "end")
<1> DEFINE command == cmd[c]
           t == Only(command.reference)
           s == command.source
           First(before) == t.offset - before
           Last(after) == t.offset + after
           Footer(offset) == offset = t.upper.offset - 1 /\ LineAt(s, offset).kind = "end"
           Rows(before, after) == Lines(s, First(before), before + after + 1)
           More(after, footer) ==
             /\ after < Around /\ Last(after) + 1 < t.upper.offset
             /\ ~(footer /\ Footer(Last(after) + 1) /\ after < Around)
<1>1. \E before \in 0 .. AtMost(Around, t.offset - Start),
         after \in 0 .. AtMost(Around, t.upper.offset - t.offset - 1), footer \in BOOLEAN :
        IF AllAreRows(s, First(before), Last(after))
        THEN Continues(c, Surrounded(command, Rows(before, after), MoreBefore(before, First(before)),
                                  More(after, footer)))
        ELSE ~Footer(Last(after)) /\ Fails(c, "invalid")
  BY Zenon DEF ScanContext, AllAreRows, Surrounded
<1>2. command.pc = "scan" /\ command.request.command = "context" /\ UNCHANGED <<sourceVars, held>>
  BY DEF ScanContext, At
<1> HIDE DEF More, Rows
<1> QED
  BY <1>1, <1>2, Zenon

LEMMA ScanContextKeepsFair ==
  ASSUME PagingInv, FairInv, NEW c \in Clients, ScanContext(c)
  PROVE  FairInv'
<1> DEFINE command == cmd[c]
<1>1. /\ command.pc = "scan" /\ command.request.command = "context"
      /\ UNCHANGED <<sourceVars, held>>
      /\ \/ \E rows, more_before, more_after :
              Continues(c, Surrounded(command, rows, more_before, more_after))
         \/ Fails(c, "invalid")
  BY ScanContextIs
<1>2. DOMAIN command = CommandFields
  BY <1>1, ScanKnows
<1>3. ASSUME NEW rows, NEW more_before, NEW more_after,
             Continues(c, Surrounded(command, rows, more_before, more_after))
      PROVE  FairInv'
  <2> DEFINE new == Surrounded(command, rows, more_before, more_after)
  <2>1. /\ new.request = command.request /\ new.cursor = command.cursor
        /\ new.reference = command.reference /\ new.predicate = command.predicate
        /\ new.source = command.source /\ new.pc = "check"
    BY <1>2 DEF CommandFields, Surrounded
  <2>2. Continues(c, new)
    BY <1>3
  <2> HIDE DEF new
  <2> QED
    BY <1>1, <2>1, <2>2, ReadKeepsFair
<1> QED
  BY <1>1, <1>3, FailureKeepsFair

\* Without harm, the lines around a record are records, but for the last.
LEMMA RowsAreThere ==
  ASSUME ArchiveInv, Intact, NEW s, s.id = 1, NEW upper, upper = s.fence,
         Published(upper, history["recorded"]),
         NEW first \in Nat, 1 <= first, NEW last \in Nat, last < upper.offset,
         ~(last = upper.offset - 1 /\ LineAt(s, last).kind = "end")
  PROVE  AllAreRows(s, first, last)
<1> DEFINE lines == history["recorded"]
           u == upper.offset
<1>1. Written(lines, "recorded") /\ "recorded" \in Artifacts /\ Len(lines) \in Nat
  BY WrittenFacts DEF ArchiveInv, Artifacts
<1>2. u \in Nat /\ u <= Len(lines) /\ upper.seq = Counted(lines, u)
  BY PublishedFacts
<1> HIDE DEF lines
<1> SUFFICES ASSUME NEW i \in first .. last
             PROVE  IsRow(s, LineAt(s, i), IF i = first THEN 0 ELSE LineAt(s, i - 1).seq)
  BY DEF AllAreRows
<1>3. i \in Nat /\ 1 <= i /\ i <= last /\ i < u /\ i < Len(lines)
  BY <1>1, <1>2
<1>4. LineAt(s, i) = lines[i + 1]
  BY <1>3, LineIsWritten DEF lines
<1>5. Followed(lines, i)
  BY <1>1, <1>3, LineFollows
<1>6. lines[i + 1].kind # "end"
  <2>1. SUFFICES ASSUME lines[i + 1].kind = "end" PROVE FALSE
    OBVIOUS
  <2>2. i + 1 = Len(lines)
    BY <1>5, <2>1 DEF Followed
  <2>3. i = last /\ last = u - 1
    BY <1>2, <1>3, <2>2
  <2> QED
    BY <1>4, <2>1, <2>3
<1>7. lines[i + 1].kind = "record" /\ lines[i + 1].seq = i /\ Counted(lines, i + 1) = i
  BY <1>5, <1>6 DEF Followed
<1>8. i <= s.fence.seq
  <2> DEFINE n == i + 1
  <2>1. n \in Nat /\ n <= u /\ Counted(lines, n) = i
    BY <1>2, <1>3, <1>7
  <2> HIDE DEF n
  <2>2. Counted(lines, n) <= Counted(lines, u)
    BY <1>1, <1>2, <2>1, CountedGrows
  <2> QED
    BY <1>2, <2>1, <2>2
<1> DEFINE previous == IF i = first THEN 0 ELSE LineAt(s, i - 1).seq
<1>9. i > previous
  <2>1. CASE i = first
    BY <1>3, <2>1
  <2>2. CASE i # first
    <3> DEFINE m == i - 1
    <3>1. m \in Nat /\ m < Len(lines) /\ m + 1 = i /\ 2 <= i
      BY <1>1, <1>3, <2>2
    <3> HIDE DEF m
    <3>2. LineAt(s, m) = lines[i]
      BY <3>1, LineIsWritten DEF lines
    <3>3. lines[i].seq = i - 1
      BY <1>5, <3>1 DEF Followed
    <3>4. previous = i - 1
      BY <2>2, <3>2, <3>3 DEF m
    <3> HIDE DEF previous
    <3> QED
      BY <1>3, <3>4
  <2> QED
    BY <2>1, <2>2
<1> HIDE DEF previous
<1>10. IsRow(s, LineAt(s, i), previous)
  BY <1>4, <1>7, <1>8, <1>9 DEF IsRow
<1> QED
  BY <1>10 DEF previous

LEMMA ScanContextIsFair ==
  ASSUME PagingInv, FairInv, NEW c \in Clients, ScanContext(c), Pristine, Trusted(cmd[c])
  PROVE  cmd'[c].pc # "idle"
<1> DEFINE command == cmd[c]
           t == Only(command.reference)
           s == command.source
           lines == history["recorded"]
<1>1. /\ command.pc = "scan" /\ command.request.command = "context"
      /\ \/ \E rows, more_before, more_after :
              Continues(c, Surrounded(command, rows, more_before, more_after))
         \/ \E before \in 0 .. AtMost(Around, t.offset - Start),
               after \in 0 .. AtMost(Around, t.upper.offset - t.offset - 1) :
              /\ ~AllAreRows(s, t.offset - before, t.offset + after)
              /\ ~(/\ t.offset + after = t.upper.offset - 1
                   /\ LineAt(s, t.offset + after).kind = "end")
  BY ScanContextIs
<1>2. /\ ArchiveInv /\ Intact /\ DOMAIN cmd = Clients /\ DOMAIN command = CommandFields
      /\ ScanInv(command, files, history) /\ CommandKept(command)
      /\ command.request.command = "query" <=> command.reference = {}
      /\ CommandFits(command, lines, status.end.offset)
  BY <1>1, ScanKnows
<1>3. t \in command.reference
  BY <1>1, <1>2, OnlyIsMember
<1>4. t.binding.session /\ t.binding = Binding(s) /\ ReferenceInUse(t, s)
  BY <1>1, <1>2, <1>3 DEF Trusted, CommandKept, ScanInv
<1>5. TokenFits(t, lines, status.end.offset) /\ ReferenceFits(t, lines)
  BY <1>2, <1>3 DEF CommandFits, TokensFit
<1>6. /\ Identifies(t.binding, t.upper, lines) /\ Published(t.upper, lines)
      /\ t.offset \in Start .. t.upper.offset - 1
  BY <1>4, <1>5 DEF TokenFits, ReferenceFits
<1>7. s.id = 1 /\ t.upper = s.fence
  <2>1. t.binding.id = 1
    BY <1>6, IdentifiesRecorded
  <2> QED
    BY <1>4, <2>1 DEF Binding, ReferenceInUse
<1>8. t.upper.offset \in Nat
  BY <1>6, PublishedFacts
<1>9. Around \in Nat
  BY QueryPagingAssumption
<1>10. ASSUME NEW before \in 0 .. AtMost(Around, t.offset - Start),
              NEW after \in 0 .. AtMost(Around, t.upper.offset - t.offset - 1),
              ~(/\ t.offset + after = t.upper.offset - 1
                /\ LineAt(s, t.offset + after).kind = "end")
       PROVE  AllAreRows(s, t.offset - before, t.offset + after)
  <2> DEFINE first == t.offset - before
             last == t.offset + after
             upper == t.upper
  <2> HIDE DEF t
  <2>1. /\ before \in Nat /\ before <= t.offset - 1
        /\ after \in Nat /\ after <= t.upper.offset - t.offset - 1
        /\ t.offset \in Nat
    BY <1>6, <1>8, <1>9 DEF AtMost, Start
  <2>2. /\ first \in Nat /\ 1 <= first /\ last \in Nat /\ last < upper.offset
    BY <1>8, <2>1
  <2>3. ~(last = upper.offset - 1 /\ LineAt(s, last).kind = "end")
    BY <1>10
  <2>4. upper = s.fence /\ Published(upper, history["recorded"])
    BY <1>6, <1>7
  <2> HIDE DEF first, last, upper, s
  <2>5. AllAreRows(s, first, last)
    BY <1>2, <1>7, <2>2, <2>3, <2>4, RowsAreThere
  <2> QED
    BY <2>5 DEF first, last
<1>11. PICK rows, more_before, more_after :
         Continues(c, Surrounded(command, rows, more_before, more_after))
  <2> HIDE DEF t, s, command
  <2> QED
    BY <1>1, <1>10, Zenon
<1> DEFINE new == Surrounded(command, rows, more_before, more_after)
<1>12. Continues(c, new) /\ new.pc = "check"
  BY <1>2, <1>11 DEF Surrounded, CommandFields
<1> HIDE DEF new
<1> QED
  BY <1>2, <1>12 DEF Continues

-------------------------------------------------------------------------------
(* Answering *)

\* The token of a command that was read.
Token(command) ==
  IF command.cursor # {} THEN Only(command.cursor) ELSE Only(command.reference)

LEMMA TokenFacts ==
  ASSUME PagingInv, FairInv, NEW c \in Clients, NEW command, command = cmd[c],
         command.pc = "check"
  PROVE  LET t == Token(command) IN
         /\ t \in command.cursor \cup command.reference
         /\ Upper(command) = t.upper /\ t.binding = Binding(command.source)
         /\ Pristine => TokenFits(t, history["recorded"], status.end.offset)
<1>1. /\ CommandKept(command) /\ ScanInv(command, files, history)
      /\ Pristine => CommandFits(command, history["recorded"], status.end.offset)
  BY ScanKnows
<1>2. command.reference = {} <=> command.cursor # {}
  BY <1>1 DEF ScanInv
<1> DEFINE t == Token(command)
<1>3. t \in command.cursor \cup command.reference
  BY <1>2, OnlyIsMember DEF Token
<1>4. Upper(command) = t.upper
  BY DEF Upper, Token
<1> HIDE DEF t
<1>5. t.binding = Binding(command.source)
  BY <1>1, <1>3 DEF CommandKept
<1>6. Pristine => TokenFits(t, history["recorded"], status.end.offset)
  BY <1>1, <1>3 DEF CommandFits, TokensFit
<1> QED
  BY <1>3, <1>4, <1>5, <1>6 DEF t

\* A reference to a record of a page that fits.
LEMMA ReferredFits ==
  ASSUME ArchiveInv, Intact, NEW k, NEW s, NEW limit, CursorInv(k, history),
         k.binding = Binding(s), TokenFits(k, history["recorded"], limit),
         NEW t, t.binding = k.binding, t.upper = k.upper,
         NEW page \in Nat, Start <= page, t.offset \in page .. k.offset - 1,
         t.line = LineAt(s, t.offset), t.line.kind = "record"
  PROVE  /\ TokenFits(t, history["recorded"], limit)
         /\ ReferenceFits(t, history["recorded"])
<1> DEFINE lines == history["recorded"]
<1>1. TokenFits(t, lines, limit)
  BY DEF TokenFits
<1>2. ASSUME t.binding.session
      PROVE  t.offset \in Start .. t.upper.offset - 1 /\ t.line = lines[t.offset + 1]
  <2>1. Identifies(k.binding, k.upper, lines) /\ Published(k.upper, lines)
    BY <1>2 DEF TokenFits
  <2>2. s.id = 1
    BY <2>1, IdentifiesRecorded DEF Binding
  <2>3. k.upper.offset \in Nat /\ k.upper.offset <= Len(lines)
    BY <2>1, PublishedFacts
  <2>4. k.offset \in Nat /\ k.offset <= k.upper.offset
    BY DEF CursorInv
  <2>5. Len(lines) \in Nat
    BY WrittenFacts DEF ArchiveInv, Artifacts
  <2> HIDE DEF lines
  <2>6. t.offset \in Nat /\ t.offset < Len(lines) /\ t.offset \in Start .. k.upper.offset - 1
    BY <2>3, <2>4, <2>5 DEF Start
  <2>7. LineAt(s, t.offset) = lines[t.offset + 1]
    BY <2>2, <2>6, LineIsWritten DEF lines
  <2> QED
    BY <2>6, <2>7
<1> QED
  BY <1>1, <1>2 DEF ReferenceFits

\* What the user keeps fits, whether he keeps the old tokens or the new ones.
LEMMA KeptFits ==
  ASSUME PagingInv, FairInv, NEW c \in Clients, NEW command, command = cmd[c],
         command.pc = "check", Keeps(command)
  PROVE  /\ \A k \in held'.cursor : CursorKept(k)
         /\ Pristine =>
              TokensFit(held'.cursor, held'.reference, history["recorded"], status.end.offset)
<1> DEFINE lines == history["recorded"]
           limit == status.end.offset
           s == command.source
           k == Only(command.cursor)
<1>1. CASE UNCHANGED held
  BY <1>1 DEF FairInv, KeptInv, FitInv
<1>2. CASE ~UNCHANGED held
  <2>1. /\ command.cursor # {}
        /\ \E t \in {{}} \cup {{r} : r \in References(command)} :
             held' = [cursor |-> command.cursor, reference |-> t]
    BY <1>2 DEF Keeps
  <2>2. PICK t : /\ t \subseteq References(command)
                 /\ held' = [cursor |-> command.cursor, reference |-> t]
    BY <2>1
  <2>3. held'.cursor = command.cursor /\ held'.reference = t
    BY <2>2
  <2>4. /\ ArchiveInv /\ CommandKept(command)
        /\ TokensInv(command.cursor, command.reference, history)
        /\ Pristine => Intact /\ CommandFits(command, lines, limit)
    BY ScanKnows
  <2>5. k \in command.cursor
    BY <2>1, OnlyIsMember
  <2>6. CursorInv(k, history) /\ k.binding = Binding(s) /\ command.page \in Nat /\ Start <= command.page
    BY <2>4, <2>5 DEF TokensInv, CommandKept
  <2>7. \A j \in held'.cursor : CursorKept(j)
    BY <2>3, <2>4 DEF CommandKept
  <2>8. ASSUME Pristine, NEW r \in References(command)
        PROVE  TokenFits(r, lines, limit) /\ ReferenceFits(r, lines)
    <3>1. PICK o \in command.page .. k.offset - 1 :
            /\ Matches(command.predicate, LineAt(s, o))
            /\ r = [key |-> command.key, binding |-> Binding(s), upper |-> Upper(command),
                    offset |-> o, line |-> LineAt(s, o)]
      BY <2>8 DEF References
    <3>2. /\ r.binding = k.binding /\ r.upper = k.upper
          /\ r.offset \in command.page .. k.offset - 1
          /\ r.line = LineAt(s, r.offset) /\ r.line.kind = "record"
      BY <2>1, <2>6, <3>1 DEF Upper, Matches
    <3>3. TokenFits(k, lines, limit)
      BY <2>4, <2>5, <2>8 DEF CommandFits, TokensFit
    <3> HIDE DEF k, s, limit
    <3> QED
      BY <2>4, <2>6, <2>8, <3>2, <3>3, ReferredFits
  <2>9. ASSUME Pristine PROVE TokensFit(command.cursor, t, lines, limit)
    <3>1. TokensFit(command.cursor, command.reference, lines, limit)
      BY <2>4, <2>9 DEF CommandFits
    <3> HIDE DEF lines, limit
    <3> QED
      BY <2>2, <2>8, <2>9, <3>1 DEF TokensFit
  <2> QED
    BY <2>3, <2>7, <2>9
<1> QED
  BY <1>1, <1>2

LEMMA CheckKeepsFair ==
  ASSUME PagingInv, FairInv, NEW c \in Clients, Check(c)
  PROVE  FairInv'
<1> DEFINE command == cmd[c]
<1>1. command.pc = "check" /\ UNCHANGED sourceVars
  BY DEF Check, At
<1>2. /\ DOMAIN cmd = Clients /\ DOMAIN command = CommandFields /\ CommandKept(command)
      /\ Pristine => CommandFits(command, history["recorded"], status.end.offset)
  BY <1>1, ScanKnows
<1>3. \/ Fails(c, "stale") /\ UNCHANGED held
      \/ Continues(c, [command EXCEPT !.pc = "status"]) /\ UNCHANGED held
      \/ Continues(c, Idle("none")) /\ Keeps(command)
  BY DEF Check
<1>4. CASE Fails(c, "stale") /\ UNCHANGED held
  BY <1>1, <1>4, FailureKeepsFair
<1>5. CASE Continues(c, [command EXCEPT !.pc = "status"]) /\ UNCHANGED held
  <2> DEFINE new == [command EXCEPT !.pc = "status"]
  <2>1. /\ new.request = command.request /\ new.predicate = command.predicate
        /\ new.cursor = command.cursor /\ new.reference = command.reference /\ new.pc = "status"
    BY <1>2 DEF CommandFields
  <2>2. Continues(c, new)
    BY <1>5
  <2> HIDE DEF new
  <2>3. CommandKept(new) /\ (Pristine => CommandFits(new, history["recorded"], status.end.offset))
    BY <1>2, <2>1, WaitingFits
  <2> QED
    BY <1>1, <1>5, <2>2, <2>3, ClientKeepsFair
<1>6. CASE Continues(c, Idle("none")) /\ Keeps(command)
  <2>1. UNCHANGED <<files, path, status, closure, closer, recorder, harmed, history>>
    BY <1>1 DEF sourceVars
  <2>2. \A lines, limit : CommandKept(Idle("none")) /\ CommandFits(Idle("none"), lines, limit)
    BY IdleFits
  <2>3. \A d \in Clients : cmd'[d] = IF d = c THEN Idle("none") ELSE cmd[d]
    BY <1>2, <1>6 DEF Continues
  <2>4. /\ \A k \in held'.cursor : CursorKept(k)
        /\ Pristine =>
             TokensFit(held'.cursor, held'.reference, history["recorded"], status.end.offset)
    BY <1>1, <1>6, KeptFits
  <2>5. KeptInv'
    BY <2>2, <2>3, <2>4 DEF FairInv, KeptInv
  <2>6. Pristine' => FitInv'
    <3> SUFFICES ASSUME Pristine' PROVE FitInv'
      OBVIOUS
    <3>1. Pristine /\ FitInv
      BY <2>1 DEF Pristine, FairInv
    <3>2. Intact'
      BY <2>1, <3>1 DEF FitInv, Intact
    <3>3. \A d \in Clients : CommandFits(cmd'[d], history'["recorded"], status'.end.offset)
      BY <2>1, <2>2, <2>3, <3>1 DEF FitInv
    <3>4. TokensFit(held'.cursor, held'.reference, history'["recorded"], status'.end.offset)
      BY <2>1, <2>4, <3>1
    <3> QED
      BY <3>2, <3>3, <3>4 DEF FitInv
  <2> QED
    BY <2>5, <2>6 DEF FairInv
<1> QED
  BY <1>3, <1>4, <1>5, <1>6

\* Without harm, what was read of a session is current.
LEMMA CheckIsFair ==
  ASSUME PagingInv, FairInv, NEW c \in Clients, Check(c), Pristine, Trusted(cmd[c])
  PROVE  cmd'[c].pc = "idle" => cmd'[c].error = "none"
<1> DEFINE command == cmd[c]
           t == Token(command)
           lines == history["recorded"]
<1>1. command.pc = "check"
  BY DEF Check, At
<1>2. DOMAIN cmd = Clients /\ DOMAIN command = CommandFields /\ Intact /\ ArchiveInv
  BY <1>1, ScanKnows
<1>3. /\ t \in command.cursor \cup command.reference
      /\ Upper(command) = t.upper /\ t.binding = Binding(command.source)
      /\ TokenFits(t, lines, status.end.offset)
  BY <1>1, TokenFacts
<1> HIDE DEF t
<1>4. t.binding.session
  BY <1>3 DEF Trusted
<1>5. Identifies(t.binding, t.upper, lines) /\ Published(t.upper, lines)
  BY <1>3, <1>4 DEF TokenFits
<1>6. command.source.id = 1
  BY <1>3, <1>5, IdentifiesRecorded DEF Binding
<1>7. t.upper.offset <= Len(lines)
  BY <1>5, PublishedFacts
<1>8. Current(command.source, Upper(command))
  BY <1>2, <1>3, <1>6, <1>7 DEF Current, Pristine, Intact
<1>9. Continues(c, [command EXCEPT !.pc = "status"]) \/ Continues(c, Idle("none"))
  BY <1>8 DEF Check
<1>10. [command EXCEPT !.pc = "status"].pc = "status"
  BY <1>2 DEF CommandFields
<1>11. Idle("none").error = "none"
  BY IdleIsShaped
<1> DEFINE new == [command EXCEPT !.pc = "status"]
<1> HIDE DEF new
<1>12. Continues(c, new) \/ Continues(c, Idle("none"))
  BY <1>9 DEF new
<1>13. new.pc = "status"
  BY <1>10 DEF new
<1> HIDE DEF command
<1> QED
  BY <1>2, <1>11, <1>12, <1>13 DEF Continues

-------------------------------------------------------------------------------
(* All steps *)

\* What the recorder does leaves every token fit.
LEMMA SurroundingsKeepFair ==
  ASSUME PagingInv, FairInv, Surroundings(OpenFiles), UNCHANGED <<key, cmd, held, commands>>
  PROVE  FairInv'
<1>1. KeptInv'
  BY DEF FairInv, KeptInv
<1>2. ASSUME Pristine' PROVE FitInv'
  <2> DEFINE lines == history["recorded"]
             more == history'["recorded"]
             limit == status.end.offset
             next == status'.end.offset
  <2>1. ArchiveInv /\ (Pristine => Intact)
    BY DEF PagingInv, FairInv, FitInv
  <2>2. Pristine /\ Intact' /\ limit \in Nat /\ next \in Nat /\ limit <= next
    <3> DEFINE open == OpenFiles
    <3>1. Surroundings(open)
      OBVIOUS
    <3> HIDE DEF open
    <3> QED
      BY <1>2, <2>1, <3>1, RecorderKeepsIntact
  <2>3. /\ \A c \in Clients : CommandFits(cmd[c], lines, limit)
        /\ TokensFit(held.cursor, held.reference, lines, limit)
    BY <2>2 DEF FairInv, FitInv
  <2>4. Grown(lines, more) /\ lines \in Seq(LineType)
    BY <2>1, SurroundingsKeepArchive, WrittenFacts DEF Onward, ArchiveInv, Artifacts
  <2>5. ASSUME NEW k, CursorInv(k, history) PROVE CursorSpan(k)
    BY <2>5 DEF CursorInv, CursorSpan
  <2>6. /\ \A c \in Clients : \A k \in cmd[c].cursor : CursorSpan(k)
        /\ \A k \in held.cursor : CursorSpan(k)
    <3>1. /\ \A c \in Clients : \A k \in cmd[c].cursor : CursorInv(k, history)
          /\ \A k \in held.cursor : CursorInv(k, history)
      BY DEF PagingInv, CommandInv, TokensInv
    <3> QED
      BY <2>5, <3>1
  <2> HIDE DEF lines, more, limit, next
  <2>7. ASSUME NEW c \in Clients PROVE CommandFits(cmd[c], more, next)
    BY <2>2, <2>3, <2>4, <2>6, CommandStaysFit
  <2>8. TokensFit(held.cursor, held.reference, more, next)
    BY <2>2, <2>3, <2>4, <2>6, TokensStayFit
  <2> QED
    BY <2>2, <2>7, <2>8 DEF FitInv, more, next
<1> QED
  BY <1>1, <1>2 DEF FairInv

LEMMA FairStarts == Init => FairInv
<1> SUFFICES ASSUME Init PROVE FairInv
  OBVIOUS
<1>1. /\ cmd = [c \in Clients |-> Idle("none")] /\ held = [cursor |-> {}, reference |-> {}]
      /\ ArchiveInv
  BY ArchiveStarts DEF Init
<1>2. /\ \A c \in Clients : cmd[c] = Idle("none")
      /\ held.cursor = {} /\ held.reference = {}
  BY <1>1
<1>3. \A lines, limit : CommandKept(Idle("none")) /\ CommandFits(Idle("none"), lines, limit)
  BY IdleFits
<1>4. KeptInv
  BY <1>2, <1>3 DEF KeptInv
<1>5. Intact
  <2>1. history["recorded"] \in Seq(LineType)
    BY <1>1, WrittenFacts DEF ArchiveInv, Artifacts
  <2>2. status = StatusOf("recorded", <<>>, FALSE) /\ path = 1
    BY DEF Init, SourceInit
  <2>3. files[1] = history["recorded"]
    <3>1. 1 \in Id /\ "recorded" \in Artifacts
      BY DEF Id, Artifacts
    <3> QED
      BY <3>1 DEF Init, SourceInit
  <2> QED
    BY <2>1, <2>2, <2>3, FirstStatusTells DEF Intact
<1>6. FitInv
  <2>1. \A lines, limit : TokensFit({}, {}, lines, limit)
    BY DEF TokensFit
  <2> QED
    BY <1>2, <1>3, <1>5, <2>1 DEF FitInv
<1> QED
  BY <1>4, <1>6 DEF FairInv

LEMMA FairStep == AlarmInv /\ [Next]_vars => AlarmInv'
<1> SUFFICES ASSUME PagingInv, FairInv, [Next]_vars PROVE AlarmInv'
  BY DEF AlarmInv
<1>1. PagingInv'
  BY PagingStep
<1>2. ASSUME UNCHANGED <<sourceVars, cmd, held>> PROVE FairInv'
  <2>1. UNCHANGED <<files, path, status, closure, closer, recorder, harmed, history, cmd, held>>
    BY <1>2 DEF sourceVars
  <2>2. KeptInv'
    BY <2>1 DEF FairInv, KeptInv
  <2>3. Pristine' => FitInv'
    <3> SUFFICES ASSUME Pristine' PROVE FitInv'
      OBVIOUS
    <3>1. Pristine /\ FitInv
      BY <2>1 DEF Pristine, FairInv
    <3> QED
      BY <2>1, <3>1 DEF FitInv, Intact
  <2> QED
    BY <2>2, <2>3 DEF FairInv
<1>3. ASSUME NEW c \in Clients, Step(c) PROVE FairInv'
  BY <1>3, BeginKeepsFair, KeyKeepsFair, ReadStatusKeepsFair, OpenSourceKeepsFair,
     ScanPageKeepsFair, ScanGetKeepsFair, ScanContextKeepsFair, CheckKeepsFair DEF Step
<1>4. ASSUME OtherLinksKey PROVE FairInv'
  BY <1>2, <1>4 DEF OtherLinksKey
<1>5. ASSUME Surroundings(OpenFiles), UNCHANGED <<key, cmd, held, commands>> PROVE FairInv'
  BY <1>5, SurroundingsKeepFair
<1>6. ASSUME UNCHANGED vars PROVE FairInv'
  BY <1>2, <1>6 DEF vars
<1>7. FairInv'
  BY <1>3, <1>4, <1>5, <1>6 DEF Next
<1> QED
  BY <1>1, <1>7 DEF AlarmInv

LEMMA AlarmHolds == Spec => []AlarmInv
<1>1. Init => AlarmInv
  BY PagingStarts, FairStarts DEF AlarmInv
<1>2. AlarmInv /\ [Next]_vars => AlarmInv'
  BY FairStep
<1> QED
  BY <1>1, <1>2, PTL DEF Spec

LEMMA OpenedRefusals ==
  ASSUME NEW session, NEW read, NEW expected
  PROVE  Opened(session, read, expected).error \in {"none", "not_ready", "stale", "invalid"}
<1> DEFINE lines == files[path]
           upper == IF session THEN read.end ELSE OfflineEnd(lines)
           source == [id |-> path, session |-> session, artifact |-> lines[1].artifact,
                      prefix |-> SubSeq(lines, 1, PrefixLength(upper, expected)),
                      upper |-> upper, fence |-> upper,
                      published |-> IF session THEN read.entries ELSE 0]
           o == Opened(session, read, expected)
<1>1. \/ \E why \in {"not_ready", "stale", "invalid"} : o = [source |-> NoSource, error |-> why]
      \/ o = [source |-> source, error |-> "none"]
  BY DEF Opened
<1> HIDE DEF source, o
<1>2. o.error \in {"none", "not_ready", "stale", "invalid"}
  BY <1>1
<1> QED
  BY <1>2 DEF o

\* How a command may end.
Ends(c) ==
  LET error == cmd'[c].error IN
  \/ ReadStatus(c) /\ error \in {"invalid_token", "cursor_mismatch"}
  \/ OpenSource(c) /\ error \in {"not_ready", "stale", "invalid"}
  \/ (ScanPage(c) \/ ScanContext(c)) /\ error = "invalid"
  \/ Check(c) /\ error \in {"none", "stale"}

LEMMA CommandEnds ==
  ASSUME PagingInv, FairInv, NEW c \in Clients, Step(c), ~At(c, "idle"), cmd'[c].pc = "idle"
  PROVE  Ends(c)
<1> DEFINE command == cmd[c]
<1>1. DOMAIN cmd = Clients /\ DOMAIN command = CommandFields
  BY DEF PagingInv, Shaped, CommandInv
<1>2. ASSUME NEW error, Fails(c, error) PROVE cmd'[c].error = error
  <2>1. cmd'[c] = Idle(error)
    BY <1>1, <1>2 DEF Fails, Continues
  <2> QED
    BY <2>1, IdleIsShaped
<1>3. ASSUME NEW new, Continues(c, new) PROVE new.pc = "idle"
  BY <1>1, <1>3 DEF Continues
<1>4. ASSUME Begin(c) PROVE FALSE
  BY <1>4 DEF Begin
<1>5. ASSUME LoadKey(c) \/ LinkKey(c) PROVE FALSE
  <2>1. \/ \E k : Continues(c, [command EXCEPT !.key = k, !.pc = "status"])
        \/ Continues(c, [command EXCEPT !.pc = "link"])
    BY <1>5 DEF LoadKey, LinkKey
  <2>2. /\ \A k : [command EXCEPT !.key = k, !.pc = "status"].pc = "status"
        /\ [command EXCEPT !.pc = "link"].pc = "link"
    BY <1>1 DEF CommandFields
  <2> HIDE DEF command
  <2>3. CASE Continues(c, [command EXCEPT !.pc = "link"])
    <3>1. [command EXCEPT !.pc = "link"].pc = "idle"
      BY <1>3, <2>3
    <3> QED
      BY <2>2, <3>1
  <2>4. ASSUME NEW k, Continues(c, [command EXCEPT !.key = k, !.pc = "status"]) PROVE FALSE
    <3>1. [command EXCEPT !.key = k, !.pc = "status"].pc = "idle"
      BY <1>3, <2>4
    <3> QED
      BY <2>2, <3>1
  <2> QED
    BY <2>1, <2>3, <2>4
<1>6. ASSUME ReadStatus(c) PROVE Ends(c)
  <2> DEFINE new == [command EXCEPT !.predicate = Predicate(command.request.filter,
                                                           TimeAnchor(command.cursor)),
                                    !.read = Effective, !.pc = "open"]
  <2>1. \/ Fails(c, "invalid_token") \/ Fails(c, "cursor_mismatch")
        \/ Continues(c, new)
    BY <1>6 DEF ReadStatus
  <2>2. new.pc = "open"
    BY <1>1 DEF CommandFields
  <2> HIDE DEF new
  <2>3. cmd'[c].error \in {"invalid_token", "cursor_mismatch"}
    BY <1>2, <1>3, <2>1, <2>2
  <2> QED
    BY <1>6, <2>3 DEF Ends
<1>7. ASSUME OpenSource(c) PROVE Ends(c)
  <2> DEFINE Scanning(source, cursor) ==
               [command EXCEPT !.source = source, !.cursor = cursor, !.pc = "scan"]
  <2>1. \/ Refusal(command) # "none" /\ Fails(c, Refusal(command))
        \/ Fails(c, "stale") \/ Fails(c, "invalid")
        \/ \E source, cursor : Continues(c, Scanning(source, cursor))
    BY <1>7, OpenSourceIs
  <2>2. \A source, cursor : Scanning(source, cursor).pc = "scan"
    BY <1>1 DEF CommandFields
  <2> HIDE DEF Scanning
  <2>3. Refusal(command) \in {"none", "not_ready", "stale", "invalid"}
    BY OpenedRefusals DEF Refusal
  <2> HIDE DEF command
  <2>4. cmd'[c].error \in {"not_ready", "stale", "invalid"}
    <3>1. ASSUME NEW source, NEW cursor, Continues(c, Scanning(source, cursor)) PROVE FALSE
      <4>1. Scanning(source, cursor).pc = "idle"
        BY <1>3, <3>1
      <4> QED
        BY <2>2, <4>1
    <3> QED
      BY <1>2, <2>1, <2>3, <3>1
  <2> QED
    BY <1>7, <2>4 DEF Ends
<1>8. ASSUME ScanPage(c) PROVE Ends(c)
  <2>1. PICK k, n : Fails(c, "invalid") \/ Continues(c, Paged(command, k, n))
    BY <1>8, ScanPageIs
  <2> DEFINE new == Paged(command, k, n)
  <2>2. new.pc = "check" /\ (Fails(c, "invalid") \/ Continues(c, new))
    BY <1>1, <2>1, PagedIs
  <2> HIDE DEF new
  <2>3. cmd'[c].error = "invalid"
    BY <1>2, <1>3, <2>2
  <2> QED
    BY <1>8, <2>3 DEF Ends
<1>9. ASSUME ScanGet(c) PROVE FALSE
  <2> DEFINE rows == <<Only(command.reference).line>>
             new == [command EXCEPT !.rows = rows, !.pc = "check"]
  <2>1. Continues(c, new)
    BY <1>9 DEF ScanGet
  <2> HIDE DEF rows
  <2>2. new.pc = "check"
    BY <1>1 DEF CommandFields
  <2> HIDE DEF new
  <2> QED
    BY <1>3, <2>1, <2>2
<1>10. ASSUME ScanContext(c) PROVE Ends(c)
  <2>1. PICK rows, before, after :
          Fails(c, "invalid") \/ Continues(c, Surrounded(command, rows, before, after))
    BY <1>10, ScanContextIs
  <2> DEFINE new == Surrounded(command, rows, before, after)
  <2>2. new.pc = "check" /\ (Fails(c, "invalid") \/ Continues(c, new))
    BY <1>1, <2>1 DEF Surrounded, CommandFields
  <2> HIDE DEF new
  <2>3. cmd'[c].error = "invalid"
    BY <1>2, <1>3, <2>2
  <2> QED
    BY <1>10, <2>3 DEF Ends
<1>11. ASSUME Check(c) PROVE Ends(c)
  <2> DEFINE new == [command EXCEPT !.pc = "status"]
  <2>1. Fails(c, "stale") \/ Fails(c, "none") \/ Continues(c, new)
    BY <1>11 DEF Check, Fails
  <2>2. new.pc = "status"
    BY <1>1 DEF CommandFields
  <2> HIDE DEF new
  <2>3. cmd'[c].error \in {"none", "stale"}
    BY <1>2, <1>3, <2>1, <2>2
  <2> QED
    BY <1>11, <2>3 DEF Ends
<1> QED
  BY <1>4, <1>5, <1>6, <1>7, <1>8, <1>9, <1>10, <1>11 DEF Step

-------------------------------------------------------------------------------
(* The theorems *)

\* The pages of a chain of cursors hold exactly the records its filter selects of
\* what the session wrote, and the records around a reference are the ones next
\* to it, whatever was appended, closed, cut or replaced in between: for all
\* clients, requests, page sizes, prefixes and lengths of the session.
THEOREM AnswersStayExact == Spec => []AnswersAreExact
<1>1. PagingInv => AnswersAreExact
  <2> SUFFICES ASSUME PagingInv PROVE AnswersAreExact
    OBVIOUS
  <2>1. ASSUME NEW k \in Cursors
        PROVE  LET lines == history[k.binding.artifact]
                   passed == SubSeq(lines, k.from + 1, k.offset)
               IN /\ k.seen = Selected(k.predicate, passed)
                  /\ k.finalized =>
                       /\ k.offset = Len(lines) /\ lines[k.offset].kind = "end"
                       /\ k.count = Len(Records(passed))
    <3>1. k \in held.cursor \/ \E c \in Clients : k \in cmd[c].cursor
      BY <2>1 DEF Cursors
    <3>2. CursorInv(k, history)
      BY <3>1 DEF PagingInv, TokensInv, CommandInv
    <3> QED
      BY <3>2 DEF CursorInv, Passed
  <2>2. ASSUME NEW c \in Clients, At(c, "check"), cmd[c].request.command = "context"
        PROVE  ContextIsExact(cmd[c], Only(cmd[c].reference), history)
    <3>1. CommandInv(cmd[c], files, history) /\ cmd[c].pc = "check"
      BY <2>2 DEF PagingInv, At
    <3>2. Only(cmd[c].reference) \in cmd[c].reference
      BY <2>2, <3>1, OnlyIsMember DEF CommandInv
    <3> QED
      BY <2>2, <3>1, <3>2 DEF CommandInv, AnswerInv
  <2> QED
    BY <2>1, <2>2 DEF AnswersAreExact, ContextIsExact
<1> QED
  BY <1>1, PagingHolds, PTL

\* What a closure froze is final for readers: an answer given after it holds no
\* later record, not even one that was read before (check_current).
THEOREM NothingComesAfterClosure == Spec => NothingAfterClosure
<1> DEFINE Answers(c) ==
      At(c, "check") /\ cmd'[c].pc = "idle" /\ cmd'[c].error = "none" /\ cmd[c].source.session
           Frozen ==
      \A c \in Clients : Answers(c) =>
        \A closed \in closure, i \in DOMAIN cmd[c].rows : cmd[c].rows[i].seq <= closed.end.seq
<1>1. PagingInv /\ [Next]_vars => [Frozen]_vars
  <2> SUFFICES ASSUME PagingInv, Next, NEW c \in Clients, Answers(c),
                      NEW closed \in closure, NEW i \in DOMAIN cmd[c].rows
               PROVE  cmd[c].rows[i].seq <= closed.end.seq
    OBVIOUS
  <2> DEFINE command == cmd[c]
  <2>1. CommandInv(command, files, history) /\ command.pc = "check" /\ DOMAIN cmd = Clients
    BY DEF PagingInv, Shaped, At
  <2>2. ScanInv(command, files, history) /\ AnswerInv(command, history)
    BY Zenon, <2>1 DEF CommandInv
  <2>3. Check(c)
    <3>1. cmd' # cmd
      BY <2>1
    <3>2. PICK d \in Clients : Step(d)
      BY <3>1 DEF Next, OtherLinksKey
    <3>3. d = c
      <4>1. \E new : Continues(d, new)
        BY <3>2 DEF Step, Begin, LoadKey, LinkKey, ReadStatus, OpenSource, ScanPage, ScanGet,
                    ScanContext, Check, Fails
      <4>2. d # c => cmd'[c] = cmd[c]
        BY <2>1, <4>1 DEF Continues
      <4> QED
        BY Zenon, <2>1, <4>2
    <3> QED
      BY <2>1, <3>2, <3>3 DEF Step, At, Begin, LoadKey, LinkKey, ReadStatus, OpenSource,
                              ScanPage, ScanGet, ScanContext
  <2>4. Current(command.source, Upper(command))
    <3>1. CASE Fails(c, "stale")
      <4>1. cmd'[c] = Idle("stale")
        BY <2>1, <3>1 DEF Fails, Continues
      <4> QED
        BY <4>1, IdleIsShaped
    <3> QED
      BY <2>3, <3>1 DEF Check
  <2>5. Upper(command).seq <= closed.end.seq /\ command.source.session
    BY <2>4 DEF Current
  <2>6. Upper(command) = command.source.fence
    BY <2>2, OnlyIsMember DEF ScanInv, CursorInUse, ReferenceInUse, Upper
  <2>7. command.rows[i].seq <= command.source.fence.seq
    BY <2>2 DEF AnswerInv
  <2>8. command.rows[i].seq \in Nat
    <3>1. command.rows[i] \in LineType
      BY <2>2 DEF AnswerInv
    <3> QED
      BY <3>1 DEF LineType
  <2>9. command.source.fence.seq \in Nat
    BY <2>2 DEF ScanInv, SourceInv, BoundaryType
  <2>10. closed.end.seq \in Nat
    <3>1. StatusInv(closed, history)
      BY DEF PagingInv, ArchiveInv
    <3> QED
      BY <3>1 DEF StatusInv, StatusType, BoundaryType
  <2> HIDE DEF command
  <2> QED
    BY <2>5, <2>6, <2>7, <2>8, <2>9, <2>10 DEF command
<1> QED
  BY <1>1, PagingHolds, PTL DEF Spec, NothingAfterClosure, Answers, Frozen

\* A command on a session fails only for a reason: nothing the recorder does
\* between two looks makes a cursor or a reference stale or the source invalid,
\* and a chain goes on with the flags it began with (QueryState::open, scan_page,
\* get, context, check_current).
THEOREM AlarmsAreNeverFalse == Spec => NoFalseAlarm
<1> DEFINE Alarmed(c) ==
      LET command == cmd[c]
          error == cmd'[c].error
      IN ~At(c, "idle") /\ cmd'[c].pc = "idle" =>
           /\ error \in {"stale", "invalid"} =>
                \/ harmed \/ closure # {} \/ ~command.request.session
                \/ \E t \in command.cursor \cup command.reference :
                     t.binding.session # command.request.session
           /\ error = "cursor_mismatch" =>
                \E k \in command.cursor :
                  k.mode # command.request.mode \/ k.predicate.filter # command.request.filter
           ForAReason == \A c \in Clients : Alarmed(c)
<1>1. AlarmInv /\ [Next]_vars => [ForAReason]_vars
  <2> SUFFICES ASSUME AlarmInv, Next, NEW c \in Clients PROVE Alarmed(c)
    OBVIOUS
  <2>1. SUFFICES ASSUME ~At(c, "idle"), cmd'[c].pc = "idle" PROVE Alarmed(c)
    OBVIOUS
  <2> DEFINE command == cmd[c]
             error == cmd'[c].error
  <2>2. PagingInv /\ FairInv /\ DOMAIN cmd = Clients
    BY DEF AlarmInv, PagingInv, Shaped
  <2>3. Step(c)
    <3>1. cmd'[c] # cmd[c]
      BY <2>1 DEF At
    <3>2. PICK d \in Clients : Step(d)
      BY <3>1 DEF Next, OtherLinksKey
    <3>3. \E new : Continues(d, new)
      BY <3>2 DEF Step, Begin, LoadKey, LinkKey, ReadStatus, OpenSource, ScanPage, ScanGet,
                  ScanContext, Check, Fails
    <3>4. d = c
      BY <2>2, <3>1, <3>3 DEF Continues
    <3> QED
      BY <3>2, <3>4
  <2>4. Ends(c)
    BY <2>1, <2>2, <2>3, CommandEnds
  <2>5. ASSUME Pristine, Trusted(command) PROVE error \notin {"stale", "invalid"}
    <3>1. OpenSource(c) => error = "not_ready"
      BY <2>1, <2>2, <2>5, OpenSourceIsFair
    <3>2. ~ScanPage(c) /\ ~ScanContext(c)
      BY <2>1, <2>2, <2>5, ScanPageIsFair, ScanContextIsFair
    <3>3. Check(c) => error = "none"
      BY <2>1, <2>2, <2>5, CheckIsFair
    <3> HIDE DEF error
    <3> QED
      BY <2>4, <3>1, <3>2, <3>3 DEF Ends, error
  <2>6. ASSUME Unchanged(command) PROVE error # "cursor_mismatch"
    <3>1. ReadStatus(c) => error = "invalid_token"
      BY <2>1, <2>2, <2>6, ReadStatusIsFair
    <3> QED
      BY <2>4, <3>1 DEF Ends
  <2>7. error \in {"stale", "invalid"} =>
          \/ harmed \/ closure # {} \/ ~command.request.session
          \/ \E t \in command.cursor \cup command.reference :
               t.binding.session # command.request.session
    BY <2>5 DEF Pristine, Trusted
  <2>8. error = "cursor_mismatch" =>
          \E k \in command.cursor :
            k.mode # command.request.mode \/ k.predicate.filter # command.request.filter
    BY <2>6 DEF Unchanged
  <2> QED
    BY <2>7, <2>8
<1> QED
  BY <1>1, AlarmHolds, PTL DEF Spec, NoFalseAlarm, Alarmed, ForAReason

===============================================================================
