-------------------------- MODULE LogcatStreamProofs --------------------------
(***************************************************************************)
(* One adb child keeps to its contract and says what is missing, for all   *)
(* rows, budgets, capacities and failing calls: LogcatStream implements    *)
(* LogcatChild, step by step, and an exit that is reported as clean comes  *)
(* after every row.  Both follow from StreamInv, which says how far the    *)
(* reader is with what the process wrote, and what the drain worker knows  *)
(* of it.                                                                  *)
(***************************************************************************)
EXTENDS LogcatStream, SequenceTheorems, WellFoundedInduction, TLAPS

\* What is in the channel: the bytes of a row, and in which row they are.
PlainEvents == [kind : {"Started", "Entry", "Stderr"}, bytes : Nat, row : Nat]
ExitedEvents ==
  [kind : {"Exited"}, bytes : {0}, row : {0}, clean : BOOLEAN, incomplete : BOOLEAN]
Events == PlainEvents \cup ExitedEvents

ProcType ==
  proc \in [alive : BOOLEAN, closed : BOOLEAN, code : {"none", "zero", "other"},
            written : 0 .. Rows, cut : {"none", "line", "frame"}]

OutType ==
  out \in [pc : {"begin", "wake", "read", "reserve", "send", "notify", "drop", "done"},
           read : Nat, sent : Nat, failure : {"none", "io", "cut"}]

ErrType == err \in [pc : {"read", "done"}, failure : {"none", "io"}]

DrainType ==
  drain \in [pc : {"never", "readers", "child", "join", "exit", "wake", "done"},
             out_joined : BOOLEAN, err_joined : BOOLEAN, error : BOOLEAN, incomplete : BOOLEAN]

QueueType == used \in Nat /\ queue \in Seq(Events) /\ Len(queue) <= QueueCap

StreamType == ProcType /\ OutType /\ ErrType /\ DrainType /\ stopped \in BOOLEAN /\ QueueType

\* The process: a row that is cut is one more than those written, and the last.
ProcInv ==
  /\ proc.alive => proc.cut = "none"
  /\ proc.cut # "none" => proc.closed /\ proc.written < Rows
  /\ ~proc.alive => proc.closed

\* The reader is at one row at a time, and at its end knows what it has missed.
OutInv ==
  /\ out.read <= Readable
  /\ out.read = out.sent + (IF out.pc \in {"reserve", "send"} THEN 1 ELSE 0)
  /\ out.pc \in {"begin", "wake", "drop", "done"} => out.read = out.sent
  /\ out.pc \in {"drop", "done"} =>
       /\ out.failure = "none" => AtEnd /\ proc.cut # "frame"
       /\ out.failure = "cut" => AtEnd /\ proc.cut = "frame"

\* What the drain worker has joined it knows the failures of.
DrainInv ==
  /\ drain.out_joined =>
       /\ out.pc = "done"
       /\ out.failure # "none" => drain.error
  /\ drain.incomplete => drain.out_joined /\ out.failure = "cut"
  /\ drain.pc \in {"join", "exit", "wake", "done"} => ~proc.alive
  /\ drain.pc \in {"exit", "wake", "done"} => drain.out_joined

\* What an exit in the channel says.
ExitInv ==
  \A k \in DOMAIN queue :
    queue[k].kind = "Exited" =>
      /\ drain.pc \in {"wake", "done"}
      /\ queue[k].clean => ~drain.error
      /\ queue[k].incomplete => drain.incomplete

BudgetInv ==
  /\ used = Charged(queue) + (IF out.pc = "send" THEN Bytes(out.read) ELSE 0)
  /\ used <= QUEUE_BYTES

StreamInv == StreamType /\ ProcInv /\ OutInv /\ DrainInv /\ ExitInv /\ BudgetInv

-------------------------------------------------------------------------------
(* Definitions by recursion along a sequence.                              *)

\* What holds of 0 and, with a number, of the next one, holds of every number:
\* a least number for which it did not hold would have one before it.
LEMMA Induction ==
  ASSUME NEW S, 0 \in S, \A n \in Nat : n \in S => n + 1 \in S
  PROVE  \A n \in Nat : n \in S
<1> DEFINE less == OpToRel(<, Nat)
           rest == Nat \ S
<1>1. \A m, n \in Nat : <<m, n>> \in OpToRel(<, Nat) <=> m < n
  BY DEF OpToRel
<1> SUFFICES ASSUME rest # {} PROVE FALSE
  OBVIOUS
<1>2. PICK n \in rest : \A m \in rest : <<m, n>> \notin less
  <2>1. rest \subseteq Nat
    OBVIOUS
  <2> QED
    BY <2>1, NatLessThanWellFounded, WFMin
<1>3. n \in Nat /\ n \notin S /\ n - 1 \in Nat /\ n - 1 < n
  OBVIOUS
<1>4. n - 1 \notin rest
  <2>1. <<n - 1, n>> \in less
    BY <1>1, <1>3
  <2> HIDE DEF less, rest
  <2> QED
    BY <1>2, <2>1
<1> QED
  BY <1>3, <1>4

\* A definition by recursion along 1 .. n, and its value.
StepsIn(n, S, step) == \A k \in 1 .. n, s \in S : step[<<k, s>>] \in S

IsRun(n, S, start, step, run) ==
  /\ run \in [0 .. n -> S] /\ run[0] = start
  /\ \A k \in 1 .. n : run[k] = step[<<k, run[k - 1]>>]

\* It has one.
LEMMA RunExists ==
  ASSUME NEW n \in Nat, NEW S, NEW start \in S, NEW step, StepsIn(n, S, step)
  PROVE  \E run : IsRun(n, S, start, step, run)
<1> USE DEF StepsIn
<1> DEFINE Runs(m) ==
             {r \in [0 .. m -> S] :
                r[0] = start /\ \A k \in 1 .. m : r[k] = step[<<k, r[k - 1]>>]}
           some == {m \in Nat : m <= n => Runs(m) # {}}
<1>1. 0 \in some
  <2>1. [k \in 0 .. 0 |-> start] \in Runs(0)
    OBVIOUS
  <2> QED
    BY <2>1
<1>2. ASSUME NEW m \in Nat, m \in some
      PROVE  m + 1 \in some
  <2> SUFFICES ASSUME m + 1 <= n PROVE Runs(m + 1) # {}
    OBVIOUS
  <2>1. PICK r : r \in Runs(m)
    BY <1>2
  <2>2. r[m] \in S /\ step[<<m + 1, r[m]>>] \in S
    <3>1. r[m] \in S
      BY <2>1
    <3> QED
      BY <3>1
  <2> DEFINE more == [k \in 0 .. m + 1 |-> IF k = m + 1 THEN step[<<m + 1, r[m]>>] ELSE r[k]]
  <2>3. more \in [0 .. m + 1 -> S] /\ more[0] = start
    BY <2>1, <2>2
  <2>4. ASSUME NEW k \in 1 .. m + 1 PROVE more[k] = step[<<k, more[k - 1]>>]
    <3> HIDE DEF Runs
    <3>1. more[m + 1] = step[<<m + 1, r[m]>>] /\ \A i \in 0 .. m : more[i] = r[i]
      OBVIOUS
    <3>2. k - 1 \in 0 .. m
      OBVIOUS
    <3> HIDE DEF more
    <3>3. CASE k = m + 1
      BY <3>1, <3>2, <3>3
    <3>4. CASE k \in 1 .. m
      <4>1. r[k] = step[<<k, r[k - 1]>>]
        BY <2>1, <3>4 DEF Runs
      <4> QED
        BY <3>1, <3>2, <3>4, <4>1
    <3> QED
      BY <3>3, <3>4
  <2> HIDE DEF more
  <2> QED
    BY <2>3, <2>4
<1> HIDE DEF some
<1>3. n \in some
  BY <1>1, <1>2, Induction
<1>4. PICK r : r \in Runs(n)
  BY <1>3 DEF some
<1> QED
  BY <1>4 DEF IsRun

\* Two functions that begin alike and go on alike are the same.
Alike(n, f, g) ==
  /\ f[0] = g[0]
  /\ \A k \in 1 .. n : f[k - 1] = g[k - 1] => f[k] = g[k]

LEMMA RunsAgree ==
  ASSUME NEW n \in Nat, NEW f, NEW g, Alike(n, f, g)
  PROVE  \A k \in 0 .. n : f[k] = g[k]
<1> USE DEF Alike
<1> DEFINE same == {k \in Nat : k <= n => f[k] = g[k]}
<1>1. 0 \in same
  OBVIOUS
<1>2. \A k \in Nat : k \in same => k + 1 \in same
  <2> TAKE k \in Nat
  <2> SUFFICES ASSUME k \in same, k + 1 <= n PROVE f[k + 1] = g[k + 1]
    OBVIOUS
  <2>1. f[k] = g[k] /\ k + 1 \in 1 .. n /\ (k + 1) - 1 = k
    OBVIOUS
  <2> QED
    BY <2>1
<1> HIDE DEF same
<1>3. \A k \in Nat : k \in same
  BY <1>1, <1>2, Induction
<1> QED
  BY <1>3 DEF same

-------------------------------------------------------------------------------
(* The events that consumers are told of, and the permits events hold.     *)

AbsEvents(events) == {AbsEvent(events[k]) : k \in 1 .. Len(events)}

\* Told, written out.
ToldRun(events, told) ==
  /\ told \in [0 .. Len(events) -> Seq(AbsEvents(events))]
  /\ told[0] = <<>> /\ Told(events) = told[Len(events)]
  /\ \A k \in 1 .. Len(events) :
       told[k] = IF events[k].kind = "Stderr" THEN told[k - 1]
                 ELSE Append(told[k - 1], AbsEvent(events[k]))

LEMMA ToldRuns ==
  ASSUME NEW events \in Seq(Events)
  PROVE  \E told : ToldRun(events, told)
<1> DEFINE n == Len(events)
           T == Seq(AbsEvents(events))
           After(k, s) == IF events[k].kind = "Stderr" THEN s ELSE Append(s, AbsEvent(events[k]))
           step == [p \in (1 .. n) \X T |-> After(p[1], p[2])]
           told == CHOOSE f : f = [k \in 0 .. n |-> IF k = 0 THEN <<>> ELSE After(k, f[k - 1])]
<1>1. n \in Nat /\ <<>> \in T
  BY EmptySeq
<1>2. \A k \in 1 .. n, s \in T : After(k, s) \in T
  <2> TAKE k \in 1 .. n, s \in T
  <2>1. AbsEvent(events[k]) \in AbsEvents(events)
    BY DEF AbsEvents
  <2>2. Append(s, AbsEvent(events[k])) \in T
    BY <2>1, AppendProperties
  <2> QED
    BY <2>2
<1>3. Told(events) = told[n]
  BY Zenon DEF Told
<1> HIDE DEF T, After
<1>4. \A k \in 1 .. n, s \in T : step[<<k, s>>] = After(k, s) /\ After(k, s) \in T
  BY <1>2
<1> HIDE DEF step, n
<1>5. PICK f : f \in [0 .. n -> T] /\ f[0] = <<>> /\ \A k \in 1 .. n : f[k] = step[<<k, f[k - 1]>>]
  <2>1. StepsIn(n, T, step)
    BY <1>4 DEF StepsIn
  <2>2. \E f : IsRun(n, T, <<>>, step, f)
    BY <1>1, <2>1, RunExists
  <2> QED
    BY <2>2 DEF IsRun
<1>6. ASSUME NEW k \in 1 .. n PROVE f[k] = After(k, f[k - 1])
  <2>1. k - 1 \in 0 .. n
    BY <1>1
  <2>2. f[k - 1] \in T
    BY <1>5, <2>1
  <2> QED
    BY <1>4, <1>5, <2>2
<1>7. f = [k \in 0 .. n |-> IF k = 0 THEN <<>> ELSE After(k, f[k - 1])]
  <2>1. \A k \in 0 .. n : f[k] = IF k = 0 THEN <<>> ELSE After(k, f[k - 1])
    BY <1>1, <1>5, <1>6
  <2> QED
    BY <1>5, <2>1
<1>8. told = [k \in 0 .. n |-> IF k = 0 THEN <<>> ELSE After(k, told[k - 1])]
  BY <1>7
<1> HIDE DEF told
<1>9. told[0] = <<>> /\ \A k \in 1 .. n : told[k] = After(k, told[k - 1])
  BY <1>1, <1>8
<1>10. \A k \in 0 .. n : told[k] = f[k]
  <2>1. told[0] = f[0] /\ \A k \in 1 .. n : told[k - 1] = f[k - 1] => told[k] = f[k]
    BY <1>5, <1>6, <1>9
  <2> HIDE DEF told
  <2>2. Alike(n, told, f)
    BY <2>1 DEF Alike
  <2> QED
    BY <1>1, <2>2, RunsAgree
<1>11. told \in [0 .. n -> T]
  BY <1>5, <1>8, <1>10
<1> QED
  BY <1>3, <1>9, <1>11 DEF ToldRun, After, T, n

LEMMA ToldEmpty == Told(<<>>) = <<>>
<1>1. <<>> \in Seq(Events) /\ Len(<<>>) = 0
  BY EmptySeq
<1>2. PICK told : ToldRun(<<>>, told)
  BY <1>1, ToldRuns
<1> QED
  BY <1>1, <1>2 DEF ToldRun

\* An event that is sent is told of last ...
LEMMA ToldAppend ==
  ASSUME NEW events \in Seq(Events), NEW event \in Events
  PROVE  Told(Append(events, event)) =
           IF event.kind = "Stderr" THEN Told(events)
           ELSE Append(Told(events), AbsEvent(event))
<1> DEFINE more == Append(events, event)
           n == Len(events)
<1>1. more \in Seq(Events) /\ Len(more) = n + 1 /\ n \in Nat /\ more[n + 1] = event
      /\ \A k \in 1 .. n : more[k] = events[k]
  BY AppendProperties
<1> HIDE DEF more
<1>2. PICK told : ToldRun(events, told)
  BY ToldRuns
<1>3. PICK f : ToldRun(more, f)
  BY <1>1, ToldRuns
<1>4. \A k \in 0 .. n : told[k] = f[k]
  <2>1. told[0] = f[0]
    BY <1>2, <1>3 DEF ToldRun
  <2>2. ASSUME NEW k \in 1 .. n, told[k - 1] = f[k - 1] PROVE told[k] = f[k]
    <3>1. k \in 1 .. Len(more)
      BY <1>1
    <3> QED
      BY <1>1, <1>2, <1>3, <2>2, <3>1 DEF ToldRun
  <2>3. Alike(n, told, f)
    BY <2>1, <2>2 DEF Alike
  <2> QED
    BY <1>1, <2>3, RunsAgree
<1>5. Told(events) = f[n] /\ Told(more) = f[n + 1]
  BY <1>1, <1>2, <1>3, <1>4 DEF ToldRun
<1>6. n + 1 \in 1 .. Len(more) /\ (n + 1) - 1 = n
  BY <1>1
<1>7. f[n + 1] = IF event.kind = "Stderr" THEN f[n] ELSE Append(f[n], AbsEvent(event))
  BY <1>1, <1>3, <1>6 DEF ToldRun
<1> QED
  BY <1>5, <1>7 DEF more

\* Joining and appending commute.
LEMMA AppendToJoined ==
  ASSUME NEW S, NEW s \in Seq(S), NEW t \in Seq(S), NEW e \in S
  PROVE  s \o Append(t, e) = Append(s \o t, e)
<1>1. /\ t \in Seq(S) /\ Append(t, e) \in Seq(S) /\ s \o t \in Seq(S)
      /\ s \o Append(t, e) \in Seq(S) /\ Append(s \o t, e) \in Seq(S)
  OBVIOUS
<1>2. Len(s \o Append(t, e)) = Len(s) + Len(t) + 1 /\ Len(Append(s \o t, e)) = Len(s) + Len(t) + 1
  OBVIOUS
<1>3. ASSUME NEW k \in 1 .. Len(s) + Len(t) + 1
      PROVE  (s \o Append(t, e))[k] = Append(s \o t, e)[k]
  <2>1. CASE k \in 1 .. Len(s)
    BY <2>1
  <2>2. CASE k \in Len(s) + 1 .. Len(s) + Len(t)
    BY <2>2
  <2>3. CASE k = Len(s) + Len(t) + 1
    BY <2>3
  <2> QED
    BY <1>3, <2>1, <2>2, <2>3
<1> QED
  BY <1>1, <1>2, <1>3, SMTT(30)

\* ... and the first that was sent, first.
LEMMA ToldHead ==
  ASSUME NEW events \in Seq(Events), events # <<>>
  PROVE  /\ Head(events).kind = "Stderr" => Told(Tail(events)) = Told(events)
         /\ Head(events).kind # "Stderr" =>
              /\ Told(events) # <<>>
              /\ Told(Tail(events)) = Tail(Told(events))
<1> DEFINE rest == Tail(events)
           n == Len(rest)
           Abs == AbsEvents(events)
<1>1. rest \in Seq(Events) /\ n \in Nat /\ Len(events) = n + 1 /\ Head(events) = events[1]
      /\ \A k \in 1 .. n : rest[k] = events[k + 1]
  BY HeadTailProperties, ElementOfSeq
<1> HIDE DEF rest
<1>2. PICK told : ToldRun(events, told)
  BY ToldRuns
<1>3. PICK f : ToldRun(rest, f)
  BY <1>1, ToldRuns
<1> DEFINE first == told[1]
<1>4. first = IF Head(events).kind = "Stderr" THEN <<>> ELSE <<AbsEvent(Head(events))>>
  <2>1. 1 \in 1 .. Len(events) /\ 1 - 1 = 0
    BY <1>1
  <2>2. told[1] = IF events[1].kind = "Stderr" THEN told[0]
                  ELSE Append(told[0], AbsEvent(events[1]))
    BY <1>2, <2>1 DEF ToldRun
  <2>3. Append(<<>>, AbsEvent(events[1])) = <<AbsEvent(events[1])>>
    OBVIOUS
  <2> QED
    BY <1>1, <1>2, <2>2, <2>3 DEF ToldRun
<1>5. first \in Seq(Abs) /\ \A k \in 0 .. n : f[k] \in Seq(Abs)
  <2>1. first \in Seq(Abs)
    BY <1>1, <1>2 DEF ToldRun
  <2>2. AbsEvents(rest) \subseteq Abs
    BY <1>1 DEF AbsEvents
  <2>3. Seq(AbsEvents(rest)) \subseteq Seq(Abs)
    BY <2>2
  <2>4. \A k \in 0 .. n : f[k] \in Seq(AbsEvents(rest))
    BY <1>3 DEF ToldRun
  <2> QED
    BY <2>1, <2>3, <2>4
<1> HIDE DEF first
<1> DEFINE left == [k \in 0 .. n |-> told[k + 1]]
           right == [k \in 0 .. n |-> first \o f[k]]
<1>6. left[0] = right[0]
  <2>1. left[0] = told[1] /\ right[0] = first \o f[0] /\ f[0] = <<>>
    BY <1>1, <1>3, SMTT(20) DEF ToldRun
  <2>2. first \o <<>> = first
    BY <1>5
  <2> QED
    BY <2>1, <2>2 DEF first
<1>7. ASSUME NEW k \in 1 .. n, left[k - 1] = right[k - 1] PROVE left[k] = right[k]
  <2>1. /\ k \in 0 .. n /\ k - 1 \in 0 .. n
        /\ k + 1 \in 1 .. Len(events) /\ (k + 1) - 1 = k /\ k \in 1 .. Len(rest)
        /\ (k - 1) + 1 = k
    BY <1>1
  <2>2. left[k] = told[k + 1] /\ left[k - 1] = told[k]
    BY <2>1
  <2>3. right[k] = first \o f[k] /\ right[k - 1] = first \o f[k - 1]
    BY <2>1
  <2> HIDE DEF left, right
  <2>4. told[k + 1] = IF events[k + 1].kind = "Stderr" THEN told[k]
                      ELSE Append(told[k], AbsEvent(events[k + 1]))
    BY <1>2, <2>1 DEF ToldRun
  <2>5. f[k] = IF events[k + 1].kind = "Stderr" THEN f[k - 1]
               ELSE Append(f[k - 1], AbsEvent(events[k + 1]))
    BY <1>1, <1>3, <2>1 DEF ToldRun
  <2>6. AbsEvent(events[k + 1]) \in Abs /\ f[k - 1] \in Seq(Abs)
    BY <1>5, <2>1 DEF AbsEvents
  <2>7. first \o Append(f[k - 1], AbsEvent(events[k + 1]))
          = Append(first \o f[k - 1], AbsEvent(events[k + 1]))
    <3>1. ASSUME NEW s \in Seq(Abs), NEW t \in Seq(Abs), NEW e \in Abs
          PROVE  s \o Append(t, e) = Append(s \o t, e)
      BY AppendToJoined
    <3> DEFINE t == f[k - 1]
               e == AbsEvent(events[k + 1])
    <3>2. t \in Seq(Abs) /\ e \in Abs
      BY <2>6
    <3>3. first \in Seq(Abs)
      BY <1>5
    <3> HIDE DEF t, e, Abs
    <3>4. first \o Append(t, e) = Append(first \o t, e)
      BY <3>1, <3>2, <3>3
    <3> QED
      BY <3>4 DEF t, e
  <2> QED
    BY <1>7, <2>2, <2>3, <2>4, <2>5, <2>7
<1> HIDE DEF left, right
<1>8. \A k \in 0 .. n : left[k] = right[k]
  <2>1. Alike(n, left, right)
    BY <1>6, <1>7 DEF Alike
  <2> QED
    BY <1>1, <2>1, RunsAgree
<1>9. Told(events) = first \o Told(rest) /\ Told(rest) \in Seq(Abs)
  <2>1. left[n] = told[n + 1] /\ right[n] = first \o f[n]
    BY <1>1 DEF left, right
  <2>2. Told(events) = told[n + 1] /\ Told(rest) = f[n]
    BY <1>1, <1>2, <1>3 DEF ToldRun
  <2>3. n \in 0 .. n
    BY <1>1
  <2>4. left[n] = right[n]
    BY <1>8, <2>3
  <2>5. f[n] \in Seq(Abs)
    BY <1>5, <2>3
  <2> QED
    BY <2>1, <2>2, <2>4, <2>5
<1>10. CASE Head(events).kind = "Stderr"
  BY <1>4, <1>9, <1>10 DEF rest
<1>11. CASE Head(events).kind # "Stderr"
  <2>1. first = <<AbsEvent(Head(events))>> /\ first \in Seq(Abs)
    BY <1>4, <1>5, <1>11
  <2>2. Tail(first \o Told(rest)) = Told(rest) /\ first \o Told(rest) # <<>>
    BY <1>9, <2>1
  <2> QED
    BY <1>9, <1>11, <2>2 DEF rest
<1> QED
  BY <1>10, <1>11

\* No more is told than was sent.
LEMMA ToldLength ==
  ASSUME NEW events \in Seq(Events)
  PROVE  Told(events) \in Seq(AbsEvents(events)) /\ Len(Told(events)) <= Len(events)
<1> DEFINE n == Len(events)
<1>1. n \in Nat
  OBVIOUS
<1>2. PICK told : ToldRun(events, told)
  BY ToldRuns
<1>3. \A k \in 0 .. n : told[k] \in Seq(AbsEvents(events))
  BY <1>2 DEF ToldRun
<1> DEFINE short == {k \in Nat : k <= n => Len(told[k]) <= k}
<1>4. 0 \in short
  BY <1>2 DEF ToldRun
<1>5. \A k \in Nat : k \in short => k + 1 \in short
  <2> TAKE k \in Nat
  <2> SUFFICES ASSUME k \in short, k + 1 <= n PROVE Len(told[k + 1]) <= k + 1
    OBVIOUS
  <2>1. k + 1 \in 1 .. n /\ (k + 1) - 1 = k /\ k \in 0 .. n
    BY <1>1
  <2>2. Len(told[k]) <= k /\ told[k] \in Seq(AbsEvents(events))
    BY <1>1, <1>3, <2>1
  <2>3. told[k + 1] = IF events[k + 1].kind = "Stderr" THEN told[k]
                      ELSE Append(told[k], AbsEvent(events[k + 1]))
    BY <1>2, <2>1 DEF ToldRun
  <2> QED
    BY <2>2, <2>3
<1> HIDE DEF short
<1>6. n \in short
  BY <1>1, <1>4, <1>5, Induction
<1>7. n \in 0 .. n
  BY <1>1
<1> QED
  BY <1>2, <1>3, <1>6, <1>7 DEF short, ToldRun

\* Charged, written out.
ChargedRun(events, sum) ==
  /\ sum \in [0 .. Len(events) -> Nat]
  /\ sum[0] = 0 /\ Charged(events) = sum[Len(events)]
  /\ \A k \in 1 .. Len(events) : sum[k] = sum[k - 1] + events[k].bytes

LEMMA EventBytes == ASSUME NEW event \in Events PROVE event.bytes \in Nat
BY DEF Events, PlainEvents, ExitedEvents

LEMMA ChargedRuns ==
  ASSUME NEW events \in Seq(Events)
  PROVE  \E sum : ChargedRun(events, sum)
<1> DEFINE n == Len(events)
           After(k, s) == s + events[k].bytes
           step == [p \in (1 .. n) \X Nat |-> After(p[1], p[2])]
           sum == CHOOSE f : f = [k \in 0 .. n |-> IF k = 0 THEN 0 ELSE f[k - 1] + events[k].bytes]
<1>1. n \in Nat
  OBVIOUS
<1>2. \A k \in 1 .. n, s \in Nat : After(k, s) \in Nat
  <2> TAKE k \in 1 .. n, s \in Nat
  <2>1. events[k] \in Events
    BY ElementOfSeq
  <2>2. events[k].bytes \in Nat
    BY <2>1, EventBytes
  <2> QED
    BY <2>2
<1>3. Charged(events) = sum[n]
  BY Zenon DEF Charged
<1>4. \A f : [k \in 0 .. n |-> IF k = 0 THEN 0 ELSE f[k - 1] + events[k].bytes]
             = [k \in 0 .. n |-> IF k = 0 THEN 0 ELSE After(k, f[k - 1])]
  OBVIOUS
<1> HIDE DEF After
<1>5. \A k \in 1 .. n, s \in Nat : step[<<k, s>>] = After(k, s) /\ After(k, s) \in Nat
  BY <1>2
<1> HIDE DEF step, n
<1>6. PICK f : f \in [0 .. n -> Nat] /\ f[0] = 0 /\ \A k \in 1 .. n : f[k] = step[<<k, f[k - 1]>>]
  <2>1. StepsIn(n, Nat, step)
    BY <1>5 DEF StepsIn
  <2>2. 0 \in Nat
    OBVIOUS
  <2>3. \E f : IsRun(n, Nat, 0, step, f)
    BY <1>1, <2>1, <2>2, RunExists
  <2> QED
    BY <2>3 DEF IsRun
<1>7. ASSUME NEW k \in 1 .. n PROVE f[k] = After(k, f[k - 1])
  <2>1. k - 1 \in 0 .. n
    BY <1>1
  <2>2. f[k - 1] \in Nat
    BY <1>6, <2>1
  <2> QED
    BY <1>5, <1>6, <2>2
<1>8. f = [k \in 0 .. n |-> IF k = 0 THEN 0 ELSE f[k - 1] + events[k].bytes]
  <2>1. \A k \in 0 .. n : f[k] = IF k = 0 THEN 0 ELSE After(k, f[k - 1])
    BY <1>1, <1>6, <1>7
  <2>2. f = [k \in 0 .. n |-> IF k = 0 THEN 0 ELSE After(k, f[k - 1])]
    BY <1>6, <2>1
  <2> QED
    BY <1>4, <2>2
<1>9. sum = [k \in 0 .. n |-> IF k = 0 THEN 0 ELSE sum[k - 1] + events[k].bytes]
  BY <1>8
<1> HIDE DEF sum
<1>10. sum[0] = 0 /\ \A k \in 1 .. n : sum[k] = sum[k - 1] + events[k].bytes
  BY <1>1, <1>9
<1>11. \A k \in 0 .. n : sum[k] = f[k]
  <2>1. sum[0] = f[0] /\ \A k \in 1 .. n : sum[k - 1] = f[k - 1] => sum[k] = f[k]
    BY <1>6, <1>7, <1>10 DEF After
  <2>2. Alike(n, sum, f)
    BY <2>1 DEF Alike
  <2> QED
    BY <1>1, <2>2, RunsAgree
<1>12. sum \in [0 .. n -> Nat]
  BY <1>6, <1>9, <1>11
<1> QED
  BY <1>3, <1>10, <1>12 DEF ChargedRun, n

LEMMA ChargedEmpty == Charged(<<>>) = 0
<1>1. <<>> \in Seq(Events) /\ Len(<<>>) = 0
  BY EmptySeq
<1>2. PICK sum : ChargedRun(<<>>, sum)
  BY <1>1, ChargedRuns
<1> QED
  BY <1>1, <1>2 DEF ChargedRun

LEMMA ChargedNat == ASSUME NEW events \in Seq(Events) PROVE Charged(events) \in Nat
<1>1. PICK sum : ChargedRun(events, sum)
  BY ChargedRuns
<1>2. Len(events) \in 0 .. Len(events)
  OBVIOUS
<1> QED
  BY <1>1, <1>2 DEF ChargedRun

LEMMA ChargedAppend ==
  ASSUME NEW events \in Seq(Events), NEW event \in Events
  PROVE  Charged(Append(events, event)) = Charged(events) + event.bytes
<1> DEFINE more == Append(events, event)
           n == Len(events)
<1>1. more \in Seq(Events) /\ Len(more) = n + 1 /\ n \in Nat /\ more[n + 1] = event
      /\ \A k \in 1 .. n : more[k] = events[k]
  BY AppendProperties
<1> HIDE DEF more
<1>2. PICK sum : ChargedRun(events, sum)
  BY ChargedRuns
<1>3. PICK f : ChargedRun(more, f)
  BY <1>1, ChargedRuns
<1>4. \A k \in 0 .. n : sum[k] = f[k]
  <2>1. sum[0] = f[0]
    BY <1>2, <1>3 DEF ChargedRun
  <2>2. ASSUME NEW k \in 1 .. n, sum[k - 1] = f[k - 1] PROVE sum[k] = f[k]
    <3>1. k \in 1 .. Len(more)
      BY <1>1
    <3> QED
      BY <1>1, <1>2, <1>3, <2>2, <3>1 DEF ChargedRun
  <2>3. Alike(n, sum, f)
    BY <2>1, <2>2 DEF Alike
  <2> QED
    BY <1>1, <2>3, RunsAgree
<1>5. Charged(events) = f[n] /\ Charged(more) = f[n + 1]
  BY <1>1, <1>2, <1>3, <1>4 DEF ChargedRun
<1>6. n + 1 \in 1 .. Len(more) /\ (n + 1) - 1 = n
  BY <1>1
<1>7. f[n + 1] = f[n] + event.bytes
  BY <1>1, <1>3, <1>6 DEF ChargedRun
<1> QED
  BY <1>5, <1>7 DEF more

LEMMA ChargedHead ==
  ASSUME NEW events \in Seq(Events), events # <<>>
  PROVE  Charged(events) = Head(events).bytes + Charged(Tail(events))
<1> DEFINE rest == Tail(events)
           n == Len(rest)
           first == Head(events).bytes
<1>1. rest \in Seq(Events) /\ n \in Nat /\ Len(events) = n + 1 /\ Head(events) = events[1]
      /\ \A k \in 1 .. n : rest[k] = events[k + 1]
  BY HeadTailProperties, ElementOfSeq
<1>2. first \in Nat
  BY HeadTailProperties, EventBytes
<1> HIDE DEF rest, first
<1>3. PICK sum : ChargedRun(events, sum)
  BY ChargedRuns
<1>4. PICK f : ChargedRun(rest, f)
  BY <1>1, ChargedRuns
<1> DEFINE left == [k \in 0 .. n |-> sum[k + 1]]
           right == [k \in 0 .. n |-> first + f[k]]
<1>5. left[0] = right[0]
  <2>1. 1 \in 1 .. Len(events) /\ 1 - 1 = 0 /\ 0 \in 0 .. n
    BY <1>1
  <2>2. sum[1] = sum[0] + events[1].bytes /\ sum[0] = 0 /\ f[0] = 0
    BY <1>3, <1>4, <2>1 DEF ChargedRun
  <2> QED
    BY <1>1, <1>2, <2>1, <2>2 DEF first
<1>6. ASSUME NEW k \in 1 .. n, left[k - 1] = right[k - 1] PROVE left[k] = right[k]
  <2>1. /\ k \in 0 .. n /\ k - 1 \in 0 .. n
        /\ k + 1 \in 1 .. Len(events) /\ (k + 1) - 1 = k /\ k \in 1 .. Len(rest)
        /\ (k - 1) + 1 = k
    BY <1>1
  <2>2. left[k] = sum[k + 1] /\ left[k - 1] = sum[k]
    BY <2>1
  <2>3. right[k] = first + f[k] /\ right[k - 1] = first + f[k - 1]
    BY <2>1
  <2> HIDE DEF left, right
  <2>4. sum[k + 1] = sum[k] + events[k + 1].bytes
    BY <1>3, <2>1 DEF ChargedRun
  <2>5. f[k] = f[k - 1] + events[k + 1].bytes /\ f[k - 1] \in Nat
    BY <1>1, <1>4, <2>1 DEF ChargedRun
  <2>6. events[k + 1].bytes \in Nat
    BY <2>1, ElementOfSeq, EventBytes
  <2>7. sum[k] = first + f[k - 1]
    BY <1>6, <2>2, <2>3
  <2>8. \A x, y, z \in Nat : (x + y) + z = x + (y + z)
    OBVIOUS
  <2> QED
    BY <1>2, <2>2, <2>3, <2>4, <2>5, <2>6, <2>7, <2>8
<1> HIDE DEF left, right
<1>7. \A k \in 0 .. n : left[k] = right[k]
  <2>1. Alike(n, left, right)
    BY <1>5, <1>6 DEF Alike
  <2> QED
    BY <1>1, <2>1, RunsAgree
<1> QED
  <2>1. n \in 0 .. n
    BY <1>1
  <2>2. left[n] = sum[n + 1] /\ right[n] = first + f[n]
    BY <2>1 DEF left, right
  <2>3. left[n] = right[n]
    BY <1>7, <2>1
  <2>4. Charged(events) = sum[n + 1] /\ Charged(rest) = f[n]
    BY <1>1, <1>3, <1>4 DEF ChargedRun
  <2> QED
    BY <2>2, <2>3, <2>4 DEF first, rest

-------------------------------------------------------------------------------
(* The invariant.                                                          *)

\* What a step of the process does: what a reader may know of an end stays true.
Grows ==
  /\ ProcType' /\ ProcInv'
  /\ Readable \in Nat /\ Readable' \in Nat /\ Readable <= Readable'
  /\ proc.closed =>
       proc'.closed /\ proc'.cut = proc.cut /\ proc'.written = proc.written /\ Readable' = Readable
  /\ ~proc.alive => ~proc'.alive

LEMMA RowsNat == Rows \in Nat
BY LogcatStreamAssumption DEF Rows

LEMMA EndedGrows ==
  ASSUME ProcType, ProcInv, proc.alive, NEW code \in {"zero", "other"}, Ended(code)
  PROVE  Grows /\ ~proc'.alive
<1>1. PICK cut \in {"none", "line", "frame"} :
        /\ cut # "none" => (~proc.closed /\ proc.written < Rows)
        /\ proc' = [proc EXCEPT !.alive = FALSE, !.closed = TRUE, !.code = code, !.cut = cut]
  BY DEF Ended
<1>2. /\ proc'.alive = FALSE /\ proc'.closed = TRUE /\ proc'.cut = cut
      /\ proc'.written = proc.written /\ proc.written \in 0 .. Rows
  BY <1>1 DEF ProcType
<1>3. ProcType'
  BY <1>1 DEF ProcType, Rows
<1> QED
  BY <1>1, <1>2, <1>3, RowsNat DEF ProcInv, Grows, Readable, Rows

LEMMA WriteGrows == ASSUME ProcType, ProcInv, Write PROVE Grows
<1>1. /\ proc.alive /\ ~proc.closed /\ proc.written < Rows /\ proc.written \in 0 .. Rows
      /\ proc'.alive = proc.alive /\ proc'.closed = proc.closed /\ proc'.cut = proc.cut
      /\ proc'.written = proc.written + 1
  BY DEF Write, ProcType
<1>2. ProcType'
  BY <1>1, RowsNat DEF Write, ProcType, Rows
<1> QED
  BY <1>1, <1>2, RowsNat DEF ProcInv, Grows, Readable, Rows

LEMMA CloseOutputGrows == ASSUME ProcType, ProcInv, CloseOutput PROVE Grows
<1>1. /\ proc.alive /\ ~proc.closed /\ proc.written \in 0 .. Rows
      /\ proc'.alive = proc.alive /\ proc'.closed = TRUE /\ proc'.cut = proc.cut
      /\ proc'.written = proc.written
  BY DEF CloseOutput, ProcType
<1>2. ProcType'
  BY DEF CloseOutput, ProcType, Rows
<1> QED
  BY <1>1, <1>2, RowsNat DEF ProcInv, Grows, Readable, Rows

LEMMA SameGrows == ASSUME ProcType, ProcInv, UNCHANGED proc PROVE Grows
BY RowsNat DEF ProcType, ProcInv, Grows, Readable

\* The reader and the drain worker stay right about a process that goes on.
LEMMA GrowsOut ==
  ASSUME StreamType, OutInv, Grows, UNCHANGED out
  PROVE  OutInv'
BY DEF StreamType, OutType, ProcType, OutInv, Grows, AtEnd

LEMMA GrowsDrain ==
  ASSUME StreamType, DrainInv, Grows, UNCHANGED <<out, drain>>
  PROVE  DrainInv'
BY DEF StreamType, DrainType, OutType, DrainInv, Grows

LEMMA SameExit == ASSUME ExitInv, UNCHANGED <<queue, drain>> PROVE ExitInv'
BY DEF ExitInv

LEMMA SameBudget == ASSUME BudgetInv, UNCHANGED <<used, queue, out>> PROVE BudgetInv'
BY DEF BudgetInv

\* The process by itself, or stopped.
LEMMA ProcessKeeps ==
  ASSUME StreamInv, Write \/ CloseOutput \/ Die \/ Stop
  PROVE  StreamInv'
<1> USE DEF StreamInv, StreamType
<1>1. ProcType
  OBVIOUS
<1>2. UNCHANGED <<out, err, drain, used, queue>>
  BY DEF Write, CloseOutput, Die, Stop
<1>3. Grows /\ stopped' \in BOOLEAN
  <2>1. stopped' \in BOOLEAN
    BY DEF Write, CloseOutput, Die, Stop
  <2>2. CASE Write
    BY <1>1, <2>1, <2>2, WriteGrows
  <2>3. CASE CloseOutput
    BY <1>1, <2>1, <2>3, CloseOutputGrows
  <2>4. CASE Die
    BY <1>1, <2>1, <2>4, EndedGrows DEF Die
  <2>5. CASE Stop
    BY <1>1, <2>1, <2>5, EndedGrows, SameGrows DEF Stop
  <2> QED
    BY <2>2, <2>3, <2>4, <2>5
<1>4. StreamType'
  BY <1>2, <1>3 DEF ProcType, Grows, QueueType, OutType, ErrType, DrainType
<1> QED
  BY <1>2, <1>3, <1>4, GrowsOut, GrowsDrain, SameExit, SameBudget DEF Grows

\* A row that the reader is at was written, and its bytes fit in the budget.
LEMMA RowBytes ==
  ASSUME StreamInv, out.pc \in {"reserve", "send"}
  PROVE  out.read \in 1 .. Rows /\ Bytes(out.read) \in 1 .. QUEUE_BYTES
<1>1. out.read \in 1 .. Rows
  BY RowsNat DEF StreamInv, StreamType, ProcType, OutType, ProcInv, OutInv, Readable, Rows
<1>2. Sizes[out.read] \in Nat \ {0} /\ QUEUE_BYTES \in Nat \ {0}
  BY <1>1, LogcatStreamAssumption, ElementOfSeq DEF Rows
<1> QED
  BY <1>1, <1>2 DEF Bytes

\* What is sent is the last in the channel.
LEMMA Sends ==
  ASSUME StreamType, ExitInv, NEW event \in Events, Send(event)
  PROVE  /\ queue' \in Seq(Events) /\ Len(queue') <= QueueCap
         /\ Charged(queue') = Charged(queue) + event.bytes
         /\ Charged(queue) \in Nat
         /\ (event.kind # "Exited" /\ UNCHANGED drain) => ExitInv'
<1>1. queue \in Seq(Events) /\ Len(queue) < QueueCap /\ queue' = Append(queue, event)
  BY DEF StreamType, QueueType, Send
<1>2. QueueCap \in Nat
  BY LogcatStreamAssumption
<1>3. queue' \in Seq(Events) /\ Len(queue') = Len(queue) + 1
  BY <1>1, AppendProperties
<1>4. \A k \in DOMAIN queue' : (k \in DOMAIN queue /\ queue'[k] = queue[k]) \/ queue'[k] = event
  BY <1>1, AppendProperties
<1>5. Charged(queue') = Charged(queue) + event.bytes /\ Charged(queue) \in Nat
  BY <1>1, ChargedAppend, ChargedNat
<1>6. ASSUME event.kind # "Exited", UNCHANGED drain PROVE ExitInv'
  BY <1>4, <1>6 DEF ExitInv
<1> QED
  BY <1>1, <1>2, <1>3, <1>5, <1>6

LEMMA PlainEvent ==
  /\ Event("Started") \in Events /\ Event("Started").bytes = 0
  /\ Event("Stderr") \in Events /\ Event("Stderr").bytes = 0
  /\ Event("Started").kind = "Started" /\ Event("Stderr").kind = "Stderr"
BY DEF Event, Events, PlainEvents

\* The stdout reader.
LEMMA OutTypes == ASSUME OutType, Output \/ FailOutput PROVE OutType'
<1> USE DEF OutType, OutStep
<1>1. CASE SendStarted
  BY <1>1 DEF SendStarted
<1>2. CASE WakeStarted
  BY <1>2 DEF WakeStarted
<1>3. CASE ReadRow
  <2>1. out' = [out EXCEPT !.pc = "reserve", !.read = @ + 1] /\ out.read + 1 \in Nat
    BY <1>3 DEF ReadRow
  <2> QED
    BY <2>1
<1>4. CASE Reserve
  BY <1>4 DEF Reserve
<1>5. CASE SendEntry
  <2>1. out' = [out EXCEPT !.pc = "notify", !.sent = @ + 1] /\ out.sent + 1 \in Nat
    BY <1>5 DEF SendEntry
  <2> QED
    BY <2>1
<1>6. CASE NotifyEntry
  BY <1>6 DEF NotifyEntry
<1>7. CASE EndOutput
  BY <1>7 DEF EndOutput
<1>8. CASE DropTimer
  BY <1>8 DEF DropTimer
<1>9. CASE FailOutput
  BY <1>9 DEF FailOutput
<1> QED
  BY <1>1, <1>2, <1>3, <1>4, <1>5, <1>6, <1>7, <1>8, <1>9 DEF Output

LEMMA OutKeeps ==
  ASSUME StreamInv, Output \/ FailOutput
  PROVE  StreamInv'
<1> USE DEF StreamInv, StreamType
<1>1. UNCHANGED <<proc, err, drain, stopped>>
  BY DEF Output, FailOutput, SendStarted, WakeStarted, ReadRow, Reserve, SendEntry, NotifyEntry,
         EndOutput, DropTimer, OutStep
<1>2. ProcInv' /\ Readable' = Readable /\ AtEnd' = (proc.closed /\ out'.read = Readable)
  BY <1>1 DEF ProcInv, Readable, AtEnd
<1>3. Readable \in Nat /\ QUEUE_BYTES \in Nat
  BY LogcatStreamAssumption, RowsNat DEF ProcType, Readable, Rows
<1>4. ASSUME SendStarted PROVE StreamInv'
  <2>1. out' = [out EXCEPT !.pc = "wake"] /\ UNCHANGED used /\ Send(Event("Started"))
        /\ out.pc = "begin"
    BY <1>4 DEF SendStarted, OutStep
  <2>2. queue' \in Seq(Events) /\ Len(queue') <= QueueCap /\ ExitInv'
        /\ Charged(queue') = Charged(queue)
    BY <1>1, <2>1, Sends, PlainEvent
  <2>3. StreamType'
    BY <1>1, <2>1, <2>2 DEF ProcType, OutType, ErrType, DrainType, QueueType
  <2>4. OutInv'
    BY <1>1, <1>2, <1>3, <2>1 DEF OutInv, OutType
  <2>5. DrainInv'
    BY <1>1, <2>1 DEF DrainInv, OutType
  <2>6. BudgetInv'
    BY <2>1, <2>2 DEF BudgetInv, OutType, QueueType
  <2> QED
    BY <1>2, <2>2, <2>3, <2>4, <2>5, <2>6
<1>5. ASSUME WakeStarted \/ ReadRow \/ NotifyEntry \/ EndOutput \/ FailOutput \/ DropTimer
      PROVE  StreamInv'
  <2>1. UNCHANGED <<queue, used>> /\ out.pc # "send" /\ out'.pc # "send" /\ out.pc # "done"
    BY <1>5 DEF WakeStarted, ReadRow, NotifyEntry, EndOutput, FailOutput, DropTimer, OutStep,
                OutType, QueueType
  <2>2. ExitInv'
    BY <1>1, <2>1, SameExit
  <2>3. BudgetInv'
    BY <2>1 DEF BudgetInv
  <2>4. StreamType'
    <3>1. OutType'
      BY OutTypes
    <3> QED
      BY <1>1, <2>1, <3>1 DEF ProcType, ErrType, DrainType, QueueType
  <2>5. DrainInv'
    BY <1>1, <2>1 DEF DrainInv
  <2>6. OutInv'
    <3>1. CASE WakeStarted
      BY <1>2, <1>3, <3>1 DEF WakeStarted, OutStep, OutInv, OutType
    <3>5. CASE ReadRow
      BY <1>2, <1>3, <3>5 DEF ReadRow, OutStep, OutInv, OutType
    <3>6. CASE NotifyEntry
      BY <1>2, <1>3, <3>6 DEF NotifyEntry, OutStep, OutInv, OutType
    <3>2. CASE EndOutput
      BY <1>1, <1>2, <1>3, <3>2 DEF EndOutput, OutStep, OutInv, OutType, AtEnd, ProcInv
    <3>3. CASE FailOutput
      BY <1>2, <1>3, <3>3 DEF FailOutput, OutInv, OutType
    <3>4. CASE DropTimer
      BY <1>1, <1>2, <1>3, <3>4 DEF DropTimer, OutStep, OutInv, OutType, AtEnd
    <3> QED
      BY <1>5, <3>1, <3>2, <3>3, <3>4, <3>5, <3>6
  <2> QED
    BY <1>2, <2>2, <2>3, <2>4, <2>5, <2>6
<1>6. ASSUME Reserve PROVE StreamInv'
  <2>1. /\ out.pc = "reserve" /\ out' = [out EXCEPT !.pc = "send"] /\ UNCHANGED queue
        /\ used + Bytes(out.read) <= QUEUE_BYTES /\ used' = used + Bytes(out.read)
    BY <1>6 DEF Reserve, OutStep
  <2>2. Bytes(out.read) \in 1 .. QUEUE_BYTES
    BY <2>1, RowBytes
  <2>3. ExitInv' /\ out'.pc = "send" /\ out'.read = out.read
    BY <1>1, <2>1, SameExit DEF OutType
  <2>4. StreamType'
    BY <1>1, <1>3, <2>1, <2>2 DEF ProcType, OutType, ErrType, DrainType, QueueType
  <2>5. OutInv'
    BY <1>1, <1>2, <1>3, <2>1 DEF OutInv, OutType
  <2>6. DrainInv'
    BY <1>1, <2>1 DEF DrainInv, OutType
  <2>7. Bytes(out.read)' = Bytes(out.read) /\ Charged(queue)' = Charged(queue)
    BY <2>1, <2>3 DEF Bytes
  <2>8. Charged(queue) \in Nat
    BY ChargedNat DEF QueueType
  <2>9. BudgetInv'
    BY <1>3, <2>1, <2>2, <2>3, <2>7, <2>8 DEF BudgetInv, OutType, QueueType
  <2> QED
    BY <1>2, <2>3, <2>4, <2>5, <2>6, <2>9
<1>7. ASSUME SendEntry PROVE StreamInv'
  <2> DEFINE entry == [kind |-> "Entry", bytes |-> Bytes(out.read), row |-> out.read]
  <2>1. /\ out.pc = "send" /\ out' = [out EXCEPT !.pc = "notify", !.sent = @ + 1]
        /\ UNCHANGED used /\ Send(entry)
    BY <1>7 DEF SendEntry, OutStep
  <2>2. Bytes(out.read) \in 1 .. QUEUE_BYTES /\ out.read \in 1 .. Rows
    BY <2>1, RowBytes
  <2>3. entry \in Events /\ entry.kind = "Entry" /\ entry.bytes = Bytes(out.read)
    BY <1>3, <2>2, RowsNat DEF Events, PlainEvents
  <2> HIDE DEF entry
  <2>4. queue' \in Seq(Events) /\ Len(queue') <= QueueCap /\ ExitInv'
        /\ Charged(queue') = Charged(queue) + Bytes(out.read) /\ Charged(queue) \in Nat
    BY <1>1, <2>1, <2>3, Sends
  <2>5. StreamType'
    <3>1. OutType'
      BY OutTypes
    <3> QED
      BY <1>1, <2>1, <2>4, <3>1 DEF ProcType, ErrType, DrainType, QueueType
  <2>6. OutInv'
    BY <1>1, <1>2, <1>3, <2>1 DEF OutInv, OutType
  <2>7. DrainInv'
    BY <1>1, <2>1 DEF DrainInv, OutType
  <2>8. BudgetInv'
    <3>1. out'.pc # "send" /\ used' = Charged(queue')
      BY <1>3, <2>1, <2>2, <2>4 DEF BudgetInv, OutType, QueueType
    <3> QED
      BY <1>3, <2>1, <2>2, <2>4, <3>1 DEF BudgetInv, OutType
  <2> QED
    BY <1>2, <2>4, <2>5, <2>6, <2>7, <2>8
<1> QED
  BY <1>4, <1>5, <1>6, <1>7 DEF Output

\* The stderr reader, the timer's worker and the frame of the consumer that
\* begins or ends.
LEMMA OthersKeep ==
  ASSUME StreamInv, Diagnostics \/ Wakes \/ BeginFrame \/ EndFrame
  PROVE  StreamInv'
<1> USE DEF StreamInv, StreamType
<1>1. UNCHANGED <<proc, out, drain, stopped, used>>
  BY DEF Diagnostics, SendDiagnostic, EndDiagnostics, Wakes, Look, Expire, Fire, TimerStep,
         BeginFrame, EndFrame, UiStep
<1>2. Grows
  BY <1>1, SameGrows
<1>3. OutInv' /\ DrainInv' /\ ProcInv'
  BY <1>1, <1>2, GrowsOut, GrowsDrain DEF Grows
<1>4. ASSUME SendDiagnostic PROVE StreamInv'
  <2>1. Send(Event("Stderr")) /\ UNCHANGED err
    BY <1>4 DEF SendDiagnostic
  <2>2. queue' \in Seq(Events) /\ Len(queue') <= QueueCap /\ ExitInv'
        /\ Charged(queue') = Charged(queue)
    BY <1>1, <2>1, Sends, PlainEvent
  <2>3. BudgetInv'
    BY <1>1, <2>2 DEF BudgetInv
  <2> QED
    BY <1>1, <1>3, <2>1, <2>2, <2>3 DEF ProcType, OutType, ErrType, DrainType, QueueType
<1>5. ASSUME UNCHANGED queue PROVE StreamInv'
  <2>1. err' \in [pc : {"read", "done"}, failure : {"none", "io"}]
    <3>1. CASE Diagnostics
      BY <1>5, <3>1 DEF Diagnostics, SendDiagnostic, EndDiagnostics, ErrType
    <3>2. CASE Wakes \/ BeginFrame \/ EndFrame
      BY <3>2 DEF Wakes, Look, Expire, Fire, TimerStep, BeginFrame, EndFrame, UiStep, ErrType
    <3> QED
      BY <3>1, <3>2
  <2>2. StreamType'
    BY <1>1, <1>5, <2>1 DEF ProcType, OutType, ErrType, DrainType, QueueType
  <2> QED
    BY <1>1, <1>3, <1>5, <2>2, SameExit, SameBudget
<1>6. SendDiagnostic \/ UNCHANGED queue
  BY DEF Diagnostics, EndDiagnostics, Wakes, Look, Expire, Fire, TimerStep, BeginFrame, EndFrame,
         UiStep
<1> QED
  BY <1>4, <1>5, <1>6

\* An event that is received returns its permit.
LEMMA PollKeeps ==
  ASSUME StreamInv, PollEvent
  PROVE  StreamInv'
<1> USE DEF StreamInv, StreamType
<1>1. /\ UNCHANGED <<proc, out, err, drain, stopped>>
      /\ queue # <<>> /\ queue' = Tail(queue) /\ used' = used - Head(queue).bytes
  BY DEF PollEvent, Polled, UiStep
<1>2. Grows
  BY <1>1, SameGrows
<1>3. OutInv' /\ DrainInv' /\ ProcInv'
  BY <1>1, <1>2, GrowsOut, GrowsDrain DEF Grows
<1>4. /\ queue \in Seq(Events) /\ queue' \in Seq(Events) /\ Len(queue') = Len(queue) - 1
      /\ \A k \in DOMAIN queue' : k + 1 \in DOMAIN queue /\ queue'[k] = queue[k + 1]
  BY <1>1, HeadTailProperties DEF QueueType
<1>5. Charged(queue) = Head(queue).bytes + Charged(queue')
  BY <1>1, <1>4, ChargedHead
<1>6. Head(queue).bytes \in Nat /\ Charged(queue') \in Nat /\ QUEUE_BYTES \in Nat
  BY <1>1, <1>4, HeadTailProperties, EventBytes, ChargedNat, LogcatStreamAssumption
<1>7. (IF out.pc = "send" THEN Bytes(out.read) ELSE 0) \in Nat
  BY <1>6, RowBytes
<1>8. ExitInv'
  BY <1>1, <1>4 DEF ExitInv
<1>9. used' \in Nat /\ BudgetInv'
  <2>1. \A a, h, c, b \in Nat : a = (h + c) + b => a - h = c + b /\ a - h <= a
    OBVIOUS
  <2>2. (IF out.pc = "send" THEN Bytes(out.read) ELSE 0)'
          = IF out.pc = "send" THEN Bytes(out.read) ELSE 0
    BY <1>1 DEF Bytes
  <2>3. used \in Nat /\ used = (Head(queue).bytes + Charged(queue'))
                                 + (IF out.pc = "send" THEN Bytes(out.read) ELSE 0)
    BY <1>5 DEF BudgetInv, QueueType
  <2>4. used' = Charged(queue') + (IF out.pc = "send" THEN Bytes(out.read) ELSE 0)
        /\ used' <= used
    BY <1>1, <1>6, <1>7, <2>1, <2>3
  <2> QED
    BY <1>6, <1>7, <2>2, <2>3, <2>4 DEF BudgetInv
<1>10. StreamType'
  BY <1>1, <1>4, <1>9, LogcatStreamAssumption
     DEF ProcType, OutType, ErrType, DrainType, QueueType
<1> QED
  BY <1>3, <1>8, <1>9, <1>10

-------------------------------------------------------------------------------
(* The drain worker.                                                       *)

\* What it has joined it knows the failures of.
Knows(d) ==
  /\ d \in [pc : {"never", "readers", "child", "join", "exit", "wake", "done"},
            out_joined : BOOLEAN, err_joined : BOOLEAN, error : BOOLEAN, incomplete : BOOLEAN]
  /\ d.out_joined => out.pc = "done" /\ (out.failure # "none" => d.error)
  /\ d.incomplete => d.out_joined /\ out.failure = "cut"

LEMMA Recording ==
  ASSUME NEW d, Knows(d)
  PROVE  /\ out.pc = "done" =>
              /\ Knows(OutJoined(d)) /\ OutJoined(d).out_joined /\ OutJoined(d).pc = d.pc
         /\ Knows(ErrJoined(d)) /\ ErrJoined(d).out_joined = d.out_joined
              /\ ErrJoined(d).pc = d.pc
         /\ Knows(Faulty(d)) /\ Faulty(d).pc = d.pc
<1>1. ASSUME out.pc = "done"
      PROVE  Knows(OutJoined(d)) /\ OutJoined(d).out_joined /\ OutJoined(d).pc = d.pc
  <2>1. CASE out.failure = "none"
    BY <1>1, <2>1 DEF Knows, OutJoined, Recorded
  <2>2. CASE out.failure # "none"
    BY <1>1, <2>2 DEF Knows, OutJoined, Recorded
  <2> QED
    BY <2>1, <2>2
<1>2. Knows(ErrJoined(d)) /\ ErrJoined(d).out_joined = d.out_joined /\ ErrJoined(d).pc = d.pc
  <2>1. CASE err.failure = "none"
    BY <2>1 DEF Knows, ErrJoined, Recorded
  <2>2. CASE err.failure # "none"
    BY <2>2 DEF Knows, ErrJoined, Recorded
  <2> QED
    BY <2>1, <2>2
<1>3. Knows(Faulty(d)) /\ Faulty(d).pc = d.pc
  BY DEF Knows, Faulty
<1> QED
  BY <1>1, <1>2, <1>3

\* A step of it that sends nothing.
LEMMA DrainMoves ==
  ASSUME StreamInv, Grows, UNCHANGED <<out, err, stopped, used, queue>>,
         Knows(drain'),
         drain'.pc \in {"join", "exit", "wake", "done"} => ~proc'.alive,
         drain'.pc \in {"exit", "wake", "done"} => drain'.out_joined,
         \/ drain.pc \notin {"wake", "done"}
         \/ drain' = [drain EXCEPT !.pc = "done"]
  PROVE  StreamInv'
<1> USE DEF StreamInv, StreamType
<1>1. OutInv' /\ BudgetInv' /\ ProcInv'
  BY GrowsOut, SameBudget DEF Grows
<1>2. StreamType'
  BY DEF Grows, Knows, OutType, ErrType, DrainType, QueueType
<1>3. DrainInv'
  BY DEF Knows, DrainInv
<1>4. ExitInv'
  BY DEF ExitInv, DrainType
<1> QED
  BY <1>1, <1>2, <1>3, <1>4

\* The process is killed, or not.
LEMMA GoesKeeps ==
  ASSUME StreamInv, NEW d, Knows(d), drain.pc = "child", Goes(d)
  PROVE  StreamInv'
<1>1. Grows
  BY EndedGrows, SameGrows DEF Goes, StreamInv, StreamType
<1>2. drain' = [d EXCEPT !.pc = "readers"] /\ UNCHANGED <<out, err, stopped, used, queue>>
  BY DEF Goes, DrainStep
<1>3. Knows([d EXCEPT !.pc = "readers"])
      /\ [d EXCEPT !.pc = "readers"].pc = "readers"
  BY DEF Knows
<1>4. Knows(drain')
  BY <1>2, <1>3
<1> QED
  BY <1>1, <1>2, <1>3, <1>4, DrainMoves

LEMMA DrainKeeps ==
  ASSUME StreamInv, Drains
  PROVE  StreamInv'
<1> USE DEF StreamInv, StreamType
<1>1. Knows(drain)
  BY DEF DrainInv, DrainType, Knows
<1>2. ASSUME UNCHANGED proc PROVE Grows
  BY <1>2, SameGrows
<1>3. CASE LookAtReaders
  <2> DEFINE first == IF out.pc = "done" /\ ~drain.out_joined THEN OutJoined(drain) ELSE drain
             second == IF err.pc = "done" /\ ~drain.err_joined THEN ErrJoined(first) ELSE first
  <2>1. drain' = [second EXCEPT !.pc = "child"] /\ drain.pc = "readers"
        /\ UNCHANGED <<proc, out, err, stopped, used, queue>>
    BY <1>3 DEF LookAtReaders, DrainStep
  <2>2. Knows(first)
    BY <1>1, Recording
  <2> HIDE DEF first
  <2>3. Knows(second)
    BY <2>2, Recording
  <2> HIDE DEF second
  <2>4. Knows([second EXCEPT !.pc = "child"]) /\ [second EXCEPT !.pc = "child"].pc = "child"
    BY <2>3 DEF Knows
  <2>5. Knows(drain')
    BY <2>1, <2>4
  <2> QED
    BY <1>2, <2>1, <2>4, <2>5, DrainMoves
<1>4. CASE Reaped
  <2>1. drain' = [drain EXCEPT !.pc = "join"] /\ drain.pc = "child" /\ ~proc.alive
        /\ UNCHANGED <<proc, out, err, stopped, used, queue>>
    BY <1>4 DEF Reaped, DrainStep
  <2>2. Knows([drain EXCEPT !.pc = "join"]) /\ [drain EXCEPT !.pc = "join"].pc = "join"
    BY <1>1 DEF Knows
  <2>3. Knows(drain')
    BY <2>1, <2>2
  <2> QED
    BY <1>2, <2>1, <2>2, <2>3, DrainMoves
<1>5. CASE StillAlive \/ OutputOverdue
  <2>1. Knows(Faulty(drain))
    BY <1>1, Recording
  <2>2. drain.pc = "child" /\ (Goes(drain) \/ Goes(Faulty(drain)))
    BY <1>5 DEF StillAlive, OutputOverdue
  <2> QED
    BY <1>1, <2>1, <2>2, GoesKeeps
<1>6. CASE StillAliveAfterKill
  <2> DEFINE next == [Faulty(drain) EXCEPT !.pc = "readers"]
  <2>1. drain' = next /\ drain.pc = "child"
        /\ UNCHANGED <<proc, out, err, stopped, used, queue>>
    BY <1>6 DEF StillAliveAfterKill, DrainStep
  <2>2. Knows(Faulty(drain))
    BY <1>1, Recording
  <2>3. Knows(next) /\ next.pc = "readers"
    BY <2>2 DEF Knows
  <2> HIDE DEF next
  <2>4. Knows(drain')
    BY <2>1, <2>3
  <2> QED
    BY <1>2, <2>1, <2>3, <2>4, DrainMoves
<1>7. CASE Join
  <2> DEFINE first == IF drain.out_joined THEN drain ELSE OutJoined(drain)
             second == IF drain.err_joined THEN first ELSE ErrJoined(first)
             next == [second EXCEPT !.pc = "exit"]
  <2>1. drain' = next /\ drain.pc = "join" /\ out.pc = "done"
        /\ UNCHANGED <<proc, out, err, stopped, used, queue>>
    BY <1>7 DEF Join, DrainStep
  <2>2. Knows(first) /\ first.out_joined
    BY <1>1, <2>1, Recording
  <2> HIDE DEF first
  <2>3. Knows(second) /\ second.out_joined
    BY <2>2, Recording
  <2> HIDE DEF second
  <2>4. Knows(next) /\ next.pc = "exit" /\ next.out_joined
    BY <2>3 DEF Knows
  <2>5. Knows(drain') /\ drain'.pc = "exit" /\ drain'.out_joined
    BY <2>1, <2>4
  <2>6. ~proc.alive
    BY <2>1 DEF DrainInv
  <2> QED
    BY <1>2, <2>1, <2>5, <2>6, DrainMoves
<1>8. CASE WakeExited
  <2> DEFINE next == [drain EXCEPT !.pc = "done"]
  <2>1. drain' = next /\ drain.pc = "wake"
        /\ UNCHANGED <<proc, out, err, stopped, used, queue>>
    BY <1>8 DEF WakeExited, DrainStep
  <2>2. Knows(next) /\ next.pc = "done" /\ next.out_joined = drain.out_joined
    BY <1>1 DEF Knows
  <2>3. Knows(drain') /\ drain'.pc = "done" /\ drain'.out_joined
    BY <2>1, <2>2 DEF DrainInv
  <2>4. ~proc.alive
    BY <2>1 DEF DrainInv
  <2> QED
    BY <1>2, <2>1, <2>3, <2>4, DrainMoves
<1>9. CASE SendExited
  <2> DEFINE exited == [kind |-> "Exited", bytes |-> 0, row |-> 0,
                        clean |-> proc.code = "zero" /\ ~drain.error,
                        incomplete |-> drain.incomplete]
             next == [drain EXCEPT !.pc = "wake"]
  <2>1. drain' = next /\ drain.pc = "exit" /\ Send(exited)
        /\ UNCHANGED <<proc, out, err, stopped, used>>
    BY <1>9 DEF SendExited, DrainStep
  <2>2. exited \in Events /\ exited.bytes = 0
    BY DEF Events, ExitedEvents, DrainType
  <2>3. exited.clean => ~drain.error
    OBVIOUS
  <2>4. exited.incomplete = drain.incomplete
    OBVIOUS
  <2> HIDE DEF exited
  <2>5. next.pc = "wake" /\ next.error = drain.error /\ next.incomplete = drain.incomplete
        /\ next.out_joined = drain.out_joined /\ Knows(next)
    BY <1>1 DEF Knows
  <2> HIDE DEF next
  <2>6. queue' \in Seq(Events) /\ Len(queue') <= QueueCap /\ Charged(queue') = Charged(queue)
    BY <2>1, <2>2, Sends
  <2>7. StreamType'
    BY <2>1, <2>5, <2>6 DEF Knows, ProcType, OutType, ErrType, DrainType, QueueType
  <2>8. OutInv' /\ ProcInv'
    BY <1>2, <2>1, GrowsOut DEF Grows
  <2>9. DrainInv'
    BY <2>1, <2>5 DEF DrainInv, Knows
  <2>10. BudgetInv'
    BY <2>1, <2>6 DEF BudgetInv, Bytes
  <2>11. ExitInv'
    <3>1. \A k \in DOMAIN queue' : (k \in DOMAIN queue /\ queue'[k] = queue[k]) \/ queue'[k] = exited
      BY <2>1, AppendProperties DEF Send, QueueType
    <3>2. \A k \in DOMAIN queue : queue[k].kind # "Exited"
      BY <2>1 DEF ExitInv
    <3> QED
      BY <2>1, <2>3, <2>4, <2>5, <3>1, <3>2 DEF ExitInv
  <2> QED
    BY <2>7, <2>8, <2>9, <2>10, <2>11
<1> QED
  BY <1>3, <1>4, <1>5, <1>6, <1>7, <1>8, <1>9 DEF Drains

\* A child begins spawned, and alive if its start went well.
LEMMA InitSpawns ==
  Init => \E alive \in BOOLEAN, written \in 0 .. Rows, cut \in {"none", "line", "frame"} :
            /\ cut # "none" => ~alive /\ written < Rows
            /\ proc = Spawned(alive, written, cut)
            /\ (alive /\ drain.pc = "readers") \/ drain.pc = "never"
<1> SUFFICES ASSUME Init
             PROVE  \E alive \in BOOLEAN, written \in 0 .. Rows, cut \in {"none", "line", "frame"} :
                      /\ cut # "none" => ~alive /\ written < Rows
                      /\ proc = Spawned(alive, written, cut)
                      /\ (alive /\ drain.pc = "readers") \/ drain.pc = "never"
  OBVIOUS
<1>1. PICK ok \in BOOLEAN :
        /\ IF ok THEN proc = Spawned(TRUE, 0, "none")
           ELSE \E alive \in BOOLEAN, written \in 0 .. Rows, cut \in {"none", "line", "frame"} :
                  /\ cut # "none" => ~alive /\ written < Rows
                  /\ proc = Spawned(alive, written, cut)
        /\ drain = [pc |-> IF ok THEN "readers" ELSE "never", out_joined |-> FALSE,
                    err_joined |-> FALSE, error |-> FALSE, incomplete |-> FALSE]
  BY Zenon DEF Init
<1>2. CASE ok
  <2>1. 0 \in 0 .. Rows
    BY RowsNat
  <2>2. proc = Spawned(TRUE, 0, "none") /\ drain.pc = "readers"
    BY <1>1, <1>2
  <2> QED
    BY <2>1, <2>2
<1>3. CASE ~ok
  <2>1. drain.pc = "never"
    BY <1>1, <1>3
  <2>2. \E alive \in BOOLEAN, written \in 0 .. Rows, cut \in {"none", "line", "frame"} :
          (cut # "none" => ~alive /\ written < Rows) /\ proc = Spawned(alive, written, cut)
    BY <1>1, <1>3
  <2> QED
    BY <2>1, <2>2
<1> QED
  BY <1>2, <1>3

LEMMA StreamInit == Init => StreamInv
<1> SUFFICES ASSUME Init PROVE StreamInv
  OBVIOUS
<1>1. ProcType /\ ProcInv
  <2>1. PICK alive \in BOOLEAN, written \in 0 .. Rows, cut \in {"none", "line", "frame"} :
          (cut # "none" => ~alive /\ written < Rows) /\ proc = Spawned(alive, written, cut)
    BY InitSpawns
  <2>2. CASE alive = TRUE
    <3>1. proc = [alive |-> TRUE, closed |-> FALSE, code |-> "none",
                  written |-> written, cut |-> "none"]
      BY <2>1, <2>2 DEF Spawned
    <3> QED
      BY <3>1 DEF ProcType, ProcInv
  <2>3. CASE alive = FALSE
    <3>1. proc = [alive |-> FALSE, closed |-> TRUE, code |-> "other",
                  written |-> written, cut |-> cut]
      BY <2>1, <2>3 DEF Spawned
    <3> QED
      BY <2>1, <3>1 DEF ProcType, ProcInv
  <2> QED
    BY <2>2, <2>3
<1>2. OutType /\ OutInv
  BY <1>1, RowsNat DEF Init, OutType, OutInv, ProcType, Readable, Rows
<1>3. ErrType /\ DrainType /\ DrainInv /\ stopped \in BOOLEAN
  <2>1. PICK ok \in BOOLEAN :
          drain = [pc |-> IF ok THEN "readers" ELSE "never", out_joined |-> FALSE,
                   err_joined |-> FALSE, error |-> FALSE, incomplete |-> FALSE]
    BY Zenon DEF Init
  <2>2. DrainType /\ DrainInv
    BY <2>1 DEF DrainType, DrainInv
  <2> QED
    BY <2>2 DEF Init, ErrType
<1>4. QueueType /\ BudgetInv
  BY EmptySeq, ChargedEmpty, LogcatStreamAssumption DEF Init, QueueType, BudgetInv
<1>5. ExitInv
  BY EmptySeq DEF Init, ExitInv
<1> QED
  BY <1>1, <1>2, <1>3, <1>4, <1>5 DEF StreamInv, StreamType

LEMMA StreamSame == StreamInv /\ UNCHANGED vars => StreamInv'
<1> SUFFICES ASSUME StreamInv, UNCHANGED vars PROVE StreamInv'
  OBVIOUS
<1>1. UNCHANGED <<proc, out, err, drain, stopped, used, queue>>
  BY DEF vars
<1> QED
  BY <1>1 DEF StreamInv, StreamType, ProcType, OutType, ErrType, DrainType, QueueType, ProcInv,
              OutInv, DrainInv, ExitInv, BudgetInv, Readable, AtEnd, Bytes

\* The reader is never ahead of the process, what the drain worker has joined it
\* knows the failures of, and the permits that are held are those of the rows in
\* the channel and at the reader.
THEOREM StreamStaysSound == Spec => []StreamInv
<1>1. Init => StreamInv
  BY StreamInit
<1>2. StreamInv /\ [Next]_vars => StreamInv'
  <2> SUFFICES ASSUME StreamInv, [Next]_vars PROVE StreamInv'
    OBVIOUS
  <2>1. CASE Write \/ CloseOutput \/ Die \/ Stop
    BY <2>1, ProcessKeeps
  <2>2. CASE Output \/ FailOutput
    BY <2>2, OutKeeps
  <2>3. CASE Drains
    BY <2>3, DrainKeeps
  <2>4. CASE PollEvent
    BY <2>4, PollKeeps
  <2>5. CASE Diagnostics \/ Wakes \/ BeginFrame \/ EndFrame
    BY <2>5, OthersKeep
  <2>6. CASE UNCHANGED vars
    BY <2>6, StreamSame
  <2> QED
    BY <2>1, <2>2, <2>3, <2>4, <2>5, <2>6 DEF Next, Frames
<1> QED
  BY <1>1, <1>2, PTL DEF Spec

-------------------------------------------------------------------------------
(* An exit says what is missing.                                           *)

LEMMA StreamInvTells == StreamInv => ExitTellsWhatIsMissing
<1> SUFFICES ASSUME StreamInv PROVE ExitTellsWhatIsMissing
  OBVIOUS
<1> USE DEF StreamInv, StreamType
<1>1. ASSUME NEW k \in DOMAIN queue, queue[k].kind = "Exited"
      PROVE  /\ queue[k].clean => out.sent = Readable /\ proc.cut # "frame"
             /\ queue[k].incomplete => out.sent = proc.written /\ proc.cut = "frame"
  <2>1. drain.pc \in {"wake", "done"} /\ (queue[k].clean => ~drain.error)
        /\ (queue[k].incomplete => drain.incomplete)
    BY <1>1 DEF ExitInv
  <2>2. out.pc = "done" /\ out.read = out.sent /\ drain.out_joined
    BY <2>1 DEF DrainInv, OutInv
  <2>3. ASSUME queue[k].clean PROVE out.sent = Readable /\ proc.cut # "frame"
    BY <2>1, <2>2, <2>3 DEF DrainInv, OutInv, AtEnd
  <2>4. ASSUME queue[k].incomplete PROVE out.sent = proc.written /\ proc.cut = "frame"
    <3>1. out.failure = "cut" /\ AtEnd /\ proc.cut = "frame"
      BY <2>1, <2>2, <2>4 DEF DrainInv, OutInv
    <3> QED
      BY <2>2, <3>1 DEF AtEnd, Readable, ProcType
  <2> QED
    BY <2>3, <2>4
<1> QED
  BY <1>1 DEF ExitTellsWhatIsMissing, BudgetInv

\* A clean exit comes after every row the process wrote, one that is reported as
\* an incomplete frame after every row before it, and the budget counts what is
\* waiting, and no more than it may.
THEOREM ExitsTell == Spec => []ExitTellsWhatIsMissing
BY StreamStaysSound, StreamInvTells, PTL

-------------------------------------------------------------------------------
(* LogcatStream implements LogcatChild.                                    *)

\* The drain worker as LogcatChild sees it, and the child.
Duty(pc) ==
  CASE pc = "never" -> "none"
    [] pc \in {"readers", "child", "join", "exit"} -> "works"
    [] OTHER -> "done"

Seen ==
  [proc |-> IF proc.alive THEN "alive" ELSE "dead",
   reader |-> CASE out.pc = "begin" -> "new" [] out.pc = "done" -> "done" [] OTHER -> "open",
   lines |-> out.sent,
   drain |-> Duty(drain.pc)]

LEMMA SeenChild ==
  /\ AbsChild = [i \in {1} |-> Seen] /\ AbsChild[1] = Seen
  /\ [AbsChild EXCEPT ![1].proc = "dead"] = [i \in {1} |-> [Seen EXCEPT !.proc = "dead"]]
  /\ [AbsChild EXCEPT ![1].reader = "open"] = [i \in {1} |-> [Seen EXCEPT !.reader = "open"]]
  /\ [AbsChild EXCEPT ![1].reader = "done"] = [i \in {1} |-> [Seen EXCEPT !.reader = "done"]]
  /\ [AbsChild EXCEPT ![1].lines = @ + 1]
       = [i \in {1} |-> [Seen EXCEPT !.lines = Seen.lines + 1]]
  /\ [AbsChild EXCEPT ![1].drain = "done"] = [i \in {1} |-> [Seen EXCEPT !.drain = "done"]]
<1>1. AbsChild = [i \in {1} |-> Seen] /\ AbsChild[1] = Seen
  BY DEF AbsChild, Seen, Duty
<1> QED
  BY <1>1

LEMMA SeenNext == AbsChild' = [i \in {1} |-> Seen']
BY DEF AbsChild, Seen, Duty

\* An event that is sent is sent in the abstract channel, unless it is a Stderr.
LEMMA SendsTold ==
  ASSUME StreamType, NEW event \in Events, Send(event)
  PROVE  /\ event.kind = "Stderr" => UNCHANGED AbsQueue
         /\ event.kind # "Stderr" => Contract!Send(AbsEvent(event))
<1>1. queue \in Seq(Events) /\ Len(queue) < QueueCap /\ queue' = Append(queue, event)
      /\ QueueCap \in Nat
  BY LogcatStreamAssumption DEF StreamType, QueueType, Send
<1>2. AbsQueue = Told(queue) /\ AbsQueue' = Told(queue')
  BY DEF AbsQueue
<1>3. Len(AbsQueue) < QueueCap
  <2>1. Len(Told(queue)) <= Len(queue) /\ Len(Told(queue)) \in Nat
    BY <1>1, ToldLength
  <2> QED
    BY <1>1, <1>2, <2>1
<1>4. AbsQueue' = IF event.kind = "Stderr" THEN AbsQueue ELSE Append(AbsQueue, AbsEvent(event))
  BY <1>1, <1>2, ToldAppend
<1> QED
  BY <1>3, <1>4 DEF Contract!Send

LEMMA SameQueue == UNCHANGED queue => UNCHANGED AbsQueue
BY DEF AbsQueue

\* A step of the process, or one that kills it.
LEMMA ProcessImplements ==
  ASSUME UNCHANGED queue, Seen' = Seen \/ (Seen.proc = "alive" /\ Seen' = [Seen EXCEPT !.proc = "dead"])
  PROVE  Contract!Die(1) \/ UNCHANGED <<AbsChild, AbsQueue>>
BY SeenChild, SeenNext, SameQueue DEF Contract!Die

LEMMA EndedSeen ==
  ASSUME ProcType, proc.alive, NEW code \in {"zero", "other"}, Ended(code),
         out'.pc = out.pc, out'.sent = out.sent,
         Duty(drain'.pc) = Duty(drain.pc)
  PROVE  Seen.proc = "alive" /\ Seen' = [Seen EXCEPT !.proc = "dead"]
<1>1. proc'.alive = FALSE
  BY DEF Ended, ProcType
<1> QED
  BY <1>1 DEF Seen

LEMMA ProcessSeen ==
  ASSUME StreamInv, Write \/ CloseOutput \/ Die \/ Stop
  PROVE  Contract!Die(1) \/ UNCHANGED <<AbsChild, AbsQueue>>
<1>1. UNCHANGED <<out, drain, queue>> /\ ProcType
  BY DEF Write, CloseOutput, Die, Stop, StreamInv, StreamType
<1>2. CASE Write \/ CloseOutput \/ UNCHANGED proc
  <2>1. proc'.alive = proc.alive
    BY <1>1, <1>2 DEF Write, CloseOutput, ProcType
  <2> QED
    BY <1>1, <2>1, ProcessImplements DEF Seen
<1>3. CASE proc.alive /\ \E code \in {"zero", "other"} : Ended(code)
  BY <1>1, <1>3, EndedSeen, ProcessImplements
<1> QED
  BY <1>2, <1>3 DEF Die, Stop

LEMMA OutSeen ==
  ASSUME StreamInv, Output \/ FailOutput
  PROVE  Contract!ChildStep(1) \/ UNCHANGED <<AbsChild, AbsQueue>>
<1> USE DEF StreamInv, StreamType
<1>1. UNCHANGED <<proc, drain>>
  BY DEF Output, FailOutput, SendStarted, WakeStarted, ReadRow, Reserve, SendEntry, NotifyEntry,
         EndOutput, DropTimer, OutStep
<1>2. CASE SendStarted
  <2>1. out.pc = "begin" /\ Send(Event("Started")) /\ out' = [out EXCEPT !.pc = "wake"]
    BY <1>2 DEF SendStarted, OutStep
  <2>2. AbsEvent(Event("Started")) = Contract!StartedEvent(1)
    BY DEF AbsEvent, Event, Contract!StartedEvent
  <2>3. Contract!Send(Contract!StartedEvent(1))
    BY <2>1, <2>2, SendsTold, PlainEvent
  <2>4. Seen.reader = "new" /\ Seen' = [Seen EXCEPT !.reader = "open"]
    BY <1>1, <2>1 DEF Seen, OutType
  <2>5. Contract!SendStarted(1)
    BY <2>3, <2>4, SeenChild, SeenNext DEF Contract!SendStarted
  <2> QED
    BY <2>5 DEF Contract!ChildStep
<1>3. CASE WakeStarted \/ ReadRow \/ Reserve \/ NotifyEntry \/ EndOutput \/ FailOutput
  <2>1. UNCHANGED queue
    BY <1>3 DEF WakeStarted, ReadRow, Reserve, NotifyEntry, EndOutput, FailOutput
  <2>2. /\ out.pc \notin {"begin", "done"} /\ out'.pc \notin {"begin", "done"}
        /\ out'.sent = out.sent
    BY <1>3 DEF WakeStarted, ReadRow, Reserve, NotifyEntry, EndOutput, FailOutput, OutStep, OutType
  <2>3. Seen' = Seen
    BY <1>1, <2>2 DEF Seen
  <2> QED
    BY <2>1, <2>3, SeenChild, SeenNext, SameQueue
<1>4. CASE SendEntry
  <2> DEFINE entry == [kind |-> "Entry", bytes |-> Bytes(out.read), row |-> out.read]
  <2>1. /\ out.pc = "send" /\ out' = [out EXCEPT !.pc = "notify", !.sent = @ + 1]
        /\ Send(entry)
    BY <1>4 DEF SendEntry, OutStep
  <2>2. Bytes(out.read) \in 1 .. QUEUE_BYTES /\ out.read \in 1 .. Rows
        /\ out.read = out.sent + 1 /\ out.sent \in Nat
    BY <2>1, RowBytes DEF OutInv, OutType
  <2>3. entry \in Events /\ entry.kind = "Entry"
        /\ AbsEvent(entry) = Contract!EntryEvent(1, out.sent + 1)
    BY <2>2, RowsNat, LogcatStreamAssumption
       DEF Events, PlainEvents, AbsEvent, Contract!EntryEvent
  <2> HIDE DEF entry
  <2>4. Contract!Send(Contract!EntryEvent(1, out.sent + 1))
    BY <2>1, <2>3, SendsTold
  <2>5. Seen.reader = "open" /\ Seen.lines = out.sent /\ Seen.lines < Rows
    BY <2>1, <2>2, RowsNat DEF Seen
  <2>6. Seen' = [Seen EXCEPT !.lines = Seen.lines + 1]
    BY <1>1, <2>1 DEF Seen, OutType
  <2>7. Contract!SendEntry(1)
    BY <2>4, <2>5, <2>6, SeenChild, SeenNext DEF Contract!SendEntry
  <2> QED
    BY <2>7 DEF Contract!ChildStep
<1>5. CASE DropTimer
  <2>1. out.pc = "drop" /\ out' = [out EXCEPT !.pc = "done"] /\ UNCHANGED queue
    BY <1>5 DEF DropTimer, OutStep
  <2>2. Seen.reader = "open" /\ Seen' = [Seen EXCEPT !.reader = "done"]
    BY <1>1, <2>1 DEF Seen, OutType
  <2>3. Contract!EndReader(1)
    BY <2>1, <2>2, SeenChild, SeenNext, SameQueue DEF Contract!EndReader
  <2> QED
    BY <2>3 DEF Contract!ChildStep
<1> QED
  BY <1>2, <1>3, <1>4, <1>5 DEF Output

LEMMA DrainSeen ==
  ASSUME StreamInv, Drains
  PROVE  Contract!ChildStep(1) \/ UNCHANGED <<AbsChild, AbsQueue>>
<1> USE DEF StreamInv, StreamType
<1>1. UNCHANGED out /\ Knows(drain)
  BY DEF Drains, LookAtReaders, Reaped, StillAlive, OutputOverdue, StillAliveAfterKill, Join,
         SendExited, WakeExited, Goes, DrainStep, DrainInv, DrainType, Knows
<1>2. ASSUME LookAtReaders \/ Reaped \/ StillAliveAfterKill \/ Join \/ WakeExited
      PROVE  UNCHANGED <<AbsChild, AbsQueue>>
  <2>1. UNCHANGED <<proc, queue>>
    BY <1>2 DEF LookAtReaders, Reaped, StillAliveAfterKill, Join, WakeExited
  <2>2. Duty(drain'.pc) = Duty(drain.pc)
    <3>1. CASE LookAtReaders
      <4> DEFINE first == IF out.pc = "done" /\ ~drain.out_joined THEN OutJoined(drain) ELSE drain
                 second == IF err.pc = "done" /\ ~drain.err_joined THEN ErrJoined(first) ELSE first
      <4>1. drain' = [second EXCEPT !.pc = "child"] /\ drain.pc = "readers"
        BY <3>1 DEF LookAtReaders, DrainStep
      <4>2. Knows(first)
        BY <1>1, Recording
      <4> HIDE DEF first
      <4>3. Knows(second)
        BY <4>2, Recording
      <4> HIDE DEF second
      <4> QED
        BY <4>1, <4>3 DEF Knows, Duty
    <3>2. CASE Join
      <4> DEFINE first == IF drain.out_joined THEN drain ELSE OutJoined(drain)
                 second == IF drain.err_joined THEN first ELSE ErrJoined(first)
      <4>1. drain' = [second EXCEPT !.pc = "exit"] /\ drain.pc = "join" /\ out.pc = "done"
        BY <3>2 DEF Join, DrainStep
      <4>2. Knows(first)
        BY <1>1, <4>1, Recording
      <4> HIDE DEF first
      <4>3. Knows(second)
        BY <4>2, Recording
      <4> HIDE DEF second
      <4> QED
        BY <4>1, <4>3 DEF Knows, Duty
    <3>3. CASE Reaped \/ WakeExited
      BY <1>1, <3>3 DEF Reaped, WakeExited, DrainStep, Knows, Duty
    <3>4. CASE StillAliveAfterKill
      <4>1. Knows(Faulty(drain))
        BY <1>1, Recording
      <4>2. drain' = [Faulty(drain) EXCEPT !.pc = "readers"] /\ drain.pc = "child"
        BY <3>4 DEF StillAliveAfterKill, DrainStep
      <4> QED
        BY <4>1, <4>2 DEF Knows, Duty
    <3> QED
      BY <1>2, <3>1, <3>2, <3>3, <3>4
  <2>3. Seen' = Seen
    BY <1>1, <2>1, <2>2 DEF Seen
  <2> QED
    BY <2>1, <2>3, SeenChild, SeenNext, SameQueue
<1>3. ASSUME NEW d, Knows(d), drain.pc = "child", Goes(d)
      PROVE  Contract!Die(1) \/ UNCHANGED <<AbsChild, AbsQueue>>
  <2>1. drain' = [d EXCEPT !.pc = "readers"] /\ UNCHANGED queue
    BY <1>3 DEF Goes, DrainStep
  <2>2. Duty(drain'.pc) = Duty(drain.pc)
    BY <1>3, <2>1 DEF Knows, Duty
  <2>3. CASE UNCHANGED proc
    BY <1>1, <1>3, <2>1, <2>2, <2>3, ProcessImplements DEF Seen
  <2>4. CASE proc.alive /\ Ended("other")
    BY <1>1, <1>3, <2>1, <2>2, <2>4, EndedSeen, ProcessImplements
  <2> QED
    BY <1>3, <2>3, <2>4 DEF Goes
<1>4. CASE StillAlive \/ OutputOverdue
  <2>1. Knows(Faulty(drain))
    BY <1>1, Recording
  <2>2. drain.pc = "child" /\ (Goes(drain) \/ Goes(Faulty(drain)))
    BY <1>4 DEF StillAlive, OutputOverdue
  <2> QED
    BY <1>1, <1>3, <2>1, <2>2 DEF Contract!ChildStep
<1>5. CASE SendExited
  <2> DEFINE exited == [kind |-> "Exited", bytes |-> 0, row |-> 0,
                        clean |-> proc.code = "zero" /\ ~drain.error,
                        incomplete |-> drain.incomplete]
  <2>1. drain' = [drain EXCEPT !.pc = "wake"] /\ drain.pc = "exit" /\ Send(exited)
        /\ UNCHANGED proc
    BY <1>5 DEF SendExited, DrainStep
  <2>2. exited \in Events /\ exited.kind = "Exited" /\ exited.clean \in BOOLEAN
        /\ AbsEvent(exited) = Contract!ExitedEvent(1, exited.clean)
    BY DEF Events, ExitedEvents, DrainType, AbsEvent, Contract!ExitedEvent
  <2> HIDE DEF exited
  <2>3. \E clean \in BOOLEAN : Contract!Send(Contract!ExitedEvent(1, clean))
    BY <2>1, <2>2, SendsTold
  <2>4. Seen.drain = "works" /\ Seen.proc = "dead" /\ Seen.reader = "done"
    BY <2>1 DEF Seen, DrainInv, Duty
  <2>5. Seen' = [Seen EXCEPT !.drain = "done"]
    <3>1. drain'.pc = "wake"
      BY <2>1 DEF DrainType
    <3>2. /\ Seen'.drain = "done" /\ Seen'.proc = Seen.proc /\ Seen'.reader = Seen.reader
          /\ Seen'.lines = Seen.lines
      BY <1>1, <2>1, <3>1 DEF Seen, Duty
    <3>3. Seen' = [proc |-> Seen'.proc, reader |-> Seen'.reader, lines |-> Seen'.lines,
                   drain |-> Seen'.drain]
      BY DEF Seen
    <3>4. Seen = [proc |-> Seen.proc, reader |-> Seen.reader, lines |-> Seen.lines,
                  drain |-> Seen.drain]
      BY DEF Seen
    <3>5. \A p, r, l, d, e :
            [[proc |-> p, reader |-> r, lines |-> l, drain |-> d] EXCEPT !.drain = e]
              = [proc |-> p, reader |-> r, lines |-> l, drain |-> e]
      OBVIOUS
    <3> QED
      BY <3>2, <3>3, <3>4, <3>5
  <2>6. Contract!Reap(1)
    BY <2>3, <2>4, <2>5, SeenChild, SeenNext DEF Contract!Reap
  <2> QED
    BY <2>6 DEF Contract!ChildStep
<1> QED
  BY <1>2, <1>4, <1>5 DEF Drains

LEMMA PollSeen ==
  ASSUME StreamInv, PollEvent
  PROVE  Received \/ UNCHANGED <<AbsChild, AbsQueue>>
<1>1. /\ UNCHANGED <<proc, out, drain>> /\ queue \in Seq(Events)
      /\ queue # <<>> /\ queue' = Tail(queue)
  BY DEF PollEvent, Polled, UiStep, StreamInv, StreamType, QueueType
<1>2. UNCHANGED AbsChild
  BY <1>1 DEF AbsChild
<1>3. AbsQueue = Told(queue) /\ AbsQueue' = Told(Tail(queue))
  BY <1>1 DEF AbsQueue
<1> QED
  BY <1>1, <1>2, <1>3, ToldHead DEF Received

LEMMA OthersSeen ==
  ASSUME StreamInv, Diagnostics \/ Wakes \/ BeginFrame \/ EndFrame
  PROVE  UNCHANGED <<AbsChild, AbsQueue>>
<1>1. UNCHANGED <<proc, out, drain>>
  BY DEF Diagnostics, SendDiagnostic, EndDiagnostics, Wakes, Look, Expire, Fire, TimerStep,
         BeginFrame, EndFrame, UiStep
<1>2. ASSUME SendDiagnostic PROVE UNCHANGED AbsQueue
  BY <1>2, SendsTold, PlainEvent DEF SendDiagnostic, StreamInv
<1>3. SendDiagnostic \/ UNCHANGED queue
  BY DEF Diagnostics, EndDiagnostics, Wakes, Look, Expire, Fire, TimerStep, BeginFrame, EndFrame,
         UiStep
<1>4. UNCHANGED AbsQueue
  BY <1>2, <1>3, SameQueue
<1> QED
  BY <1>1, <1>4 DEF AbsChild

\* Every step of a child, of its threads and of its consumer is one that LogcatChild
\* allows, or none: Started is first, rows follow in order, Exited comes last, of a
\* process that is dead and a reader that is done.
THEOREM StreamImplementsChild == Spec => ChildContract
<1>1. StreamInv /\ [Next]_vars
        => [Contract!ChildStep(1) \/ Received]_<<AbsChild, AbsQueue>>
  <2> SUFFICES ASSUME StreamInv, [Next]_vars
               PROVE  Contract!ChildStep(1) \/ Received \/ UNCHANGED <<AbsChild, AbsQueue>>
    OBVIOUS
  <2>1. CASE Write \/ CloseOutput \/ Die \/ Stop
    BY <2>1, ProcessSeen DEF Contract!ChildStep
  <2>2. CASE Output \/ FailOutput
    BY <2>2, OutSeen
  <2>3. CASE Drains
    BY <2>3, DrainSeen
  <2>4. CASE PollEvent
    BY <2>4, PollSeen
  <2>5. CASE Diagnostics \/ Wakes \/ BeginFrame \/ EndFrame
    BY <2>5, OthersSeen
  <2>6. CASE UNCHANGED vars
    BY <2>6, SameQueue DEF vars, AbsChild
  <2> QED
    BY <2>1, <2>2, <2>3, <2>4, <2>5, <2>6 DEF Next, Frames
<1> QED
  BY <1>1, StreamStaysSound, PTL DEF Spec, ChildContract

\* A child begins with nothing sent and as LogcatChild says one does whose start went
\* well, or whose drain worker could not be created, with the process killed or, where
\* that fails too, alive and never reaped (start_logcat_with_scope, kill_and_reap).
THEOREM StreamStartsAsChild ==
  Init => /\ AbsChild \in {[i \in {1} |-> Contract!ChildOf(outcome)] :
                            outcome \in {"ok", "orphaned", "abandoned"}}
          /\ AbsQueue = <<>>
<1> SUFFICES ASSUME Init
             PROVE  /\ \E outcome \in {"ok", "orphaned", "abandoned"} :
                         Seen = Contract!ChildOf(outcome)
                    /\ AbsQueue = <<>>
  BY SeenChild
<1>1. /\ drain.pc \in {"readers", "never"} /\ proc.alive \in BOOLEAN
      /\ drain.pc = "readers" => proc.alive
  BY InitSpawns DEF Spawned
<1>2. out.pc = "begin" /\ out.sent = 0
  BY DEF Init
<1>3. PICK d \in {"works", "none"} :
        /\ d = "works" <=> drain.pc = "readers"
        /\ Seen = [proc |-> IF proc.alive THEN "alive" ELSE "dead", reader |-> "new",
                   lines |-> 0, drain |-> d]
  BY <1>1, <1>2 DEF Seen, Duty
<1>4. Seen = Contract!ChildOf(IF drain.pc = "readers" THEN "ok"
                              ELSE IF proc.alive THEN "abandoned" ELSE "orphaned")
  BY <1>1, <1>3 DEF Contract!ChildOf, Contract!Spawned
<1> QED
  BY <1>4, ToldEmpty DEF Init, AbsQueue
===============================================================================
