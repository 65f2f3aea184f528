----------------------------- MODULE QueryPaging ------------------------------
(***************************************************************************)
(* The commands query, get and context (src/src/cli/query.rs) over a       *)
(* source that changes under them (QuerySource).  A query returns a page   *)
(* and a signed cursor for the next one, and signed references to its      *)
(* records; the user keeps the latest he cares for and comes back later.   *)
(*                                                                         *)
(* A step is one look at the directory: reading the status, opening the    *)
(* file, scanning a page, checking that it still holds.  The scan itself   *)
(* is one step: what is below the fence is only ever cut.                  *)
(*                                                                         *)
(* The budgets for records, bytes and the response end a page anywhere     *)
(* after its first line; they are not counted.  A filter selects all       *)
(* records or those received since the command began (--since 0s).  Left   *)
(* out: the layout of responses and previews, malformed flags and tokens,  *)
(* records without a time, the first sequence number in footers, and the   *)
(* text and JSON Lines formats, which are printed while the page is        *)
(* scanned and checked afterwards: there the exit code says it failed.     *)
(***************************************************************************)
EXTENDS QuerySource

CONSTANTS
  Clients,      \* processes that run commands
  Requests,     \* of the model: what they may ask
  Limit,        \* --limit: records on a page
  Around,       \* --before and --after
  MaxCommands   \* of the model: commands run

ASSUME QueryPagingAssumption ==
  /\ Limit \in Nat \ {0}
  /\ {Around, MaxCommands} \subseteq Nat

VARIABLES
  key,       \* query.key: who made it, at most one
  cmd,       \* of each client: the command it runs
  held,      \* the cursor and the reference the user kept, at most one each
  commands   \* of the model: commands begun

vars == <<sourceVars, key, cmd, held, commands>>

\* Flags of a command.  The ones a command does not have are off.
Request(command, session, mode, from_end, all, filter, resume) ==
  [command |-> command, session |-> session, mode |-> mode, from_end |-> from_end,
   all |-> all, filter |-> filter, resume |-> resume]

\* What run and QueryState::open refuse before they look at the source.
Valid(r) ==
  /\ r.mode = "tail" => r.session /\ ~r.all
  /\ r.from_end => r.mode = "tail" /\ ~r.resume
  /\ r.command # "query" => r.resume /\ ~r.all /\ r.mode = "snapshot"

\* QueryFilter: the bounds of a time filter are fixed with the anchor.
Predicate(filter, anchor) ==
  [filter |-> filter, since |-> IF filter = "recent" THEN anchor ELSE 0]

Matches(predicate, line) == line.kind = "record" /\ line.seq >= predicate.since

Selected(predicate, lines) ==
  Picked(lines, {i \in DOMAIN lines : Matches(predicate, lines[i])})

\* A new command knows nothing yet.  cursor and reference hold at most one;
\* rows, page and the flags are what its response will say.
Command(pc, r) ==
  [pc |-> pc, request |-> r, key |-> {}, predicate |-> Predicate("any", 0),
   read |-> status, source |-> NoSource, cursor |-> {}, reference |-> {},
   page |-> 0, rows |-> <<>>, more_before |-> FALSE, more_after |-> FALSE, error |-> "none"]

AnyRequest == Request("query", TRUE, "snapshot", FALSE, FALSE, "any", FALSE)
Idle(error) ==
  [Command("idle", AnyRequest) EXCEPT !.error = error, !.read = StatusOf("recorded", <<>>, FALSE)]

Init ==
  /\ SourceInit
  /\ key = {}
  /\ cmd = [c \in Clients |-> Idle("none")]
  /\ held = [cursor |-> {}, reference |-> {}]
  /\ commands = 0

Continues(c, new) == cmd' = [cmd EXCEPT ![c] = new]
Fails(c, error) == Continues(c, Idle(error))
At(c, pc) == cmd[c].pc = pc

Only(x) == CHOOSE y \in x : TRUE

-------------------------------------------------------------------------------
(* Before the source is opened                                             *)

Begin(c) ==
  /\ At(c, "idle")
  /\ commands < MaxCommands /\ commands' = commands + 1
  /\ \E r \in Requests :
       /\ Valid(r)
       /\ r.resume => IF r.command = "query" THEN held.cursor # {} ELSE held.reference # {}
       /\ Continues(c, [Command("key", r) EXCEPT
            !.cursor = IF r.resume /\ r.command = "query" THEN held.cursor ELSE {},
            !.reference = IF r.command = "query" THEN {} ELSE held.reference])
  /\ UNCHANGED <<sourceVars, key, held>>

\* Signer::load: the key that is there, or one to put there.
LoadKey(c) ==
  /\ At(c, "key")
  /\ Continues(c, IF key # {} THEN [cmd[c] EXCEPT !.key = key, !.pc = "status"]
                  ELSE [cmd[c] EXCEPT !.pc = "link"])
  /\ UNCHANGED <<sourceVars, key, held, commands>>

\* Mutant: a process goes on with the key it made, whoever published first.
LinkOwnKey(c) ==
  /\ At(c, "link")
  /\ key' = IF key = {} THEN {c} ELSE key
  /\ Continues(c, [cmd[c] EXCEPT !.key = {c}, !.pc = "status"])
  /\ UNCHANGED <<sourceVars, held, commands>>

\* The first link wins, and everyone reads the file after that.
LinkKey(c) ==
  /\ At(c, "link")
  /\ key' = IF key = {} THEN {c} ELSE key
  /\ Continues(c, [cmd[c] EXCEPT !.key = key', !.pc = "status"])
  /\ UNCHANGED <<sourceVars, held, commands>>

\* Mutant: a relative bound starts anew with every page.
AnchorNow(cursor) == Now

\* The time a relative bound counts from: the first command's for a chain.
TimeAnchor(cursor) ==
  IF \E k \in cursor : k.predicate.filter = "recent"
  THEN (CHOOSE k \in cursor : TRUE).predicate.since ELSE Now

\* signer.open
Verifies(token, k) == token.key = k

\* The signature, what must agree with the cursor, and reading the status.
ReadStatus(c) ==
  /\ At(c, "status")
  /\ LET r == cmd[c].request
         predicate == Predicate(r.filter, TimeAnchor(cmd[c].cursor))
     IN IF \E t \in cmd[c].cursor \cup cmd[c].reference : ~Verifies(t, cmd[c].key)
        THEN Fails(c, "invalid_token")
        ELSE IF \E k \in cmd[c].cursor : k.mode # r.mode \/ k.predicate # predicate
          THEN Fails(c, "cursor_mismatch")
          ELSE Continues(c, [cmd[c] EXCEPT !.predicate = predicate, !.read = Effective,
                                           !.pc = "open"])
  /\ UNCHANGED <<sourceVars, key, held, commands>>

\* A process elsewhere, the application's other commands, publishes its key first.
OtherLinksKey ==
  /\ key = {} /\ key' = {"other"}
  /\ UNCHANGED <<sourceVars, cmd, held, commands>>

-------------------------------------------------------------------------------
(* Opening                                                                 *)

FinalizedFromStart(r, s) == r.from_end /\ EndStart(s).footer

\* A first cursor, at the beginning or at the end.  from and seen are of the
\* model: where its chain began, and all the records it returned.
NewCursor(c, s) ==
  LET r == cmd[c].request
      offset == IF r.from_end THEN s.upper.offset ELSE Start
  IN [key |-> cmd[c].key, binding |-> Binding(s), mode |-> r.mode,
      predicate |-> cmd[c].predicate,
      upper |-> s.upper, upper_anchor |-> Anchor(s, s.upper.offset),
      offset |-> offset, last |-> IF r.from_end THEN s.upper.seq ELSE 0, count |-> 0,
      finalized |-> FinalizedFromStart(r, s), anchor |-> Anchor(s, offset),
      skipped |-> IF r.from_end THEN {EndStart(s).count} ELSE {},
      from |-> offset, seen |-> <<>>]

\* A cursor from an earlier page: only a tail moves on to what is published now.
Resumed(k, s) ==
  IF k.mode = "tail"
  THEN [k EXCEPT !.upper = s.upper, !.upper_anchor = Anchor(s, s.upper.offset)]
  ELSE k

\* Whether the source is still the one the cursor knows.
Fits(k, s) ==
  LET pinned == Pinned(s, k.upper)
  IN /\ Pinnable(s, k.upper)
     /\ Anchored(pinned, k.upper_anchor) /\ Anchored(pinned, k.anchor)
     /\ k.offset \in Start .. k.upper.offset
     /\ k.mode = "tail" /\ k.finalized => k.upper = s.upper

\* reference_row
Refers(t, s) ==
  LET pinned == Pinned(s, t.upper)
  IN /\ Pinnable(s, t.upper)
     /\ t.offset \in Start .. t.upper.offset - 1
     /\ LineAt(pinned, t.offset) = t.line
     /\ IsRow(pinned, t.line, 0)

\* Source::open and what QueryState::open, scan_page, get and context do with it
\* before they read on.
OpenSource(c) ==
  /\ At(c, "open")
  /\ LET command == cmd[c]
         o == Opened(command.request.session, command.read,
                     {t.binding : t \in command.cursor \cup command.reference})
         s == o.source
         Scans(source, cursor) ==
           Continues(c, [command EXCEPT !.source = source, !.cursor = cursor, !.pc = "scan"])
     IN IF o.error # "none" THEN Fails(c, o.error)
        ELSE IF command.reference # {}
          THEN IF Refers(Only(command.reference), s)
               THEN Scans(Pinned(s, Only(command.reference).upper), {})
               ELSE Fails(c, "stale")
        ELSE IF command.cursor # {}
          THEN LET k == Only(command.cursor) IN
               IF ~Fits(k, s) THEN Fails(c, "stale")
               ELSE Scans(Pinned(s, Resumed(k, s).upper), {Resumed(k, s)})
        ELSE IF command.request.from_end /\ ~EndStart(s).agrees THEN Fails(c, "invalid")
        ELSE Scans(s, {NewCursor(c, s)})
  /\ UNCHANGED <<sourceVars, key, held, commands>>

-------------------------------------------------------------------------------
(* Scanning                                                                *)

\* The footer counts what the cursor scanned and what its tail skipped.
IsEnd(k, s, i) ==
  LET line == LineAt(s, k.offset + i)
      skipped == IF k.skipped = {} THEN 0 ELSE Only(k.skipped)
      last == IF i = 0 THEN k.last ELSE LineAt(s, k.offset + i - 1).seq
  IN /\ line.kind = "end"
     /\ k.offset + i + 1 = k.upper.offset
     /\ line.count = k.count + i + skipped
     /\ line.seq = last

\* The n lines from the cursor on can be read.
Scannable(k, s, n) ==
  \A i \in 0 .. n - 1 :
    \/ IsRow(s, LineAt(s, k.offset + i),
             IF i = 0 THEN k.last ELSE LineAt(s, k.offset + i - 1).seq)
    \/ IsEnd(k, s, i)

Lines(s, offset, n) == [i \in 1 .. n |-> LineAt(s, offset + i - 1)]

\* Mutant: the line read when the page was full already is passed as well.
AdvancedPast(k, s, n) ==
  LET lines == Lines(s, k.offset, AtMost(n + 1, k.upper.offset - k.offset)) IN
  [k EXCEPT !.offset = k.offset + Len(lines),
            !.last = IF Records(lines) = <<>> THEN k.last ELSE LastSeq(lines),
            !.count = k.count + Len(Records(lines)),
            !.finalized = k.finalized \/ (lines # <<>> /\ lines[Len(lines)].kind = "end"),
            !.anchor = Anchor(s, k.offset + Len(lines)),
            !.seen = k.seen \o Selected(k.predicate, Lines(s, k.offset, n))]

\* The cursor after n lines.
Advanced(k, s, n) ==
  LET lines == Lines(s, k.offset, n) IN
  [k EXCEPT !.offset = k.offset + n,
            !.last = IF Records(lines) = <<>> THEN k.last ELSE LastSeq(lines),
            !.count = k.count + Len(Records(lines)),
            !.finalized = k.finalized \/ (n > 0 /\ lines[n].kind = "end"),
            !.anchor = Anchor(s, k.offset + n),
            !.seen = k.seen \o Selected(k.predicate, lines)]

\* Reaching the boundary, the cursor has counted what the status published.
Agrees(k, s) ==
  k.offset = k.upper.offset =>
    /\ k.last = k.upper.seq
    /\ \A skipped \in k.skipped : skipped + k.count = s.published

\* A page: the lines up to a budget, or up to the record that fills it.
ScanPage(c) ==
  /\ At(c, "scan") /\ cmd[c].cursor # {}
  /\ LET k == Only(cmd[c].cursor)
         s == cmd[c].source
         left == k.upper.offset - k.offset
         HasRoom(n) == Len(Selected(k.predicate, Lines(s, k.offset, n))) < Limit
     IN \/ \E n \in (IF left = 0 THEN {0} ELSE 1 .. left) :
             /\ Scannable(k, s, n)
             /\ n > 0 => HasRoom(n - 1)
             /\ LET next == Advanced(k, s, n) IN
                IF Agrees(next, s)
                THEN Continues(c, [cmd[c] EXCEPT !.cursor = {next}, !.page = k.offset,
                                                 !.rows = next.seen, !.pc = "check"])
                ELSE Fails(c, "invalid")
        \/ /\ \E n \in 1 .. left : HasRoom(n - 1) /\ Scannable(k, s, n - 1) /\ ~Scannable(k, s, n)
           /\ Fails(c, "invalid")
  /\ UNCHANGED <<sourceVars, key, held, commands>>

\* get returns the one record.
ScanGet(c) ==
  /\ At(c, "scan") /\ cmd[c].request.command = "get"
  /\ LET t == Only(cmd[c].reference) IN
     Continues(c, [cmd[c] EXCEPT !.rows = <<t.line>>, !.pc = "check"])
  /\ UNCHANGED <<sourceVars, key, held, commands>>

\* partial_before
MoreBefore(before, position) == before < Around /\ position > Start

\* The records before it and those after it, each as far as a budget goes.  The
\* footer is the end when it is read.
ScanContext(c) ==
  /\ At(c, "scan") /\ cmd[c].request.command = "context"
  /\ LET t == Only(cmd[c].reference)
         s == cmd[c].source
         Row(offset) == LineAt(s, offset)
         Footer(offset) == offset = t.upper.offset - 1 /\ Row(offset).kind = "end"
     IN \E before \in 0 .. AtMost(Around, t.offset - Start),
           after \in 0 .. AtMost(Around, t.upper.offset - t.offset - 1),
           reads_footer \in BOOLEAN :
          LET first == t.offset - before
              last == t.offset + after
              ended == reads_footer /\ Footer(last + 1) /\ after < Around
          IN IF \A i \in first .. last : IsRow(s, Row(i), IF i = first THEN 0 ELSE Row(i - 1).seq)
             THEN Continues(c, [cmd[c] EXCEPT
                    !.rows = Lines(s, first, before + after + 1),
                    !.more_before = MoreBefore(before, first),
                    !.more_after = after < Around /\ last + 1 < t.upper.offset /\ ~ended,
                    !.pc = "check"])
             ELSE ~Footer(last) /\ Fails(c, "invalid")
  /\ UNCHANGED <<sourceVars, key, held, commands>>

-------------------------------------------------------------------------------
(* Answering                                                               *)

Upper(command) ==
  IF command.cursor # {} THEN Only(command.cursor).upper ELSE Only(command.reference).upper

\* summary: a reference to a record of the page
References(command) ==
  {[key |-> command.key, binding |-> Binding(command.source), upper |-> Upper(command),
    offset |-> offset, line |-> LineAt(command.source, offset)] :
     offset \in {o \in command.page .. Only(command.cursor).offset - 1 :
                   Matches(command.predicate, LineAt(command.source, o))}}

\* The user keeps the new tokens, or the ones he had.
Keeps(command) ==
  \/ UNCHANGED held
  \/ /\ command.cursor # {}
     /\ \E t \in {{}} \cup {{r} : r \in References(command)} :
          held' = [cursor |-> command.cursor, reference |-> t]

\* --all goes on to the next page before it answers.
GoesOn(command) ==
  /\ command.request.all
  /\ \E k \in command.cursor : k.offset < k.upper.offset

Check(c) ==
  /\ At(c, "check")
  /\ LET command == cmd[c] IN
     IF ~Current(command.source, Upper(command))
     THEN Fails(c, "stale") /\ UNCHANGED held
     ELSE IF GoesOn(command)
       THEN Continues(c, [command EXCEPT !.pc = "status"]) /\ UNCHANGED held
       ELSE Continues(c, Idle("none")) /\ Keeps(command)
  /\ UNCHANGED <<sourceVars, key, commands>>

-------------------------------------------------------------------------------
Step(c) ==
  \/ Begin(c) \/ LoadKey(c) \/ LinkKey(c) \/ ReadStatus(c)
  \/ OpenSource(c) \/ ScanPage(c) \/ ScanGet(c) \/ ScanContext(c) \/ Check(c)

\* Files that are open keep their identity.
OpenFiles == {cmd[c].source.id : c \in Clients}

Next ==
  \/ \E c \in Clients : Step(c)
  \/ OtherLinksKey
  \/ Surroundings(OpenFiles) /\ UNCHANGED <<key, cmd, held, commands>>

Spec == Init /\ [][Next]_vars

-------------------------------------------------------------------------------
(* Properties *)

\* Every cursor there is: the user's, and those of running commands.
Cursors == held.cursor \cup UNION {cmd[c].cursor : c \in Clients}

\* The pages of a chain of cursors hold, together, exactly the records its
\* filter selects of what the session wrote between the beginning of the chain
\* and the cursor: none is missed, repeated or foreign, whatever was appended,
\* cut or replaced between two pages, and the filter's time does not drift
\* (QueryState::open, scan_page).  A chain that reports the end of the artifact
\* has seen the footer and counts every record before it.  The records around a
\* reference are the ones next to it in the session, and fewer than asked only if
\* there are no more or the answer says so (context).
AnswersAreExact ==
  /\ \A k \in Cursors :
       LET lines == history[k.binding.artifact]
           passed == SubSeq(lines, k.from + 1, k.offset)
       IN /\ k.seen = Selected(k.predicate, passed)
          /\ k.finalized =>
               /\ k.offset = Len(lines) /\ lines[k.offset].kind = "end"
               /\ k.count = Len(Records(passed))
  /\ \A c \in Clients :
       At(c, "check") /\ cmd[c].request.command = "context" =>
         LET t == Only(cmd[c].reference)
             lines == SubSeq(history[t.binding.artifact], 1, t.upper.offset)
             rows == cmd[c].rows
         IN \E first \in 1 .. t.offset + 1 :
              LET last == first + Len(rows) - 1 IN
              /\ t.offset + 1 <= last /\ rows = SubSeq(lines, first, last)
              /\ ~cmd[c].more_before => t.offset + 1 - first = Around \/ first = Start + 1
              /\ ~cmd[c].more_after =>
                   last - t.offset - 1 = Around \/ Records(SubSeq(lines, last + 1, Len(lines))) = <<>>

\* What was frozen by a closure is final for readers: an answer given after it
\* holds no later record, not even one that was published and read before
\* (check_current).
NothingAfterClosure ==
  [][\A c \in Clients :
       At(c, "check") /\ cmd'[c].pc = "idle" /\ cmd'[c].error = "none"
         /\ cmd[c].source.session =>
           \A closed \in closure, i \in DOMAIN cmd[c].rows :
             cmd[c].rows[i].seq <= closed.end.seq]_vars

\* A command on a session fails only for a reason.  Nothing the recorder does
\* between two looks makes a cursor or a reference stale or the source invalid:
\* someone cut, replaced or closed it, or named another source.  And a chain
\* goes on with the flags it began with, however late (QueryState::open).
NoFalseAlarm ==
  [][\A c \in Clients :
       LET command == cmd[c]
           error == cmd'[c].error
       IN ~At(c, "idle") /\ cmd'[c].pc = "idle" =>
            /\ error \in {"stale", "invalid"} =>
                 \/ harmed \/ closure # {} \/ ~command.request.session
                 \/ \E t \in command.cursor \cup command.reference :
                      t.binding.session # command.request.session
            /\ error = "cursor_mismatch" =>
                 \E k \in command.cursor :
                   k.mode # command.request.mode \/ k.predicate.filter # command.request.filter]_vars

\* Tokens stay good: whoever made the key, all commands sign with the one that
\* is in the file (Signer::load).
TokensVerify ==
  /\ \A t \in held.cursor \cup held.reference : t.key = key
  /\ \A c \in Clients : cmd[c].error # "invalid_token"
===============================================================================
