------------------------------- MODULE CopyLogs -------------------------------
(***************************************************************************)
(* Copying rows (src/src/copy.rs, main.rs copy_logs to                     *)
(* commit_prepared_copy) from the list that LogReading reads.  A small     *)
(* copy is written to the clipboard at once.  A large one is prepared by a *)
(* thread from a snapshot of the rows; the user writes it to the clipboard *)
(* with a second click, unless what it was prepared for has changed.       *)
(*                                                                         *)
(* A text is the set of the records it is made of.  Whether a copy is      *)
(* small, and whether a text is too large or cannot be allocated, may go   *)
(* either way.  Left out: the text itself, other clipboard writes (they    *)
(* cancel a copy, like CancelCopy).                                        *)
(***************************************************************************)
EXTENDS LogReading

CONSTANT MaxCopies   \* of the model: copies asked for

ASSUME CopyAssumption == MaxCopies \in Nat

VARIABLES
  copy,       \* copy_pending and copy_ready
  copier,     \* Mailbox: revision, request, result
  preparing,  \* what the copy-prepare thread holds
  clipboard,  \* the text last written to it
  edited,     \* filter_dirty_since: the edit (of acts) the debounce waits for
  copies      \* of the model: copies asked for so far

copyVars == <<copy, copier, preparing, clipboard, edited, copies>>
vars == <<pipelineVars, readingVars, copyVars>>

NoCopy == [pending |-> {}, ready |-> {}]

Text(a, indices) == {<<a.epoch, a.dropped + i>> : i \in indices}

\* CopyTarget: the selection, or the index of one row
Selection == NoRow
Target == {Selection} \cup 0 .. MaxRows - 1
Aimed(target) == IF target = Selection THEN reading.selection.rows ELSE {target}

\* Mutant: a copy does not remember which selection it is of.
CopyStampOfView(a, r, since) ==
  [log_epoch |-> a.epoch, retained_base |-> a.dropped, filter_generation |-> a.generation,
   filter_draft |-> IF a.dirty THEN since ELSE 0, selection_revision |-> 0, selected |-> NoRow]

CopyStamp(a, r, since) ==
  [log_epoch |-> a.epoch, retained_base |-> a.dropped, filter_generation |-> a.generation,
   filter_draft |-> IF a.dirty THEN since ELSE 0,
   selection_revision |-> r.selection.revision, selected |-> r.selected]

Stamp == CopyStamp(app, reading, edited)

\* classification_pending
ClassificationPending(index) ==
  /\ ~reading.context.open
  /\ \/ ~app.progress.some
     \/ app.progress.generation # app.generation
     \/ app.progress.log_epoch # app.epoch
     \/ app.dropped + index >= app.progress.next_absolute

CopyInit ==
  /\ copy = NoCopy
  /\ copier = [revision |-> 0, request |-> {}, result |-> {}]
  /\ preparing = [stage |-> "idle"]
  /\ clipboard = {}
  /\ edited = 0
  /\ copies = 0

-------------------------------------------------------------------------------
(* The mailbox, from the UI thread.                                        *)

Submitted(m, text) ==
  [revision |-> m.revision + 1, result |-> {},
   request |-> {[generation |-> m.revision + 1, text |-> text]}]

Cancelled(m) == [revision |-> m.revision + 1, request |-> {}, result |-> {}]

-------------------------------------------------------------------------------
(* The thread.                                                             *)

CopierTake ==
  /\ preparing.stage = "idle"
  /\ \E request \in copier.request :
       preparing' = [stage |-> "building", generation |-> request.generation,
                     text |-> request.text]
  /\ copier' = [copier EXCEPT !.request = {}]

CopierCancelled == copier.revision # preparing.generation

\* Looks at the revision before every row, and once more after building.
CopierAbandon ==
  /\ preparing.stage = "building"
  /\ CopierCancelled
  /\ preparing' = [stage |-> "idle"]
  /\ UNCHANGED copier

CopierBuild ==
  /\ preparing.stage = "building"
  /\ ~CopierCancelled
  /\ \E fails \in BOOLEAN :
       preparing' = [stage |-> "built", generation |-> preparing.generation,
                     text |-> IF fails THEN {} ELSE {preparing.text}]
  /\ UNCHANGED copier

\* The result slot has a lock of its own: the copy may be cancelled since.
CopierPublish ==
  /\ preparing.stage = "built"
  /\ copier' = [copier EXCEPT !.result =
                  {[generation |-> preparing.generation, text |-> preparing.text]}]
  /\ preparing' = [stage |-> "idle"]

CopierStep ==
  /\ CopierTake \/ CopierAbandon \/ CopierBuild \/ CopierPublish
  /\ UNCHANGED <<pipelineVars, readingVars, copy, clipboard, edited, copies>>

-------------------------------------------------------------------------------
(* The UI thread.                                                          *)

\* copy_logs: a button of the details or of a row's menu, or Ctrl+C.
CopyFrom(target) ==
  \/ target = Selection /\ reading.selection.rows # {}
  \/ target \in Indices(Rows) \cup (Nat \cap {reading.selected})

\* Mutant: what is on screen is copied, classified or not.
UncheckedNever(target) == FALSE

Unchecked(target) ==
  \E last \in Aimed(target) :
    /\ \A i \in Aimed(target) : i <= last
    /\ ClassificationPending(last)

CopyRows(target) ==
  /\ copies < MaxCopies
  /\ copies' = copies + 1
  /\ CopyFrom(target)
  /\ LET m == Cancelled(copier)
         text == Text(app, Aimed(target))
         Refused ==
           /\ copy' = NoCopy
           /\ copier' = m
           /\ UNCHANGED clipboard
         InBackground ==
           /\ copy' = [NoCopy EXCEPT !.pending =
                         {[generation |-> m.revision + 1, stamp |-> Stamp, target |-> target]}]
           /\ copier' = Submitted(m, text)
           /\ UNCHANGED clipboard
         AtOnce ==
           /\ copy' = NoCopy
           /\ copier' = m
           /\ clipboard' = text
     IN IF Unchecked(target) THEN Refused ELSE InBackground \/ AtOnce \/ Refused
  /\ UNCHANGED <<pipelineVars, readingVars, preparing, edited>>

\* poll_copy
StampChanged == \E pending \in copy.pending : pending.stamp # Stamp

PolledCopy ==
  LET prepared == {result \in copier.result :
                     \E pending \in copy.pending : pending.generation = result.generation}
  IN IF prepared = {} THEN copy
     ELSE LET text == UNION {result.text : result \in prepared}
          IN IF text = {} THEN [copy EXCEPT !.pending = {}] ELSE [copy EXCEPT !.ready = text]

PollCopy ==
  /\ IF StampChanged
     THEN /\ copy' = NoCopy
          /\ copier' = Cancelled(copier)
     ELSE /\ copy' = PolledCopy
          /\ copier' = [copier EXCEPT !.result = {}]
  /\ UNCHANGED <<pipelineVars, readingVars, preparing, clipboard, edited, copies>>

\* The button of the status bar that a ready copy shows; polls once more.
CommitPreparedCopy ==
  /\ copy.pending # {}
  /\ copy.ready # {}
  /\ copy' = NoCopy
  /\ IF StampChanged
     THEN /\ copier' = Cancelled(copier)
          /\ UNCHANGED clipboard
     ELSE /\ copier' = [copier EXCEPT !.result = {}]
          /\ clipboard' = CHOOSE text \in PolledCopy.ready : TRUE
  /\ UNCHANGED <<pipelineVars, readingVars, preparing, edited, copies>>

CancelCopy ==
  /\ copy.pending # {}
  /\ copy' = NoCopy
  /\ copier' = Cancelled(copier)
  /\ UNCHANGED <<pipelineVars, readingVars, preparing, clipboard, edited, copies>>

ReadingStep ==
  /\ ReadingNext
  /\ edited' = IF acts' # acts /\ app'.dirty /\ app'.epoch = app.epoch THEN acts' ELSE edited
  /\ UNCHANGED <<copy, copier, preparing, clipboard, copies>>

CopyNext ==
  \/ ReadingStep
  \/ CopierStep
  \/ \E target \in Target : CopyRows(target)
  \/ PollCopy
  \/ CommitPreparedCopy
  \/ CancelCopy

CopySpec == Init /\ ReadingInit /\ CopyInit /\ [][CopyNext]_vars

-------------------------------------------------------------------------------
(* Properties.                                                             *)

\* A click on a ready copy writes the records that are selected at the click,
\* not those that were selected when the copy was asked for: either they are
\* the same, or the stamp differs and nothing is written (copy_stamp).
ReadyCopyIsTheSelection ==
  \A pending \in copy.pending, text \in copy.ready :
    pending.stamp = Stamp => text = Text(app, Aimed(pending.target))

CheckedOnScreen(record) ==
  \E i \in Indices(Rows) :
    record = <<app.epoch, app.dropped + i>> /\ ~ClassificationPending(i)

\* A row that was asked for by its menu or its details, as long as its record is there.
AskedAsRow(record) ==
  \E pending \in copy.pending :
    pending.target # Selection /\ record \in Text(app, {pending.target})

\* Whatever is written to the clipboard are retained records that the filter in
\* force was checked against and lists, or that an open context shows.  Only a
\* prepared row may be one that the screen shows no more: a context that is left
\* when nothing is selected in it leaves no trace in the stamp (copy_logs,
\* commit_prepared_copy, leave_context).
OnlyCheckedRowsAreCopied ==
  [][clipboard' # clipboard =>
       \A record \in clipboard' : CheckedOnScreen(record) \/ AskedAsRow(record)]_vars
===============================================================================
