---------------------------- MODULE SourceReplace -----------------------------
(***************************************************************************)
(* Opening, saving and closing files in the desktop application            *)
(* (src/src/file_ui.rs) on top of LiveCapture: a file job on a thread of   *)
(* its own, a validated candidate, and the replacement of the live view,   *)
(* which stops the capture first and may save the view before it goes.     *)
(*                                                                         *)
(* The frame gets a third part, "files" (poll_files), between logic and    *)
(* ui.  An open dialog or candidate is modal: no other user action.  An    *)
(* export is a save here.  A document's own records are not modelled: the  *)
(* view is empty while a file is shown.                                    *)
(***************************************************************************)
EXTENDS LiveCapture

VARIABLE files

fvars == <<files, vars>>

Action == {"open", "save", "before"}  \* before: Action::SaveBeforeOpen

NoJob == [action |-> "none", cancelled |-> FALSE, result |-> "pending", saved |-> <<>>]
Job(action, saved) ==
  [action |-> action, cancelled |-> FALSE, result |-> "pending", saved |-> saved]

FilesState ==
  [dialog : Action \cup {"none"},
   job : [action : Action \cup {"none"}, cancelled : BOOLEAN,
          result : {"pending", "ok", "failed"}, saved : Seq(ViewRecord)],
   candidate : BOOLEAN,
   replace : {"none", "discard", "save"}]

FilesInit == files = [dialog |-> "none", job |-> NoJob, candidate |-> FALSE, replace |-> "none"]

Modal(f) == f.dialog # "none" \/ f.candidate
Busy(f) == f.job.action # "none" \/ Modal(f)

Dropped(f) == [f EXCEPT !.candidate = FALSE, !.replace = "none"]

\* file_operation_failed
OperationFailed(f, action) == IF action = "before" THEN Dropped(f) ELSE f

\* A state of both parts.
Both(a, f) == [a |-> a, f |-> f]

\* install_candidate; too_big: the file exceeds the memory budget by now.
Install(s, too_big) ==
  IF s.a.handle # NoId \/ ~s.f.candidate THEN s
  ELSE IF too_big THEN Both(s.a, Dropped(s.f))
  ELSE Both([NewSource(s.a) EXCEPT !.retained = NoDevice, !.document = TRUE], Dropped(s.f))

\* Mutant: a job that was cancelled too late is taken as if it was not.
AfterJobUncancelled(s, too_big) ==
  LET job == s.f.job
      f == [s.f EXCEPT !.job = NoJob]
  IN IF job.action = "none" \/ job.result = "pending" THEN s
     ELSE IF job.result = "failed" THEN Both(s.a, OperationFailed(f, job.action))
     ELSE IF job.action = "before" THEN Install(Both(s.a, f), too_big)
     ELSE Both(s.a, [f EXCEPT !.candidate = job.action = "open"])

\* poll_files up to the result of a job.
AfterJob(s, too_big) ==
  LET job == s.f.job
      f == [s.f EXCEPT !.job = NoJob]
  IN IF job.action = "none" \/ job.result = "pending" THEN s
     ELSE IF job.result = "failed" THEN Both(s.a, OperationFailed(f, job.action))
     ELSE CASE job.action = "save" -> Both(s.a, f)
            [] job.action = "before" ->
                 IF job.cancelled THEN Both(s.a, Dropped(f)) ELSE Install(Both(s.a, f), too_big)
            [] job.action = "open" ->
                 IF job.cancelled THEN Both(s.a, f)
                 ELSE LET loaded == [f EXCEPT !.candidate = TRUE] IN
                      IF s.a.view = <<>> /\ s.a.handle = NoId
                      THEN Install(Both(CloseCapture(s.a), loaded), too_big)
                      ELSE Both(s.a, loaded)

\* Mutants: the save is offered before the stop is confirmed; a stop that
\* failed is waited for.
AfterReplaceEarly(s, too_big) ==
  IF s.f.replace = "none" THEN s
  ELSE IF s.f.replace = "save"
  THEN Both(s.a, [s.f EXCEPT !.replace = "none", !.dialog = "before"])
  ELSE IF s.a.handle = NoId
  THEN Install(Both(s.a, [s.f EXCEPT !.replace = "none"]), too_big)
  ELSE s
AfterReplacePatient(s, too_big) ==
  IF s.f.replace # "none" /\ s.a.handle = NoId
  THEN IF s.f.replace = "discard"
       THEN Install(Both(s.a, [s.f EXCEPT !.replace = "none"]), too_big)
       ELSE Both(s.a, [s.f EXCEPT !.replace = "none", !.dialog = "before"])
  ELSE s

\* The rest of poll_files: a replacement waits for the child to be gone and
\* is given up when the capture state is an error.
AfterReplace(s, too_big) ==
  LET f == [s.f EXCEPT !.replace = "none"]
  IN IF s.f.replace = "none" THEN s
     ELSE IF s.a.handle = NoId
     THEN IF s.f.replace = "discard" THEN Install(Both(s.a, f), too_big)
          ELSE Both(s.a, [f EXCEPT !.dialog = "before"])
     ELSE IF Status(s.a.ctl) = "Failed" THEN Both(s.a, Dropped(s.f))
     ELSE s

PollFiles ==
  /\ at = "files"
  /\ at' = "ui"
  /\ \E too_big \in BOOLEAN :
       LET s == AfterReplace(AfterJob(Both(app, files), too_big), too_big)
       IN app' = s.a /\ files' = s.f
  /\ UNCHANGED <<available, channel>>

-------------------------------------------------------------------------------
(* What the user can do with files at the end of a frame *)

HasSource == app.document \/ app.retained # NoDevice

\* start_file_job: the snapshot is taken now (kept here for the save that a
\* replacement depends on), and taking it or starting the thread may fail.
StartJob(f, action) ==
  \/ /\ action = "open" \/ HasSource
     /\ files' = [f EXCEPT !.job = Job(action, IF action = "before" THEN app.view ELSE <<>>)]
  \/ files' = OperationFailed(f, action)

OpenDialog(action) ==
  /\ ~Busy(files)
  /\ action = "open" \/ HasSource
  /\ files' = [files EXCEPT !.dialog = action]

DropFile == ~Busy(files) /\ StartJob(files, "open")

SubmitDialog ==
  /\ files.dialog # "none"
  /\ StartJob([files EXCEPT !.dialog = "none"], files.dialog)

CancelDialog ==
  /\ files.dialog # "none"
  /\ LET f == [files EXCEPT !.dialog = "none"]
     IN files' = IF files.dialog = "before" THEN Dropped(f) ELSE f

CancelJob ==
  /\ files.job.action # "none"
  /\ files.job.action = "before" \/ ~Modal(files)
  /\ files' = [files EXCEPT !.job.cancelled = TRUE]

\* The question whether to replace the view.
Asking ==
  /\ files.candidate
  /\ files.dialog = "none"
  /\ files.job.action # "before"
  /\ files.replace = "none"

CancelCandidate == Asking /\ files' = [files EXCEPT !.candidate = FALSE]

ChooseReplace(choice) ==
  /\ Asking
  /\ files' = [files EXCEPT !.replace = choice]
  /\ app' = CloseCapture(app)

CloseFile ==
  /\ ~Busy(files)
  /\ app.document
  /\ app' = [NewSource(app) EXCEPT !.document = FALSE, !.retained = NoDevice]
  /\ UNCHANGED files

FileChoice ==
  \/ \E action \in {"open", "save"} : OpenDialog(action)
  \/ DropFile
  \/ SubmitDialog
  \/ CancelDialog
  \/ CancelJob
  \/ CancelCandidate

FileAction ==
  \/ ByUser(FileChoice /\ UNCHANGED <<app, channel>>)
  \/ ByUser((CloseFile \/ \E choice \in {"discard", "save"} : ChooseReplace(choice))
            /\ UNCHANGED channel)

\* The thread of the job; a save or load may fail, and does when cancelled
\* before its last check.
FinishJob ==
  /\ files.job.action # "none"
  /\ files.job.result = "pending"
  /\ \E result \in {"ok", "failed"} : files' = [files EXCEPT !.job.result = result]
  /\ UNCHANGED vars

-------------------------------------------------------------------------------
FInit == Init /\ FilesInit

FNext ==
  \/ (HandleEvent \/ EndLogic("files") \/ Discover) /\ UNCHANGED files
  \/ PollFiles
  \/ NoAction /\ UNCHANGED files
  \/ ~Modal(files) /\ UserAction /\ UNCHANGED files
  \/ FileAction
  \/ FinishJob
  \/ (ChildActs \/ Tick) /\ UNCHANGED files

FSpec == FInit /\ [][FNext]_fvars

\* As in LiveCapture, but a kill need not take effect.
FFairSpec ==
  /\ FSpec
  /\ SF_vars(HandleEvent)
  /\ WF_vars(EndLogic("files"))
  /\ WF_fvars(PollFiles)
  /\ WF_fvars(at = "ui" /\ at' = "logic" /\ FNext)
  /\ WF_vars(Tick)
  /\ WF_fvars(FinishJob)
  /\ \A i \in Id : ChildFairness(i)

-------------------------------------------------------------------------------
(* Properties *)

\* No capture runs or is wanted behind a file: between the choice to replace
\* and the last cleanup, nothing restarts it (install_candidate, poll_files).
FileIsAlone ==
  app.document => app.handle = NoId /\ ~Capturing(app.ctl) /\ app.view = <<>>

\* Every line the stopped child sent was received: the last record shown is the
\* last line of its attempt.
Drained ==
  app.view # <<>> /\ app.session.seq < MaxSeq =>
    LET last == app.view[Len(app.view)]
    IN last.line = child[last.attempt].lines

\* Save-before-open saves what it replaces: it is asked for once every line of
\* the stopped child is there, and from the snapshot to the replacement no
\* record arrives, is cleared or trimmed, and nothing starts (choose,
\* poll_files, start_file_job).
SavedIsWhatGoes ==
  /\ files.dialog = "before" => Drained
  /\ files.job.action = "before" =>
       /\ files.job.saved = app.view
       /\ files.candidate
       /\ app.handle = NoId /\ ~Capturing(app.ctl)

\* A job that was cancelled replaces nothing, even when it finishes well at
\* the same moment (poll_files).
CancelledStaysOut ==
  [][files.job.cancelled /\ files'.job.action = "none"
       => app'.document = app.document /\ app'.view = app.view /\ ~files'.candidate]_fvars

\* The user is never left in a replacement that waits: the stop is confirmed
\* or its failure gives the replacement up.
ReplaceEnds == files.replace # "none" ~> files.replace = "none"
===============================================================================
