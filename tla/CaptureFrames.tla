----------------------------- MODULE CaptureFrames -----------------------------
(***************************************************************************)
(* When the desktop application draws.  poll_backend, advance_capture and  *)
(* the user's actions run in frames only, and a frame need not come unless *)
(* one was asked for: by a thread that sent something (wake_signal), at    *)
(* the end of advance_capture, or by next_wake_deadline.  A retry that is  *)
(* awaited, a stop that is overdue and the end of a snapshot's time are    *)
(* noticed only if a frame was asked for then.                             *)
(*                                                                         *)
(* The capture itself is LiveCapture's.  Left out, which only takes frames *)
(* away: requests for other work (the device poll among them, whose answer *)
(* may never come), and what advance_capture asks for in mid-frame, which  *)
(* the end of logic asks for again.  The delay that coalesces wake-ups of  *)
(* entries is LogcatStream's.                                              *)
(***************************************************************************)
EXTENDS LiveCapture

VARIABLES
  frame,    \* a frame is being drawn
  alarm,    \* time left until a frame that was asked for
  late,     \* the deadline of the snapshot in hand has passed
  watched   \* a frame was asked for when it does

asked == <<frame, alarm, late, watched>>

allVars == <<vars, asked>>

\* No frame was asked for: longer than any deadline of the controller.
NoAlarm == STOP_TIMEOUT + 5

Sooner(s, t) == IF s < t THEN s ELSE t

\* Mutant: only a stop has a deadline.
NextDeadlineOfStop(c) ==
  IF IsStopping(c) /\ ~c.phase.timed_out THEN c.phase.left ELSE NoAlarm

\* next_deadline of the controller: a retry that is due has none.
NextDeadline(c) ==
  IF \/ IsStopping(c) /\ ~c.phase.timed_out
     \/ c.phase.tag = "Backoff" /\ c.phase.left > 0
  THEN c.phase.left ELSE NoAlarm

\* next_wake_deadline: a retry that is due wakes if it can start.
NextWake(a, devices) ==
  IF a.ctl.phase = Backoff(0) /\ Ready(a, devices) THEN 0 ELSE NextDeadline(a.ctl)

-------------------------------------------------------------------------------
(* Steps *)

DrawInit ==
  /\ Init
  /\ frame = FALSE
  /\ alarm = 0
  /\ late = FALSE
  /\ watched = FALSE

\* A frame may come at any time (input, a window event).
BeginFrame ==
  /\ ~frame
  /\ frame' = TRUE
  /\ alarm' = NoAlarm
  /\ watched' = FALSE
  /\ UNCHANGED <<vars, late>>

\* Another budget was opened: an attempt began, and the user had asked for one.
Renewed ==
  /\ app'.ctl.next_id # app.ctl.next_id
  /\ at = "ui" \/ app.reset_budget

StaysLate == late' = (late /\ ~app'.reset_budget /\ ~Renewed)

\* The requests at the end of logic and of ui: schedule_next_wake, the
\* snapshot's deadline while it counts, and another frame for what the
\* channel still holds.
Asks ==
  /\ StaysLate
  /\ watched' = (watched \/ (app'.budget.open /\ BudgetActive(app')))
  /\ alarm' = IF at = "logic" /\ queue # <<>> THEN 0
              ELSE Sooner(alarm, NextWake(app', available))

DrawEvent ==
  /\ frame
  /\ HandleEvent
  /\ late => app'.session.seq = app.session.seq
  /\ UNCHANGED asked

\* A discovery's answer, which may also come to nothing.
DrawDiscovery ==
  /\ frame
  /\ at = "logic"
  /\ \E devices \in Discoveries : available' = devices /\ AdvanceAt(app, devices, late)
  /\ StaysLate
  /\ UNCHANGED <<at, frame, alarm, watched>>

DrawLogic ==
  /\ frame
  /\ at = "logic"
  /\ AdvanceAt(app, available, late)
  /\ at' = "ui"
  /\ UNCHANGED <<available, frame>>
  /\ Asks

EndFrame ==
  /\ UserAction \/ NoAction
  /\ frame' = FALSE
  /\ Asks

\* The threads wake the application for everything they send.
ThreadsAct ==
  /\ ChildActs
  /\ alarm' = IF queue' # queue THEN 0 ELSE alarm
  /\ UNCHANGED <<frame, late, watched>>

Clock ==
  /\ Tick
  /\ alarm' = IF alarm \in {0, NoAlarm} THEN alarm ELSE alarm - 1
  /\ UNCHANGED <<frame, late, watched>>

\* The deadline of the snapshot passes; no retry moves it.
Expire ==
  /\ app.budget.open
  /\ ~app.reset_budget
  /\ ~late
  /\ late' = TRUE
  /\ alarm' = IF watched THEN 0 ELSE alarm
  /\ UNCHANGED <<vars, frame, watched>>

DrawNext ==
  \/ BeginFrame
  \/ DrawEvent
  \/ DrawDiscovery
  \/ DrawLogic
  \/ EndFrame
  \/ ThreadsAct
  \/ Clock
  \/ Expire

DrawSpec == DrawInit /\ [][DrawNext]_allVars

\* A frame that was asked for comes, takes what the channel held first, and
\* ends; the user, discoveries and further frames may never come.
DrawFairSpec ==
  /\ DrawSpec
  /\ WF_allVars(BeginFrame /\ alarm = 0)
  /\ SF_allVars(DrawEvent)
  /\ WF_allVars(DrawLogic)
  /\ WF_allVars(EndFrame)
  /\ WF_allVars(Clock)
  /\ WF_allVars(Expire)
  /\ \A i \in Id : ChildFairness(i) /\ WF_channel(Killed(i) /\ Die(i))

-------------------------------------------------------------------------------
(* Properties *)

Overdue == late /\ Capturing(app.ctl) /\ Status(app.ctl) # "Failed"

\* A finite snapshot whose time is up ends - also while it is silent, still
\* starting, or waiting for a retry or its device - unless the user asks for
\* another one (snapshot_budget_active, advance_capture).
SnapshotTimeEnds == Overdue ~> ~Overdue
===============================================================================
