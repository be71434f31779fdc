--------------------------- MODULE SchedulerProofs ---------------------------
(***************************************************************************)
(* What is proved of the scheduler for every workflow, every configuration   *)
(* and every choice of commands: the inductive invariant, the properties it  *)
(* consists of, and others that follow from it.                              *)
(***************************************************************************)
EXTENDS SchedulerSteps

-----------------------------------------------------------------------------
(* The invariant and its parts *)

(* The invariant of the scheduler's work holds of every run.                *)
THEOREM WorkCorrect == Spec => []WorkInvariant
<1>1. Init => WorkInvariant BY WorkInit
<1>2. WorkInvariant /\ [Next]_vars => WorkInvariant' BY WorkStep
<1> QED BY <1>1, <1>2, PTL DEF Spec

(* No handler of scheduler.ts ever leaves a variable without its shape.     *)
THEOREM TypeCorrect == Spec => []TypeOK
<1>1. WorkInvariant => TypeOK BY DEF WorkInvariant
<1> QED BY <1>1, WorkCorrect, PTL

(* A task is running or waiting exactly while something will still report   *)
(* on it, or its outcome is being applied.                                  *)
THEOREM ActiveTasksHaveWork == Spec => []ActiveHasWork
<1>1. WorkInvariant => ActiveHasWork BY DEF WorkInvariant
<1> QED BY <1>1, WorkCorrect, PTL

(* The lock of the shared tree belongs to the attempts that should have it, *)
(* in whatever order they came, and an attempt that works in the tree holds *)
(* it: no two attempts ever write to the tree at once.                      *)
THEOREM TreeIsOwned == Spec => []TreeOwned
<1>1. WorkInvariant => TreeOwned BY DEF WorkInvariant
<1> QED BY <1>1, WorkCorrect, PTL

(* No report of an attempt is stale, lost or doubled.                       *)
THEOREM ReportsAreMatched == Spec => []ReportsMatch
<1>1. WorkInvariant => ReportsMatch BY DEF WorkInvariant
<1> QED BY <1>1, WorkCorrect, PTL

-----------------------------------------------------------------------------
(* A cancelling stop has told every worker *)

(* No worker starts, and none forgets that it was told to stop.             *)
NoNewWorker ==
  \A t \in Tasks : inflight'[t].phase = "working" =>
    Working(t) /\ (inflight[t].aborted => inflight'[t].aborted)

(* The run does not begin to cancel. *)
NoNewCancel == stop' = stop \/ stop'.mode # "cancel"

(* A step that neither starts a worker nor begins to cancel leaves every    *)
(* worker told.                                                             *)
LEMMA StillTold ==
  ASSUME StopAborts, NoNewWorker, NoNewCancel PROVE StopAborts'
  BY DEF StopAborts, NoNewWorker, NoNewCancel, Stopping, Working, NoStop

(* Entries that are left alone start nothing.                               *)
LEMMA NobodyStarts ==
  ASSUME UNCHANGED inflight PROVE NoNewWorker
  BY DEF NoNewWorker, Working

(* Aborting every worker tells every worker.                                *)
LEMMA AllTold ==
  ASSUME TypeOK, inflight' = AbortAll(inflight) PROVE StopAborts' /\ NoNewWorker
<1>1. ASSUME NEW t \in Tasks, inflight'[t].phase = "working"
      PROVE inflight'[t].aborted /\ inflight[t].phase = "working"
  <2>1. inflight[t] \in EntryRecord BY DEF TypeOK
  <2>2. inflight'[t] = IF inflight[t].phase # "idle" THEN [inflight[t] EXCEPT !.aborted = TRUE]
                       ELSE inflight[t]
    BY DEF AbortAll
  <2>3. inflight[t].phase = "working" BY <1>1, <2>1, <2>2 DEF EntryRecord
  <2>4. inflight'[t] = [inflight[t] EXCEPT !.aborted = TRUE] BY <2>2, <2>3
  <2> QED BY <2>1, <2>3, <2>4 DEF EntryRecord
<1> QED BY <1>1 DEF StopAborts, NoNewWorker, Working

(* A failure's stop tells every worker if it cancels (applyOnFailure).      *)
LEMMA EndBadlyTells ==
  ASSUME TypeOK, StopAborts, NEW t, NEW s, EndBadly(t, s) PROVE StopAborts'
<1>1. CASE inflight' = AbortAll(inflight) BY <1>1, AllTold
<1>2. CASE inflight' # AbortAll(inflight)
  <2>1. UNCHANGED inflight /\ NoNewCancel BY <1>2 DEF EndBadly, NoNewCancel
  <2> QED BY <2>1, NobodyStarts, StillTold
<1> QED BY <1>1, <1>2

(* So does a stop that is asked for, or escalated (applyStop).              *)
LEMMA ApplyStopTells ==
  ASSUME TypeOK, StopAborts, NEW m, NEW c, ApplyStop(m, c) PROVE StopAborts'
<1>1. CASE m = "cancel" BY <1>1, AllTold DEF ApplyStop
<1>2. CASE m # "cancel"
  <2>1. UNCHANGED inflight /\ NoNewCancel BY <1>2 DEF ApplyStop, NoNewCancel
  <2> QED BY <2>1, NobodyStarts, StillTold
<1> QED BY <1>1, <1>2

(* An attempt that leaves its worker behind starts none.                    *)
LEMMA MovingOn ==
  ASSUME TypeOK, NEW t \in Tasks, inflight'[t].phase # "working",
         \A u \in Tasks \ {t} : inflight'[u] = inflight[u]
  PROVE NoNewWorker
  BY DEF NoNewWorker, Working

(* Telling one worker to stop tells it.                                     *)
LEMMA OneTold ==
  ASSUME TypeOK, NEW t, AbortWorker(t) PROVE NoNewWorker
<1>1. ASSUME NEW u \in Tasks
      PROVE inflight'[u] = inflight[u] \/ inflight'[u] = [inflight[u] EXCEPT !.aborted = TRUE]
  BY <1>1 DEF AbortWorker, TypeOK
<1>2. \A u \in Tasks : inflight[u] \in EntryRecord BY DEF TypeOK
<1> QED BY <1>1, <1>2 DEF NoNewWorker, Working, EntryRecord

(* Before the loop runs no worker needs telling.                            *)
LEMMA StartupTells ==
  ASSUME WorkInvariant, StopAborts, Startup PROVE StopAborts'
<1>0. TypeOK /\ StartsQuietly BY DEF WorkInvariant
<1>1. CASE Prepare
  <2>1. \A t \in Tasks : ~InFlight(t) BY <1>0, <1>1 DEF Prepare, StartsQuietly
  <2>2. UNCHANGED inflight BY <1>1 DEF Prepare, workVars
  <2> QED BY <2>1, <2>2 DEF StopAborts, Working, InFlight
<1>2. ASSUME NEW t \in Tasks, FailPreflight(t) PROVE StopAborts'
  BY <1>0, <1>2, EndBadlyTells DEF FailPreflight
<1>3. CASE EnterLoop
  BY <1>3, NobodyStarts, StillTold DEF EnterLoop, workVars, runVars, NoNewCancel
<1> QED BY <1>1, <1>2, <1>3 DEF Startup

(* The promotion pass may begin a stop, and it tells those it has to.       *)
LEMMA PromoteTells ==
  ASSUME TypeOK, StopAborts, Promote PROVE StopAborts'
<1>1. CASE FailOnCondition BY <1>1, EndBadlyTells DEF FailOnCondition
<1>2. CASE StartPass \/ BlockOnDependency \/ SkipOnCondition \/ MakeReady \/ EndPass
  BY <1>2, NobodyStarts, StillTold
  DEF StartPass, BlockOnDependency, SkipOnCondition, MakeReady, EndPass, workVars, runVars, NoNewCancel
<1>3. CASE OpenGate
  <2>1. UNCHANGED inflight /\ NoNewCancel BY <1>3 DEF OpenGate, NoNewCancel
  <2> QED BY <2>1, NobodyStarts, StillTold
<1> QED BY <1>1, <1>2, <1>3 DEF Promote

(* A stopping run launches nothing.                                         *)
LEMMA LaunchTells ==
  ASSUME StopAborts, LaunchWork PROVE StopAborts'
<1>1. CASE Launch \/ LaunchPendingMerge
  <2>1. ~Stopping /\ UNCHANGED stop
    BY <1>1 DEF Launch, LaunchPendingMerge, LaunchClosed, runVars
  <2> QED BY <2>1 DEF StopAborts, Stopping
<1>2. CASE EndMerges \/ EndLaunch \/ AbandonPendingMerge
  BY <1>2, NobodyStarts, StillTold
  DEF EndMerges, EndLaunch, AbandonPendingMerge, workVars, runVars, NoNewCancel
<1> QED BY <1>1, <1>2 DEF LaunchWork

(* Handling a wake starts a worker only while the run is not stopping.      *)
LEMMA WakeTells ==
  ASSUME WorkInvariant, StopAborts, HandleWake PROVE StopAborts'
<1>0. TypeOK BY DEF WorkInvariant
<1>1. CASE HandleAttemptDone
  <2> PICK w \in Handled : HandleAttemptDone!(w) BY <1>1 DEF HandleAttemptDone
  <2>1. AboutAttempt(w) BY DEF AboutAttempt
  <2>2. w.task \in Tasks /\ Current(w) BY <2>1, ReportIsCurrent
  <2>3. inflight'[w.task].phase # "working" /\ \A u \in Tasks \ {w.task} : inflight'[u] = inflight[u]
    BY <1>0, <2>2 DEF TypeOK, EntryRecord
  <2>4. NoNewCancel BY DEF NoNewCancel, runVars
  <2> QED BY <1>0, <2>2, <2>3, <2>4, MovingOn, StillTold
<1>2. CASE HandleFinalized
  <2> PICK w \in Handled : HandleFinalized!(w) BY <1>2 DEF HandleFinalized
  <2>1. AboutAttempt(w) BY DEF AboutAttempt
  <2>2. w.task \in Tasks /\ Current(w) BY <2>1, ReportIsCurrent
  <2>3. UNCHANGED stop BY DEF runVars
  <2>4. CASE Stopping
    <3>1. inflight' = [inflight EXCEPT ![w.task] = NoEntry] BY <2>2, <2>4
    <3>2. inflight'[w.task].phase # "working" /\ \A u \in Tasks \ {w.task} : inflight'[u] = inflight[u]
      BY <1>0, <2>2, <3>1 DEF TypeOK, NoEntry
    <3> QED BY <1>0, <2>2, <2>3, <3>2, MovingOn, StillTold DEF NoNewCancel
  <2>5. CASE ~Stopping BY <2>3, <2>5 DEF StopAborts, Stopping
  <2> QED BY <2>4, <2>5
<1>3. CASE HandleApproval
  <2> PICK w \in Handled : HandleApproval!(w) BY <1>3 DEF HandleApproval
  <2>1. CASE EndBadly(w.task, "failed") BY <1>0, <2>1, EndBadlyTells
  <2>2. CASE UNCHANGED <<runVars, inflight>>
    BY <2>2, NobodyStarts, StillTold DEF runVars, NoNewCancel
  <2> QED BY <2>1, <2>2
<1>4. CASE HandleRetryDue
  BY <1>4, NobodyStarts, StillTold DEF HandleRetryDue, workVars, runVars, NoNewCancel
<1>5. CASE HandleStop BY <1>0, <1>5, ApplyStopTells DEF HandleStop
<1> QED BY <1>1, <1>2, <1>3, <1>4, <1>5 DEF HandleWake

(* Applying an outcome starts no worker.                                    *)
LEMMA OutcomeTells ==
  ASSUME TypeOK, StopAborts, ApplyOutcome PROVE StopAborts'
<1>1. CASE BlockByAgent \/ FailTask
  BY <1>1, EndBadlyTells DEF BlockByAgent, FailTask
<1>2. CASE AskInput
  <2>1. UNCHANGED inflight /\ NoNewCancel BY <1>2 DEF AskInput, NoNewCancel
  <2> QED BY <2>1, NobodyStarts, StillTold
<1>3. CASE Succeed \/ SkipByAgent \/ EndSuspended \/ EndCancelled \/ RecoverTransient
           \/ NudgeSession \/ RetryAttempt \/ SettleCancel \/ SettleRestart
  <2>1. UNCHANGED <<inflight, stop>>
    BY <1>3 DEF Succeed, SkipByAgent, EndSuspended, EndCancelled, RecoverTransient, NudgeSession,
                RetryAttempt, SettleCancel, SettleRestart, runVars, workVars
  <2> QED BY <2>1, NobodyStarts, StillTold DEF NoNewCancel
<1> QED BY <1>1, <1>2, <1>3 DEF ApplyOutcome

(* A command stops workers and starts none.                                 *)
LEMMA ControlTells ==
  ASSUME TypeOK, StopAborts, HandleControl PROVE StopAborts'
<1>1. CASE StopRun BY <1>1, ApplyStopTells DEF StopRun
<1>2. CASE ~StopRun
  <2>1. UNCHANGED stop
    BY <1>2 DEF HandleControl, RejectCommand, HoldRun, ReleaseRun, RestartTask, CancelTask,
         SuspendTask, ResumeTask, FollowUp, StopAndContinue, EditNothing, EditTask, runVars
  <2>2. UNCHANGED inflight \/ \E t : AbortWorker(t)
    BY <1>2 DEF HandleControl, RejectCommand, HoldRun, ReleaseRun, RestartTask, CancelTask,
         SuspendTask, ResumeTask, FollowUp, StopAndContinue, EditNothing, EditTask, workVars
  <2> QED BY <2>1, <2>2, NobodyStarts, OneTold, StillTold DEF NoNewCancel
<1> QED BY <1>1, <1>2

(* The world around the loop starts no worker either.                       *)
LEMMA EnvironmentTells ==
  ASSUME TypeOK, StopAborts, Environment PROVE StopAborts'
<1>1. UNCHANGED stop
  BY DEF Environment, Workspace, WorkerReports, ReportSession, AskOperator, AnswerOperator,
         AnswerGate, BecomeDue, QueueForTree, Capture, CaptureThrows, MergeBack, FinishCapture,
         TimerFires, Submit, runVars
<1>2. ASSUME NEW t \in Tasks, WorkerReports(t) \/ Workspace(t) PROVE NoNewWorker
  <2>1. \E p \in {"ended", "queued", "settled"} : inflight' = [inflight EXCEPT ![t].phase = p]
    BY <1>2 DEF WorkerReports, Workspace, QueueForTree, Capture, CaptureThrows, MergeBack,
                FinishCapture
  <2>2. inflight'[t].phase # "working" /\ \A u \in Tasks \ {t} : inflight'[u] = inflight[u]
    BY <2>1, PhaseMoves
  <2> QED BY <2>2, MovingOn
<1>3. ASSUME UNCHANGED inflight PROVE NoNewWorker BY <1>3, NobodyStarts
<1>4. NoNewWorker
  BY <1>2, <1>3 DEF Environment, ReportSession, AskOperator, AnswerOperator, AnswerGate,
                    BecomeDue, TimerFires, Submit, workVars
<1> QED BY <1>1, <1>4, StillTold DEF NoNewCancel

(* Once the run is stopping by cancelling, every attempt with a worker has  *)
(* been told to stop, whichever handler began or escalated the stop.        *)
THEOREM StopReachesWorkers == Spec => []StopAborts
<1>1. Init => StopAborts BY DEF Init, StopAborts, Stopping
<1>2. WorkInvariant /\ StopAborts /\ [Next]_vars => StopAborts'
  <2> SUFFICES ASSUME WorkInvariant, StopAborts, [Next]_vars PROVE StopAborts' OBVIOUS
  <2>1. TypeOK BY DEF WorkInvariant
  <2>2. CASE Loop
    <3>1. CASE Park \/ Finalize
      BY <3>1, NobodyStarts, StillTold DEF Park, Finalize, workVars, runVars, NoNewCancel
    <3> QED BY <2>1, <2>2, <3>1, StartupTells, PromoteTells, LaunchTells, WakeTells, OutcomeTells,
               ControlTells DEF Loop
  <2>3. CASE Environment BY <2>1, <2>3, EnvironmentTells
  <2>4. CASE UNCHANGED vars
    BY <2>4, NobodyStarts, StillTold DEF vars, workVars, runVars, NoNewCancel
  <2> QED BY <2>2, <2>3, <2>4 DEF Next, Rest
<1> QED BY <1>1, <1>2, WorkCorrect, PTL DEF Spec

-----------------------------------------------------------------------------
(* A run says paused while it is held *)

(* The run is neither held nor released, and goes on stopping if it was.    *)
SameHold ==
  /\ UNCHANGED <<runState, hold>>
  /\ Stopping => Stopping'
  /\ pc = "done" => pc' = "done"

(* Such a step keeps what an observer reads true.                           *)
LEMMA StillHeld ==
  ASSUME PausedIsHeld, SameHold PROVE PausedIsHeld'
  BY DEF PausedIsHeld, SameHold

(* A failure's stop leaves the run stopping.                                *)
LEMMA EndBadlyHolds ==
  ASSUME NEW t, NEW s, EndBadly(t, s), pc # "done" PROVE SameHold
  BY DEF EndBadly, SameHold, Stopping, NoStop

(* A stop ends the hold and is a stop (applyStop).                          *)
LEMMA ApplyStopHolds ==
  ASSUME TypeOK, PausedIsHeld, NEW m \in {"wait", "cancel"}, NEW c, ApplyStop(m, c),
         UNCHANGED runState
  PROVE PausedIsHeld'
<1>1. hold' = FALSE BY DEF ApplyStop
<1>2. Stopping'
  <2>1. (stop' = stop /\ Stopping) \/ stop' = [mode |-> m, cause |-> c] BY DEF ApplyStop
  <2>2. [mode |-> m, cause |-> c] # NoStop
    <3>1. [mode |-> m, cause |-> c].mode = m /\ NoStop.mode = "none" BY DEF NoStop
    <3> QED BY <3>1
  <2> QED BY <2>1, <2>2 DEF Stopping
<1> QED BY <1>1, <1>2 DEF PausedIsHeld

(* A pause that a gate, a question or a failure begins is a stop.           *)
LEMMA LoopHolds ==
  ASSUME WorkInvariant, PausedIsHeld, Loop PROVE PausedIsHeld'
<1>0. TypeOK /\ StartsQuietly BY DEF WorkInvariant
<1>1. CASE Startup
  <2>1. CASE Prepare
    <3>1. runState = "created" /\ pc = "start" BY <1>0, <2>1 DEF Prepare, StartsQuietly
    <3>2. ~hold BY <3>1 DEF PausedIsHeld
    <3>3. runState' = "running" /\ UNCHANGED hold BY <2>1 DEF Prepare
    <3> QED BY <3>2, <3>3 DEF PausedIsHeld
  <2>2. ASSUME NEW t \in Tasks, FailPreflight(t) PROVE PausedIsHeld'
    <3>1. EndBadly(t, "failed") /\ pc # "done" BY <2>2 DEF FailPreflight
    <3> QED BY <3>1, EndBadlyHolds, StillHeld
  <2>3. CASE EnterLoop BY <2>3, StillHeld DEF EnterLoop, SameHold, runVars, Stopping, Goto
  <2> QED BY <1>1, <2>1, <2>2, <2>3 DEF Startup
<1>2. CASE Promote
  <2>1. pc # "done"
    BY <1>2 DEF Promote, StartPass, BlockOnDependency, SkipOnCondition, FailOnCondition, OpenGate,
                MakeReady, EndPass, Promoting
  <2>2. CASE FailOnCondition
    BY <2>1, <2>2, EndBadlyHolds, StillHeld DEF FailOnCondition
  <2>3. CASE OpenGate
    <3>1. UNCHANGED <<runState, hold>> /\ (stop' = stop \/ stop' = [mode |-> "wait", cause |-> "pause"])
      BY <2>3 DEF OpenGate
    <3> QED BY <2>1, <3>1, StillHeld DEF SameHold, Stopping, NoStop
  <2>4. CASE StartPass \/ BlockOnDependency \/ SkipOnCondition \/ MakeReady \/ EndPass
    BY <2>1, <2>4, StillHeld
    DEF StartPass, BlockOnDependency, SkipOnCondition, MakeReady, EndPass, SameHold, runVars, Stopping
  <2> QED BY <1>2, <2>2, <2>3, <2>4 DEF Promote
<1>3. CASE LaunchWork
  BY <1>3, StillHeld
  DEF LaunchWork, LaunchPendingMerge, AbandonPendingMerge, EndMerges, Launch, EndLaunch, SameHold,
      runVars, Stopping
<1>4. CASE HandleWake
  <2>1. pc # "done"
    BY <1>4 DEF HandleWake, HandleAttemptDone, HandleFinalized, HandleApproval, HandleRetryDue,
                HandleStop, Handled
  <2>2. CASE HandleApproval
    <3> PICK w \in Handled : HandleApproval!(w) BY <2>2 DEF HandleApproval
    <3>1. CASE EndBadly(w.task, "failed") BY <2>1, <3>1, EndBadlyHolds, StillHeld
    <3>2. CASE UNCHANGED runVars BY <2>1, <3>2, StillHeld DEF SameHold, runVars, Stopping
    <3> QED BY <3>1, <3>2
  <2>3. CASE HandleStop
    <3> PICK w \in Handled : HandleStop!(w) BY <2>3 DEF HandleStop
    <3>1. w.mode \in {"wait", "cancel"} BY <1>0, HeadOfQueue, ReportType
    <3> QED BY <1>0, <3>1, ApplyStopHolds
  <2>4. CASE HandleAttemptDone \/ HandleFinalized \/ HandleRetryDue
    BY <2>1, <2>4, StillHeld
    DEF HandleAttemptDone, HandleFinalized, HandleRetryDue, SameHold, runVars, Stopping
  <2> QED BY <1>4, <2>2, <2>3, <2>4 DEF HandleWake
<1>5. CASE ApplyOutcome
  <2>1. pc # "done"
    BY <1>5 DEF ApplyOutcome, Succeed, SkipByAgent, AskInput, BlockByAgent, EndSuspended,
                EndCancelled, Failing, RecoverTransient, NudgeSession, RetryAttempt, FailTask,
                Applying, SettleCancel, SettleRestart
  <2>2. CASE BlockByAgent \/ FailTask
    BY <2>1, <2>2, EndBadlyHolds, StillHeld DEF BlockByAgent, FailTask
  <2>3. CASE AskInput
    <3>1. UNCHANGED <<runState, hold>> /\ (Stopping => stop' = stop)
      BY <2>3 DEF AskInput
    <3> QED BY <2>1, <3>1, StillHeld DEF SameHold, Stopping
  <2>4. CASE Succeed \/ SkipByAgent \/ EndSuspended \/ EndCancelled \/ RecoverTransient
             \/ NudgeSession \/ RetryAttempt \/ SettleCancel \/ SettleRestart
    BY <2>1, <2>4, StillHeld
    DEF Succeed, SkipByAgent, EndSuspended, EndCancelled, RecoverTransient, NudgeSession,
        RetryAttempt, SettleCancel, SettleRestart, SameHold, runVars, Stopping
  <2> QED BY <1>5, <2>2, <2>3, <2>4 DEF ApplyOutcome
<1>6. CASE HandleControl
  <2>1. pc # "done"
    BY <1>6 DEF HandleControl, RejectCommand, StopRun, HoldRun, ReleaseRun, RestartTask, CancelTask,
                SuspendTask, ResumeTask, FollowUp, StopAndContinue, EditNothing, EditTask, Handled
  <2>2. CASE StopRun
    <3> PICK w \in Handled : StopRun!(w) BY <2>2 DEF StopRun
    <3>1. w.command \in Commands /\ w.command.kind = "stop"
      BY <1>0, HeadOfQueue, ReportType DEF Commanded
    <3>2. w.command.mode \in {"wait", "cancel"} BY <3>1, CommandType
    <3> QED BY <1>0, <3>2, ApplyStopHolds
  <2>3. CASE HoldRun \/ ReleaseRun BY <2>3 DEF HoldRun, ReleaseRun, PausedIsHeld
  <2>4. CASE ~StopRun /\ ~HoldRun /\ ~ReleaseRun
    <3>1. UNCHANGED runVars
      BY <1>6, <2>4 DEF HandleControl, RejectCommand, RestartTask, CancelTask, SuspendTask,
                        ResumeTask, FollowUp, StopAndContinue, EditNothing, EditTask
    <3> QED BY <2>1, <3>1, StillHeld DEF SameHold, runVars, Stopping
  <2> QED BY <2>2, <2>3, <2>4
<1>7. CASE Park BY <1>7, StillHeld DEF Park, SameHold, runVars, Stopping
<1>8. CASE Finalize BY <1>8 DEF Finalize, Goto, PausedIsHeld
<1> QED BY <1>1, <1>2, <1>3, <1>4, <1>5, <1>6, <1>7, <1>8 DEF Loop

(* The world around the loop neither holds a run nor releases it.           *)
LEMMA EnvironmentHolds ==
  ASSUME PausedIsHeld, Environment PROVE PausedIsHeld'
<1>1. SameHold
  BY DEF Environment, Workspace, WorkerReports, ReportSession, AskOperator, AnswerOperator,
         AnswerGate, BecomeDue, QueueForTree, Capture, CaptureThrows, MergeBack, FinishCapture,
         TimerFires, Submit, SameHold, runVars, loopVars, Stopping
<1> QED BY <1>1, StillHeld

(* Somebody watching a live run reads that it is paused exactly while it is *)
(* held, or has begun to stop from a hold.                                  *)
THEOREM ObserversReadTheHold == Spec => []PausedIsHeld
<1>1. Init => PausedIsHeld BY DEF Init, PausedIsHeld
<1>2. WorkInvariant /\ PausedIsHeld /\ [Next]_vars => PausedIsHeld'
  <2> SUFFICES ASSUME WorkInvariant, PausedIsHeld, [Next]_vars PROVE PausedIsHeld' OBVIOUS
  <2>1. CASE UNCHANGED vars
    BY <2>1, StillHeld DEF vars, runVars, loopVars, SameHold, Stopping
  <2> QED BY <2>1, LoopHolds, EnvironmentHolds DEF Next, Rest
<1> QED BY <1>1, <1>2, WorkCorrect, PTL DEF Spec

-----------------------------------------------------------------------------
(* A held run starts nothing *)

(* No task that is ready starts to run. *)
NothingStarts == \A t \in Tasks : task[t] = "ready" => task'[t] # "running"

(* A task that changes to another state than running does not start.        *)
LEMMA BecomesOther ==
  ASSUME TypeOK, NEW t, NEW s, s # "running" \/ task[t] # "ready", task' = [task EXCEPT ![t] = s]
  PROVE NothingStarts
  BY DEF NothingStarts, TypeOK

(* Nor does one whose prompt is denied.                                     *)
LEMMA DeniedStartsNothing ==
  ASSUME TypeOK, NEW S, task' = Settled(S) PROVE NothingStarts
  BY DEF NothingStarts, Settled, TypeOK

(* Ending badly and restarting start nothing by themselves.                 *)
LEMMA EndsStartNothing ==
  ASSUME TypeOK, NEW t,
         \/ EndBadly(t, "failed") \/ EndBadly(t, "blocked")
         \/ Restart(t, TRUE) \/ Restart(t, FALSE)
  PROVE NothingStarts
  BY DEF NothingStarts, EndBadly, Restart, TypeOK

(* Only a launch starts a task, and a hold closes the launch.               *)
LEMMA HoldClosesLaunch ==
  ASSUME TypeOK, hold, Next PROVE NothingStarts
<1>1. CASE UNCHANGED task BY <1>1 DEF NothingStarts
<1>2. CASE Startup
  <2>1. CASE Prepare BY <2>1 DEF Prepare, Prepared, NothingStarts, TypeOK
  <2> QED BY <1>1, <1>2, <2>1, EndsStartNothing DEF Startup, FailPreflight, EnterLoop
<1>3. CASE Promote
  BY <1>1, <1>3, BecomesOther, EndsStartNothing
  DEF Promote, StartPass, BlockOnDependency, SkipOnCondition, FailOnCondition, OpenGate,
      MakeReady, EndPass
<1>4. CASE LaunchWork
  BY <1>1, <1>4 DEF LaunchWork, LaunchPendingMerge, AbandonPendingMerge, EndMerges, Launch,
                    LaunchClosed, EndLaunch
<1>5. CASE HandleWake
  BY <1>1, <1>5, BecomesOther, EndsStartNothing, DeniedStartsNothing
  DEF HandleWake, HandleAttemptDone, HandleFinalized, HandleApproval, HandleRetryDue, HandleStop,
      ApplyStop
<1>6. CASE ApplyOutcome
  BY <1>1, <1>6, BecomesOther, EndsStartNothing
  DEF ApplyOutcome, Succeed, SkipByAgent, AskInput, BlockByAgent, EndSuspended, EndCancelled,
      RecoverTransient, NudgeSession, RetryAttempt, FailTask, SettleCancel, SettleRestart, Became
<1>7. CASE HandleControl
  BY <1>1, <1>7, BecomesOther, EndsStartNothing, DeniedStartsNothing
  DEF HandleControl, RejectCommand, StopRun, HoldRun, ReleaseRun, RestartTask, CancelTask,
      SuspendTask, ResumeTask, FollowUp, StopAndContinue, EditNothing, EditTask, ApplyStop,
      AbortWorker
<1>8. CASE Park \/ Finalize BY <1>1, <1>8 DEF Park, Finalize, NothingStarts
<1>9. CASE Environment
  BY <1>1, <1>9, BecomesOther
  DEF Environment, Workspace, WorkerReports, ReportSession, AskOperator, AnswerOperator,
      AnswerGate, BecomeDue, QueueForTree, Capture, CaptureThrows, MergeBack, FinishCapture,
      TimerFires, Submit
<1>10. CASE Rest BY <1>1, <1>10 DEF Rest, vars
<1> QED BY <1>2, <1>3, <1>4, <1>5, <1>6, <1>7, <1>8, <1>9, <1>10 DEF Next, Loop

(* A held run starts no attempt of a task (launchReady), whatever else goes  *)
(* on in it.                                                                *)
THEOREM HeldRunsStartNothing == Spec => HoldStartsNothing
<1>1. TypeOK /\ [Next]_vars
        => [hold => \A t \in Tasks : task[t] = "ready" => task'[t] # "running"]_<<hold, task>>
  <2> SUFFICES ASSUME TypeOK, [Next]_vars, hold, UNCHANGED <<hold, task>> => FALSE
               PROVE \A t \in Tasks : task[t] = "ready" => task'[t] # "running"
    OBVIOUS
  <2>1. Next BY DEF vars, runVars
  <2> QED BY <2>1, HoldClosesLaunch DEF NothingStarts
<1> QED BY <1>1, TypeCorrect, PTL DEF Spec, HoldStartsNothing

=============================================================================
