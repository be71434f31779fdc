------------------------------ MODULE RunProofs ------------------------------
(***************************************************************************)
(* What becomes of a run and its tasks                                      *)
(***************************************************************************)
EXTENDS SchedulerProofs

-----------------------------------------------------------------------------
(* Data *)

(* Where the elements of a queue are once anything is pushed.                 *)
LEMMA Pushed ==
  ASSUME NEW S, NEW q \in Seq(S), NEW w
  PROVE /\ DOMAIN q = 1 .. Len(q) /\ Len(q) \in Nat
        /\ DOMAIN Append(q, w) = 1 .. Len(q) + 1
        /\ Append(q, w)[Len(q) + 1] = w
        /\ \A i \in 1 .. Len(q) : Append(q, w)[i] = q[i]
<1>1. q \in Seq(S \cup {w})
  <2>1. Len(q) \in Nat /\ q \in [1 .. Len(q) -> S] BY LenProperties
  <2>2. q \in [1 .. Len(q) -> S \cup {w}] BY <2>1
  <2> QED BY <2>1, <2>2, SeqDef
<1>2. /\ Append(q, w) \in Seq(S \cup {w}) /\ Len(Append(q, w)) = Len(q) + 1
      /\ Append(q, w)[Len(q) + 1] = w
      /\ \A i \in 1 .. Len(q) : Append(q, w)[i] = q[i]
  BY <1>1, AppendProperties
<1> QED BY <1>2, LenProperties

(* What is in a queue stays where it is while anything is pushed.             *)
LEMMA StaysInQueue ==
  ASSUME NEW S, NEW q \in Seq(S), NEW w, NEW i \in DOMAIN q
  PROVE i \in DOMAIN Append(q, w) /\ Append(q, w)[i] = q[i]
<1> DEFINE a == Append(q, w)
<1>1. /\ DOMAIN q = 1 .. Len(q) /\ Len(q) \in Nat /\ DOMAIN a = 1 .. Len(q) + 1
      /\ \A k \in 1 .. Len(q) : a[k] = q[k]
  BY Pushed
<1> HIDE DEF a
<1>2. i \in DOMAIN a /\ a[i] = q[i] BY <1>1
<1> QED BY <1>2 DEF a

(* Some numbers have a least one.                                            *)
LEMMA MinOfNat ==
  ASSUME NEW S, S # {}, S \subseteq Nat PROVE \E m \in S : \A x \in S : m <= x
<1> DEFINE R == {ss \in Nat \X Nat : ss[1] < ss[2]}
<1>1. IsWellFoundedOn(R, Nat) BY NatLessThanWellFounded DEF OpToRel
<1>2. \E m \in S : \A x \in S : <<x, m>> \notin R
  <2> HIDE DEF R
  <2> QED BY <1>1, WFMin
<1>3. PICK m \in S : \A x \in S : ~(x < m) BY <1>2
<1>4. \A x \in S : x \in Nat OBVIOUS
<1> QED BY <1>3, <1>4

(* The first of some positions is one of them.                               *)
LEMMA MinIn ==
  ASSUME NEW S, S # {}, S \subseteq Nat PROVE Min(S) \in S /\ \A x \in S : Min(S) <= x
<1>1. \E m \in S : \A x \in S : m <= x BY MinOfNat
<1> QED BY <1>1 DEF Min

-----------------------------------------------------------------------------
(* Where the loop is *)

(* The labels an action of the loop starts from; the world around it acts    *)
(* while the loop awaits.                                                    *)
LEMMA StartedFrom ==
  /\ Promote => pc \in {"pass", "promote"} /\ pc' \in {"promote", "merges"}
  /\ LaunchWork => pc \in {"merges", "launch"} /\ pc' \in {"merges", "launch", "idle", "outcome"}
  /\ HandleWake => pc = "park" /\ wake # <<>> /\ pc' \in {"pass", "outcome"}
  /\ HandleControl => pc = "park" /\ wake # <<>> /\ pc' = "pass"
  /\ Park => pc = "idle" /\ pc' = "park"
  /\ Finalize => pc = "idle" /\ pc' = "done"
  /\ Environment => pc \in {"merges", "launch", "park"} /\ pc' = pc
<1>1. Promote => pc \in {"pass", "promote"} /\ pc' \in {"promote", "merges"}
  BY DEF Promote, StartPass, BlockOnDependency, SkipOnCondition, FailOnCondition, OpenGate,
         MakeReady, EndPass, Promoting, Goto
<1>2. LaunchWork => pc \in {"merges", "launch"} /\ pc' \in {"merges", "launch", "idle", "outcome"}
  BY DEF LaunchWork, LaunchPendingMerge, AbandonPendingMerge, EndMerges, Launch, EndLaunch,
         loopVars, Goto
<1>3. HandleWake => pc = "park" /\ wake # <<>> /\ pc' \in {"pass", "outcome"}
  BY DEF HandleWake, HandleAttemptDone, HandleFinalized, HandleApproval, HandleRetryDue,
         HandleStop, Handled, Goto
<1>4. HandleControl => pc = "park" /\ wake # <<>> /\ pc' = "pass"
  BY DEF HandleControl, RejectCommand, StopRun, HoldRun, ReleaseRun, RestartTask, CancelTask,
         SuspendTask, ResumeTask, FollowUp, StopAndContinue, EditNothing, EditTask, Handled,
         Commanded, Goto
<1>5. Park => pc = "idle" /\ pc' = "park" BY DEF Park, Goto
<1>6. Finalize => pc = "idle" /\ pc' = "done" BY DEF Finalize, Goto
<1>7. Environment => pc \in {"merges", "launch", "park"} /\ pc' = pc
  BY DEF Environment, Workspace, WorkerReports, ReportSession, AskOperator, AnswerOperator,
         AnswerGate, BecomeDue, QueueForTree, Capture, CaptureThrows, MergeBack, FinishCapture,
         Capturing, TimerFires, Submit, EnvironmentTurn, loopVars
<1> QED BY <1>1, <1>2, <1>3, <1>4, <1>5, <1>6, <1>7

(* Applying an outcome takes the loop through its three labels and back.     *)
LEMMA SettlesFrom ==
  ASSUME WorkInvariant, ApplyOutcome
  PROVE /\ pc \in {"outcome", "cancel", "restart"} /\ pc' \in {"cancel", "restart", "pass", "merges"}
        /\ focus.task \in Tasks /\ Focused = focus.task
<1>1. pc \in {"outcome", "cancel", "restart"}
  BY DEF ApplyOutcome, Succeed, SkipByAgent, AskInput, BlockByAgent, EndSuspended, EndCancelled,
         Failing, RecoverTransient, NudgeSession, RetryAttempt, FailTask, Applying, SettleCancel,
         SettleRestart
<1>2. focus.task \in Tasks /\ focus.back \in {"pass", "merges"} BY <1>1, FocusType
<1>3. pc' \in {"cancel", "restart", "pass", "merges"}
  BY <1>2
  DEF ApplyOutcome, Succeed, SkipByAgent, AskInput, BlockByAgent, EndSuspended, EndCancelled,
      Failing, RecoverTransient, NudgeSession, RetryAttempt, FailTask, Applying, SettleCancel,
      SettleRestart, Goto
<1> QED BY <1>1, <1>2, <1>3 DEF Focused

-----------------------------------------------------------------------------
(* No handler asks for a transition the tables forbid *)

(* Before the loop runs no task has been started, and from then on the run   *)
(* is running or paused until it ends (execute, applyHold).                  *)
RunsOn ==
  /\ pc \in {"start", "preflight"}
       => \A t \in Tasks : task[t] \in {"success", "pending", "skipped", "failed", "blocked"}
  /\ pc = "start" => \A t \in Tasks : task[t] \in {"success", "pending"}
  /\ pc \notin {"start", "done"} => runState \in {"running", "paused"}

(* Every task stays where it is or goes where the table lets it.             *)
Legally == \A t \in Tasks : task'[t] # task[t] => task'[t] \in TaskTransitions[task[t]]

(* The table, state by state.                                                *)
LEMMA Table ==
  /\ TaskTransitions["pending"]
       = {"ready", "skipped", "blocked", "cancelled", "awaiting_approval", "failed"}
  /\ TaskTransitions["ready"] = {"running", "pending", "skipped", "blocked", "cancelled"}
  /\ TaskTransitions["running"] = RunningExits \cup {"waiting"}
  /\ TaskTransitions["waiting"] = RunningExits \cup {"running"}
  /\ TaskTransitions["awaiting_approval"] = {"success", "failed", "cancelled", "pending"}
  /\ TaskTransitions["needs_input"] = {"pending", "ready", "cancelled", "failed"}
  /\ TaskTransitions["suspended"]
       = {"pending", "ready", "cancelled", "failed", "skipped", "blocked"}
  /\ TaskTransitions["success"] = {"pending"} /\ TaskTransitions["failed"] = {"pending", "ready"}
  /\ TaskTransitions["blocked"] = {"pending"} /\ TaskTransitions["skipped"] = {"pending"}
  /\ TaskTransitions["cancelled"] = {"pending"}
  BY DEF TaskTransitions

(* A task that takes one legal step, beside tasks that stay.                 *)
LEMMA OneMoves ==
  ASSUME TypeOK, NEW t, NEW s, task' = [task EXCEPT ![t] = s],
         t \in Tasks => s = task[t] \/ s \in TaskTransitions[task[t]]
  PROVE Legally
  BY DEF Legally, TypeOK

(* Ending badly takes the task where the table lets it, and those it blocks  *)
(* from pending or ready.                                                    *)
LEMMA BadEndLegal ==
  ASSUME TypeOK, NEW t \in Tasks, NEW s, EndBadly(t, s),
         s = task[t] \/ s \in TaskTransitions[task[t]]
  PROVE Legally
<1> SUFFICES ASSUME NEW u \in Tasks, task'[u] # task[u] PROVE task'[u] \in TaskTransitions[task[u]]
  BY DEF Legally
<1>1. \/ u = t /\ task'[u] = s
      \/ task[u] \in {"pending", "ready"} /\ task'[u] = "blocked"
  BY DEF EndBadly
<1> QED BY <1>1, Table

(* A denied prompt returns its worker to its turn.                           *)
LEMMA DeniedLegal ==
  ASSUME TypeOK, NEW S, task' = Settled(S) PROVE Legally
<1> SUFFICES ASSUME NEW u \in Tasks, task'[u] # task[u] PROVE task'[u] \in TaskTransitions[task[u]]
  BY DEF Legally
<1>1. task[u] = "waiting" /\ task'[u] = "running" BY DEF Settled
<1> QED BY <1>1, Table

(* What can be restarted may return to pending.                              *)
LEMMA RestartLegal ==
  ASSUME TypeOK, NEW t \in Tasks, NEW b, Restart(t, b) PROVE Legally
<1>1. CASE UNCHANGED task BY <1>1 DEF Legally
<1>2. CASE task[t] \in RestartableStates /\ task' = [task EXCEPT ![t] = "pending"]
  <2>1. "pending" \in TaskTransitions[task[t]]
    BY <1>2, Table DEF RestartableStates, TerminalStates
  <2> QED BY <1>2, <2>1, OneMoves
<1> QED BY <1>1, <1>2 DEF Restart

(* The start of a run.                                                       *)
LEMMA StartupLegal ==
  ASSUME WorkInvariant, RunsOn, Startup PROVE Legally /\ RunsOn'
<1>0. TypeOK BY DEF WorkInvariant
<1>1. CASE Prepare
  <2>1. ASSUME NEW t \in Tasks
        PROVE /\ task'[t] \in {"success", "pending", "skipped"}
              /\ task'[t] # task[t] => task'[t] \in TaskTransitions[task[t]]
    <3>1. task[t] \in {"success", "pending"} BY <1>1 DEF Prepare, RunsOn
    <3>2. \/ task'[t] = task[t]
          \/ task'[t] = "pending"
          \/ task[t] = "pending" /\ task'[t] = "skipped"
      BY <1>1 DEF Prepare, Prepared
    <3> QED BY <3>1, <3>2, Table
  <2>2. pc' = "preflight" /\ runState' = "running" BY <1>1 DEF Prepare, Goto
  <2> QED BY <2>1, <2>2 DEF Legally, RunsOn
<1>2. ASSUME NEW t \in Tasks, FailPreflight(t) PROVE Legally /\ RunsOn'
  <2>1. /\ pc = "preflight" /\ EndBadly(t, "failed") /\ task[t] \notin TerminalStates
        /\ pc' = pc /\ runState' = runState
    BY <1>2 DEF FailPreflight, EndBadly, loopVars
  <2>2. task[t] = "pending" BY <2>1 DEF RunsOn, TerminalStates
  <2>3. Legally BY <1>0, <2>1, <2>2, BadEndLegal, Table
  <2>4. \A u \in Tasks : task'[u] = task[u] \/ task'[u] \in {"failed", "blocked"}
    BY <2>1 DEF EndBadly
  <2> QED BY <2>1, <2>3, <2>4 DEF RunsOn
<1>3. CASE EnterLoop
  <2>1. pc = "preflight" /\ pc' = "pass" /\ UNCHANGED <<task, runState>>
    BY <1>3 DEF EnterLoop, Goto, runVars
  <2> QED BY <2>1 DEF Legally, RunsOn
<1> QED BY <1>1, <1>2, <1>3 DEF Startup

(* The promotion pass takes a task out of pending.                           *)
LEMMA PromoteLegal ==
  ASSUME WorkInvariant, Promote PROVE Legally
<1>0. TypeOK BY DEF WorkInvariant
<1>1. CASE StartPass \/ EndPass BY <1>1 DEF StartPass, EndPass, Legally
<1>2. ASSUME NEW i \in DOMAIN Topo, Promoting(i)
      PROVE Topo[i] \in Tasks /\ task[Topo[i]] = "pending"
  BY <1>2, GraphAssumption DEF Promoting, Promotable
<1>3. CASE FailOnCondition
  <2> PICK i \in DOMAIN Topo : Promoting(i) /\ EndBadly(Topo[i], "failed")
    BY <1>3 DEF FailOnCondition
  <2> QED BY <1>0, <1>2, BadEndLegal, Table
<1>4. CASE BlockOnDependency \/ SkipOnCondition \/ OpenGate \/ MakeReady
  <2> PICK i \in DOMAIN Topo, s \in {"blocked", "skipped", "awaiting_approval", "ready"} :
        Promoting(i) /\ task' = [task EXCEPT ![Topo[i]] = s]
    BY <1>4 DEF BlockOnDependency, SkipOnCondition, OpenGate, MakeReady
  <2> QED BY <1>0, <1>2, OneMoves, Table
<1> QED BY <1>1, <1>3, <1>4 DEF Promote

(* A launch runs a task that is ready.                                       *)
LEMMA LaunchLegal ==
  ASSUME WorkInvariant, LaunchWork PROVE Legally
<1>0. TypeOK BY DEF WorkInvariant
<1>1. CASE Launch
  <2> PICK i \in cursor .. Len(Topo) : Launchable(i) /\ task' = [task EXCEPT ![Topo[i]] = "running"]
    BY <1>1 DEF Launch
  <2>1. task[Topo[i]] = "ready" BY DEF Launchable
  <2> QED BY <1>0, <2>1, OneMoves, Table
<1>2. CASE ~Launch
  BY <1>2 DEF LaunchWork, LaunchPendingMerge, AbandonPendingMerge, EndMerges, EndLaunch, Legally
<1> QED BY <1>1, <1>2

(* An answer ends a gate that awaits it, and a stop denies the prompts.      *)
LEMMA WakeLegal ==
  ASSUME WorkInvariant, HandleWake PROVE Legally
<1>0. TypeOK BY DEF WorkInvariant
<1>1. CASE HandleApproval
  <2> PICK w \in Handled : HandleApproval!(w) BY <1>1 DEF HandleApproval
  <2>1. w.task \in Tasks BY <1>0, HeadOfQueue, ReportType
  <2>2. CASE task[w.task] # "awaiting_approval" BY <2>2 DEF Legally
  <2>3. CASE task[w.task] = "awaiting_approval"
    BY <1>0, <2>1, <2>3, OneMoves, BadEndLegal, Table
  <2> QED BY <2>2, <2>3
<1>2. CASE HandleStop
  <2>1. task' = Settled(Tasks) BY <1>2 DEF HandleStop, ApplyStop
  <2> QED BY <1>0, <2>1, DeniedLegal
<1>3. CASE HandleAttemptDone \/ HandleFinalized \/ HandleRetryDue
  BY <1>3 DEF HandleAttemptDone, HandleFinalized, HandleRetryDue, Legally
<1> QED BY <1>1, <1>2, <1>3 DEF HandleWake

(* An outcome is applied to a task that is still active.                     *)
LEMMA OutcomeLegal ==
  ASSUME WorkInvariant, ApplyOutcome PROVE Legally
<1>0. TypeOK BY DEF WorkInvariant
<1>1. Focused \in Tasks BY SettlesFrom
<1>2. CASE SettleCancel
  <2>1. CASE UNCHANGED task BY <2>1 DEF Legally
  <2>2. CASE CancelsLate /\ Became("cancelled")
    <3>1. task[Focused] \in TaskState \ TerminalStates BY <1>0, <1>1, <2>2 DEF TypeOK, CancelsLate
    <3>2. "cancelled" \in TaskTransitions[task[Focused]]
      BY <3>1, Table DEF TaskState, TerminalStates, RunningExits
    <3> QED BY <1>0, <2>2, <3>2, OneMoves DEF Became
  <2> QED BY <1>2, <2>1, <2>2 DEF SettleCancel
<1>3. CASE SettleRestart
  BY <1>0, <1>1, <1>3, RestartLegal DEF SettleRestart, Legally
<1>4. CASE ~SettleCancel /\ ~SettleRestart
  <2>1. pc = "outcome"
    BY <1>4 DEF ApplyOutcome, Succeed, SkipByAgent, AskInput, BlockByAgent, EndSuspended,
                EndCancelled, Failing, RecoverTransient, NudgeSession, RetryAttempt, FailTask, Applying
  <2>2. task[Focused] \in ActiveStates
    BY <1>1, <2>1 DEF WorkInvariant, ActiveHasWork, HasWork, Focused
  <2>3. \A s \in {"success", "skipped", "needs_input", "blocked", "suspended", "cancelled",
                  "ready", "failed"} : s \in TaskTransitions[task[Focused]]
    BY <2>2, Table DEF ActiveStates, RunningExits
  <2> QED
    BY <1>0, <1>1, <1>4, <2>3, OneMoves, BadEndLegal
    DEF ApplyOutcome, Succeed, SkipByAgent, AskInput, BlockByAgent, EndSuspended, EndCancelled,
        RecoverTransient, NudgeSession, RetryAttempt, FailTask, Became
<1> QED BY <1>2, <1>3, <1>4

(* A command returns a task to pending from the states its checks allow.     *)
LEMMA ControlLegal ==
  ASSUME WorkInvariant, HandleControl PROVE Legally
<1>0. TypeOK BY DEF WorkInvariant
<1>1. CASE UNCHANGED task BY <1>1 DEF Legally
<1>2. CASE StopRun
  <2>1. task' = Settled(Tasks) BY <1>2 DEF StopRun, ApplyStop
  <2> QED BY <1>0, <2>1, DeniedLegal
<1>3. ASSUME NEW t, AbortWorker(t) PROVE Legally
  BY <1>0, <1>3, DeniedLegal DEF AbortWorker
<1>4. CASE RestartTask \/ ResumeTask \/ EditNothing
  <2>1. \/ UNCHANGED task
        \/ \E w \in Handled, k \in {"restart", "resumeTask", "edit"}, b \in BOOLEAN :
             Commanded(w, k) /\ Restart(w.command.task, b)
    BY <1>4 DEF RestartTask, ResumeTask, EditNothing
  <2>2. ASSUME NEW w \in Handled, NEW k \in {"restart", "resumeTask", "edit"}, NEW b \in BOOLEAN,
               Commanded(w, k), Restart(w.command.task, b)
        PROVE Legally
    <3>1. w.command.task \in Tasks BY <1>0, <2>2, CommandedTask
    <3> QED BY <1>0, <2>2, <3>1, RestartLegal
  <2> QED BY <1>1, <2>1, <2>2
<1>5. CASE FollowUp
  <2> PICK w \in Handled : FollowUp!(w) BY <1>5 DEF FollowUp
  <2>1. "pending" \in TaskTransitions[task[w.command.task]]
    BY Table DEF CanFollowUp, FollowUpStates
  <2> QED BY <1>0, <2>1, OneMoves
<1>6. CASE EditTask
  <2> PICK w \in Handled : EditTask!(w) BY <1>6 DEF EditTask
  <2>1. CASE AbortWorker(w.command.task) BY <1>3, <2>1
  <2>2. CASE RestartPlan(w.command.task) = "restart"
             /\ task' = [task EXCEPT ![w.command.task] = "pending"]
    <3>1. task[w.command.task] \in {"failed", "blocked", "cancelled"}
      BY <2>2 DEF RestartPlan, CanEdit, EditableStates
    <3>2. "pending" \in TaskTransitions[task[w.command.task]] BY <3>1, Table
    <3> QED BY <1>0, <2>2, <3>2, OneMoves
  <2>3. CASE UNCHANGED task BY <1>1, <2>3
  <2> QED BY <2>1, <2>2, <2>3
<1>7. CASE CancelTask \/ SuspendTask \/ StopAndContinue
  BY <1>1, <1>3, <1>7 DEF CancelTask, SuspendTask, StopAndContinue
<1> QED
  BY <1>1, <1>2, <1>4, <1>5, <1>6, <1>7 DEF HandleControl, RejectCommand, HoldRun, ReleaseRun

(* A worker that asks waits, and one that is answered works on.              *)
LEMMA EnvironmentLegal ==
  ASSUME WorkInvariant, Environment PROVE Legally
<1>0. TypeOK BY DEF WorkInvariant
<1>1. ASSUME NEW t \in Tasks, AskOperator(t) \/ AnswerOperator(t) PROVE Legally
  BY <1>0, <1>1, OneMoves, Table DEF AskOperator, AnswerOperator
<1> QED
  BY <1>1 DEF Environment, Workspace, WorkerReports, ReportSession, AnswerGate, BecomeDue,
         QueueForTree, Capture, CaptureThrows, MergeBack, FinishCapture, TimerFires, Submit, Legally

(* Every step is legal for every task.                                       *)
LEMMA StepLegal ==
  ASSUME WorkInvariant, RunsOn, [Next]_vars PROVE Legally
<1>1. CASE Loop
  <2>1. CASE Finalize
    <3> SUFFICES ASSUME NEW t \in Tasks, task'[t] # task[t]
                 PROVE task'[t] \in TaskTransitions[task[t]]
      BY DEF Legally
    <3>1. task[t] \in {"pending", "ready"} /\ task'[t] = "cancelled" BY <2>1 DEF Finalize
    <3> QED BY <3>1, Table
  <2>2. CASE Park BY <2>2 DEF Park, Legally
  <2> QED
    BY <1>1, <2>1, <2>2, StartupLegal, PromoteLegal, LaunchLegal, WakeLegal, OutcomeLegal,
       ControlLegal DEF Loop
<1>2. CASE UNCHANGED vars BY <1>2 DEF vars, Legally
<1> QED BY <1>1, <1>2, EnvironmentLegal DEF Next, Rest

(* The run is held and released by its operator, and otherwise keeps its     *)
(* state until it ends.                                                      *)
LEMMA StateOfRun ==
  ASSUME [Next]_vars, ~Prepare, ~Finalize
  PROVE runState' = runState \/ (HandleControl /\ runState' \in {"running", "paused"})
<1>1. CASE Startup \/ Promote \/ LaunchWork \/ HandleWake \/ ApplyOutcome \/ Park
  BY <1>1
  DEF Startup, FailPreflight, EnterLoop, Promote, StartPass, BlockOnDependency, SkipOnCondition,
      FailOnCondition, OpenGate, MakeReady, EndPass, LaunchWork, LaunchPendingMerge,
      AbandonPendingMerge, EndMerges, Launch, EndLaunch, HandleWake, HandleAttemptDone,
      HandleFinalized, HandleApproval, HandleRetryDue, HandleStop, ApplyOutcome, Succeed,
      SkipByAgent, AskInput, BlockByAgent, EndSuspended, EndCancelled, RecoverTransient,
      NudgeSession, RetryAttempt, FailTask, SettleCancel, SettleRestart, Park, EndBadly, runVars
<1>2. CASE HandleControl
  BY <1>2 DEF HandleControl, RejectCommand, StopRun, HoldRun, ReleaseRun, RestartTask, CancelTask,
              SuspendTask, ResumeTask, FollowUp, StopAndContinue, EditNothing, EditTask, runVars
<1>3. CASE Environment
  BY <1>3 DEF Environment, Workspace, WorkerReports, ReportSession, AskOperator, AnswerOperator,
         AnswerGate, BecomeDue, QueueForTree, Capture, CaptureThrows, MergeBack, FinishCapture,
         TimerFires, Submit, runVars
<1>4. CASE UNCHANGED vars BY <1>4 DEF vars, runVars
<1> QED BY <1>1, <1>2, <1>3, <1>4 DEF Next, Loop, Rest

(* The loop runs on until it ends the run.                                   *)
LEMMA StillRunsOn ==
  ASSUME WorkInvariant, RunsOn, [Next]_vars PROVE RunsOn'
<1>1. CASE Startup BY <1>1, StartupLegal
<1>2. CASE Finalize
  <2>1. pc' = "done" BY <1>2, StartedFrom
  <2> QED BY <2>1 DEF RunsOn
<1>3. CASE ~Startup /\ ~Finalize
  <2>1. runState' = runState \/ runState' \in {"running", "paused"}
    BY <1>3, StateOfRun DEF Startup
  <2>2. \/ pc \notin {"start", "done"} /\ pc' \notin {"start", "preflight"}
        \/ UNCHANGED <<pc, task, runState>>
    BY <1>3, StartedFrom, SettlesFrom DEF Next, Loop, Rest, vars, loopVars, runVars
  <2> QED BY <2>1, <2>2 DEF RunsOn
<1> QED BY <1>1, <1>2, <1>3

(* The run's own state follows its table.                                    *)
LEMMA RunLegal ==
  ASSUME WorkInvariant, RunsOn, PausedIsHeld, [Next]_vars, runState' # runState
  PROVE runState' \in RunTransitions[runState]
<1>1. CASE Prepare
  <2>1. runState = "created" /\ runState' = "running"
    BY <1>1 DEF Prepare, WorkInvariant, StartsQuietly
  <2> QED BY <2>1 DEF RunTransitions
<1>2. CASE Finalize
  <2>1. runState \in {"running", "paused"} BY <1>2, StartedFrom DEF RunsOn
  <2>2. runState' \in {"interrupted", "paused", "failed", "completed"} BY <1>2 DEF Finalize
  <2> QED BY <2>1, <2>2 DEF RunTransitions
<1>3. CASE ~Prepare /\ ~Finalize
  <2>1. HandleControl /\ runState' \in {"running", "paused"} BY <1>3, StateOfRun
  <2>2. runState \in {"running", "paused"} BY <2>1, StartedFrom DEF RunsOn
  <2>3. (runState = "running" /\ runState' = "paused") \/ (runState = "paused" /\ runState' = "running")
    BY <2>1, <2>2
  <2> QED BY <2>3 DEF RunTransitions
<1> QED BY <1>1, <1>2, <1>3

(* The run goes on being one that started.                                   *)
THEOREM RunsOnCorrect == Spec => []RunsOn
<1>1. Init => RunsOn BY DEF Init, RunsOn
<1>2. WorkInvariant /\ RunsOn /\ [Next]_vars => RunsOn' BY StillRunsOn
<1> QED BY <1>1, <1>2, WorkCorrect, PTL DEF Spec

(* No handler ever asks for a transition of a task or of the run that the    *)
(* tables of states.ts and run.ts forbid: setState and transitionRun never   *)
(* throw.                                                                    *)
THEOREM TransitionsAreLegal == Spec => LegalTransitions
<1>1. WorkInvariant /\ RunsOn /\ PausedIsHeld /\ [Next]_vars
        => [/\ \A t \in Tasks : task'[t] # task[t] => task'[t] \in TaskTransitions[task[t]]
            /\ runState' # runState => runState' \in RunTransitions[runState]]_<<task, runState>>
  BY StepLegal, RunLegal DEF Legally
<1> QED BY <1>1, WorkCorrect, RunsOnCorrect, ObserversReadTheHold, PTL DEF Spec, LegalTransitions

-----------------------------------------------------------------------------
(* An accepted cancel is not forgotten *)

(* Only two handlers drop a cancel: the one that ends the task as cancelled,  *)
(* and the one that looks at what its attempt left (applyPendingCancel).      *)
LEMMA CancelKept ==
  ASSUME [Next]_vars, ~EndCancelled, ~SettleCancel PROVE cancelReq \subseteq cancelReq'
<1>1. CASE Startup \/ Promote \/ LaunchWork \/ HandleWake \/ ApplyOutcome \/ Park \/ Finalize
  BY <1>1
  DEF Startup, Prepare, FailPreflight, EnterLoop, Promote, StartPass, BlockOnDependency, SkipOnCondition,
      FailOnCondition, OpenGate, MakeReady, EndPass, Promoting, LaunchWork, LaunchPendingMerge,
      AbandonPendingMerge, EndMerges, Launch, EndLaunch, HandleWake, HandleAttemptDone,
      HandleFinalized, HandleApproval, HandleRetryDue, HandleStop, ApplyOutcome, Succeed,
      SkipByAgent, AskInput, BlockByAgent, EndSuspended, RecoverTransient,
      NudgeSession, RetryAttempt, FailTask, SettleRestart, Park, Finalize, requestVars
<1>2. CASE HandleControl
  BY <1>2 DEF HandleControl, RejectCommand, StopRun, HoldRun, ReleaseRun, RestartTask, CancelTask,
              SuspendTask, ResumeTask, FollowUp, StopAndContinue, EditNothing, EditTask, requestVars
<1>3. CASE Environment
  BY <1>3 DEF Environment, Workspace, WorkerReports, ReportSession, AskOperator, AnswerOperator,
         AnswerGate, BecomeDue, QueueForTree, Capture, CaptureThrows, MergeBack, FinishCapture,
         TimerFires, Submit, requestVars
<1>4. CASE UNCHANGED vars BY <1>4 DEF vars, requestVars
<1> QED BY <1>1, <1>2, <1>3, <1>4 DEF Next, Loop, Rest

(* By the time the scheduler drops an accepted cancel the task has ended,     *)
(* whatever its attempt reported (applyPendingCancel).                        *)
THEOREM CancelsAreKept == Spec => CancelSettles
<1>1. WorkInvariant /\ [Next]_vars => \A t \in cancelReq \ cancelReq' : task'[t] \in TerminalStates
  <2> SUFFICES ASSUME WorkInvariant, [Next]_vars, NEW t \in cancelReq \ cancelReq'
               PROVE task'[t] \in TerminalStates
    OBVIOUS
  <2>0. TypeOK /\ t \in Tasks BY DEF WorkInvariant, TypeOK
  <2>1. EndCancelled \/ SettleCancel BY CancelKept
  <2>2. t = Focused /\ (task' = [task EXCEPT ![t] = "cancelled"]
                        \/ (t \in cancelReq /\ ~CancelsLate /\ task' = task))
    BY <2>1 DEF EndCancelled, SettleCancel, Became
  <2> QED BY <2>0, <2>2 DEF CancelsLate, TerminalStates, TypeOK
<1> QED BY <1>1, WorkCorrect, PTL DEF Spec, CancelSettles

-----------------------------------------------------------------------------
(* A run that ends is settled *)

(* A command whose sender waits for an answer is in the queue. *)
AnswersAhead ==
  \A id \in unsettled : \E i \in DOMAIN wake : wake[i].kind = "control" /\ wake[i].id = id

(* The promotion pass has looked at every task it has passed, and a launch   *)
(* pass begins when there is no task left that it should have moved.  The    *)
(* merges of a stopping run are abandoned between the two.                   *)
PassHasLooked ==
  /\ pc = "promote" => Stopping \/ \A j \in DOMAIN Topo : j < cursor => ~Promotable(j)
  /\ pc \in {"merges", "launch", "idle"} =>
       Stopping \/ hold \/ \A j \in DOMAIN Topo : ~Promotable(j)
  /\ pc \in Settling /\ focus.back = "merges" => Stopping

(* EndedIsSettled holds because a run that is not stopping ends when nothing  *)
(* is left to promote.                                                       *)
EndInvariant == AnswersAhead /\ PassHasLooked /\ EndedIsSettled

(* Once the run stops it goes on stopping: an ending or a stop may only       *)
(* replace the reason.                                                       *)
LEMMA StopsForGood ==
  ASSUME WorkInvariant, [Next]_vars, ~Prepare PROVE UNCHANGED stop \/ Stopping'
<1>0. TypeOK BY DEF WorkInvariant
<1>1. ASSUME NEW m \in {"wait", "cancel"}, NEW c, ApplyStop(m, c) PROVE UNCHANGED stop \/ Stopping'
  <2>1. [mode |-> m, cause |-> c].mode = m /\ NoStop.mode = "none" BY DEF NoStop
  <2> QED BY <1>1, <2>1 DEF ApplyStop, Stopping
<1>2. ASSUME NEW t, NEW s, EndBadly(t, s) PROVE UNCHANGED stop \/ Stopping'
  <2>1. [mode |-> StopMode, cause |-> "on_failure"] # NoStop BY OptionsAssumption DEF NoStop
  <2> QED BY <1>2, <2>1 DEF EndBadly, Stopping
<1>3. ASSUME stop' = [mode |-> "wait", cause |-> "pause"] PROVE Stopping'
  BY <1>3 DEF Stopping, NoStop
<1>4. CASE Startup \/ Promote \/ LaunchWork \/ Park \/ Finalize
  BY <1>2, <1>3, <1>4
  DEF Startup, FailPreflight, EnterLoop, Promote, StartPass, BlockOnDependency, SkipOnCondition,
      FailOnCondition, OpenGate, MakeReady, EndPass, LaunchWork, LaunchPendingMerge,
      AbandonPendingMerge, EndMerges, Launch, EndLaunch, Park, Finalize, runVars
<1>5. CASE HandleWake
  <2>1. CASE HandleStop
    <3> PICK w \in Handled : HandleStop!(w) BY <2>1 DEF HandleStop
    <3>1. w.mode \in {"wait", "cancel"} BY <1>0, HeadOfQueue, ReportType
    <3> QED BY <1>1, <3>1
  <2> QED
    BY <1>2, <1>5, <2>1
    DEF HandleWake, HandleAttemptDone, HandleFinalized, HandleApproval, HandleRetryDue, runVars
<1>6. CASE ApplyOutcome
  BY <1>2, <1>3, <1>6
  DEF ApplyOutcome, Succeed, SkipByAgent, AskInput, BlockByAgent, EndSuspended, EndCancelled,
      RecoverTransient, NudgeSession, RetryAttempt, FailTask, SettleCancel, SettleRestart, runVars
<1>7. CASE HandleControl
  <2>1. CASE StopRun
    <3> PICK w \in Handled : StopRun!(w) BY <2>1 DEF StopRun
    <3>1. w.command.mode \in {"wait", "cancel"} BY <1>0, CommandedTask
    <3> QED BY <1>1, <3>1
  <2> QED
    BY <1>7, <2>1
    DEF HandleControl, RejectCommand, HoldRun, ReleaseRun, RestartTask, CancelTask, SuspendTask,
        ResumeTask, FollowUp, StopAndContinue, EditNothing, EditTask, runVars
<1>8. CASE Environment
  BY <1>8 DEF Environment, Workspace, WorkerReports, ReportSession, AskOperator, AnswerOperator,
         AnswerGate, BecomeDue, QueueForTree, Capture, CaptureThrows, MergeBack, FinishCapture,
         TimerFires, Submit, runVars
<1>9. CASE UNCHANGED vars BY <1>9 DEF vars, runVars
<1> QED BY <1>4, <1>5, <1>6, <1>7, <1>8, <1>9 DEF Next, Loop, Rest

(* A sender's command stays in the queue while nothing is taken from it.     *)
LEMMA AnswersKept ==
  ASSUME TypeOK, AnswersAhead, unsettled' \subseteq unsettled,
         UNCHANGED wake \/ \E w : wake' = Append(wake, w)
  PROVE AnswersAhead'
<1> SUFFICES ASSUME NEW id \in unsettled'
             PROVE \E i \in DOMAIN wake' : wake'[i].kind = "control" /\ wake'[i].id = id
  BY DEF AnswersAhead
<1>1. PICK i \in DOMAIN wake : wake[i].kind = "control" /\ wake[i].id = id BY DEF AnswersAhead
<1>2. i \in DOMAIN wake' /\ wake'[i] = wake[i]
  <2>1. wake \in Seq(WakeRecord) BY DEF TypeOK
  <2>2. CASE \E w : wake' = Append(wake, w)
    <3> PICK w : wake' = Append(wake, w) BY <2>2
    <3> QED BY <1>1, <2>1, StaysInQueue
  <2>3. CASE UNCHANGED wake BY <1>1, <2>3
  <2> QED BY <2>2, <2>3
<1> QED BY <1>1, <1>2

(* And while what is taken from it is another wake.                          *)
LEMMA AnswersTaken ==
  ASSUME TypeOK, AnswersAhead, wake # <<>>,
         \A id \in unsettled' : id \in unsettled /\ ~(Head(wake).kind = "control" /\ Head(wake).id = id),
         wake' = Tail(wake) \/ \E w : wake' = Append(Tail(wake), w)
  PROVE AnswersAhead'
<1> SUFFICES ASSUME NEW id \in unsettled'
             PROVE \E i \in DOMAIN wake' : wake'[i].kind = "control" /\ wake'[i].id = id
  BY DEF AnswersAhead
<1>1. PICK i \in DOMAIN wake : wake[i].kind = "control" /\ wake[i].id = id BY DEF AnswersAhead
<1>2. /\ DOMAIN wake = 1 .. Len(wake) /\ Len(wake) \in Nat \ {0} /\ Head(wake) = wake[1]
      /\ DOMAIN Tail(wake) = 1 .. Len(wake) - 1
      /\ \A k \in 1 .. Len(wake) - 1 : Tail(wake)[k] = wake[k + 1]
  BY QueueTail DEF TypeOK
<1>3. i # 1 BY <1>1, <1>2
<1>4. i - 1 \in DOMAIN Tail(wake) /\ Tail(wake)[i - 1] = wake[i] BY <1>2, <1>3
<1>5. Tail(wake) \in Seq(WakeRecord) BY HeadTailProperties DEF TypeOK
<1>6. i - 1 \in DOMAIN wake' /\ wake'[i - 1] = wake[i] BY <1>4, <1>5, StaysInQueue
<1> QED BY <1>1, <1>6

(* Every sender's command stays in the queue until it is answered            *)
(* (handleControl, drainControls).                                           *)
LEMMA AnswersStep ==
  ASSUME WorkInvariant, AnswersAhead, [Next]_vars PROVE AnswersAhead'
<1>0. TypeOK /\ wake \in Seq(WakeRecord) BY DEF WorkInvariant, TypeOK
<1>1. CASE UNCHANGED <<unsettled, wake>> BY <1>0, <1>1, AnswersKept
<1>2. CASE Startup \/ Promote \/ LaunchWork \/ ApplyOutcome \/ Park
  <2>1. UNCHANGED unsettled /\ (UNCHANGED wake \/ \E w : wake' = Append(wake, w))
    BY <1>2
    DEF Startup, Prepare, FailPreflight, EnterLoop, Promote, StartPass, BlockOnDependency,
        SkipOnCondition, FailOnCondition, OpenGate, MakeReady, EndPass, Promoting, LaunchWork,
        LaunchPendingMerge, AbandonPendingMerge, EndMerges, Launch, EndLaunch, ApplyOutcome,
        Succeed, SkipByAgent, AskInput, BlockByAgent, EndSuspended, EndCancelled, Failing,
        RecoverTransient, NudgeSession, RetryAttempt, FailTask, Applying, SettleCancel,
        SettleRestart, Park, senderVars
  <2> QED BY <1>0, <2>1, AnswersKept
<1>3. CASE HandleWake
  <2>1. UNCHANGED unsettled /\ wake # <<>> /\ Head(wake).kind # "control" /\ wake' = Tail(wake)
    BY <1>3 DEF HandleWake, HandleAttemptDone, HandleFinalized, HandleApproval, HandleRetryDue,
                HandleStop, Handled, Took, senderVars
  <2> QED BY <1>0, <2>1, AnswersTaken
<1>4. CASE HandleControl
  <2>1. /\ wake # <<>> /\ unsettled' = unsettled \ {Head(wake).id}
        /\ wake' = Tail(wake) \/ \E w : wake' = Append(Tail(wake), w)
    BY <1>4 DEF HandleControl, RejectCommand, StopRun, HoldRun, ReleaseRun, RestartTask, CancelTask,
                SuspendTask, ResumeTask, FollowUp, StopAndContinue, EditNothing, EditTask, Handled,
                Took, Commanded
  <2> QED BY <1>0, <2>1, AnswersTaken
<1>5. CASE Finalize
  <2> SUFFICES ASSUME NEW id \in unsettled' PROVE FALSE BY DEF AnswersAhead
  <2>1. id \in unsettled /\ id \notin {wake[i].id : i \in {j \in DOMAIN wake : wake[j].kind = "control"}}
    BY <1>5 DEF Finalize
  <2> QED BY <2>1 DEF AnswersAhead
<1>6. CASE Environment
  <2>1. ASSUME NEW c \in Commands, Submit(c) PROVE AnswersAhead'
    <3>1. /\ unsettled' = unsettled \cup {submitted + 1}
          /\ wake' = Append(wake, Control(c, submitted + 1))
      BY <2>1 DEF Submit, Pushes
    <3>2. /\ DOMAIN wake = 1 .. Len(wake) /\ Len(wake) \in Nat /\ DOMAIN wake' = 1 .. Len(wake) + 1
          /\ wake'[Len(wake) + 1] = Control(c, submitted + 1)
          /\ \A i \in 1 .. Len(wake) : wake'[i] = wake[i]
      BY <1>0, <3>1, Pushed
    <3>3. Len(wake) + 1 \in DOMAIN wake' BY <3>2
    <3>4. Control(c, submitted + 1).kind = "control" /\ Control(c, submitted + 1).id = submitted + 1
      BY DEF Control
    <3>5. \A i \in DOMAIN wake : i \in DOMAIN wake' /\ wake'[i] = wake[i]
      BY <1>0, <3>1, StaysInQueue
    <3> SUFFICES ASSUME NEW id \in unsettled'
                 PROVE \E i \in DOMAIN wake' : wake'[i].kind = "control" /\ wake'[i].id = id
      BY DEF AnswersAhead
    <3>6. CASE id \in unsettled BY <3>5, <3>6 DEF AnswersAhead
    <3>7. CASE id = submitted + 1 BY <3>2, <3>3, <3>4, <3>7
    <3> QED BY <3>1, <3>6, <3>7
  <2>2. ASSUME ~\E c \in Commands : Submit(c) PROVE AnswersAhead'
    <3>1. UNCHANGED unsettled /\ (UNCHANGED wake \/ \E w : wake' = Append(wake, w))
      BY <1>6, <2>2
      DEF Environment, Workspace, WorkerReports, ReportSession, AskOperator, AnswerOperator,
          AnswerGate, BecomeDue, QueueForTree, Capture, CaptureThrows, MergeBack, FinishCapture,
          TimerFires, Pushes, senderVars
    <3> QED BY <1>0, <3>1, AnswersKept
  <2> QED BY <2>1, <2>2
<1>7. CASE UNCHANGED vars BY <1>1, <1>7 DEF vars, senderVars
<1> QED BY <1>2, <1>3, <1>4, <1>5, <1>6, <1>7 DEF Next, Loop, Rest

(* The verdict on a task stays while its dependencies neither end nor change  *)
(* how they ended.                                                           *)
SameEnds(u) == task'[u] = task[u] \/ (task[u] \notin TerminalStates /\ task'[u] \notin TerminalStates)

(* What the dependencies of a task say stays while none of them ends or     *)
(* comes back from its end. *)
LEMMA VerdictStays ==
  ASSUME NEW t \in Tasks, \A j \in DOMAIN DependsOn[t] : SameEnds(DependsOn[t][j])
  PROVE Verdict(t)' = Verdict(t)
<1>1. \A j \in DOMAIN DependsOn[t] :
        DepSatisfied(t, DependsOn[t][j])' = DepSatisfied(t, DependsOn[t][j])
  BY DEF DepSatisfied, SameEnds
<1> DEFINE H == {j \in DOMAIN DependsOn[t] : DepSatisfied(t, DependsOn[t][j]) # "ok"}
<1>2. H' = H BY <1>1
<1>3. CASE H = {} BY <1>2, <1>3 DEF Verdict
<1>4. CASE H # {}
  <2>1. H \subseteq Nat
    <3>1. DependsOn[t] \in Seq(Tasks) BY GraphAssumption
    <3>2. DOMAIN DependsOn[t] = 1 .. Len(DependsOn[t]) /\ Len(DependsOn[t]) \in Nat
      BY <3>1, LenProperties
    <3> QED BY <3>2
  <2>2. Min(H) \in H BY <1>4, <2>1, MinIn
  <2>3. DepSatisfied(t, DependsOn[t][Min(H)])' = DepSatisfied(t, DependsOn[t][Min(H)])
    BY <1>1, <2>2
  <2> QED BY <1>2, <1>4, <2>3 DEF Verdict
<1> QED BY <1>3, <1>4

(* What the pass had no reason to move it has none to move later.            *)
LEMMA LookStays ==
  ASSUME NEW i \in DOMAIN Topo, ~Promotable(i), UNCHANGED stop,
         task'[Topo[i]] = "pending" => task[Topo[i]] = "pending",
         \A j \in DOMAIN DependsOn[Topo[i]] : SameEnds(DependsOn[Topo[i]][j])
  PROVE ~Promotable(i)'
<1>1. Topo[i] \in Tasks BY GraphAssumption
<1>2. Verdict(Topo[i])' = Verdict(Topo[i]) BY <1>1, VerdictStays
<1> QED BY <1>2 DEF Promotable, Stopping

(* Above all while no task changes.                                          *)
LEMMA LooksStay ==
  ASSUME UNCHANGED <<task, stop>>
  PROVE \A i \in DOMAIN Topo : ~Promotable(i) => ~Promotable(i)'
  BY LookStays DEF SameEnds

(* What comes after a position of the order.                                 *)
After(i) == {u \in Tasks : \A k \in DOMAIN Topo : Topo[k] = u => k > i}

(* The descendants of a task come after it (TaskGraph.descendants).           *)
LEMMA DescendantsAfter ==
  ASSUME NEW i \in DOMAIN Topo
  PROVE Descendants(Topo[i]) \subseteq After(i)
<1>1. ASSUME NEW u \in Dependents(After(i) \cup {Topo[i]}) PROVE u \in After(i)
  <2>1. PICK j \in DOMAIN DependsOn[u] : DependsOn[u][j] \in After(i) \cup {Topo[i]}
    BY DEF Dependents
  <2> SUFFICES ASSUME NEW k \in DOMAIN Topo, Topo[k] = u PROVE k > i
    BY DEF After, Dependents
  <2>2. PICK m \in 1 .. (k - 1) : Topo[m] = DependsOn[u][j] BY <2>1, GraphAssumption
  <2>3. k \in Nat /\ i \in Nat /\ m \in DOMAIN Topo /\ m < k BY Order
  <2>4. m >= i
    <3>1. CASE Topo[m] \in After(i) BY <2>3, <3>1 DEF After
    <3>2. CASE Topo[m] = Topo[i] BY <2>3, <3>2, GraphAssumption DEF IsInjective
    <3> QED BY <2>1, <2>2, <3>1, <3>2
  <2> QED BY <2>3, <2>4
<1>2. After(i) \in SUBSET Tasks BY DEF After
<1> QED BY <1>1, <1>2 DEF Descendants

(* Nothing that a passed task waits for changes when a later task is moved.   *)
LEMMA EarlierKept ==
  ASSUME TypeOK, NEW i \in DOMAIN Topo, NEW j \in DOMAIN Topo, j < i,
         \A u \in Tasks : task'[u] = task[u] \/ u = Topo[i] \/ u \in Descendants(Topo[i])
  PROVE \A m \in DOMAIN DependsOn[Topo[j]] : SameEnds(DependsOn[Topo[j]][m])
<1> SUFFICES ASSUME NEW m \in DOMAIN DependsOn[Topo[j]]
             PROVE task'[DependsOn[Topo[j]][m]] = task[DependsOn[Topo[j]][m]]
  BY DEF SameEnds
<1>1. PICK k \in 1 .. (j - 1) : Topo[k] = DependsOn[Topo[j]][m] BY GraphAssumption
<1>2. k \in DOMAIN Topo /\ k < i /\ k \in Nat /\ i \in Nat BY Order
<1>3. Topo[k] # Topo[i] BY <1>2, GraphAssumption DEF IsInjective
<1>4. Topo[k] \notin Descendants(Topo[i]) BY <1>2, DescendantsAfter DEF After
<1>5. Topo[k] \in Tasks BY <1>2, GraphAssumption
<1> QED BY <1>1, <1>3, <1>4, <1>5

(* The pass moves one task and those that fall with it, all of them ahead.   *)
LEMMA PassLooks ==
  ASSUME WorkInvariant, PassHasLooked, NEW i \in DOMAIN Topo, Promoting(i),
         UNCHANGED stop, task'[Topo[i]] # "pending",
         \A u \in Tasks : /\ task'[u] = task[u] \/ u = Topo[i] \/ u \in Descendants(Topo[i])
                          /\ task'[u] = "pending" => task[u] = "pending"
  PROVE Stopping' \/ \A j \in DOMAIN Topo : j < cursor' => ~Promotable(j)'
<1>0. TypeOK BY DEF WorkInvariant
<1> SUFFICES ASSUME ~Stopping, NEW j \in DOMAIN Topo, j < cursor' PROVE ~Promotable(j)'
  BY DEF Stopping
<1>1. /\ pc = "promote" /\ cursor' = i + 1 /\ i \in cursor .. Len(Topo)
      /\ \A k \in cursor .. (i - 1) : ~Promotable(k)
  BY DEF Promoting
<1>2. j \in Nat /\ i \in Nat /\ cursor \in Nat BY <1>0, Order DEF TypeOK
<1>3. CASE j = i BY <1>3 DEF Promotable
<1>4. CASE j < i
  <2>1. ~Promotable(j) BY <1>1, <1>2, <1>4 DEF PassHasLooked
  <2>2. \A m \in DOMAIN DependsOn[Topo[j]] : SameEnds(DependsOn[Topo[j]][m])
    BY <1>0, <1>4, EarlierKept
  <2>3. Topo[j] \in Tasks BY GraphAssumption
  <2> QED BY <2>1, <2>2, <2>3, LookStays
<1> QED BY <1>1, <1>2, <1>3, <1>4

(* The promotion pass leaves nothing behind it that it should have moved.    *)
LEMMA PromoteLooks ==
  ASSUME WorkInvariant, PassHasLooked, Promote PROVE PassHasLooked'
<1>0. TypeOK BY DEF WorkInvariant
<1>1. CASE StartPass
  <2>1. /\ \/ pc' = "merges" /\ (Stopping \/ hold)
           \/ pc' = "promote" /\ cursor' = 1
        /\ UNCHANGED <<stop, hold>>
    BY <1>1 DEF StartPass, Goto, runVars
  <2>2. pc' = "promote" => \A j \in DOMAIN Topo : ~(j < cursor') BY <2>1, Order
  <2> QED BY <2>1, <2>2 DEF PassHasLooked, Settling, Stopping
<1>2. CASE EndPass
  <2>1. /\ pc = "promote" /\ pc' = "merges" /\ UNCHANGED <<stop, hold, task>>
        /\ \A i \in cursor .. Len(Topo) : ~Promotable(i)
    BY <1>2 DEF EndPass, Goto, runVars
  <2>2. Stopping \/ \A j \in DOMAIN Topo : ~Promotable(j)
    <3>1. \A j \in DOMAIN Topo : j < cursor \/ j \in cursor .. Len(Topo)
      BY <1>0, Order DEF TypeOK
    <3> QED BY <2>1, <3>1 DEF PassHasLooked
  <2>3. \A j \in DOMAIN Topo : ~Promotable(j) => ~Promotable(j)' BY <2>1, LooksStay
  <2> QED BY <2>1, <2>2, <2>3 DEF PassHasLooked, Settling, Stopping
<1>3. ASSUME NEW i \in DOMAIN Topo, Promoting(i), UNCHANGED stop \/ Stopping',
             task'[Topo[i]] # "pending",
             \A u \in Tasks : /\ task'[u] = task[u] \/ u = Topo[i] \/ u \in Descendants(Topo[i])
                              /\ task'[u] = "pending" => task[u] = "pending"
      PROVE PassHasLooked'
  <2>1. pc' = "promote" BY <1>3 DEF Promoting
  <2>2. Stopping' \/ \A j \in DOMAIN Topo : j < cursor' => ~Promotable(j)' BY <1>3, PassLooks
  <2> QED BY <2>1, <2>2 DEF PassHasLooked, Settling
<1>4. ASSUME NEW i \in DOMAIN Topo, Promoting(i), UNCHANGED stop \/ Stopping',
             NEW s \in {"blocked", "skipped", "awaiting_approval", "ready"},
             task' = [task EXCEPT ![Topo[i]] = s]
      PROVE PassHasLooked'
  <2>1. Topo[i] \in Tasks /\ task \in [Tasks -> TaskState] BY <1>0, GraphAssumption DEF TypeOK
  <2>2. task'[Topo[i]] = s /\ \A u \in Tasks \ {Topo[i]} : task'[u] = task[u] BY <1>4, <2>1
  <2>3. s # "pending" OBVIOUS
  <2> QED BY <1>3, <1>4, <2>2, <2>3
<1>5. CASE FailOnCondition
  <2> PICK i \in DOMAIN Topo : Promoting(i) /\ EndBadly(Topo[i], "failed")
    BY <1>5 DEF FailOnCondition
  <2>1. UNCHANGED stop \/ Stopping'
    <3>1. [mode |-> StopMode, cause |-> "on_failure"] # NoStop BY OptionsAssumption DEF NoStop
    <3> QED BY <3>1 DEF EndBadly, Stopping
  <2>2. /\ task'[Topo[i]] = "failed"
        /\ \A u \in Tasks : /\ task'[u] = task[u] \/ u = Topo[i] \/ u \in Descendants(Topo[i])
                            /\ task'[u] = "pending" => task[u] = "pending"
    BY GraphAssumption DEF EndBadly
  <2> QED BY <1>3, <2>1, <2>2
<1>6. CASE BlockOnDependency \/ SkipOnCondition \/ OpenGate \/ MakeReady
  <2> PICK i \in DOMAIN Topo, s \in {"blocked", "skipped", "awaiting_approval", "ready"} :
        /\ Promoting(i) /\ task' = [task EXCEPT ![Topo[i]] = s]
        /\ UNCHANGED stop \/ stop' = [mode |-> "wait", cause |-> "pause"]
    BY <1>6 DEF BlockOnDependency, SkipOnCondition, OpenGate, MakeReady, runVars
  <2>1. UNCHANGED stop \/ Stopping' BY DEF Stopping, NoStop
  <2> QED BY <1>4, <2>1
<1> QED BY <1>1, <1>2, <1>5, <1>6 DEF Promote

(* A step that leaves what is pending and what has ended leaves the pass as   *)
(* good as it was.                                                           *)
LEMMA LookedStays ==
  ASSUME PassHasLooked, UNCHANGED <<stop, hold>>,
         pc \in {"merges", "launch", "idle"}, pc' \in {"merges", "launch", "idle"},
         \A u \in Tasks : SameEnds(u) /\ (task'[u] = "pending" => task[u] = "pending")
  PROVE PassHasLooked'
<1> SUFFICES ASSUME \A j \in DOMAIN Topo : ~Promotable(j), NEW j \in DOMAIN Topo
             PROVE ~Promotable(j)'
  BY DEF PassHasLooked, Settling, Stopping
<1>1. Topo[j] \in Tasks BY GraphAssumption
<1>2. DependsOn[Topo[j]] \in Seq(Tasks) BY <1>1, GraphAssumption
<1>3. \A m \in DOMAIN DependsOn[Topo[j]] : DependsOn[Topo[j]][m] \in Tasks
  BY <1>2, ElementOfSeq, LenProperties
<1> QED BY <1>1, <1>3, LookStays

(* Every step keeps it.                                                      *)
LEMMA PassStep ==
  ASSUME WorkInvariant, PassHasLooked, [Next]_vars PROVE PassHasLooked'
<1>0. TypeOK BY DEF WorkInvariant
<1>1. CASE UNCHANGED <<pc, cursor, focus, stop, hold, task>>
  <2>1. \A j \in DOMAIN Topo : ~Promotable(j) => ~Promotable(j)' BY <1>1, LooksStay
  <2> QED BY <1>1, <2>1 DEF PassHasLooked, Stopping
<1>2. CASE Startup
  <2>1. pc' \in {"preflight", "pass"}
    BY <1>2 DEF Startup, Prepare, FailPreflight, EnterLoop, Goto, loopVars
  <2> QED BY <2>1 DEF PassHasLooked, Settling
<1>3. CASE LaunchWork
  <2>1. CASE AbandonPendingMerge
    <3>1. Stopping' /\ pc' = "outcome" BY <2>1 DEF AbandonPendingMerge, Stopping, runVars, Goto
    <3> QED BY <3>1 DEF PassHasLooked
  <2>2. CASE Launch
    <3> PICK i \in cursor .. Len(Topo) :
          pc = "launch" /\ Launchable(i) /\ task' = [task EXCEPT ![Topo[i]] = "running"]
      BY <2>2 DEF Launch
    <3>1. UNCHANGED <<stop, hold>> /\ pc' = "launch" BY <2>2 DEF Launch, runVars
    <3>2. \A u \in Tasks : SameEnds(u) /\ (task'[u] = "pending" => task[u] = "pending")
      BY <1>0 DEF SameEnds, Launchable, TerminalStates, TypeOK
    <3> QED BY <3>1, <3>2, LookedStays
  <2>3. CASE LaunchPendingMerge \/ EndMerges \/ EndLaunch
    <3>1. /\ UNCHANGED <<stop, hold, task>>
          /\ pc \in {"merges", "launch", "idle"} /\ pc' \in {"merges", "launch", "idle"}
      BY <2>3 DEF LaunchPendingMerge, EndMerges, EndLaunch, runVars, loopVars, Goto
    <3> QED BY <3>1, LookedStays DEF SameEnds
  <2> QED BY <1>3, <2>1, <2>2, <2>3 DEF LaunchWork
<1>4. CASE HandleWake
  <2>1. pc' = "pass" \/ (pc' = "outcome" /\ focus'.back = "pass")
    <3>1. CASE HandleFinalized
      <4> PICK w \in Handled : HandleFinalized!(w) BY <3>1 DEF HandleFinalized
      <4> QED BY DEF Goto
    <3> QED
      BY <1>4, <3>1
      DEF HandleWake, HandleAttemptDone, HandleApproval, HandleRetryDue, HandleStop, Goto
  <2> QED BY <2>1 DEF PassHasLooked, Settling
<1>5. CASE ApplyOutcome
  <2>1. CASE SettleRestart
    <3>1. pc = "restart" /\ pc' = focus.back BY <2>1 DEF SettleRestart, Goto
    <3>2. focus.back \in {"pass", "merges"} BY <3>1, FocusType
    <3>3. focus.back = "merges" => Stopping'
      BY <2>1, <3>1 DEF PassHasLooked, Settling, SettleRestart, runVars, Stopping
    <3> QED BY <3>1, <3>2, <3>3 DEF PassHasLooked, Settling
  <2>2. CASE ~SettleRestart
    <3>1. /\ pc \in {"outcome", "cancel"} /\ pc' \in {"cancel", "restart"} /\ UNCHANGED focus
      BY <1>5, <2>2
      DEF ApplyOutcome, Succeed, SkipByAgent, AskInput, BlockByAgent, EndSuspended, EndCancelled,
          Failing, RecoverTransient, NudgeSession, RetryAttempt, FailTask, Applying, SettleCancel,
          Goto
    <3>2. ~Prepare BY <3>1 DEF Prepare
    <3>3. UNCHANGED stop \/ Stopping' BY <3>2, StopsForGood
    <3> QED BY <3>1, <3>3 DEF PassHasLooked, Settling, Stopping
  <2> QED BY <2>1, <2>2
<1>6. CASE HandleControl \/ Park \/ Finalize
  <2>1. pc' \in {"pass", "park", "done"} BY <1>6, StartedFrom
  <2> QED BY <2>1 DEF PassHasLooked, Settling
<1>7. CASE Environment
  <2>1. ASSUME NEW t \in Tasks, AskOperator(t) \/ AnswerOperator(t) PROVE PassHasLooked'
    <3>1. /\ UNCHANGED <<stop, hold, pc>> /\ pc \in {"merges", "launch", "park"}
          /\ task[t] \in ActiveStates
          /\ \E s \in ActiveStates : task' = [task EXCEPT ![t] = s]
      BY <2>1
      DEF AskOperator, AnswerOperator, EnvironmentTurn, runVars, loopVars, ActiveStates
    <3>2. \A u \in Tasks : SameEnds(u) /\ (task'[u] = "pending" => task[u] = "pending")
      BY <1>0, <3>1 DEF SameEnds, TerminalStates, ActiveStates, TypeOK
    <3>3. CASE pc = "park" BY <3>1, <3>3 DEF PassHasLooked, Settling
    <3> QED BY <3>1, <3>2, <3>3, LookedStays
  <2>2. ASSUME ~\E t \in Tasks : AskOperator(t) \/ AnswerOperator(t)
        PROVE UNCHANGED <<pc, cursor, focus, stop, hold, task>>
    BY <1>7, <2>2, ZenonT(30)
    DEF Environment, Workspace, WorkerReports, ReportSession, AnswerGate, BecomeDue, QueueForTree,
        Capture, CaptureThrows, MergeBack, FinishCapture, TimerFires, Submit, runVars, loopVars
  <2> QED BY <1>1, <2>1, <2>2
<1>8. CASE UNCHANGED vars BY <1>1, <1>8 DEF vars, runVars, loopVars
<1> QED
  BY <1>2, <1>3, <1>4, <1>5, <1>6, <1>7, <1>8, PromoteLooks DEF Next, Loop, Rest

(* When the loop finds nothing to wait for and nothing is held open, no task  *)
(* is left that could still begin.                                           *)
LEMMA NothingLeft ==
  ASSUME WorkInvariant, PassHasLooked, pc = "idle", Idle, ~HeldOpen, ~Stopping,
         \A t \in Tasks : task[t] \notin {"awaiting_approval", "needs_input", "suspended"}
  PROVE \A t \in Tasks : task[t] \in TerminalStates
<1>0. TypeOK BY DEF WorkInvariant
<1>1. ASSUME NEW t \in Tasks PROVE task[t] \in TerminalStates \cup {"pending"}
  <2>1. task[t] # "ready" BY DEF Idle, HasReady
  <2>2. ~HasWork(t) BY <1>0 DEF Idle, HasWork, TypeOK
  <2>3. task[t] \notin ActiveStates BY <2>2, IdleTask
  <2>4. task[t] \in TaskState BY <1>0 DEF TypeOK
  <2> QED BY <2>1, <2>3, <2>4 DEF TaskState, TerminalStates, ActiveStates
<1> DEFINE P == {i \in DOMAIN Topo : task[Topo[i]] = "pending"}
<1>2. ASSUME P # {} PROVE FALSE
  <2>1. P \subseteq Nat BY Order
  <2>2. PICK i \in P : \A j \in P : i <= j BY <1>2, <2>1, MinOfNat
  <2>3. Topo[i] \in Tasks /\ task[Topo[i]] = "pending" /\ i \in Nat BY GraphAssumption, Order
  <2>4. ~hold BY <2>3 DEF HeldOpen, TerminalStates
  <2>5. ~Promotable(i) BY <2>4 DEF PassHasLooked
  <2>6. ASSUME NEW m \in DOMAIN DependsOn[Topo[i]]
        PROVE task[DependsOn[Topo[i]][m]] \in TerminalStates
    <3>1. PICK k \in 1 .. (i - 1) : Topo[k] = DependsOn[Topo[i]][m] BY GraphAssumption
    <3>2. k \in DOMAIN Topo /\ k < i /\ k \in Nat BY <2>3, Order
    <3>3. Topo[k] \in Tasks /\ k \notin P BY <2>2, <2>3, <3>2, GraphAssumption
    <3> QED BY <1>1, <3>1, <3>2, <3>3
  <2>7. \A m \in DOMAIN DependsOn[Topo[i]] : DepSatisfied(Topo[i], DependsOn[Topo[i]][m]) \in {"ok", "blocked"}
    BY <2>6 DEF DepSatisfied
  <2>8. Verdict(Topo[i]) \in {"ok", "blocked"}
    <3> DEFINE H == {j \in DOMAIN DependsOn[Topo[i]] :
                       DepSatisfied(Topo[i], DependsOn[Topo[i]][j]) # "ok"}
    <3>1. CASE H = {} BY <3>1 DEF Verdict
    <3>2. CASE H # {}
      <4>1. DependsOn[Topo[i]] \in Seq(Tasks) BY <2>3, GraphAssumption
      <4>2. H \subseteq Nat BY <4>1, LenProperties
      <4>3. Min(H) \in H BY <3>2, <4>2, MinIn
      <4> QED BY <2>7, <3>2, <4>3 DEF Verdict
    <3> QED BY <3>1, <3>2
  <2> QED BY <2>3, <2>5, <2>8 DEF Promotable
<1>3. ASSUME NEW t \in Tasks PROVE \E i \in DOMAIN Topo : Topo[i] = t
  BY GraphAssumption, Order
<1> QED BY <1>1, <1>2, <1>3

(* The loop ends a run that is settled (finalize).                           *)
LEMMA FinalizeSettles ==
  ASSUME WorkInvariant, EndInvariant, Finalize PROVE EndedIsSettled'
<1>0. TypeOK /\ pc = "idle" /\ Idle /\ ~HeldOpen
  BY DEF WorkInvariant, Finalize
<1>1. ASSUME NEW t \in Tasks
      PROVE ~InFlight(t)' /\ task[t] \notin ActiveStates /\ task'[t] \notin ActiveStates
  <2>1. ~HasWork(t) BY <1>0 DEF Idle, HasWork, TypeOK
  <2>2. task[t] \notin ActiveStates BY <2>1, IdleTask
  <2>3. task'[t] = task[t] \/ task'[t] = "cancelled" BY DEF Finalize
  <2>4. ~InFlight(t)' BY <1>0 DEF Idle, InFlight, Finalize, workVars
  <2> QED BY <2>2, <2>3, <2>4 DEF ActiveStates
<1>2. tree' = <<>> /\ pendingMerges' = <<>> /\ asking' = {}
  <2>1. tree \in Seq(Tasks) /\ \A t \in Tasks : t \notin Range(tree)
    BY <1>0 DEF WorkInvariant, TypeOK, TreeOwned, Idle
  <2>2. tree = <<>>
    <3> SUFFICES ASSUME tree # <<>> PROVE FALSE OBVIOUS
    <3>1. DOMAIN tree = 1 .. Len(tree) /\ Len(tree) \in Nat /\ Len(tree) # 0
      BY <2>1, LenProperties, EmptySeq
    <3>2. tree[1] \in Tasks BY <2>1, <3>1, ElementOfSeq
    <3> QED BY <2>1, <3>1, <3>2 DEF Range
  <2> QED BY <1>0, <2>2 DEF Idle, Finalize, workVars
<1>3. unsettled' = {}
  <2> SUFFICES ASSUME NEW id \in unsettled' PROVE FALSE OBVIOUS
  <2>1. id \in unsettled /\ id \notin {wake[i].id : i \in {j \in DOMAIN wake : wake[j].kind = "control"}}
    BY DEF Finalize
  <2> QED BY <2>1 DEF EndInvariant, AnswersAhead
<1>4. ASSUME runState' \in {"completed", "failed"}, NEW t \in Tasks PROVE task'[t] \in TerminalStates
  <2>1. /\ stop.cause \notin {"signal", "pause"}
        /\ \A u \in Tasks : task'[u] \notin {"awaiting_approval", "needs_input", "suspended"}
    BY <1>4 DEF Finalize
  <2>2. \A u \in Tasks : task[u] \notin {"awaiting_approval", "needs_input", "suspended"}
    BY <2>1 DEF Finalize
  <2>3. CASE Stopping
    <3>1. CancelsRest BY <2>1, <2>3 DEF CancelsRest
    <3>2. task'[t] = IF task[t] \in {"pending", "ready"} THEN "cancelled" ELSE task[t]
      BY <3>1 DEF Finalize
    <3>3. task[t] \in TaskState BY <1>0 DEF TypeOK
    <3> QED BY <1>1, <2>2, <3>2, <3>3 DEF TaskState, TerminalStates, ActiveStates
  <2>4. CASE ~Stopping
    <3>1. task[t] \in TerminalStates BY <1>0, <2>2, <2>4, NothingLeft DEF EndInvariant
    <3>2. task'[t] = task[t] BY <3>1 DEF Finalize, TerminalStates
    <3> QED BY <3>1, <3>2
  <2> QED BY <2>3, <2>4
<1>5. ASSUME runState' = "completed", NEW t \in Tasks PROVE task'[t] \in {"success", "skipped"}
  <2>1. task'[t] \notin {"failed", "blocked", "cancelled"} BY <1>5 DEF Finalize
  <2>2. task'[t] \in TerminalStates BY <1>4, <1>5
  <2> QED BY <2>1, <2>2 DEF TerminalStates
<1> QED BY <1>1, <1>2, <1>3, <1>4, <1>5 DEF EndedIsSettled

(* A run that is over stays as it is.                                        *)
LEMMA OverForGood ==
  ASSUME WorkInvariant, pc = "done", [Next]_vars PROVE UNCHANGED vars
<1>1. ~Startup BY DEF Startup, Prepare, FailPreflight, EnterLoop
<1> QED BY <1>1, StartedFrom, SettlesFrom DEF Next, Loop, Rest

(* Every step keeps the invariant of a run's end.                            *)
LEMMA EndStep ==
  ASSUME WorkInvariant, EndInvariant, [Next]_vars PROVE EndInvariant'
<1>1. AnswersAhead' /\ PassHasLooked' BY AnswersStep, PassStep DEF EndInvariant
<1>2. EndedIsSettled'
  <2>1. CASE Finalize BY <2>1, FinalizeSettles
  <2>2. CASE pc = "done"
    <3>1. UNCHANGED vars BY <2>2, OverForGood
    <3> QED
      BY <3>1 DEF EndInvariant, EndedIsSettled, vars, runVars, workVars, queueVars, senderVars,
                  loopVars, InFlight
  <2>3. CASE ~Finalize /\ pc # "done"
    <3>1. pc' # "done"
      <4>1. CASE Startup
        BY <2>3, <4>1 DEF Startup, Prepare, FailPreflight, EnterLoop, Goto, loopVars
      <4>2. CASE UNCHANGED vars BY <2>3, <4>2 DEF vars, loopVars
      <4> QED BY <2>3, <4>1, <4>2, StartedFrom, SettlesFrom DEF Next, Loop, Rest
    <3> QED BY <3>1 DEF EndedIsSettled
  <2> QED BY <2>1, <2>2, <2>3
<1> QED BY <1>1, <1>2 DEF EndInvariant

(* A run is over only when nothing works, waits for the tree or waits for an *)
(* answer; one that says it completed or failed has no task left to do, and  *)
(* one that completed has done them all (finalize).                          *)
THEOREM EndsAreSettled == Spec => []EndedIsSettled
<1>1. Init => EndInvariant
  BY DEF Init, EndInvariant, AnswersAhead, PassHasLooked, EndedIsSettled, Settling
<1>2. WorkInvariant /\ EndInvariant /\ [Next]_vars => EndInvariant' BY EndStep
<1>3. EndInvariant => EndedIsSettled BY DEF EndInvariant
<1> QED BY <1>1, <1>2, <1>3, WorkCorrect, PTL DEF Spec

-----------------------------------------------------------------------------
(* No worker goes on under a definition that has been replaced *)

(* The attempt a worker is busy with is the task's last and carries its       *)
(* latest edit, or has been told to stop (launch, cancelForEdit).             *)
AtWork(t) == Working(t) /\ inflight[t].kind = "task"

LatestAtWork ==
  \A t \in Tasks : AtWork(t) =>
    /\ attempts[t] # <<>> /\ LastOf(attempts[t]).kind = "task"
    /\ inflight[t].aborted \/ LastOf(attempts[t]).revision = revisions[t]

(* No attempt starts, none forgets that it was told to stop, and an edit     *)
(* tells it.                                                                 *)
StaysAtWork(t) ==
  /\ AtWork(t) /\ (inflight[t].aborted => inflight'[t].aborted)
  /\ attempts'[t] = attempts[t]
  /\ revisions'[t] = revisions[t] \/ inflight'[t].aborted

(* Such a step keeps the attempt at work the latest.                         *)
LEMMA StillLatest ==
  ASSUME LatestAtWork, \A t \in Tasks : AtWork(t)' => StaysAtWork(t)
  PROVE LatestAtWork'
  BY DEF LatestAtWork, StaysAtWork, LastOf

(* Telling workers to stop changes nothing else about them.                  *)
LEMMA OnlyTold ==
  ASSUME TypeOK, UNCHANGED <<attempts, revisions>>,
         \/ UNCHANGED inflight
         \/ inflight' = AbortAll(inflight)
         \/ \E t : inflight' = [inflight EXCEPT ![t].aborted = TRUE]
  PROVE \A t \in Tasks : AtWork(t)' => StaysAtWork(t)
<1> SUFFICES ASSUME NEW t \in Tasks, AtWork(t)' PROVE StaysAtWork(t) OBVIOUS
<1>1. inflight[t] \in EntryRecord BY DEF TypeOK
<1>2. inflight'[t] = inflight[t] \/ inflight'[t] = [inflight[t] EXCEPT !.aborted = TRUE]
  BY DEF AbortAll, TypeOK
<1> QED BY <1>1, <1>2 DEF AtWork, StaysAtWork, Working, EntryRecord

(* An attempt that ends, or whose outcome is judged, is not at work.         *)
LEMMA OthersAtWork ==
  ASSUME NEW t, ~AtWork(t)', UNCHANGED revisions,
         \A u \in Tasks \ {t} : inflight'[u] = inflight[u] /\ attempts'[u] = attempts[u]
  PROVE \A u \in Tasks : AtWork(u)' => StaysAtWork(u)
  BY DEF AtWork, StaysAtWork, Working

(* A launch starts an attempt under the definition of the moment.            *)
LEMMA LaunchLatest ==
  ASSUME WorkInvariant, LatestAtWork, Launch PROVE LatestAtWork'
<1>0. TypeOK BY DEF WorkInvariant
<1> PICK i \in cursor .. Len(Topo) : Launch!(i) BY DEF Launch
<1> DEFINE t == Topo[i]
<1>1. t \in Tasks BY <1>0, TaskAt DEF TypeOK
<1>2. attempts' = [attempts EXCEPT ![t] = Append(@, NextAttempt(t))] /\ UNCHANGED revisions
  BY DEF StartAttempt
<1>3. \A u \in Tasks \ {t} : inflight'[u] = inflight[u] /\ attempts'[u] = attempts[u]
  BY <1>0, <1>1, <1>2, AttemptStarts
<1>4. attempts[t] \in Seq(AttemptRecord) /\ attempts'[t] = Append(attempts[t], NextAttempt(t))
  BY <1>0, <1>1, <1>2 DEF TypeOK
<1>5. attempts'[t] # <<>> /\ LastOf(attempts'[t]) = NextAttempt(t)
  <2> DEFINE q == Append(attempts[t], NextAttempt(t))
  <2>1. /\ Len(attempts[t]) \in Nat /\ DOMAIN q = 1 .. Len(attempts[t]) + 1
        /\ q[Len(attempts[t]) + 1] = NextAttempt(t) /\ Len(q) = Len(attempts[t]) + 1
    BY <1>4, Pushed
  <2> QED BY <1>4, <2>1 DEF LastOf
<1>6. NextAttempt(t).kind = "task" /\ NextAttempt(t).revision = revisions[t] BY DEF NextAttempt
<1> SUFFICES ASSUME NEW u \in Tasks, AtWork(u)'
             PROVE /\ attempts'[u] # <<>> /\ LastOf(attempts'[u]).kind = "task"
                   /\ inflight'[u].aborted \/ LastOf(attempts'[u]).revision = revisions'[u]
  BY DEF LatestAtWork
<1>7. CASE u = t BY <1>2, <1>5, <1>6, <1>7
<1>8. CASE u # t
  BY <1>2, <1>3, <1>8 DEF LatestAtWork, AtWork, Working, LastOf
<1> QED BY <1>7, <1>8

(* A session that is reported says nothing of the definition it works under.  *)
LEMMA SessionLatest ==
  ASSUME WorkInvariant, LatestAtWork, NEW t \in Tasks, ReportSession(t) PROVE LatestAtWork'
<1>0. TypeOK BY DEF WorkInvariant
<1>1. /\ UNCHANGED <<inflight, revisions>>
      /\ attempts' = [attempts EXCEPT ![t][Len(attempts[t])].session = TRUE]
  BY DEF ReportSession, workVars
<1>2. attempts[t] \in Seq(AttemptRecord) /\ \A u \in Tasks \ {t} : attempts'[u] = attempts[u]
  BY <1>0, <1>1 DEF TypeOK
<1>3. attempts[t] # <<>> =>
        /\ attempts'[t] # <<>> /\ LastOf(attempts'[t]).kind = LastOf(attempts[t]).kind
        /\ LastOf(attempts'[t]).revision = LastOf(attempts[t]).revision
  <2> SUFFICES ASSUME attempts[t] # <<>>
               PROVE /\ attempts'[t] # <<>> /\ LastOf(attempts'[t]).kind = LastOf(attempts[t]).kind
                     /\ LastOf(attempts'[t]).revision = LastOf(attempts[t]).revision
    OBVIOUS
  <2> DEFINE n == Len(attempts[t])
             r == [attempts[t][n] EXCEPT !.session = TRUE]
  <2>1. n \in Nat \ {0} /\ DOMAIN attempts[t] = 1 .. n /\ attempts[t][n] \in AttemptRecord
    BY <1>2, LenProperties, EmptySeq, ElementOfSeq
  <2>2. r \in AttemptRecord /\ r.kind = attempts[t][n].kind /\ r.revision = attempts[t][n].revision
    BY <2>1 DEF AttemptRecord
  <2>3. attempts'[t] = [attempts[t] EXCEPT ![n] = r] BY <1>0, <1>1 DEF TypeOK
  <2> HIDE DEF r
  <2>4. attempts'[t] \in Seq(AttemptRecord) /\ Len(attempts'[t]) = n /\ attempts'[t][n] = r
    BY <1>2, <2>1, <2>2, <2>3, ExceptSeq
  <2> QED BY <2>1, <2>2, <2>4 DEF LastOf
<1> SUFFICES ASSUME NEW u \in Tasks, AtWork(u)'
             PROVE /\ attempts'[u] # <<>> /\ LastOf(attempts'[u]).kind = "task"
                   /\ inflight'[u].aborted \/ LastOf(attempts'[u]).revision = revisions'[u]
  BY DEF LatestAtWork
<1>4. AtWork(u) BY <1>1 DEF AtWork, Working
<1> QED BY <1>1, <1>2, <1>3, <1>4 DEF LatestAtWork

(* An edit that stops nobody finds nobody at work (decideEdit).              *)
LEMMA EditLatest ==
  ASSUME WorkInvariant, EditTask PROVE \A u \in Tasks : AtWork(u)' => StaysAtWork(u)
<1>0. TypeOK BY DEF WorkInvariant
<1> PICK w \in Handled : EditTask!(w) BY DEF EditTask
<1> DEFINE t == w.command.task
<1>1. t \in Tasks BY <1>0, CommandedTask
<1>2. /\ UNCHANGED attempts /\ CanEdit(t, w.command.restart)
      /\ revisions' = [revisions EXCEPT ![t] = @ + 1]
  BY CommandedFrame DEF Answered
<1>3. \A u \in Tasks \ {t} : revisions'[u] = revisions[u] BY <1>0, <1>1, <1>2 DEF TypeOK
<1> SUFFICES ASSUME NEW u \in Tasks, AtWork(u)' PROVE StaysAtWork(u) OBVIOUS
<1>4. inflight[u] \in EntryRecord BY <1>0 DEF TypeOK
<1>5. CASE AbortWorker(t)
  <2>1. inflight' = [inflight EXCEPT ![t].aborted = TRUE] BY <1>5 DEF AbortWorker
  <2>2. /\ inflight'[u] = IF u = t THEN [inflight[u] EXCEPT !.aborted = TRUE] ELSE inflight[u]
    BY <1>0, <2>1 DEF TypeOK
  <2> QED BY <1>2, <1>3, <1>4, <2>2 DEF AtWork, StaysAtWork, Working, EntryRecord
<1>6. CASE ~(w.command.restart /\ RestartPlan(t) = "cancelAndRestart")
  <2>1. task[t] \notin ActiveStates
    BY <1>2, <1>6 DEF CanEdit, RestartPlan, EditableStates, ActiveStates
  <2>2. ~HasWork(t) BY <1>1, <2>1 DEF WorkInvariant, ActiveHasWork
  <2>3. UNCHANGED inflight BY <1>6
  <2>4. u # t BY <2>2, <2>3 DEF HasWork, InFlight, AtWork, Working
  <2> QED BY <1>2, <1>3, <2>3, <2>4 DEF AtWork, StaysAtWork, Working
<1> QED BY <1>5, <1>6

(* The handlers that record something of an attempt do so past its worker.   *)
LEMMA RecordLatest ==
  ASSUME WorkInvariant,
         LaunchPendingMerge \/ AbandonPendingMerge \/ HandleAttemptDone \/ HandleFinalized \/ EndSuspended
  PROVE \A u \in Tasks : AtWork(u)' => StaysAtWork(u)
<1>0. TypeOK /\ WorkOnce /\ attempts \in [Tasks -> Seq(AttemptRecord)]
  BY DEF WorkInvariant, TypeOK
<1>1. CASE LaunchPendingMerge
  <2> PICK t \in Tasks, n \in Nat : Head(pendingMerges).task = t /\ Head(pendingMerges).attempt = n
    BY <1>0, <1>1, FirstPending DEF LaunchPendingMerge
  <2>1. StartMergeAttempt(t, n) /\ UNCHANGED revisions BY <1>1 DEF LaunchPendingMerge
  <2>2. inflight'[t].kind = "merge" /\ \A u \in Tasks \ {t} : inflight'[u] = inflight[u]
    BY <1>0, <2>1, MergeAttemptStarts
  <2>3. \A u \in Tasks \ {t} : attempts'[u] = attempts[u]
    BY <1>0, <2>1 DEF StartMergeAttempt, StartAttempt
  <2> QED BY <2>1, <2>2, <2>3, OthersAtWork DEF AtWork
<1>2. CASE AbandonPendingMerge
  <2> PICK t \in Tasks, n \in Nat :
        Head(pendingMerges).task = t /\ Head(pendingMerges).attempt = n /\ ~InFlight(t)
    BY <1>0, <1>2, FirstPending DEF AbandonPendingMerge
  <2>1. attempts' = Conflicted(t, n) /\ UNCHANGED <<inflight, revisions>>
    BY <1>2 DEF AbandonPendingMerge
  <2>2. \A u \in Tasks \ {t} : attempts'[u] = attempts[u] BY <1>0, <2>1 DEF Conflicted
  <2> QED BY <2>1, <2>2, OthersAtWork DEF AtWork, Working, InFlight
<1>3. CASE HandleAttemptDone
  <2> PICK w \in Handled : HandleAttemptDone!(w) BY <1>3 DEF HandleAttemptDone
  <2>1. w.task \in Tasks /\ Current(w) BY ReportIsCurrent DEF AboutAttempt
  <2>2. inflight'[w.task].phase # "working" /\ \A u \in Tasks \ {w.task} : inflight'[u] = inflight[u]
    BY <1>0, <2>1, SMTT(20) DEF TypeOK, EntryRecord
  <2>3. \A u \in Tasks \ {w.task} : attempts'[u] = attempts[u] BY <1>0, <2>1
  <2> QED BY <2>2, <2>3, OthersAtWork DEF AtWork, Working
<1>4. CASE HandleFinalized
  <2> PICK w \in Handled : HandleFinalized!(w) BY <1>4 DEF HandleFinalized
  <2>1. w.task \in Tasks /\ Current(w) BY ReportIsCurrent DEF AboutAttempt
  <2>2. CASE StartMergeAttempt(w.task, w.attempt)
    <3>1. /\ inflight'[w.task].kind = "merge"
          /\ \A u \in Tasks \ {w.task} : inflight'[u] = inflight[u]
      BY <1>0, <2>1, <2>2, MergeAttemptStarts
    <3>2. \A u \in Tasks \ {w.task} : attempts'[u] = attempts[u]
      BY <1>0, <2>1, <2>2 DEF StartMergeAttempt, StartAttempt
    <3> QED BY <3>1, <3>2, OthersAtWork DEF AtWork
  <2>3. CASE /\ inflight' = [inflight EXCEPT ![w.task] = NoEntry]
             /\ UNCHANGED attempts \/ attempts' = Conflicted(w.task, w.attempt)
    <3>1. /\ inflight'[w.task].phase # "working"
          /\ \A u \in Tasks \ {w.task} : inflight'[u] = inflight[u]
      BY <1>0, <2>1, <2>3 DEF TypeOK, NoEntry
    <3>2. \A u \in Tasks \ {w.task} : attempts'[u] = attempts[u]
      BY <1>0, <2>1, <2>3 DEF Conflicted
    <3> QED BY <3>1, <3>2, OthersAtWork DEF AtWork, Working
  <2> QED BY <2>1, <2>2, <2>3
<1>5. CASE EndSuspended
  <2>1. Focused \in Tasks /\ ~InFlight(Focused)
    BY <1>0, <1>5, FocusType DEF EndSuspended, Applying, WorkOnce, Focused
  <2>2. \A u \in Tasks \ {Focused} : attempts'[u] = attempts[u] BY <1>0, <1>5 DEF EndSuspended
  <2>3. UNCHANGED <<inflight, revisions>> BY <1>5 DEF EndSuspended, Applying
  <2> QED BY <2>1, <2>2, <2>3, OthersAtWork DEF AtWork, Working, InFlight
<1> QED BY <1>1, <1>2, <1>3, <1>4, <1>5

(* Every step keeps the attempt at work the latest.                          *)
LEMMA LatestStep ==
  ASSUME WorkInvariant, LatestAtWork, [Next]_vars PROVE LatestAtWork'
<1>0. TypeOK BY DEF WorkInvariant
<1>1. ASSUME UNCHANGED <<attempts, revisions>>,
             UNCHANGED inflight \/ inflight' = AbortAll(inflight)
               \/ \E t : inflight' = [inflight EXCEPT ![t].aborted = TRUE]
      PROVE LatestAtWork'
  BY <1>0, <1>1, OnlyTold, StillLatest
<1>2. CASE Startup \/ Promote \/ EndMerges \/ EndLaunch \/ Park \/ Finalize
  <2>1. UNCHANGED <<attempts, revisions>> /\ (UNCHANGED inflight \/ inflight' = AbortAll(inflight))
    BY <1>2
    DEF Startup, Prepare, FailPreflight, EnterLoop, Promote, StartPass, BlockOnDependency,
        SkipOnCondition, FailOnCondition, OpenGate, MakeReady, EndPass, Promoting, EndMerges,
        EndLaunch, Park, Finalize, EndBadly, taskVars, workVars
  <2> QED BY <1>1, <2>1
<1>3. CASE LaunchPendingMerge \/ AbandonPendingMerge \/ HandleAttemptDone \/ HandleFinalized \/ EndSuspended
  BY <1>3, RecordLatest, StillLatest
<1>4. CASE HandleApproval \/ HandleRetryDue \/ HandleStop
  <2>1. UNCHANGED <<attempts, revisions>> /\ (UNCHANGED inflight \/ inflight' = AbortAll(inflight))
    BY <1>4
    DEF HandleApproval, HandleRetryDue, HandleStop, ApplyStop, EndBadly, runVars, taskVars, workVars
  <2> QED BY <1>1, <2>1
<1>5. CASE ApplyOutcome /\ ~EndSuspended
  <2>1. UNCHANGED <<attempts, revisions>> /\ (UNCHANGED inflight \/ inflight' = AbortAll(inflight))
    BY <1>5
    DEF ApplyOutcome, Succeed, SkipByAgent, AskInput, BlockByAgent, EndCancelled, Failing,
        RecoverTransient, NudgeSession, RetryAttempt, FailTask, Applying, SettleCancel,
        SettleRestart, EndBadly, workVars
  <2> QED BY <1>1, <2>1
<1>6. CASE HandleControl
  <2>1. CASE EditTask BY <2>1, EditLatest, StillLatest
  <2>2. CASE ~EditTask
    <3>1. /\ UNCHANGED <<attempts, revisions>>
          /\ \/ UNCHANGED inflight \/ inflight' = AbortAll(inflight)
             \/ \E t : inflight' = [inflight EXCEPT ![t].aborted = TRUE]
      BY <1>6, <2>2
      DEF HandleControl, RejectCommand, StopRun, HoldRun, ReleaseRun, RestartTask, CancelTask,
          SuspendTask, ResumeTask, FollowUp, StopAndContinue, EditNothing, Commanded, ApplyStop,
          AbortWorker, workVars
    <3> QED BY <1>1, <3>1
  <2> QED BY <2>1, <2>2
<1>7. CASE Environment
  <2>1. ASSUME NEW t \in Tasks, WorkerReports(t) \/ Workspace(t) PROVE LatestAtWork'
    <3>1. /\ \E p \in {"ended", "queued", "settled"} : inflight' = [inflight EXCEPT ![t].phase = p]
          /\ UNCHANGED <<attempts, revisions>>
      BY <2>1 DEF WorkerReports, Workspace, QueueForTree, Capture, CaptureThrows, MergeBack,
                  FinishCapture, taskVars
    <3>2. inflight'[t].phase # "working" /\ \A u \in Tasks \ {t} : inflight'[u] = inflight[u]
      BY <1>0, <3>1, PhaseMoves
    <3> QED BY <3>1, <3>2, OthersAtWork, StillLatest DEF AtWork, Working
  <2>2. ASSUME ~\E t \in Tasks : WorkerReports(t) \/ Workspace(t) \/ ReportSession(t)
        PROVE UNCHANGED <<attempts, revisions, inflight>>
    BY <1>7, <2>2
    DEF Environment, AskOperator, AnswerOperator, AnswerGate, BecomeDue, TimerFires, Submit,
        taskVars, workVars
  <2> QED BY <1>1, <2>1, <2>2, SessionLatest
<1>8. CASE UNCHANGED vars BY <1>1, <1>8 DEF vars, taskVars, workVars
<1> QED
  BY <1>2, <1>3, <1>4, <1>5, <1>6, <1>7, <1>8, LaunchLatest
  DEF Next, Loop, Rest, LaunchWork, HandleWake

(* No worker goes on under a definition an operator has replaced: an edit is  *)
(* refused while a turn runs, or it ends that turn (decideEdit).             *)
THEOREM NoWorkIsStale == Spec => []NoStaleWork
<1>1. Init => LatestAtWork BY DEF Init, LatestAtWork, AtWork, Working, NoEntry
<1>2. WorkInvariant /\ LatestAtWork /\ [Next]_vars => LatestAtWork' BY LatestStep
<1>3. WorkInvariant /\ LatestAtWork => NoStaleWork
  <2> SUFFICES ASSUME WorkInvariant, LatestAtWork, NEW t \in Tasks, AtWork(t), EditPending(t)
               PROVE inflight[t].aborted
    BY DEF NoStaleWork, AtWork
  <2>1. attempts[t] \in Seq(AttemptRecord) BY DEF WorkInvariant, TypeOK
  <2>2. attempts[t] # <<>> /\ LastOf(attempts[t]).kind = "task" BY DEF LatestAtWork
  <2> DEFINE own == {i \in DOMAIN attempts[t] : attempts[t][i].kind = "task"}
             n == Len(attempts[t])
  <2>3. n \in Nat \ {0} /\ DOMAIN attempts[t] = 1 .. n BY <2>1, <2>2, LenProperties, EmptySeq
  <2>4. own \in SUBSET (1 .. n) /\ n \in own BY <2>2, <2>3 DEF LastOf
  <2>5. Max(own) \in own /\ \A x \in own : x <= Max(own) BY <2>3, <2>4, MaxOfBounded
  <2>6. Max(own) = n
    <3>1. Max(own) \in 1 .. n BY <2>4, <2>5
    <3>2. n <= Max(own) BY <2>4, <2>5
    <3> HIDE DEF own
    <3> QED BY <2>3, <3>1, <3>2
  <2>7. LastTaskPosition(t) = n BY <2>4, <2>6 DEF LastTaskPosition
  <2>8. revisions[t] # LastOf(attempts[t]).revision BY <2>3, <2>7 DEF EditPending, LastOf
  <2> QED BY <2>8 DEF LatestAtWork
<1> QED BY <1>1, <1>2, <1>3, WorkCorrect, PTL DEF Spec

-----------------------------------------------------------------------------
(* Without anybody who revives a task, no task starts before what it needs *)

(* No command takes a task back out of its end: nobody restarts a task, none *)
(* is sent a message, and no edit restarts the task it changes.              *)
NobodyRevives ==
  \A c \in Commands : c.kind \notin {"restart", "prompt"} /\ (c.kind = "edit" => ~c.restart)

Started == {"ready", "running", "waiting"}

(* Every dependency has ended in a way that lets t start.                    *)
Met(t) ==
  \A i \in DOMAIN DependsOn[t] :
    LET d == DependsOn[t][i] IN
    \/ task[d] \in {"success", "skipped"}
    \/ task[d] = "failed" /\ OnFailure[d] = "continue"
    \/ task[d] \in TerminalStates /\ t \in RunAnyway

(* What has started was free to, and what let it start still does.           *)
StartedInOrder ==
  /\ \A t \in Tasks : restartOwed[t] = "none"
  /\ \A t \in Tasks : task[t] \in Started => Met(t)

(* A task that has ended stays as it ended, and one that starts was free to. *)
Onward ==
  \A u \in Tasks :
    /\ task[u] \in TerminalStates => task'[u] = task[u]
    /\ task'[u] \in Started => task[u] \in Started \/ Met(u)

(* The pass only moves on what no dependency hinders.                        *)
LEMMA VerdictIsMet ==
  ASSUME NEW t \in Tasks, Verdict(t) = "ok" PROVE Met(t)
<1> DEFINE hindrances == {j \in DOMAIN DependsOn[t] : DepSatisfied(t, DependsOn[t][j]) # "ok"}
<1>1. hindrances = {}
  <2> SUFFICES ASSUME hindrances # {} PROVE FALSE OBVIOUS
  <2>1. DOMAIN DependsOn[t] \subseteq Nat
    <3>1. DependsOn[t] \in Seq(Tasks) BY GraphAssumption
    <3> QED BY <3>1, LenProperties
  <2>2. hindrances \subseteq Nat BY <2>1
  <2>3. Min(hindrances) \in hindrances BY <2>2, MinIn
  <2> QED BY <2>3 DEF Verdict
<1>2. \A i \in DOMAIN DependsOn[t] : DepSatisfied(t, DependsOn[t][i]) = "ok" BY <1>1
<1> QED BY <1>2 DEF DepSatisfied, Met, TerminalStates

(* One task that has not ended moves, and starts only if it had or may.      *)
LEMMA OneOnward ==
  ASSUME TypeOK, NEW t, NEW s, task' = [task EXCEPT ![t] = s], task[t] \notin TerminalStates,
         s \in Started => task[t] \in Started \/ Met(t)
  PROVE Onward
  BY DEF Onward, TypeOK

(* A task that ends badly, and what it blocks, only go onward. *)
LEMMA BadEndOnward ==
  ASSUME TypeOK, NEW t, NEW s \in {"failed", "blocked"}, EndBadly(t, s), task[t] \notin TerminalStates
  PROVE Onward
  BY DEF EndBadly, Onward, TypeOK, TerminalStates, Started

(* Denying a prompt ends no task and starts none. *)
LEMMA DeniedOnward ==
  ASSUME NEW S, task' = Settled(S) PROVE Onward
  BY DEF Onward, Settled, TerminalStates, Started

(* A pass moves a task that waits for its turn.                              *)
LEMMA PromoteOnward ==
  ASSUME WorkInvariant, Promote PROVE Onward
<1>0. TypeOK BY DEF WorkInvariant
<1>1. CASE UNCHANGED task BY <1>1 DEF Onward
<1>2. ASSUME NEW i \in DOMAIN Topo, Promoting(i)
      PROVE Topo[i] \in Tasks /\ task[Topo[i]] = "pending" /\ "pending" \notin TerminalStates
  BY <1>2, GraphAssumption DEF Promoting, Promotable, TerminalStates
<1>3. CASE FailOnCondition
  <2> PICK i \in DOMAIN Topo : Promoting(i) /\ EndBadly(Topo[i], "failed")
    BY <1>3 DEF FailOnCondition
  <2> QED BY <1>0, <1>2, BadEndOnward
<1>4. CASE BlockOnDependency \/ SkipOnCondition \/ OpenGate
  <2> PICK i \in DOMAIN Topo, s \in {"blocked", "skipped", "awaiting_approval"} :
        Promoting(i) /\ task' = [task EXCEPT ![Topo[i]] = s]
    BY <1>4 DEF BlockOnDependency, SkipOnCondition, OpenGate
  <2>1. s \notin Started BY DEF Started
  <2> QED BY <1>0, <1>2, <2>1, OneOnward
<1>5. CASE MakeReady
  <2> PICK i \in DOMAIN Topo :
        Promoting(i) /\ Verdict(Topo[i]) = "ok" /\ task' = [task EXCEPT ![Topo[i]] = "ready"]
    BY <1>5 DEF MakeReady
  <2>1. Met(Topo[i]) BY <1>2, VerdictIsMet
  <2> QED BY <1>0, <1>2, <2>1, OneOnward
<1>6. CASE StartPass \/ EndPass BY <1>1, <1>6 DEF StartPass, EndPass
<1> QED BY <1>3, <1>4, <1>5, <1>6 DEF Promote

(* A launch runs a task that is ready.                                       *)
LEMMA LaunchOnward ==
  ASSUME WorkInvariant, LaunchWork PROVE Onward
<1>0. TypeOK BY DEF WorkInvariant
<1>1. CASE Launch
  <2> PICK i \in cursor .. Len(Topo) : Launchable(i) /\ task' = [task EXCEPT ![Topo[i]] = "running"]
    BY <1>1 DEF Launch
  <2>1. task[Topo[i]] = "ready" BY DEF Launchable
  <2> QED BY <1>0, <2>1, OneOnward DEF TerminalStates, Started
<1>2. CASE ~Launch
  BY <1>2 DEF LaunchWork, LaunchPendingMerge, AbandonPendingMerge, EndMerges, EndLaunch, Onward
<1> QED BY <1>1, <1>2

(* An answer ends a gate, and a stop denies prompts.                         *)
LEMMA WakeOnward ==
  ASSUME WorkInvariant, HandleWake PROVE Onward
<1>0. TypeOK BY DEF WorkInvariant
<1>1. CASE UNCHANGED task BY <1>1 DEF Onward
<1>2. CASE HandleApproval
  <2> PICK w \in Handled : HandleApproval!(w) BY <1>2 DEF HandleApproval
  <2>1. "awaiting_approval" \notin TerminalStates /\ "success" \notin Started
    BY DEF TerminalStates, Started
  <2> QED BY <1>0, <1>1, <2>1, OneOnward, BadEndOnward
<1>3. CASE HandleStop BY <1>3, DeniedOnward DEF HandleStop, ApplyStop
<1>4. CASE HandleAttemptDone \/ HandleFinalized \/ HandleRetryDue
  BY <1>1, <1>4 DEF HandleAttemptDone, HandleFinalized, HandleRetryDue
<1> QED BY <1>2, <1>3, <1>4 DEF HandleWake

(* An outcome is about a task that has not ended, and a cancel that comes    *)
(* late spares one that has.                                                 *)
LEMMA OutcomeOnward ==
  ASSUME WorkInvariant, StartedInOrder, ApplyOutcome PROVE Onward
<1>0. TypeOK BY DEF WorkInvariant
<1>1. Focused \in Tasks BY SettlesFrom
<1>2. CASE UNCHANGED task BY <1>2 DEF Onward
<1>3. CASE SettleCancel
  <2>1. "cancelled" \notin Started BY DEF Started
  <2> QED BY <1>0, <1>2, <1>3, <2>1, OneOnward DEF SettleCancel, CancelsLate, Became
<1>4. CASE SettleRestart BY <1>1, <1>2, <1>4 DEF SettleRestart, StartedInOrder
<1>5. CASE ~SettleCancel /\ ~SettleRestart
  <2>1. pc = "outcome"
    BY <1>5 DEF ApplyOutcome, Succeed, SkipByAgent, AskInput, BlockByAgent, EndSuspended,
                EndCancelled, Failing, RecoverTransient, NudgeSession, RetryAttempt, FailTask, Applying
  <2>2. task[Focused] \in ActiveStates
    BY <1>1, <2>1 DEF WorkInvariant, ActiveHasWork, HasWork, Focused
  <2>3. task[Focused] \in Started /\ task[Focused] \notin TerminalStates
    BY <2>2 DEF ActiveStates, Started, TerminalStates
  <2> QED
    BY <1>0, <1>5, <2>3, OneOnward, BadEndOnward
    DEF ApplyOutcome, Succeed, SkipByAgent, AskInput, BlockByAgent, EndSuspended, EndCancelled,
        RecoverTransient, NudgeSession, RetryAttempt, FailTask, Became
<1> QED BY <1>3, <1>4, <1>5

(* Of the commands that are left only the resume of a suspended task moves   *)
(* one, and none leaves a restart owed.                                      *)
LEMMA ControlOnward ==
  ASSUME NobodyRevives, WorkInvariant, HandleControl
  PROVE Onward /\ (UNCHANGED restartOwed \/ \A t \in Tasks : restartOwed'[t] = "none")
<1>0. TypeOK BY DEF WorkInvariant
<1>1. CASE UNCHANGED <<task, restartOwed>> BY <1>1 DEF Onward
<1>2. CASE StopRun BY <1>2, DeniedOnward DEF StopRun, ApplyStop
<1>3. CASE CancelTask \/ SuspendTask
  <2>1. UNCHANGED restartOwed /\ (UNCHANGED task \/ \E t : AbortWorker(t))
    BY <1>3 DEF CancelTask, SuspendTask
  <2> QED BY <1>1, <2>1, DeniedOnward DEF AbortWorker
<1>4. CASE ResumeTask
  <2> PICK w \in Handled : ResumeTask!(w) BY <1>4 DEF ResumeTask
  <2>1. UNCHANGED task \/ task' = [task EXCEPT ![w.command.task] = "pending"] BY DEF Restart
  <2>2. "pending" \notin Started /\ "suspended" \notin TerminalStates BY DEF Started, TerminalStates
  <2>3. UNCHANGED restartOwed BY DEF requestVars
  <2> QED BY <1>0, <1>1, <2>1, <2>2, <2>3, OneOnward DEF CanResumeTask
<1>5. CASE EditTask \/ EditNothing
  <2>1. PICK w \in Handled : EditTask!(w) \/ EditNothing!(w) BY <1>5 DEF EditTask, EditNothing
  <2>2. Commanded(w, "edit") BY <2>1
  <2>3. w.command \in Commands /\ w.command.kind = "edit"
    BY <1>0, <2>2, CommandedTask DEF Commanded
  <2>4. ~w.command.restart BY <2>3 DEF NobodyRevives
  <2> QED BY <1>1, <2>1, <2>4
<1>6. CASE RestartTask \/ FollowUp \/ StopAndContinue
  <2>1. PICK w \in Handled : w.kind = "control" /\ w.command.kind \in {"restart", "prompt"}
    BY <1>6 DEF RestartTask, FollowUp, StopAndContinue, Commanded
  <2>2. w.command \in Commands BY <1>0, <2>1, HeadOfQueue, ReportType
  <2> QED BY <2>1, <2>2 DEF NobodyRevives
<1>7. CASE RejectCommand \/ HoldRun \/ ReleaseRun
  BY <1>1, <1>7 DEF RejectCommand, HoldRun, ReleaseRun, requestVars
<1> QED BY <1>2, <1>3, <1>4, <1>5, <1>6, <1>7 DEF HandleControl

(* A prompt that a worker waits on changes nothing of what has started.      *)
LEMMA EnvironmentOnward ==
  ASSUME WorkInvariant, Environment PROVE Onward
<1>0. TypeOK BY DEF WorkInvariant
<1>1. ASSUME NEW t \in Tasks, AskOperator(t) \/ AnswerOperator(t) PROVE Onward
  BY <1>0, <1>1, OneOnward DEF AskOperator, AnswerOperator, Started, TerminalStates
<1> QED
  BY <1>1 DEF Environment, Workspace, WorkerReports, ReportSession, AnswerGate, BecomeDue,
         QueueForTree, Capture, CaptureThrows, MergeBack, FinishCapture, TimerFires, Submit, Onward

(* A restart is owed only to a command, and a stop forgets it.               *)
LEMMA NothingOwed ==
  ASSUME NobodyRevives, WorkInvariant, [Next]_vars, \A t \in Tasks : restartOwed[t] = "none"
  PROVE \A t \in Tasks : restartOwed'[t] = "none"
<1>1. CASE UNCHANGED restartOwed BY <1>1
<1>2. CASE Startup \/ Promote \/ LaunchWork \/ Park \/ Finalize
  BY <1>1, <1>2
  DEF Startup, Prepare, FailPreflight, EnterLoop, Promote, StartPass, BlockOnDependency, SkipOnCondition,
      FailOnCondition, OpenGate, MakeReady, EndPass, Promoting, LaunchWork, LaunchPendingMerge,
      AbandonPendingMerge, EndMerges, Launch, EndLaunch, Park, Finalize, requestVars
<1>3. CASE HandleWake
  BY <1>1, <1>3
  DEF HandleWake, HandleAttemptDone, HandleFinalized, HandleApproval, HandleRetryDue, HandleStop,
      ApplyStop, requestVars
<1>4. CASE ApplyOutcome
  <2>1. UNCHANGED restartOwed \/ restartOwed' = [restartOwed EXCEPT ![Focused] = "none"]
    BY <1>4
    DEF ApplyOutcome, Succeed, SkipByAgent, AskInput, BlockByAgent, EndSuspended, EndCancelled,
        Failing, RecoverTransient, NudgeSession, RetryAttempt, FailTask, Applying, SettleCancel,
        SettleRestart
  <2> QED BY <2>1 DEF WorkInvariant, TypeOK
<1>5. CASE HandleControl BY <1>1, <1>5, ControlOnward
<1>6. CASE Environment
  BY <1>1, <1>6 DEF Environment, Workspace, WorkerReports, ReportSession, AskOperator, AnswerOperator,
         AnswerGate, BecomeDue, QueueForTree, Capture, CaptureThrows, MergeBack, FinishCapture,
         TimerFires, Submit, requestVars
<1>7. CASE UNCHANGED vars BY <1>1, <1>7 DEF vars, requestVars
<1> QED BY <1>2, <1>3, <1>4, <1>5, <1>6, <1>7 DEF Next, Loop, Rest

(* Whatever happens, what has started was free to start.                     *)
LEMMA StartsInOrder ==
  ASSUME NobodyRevives, WorkInvariant, RunsOn, StartedInOrder, [Next]_vars PROVE StartedInOrder'
<1>1. \A t \in Tasks : restartOwed'[t] = "none" BY NothingOwed DEF StartedInOrder
<1>2. CASE Onward
  <2> SUFFICES ASSUME NEW t \in Tasks, task'[t] \in Started PROVE Met(t)'
    BY <1>1 DEF StartedInOrder
  <2>1. Met(t) BY <1>2 DEF Onward, StartedInOrder
  <2>2. \A i \in DOMAIN DependsOn[t] : DependsOn[t][i] \in Tasks
    BY GraphAssumption, ElementOfSeq, LenProperties
  <2> QED BY <1>2, <2>1, <2>2 DEF Onward, Met, TerminalStates
<1>3. CASE Startup
  <2>1. CASE EnterLoop BY <1>2, <2>1 DEF EnterLoop, Onward
  <2>2. CASE ~EnterLoop
    <3>1. RunsOn' BY <1>3, StartupLegal
    <3>2. pc' = "preflight"
      BY <1>3, <2>2 DEF Startup, Prepare, FailPreflight, Goto, loopVars
    <3>3. \A t \in Tasks : task'[t] \notin Started BY <3>1, <3>2 DEF RunsOn, Started
    <3> QED BY <1>1, <3>3 DEF StartedInOrder
  <2> QED BY <2>1, <2>2
<1>4. CASE Finalize
  <2>1. Onward BY <1>4 DEF Finalize, Onward, TerminalStates, Started
  <2> QED BY <1>2, <2>1
<1>5. CASE Park \/ UNCHANGED vars BY <1>2, <1>5 DEF Park, vars, Onward
<1> QED
  BY <1>2, <1>3, <1>4, <1>5, PromoteOnward, LaunchOnward, WakeOnward, OutcomeOnward, ControlOnward,
     EnvironmentOnward DEF Next, Loop, Rest

(* While nobody revives a task that has ended, every task starts only when   *)
(* each of its dependencies has ended in a way that lets it, however many    *)
(* passes, holds, stops and retries lie between its promotion and its launch *)
(* (promoteReady, launchReady).                                              *)
THEOREM TasksStartInOrder ==
  ASSUME NobodyRevives PROVE Spec => DependenciesMet
<1>1. Init => StartedInOrder
  BY DEF Init, StartedInOrder, Started
<1>2. WorkInvariant /\ RunsOn /\ StartedInOrder /\ [Next]_vars => StartedInOrder'
  BY StartsInOrder
<1>3. StartedInOrder
        => [\A t \in Tasks : task[t] = "ready" /\ task'[t] = "running" =>
              \A i \in DOMAIN DependsOn[t] :
                LET d == DependsOn[t][i] IN
                \/ task[d] \in {"success", "skipped"}
                \/ task[d] = "failed" /\ OnFailure[d] = "continue"
                \/ task[d] \in TerminalStates /\ t \in RunAnyway]_task
  BY DEF StartedInOrder, Met, Started
<1> QED BY <1>1, <1>2, <1>3, WorkCorrect, RunsOnCorrect, PTL DEF Spec, DependenciesMet

-----------------------------------------------------------------------------
(* A success reaches the shared tree before it is reported *)

(* Only a gate waits for an approval.                                        *)
GatesWait == \A t \in Tasks : task[t] = "awaiting_approval" => t \in Gates

(* The git work of an attempt never throws, and work that succeeded in a     *)
(* worktree and is reported as captured has been merged.                     *)
CleanIsSwept ==
  \A i \in DOMAIN wake : wake[i].kind = "finalized" =>
    LET t == wake[i].task IN
    /\ wake[i].fin # "lost"
    /\ wake[i].fin = "clean" /\ t \in Worktree /\ EndedWith(t) = "success" => t \in swept

(* So it has when its outcome is about to be applied.                        *)
FocusIsSwept ==
  pc = "outcome" /\ ~focus.conflict /\ FocusAttempt.outcome = "success" /\ Focused \in Worktree
    => Focused \in swept

MergeInvariant == GatesWait /\ CleanIsSwept /\ FocusIsSwept /\ SuccessIsMerged

(* No finalization is added to the queue.                                    *)
NothingFinalized ==
  \A i \in DOMAIN wake' : wake'[i].kind = "finalized" => \E j \in DOMAIN wake : wake[j] = wake'[i]

(* A queue that is left, drained or loses its head has no new finalization. *)
LEMMA TakenQuietly ==
  ASSUME TypeOK, wake' = <<>> \/ UNCHANGED wake \/ (wake # <<>> /\ wake' = Tail(wake))
  PROVE NothingFinalized
<1>1. wake \in Seq(WakeRecord) BY DEF TypeOK
<1>2. CASE wake' = <<>> \/ UNCHANGED wake BY <1>2 DEF NothingFinalized
<1>3. CASE wake # <<>> /\ wake' = Tail(wake)
  <2>1. /\ DOMAIN wake = 1 .. Len(wake) /\ Len(wake) \in Nat \ {0}
        /\ DOMAIN wake' = 1 .. Len(wake) - 1
        /\ \A i \in 1 .. Len(wake) - 1 : wake'[i] = wake[i + 1]
    BY <1>1, <1>3, QueueTail
  <2>2. \A i \in DOMAIN wake' : i + 1 \in DOMAIN wake BY <2>1
  <2> QED BY <2>1, <2>2 DEF NothingFinalized
<1> QED BY <1>2, <1>3

(* Nor has one that something else is pushed on. *)
LEMMA PushedQuietly ==
  ASSUME TypeOK, NEW v, v.kind # "finalized",
         wake' = Append(wake, v) \/ (wake # <<>> /\ wake' = Append(Tail(wake), v))
  PROVE NothingFinalized
<1>1. wake \in Seq(WakeRecord) BY DEF TypeOK
<1>2. CASE wake' = Append(wake, v)
  <2>1. /\ DOMAIN wake = 1 .. Len(wake) /\ Len(wake) \in Nat
        /\ DOMAIN wake' = 1 .. Len(wake) + 1 /\ wake'[Len(wake) + 1] = v
        /\ \A i \in 1 .. Len(wake) : wake'[i] = wake[i]
    BY <1>1, <1>2, Pushed
  <2> QED BY <2>1 DEF NothingFinalized
<1>3. CASE wake # <<>> /\ wake' = Append(Tail(wake), v)
  <2> DEFINE q == Tail(wake)
  <2>1. /\ DOMAIN wake = 1 .. Len(wake) /\ Len(wake) \in Nat \ {0}
        /\ DOMAIN q = 1 .. Len(wake) - 1
        /\ \A i \in 1 .. Len(wake) - 1 : q[i] = wake[i + 1]
    BY <1>1, <1>3, QueueTail
  <2>2. q \in Seq(WakeRecord) /\ Len(q) = Len(wake) - 1 BY <1>1, <1>3, HeadTailProperties
  <2>3. wake' = Append(q, v) BY <1>3
  <2> HIDE DEF q
  <2>4. /\ DOMAIN q = 1 .. Len(q) /\ Len(q) \in Nat
        /\ DOMAIN wake' = 1 .. Len(q) + 1 /\ wake'[Len(q) + 1] = v
        /\ \A i \in 1 .. Len(q) : wake'[i] = q[i]
    BY <2>2, <2>3, Pushed
  <2> SUFFICES ASSUME NEW i \in DOMAIN wake', wake'[i].kind = "finalized"
               PROVE \E j \in DOMAIN wake : wake[j] = wake'[i]
    BY DEF NothingFinalized
  <2>5. i \in 1 .. Len(wake) - 1 /\ wake'[i] = q[i] BY <2>2, <2>4
  <2> QED BY <2>1, <2>5
<1> QED BY <1>2, <1>3

(* Only the capture of an attempt adds a finalization to the queue.          *)
LEMMA OnlyCaptures ==
  ASSUME WorkInvariant, [Next]_vars, ~\E t \in Tasks : Workspace(t) PROVE NothingFinalized
<1>0. TypeOK BY DEF WorkInvariant
<1>1. CASE UNCHANGED wake BY <1>0, <1>1, TakenQuietly
<1>2. CASE HandleWake
  BY <1>0, <1>2, StartedFrom, TakenQuietly
  DEF HandleWake, HandleAttemptDone, HandleFinalized, HandleApproval, HandleRetryDue, HandleStop, Took
<1>3. CASE HandleControl
  <2>1. wake # <<>> /\ (wake' = Tail(wake) \/ wake' = Append(Tail(wake), RetryDue))
    BY <1>3, StartedFrom
    DEF HandleControl, RejectCommand, StopRun, HoldRun, ReleaseRun, RestartTask, CancelTask,
        SuspendTask, ResumeTask, FollowUp, StopAndContinue, EditNothing, EditTask, Took
  <2>2. RetryDue.kind # "finalized" BY DEF RetryDue
  <2> QED BY <1>0, <2>1, <2>2, TakenQuietly, PushedQuietly
<1>4. CASE Finalize BY <1>0, <1>4, TakenQuietly DEF Finalize
<1>5. CASE OpenGate
  <2>1. UNCHANGED wake \/ \E t, d : wake' = Append(wake, Approval(t, d)) BY <1>5 DEF OpenGate
  <2>2. \A t, d : Approval(t, d).kind # "finalized" BY DEF Approval
  <2> QED BY <1>0, <1>1, <2>1, <2>2, PushedQuietly
<1>6. CASE Startup \/ (Promote /\ ~OpenGate) \/ LaunchWork \/ ApplyOutcome \/ Park
  BY <1>1, <1>6
  DEF Startup, Prepare, FailPreflight, EnterLoop, Promote, StartPass, BlockOnDependency, SkipOnCondition,
      FailOnCondition, MakeReady, EndPass, LaunchWork, LaunchPendingMerge,
      AbandonPendingMerge, EndMerges, Launch, EndLaunch, ApplyOutcome, Succeed,
      SkipByAgent, AskInput, BlockByAgent, EndSuspended, EndCancelled, Failing, RecoverTransient,
      NudgeSession, RetryAttempt, FailTask, Applying, SettleCancel, SettleRestart, Park
<1>7. CASE Environment
  <2>1. \/ UNCHANGED wake
        \/ \E t, n, o : wake' = Append(wake, AttemptDone(t, n, o))
        \/ \E t, d : wake' = Append(wake, Approval(t, d))
        \/ wake' = Append(wake, StopWake("wait", "pause")) \/ wake' = Append(wake, RetryDue)
        \/ \E c, n : wake' = Append(wake, Control(c, n))
    BY <1>7 DEF Environment, WorkerReports, ReportSession, AskOperator, AnswerOperator,
                AnswerGate, BecomeDue, TimerFires, Submit, Pushes
  <2>2. /\ \A t, n, o : AttemptDone(t, n, o).kind # "finalized"
        /\ \A t, d : Approval(t, d).kind # "finalized"
        /\ StopWake("wait", "pause").kind # "finalized" /\ RetryDue.kind # "finalized"
        /\ \A c, n : Control(c, n).kind # "finalized"
    BY DEF AttemptDone, Approval, StopWake, RetryDue, Control
  <2> QED BY <1>0, <1>1, <2>1, <2>2, PushedQuietly
<1>8. CASE UNCHANGED vars BY <1>1, <1>8 DEF vars
<1> QED BY <1>2, <1>3, <1>4, <1>5, <1>6, <1>7, <1>8 DEF Next, Loop, Rest

(* An attempt whose finalization is in the queue is left as it is until it   *)
(* is handled, and no launch takes its worktree away.                        *)
LEMMA SettledStays ==
  ASSUME WorkInvariant, [Next]_vars, NEW t \in Tasks,
         inflight[t].phase = "settled", inflight'[t].phase = "settled"
  PROVE /\ attempts'[t] = attempts[t] /\ inflight'[t].attempt = inflight[t].attempt
        /\ t \in swept => t \in swept'
<1>0. TypeOK /\ WorkOnce /\ InFlight(t) BY DEF WorkInvariant, InFlight
<1>1. ASSUME UNCHANGED <<attempts, swept>>, SameEntries \/ UNCHANGED inflight
      PROVE /\ attempts'[t] = attempts[t] /\ inflight'[t].attempt = inflight[t].attempt
            /\ t \in swept => t \in swept'
  BY <1>1 DEF SameEntries
<1>2. ASSUME UNCHANGED <<attempts, swept>>, NEW S, inflight' = AbortAll(inflight)
      PROVE SameEntries
  BY <1>0, <1>2, SameAborted
<1>3. CASE Startup \/ Promote \/ Park \/ Finalize
  <2>1. UNCHANGED <<attempts, swept>> /\ (UNCHANGED inflight \/ inflight' = AbortAll(inflight))
    BY <1>3
    DEF Startup, Prepare, FailPreflight, EnterLoop, Promote, StartPass, BlockOnDependency,
        SkipOnCondition, FailOnCondition, OpenGate, MakeReady, EndPass, Promoting, EndBadly,
        Park, Finalize, taskVars, workVars
  <2> QED BY <1>0, <1>1, <2>1, SameAborted
<1>4. CASE LaunchWork
  <2>1. CASE EndMerges \/ EndLaunch BY <1>1, <2>1 DEF EndMerges, EndLaunch, taskVars, workVars
  <2>2. CASE Launch
    <3> PICK i \in cursor .. Len(Topo) : Launch!(i) BY <2>2 DEF Launch
    <3> DEFINE u == Topo[i]
    <3>1. i \in Nat \ {0} /\ i <= Len(Topo) BY <1>0, Order DEF TypeOK
    <3>2. u \in Tasks BY <3>1, TaskAt
    <3>3. inflight'[u].phase = "working" BY <1>0, <3>2, AttemptStarts
    <3>4. t # u BY <3>3
    <3> QED BY <1>0, <3>4 DEF StartAttempt, TypeOK
  <2>3. CASE LaunchPendingMerge \/ AbandonPendingMerge
    <3>1. pendingMerges # <<>> /\ pendingMerges' = Tail(pendingMerges)
      BY <2>3 DEF LaunchPendingMerge, AbandonPendingMerge
    <3> PICK u \in Tasks, n \in Nat :
          Head(pendingMerges).task = u /\ Head(pendingMerges).attempt = n /\ ~InFlight(u)
      BY <1>0, <3>1, FirstPending
    <3>2. t # u BY <1>0
    <3> QED BY <1>0, <2>3, <3>2
      DEF LaunchPendingMerge, AbandonPendingMerge, StartMergeAttempt, StartAttempt, Conflicted, TypeOK
  <2> QED BY <1>4, <2>1, <2>2, <2>3 DEF LaunchWork
<1>5. CASE HandleAttemptDone
  <2> PICK w \in Handled : HandleAttemptDone!(w) BY <1>5 DEF HandleAttemptDone
  <2>1. w.task \in Tasks /\ inflight[w.task].phase = "ended" BY ReportIsCurrent DEF AboutAttempt
  <2>2. t # w.task BY <2>1
  <2> QED BY <1>0, <2>2 DEF TypeOK
<1>6. CASE HandleFinalized
  <2> PICK w \in Handled : HandleFinalized!(w) BY <1>6 DEF HandleFinalized
  <2>1. w.task \in Tasks /\ Current(w) BY ReportIsCurrent DEF AboutAttempt
  <2>2. \/ StartMergeAttempt(w.task, w.attempt)
        \/ /\ inflight' = [inflight EXCEPT ![w.task] = NoEntry]
           /\ UNCHANGED attempts \/ attempts' = Conflicted(w.task, w.attempt)
    BY <2>1
  <2>3. inflight'[w.task].phase # "settled"
    <3>1. CASE StartMergeAttempt(w.task, w.attempt) BY <1>0, <2>1, <3>1, MergeAttemptStarts
    <3>2. CASE inflight' = [inflight EXCEPT ![w.task] = NoEntry]
      <4>1. inflight'[w.task] = NoEntry BY <1>0, <2>1, <3>2 DEF TypeOK
      <4> QED BY <4>1 DEF NoEntry
    <3> QED BY <2>2, <3>1, <3>2
  <2>4. t # w.task BY <2>3
  <2> QED BY <1>0, <2>2, <2>4 DEF StartMergeAttempt, StartAttempt, Conflicted, TypeOK
<1>7. CASE HandleApproval \/ HandleRetryDue \/ HandleStop
  <2>1. UNCHANGED <<attempts, swept>> /\ (UNCHANGED inflight \/ inflight' = AbortAll(inflight))
    BY <1>7 DEF HandleApproval, HandleRetryDue, HandleStop, ApplyStop, EndBadly, taskVars, workVars
  <2> QED BY <1>0, <1>1, <2>1, SameAborted
<1>8. CASE EndSuspended
  <2>1. t # Focused
    BY <1>0, <1>8 DEF EndSuspended, Applying, WorkOnce, Focused
  <2> QED BY <1>0, <1>8, <2>1 DEF EndSuspended, Applying, TypeOK
<1>9. CASE ApplyOutcome /\ ~EndSuspended
  <2>1. UNCHANGED <<attempts, swept>> /\ (UNCHANGED inflight \/ inflight' = AbortAll(inflight))
    BY <1>9
    DEF ApplyOutcome, Succeed, SkipByAgent, AskInput, BlockByAgent, EndCancelled, Failing,
        RecoverTransient, NudgeSession, RetryAttempt, FailTask, Applying, SettleCancel,
        SettleRestart, EndBadly, workVars
  <2> QED BY <1>0, <1>1, <2>1, SameAborted
<1>10. CASE HandleControl
  <2>1. UNCHANGED <<attempts, swept>>
    BY <1>10
    DEF HandleControl, RejectCommand, StopRun, HoldRun, ReleaseRun, RestartTask, CancelTask,
        SuspendTask, ResumeTask, FollowUp, StopAndContinue, EditNothing, EditTask, Commanded
  <2>2. UNCHANGED inflight \/ inflight' = AbortAll(inflight) \/ \E u : AbortWorker(u)
    BY <1>10
    DEF HandleControl, RejectCommand, StopRun, HoldRun, ReleaseRun, RestartTask, CancelTask,
        SuspendTask, ResumeTask, FollowUp, StopAndContinue, EditNothing, EditTask, ApplyStop, workVars
  <2> QED BY <1>0, <1>1, <2>1, <2>2, SameAborted, AbortWorkerKeeps
<1>11. CASE Environment
  <2>1. ASSUME NEW u \in Tasks, WorkerReports(u) \/ Workspace(u) PROVE t # u
    BY <2>1
    DEF WorkerReports, Working, Workspace, QueueForTree, Capture, CaptureThrows, Capturing, MergeBack
  <2>2. ASSUME NEW u \in Tasks, WorkerReports(u) \/ Workspace(u)
        PROVE /\ UNCHANGED attempts /\ inflight'[t] = inflight[t]
              /\ t \in swept => t \in swept'
    <3>1. /\ \E p \in {"ended", "queued", "settled"} : inflight' = [inflight EXCEPT ![u].phase = p]
          /\ UNCHANGED attempts /\ (t \in swept => t \in swept')
      BY <2>2 DEF WorkerReports, Workspace, QueueForTree, Capture, CaptureThrows, MergeBack,
                  FinishCapture, taskVars
    <3> QED BY <1>0, <2>1, <2>2, <3>1, PhaseMoves
  <2>3. ASSUME NEW u \in Tasks, ReportSession(u)
        PROVE /\ attempts'[t] = attempts[t] /\ UNCHANGED <<inflight, swept>>
    <3>1. t # u BY <2>3 DEF ReportSession, Working
    <3> QED BY <1>0, <2>3, <3>1 DEF ReportSession, TypeOK, workVars
  <2>4. ASSUME ~\E u \in Tasks : WorkerReports(u) \/ Workspace(u) \/ ReportSession(u)
        PROVE UNCHANGED <<attempts, inflight, swept>>
    BY <1>11, <2>4
    DEF Environment, AskOperator, AnswerOperator, AnswerGate, BecomeDue, TimerFires, Submit,
        taskVars, workVars
  <2> QED BY <1>1, <2>2, <2>3, <2>4
<1>12. CASE UNCHANGED vars BY <1>1, <1>12 DEF vars, taskVars, workVars
<1> QED
  BY <1>3, <1>4, <1>5, <1>6, <1>7, <1>8, <1>9, <1>10, <1>11, <1>12 DEF Next, Loop, Rest, HandleWake

(* What is reported as captured has been merged if it should be.             *)
LEMMA CleanStays ==
  ASSUME ~WorkspaceFails, Cleanup # "never", WorkInvariant, CleanIsSwept, [Next]_vars
  PROVE CleanIsSwept'
<1>0. WorkInvariant' BY WorkStep
<1>1. ASSUME NEW t \in Tasks,
             inflight[t].phase = "settled", inflight'[t].phase = "settled"
      PROVE EndedWith(t)' = EndedWith(t) /\ (t \in swept => t \in swept')
  BY <1>1, SettledStays DEF EndedWith, PositionOf, Positions
<1>2. ASSUME NEW i \in DOMAIN wake', wake'[i].kind = "finalized",
             NEW j \in DOMAIN wake, wake[j] = wake'[i]
      PROVE /\ wake'[i].fin # "lost"
            /\ \E t \in Tasks :
                 /\ wake'[i].task = t
                 /\ wake'[i].fin = "clean" /\ t \in Worktree /\ EndedWith(t)' = "success"
                      => t \in swept'
  <2>1. PICK t \in Tasks : t = wake[j].task
    <3>1. wake \in Seq(WakeRecord) BY DEF WorkInvariant, TypeOK
    <3>2. wake[j] \in WakeRecord BY <3>1, LenProperties, ElementOfSeq
    <3> QED BY <1>2, <3>2, ReportType
  <2>2. inflight[t].phase = "settled"
    BY <1>2, <2>1 DEF WorkInvariant, ReportsMatch, Reported
  <2>3. inflight'[t].phase = "settled"
    BY <1>0, <1>2, <2>1 DEF WorkInvariant, ReportsMatch, Reported
  <2>4. EndedWith(t)' = EndedWith(t) /\ (t \in swept => t \in swept') BY <1>1, <2>1, <2>2, <2>3
  <2>5. /\ wake[j].fin # "lost"
        /\ wake[j].fin = "clean" /\ t \in Worktree /\ EndedWith(t) = "success" => t \in swept
    BY <1>2, <2>1 DEF CleanIsSwept
  <2>6. wake'[i].task = t /\ wake'[i].fin = wake[j].fin BY <1>2, <2>1
  <2> QED BY <2>4, <2>5, <2>6
<1>3. CASE NothingFinalized
  BY <1>2, <1>3 DEF NothingFinalized, CleanIsSwept, EndedWith, PositionOf, Positions
<1>4. ASSUME NEW u \in Tasks, Workspace(u) PROVE CleanIsSwept'
  <2>1. CASE QueueForTree(u)
    <3>1. wake' = wake BY <2>1 DEF QueueForTree
    <3> QED BY <1>3, <3>1 DEF NothingFinalized
  <2>2. CASE ~QueueForTree(u)
    <3>1. PICK fin \in {"clean", "conflict"} :
            /\ FinishCapture(u, fin)
            /\ fin = "clean" /\ u \in Worktree /\ EndedWith(u) = "success" => u \in swept'
      BY <1>4, <2>2 DEF Workspace, Capture, CaptureThrows, MergeBack, MergesBack
    <3> DEFINE v == Finalized(u, inflight[u].attempt, fin)
    <3>2. wake' = Append(wake, v) /\ inflight' = [inflight EXCEPT ![u].phase = "settled"]
          /\ UNCHANGED attempts
      BY <3>1 DEF FinishCapture, Pushes
    <3>3. v.task = u /\ v.fin = fin BY DEF Finalized
    <3>4. inflight'[u].attempt = inflight[u].attempt
      BY <3>2, PhaseMoves DEF WorkInvariant
    <3>5. EndedWith(u)' = EndedWith(u) BY <3>2, <3>4 DEF EndedWith, PositionOf, Positions
    <3>6. wake \in Seq(WakeRecord) BY DEF WorkInvariant, TypeOK
    <3>7. wake' = Append(wake, v) BY <3>2
    <3> HIDE DEF v
    <3>8. \A i \in DOMAIN wake' : wake'[i] = v \/ (i \in DOMAIN wake /\ wake[i] = wake'[i])
      <4>1. /\ DOMAIN wake = 1 .. Len(wake) /\ DOMAIN wake' = 1 .. Len(wake) + 1
            /\ Len(wake) \in Nat /\ wake'[Len(wake) + 1] = v
            /\ \A i \in 1 .. Len(wake) : wake'[i] = wake[i]
        BY <3>6, <3>7, Pushed
      <4> QED BY <4>1
    <3>9. /\ v.fin # "lost" /\ v.task = u
          /\ v.fin = "clean" /\ u \in Worktree /\ EndedWith(u)' = "success" => u \in swept'
      BY <3>1, <3>3, <3>5
    <3> QED BY <1>2, <3>8, <3>9 DEF CleanIsSwept, EndedWith, PositionOf, Positions
  <2> QED BY <2>1, <2>2
<1> QED BY <1>3, <1>4, OnlyCaptures

(* A success or a wait for approval comes from the one step that brings it.  *)
LEMMA ComesToSuccess ==
  ASSUME WorkInvariant, RunsOn, GatesWait, [Next]_vars, NEW t \in Tasks \ Gates,
         task'[t] \in {"success", "awaiting_approval"}, task'[t] # task[t]
  PROVE Succeed /\ t = Focused /\ task'[t] = "success"
<1>0. TypeOK /\ task[t] # "awaiting_approval" BY DEF WorkInvariant, GatesWait
<1>1. ASSUME NEW u, NEW s, EndBadly(u, s), s \notin {"success", "awaiting_approval"} PROVE FALSE
  BY <1>1 DEF EndBadly
<1>2. ASSUME NEW S, task' = Settled(S) PROVE FALSE BY <1>2 DEF Settled
<1>3. ASSUME NEW u, NEW s, task' = [task EXCEPT ![u] = s], s \notin {"success", "awaiting_approval"}
      PROVE FALSE
  BY <1>0, <1>3 DEF TypeOK
<1>4. ASSUME NEW u, NEW b, Restart(u, b) PROVE FALSE BY <1>3, <1>4 DEF Restart
<1>5. CASE Startup \/ Park \/ Finalize
  BY <1>1, <1>5 DEF Startup, Prepare, Prepared, FailPreflight, EnterLoop, Park, Finalize
<1>6. CASE Promote
  <2>1. CASE OpenGate
    <3> PICK i \in DOMAIN Topo :
          Topo[i] \in Gates /\ task' = [task EXCEPT ![Topo[i]] = "awaiting_approval"]
      BY <2>1 DEF OpenGate
    <3> QED BY <1>0 DEF TypeOK
  <2> QED
    BY <1>1, <1>3, <1>6, <2>1 DEF Promote, StartPass, BlockOnDependency, SkipOnCondition,
       FailOnCondition, MakeReady, EndPass
<1>7. CASE LaunchWork
  <2>1. UNCHANGED task \/ \E u : task' = [task EXCEPT ![u] = "running"]
    BY <1>7 DEF LaunchWork, LaunchPendingMerge, AbandonPendingMerge, EndMerges, Launch, EndLaunch
  <2> QED BY <1>3, <2>1
<1>8. CASE HandleWake
  <2>1. CASE HandleApproval
    <3> PICK w \in Handled : HandleApproval!(w) BY <2>1 DEF HandleApproval
    <3>1. CASE UNCHANGED task BY <3>1
    <3>2. CASE EndBadly(w.task, "failed") BY <1>1, <3>2
    <3>3. CASE task[w.task] = "awaiting_approval" /\ task' = [task EXCEPT ![w.task] = "success"]
      <4>1. t # w.task BY <1>0, <3>3
      <4> QED BY <3>3, <4>1 DEF TypeOK
    <3> QED BY <3>1, <3>2, <3>3
  <2> QED
    BY <1>2, <1>8, <2>1
    DEF HandleWake, HandleAttemptDone, HandleFinalized, HandleRetryDue, HandleStop, ApplyStop
<1>9. CASE Succeed BY <1>0, <1>9 DEF Succeed, Became, TypeOK
<1>10. CASE ApplyOutcome /\ ~Succeed
  BY <1>1, <1>3, <1>4, <1>10, ZenonT(30)
  DEF ApplyOutcome, SkipByAgent, AskInput, BlockByAgent, EndSuspended, EndCancelled,
      RecoverTransient, NudgeSession, RetryAttempt, FailTask, SettleCancel, SettleRestart, Became
<1>11. CASE HandleControl
  <2>1. \/ UNCHANGED task \/ (\E S : task' = Settled(S)) \/ (\E u, b : Restart(u, b))
        \/ \E u : task' = [task EXCEPT ![u] = "pending"]
    BY <1>11
    DEF HandleControl, RejectCommand, StopRun, HoldRun, ReleaseRun, RestartTask, CancelTask,
        SuspendTask, ResumeTask, FollowUp, StopAndContinue, EditNothing, EditTask, ApplyStop, AbortWorker
  <2> QED BY <1>2, <1>3, <1>4, <2>1
<1>12. CASE Environment
  <2>1. UNCHANGED task \/ \E u, s : s \in {"waiting", "running"} /\ task' = [task EXCEPT ![u] = s]
    BY <1>12
    DEF Environment, Workspace, WorkerReports, ReportSession, AskOperator, AnswerOperator, AnswerGate,
        BecomeDue, QueueForTree, Capture, CaptureThrows, MergeBack, FinishCapture, TimerFires, Submit
  <2> QED BY <1>3, <2>1
<1>13. CASE UNCHANGED vars BY <1>13 DEF vars
<1> QED
  BY <1>5, <1>6, <1>7, <1>8, <1>9, <1>10, <1>11, <1>12, <1>13 DEF Next, Loop, Rest

(* The outcome that is about to be applied is that of the attempt whose      *)
(* capture has been reported.                                                *)
LEMMA FocusStays ==
  ASSUME WorkInvariant, CleanIsSwept, FocusIsSwept, [Next]_vars PROVE FocusIsSwept'
<1> SUFFICES ASSUME pc' = "outcome", ~focus'.conflict PROVE FocusIsSwept' BY DEF FocusIsSwept
<1>1. CASE UNCHANGED vars
  BY <1>1 DEF vars, loopVars, taskVars, FocusIsSwept, FocusAttempt, Focused, PositionOf, Positions
<1>2. CASE AbandonPendingMerge
  BY <1>2 DEF AbandonPendingMerge
<1>3. CASE HandleFinalized
  <2> PICK w \in Handled : HandleFinalized!(w) BY <1>3 DEF HandleFinalized
  <2> DEFINE t == w.task
  <2>1. /\ w \in WakeRecord /\ wake # <<>> /\ w = Head(wake) /\ w.kind = "finalized"
        /\ t \in Tasks /\ Current(w)
    BY ReportIsCurrent DEF AboutAttempt
  <2>2. /\ UNCHANGED swept /\ focus' = [task |-> t, attempt |-> w.attempt,
                                        conflict |-> w.fin = "conflict", back |-> "pass"]
        /\ attempts' = IF w.fin = "conflict" THEN Conflicted(t, w.attempt) ELSE attempts
    <3>1. pc' # "pass" OBVIOUS
    <3> QED BY <2>1, <3>1 DEF Goto
  <2>3. focus'.task = t /\ focus'.attempt = w.attempt /\ w.fin # "conflict" BY <2>2
  <2>4. attempts' = attempts BY <2>2, <2>3
  <2>5. 1 \in DOMAIN wake /\ wake[1] = w
    <3>1. wake \in Seq(WakeRecord) BY DEF WorkInvariant, TypeOK
    <3> QED BY <2>1, <3>1, QueueTail
  <2>6. /\ w.fin # "lost"
        /\ w.fin = "clean" /\ t \in Worktree /\ EndedWith(t) = "success" => t \in swept
    BY <2>1, <2>5 DEF CleanIsSwept
  <2>7. w.fin = "clean" BY <2>1, <2>3, <2>6, ReportType
  <2>8. FocusAttempt'.outcome = EndedWith(t)
    BY <2>1, <2>3, <2>4 DEF FocusAttempt, Focused, EndedWith, PositionOf, Positions, Current
  <2> QED BY <2>2, <2>3, <2>6, <2>7, <2>8 DEF FocusIsSwept, Focused
<1> QED
  <2>1. ~Prepare /\ ~(\E t \in Tasks : FailPreflight(t)) /\ ~EnterLoop
    BY DEF Prepare, FailPreflight, EnterLoop, Goto, loopVars
  <2>2. ~Environment
    BY StartedFrom
  <2>3. HandleWake => HandleFinalized
    BY DEF HandleWake, HandleAttemptDone, HandleApproval, HandleRetryDue, HandleStop, Goto
  <2>4. LaunchWork => AbandonPendingMerge
    BY DEF LaunchWork, LaunchPendingMerge, EndMerges, Launch, EndLaunch, loopVars, Goto
  <2> QED
    BY <1>1, <1>2, <1>3, <2>1, <2>2, <2>3, <2>4, StartedFrom, SettlesFrom DEF Next, Loop, Rest, Startup

(* A launch takes a task's worktree as new; nothing else forgets what was    *)
(* merged.                                                                   *)
LEMMA MergedStays ==
  ASSUME WorkInvariant, [Next]_vars, NEW t \in swept, t \notin swept' PROVE task'[t] = "running"
<1>0. TypeOK BY DEF WorkInvariant
<1>1. Launch
  BY DEF Next, Loop, Rest, Startup, Prepare, FailPreflight, EnterLoop, Promote, StartPass,
      BlockOnDependency, SkipOnCondition, FailOnCondition, OpenGate, MakeReady, EndPass, Promoting,
      LaunchWork, LaunchPendingMerge, AbandonPendingMerge, EndMerges, EndLaunch, HandleWake,
      HandleAttemptDone, HandleFinalized, HandleApproval, HandleRetryDue, HandleStop, ApplyOutcome,
      Succeed, SkipByAgent, AskInput, BlockByAgent, EndSuspended, EndCancelled, Failing,
      RecoverTransient, NudgeSession, RetryAttempt, FailTask, Applying, SettleCancel, SettleRestart,
      HandleControl, RejectCommand, StopRun, HoldRun, ReleaseRun, RestartTask, CancelTask,
      SuspendTask, ResumeTask, FollowUp, StopAndContinue, EditNothing, EditTask, Commanded, Park,
      Finalize, Environment, Workspace, WorkerReports, ReportSession, AskOperator, AnswerOperator,
      AnswerGate, BecomeDue, QueueForTree, Capture, CaptureThrows, MergeBack, FinishCapture,
      TimerFires, Submit, taskVars, vars
<1> PICK i \in cursor .. Len(Topo) :
      task' = [task EXCEPT ![Topo[i]] = "running"] /\ swept' = swept \ {Topo[i]}
  BY <1>1 DEF Launch
<1>2. t = Topo[i] /\ t \in Tasks BY <1>0 DEF TypeOK
<1> QED BY <1>0, <1>2 DEF TypeOK

(* The invariant is inductive.                                               *)
LEMMA MergeStep ==
  ASSUME ~WorkspaceFails, Cleanup # "never",
         WorkInvariant, RunsOn, MergeInvariant, [Next]_vars
  PROVE MergeInvariant'
<1>1. GatesWait' BY ComesToSuccess DEF MergeInvariant, GatesWait
<1>2. CleanIsSwept' BY CleanStays DEF MergeInvariant
<1>3. FocusIsSwept' BY FocusStays DEF MergeInvariant
<1>4. SuccessIsMerged'
  <2> SUFFICES ASSUME NEW t \in Worktree \ Completed, task'[t] = "success" PROVE t \in swept'
    BY DEF SuccessIsMerged
  <2>1. t \in Tasks \ Gates BY GraphAssumption
  <2>2. CASE task[t] = "success" BY <2>2, MergedStays DEF MergeInvariant, SuccessIsMerged
  <2>3. CASE task[t] # "success"
    <3>1. Succeed /\ t = Focused BY <2>1, <2>3, ComesToSuccess DEF MergeInvariant
    <3>2. t \in swept
      <4>1. pc = "outcome" /\ FocusAttempt.outcome = "success" /\ ~focus.conflict
        BY <3>1 DEF Succeed, Applying
      <4> QED BY <3>1, <4>1 DEF MergeInvariant, FocusIsSwept
    <3> QED BY <3>1, <3>2 DEF Succeed, Applying
  <2> QED BY <2>2, <2>3
<1> QED BY <1>1, <1>2, <1>3, <1>4 DEF MergeInvariant

(* When the git work of an attempt does not throw and worktrees are removed  *)
(* once merged, a task with a worktree is reported successful only after its *)
(* branch has reached the shared tree, whatever merges, conflicts, sessions  *)
(* that resolve them, stops and messages come between (handleFinalized,      *)
(* applyOutcome, mergeBack).                                                 *)
THEOREM SuccessesAreMerged ==
  ASSUME ~WorkspaceFails, Cleanup # "never"
  PROVE  Spec => []SuccessIsMerged
<1>1. Init => MergeInvariant
  BY GraphAssumption
  DEF Init, MergeInvariant, GatesWait, CleanIsSwept, FocusIsSwept, SuccessIsMerged
<1>2. WorkInvariant /\ RunsOn /\ MergeInvariant /\ [Next]_vars => MergeInvariant' BY MergeStep
<1>3. MergeInvariant => SuccessIsMerged BY DEF MergeInvariant
<1> QED BY <1>1, <1>2, <1>3, WorkCorrect, RunsOnCorrect, PTL DEF Spec

=============================================================================
