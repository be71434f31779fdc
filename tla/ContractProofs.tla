--------------------------- MODULE ContractProofs ---------------------------
(***************************************************************************)
(* The scheduler implements the contract of a run (RunContract): every step  *)
(* of its loop, of its workers and of the operator is one of the contract's,  *)
(* or changes nothing the contract speaks of.                                *)
(*                                                                           *)
(* One clause of the contract follows from none of the invariants so far:     *)
(* that a merge session comes on top of at most a full house.                *)
(* launchPendingMerges does not count; what keeps the number down is that a   *)
(* tree is only freed for it by an attempt whose finalization is still in     *)
(* the queue (LimitInvariant).                                               *)
(***************************************************************************)
EXTENDS RunProofs, RunRefinement, FiniteSetTheorems

-----------------------------------------------------------------------------
(* How the wake queue moves *)

(* Every step leaves the queue, takes its head or pushes a wake, or both; a   *)
(* finalization is taken by its own handler (wake.next, handleWake).         *)
LEMMA QueueMoves ==
  ASSUME WorkInvariant, [Next]_vars, ~HandleFinalized
  PROVE \/ UNCHANGED wake
        \/ \E v : wake' = Append(wake, v)
        \/ /\ wake # <<>> /\ Head(wake).kind # "finalized"
           /\ wake' = Tail(wake) \/ \E v : wake' = Append(Tail(wake), v)
<1>0. TypeOK BY DEF WorkInvariant
<1>1. CASE HandleWake \/ HandleControl
  <2>1. PICK w \in Handled :
          /\ wake' = Tail(wake) \/ wake' = Append(Tail(wake), RetryDue)
          /\ w.kind \in {"attempt_done", "approval", "retry_due", "stop", "control"}
    BY <1>1
    DEF HandleWake, HandleAttemptDone, HandleApproval, HandleRetryDue, HandleStop, Took,
        HandleControl, RejectCommand, StopRun, HoldRun, ReleaseRun, RestartTask, CancelTask,
        SuspendTask, ResumeTask, FollowUp, StopAndContinue, EditNothing, EditTask, Commanded
  <2>2. wake # <<>> /\ w = Head(wake) BY <2>1 DEF Handled
  <2> QED BY <2>1, <2>2
<1>2. CASE Finalize BY <1>2 DEF Finalize, Idle
<1>3. CASE Startup \/ Promote \/ LaunchWork \/ ApplyOutcome \/ Park
  <2>1. UNCHANGED wake \/ \E t, d : wake' = Append(wake, Approval(t, d))
    BY <1>3
    DEF Startup, Prepare, FailPreflight, EnterLoop, Promote, StartPass, BlockOnDependency, SkipOnCondition,
        FailOnCondition, OpenGate, MakeReady, EndPass, LaunchWork, LaunchPendingMerge,
        AbandonPendingMerge, EndMerges, Launch, EndLaunch, ApplyOutcome, Succeed,
        SkipByAgent, AskInput, BlockByAgent, EndSuspended, EndCancelled, Failing, RecoverTransient,
        NudgeSession, RetryAttempt, FailTask, Applying, SettleCancel, SettleRestart, Park
  <2> QED BY <2>1
<1>4. CASE Environment
  <2>1. UNCHANGED wake \/ \E v : wake' = Append(wake, v)
    BY <1>4 DEF Environment, WorkerReports, ReportSession, AskOperator, AnswerOperator,
                AnswerGate, BecomeDue, TimerFires, Submit, Pushes, Workspace, QueueForTree,
                Capture, CaptureThrows, MergeBack, FinishCapture
  <2> QED BY <2>1
<1>5. CASE UNCHANGED vars BY <1>5 DEF vars
<1> QED BY <1>1, <1>2, <1>3, <1>4, <1>5 DEF Next, Loop, Rest, HandleWake

(* A finalization in the queue stays there, behind nothing that was not ahead *)
(* of it before.                                                             *)
LEMMA FinalizationStays ==
  ASSUME WorkInvariant, [Next]_vars, ~HandleFinalized,
         NEW i \in DOMAIN wake, wake[i].kind = "finalized"
  PROVE \E k \in DOMAIN wake' :
          /\ wake'[k] = wake[i]
          /\ \A j \in 1 .. k : \E n \in 1 .. i : wake'[j] = wake[n]
<1>1. wake \in Seq(WakeRecord) BY DEF WorkInvariant, TypeOK
<1>2. DOMAIN wake = 1 .. Len(wake) /\ Len(wake) \in Nat BY <1>1, LenProperties
<1>3. CASE UNCHANGED wake BY <1>2, <1>3
<1>4. ASSUME NEW v, wake' = Append(wake, v)
      PROVE \E k \in DOMAIN wake' :
              /\ wake'[k] = wake[i]
              /\ \A j \in 1 .. k : \E n \in 1 .. i : wake'[j] = wake[n]
  <2>1. DOMAIN wake' = 1 .. Len(wake) + 1 /\ \A j \in 1 .. Len(wake) : wake'[j] = wake[j]
    BY <1>1, <1>4, Pushed
  <2> QED BY <1>2, <2>1
<1>5. ASSUME wake # <<>>, Head(wake).kind # "finalized",
             wake' = Tail(wake) \/ \E v : wake' = Append(Tail(wake), v)
      PROVE \E k \in DOMAIN wake' :
              /\ wake'[k] = wake[i]
              /\ \A j \in 1 .. k : \E n \in 1 .. i : wake'[j] = wake[n]
  <2>1. /\ Head(wake) = wake[1] /\ DOMAIN Tail(wake) = 1 .. Len(wake) - 1
        /\ \A j \in 1 .. Len(wake) - 1 : Tail(wake)[j] = wake[j + 1]
    BY <1>1, <1>5, QueueTail
  <2>2. i \in 2 .. Len(wake) BY <1>2, <1>5, <2>1
  <2>3. 1 .. Len(wake) - 1 \subseteq DOMAIN wake'
        /\ \A j \in 1 .. Len(wake) - 1 : wake'[j] = wake[j + 1]
    <3>1. CASE wake' = Tail(wake) BY <2>1, <3>1
    <3>2. ASSUME NEW v, wake' = Append(Tail(wake), v)
          PROVE /\ 1 .. Len(wake) - 1 \subseteq DOMAIN wake'
                /\ \A j \in 1 .. Len(wake) - 1 : wake'[j] = wake[j + 1]
      <4>1. Tail(wake) \in Seq(WakeRecord) BY <1>1, <1>5, HeadTailProperties
      <4>2. \A j \in DOMAIN Tail(wake) : j \in DOMAIN wake' /\ wake'[j] = Tail(wake)[j]
        BY <3>2, <4>1, StaysInQueue
      <4> QED BY <2>1, <4>2
    <3> QED BY <1>5, <3>1, <3>2
  <2>4. i - 1 \in DOMAIN wake' /\ wake'[i - 1] = wake[i] BY <1>2, <2>2, <2>3
  <2>5. \A j \in 1 .. i - 1 : j + 1 \in 1 .. i /\ wake'[j] = wake[j + 1] BY <1>2, <2>2, <2>3
  <2> QED BY <2>4, <2>5
<1> QED BY <1>3, <1>4, <1>5, QueueMoves

-----------------------------------------------------------------------------
(* How the entries move *)

OthersStay(t) == \A u \in Tasks \ {t} : inflight'[u] = inflight[u]

Capacity == Cardinality({t \in Tasks : InFlight(t)})

(* Most steps tell entries to stop at most (applyStop, applyOnFailure,       *)
(* abortWorker).                                                             *)
LEMMA EntriesStay ==
  ASSUME WorkInvariant, [Next]_vars,
         ~Launch, ~LaunchPendingMerge, ~HandleAttemptDone, ~HandleFinalized,
         ~\E t \in Tasks : WorkerReports(t) \/ Workspace(t)
  PROVE SameEntries
<1>0. TypeOK BY DEF WorkInvariant
<1>1. CASE UNCHANGED inflight BY <1>1, LeftAlone
<1>2. CASE inflight' = AbortAll(inflight) BY <1>0, <1>2, SameAborted
<1>3. CASE \E t \in Tasks : AbortWorker(t) BY <1>0, <1>3, AbortWorkerKeeps
<1>4. CASE Startup \/ Promote \/ LaunchWork \/ Park \/ Finalize \/ HandleApproval \/ HandleRetryDue
           \/ HandleStop
  <2>1. UNCHANGED inflight \/ inflight' = AbortAll(inflight)
    BY <1>4
    DEF Startup, Prepare, FailPreflight, EnterLoop, Promote, StartPass, BlockOnDependency,
        SkipOnCondition, FailOnCondition, OpenGate, MakeReady, EndPass, Promoting, EndBadly,
        LaunchWork, AbandonPendingMerge, EndMerges, EndLaunch, Park, Finalize,
        HandleApproval, HandleRetryDue, HandleStop, ApplyStop, workVars
  <2> QED BY <1>1, <1>2, <2>1
<1>5. CASE ApplyOutcome
  <2>1. UNCHANGED inflight \/ inflight' = AbortAll(inflight)
    BY <1>5
    DEF ApplyOutcome, Succeed, SkipByAgent, AskInput, BlockByAgent, EndSuspended, EndCancelled, Failing,
        RecoverTransient, NudgeSession, RetryAttempt, FailTask, Applying, SettleCancel,
        SettleRestart, EndBadly, workVars
  <2> QED BY <1>1, <1>2, <2>1
<1>6. CASE HandleControl
  <2>1. CASE CancelTask \/ SuspendTask \/ StopAndContinue \/ EditTask
    <3> PICK w \in Handled, k \in {"cancelTask", "suspendTask", "prompt", "edit"} :
          Commanded(w, k) /\ (AbortWorker(w.command.task) \/ UNCHANGED inflight)
      BY <2>1 DEF CancelTask, SuspendTask, StopAndContinue, EditTask
    <3>1. w.command.task \in Tasks BY <1>0, CommandedTask
    <3> QED BY <1>1, <1>3, <3>1
  <2>2. CASE ~(CancelTask \/ SuspendTask \/ StopAndContinue \/ EditTask)
    <3>1. UNCHANGED inflight \/ inflight' = AbortAll(inflight)
      BY <1>6, <2>2
      DEF HandleControl, RejectCommand, StopRun, HoldRun, ReleaseRun, RestartTask, ResumeTask, FollowUp,
          EditNothing, ApplyStop, workVars
    <3> QED BY <1>1, <1>2, <3>1
  <2> QED BY <2>1, <2>2
<1>7. CASE Environment
  <2>1. UNCHANGED inflight
    BY <1>7
    DEF Environment, ReportSession, AskOperator, AnswerOperator, AnswerGate, BecomeDue, TimerFires,
        Submit, workVars
  <2> QED BY <1>1, <2>1
<1>8. CASE UNCHANGED vars BY <1>1, <1>8 DEF vars, workVars
<1> QED BY <1>4, <1>5, <1>6, <1>7, <1>8 DEF Next, Loop, Rest, HandleWake

(* A worker that exits leaves its phase for the next, in flight still.        *)
LEMMA ReportMoves ==
  ASSUME TypeOK, NEW t \in Tasks, WorkerReports(t)
  PROVE /\ Working(t) /\ inflight'[t].phase = "ended" /\ inflight'[t].kind = inflight[t].kind
        /\ OthersStay(t)
  BY PhaseMoves DEF WorkerReports, OthersStay

(* The work that ends an attempt takes its entry from one phase to another.   *)
LEMMA WorkspaceMoves ==
  ASSUME TypeOK, NEW t \in Tasks, Workspace(t)
  PROVE /\ inflight[t].phase \in {"capturing", "queued"} /\ inflight'[t].phase \in {"queued", "settled"}
        /\ OthersStay(t)
<1>1. /\ inflight[t].phase \in {"capturing", "queued"}
      /\ \E p \in {"queued", "settled"} : inflight' = [inflight EXCEPT ![t].phase = p]
  BY DEF Workspace, QueueForTree, Capture, CaptureThrows, MergeBack, FinishCapture, Capturing
<1> QED BY <1>1, PhaseMoves DEF OthersStay

(* A report that is handled is about an attempt past its worker, which goes   *)
(* on to its workspace (handleAttemptDone).                                  *)
LEMMA DoneMoves ==
  ASSUME WorkInvariant, HandleAttemptDone
  PROVE \E t \in Tasks :
          /\ wake # <<>> /\ Head(wake).kind = "attempt_done" /\ Head(wake).task = t
          /\ inflight[t].phase = "ended" /\ inflight'[t].phase \in {"queued", "capturing"}
          /\ OthersStay(t)
          /\ UNCHANGED tree \/ (tree' # <<>>)
<1>0. TypeOK /\ TreeOwned /\ EntriesClaim BY DEF WorkInvariant
<1> PICK w \in Handled : HandleAttemptDone!(w) BY DEF HandleAttemptDone
<1>1. w.kind = "attempt_done" /\ AboutAttempt(w) BY DEF AboutAttempt
<1>2. /\ wake # <<>> /\ w = Head(wake) /\ w.task \in Tasks /\ Current(w)
      /\ inflight[w.task].phase = "ended"
  BY <1>1, ReportIsCurrent
<1> PICK t \in Tasks : t = w.task BY <1>2
<1>3. \/ /\ inflight[t].kind = "merge"
         /\ inflight' = [inflight EXCEPT ![t].phase = "queued", ![t].holds = FALSE]
         /\ tree' = Append(Tail(tree), t)
      \/ /\ inflight[t].kind # "merge"
         /\ inflight' = [inflight EXCEPT ![t].phase = "capturing"] /\ UNCHANGED tree
  BY <1>2
<1>4. inflight'[t].phase \in {"queued", "capturing"} /\ OthersStay(t)
  BY <1>0, <1>2, <1>3, TreeRequeued, CaptureBegins DEF OthersStay
<1>5. UNCHANGED tree \/ (tree' # <<>>)
  <2>1. CASE inflight[t].kind = "merge" /\ tree' = Append(Tail(tree), t)
    <3>1. t \in Range(tree) BY <1>0, <1>2, <2>1 DEF TreeOwned, EntriesClaim, InFlight
    <3>5. Range(<<>>) = {} BY DEF Range
    <3>2. tree \in Seq(Tasks) /\ tree # <<>> BY <1>0, <3>1, <3>5 DEF TypeOK
    <3>3. Tail(tree) \in Seq(Tasks) BY <3>2, HeadTailProperties
    <3>4. Len(Tail(tree)) \in Nat /\ Len(tree') = Len(Tail(tree)) + 1
      BY <2>1, <3>3, AppendProperties, LenProperties
    <3> QED BY <3>4
  <2> QED BY <1>3, <2>1
<1> QED BY <1>1, <1>2, <1>4, <1>5

(* The attempt that is settled leaves, unless it is followed at once by its    *)
(* own merge session (handleFinalized).                                      *)
LEMMA FinalizedMoves ==
  ASSUME WorkInvariant, HandleFinalized
  PROVE \E t \in Tasks :
          /\ inflight[t].phase = "settled" /\ OthersStay(t)
          /\ UNCHANGED task /\ pc' \in {"pass", "outcome"}
          /\ \/ /\ inflight'[t].phase = "working" /\ tree' # <<>> /\ UNCHANGED pendingMerges
                /\ \A u \in Tasks \ {t} : InFlight(u) => ~inflight[u].holds
             \/ /\ inflight'[t].phase = "idle"
                /\ tree' = IF inflight[t].holds THEN Tail(tree) ELSE tree
                /\ UNCHANGED pendingMerges \/ (tree' # <<>> /\ pendingMerges' # <<>>)
<1>0. TypeOK /\ TreeOwned /\ EntriesClaim BY DEF WorkInvariant
<1> PICK w \in Handled : HandleFinalized!(w) BY DEF HandleFinalized
<1>1. w.kind = "finalized" /\ AboutAttempt(w) /\ UNCHANGED task BY DEF AboutAttempt
<1>2. /\ w.task \in Tasks /\ Current(w) /\ inflight[w.task].phase = "settled" /\ w \in WakeRecord
  BY <1>1, ReportIsCurrent
<1>3. w.attempt \in Nat BY <1>1, <1>2, ReportType
<1> PICK t \in Tasks, n \in Nat : t = w.task /\ n = w.attempt BY <1>2, <1>3
<1> PICK freed : freed = IF inflight[t].holds THEN Tail(tree) ELSE tree OBVIOUS
<1>4. /\ pc' \in {"pass", "outcome"}
      /\ \/ StartMergeAttempt(t, n) /\ freed = <<>> /\ UNCHANGED pendingMerges
         \/ /\ inflight' = [inflight EXCEPT ![t] = NoEntry] /\ tree' = freed
            /\ \/ freed # <<>> /\ \E m : pendingMerges' = Append(pendingMerges, m)
               \/ UNCHANGED pendingMerges
  BY <1>2 DEF Goto
<1>5. CASE StartMergeAttempt(t, n) /\ freed = <<>> /\ UNCHANGED pendingMerges
  <2>1. inflight'[t].phase = "working" /\ tree' = <<t>> /\ OthersStay(t)
    BY <1>0, <1>5, MergeAttemptStarts DEF OthersStay
  <2>2. Range(freed) = Range(tree) \ {t} BY <1>0, <1>2, LockFreed
  <2>5. Range(freed) = {} BY <1>5 DEF Range
  <2>3. \A u \in Tasks \ {t} : InFlight(u) => ~inflight[u].holds
    BY <1>0, <2>2, <2>5 DEF TreeOwned
  <2>4. tree' # <<>> BY <2>1
  <2> QED BY <1>1, <1>2, <1>4, <1>5, <2>1, <2>3, <2>4
<1>6. CASE inflight' = [inflight EXCEPT ![t] = NoEntry] /\ tree' = freed
  <2>1. inflight'[t].phase = "idle" /\ OthersStay(t)
    BY <1>0, <1>2, <1>6, LockReleased DEF OthersStay
  <2>2. ASSUME NEW m, pendingMerges' = Append(pendingMerges, m) PROVE pendingMerges' # <<>>
    <3>1. pendingMerges \in Seq([task : Tasks, attempt : Nat]) BY <1>0 DEF TypeOK
    <3>2. Len(pendingMerges) \in Nat /\ Len(pendingMerges) + 1 \in DOMAIN pendingMerges'
      BY <2>2, <3>1, Pushed
    <3> QED BY <3>2
  <2>3. UNCHANGED pendingMerges \/ (tree' # <<>> /\ pendingMerges' # <<>>)
    BY <1>4, <1>6, <2>1, <2>2 DEF StartMergeAttempt
  <2> QED BY <1>1, <1>2, <1>4, <1>6, <2>1, <2>3
<1> QED BY <1>4, <1>5, <1>6

(* A workflow has finitely many tasks: they are in an order.                 *)
LEMMA TasksFinite == IsFiniteSet(Tasks)
<1>1. DOMAIN Topo = 1 .. Len(Topo) /\ Len(Topo) \in Nat BY Order
<1>2. Topo \in Surjection(1 .. Len(Topo), Tasks)
  <2>1. Topo \in [1 .. Len(Topo) -> Tasks] BY <1>1, GraphAssumption
  <2>2. \A t \in Tasks : \E i \in 1 .. Len(Topo) : Topo[i] = t BY GraphAssumption
  <2> QED BY <2>1, <2>2 DEF Surjection
<1>3. IsFiniteSet(1 .. Len(Topo)) BY <1>1, FS_Interval
<1> QED BY <1>2, <1>3, FS_Surjection

(* A launch takes a ready task nobody works on, below the limit, while nothing *)
(* holds the loop (launchReady).                                             *)
LEMMA LaunchMoves ==
  ASSUME WorkInvariant, Launch
  PROVE \E t \in Tasks :
          /\ task[t] = "ready" /\ ~InFlight(t) /\ task' = [task EXCEPT ![t] = "running"]
          /\ inflight'[t].phase = "working" /\ OthersStay(t)
          /\ ~Stopping /\ ~hold /\ Capacity < MaxConcurrency
          /\ UNCHANGED tree \/ tree' # <<>>
          /\ pc = "launch" /\ UNCHANGED <<runVars, pendingMerges, wake, pc>>
<1>0. TypeOK /\ ActiveHasWork BY DEF WorkInvariant
<1> PICK i \in cursor .. Len(Topo) : Launch!(i) BY DEF Launch
<1>1. i \in Nat \ {0} /\ i <= Len(Topo) BY <1>0, Order DEF TypeOK
<1> PICK t \in Tasks : t = Topo[i] BY <1>1, TaskAt
<1>2. /\ task[t] = "ready" /\ task' = [task EXCEPT ![t] = "running"]
      /\ pc = "launch" /\ UNCHANGED <<runVars, pendingMerges, wake, pc>>
      /\ tree' = <<t>> \/ UNCHANGED tree
  BY DEF Launchable
<1>3. ~InFlight(t) BY <1>0, <1>2 DEF ActiveHasWork, HasWork, ActiveStates
<1>4. StartAttempt(t, NextAttempt(t), Entry(NextAttempt(t).number, "task", TakesTree(t))) OBVIOUS
<1>5. inflight'[t].phase = "working" /\ OthersStay(t) BY <1>0, <1>4, AttemptStarts DEF OthersStay
<1>6. Capacity \in Int /\ MaxConcurrency \in Int => Capacity < MaxConcurrency
  BY DEF LaunchClosed, AtCapacity, Capacity
<1>7. ~Stopping /\ ~hold /\ ~AtCapacity BY DEF LaunchClosed
<1>8. Capacity < MaxConcurrency
  <2>1. IsFiniteSet({u \in Tasks : InFlight(u)}) BY TasksFinite, FS_Subset
  <2>2. Capacity \in Nat BY <2>1, FS_CardinalityType DEF Capacity
  <2> QED BY <1>6, <2>2, OptionsAssumption
<1>9. UNCHANGED tree \/ tree' # <<>> BY <1>2
<1> QED BY <1>2, <1>3, <1>5, <1>7, <1>8, <1>9

(* A merge session that waited is launched for a task nobody works on, once    *)
(* the tree is free (launchPendingMerges).                                   *)
LEMMA MergeMoves ==
  ASSUME WorkInvariant, LaunchPendingMerge
  PROVE \E t \in Tasks :
          /\ ~InFlight(t) /\ HasWork(t)
          /\ inflight'[t].phase = "working" /\ inflight'[t].kind = "merge" /\ OthersStay(t)
          /\ ~Stopping /\ pendingMerges # <<>> /\ tree = <<>> /\ tree' # <<>>
          /\ UNCHANGED <<runVars, task, wake, pc>>
<1>0. TypeOK /\ WorkOnce BY DEF WorkInvariant
<1>1. /\ pendingMerges # <<>> /\ ~Stopping /\ tree = <<>>
      /\ StartMergeAttempt(Head(pendingMerges).task, Head(pendingMerges).attempt)
      /\ pendingMerges' = Tail(pendingMerges) /\ UNCHANGED <<runVars, task, wake, pc>>
  BY DEF LaunchPendingMerge, loopVars
<1> PICK t \in Tasks, n \in Nat :
      /\ Head(pendingMerges).task = t /\ Head(pendingMerges).attempt = n /\ ~InFlight(t)
      /\ \E i \in DOMAIN pendingMerges : pendingMerges[i].task = t
  BY <1>0, <1>1, FirstPending
<1>2. /\ inflight'[t].phase = "working" /\ inflight'[t].kind = "merge"
      /\ tree' = <<t>> /\ OthersStay(t)
  BY <1>0, <1>1, MergeAttemptStarts DEF OthersStay
<1>3. HasWork(t) BY DEF HasWork
<1>4. tree' # <<>> BY <1>2
<1> QED BY <1>1, <1>2, <1>3, <1>4

-----------------------------------------------------------------------------
(* How many are in flight *)

(* Nobody enters or leaves. *)
LEMMA CapacityStays == ASSUME SameFlight PROVE Capacity' = Capacity
<1>1. {t \in Tasks : InFlight(t)}' = {t \in Tasks : InFlight(t)} BY DEF SameFlight
<1> QED BY <1>1 DEF Capacity

(* One enters. *)
LEMMA CapacityGrows ==
  ASSUME NEW t \in Tasks, ~InFlight(t), inflight'[t].phase # "idle", OthersStay(t)
  PROVE Capacity' = Capacity + 1 /\ Capacity \in Nat
<1>1. {u \in Tasks : InFlight(u)}' = {u \in Tasks : InFlight(u)} \cup {t}
  BY DEF OthersStay, InFlight
<1>2. IsFiniteSet({u \in Tasks : InFlight(u)}) BY TasksFinite, FS_Subset
<1>3. Capacity \in Nat BY <1>2, FS_CardinalityType DEF Capacity
<1>4. Cardinality({u \in Tasks : InFlight(u)} \cup {t}) = Cardinality({u \in Tasks : InFlight(u)}) + 1
  BY <1>2, FS_AddElement
<1> QED BY <1>1, <1>3, <1>4 DEF Capacity

(* One leaves. *)
LEMMA CapacityShrinks ==
  ASSUME NEW t \in Tasks, InFlight(t), inflight'[t].phase = "idle", OthersStay(t)
  PROVE Capacity' = Capacity - 1 /\ Capacity \in Nat
<1>1. {u \in Tasks : InFlight(u)}' = {u \in Tasks : InFlight(u)} \ {t}
  BY DEF OthersStay, InFlight
<1>2. IsFiniteSet({u \in Tasks : InFlight(u)}) BY TasksFinite, FS_Subset
<1>3. Capacity \in Nat BY <1>2, FS_CardinalityType DEF Capacity
<1>4. Cardinality({u \in Tasks : InFlight(u)} \ {t}) = Cardinality({u \in Tasks : InFlight(u)}) - 1
  BY <1>2, FS_RemoveElement
<1> QED BY <1>1, <1>3, <1>4 DEF Capacity

(* Only a launch, a merge session that had waited and a finalization change    *)
(* who is in flight.                                                         *)
LEMMA FlightStays ==
  ASSUME WorkInvariant, [Next]_vars, ~Launch, ~LaunchPendingMerge, ~HandleFinalized
  PROVE SameFlight
<1>0. TypeOK BY DEF WorkInvariant
<1>1. CASE HandleAttemptDone BY <1>1, DoneMoves DEF SameFlight, InFlight, OthersStay
<1>2. CASE \E t \in Tasks : WorkerReports(t)
  BY <1>0, <1>2, ReportMoves DEF SameFlight, InFlight, OthersStay, Working
<1>3. CASE \E t \in Tasks : Workspace(t)
  BY <1>0, <1>3, WorkspaceMoves DEF SameFlight, InFlight, OthersStay
<1>4. CASE SameEntries BY <1>4 DEF SameEntries, SameFlight, InFlight
<1> QED BY <1>1, <1>2, <1>3, <1>4, EntriesStay

-----------------------------------------------------------------------------
(* The limit *)

(* A merge session with its worker, or with the worker's report on its way.  *)
Resolving(m) == inflight[m].kind = "merge" /\ inflight[m].phase \in {"working", "ended"}

(* Some attempt is finalized before the queue comes to the report of m.       *)
FinalizedBefore(m) ==
  \E i \in DOMAIN wake :
    /\ wake[i].kind = "finalized"
    /\ \A j \in 1 .. i : ~(wake[j].kind = "attempt_done" /\ wake[j].task = m)

(* One too many is in flight only on account of a merge session, and then an  *)
(* attempt will be settled before that session can be.                       *)
OneOnTop ==
  Capacity > MaxConcurrency =>
    /\ Capacity = MaxConcurrency + 1
    /\ \E m \in Tasks : Resolving(m) /\ FinalizedBefore(m)

(* A full house with a merge session to launch in a free tree comes of an     *)
(* attempt that is about to be settled.                                      *)
FreedByFinalized ==
  /\ pendingMerges # <<>> /\ tree = <<>>
  /\ pc = "launch" \/ Capacity >= MaxConcurrency
  => \E i \in DOMAIN wake : wake[i].kind = "finalized"

LimitInvariant == OneOnTop /\ FreedByFinalized

(* A merge session holds the tree until its report is handled.               *)
LEMMA ResolvingHolds ==
  ASSUME WorkInvariant, NEW m \in Tasks, Resolving(m)
  PROVE /\ InFlight(m) /\ inflight[m].holds /\ tree # <<>>
        /\ \A u \in Tasks \ {m} : InFlight(u) => ~inflight[u].holds
<1>1. InFlight(m) /\ inflight[m].holds
  BY DEF Resolving, InFlight, WorkInvariant, EntriesClaim
<1>2. m \in Range(tree) /\ Head(tree) = m BY <1>1 DEF WorkInvariant, TreeOwned
<1>3. Range(<<>>) = {} BY DEF Range
<1>4. \A u \in Tasks : InFlight(u) /\ inflight[u].holds => Head(tree) = u
  BY DEF WorkInvariant, TreeOwned
<1> QED BY <1>1, <1>2, <1>3, <1>4

(* How many are in flight is a number. *)
LEMMA CapacityType == Capacity \in Nat /\ Capacity' \in Nat
<1>1. ASSUME NEW S \in SUBSET Tasks PROVE Cardinality(S) \in Nat
  BY TasksFinite, FS_Subset, FS_CardinalityType
<1>2. {u \in Tasks : InFlight(u)} \in SUBSET Tasks /\ {u \in Tasks : InFlight(u)}' \in SUBSET Tasks
  OBVIOUS
<1> QED BY <1>1, <1>2 DEF Capacity

(* It goes on until then. *)
LEMMA ResolvingStays ==
  ASSUME WorkInvariant, [Next]_vars, NEW m \in Tasks, Resolving(m),
         ~(HandleAttemptDone /\ wake # <<>> /\ Head(wake).kind = "attempt_done" /\ Head(wake).task = m)
  PROVE inflight'[m].kind = "merge" /\ inflight'[m].phase \in {"working", "ended"}
<1>0. TypeOK BY DEF WorkInvariant
<1>1. InFlight(m) /\ tree # <<>> BY ResolvingHolds
<1>2. CASE HandleAttemptDone BY <1>2, DoneMoves DEF OthersStay, Resolving
<1>3. CASE \E t \in Tasks : WorkerReports(t)
  BY <1>0, <1>3, ReportMoves DEF OthersStay, Resolving
<1>4. CASE \E t \in Tasks : Workspace(t)
  BY <1>0, <1>4, WorkspaceMoves DEF OthersStay, Resolving
<1>5. CASE HandleFinalized BY <1>5, FinalizedMoves DEF OthersStay, Resolving
<1>6. CASE Launch BY <1>1, <1>6, LaunchMoves DEF OthersStay, Resolving
<1>7. CASE LaunchPendingMerge BY <1>1, <1>7, MergeMoves
<1>8. CASE SameEntries BY <1>8 DEF SameEntries, Resolving
<1> QED BY <1>2, <1>3, <1>4, <1>5, <1>6, <1>7, <1>8, EntriesStay

(* What is ahead of a session's report stays ahead of it.                    *)
LEMMA StillBefore ==
  ASSUME WorkInvariant, [Next]_vars, ~HandleFinalized, NEW m \in Tasks, FinalizedBefore(m)
  PROVE FinalizedBefore(m)'
<1> PICK i \in DOMAIN wake :
      /\ wake[i].kind = "finalized"
      /\ \A j \in 1 .. i : ~(wake[j].kind = "attempt_done" /\ wake[j].task = m)
  BY DEF FinalizedBefore
<1> PICK k \in DOMAIN wake' :
      /\ wake'[k] = wake[i]
      /\ \A j \in 1 .. k : \E n \in 1 .. i : wake'[j] = wake[n]
  BY FinalizationStays
<1>1. \A j \in 1 .. k : ~(wake'[j].kind = "attempt_done" /\ wake'[j].task = m) OBVIOUS
<1> QED BY <1>1 DEF FinalizedBefore

(* A session's report is not the next to be handled, then.                   *)
LEMMA NotItsTurn ==
  ASSUME TypeOK, NEW m, FinalizedBefore(m), wake # <<>>
  PROVE ~(Head(wake).kind = "attempt_done" /\ Head(wake).task = m)
<1>1. wake \in Seq(WakeRecord) BY DEF TypeOK
<1>2. DOMAIN wake = 1 .. Len(wake) /\ Len(wake) \in Nat \ {0} /\ Head(wake) = wake[1]
  BY <1>1, QueueTail
<1> PICK i \in DOMAIN wake :
      \A j \in 1 .. i : ~(wake[j].kind = "attempt_done" /\ wake[j].task = m)
  BY DEF FinalizedBefore
<1>3. 1 \in 1 .. i BY <1>2
<1> QED BY <1>2, <1>3

(* At the limit or above it, an attempt that is settled makes room.           *)
LEMMA FinalizedMakesRoom ==
  ASSUME WorkInvariant, OneOnTop, HandleFinalized
  PROVE \/ tree' # <<>> /\ Capacity' = Capacity /\ Capacity <= MaxConcurrency
        \/ tree' # <<>> /\ Capacity' <= MaxConcurrency
        \/ Capacity' < MaxConcurrency /\ pc' # "launch"
<1>0. TypeOK /\ TreeOwned BY DEF WorkInvariant
<1>1. MaxConcurrency \in Nat /\ Capacity \in Nat BY OptionsAssumption, CapacityType
<1> PICK t \in Tasks :
      /\ inflight[t].phase = "settled" /\ OthersStay(t) /\ pc' \in {"pass", "outcome"}
      /\ \/ /\ inflight'[t].phase = "working" /\ tree' # <<>>
            /\ \A u \in Tasks \ {t} : InFlight(u) => ~inflight[u].holds
         \/ /\ inflight'[t].phase = "idle"
            /\ tree' = IF inflight[t].holds THEN Tail(tree) ELSE tree
  BY FinalizedMoves
<1>2. InFlight(t) /\ ~Resolving(t) BY DEF InFlight, Resolving
<1>3. ASSUME Capacity > MaxConcurrency
      PROVE /\ Capacity = MaxConcurrency + 1 /\ tree # <<>> /\ ~inflight[t].holds
            /\ \E u \in Tasks \ {t} : InFlight(u) /\ inflight[u].holds
  <2> PICK m \in Tasks : Resolving(m) BY <1>3 DEF OneOnTop
  <2>1. Capacity = MaxConcurrency + 1 BY <1>3 DEF OneOnTop
  <2>2. m # t BY <1>2
  <2>3. /\ InFlight(m) /\ inflight[m].holds /\ tree # <<>>
        /\ \A u \in Tasks \ {m} : InFlight(u) => ~inflight[u].holds
    BY ResolvingHolds
  <2> QED BY <1>2, <2>1, <2>2, <2>3
<1>4. CASE inflight'[t].phase = "working"
  <2>1. SameFlight BY <1>2, <1>4 DEF SameFlight, InFlight, OthersStay
  <2>2. Capacity' = Capacity BY <2>1, CapacityStays
  <2>3. Capacity <= MaxConcurrency BY <1>1, <1>3, <1>4
  <2> QED BY <1>4, <2>2, <2>3
<1>5. CASE inflight'[t].phase = "idle"
  <2>1. Capacity' = Capacity - 1 BY <1>2, <1>5, CapacityShrinks
  <2>2. CASE Capacity > MaxConcurrency BY <1>1, <1>3, <1>5, <2>1, <2>2
  <2>3. CASE Capacity <= MaxConcurrency BY <1>1, <2>1, <2>3
  <2> QED BY <1>1, <2>2, <2>3
<1> QED BY <1>4, <1>5

(* Every step keeps the house within its limit. *)
LEMMA OnTopStep ==
  ASSUME WorkInvariant, LimitInvariant, [Next]_vars PROVE OneOnTop'
<1>0. TypeOK /\ OneOnTop BY DEF WorkInvariant, LimitInvariant
<1>1. MaxConcurrency \in Nat /\ Capacity \in Nat BY OptionsAssumption, CapacityType
<1>2. CASE HandleFinalized
  <2>1. Capacity' \in Nat BY CapacityType
  <2>2. Capacity' <= MaxConcurrency BY <1>0, <1>1, <1>2, <2>1, FinalizedMakesRoom
  <2> QED BY <1>1, <2>1, <2>2 DEF OneOnTop
<1>3. CASE Launch
  <2>1. Capacity' = Capacity + 1 /\ Capacity < MaxConcurrency
    BY <1>3, LaunchMoves, CapacityGrows
  <2> QED BY <1>1, <2>1 DEF OneOnTop
<1>4. CASE LaunchPendingMerge
  <2> PICK t \in Tasks :
        /\ ~InFlight(t) /\ inflight'[t].phase = "working" /\ inflight'[t].kind = "merge" /\ OthersStay(t)
        /\ pendingMerges # <<>> /\ tree = <<>> /\ UNCHANGED wake
    BY <1>4, MergeMoves
  <2>1. Capacity' = Capacity + 1 BY CapacityGrows
  <2>2. Capacity <= MaxConcurrency
    <3>1. ~\E m \in Tasks : Resolving(m) BY ResolvingHolds
    <3> QED BY <1>0, <1>1, <3>1 DEF OneOnTop
  <2>3. CASE Capacity < MaxConcurrency BY <1>1, <2>1, <2>3 DEF OneOnTop
  <2>4. CASE Capacity = MaxConcurrency
    <3> PICK i \in DOMAIN wake : wake[i].kind = "finalized"
      BY <1>1, <2>4 DEF LimitInvariant, FreedByFinalized
    <3>1. DOMAIN wake = 1 .. Len(wake) /\ Len(wake) \in Nat
      <4>1. wake \in Seq(WakeRecord) BY <1>0 DEF TypeOK
      <4> QED BY <4>1, LenProperties
    <3>2. \A j \in DOMAIN wake : ~(wake[j].kind = "attempt_done" /\ wake[j].task = t)
      BY DEF WorkInvariant, ReportsMatch, Reported, InFlight
    <3>3. \A j \in 1 .. i : j \in DOMAIN wake BY <3>1
    <3>4. FinalizedBefore(t)' BY <3>2, <3>3 DEF FinalizedBefore
    <3>5. Resolving(t)' BY DEF Resolving
    <3> QED BY <1>1, <2>1, <2>4, <3>4, <3>5 DEF OneOnTop
  <2> QED BY <1>1, <2>2, <2>3, <2>4
<1>5. CASE ~HandleFinalized /\ ~Launch /\ ~LaunchPendingMerge
  <2>1. Capacity' = Capacity BY <1>5, FlightStays, CapacityStays
  <2> SUFFICES ASSUME Capacity > MaxConcurrency
               PROVE Capacity' = MaxConcurrency + 1
                     /\ \E m \in Tasks : Resolving(m)' /\ FinalizedBefore(m)'
    BY <2>1 DEF OneOnTop
  <2> PICK m \in Tasks : Resolving(m) /\ FinalizedBefore(m) BY <1>0 DEF OneOnTop
  <2>2. Resolving(m)' BY <1>0, NotItsTurn, ResolvingStays DEF Resolving
  <2>3. FinalizedBefore(m)' BY <1>5, StillBefore
  <2> QED BY <1>0, <2>1, <2>2, <2>3 DEF OneOnTop
<1> QED BY <1>2, <1>3, <1>4, <1>5

(* Most steps leave the lock of the tree, and queue no merge session.         *)
LEMMA TreeStays ==
  ASSUME WorkInvariant, [Next]_vars,
         ~Launch, ~LaunchPendingMerge, ~HandleAttemptDone, ~HandleFinalized,
         ~\E t \in Tasks : Workspace(t)
  PROVE /\ UNCHANGED tree /\ (pendingMerges # <<>> \/ UNCHANGED pendingMerges)
        /\ pc' = "launch" => pc = "launch" \/ pendingMerges = <<>> \/ tree # <<>>
<1>1. CASE Startup \/ Promote \/ LaunchWork \/ Park \/ Finalize \/ HandleApproval \/ HandleRetryDue
           \/ HandleStop
  BY <1>1
  DEF Startup, Prepare, FailPreflight, EnterLoop, Promote, StartPass, BlockOnDependency,
      SkipOnCondition, FailOnCondition, OpenGate, MakeReady, EndPass, Promoting,
      LaunchWork, AbandonPendingMerge, EndMerges, EndLaunch, Park, Finalize,
      HandleApproval, HandleRetryDue, HandleStop, workVars, Goto, loopVars
<1>2. CASE ApplyOutcome
  <2>1. pc' # "launch" BY <1>2, SettlesFrom
  <2> QED
    BY <1>2, <2>1
    DEF ApplyOutcome, Succeed, SkipByAgent, AskInput, BlockByAgent, EndSuspended, EndCancelled, Failing,
        RecoverTransient, NudgeSession, RetryAttempt, FailTask, Applying, SettleCancel,
        SettleRestart, workVars
<1>3. CASE HandleControl
  BY <1>3
  DEF HandleControl, RejectCommand, StopRun, HoldRun, ReleaseRun, RestartTask, ResumeTask, FollowUp,
      EditNothing, CancelTask, SuspendTask, StopAndContinue, EditTask, Commanded, workVars, Goto
<1>4. CASE Environment
  <2>1. pc' = pc BY <1>4, StartedFrom
  <2> QED
    BY <1>4, <2>1
    DEF Environment, WorkerReports, ReportSession, AskOperator, AnswerOperator, AnswerGate, BecomeDue,
        TimerFires, Submit, workVars
<1>5. CASE UNCHANGED vars BY <1>5 DEF vars, workVars, loopVars
<1> QED BY <1>1, <1>2, <1>3, <1>4, <1>5 DEF Next, Loop, Rest, HandleWake

(* What frees the tree is about to be settled. *)
LEMMA WorkspaceReports ==
  ASSUME WorkInvariant, NEW t \in Tasks, Workspace(t)
  PROVE /\ UNCHANGED <<pendingMerges, pc>>
        /\ tree' # <<>> \/ UNCHANGED tree \/ \E i \in DOMAIN wake' : wake'[i].kind = "finalized"
<1>0. wake \in Seq(WakeRecord) /\ tree \in Seq(Tasks) BY DEF WorkInvariant, TypeOK
<1>1. CASE QueueForTree(t)
  <2>1. tree' = Append(tree, t) /\ UNCHANGED <<pendingMerges, pc>> BY <1>1 DEF QueueForTree, loopVars
  <2>2. Len(tree) \in Nat /\ Len(tree) + 1 \in DOMAIN tree' BY <1>0, <2>1, Pushed
  <2> QED BY <2>1, <2>2
<1>2. CASE Capture(t) \/ CaptureThrows(t)
  BY <1>2 DEF Capture, CaptureThrows, FinishCapture, loopVars
<1>3. CASE MergeBack(t)
  <2>1. PICK n, fin : wake' = Append(wake, Finalized(t, n, fin)) /\ UNCHANGED <<pendingMerges, pc>>
    BY <1>3 DEF MergeBack, FinishCapture, Pushes, loopVars
  <2>2. Len(wake) + 1 \in DOMAIN wake' /\ wake'[Len(wake) + 1] = Finalized(t, n, fin)
    <3>1. Len(wake) \in Nat BY <1>0, LenProperties
    <3> QED BY <1>0, <2>1, <3>1, Pushed
  <2>3. wake'[Len(wake) + 1].kind = "finalized" BY <2>2 DEF Finalized
  <2> QED BY <2>1, <2>2, <2>3
<1> QED BY <1>1, <1>2, <1>3 DEF Workspace

(* Every step keeps a free tree the work of a finalization. *)
LEMMA FreedStep ==
  ASSUME WorkInvariant, LimitInvariant, [Next]_vars PROVE FreedByFinalized'
<1>0. MaxConcurrency \in Nat /\ Capacity \in Nat /\ Capacity' \in Nat
  BY OptionsAssumption, CapacityType
<1> SUFFICES ASSUME pendingMerges' # <<>>, tree' = <<>>,
                    pc' = "launch" \/ Capacity' >= MaxConcurrency
             PROVE \E i \in DOMAIN wake' : wake'[i].kind = "finalized"
  BY DEF FreedByFinalized
<1>1. ASSUME ~HandleFinalized, pendingMerges # <<>>, tree = <<>>,
             pc = "launch" \/ Capacity >= MaxConcurrency
      PROVE \E i \in DOMAIN wake' : wake'[i].kind = "finalized"
  <2> PICK i \in DOMAIN wake : wake[i].kind = "finalized"
    BY <1>1 DEF LimitInvariant, FreedByFinalized
  <2> QED BY <1>1, FinalizationStays
<1>2. ~LaunchPendingMerge BY MergeMoves
<1>3. ~HandleFinalized BY <1>0, FinalizedMakesRoom DEF LimitInvariant
<1>4. CASE Launch
  <2>1. UNCHANGED tree /\ pc = "launch" /\ UNCHANGED pendingMerges BY <1>4, LaunchMoves
  <2> QED BY <1>1, <1>3, <2>1
<1>5. CASE ~Launch
  <2>1. Capacity' = Capacity BY <1>2, <1>3, <1>5, FlightStays, CapacityStays
  <2>2. CASE HandleAttemptDone
    <3>1. UNCHANGED tree BY <2>2, DoneMoves
    <3>2. UNCHANGED pendingMerges /\ pc' = "pass" BY <2>2 DEF HandleAttemptDone, Goto
    <3> QED BY <1>1, <1>3, <2>1, <3>1, <3>2
  <2>3. CASE \E t \in Tasks : Workspace(t)
    <3>1. /\ UNCHANGED <<pendingMerges, pc>>
          /\ UNCHANGED tree \/ \E i \in DOMAIN wake' : wake'[i].kind = "finalized"
      BY <2>3, WorkspaceReports
    <3> QED BY <1>1, <1>3, <2>1, <3>1
  <2>4. CASE ~HandleAttemptDone /\ ~\E t \in Tasks : Workspace(t)
    <3>1. /\ UNCHANGED tree /\ (pendingMerges # <<>> \/ UNCHANGED pendingMerges)
          /\ pc' = "launch" => pc = "launch" \/ pendingMerges = <<>> \/ tree # <<>>
      BY <1>2, <1>3, <1>5, <2>4, TreeStays
    <3> QED BY <1>1, <1>3, <2>1, <3>1
  <2> QED BY <2>2, <2>3, <2>4
<1> QED BY <1>4, <1>5

(* Nobody is in flight when a run is created. *)
LEMMA LimitInit == Init => LimitInvariant
<1> SUFFICES ASSUME Init PROVE LimitInvariant OBVIOUS
<1>1. {t \in Tasks : InFlight(t)} = {} BY DEF Init, InFlight, NoEntry
<1>2. Capacity = 0 /\ MaxConcurrency \in Nat BY <1>1, FS_EmptySet, OptionsAssumption DEF Capacity
<1> QED BY <1>2 DEF Init, LimitInvariant, OneOnTop, FreedByFinalized

(* Whenever more attempts are in flight than maxConcurrency says, there is    *)
(* one too many, it is a merge session, and an attempt is on its way out      *)
(* before that session can be (launchPendingMerges, handleFinalized).        *)
THEOREM LimitCorrect == Spec => []LimitInvariant
<1>1. WorkInvariant /\ LimitInvariant /\ [Next]_vars => LimitInvariant'
  BY OnTopStep, FreedStep DEF LimitInvariant
<1> QED BY <1>1, LimitInit, WorkCorrect, PTL DEF Spec

(* No more workers run at once than maxConcurrency says, although            *)
(* launchPendingMerges does not count them.                                  *)
THEOREM WorkersWithinLimit == Spec => []WithinLimit
<1>1. ASSUME WorkInvariant, LimitInvariant PROVE WithinLimit
  <2> DEFINE W == {t \in Tasks : Working(t)}
             F == {t \in Tasks : InFlight(t)}
  <2>1. IsFiniteSet(F) /\ W \in SUBSET F BY TasksFinite, FS_Subset DEF Working, InFlight
  <2>2. MaxConcurrency \in Nat /\ Capacity \in Nat /\ Cardinality(W) \in Nat
        /\ Cardinality(W) <= Capacity /\ (Cardinality(W) = Capacity => W = F)
    BY <2>1, OptionsAssumption, CapacityType, FS_Subset, FS_CardinalityType DEF Capacity
  <2>3. ASSUME Capacity > MaxConcurrency PROVE W # F
    <3> PICK m \in Tasks, i \in DOMAIN wake : wake[i].kind = "finalized"
      BY <1>1, <2>3 DEF LimitInvariant, OneOnTop, FinalizedBefore
    <3>1. wake \in Seq(WakeRecord) BY <1>1 DEF WorkInvariant, TypeOK
    <3>2. wake[i] \in WakeRecord BY <3>1, ElementOfSeq, LenProperties
    <3>3. wake[i].task \in Tasks BY <3>2, ReportType
    <3>4. inflight[wake[i].task].phase = "settled"
      BY <1>1, <3>3 DEF WorkInvariant, ReportsMatch, Reported
    <3> QED BY <3>3, <3>4 DEF InFlight, Working
  <2>4. Capacity <= MaxConcurrency + 1 BY <1>1, <2>2 DEF LimitInvariant, OneOnTop
  <2> HIDE DEF W, F
  <2>5. Cardinality(W) <= MaxConcurrency BY <2>2, <2>3, <2>4
  <2> QED BY <2>5 DEF WithinLimit, W
<1> QED BY <1>1, WorkCorrect, LimitCorrect, PTL

-----------------------------------------------------------------------------
(* What a step is to the contract *)

SameStage == \A t \in Tasks : StageOf(task'[t]) = StageOf(task[t])

(* A step inside the loop: neither the selection nor the end.                *)
Inside == pc \notin {"start", "done"} /\ pc' \notin {"start", "done"}

(* The stages of the states a task may be in. *)
LEMMA StagesOf ==
  /\ \A s \in ActiveStates : StageOf(s) = "working"
  /\ \A s \in {"needs_input", "suspended"} : StageOf(s) = "parked"
  /\ \A s \in TerminalStates : StageOf(s) = "ended"
  /\ \A s \in {"pending", "ready", "awaiting_approval"} : StageOf(s) = "waiting"
  /\ \A s \in TaskState : StageOf(s) \in {"waiting", "working", "parked", "ended"}
  /\ \A s \in TaskState : StageOf(s) = "working" => s \in ActiveStates
<1>1. \A s \in ActiveStates : StageOf(s) = "working"
  BY DEF StageOf, ActiveStates, TerminalStates
<1>2. \A s \in {"needs_input", "suspended"} : StageOf(s) = "parked"
  BY DEF StageOf, ActiveStates, TerminalStates
<1>3. \A s \in TerminalStates : StageOf(s) = "ended" BY DEF StageOf, ActiveStates, TerminalStates
<1>4. \A s \in {"pending", "ready", "awaiting_approval"} : StageOf(s) = "waiting"
  BY DEF StageOf, ActiveStates, TerminalStates
<1>5. TaskState = ActiveStates \cup {"needs_input", "suspended"} \cup TerminalStates
                    \cup {"pending", "ready", "awaiting_approval"}
  BY DEF TaskState, ActiveStates, TerminalStates
<1> QED BY <1>1, <1>2, <1>3, <1>4, <1>5

(* Both modules count alike. *)
LEMMA Counts == \A S : Contract!Cardinality(S) = Cardinality(S)
  BY DEF Contract!Cardinality, Cardinality

(* Inside the loop a task is at the stage its state says.                    *)
LEMMA StageInside ==
  ASSUME Inside
  PROVE /\ DOMAIN Stage = Tasks /\ DOMAIN Stage' = Tasks
        /\ Stage = [t \in Tasks |-> StageOf(task[t])] /\ Stage' = [t \in Tasks |-> StageOf(task'[t])]
        /\ \A t \in Tasks : Stage[t] = StageOf(task[t]) /\ Stage'[t] = StageOf(task'[t])
  BY DEF Inside, Stage

(* A step the contract does not see. *)
LEMMA Unseen ==
  ASSUME Inside, SameFlight, SameStage,
         UNCHANGED <<stop, hold>> \/ (Stopping /\ Stopping')
  PROVE UNCHANGED Contract!contract
<1>1. Stage' = Stage BY StageInside DEF SameStage
<1>2. {t \in Tasks : InFlight(t)}' = {t \in Tasks : InFlight(t)} BY DEF SameFlight
<1>3. Phase' = Phase BY DEF Phase, Inside, Stopping
<1> QED BY <1>1, <1>2, <1>3 DEF Contract!contract

(* A step that does no more than tell the run to stop. *)
LEMMA Closes ==
  ASSUME Inside, SameFlight, SameStage, ~Stopping, Stopping'
  PROVE Contract!Close
<1>1. Stage' = Stage BY StageInside DEF SameStage
<1>2. {t \in Tasks : InFlight(t)}' = {t \in Tasks : InFlight(t)} BY DEF SameFlight
<1>3. Phase \in {"open", "held"} /\ Phase' = "closing" BY DEF Phase, Inside
<1> QED BY <1>1, <1>2, <1>3 DEF Contract!Close

(* What becomes of a task nobody works on, and of those blocked with it.      *)
LEMMA SettlesOne ==
  ASSUME Inside, SameFlight, task \in [Tasks -> TaskState], task' \in [Tasks -> TaskState],
         UNCHANGED hold, UNCHANGED stop \/ Stopping',
         NEW t \in Tasks, ~InFlight(t),
         <<StageOf(task[t]), StageOf(task'[t])>> \in Contract!Becomes,
         \A u \in Tasks \ {t} :
            \/ task'[u] = task[u]
            \/ task[u] \in {"pending", "ready"} /\ task'[u] = "blocked" /\ ~InFlight(u)
  PROVE Contract!Settle
<1> DEFINE moved == {u \in Tasks : Stage'[u] # Stage[u]}
<1>1. Phase # "over" /\ Phase' \in {Phase, "closing"} BY DEF Phase, Inside, Stopping
<1>2. Stage' \in [Tasks -> {"waiting", "working", "parked", "ended"}] BY StageInside, StagesOf
<1>3. {u \in Tasks : InFlight(u)}' = {u \in Tasks : InFlight(u)} BY DEF SameFlight
<1>4. Stage[t] = StageOf(task[t]) /\ Stage'[t] = StageOf(task'[t]) BY StageInside
<1>5. t \in moved BY <1>4 DEF Contract!Becomes
<1>6. \A u \in moved \ {t} : Stage[u] = "waiting" /\ Stage'[u] = "ended" /\ ~InFlight(u)
  BY StageInside, StagesOf DEF TerminalStates
<1>7. \A u \in moved : <<Stage[u], Stage'[u]>> \in Contract!Becomes
  BY <1>4, <1>6 DEF Contract!Becomes
<1>8. moved \cap {u \in Tasks : InFlight(u)} = {} BY <1>6
<1>9. Cardinality({u \in moved : Stage[u] = "working"}) <= 1
  <2>1. CASE Stage[t] = "working"
    <3>1. {u \in moved : Stage[u] = "working"} = {t} BY <1>5, <1>6, <2>1
    <3>2. Cardinality({t}) = 1 BY FS_Singleton
    <3> QED BY <3>1, <3>2
  <2>2. CASE Stage[t] # "working"
    <3>1. {u \in moved : Stage[u] = "working"} = {} BY <1>6, <2>2
    <3> QED BY <3>1, FS_EmptySet
  <2> QED BY <2>1, <2>2
<1>10. moved # {} BY <1>5
<1> QED BY <1>1, <1>2, <1>3, <1>7, <1>8, <1>9, <1>10, Counts DEF Contract!Settle

(* Somebody asks for a task again. *)
LEMMA RevivesOne ==
  ASSUME Inside, SameFlight, task \in [Tasks -> TaskState], UNCHANGED <<stop, hold>>, ~Stopping,
         NEW t \in Tasks, ~InFlight(t), task[t] \notin ActiveStates,
         task' = [task EXCEPT ![t] = "pending"]
  PROVE Contract!Revive(t) \/ UNCHANGED Contract!contract
<1>1. Stage' = [Stage EXCEPT ![t] = "waiting"] BY StageInside, StagesOf
<1>2. {u \in Tasks : InFlight(u)}' = {u \in Tasks : InFlight(u)} BY DEF SameFlight
<1>3. Phase' = Phase /\ Phase \in {"open", "held"} BY DEF Phase, Inside, Stopping
<1>4. CASE Stage[t] = "waiting"
  <2>1. Stage' = Stage BY <1>1, <1>4, StageInside
  <2> QED BY <1>2, <1>3, <2>1 DEF Contract!contract
<1>5. CASE Stage[t] # "waiting"
  <2>1. Stage[t] \in {"parked", "ended"} BY <1>5, StageInside, StagesOf
  <2> QED BY <1>1, <1>2, <1>3, <2>1 DEF Contract!Revive
<1> QED BY <1>4, <1>5

-----------------------------------------------------------------------------
(* What each step is to the contract *)

Kept == Contract!Next \/ UNCHANGED Contract!contract

(* All steps are inside the loop but the selection and the end.              *)
LEMMA StepsInside ==
  ASSUME WorkInvariant, Next, ~Prepare, ~Finalize, ~UNCHANGED vars PROVE Inside
<1>1. (\E t \in Tasks : FailPreflight(t)) \/ EnterLoop
        => pc = "preflight" /\ pc' \in {"preflight", "pass"}
  BY DEF FailPreflight, EnterLoop, loopVars, Goto
<1>2. Rest => UNCHANGED vars BY DEF Rest
<1> QED BY <1>1, <1>2, StartedFrom, SettlesFrom DEF Next, Loop, Startup, Inside

(* A task no worker is busy with may be anything but at work; one that has    *)
(* not started is idle.                                                      *)
LEMMA IdleUnlessActive ==
  ASSUME WorkInvariant, NEW t \in Tasks, task[t] \notin ActiveStates PROVE ~InFlight(t)
  BY DEF WorkInvariant, ActiveHasWork, HasWork

(* Neither a task nor what the run is told changes. *)
LEMMA NothingSeen ==
  ASSUME Inside, SameFlight, UNCHANGED <<task, stop, hold>> PROVE Kept
<1>1. SameStage BY DEF SameStage
<1> QED BY <1>1, Unseen DEF Kept

(* A task that is in no worker's hands is settled (setState).                *)
LEMMA OneSettled ==
  ASSUME WorkInvariant, Inside, SameFlight, UNCHANGED hold, UNCHANGED stop \/ Stopping',
         NEW t \in Tasks, ~InFlight(t), NEW s \in TaskState,
         <<StageOf(task[t]), StageOf(s)>> \in Contract!Becomes,
         task' = [task EXCEPT ![t] = s]
  PROVE Kept
<1>1. task \in [Tasks -> TaskState] /\ task' \in [Tasks -> TaskState] BY DEF WorkInvariant, TypeOK
<1>2. task'[t] = s /\ \A u \in Tasks \ {t} : task'[u] = task[u] BY <1>1
<1>3. Contract!Settle BY <1>1, <1>2, SettlesOne
<1> QED BY <1>3 DEF Kept, Contract!Next

(* A task that ends badly is settled with what it blocks (applyOnFailure).   *)
LEMMA BadlySettled ==
  ASSUME WorkInvariant, Inside, SameFlight, NEW t \in Tasks, ~InFlight(t), task[t] \notin TerminalStates,
         NEW s \in {"failed", "blocked"}, EndBadly(t, s)
  PROVE Kept
<1>1. TypeOK /\ task \in [Tasks -> TaskState] BY DEF WorkInvariant, TypeOK
<1>2. task' \in [Tasks -> TaskState] /\ UNCHANGED hold BY <1>1, EndBadlyType
<1>3. /\ task'[t] = s
      /\ \A u \in Tasks \ {t} :
           task'[u] = task[u] \/ (task[u] \in {"pending", "ready"} /\ task'[u] = "blocked")
  BY DEF EndBadly
<1>4. \A u \in Tasks : task[u] \in {"pending", "ready"} => ~InFlight(u)
  BY IdleUnlessActive DEF ActiveStates
<1>5. UNCHANGED stop \/ Stopping'
  <2>1. [mode |-> StopMode, cause |-> "on_failure"] # NoStop BY OptionsAssumption DEF NoStop
  <2> QED BY <2>1 DEF EndBadly, Stopping
<1>6. <<StageOf(task[t]), StageOf(s)>> \in Contract!Becomes
  <2>1. s \in TerminalStates /\ task[t] \in TaskState \ TerminalStates BY <1>1 DEF TerminalStates
  <2>2. TaskState \ TerminalStates
          = ActiveStates \cup {"needs_input", "suspended"} \cup {"pending", "ready", "awaiting_approval"}
    BY DEF TaskState, ActiveStates, TerminalStates
  <2>3. StageOf(s) = "ended" /\ StageOf(task[t]) \in {"waiting", "parked", "working"}
    BY <2>1, <2>2, StagesOf
  <2> QED BY <2>3 DEF Contract!Becomes
<1>7. Contract!Settle BY <1>1, <1>2, <1>3, <1>4, <1>5, <1>6, SettlesOne
<1> QED BY <1>7 DEF Kept, Contract!Next

(* A stop closes the run, or finds it closed; denying a prompt leaves its    *)
(* task at work.                                                             *)
LEMMA StopKept ==
  ASSUME WorkInvariant, Inside, SameFlight, NEW m \in {"wait", "cancel"}, NEW c, ApplyStop(m, c)
  PROVE Kept
<1>1. SameStage
  <2>1. task' = Settled(Tasks) /\ task \in [Tasks -> TaskState]
    BY DEF ApplyStop, WorkInvariant, TypeOK
  <2> QED BY <2>1, StagesOf DEF SameStage, Settled, ActiveStates
<1>2. Stopping'
  <2>1. [mode |-> m, cause |-> c].mode = m /\ NoStop.mode = "none" BY DEF NoStop
  <2> QED BY <2>1 DEF ApplyStop, Stopping
<1> QED BY <1>1, <1>2, Unseen, Closes DEF Kept, Contract!Next

(* A worker told to stop is at work until it has. *)
LEMMA AbortKept ==
  ASSUME WorkInvariant, Inside, SameFlight, UNCHANGED <<stop, hold>>, NEW t, AbortWorker(t)
  PROVE Kept
<1>1. task' = Settled({t}) /\ task \in [Tasks -> TaskState] BY DEF AbortWorker, WorkInvariant, TypeOK
<1>2. SameStage BY <1>1, StagesOf DEF SameStage, Settled, ActiveStates
<1> QED BY <1>2, Unseen DEF Kept

(* A task is asked for again, unless the run stops. *)
LEMMA RevivedKept ==
  ASSUME WorkInvariant, Inside, SameFlight, UNCHANGED <<stop, hold>>, ~Stopping,
         NEW t \in Tasks, task[t] \notin ActiveStates, task' = [task EXCEPT ![t] = "pending"]
  PROVE Kept
<1>1. task \in [Tasks -> TaskState] /\ ~InFlight(t) BY IdleUnlessActive DEF WorkInvariant, TypeOK
<1> QED BY <1>1, RevivesOne DEF Kept, Contract!Next

(* So does a restart (applyRestart). *)
LEMMA RestartKept ==
  ASSUME WorkInvariant, Inside, SameFlight, UNCHANGED <<stop, hold>>,
         NEW t \in Tasks, NEW b, Restart(t, b)
  PROVE Kept
<1>1. CASE UNCHANGED task BY <1>1, NothingSeen
<1>2. CASE ~Stopping /\ task[t] \in RestartableStates /\ task' = [task EXCEPT ![t] = "pending"]
  <2>1. task[t] \notin ActiveStates
    BY <1>2 DEF RestartableStates, TerminalStates, ActiveStates
  <2> QED BY <1>2, <2>1, RevivedKept
<1> QED BY <1>1, <1>2 DEF Restart

(* The selection decides before anybody looks; a plugin may close the run in  *)
(* the same breath (prepareRun, applySelection).                             *)
LEMMA PrepareKept ==
  ASSUME WorkInvariant, Prepare PROVE Kept
<1>1. /\ pc = "start" /\ pc' = "preflight" /\ task' = Prepared /\ UNCHANGED <<hold, inflight>>
  BY DEF Prepare, Goto, workVars
<1>2. ~Stopping BY <1>1 DEF WorkInvariant, StartsQuietly
<1>3. Stage' = Stage BY <1>1 DEF Stage
<1>4. {t \in Tasks : InFlight(t)}' = {t \in Tasks : InFlight(t)} BY <1>1 DEF InFlight
<1>5. CASE Stopping'
  <2>1. Phase \in {"open", "held"} /\ Phase' = "closing" BY <1>1, <1>2, <1>5 DEF Phase
  <2> QED BY <1>3, <1>4, <2>1 DEF Kept, Contract!Next, Contract!Close
<1>6. CASE ~Stopping'
  <2>1. Phase' = Phase BY <1>1, <1>2, <1>6 DEF Phase
  <2> QED BY <1>3, <1>4, <2>1 DEF Kept, Contract!contract
<1> QED BY <1>5, <1>6

(* preflightRunners *)
LEMMA PreflightKept ==
  ASSUME WorkInvariant, RunsOn, Inside, SameFlight,
         NEW t \in Tasks, FailPreflight(t)
  PROVE Kept
<1>1. pc = "preflight" /\ task[t] \notin TerminalStates /\ EndBadly(t, "failed")
  BY DEF FailPreflight
<1>2. ~InFlight(t) BY <1>1 DEF WorkInvariant, StartsQuietly
<1> QED BY <1>1, <1>2, BadlySettled

(* promoteReady *)
LEMMA PromoteKept ==
  ASSUME WorkInvariant, Inside, SameFlight, Promote PROVE Kept
<1>1. CASE StartPass \/ EndPass
  <2>1. UNCHANGED <<task, stop, hold>> BY <1>1 DEF StartPass, EndPass, runVars
  <2> QED BY <2>1, NothingSeen
<1>2. ASSUME NEW i \in DOMAIN Topo, Promoting(i)
      PROVE /\ Topo[i] \in Tasks /\ task[Topo[i]] = "pending" /\ ~InFlight(Topo[i])
            /\ Verdict(Topo[i]) = "ok" => ~Stopping
  <2>1. Topo[i] \in Tasks BY <1>2, Order, TaskAt
  <2>2. task[Topo[i]] = "pending" /\ (Verdict(Topo[i]) = "ok" => ~Stopping)
    BY <1>2 DEF Promoting, Promotable
  <2>3. ~InFlight(Topo[i]) BY <2>1, <2>2, IdleUnlessActive DEF ActiveStates
  <2> QED BY <2>1, <2>2, <2>3
<1>3. StageOf("pending") = "waiting" /\ StageOf("blocked") = "ended" /\ StageOf("skipped") = "ended"
      /\ {"blocked", "skipped", "pending", "ready", "awaiting_approval"} \subseteq TaskState
  BY StagesOf DEF TerminalStates, TaskState
<1>4. CASE BlockOnDependency
  <2> PICK i \in DOMAIN Topo : BlockOnDependency!(i) BY <1>4 DEF BlockOnDependency
  <2>1. <<StageOf(task[Topo[i]]), StageOf("blocked")>> \in Contract!Becomes
    BY <1>2, <1>3 DEF Contract!Becomes
  <2> QED BY <1>2, <1>3, <2>1, OneSettled DEF runVars
<1>5. CASE SkipOnCondition
  <2> PICK i \in DOMAIN Topo : SkipOnCondition!(i) BY <1>5 DEF SkipOnCondition
  <2>1. <<StageOf(task[Topo[i]]), StageOf("skipped")>> \in Contract!Becomes
    BY <1>2, <1>3 DEF Contract!Becomes
  <2> QED BY <1>2, <1>3, <2>1, OneSettled DEF runVars
<1>6. CASE FailOnCondition
  <2> PICK i \in DOMAIN Topo : FailOnCondition!(i) BY <1>6 DEF FailOnCondition
  <2>1. task[Topo[i]] \notin TerminalStates BY <1>2 DEF TerminalStates
  <2> QED BY <1>2, <2>1, BadlySettled
<1>7. ASSUME NEW t \in Tasks, task[t] = "pending", NEW s \in {"ready", "awaiting_approval"},
             task' = [task EXCEPT ![t] = s]
      PROVE SameStage
  <2>1. task \in [Tasks -> TaskState] BY DEF WorkInvariant, TypeOK
  <2> QED BY <1>7, <2>1, StagesOf DEF SameStage
<1>8. CASE OpenGate
  <2> PICK i \in DOMAIN Topo :
        /\ Promoting(i) /\ Verdict(Topo[i]) = "ok"
        /\ task' = [task EXCEPT ![Topo[i]] = "awaiting_approval"]
        /\ UNCHANGED hold /\ (UNCHANGED stop \/ stop' = [mode |-> "wait", cause |-> "pause"])
    BY <1>8 DEF OpenGate
  <2>1. SameStage /\ ~Stopping BY <1>2, <1>7
  <2>2. UNCHANGED stop \/ Stopping'
    <3>1. [mode |-> "wait", cause |-> "pause"] # NoStop BY DEF NoStop
    <3> QED BY <3>1 DEF Stopping
  <2> QED BY <2>1, <2>2, Unseen, Closes DEF Kept, Contract!Next
<1>9. CASE MakeReady
  <2> PICK i \in DOMAIN Topo : MakeReady!(i) BY <1>9 DEF MakeReady
  <2>1. SameStage /\ UNCHANGED <<stop, hold>> BY <1>2, <1>7 DEF runVars
  <2> QED BY <2>1, Unseen DEF Kept
<1> QED BY <1>1, <1>4, <1>5, <1>6, <1>8, <1>9 DEF Promote

(* launchReady and launchPendingMerges *)
LEMMA LaunchKept ==
  ASSUME WorkInvariant, LimitInvariant, Inside, [Next]_vars, LaunchWork PROVE Kept
<1>0. task \in [Tasks -> TaskState] BY DEF WorkInvariant, TypeOK
<1>1. CASE AbandonPendingMerge \/ EndMerges \/ EndLaunch
  <2>1. UNCHANGED <<task, stop, hold, inflight>>
    BY <1>1 DEF AbandonPendingMerge, EndMerges, EndLaunch, runVars, workVars
  <2>2. SameFlight BY <2>1 DEF SameFlight, InFlight
  <2> QED BY <2>1, <2>2, NothingSeen
<1>2. ASSUME NEW t \in Tasks, inflight'[t].phase = "working", OthersStay(t)
      PROVE {u \in Tasks : InFlight(u)}' = {u \in Tasks : InFlight(u)} \cup {t}
  BY <1>2 DEF OthersStay, InFlight
<1>3. CASE Launch
  <2> PICK t \in Tasks :
        /\ task[t] = "ready" /\ ~InFlight(t) /\ task' = [task EXCEPT ![t] = "running"]
        /\ inflight'[t].phase = "working" /\ OthersStay(t)
        /\ ~Stopping /\ ~hold /\ Capacity < MaxConcurrency /\ UNCHANGED runVars
    BY <1>3, LaunchMoves
  <2>1. Stage[t] = "waiting" /\ Stage' = [Stage EXCEPT ![t] = "working"]
    BY <1>0, StageInside, StagesOf DEF ActiveStates
  <2>2. Phase = "open" /\ Phase' = Phase BY DEF Phase, Inside, Stopping, runVars
  <2>3. Contract!Cardinality({u \in Tasks : InFlight(u)}) < MaxConcurrency
    BY Counts DEF Capacity
  <2>4. Contract!Begin(t) BY <1>2, <2>1, <2>2, <2>3 DEF Contract!Begin
  <2> QED BY <2>4 DEF Kept, Contract!Next
<1>4. CASE LaunchPendingMerge
  <2> PICK t \in Tasks :
        /\ ~InFlight(t) /\ HasWork(t) /\ inflight'[t].phase = "working" /\ OthersStay(t)
        /\ ~Stopping /\ tree = <<>> /\ UNCHANGED <<runVars, task>>
    BY <1>4, MergeMoves
  <2>1. Stage[t] = "working" BY StageInside, StagesOf DEF WorkInvariant, ActiveHasWork
  <2>2. Stage' = Stage BY StageInside
  <2>3. Phase \in {"open", "held"} /\ Phase' = Phase BY DEF Phase, Inside, Stopping, runVars
  <2>4. Contract!Cardinality({u \in Tasks : InFlight(u)}) <= MaxConcurrency
    <3>1. ~\E m \in Tasks : Resolving(m) BY ResolvingHolds
    <3>2. MaxConcurrency \in Nat /\ Capacity \in Nat BY OptionsAssumption, CapacityType
    <3>3. Capacity <= MaxConcurrency BY <3>1, <3>2 DEF LimitInvariant, OneOnTop
    <3> QED BY <3>3, Counts DEF Capacity
  <2>5. Contract!Resolve(t) BY <1>2, <2>1, <2>2, <2>3, <2>4 DEF Contract!Resolve
  <2> QED BY <2>5 DEF Kept, Contract!Next
<1> QED BY <1>1, <1>3, <1>4 DEF LaunchWork

(* The handlers of the wake queue but those of the commands.                 *)
LEMMA WakeKept ==
  ASSUME WorkInvariant, Inside, [Next]_vars, HandleWake PROVE Kept
<1>0. TypeOK /\ task \in [Tasks -> TaskState] BY DEF WorkInvariant, TypeOK
<1>1. CASE HandleFinalized
  <2> PICK t \in Tasks :
        /\ inflight[t].phase = "settled" /\ OthersStay(t) /\ UNCHANGED task
        /\ inflight'[t].phase = "working" \/ inflight'[t].phase = "idle"
    BY <1>1, FinalizedMoves
  <2>1. Stage' = Stage BY StageInside
  <2>2. UNCHANGED runVars BY <1>1 DEF HandleFinalized
  <2>3. Phase' = Phase /\ Phase # "over" BY <2>2 DEF Phase, Inside, Stopping, runVars
  <2>4. CASE inflight'[t].phase = "working"
    <3>1. {u \in Tasks : InFlight(u)}' = {u \in Tasks : InFlight(u)}
      BY <2>4 DEF OthersStay, InFlight
    <3> QED BY <2>1, <2>3, <3>1 DEF Kept, Contract!contract
  <2>5. CASE inflight'[t].phase = "idle"
    <3>1. /\ t \in {u \in Tasks : InFlight(u)}
          /\ {u \in Tasks : InFlight(u)}' = {u \in Tasks : InFlight(u)} \ {t}
      BY <2>5 DEF OthersStay, InFlight
    <3>2. Contract!Leave(t) BY <2>1, <2>3, <3>1 DEF Contract!Leave
    <3> QED BY <3>2 DEF Kept, Contract!Next
  <2> QED BY <2>4, <2>5
<1>2. CASE ~HandleFinalized
  <2>0. SameFlight
    <3>1. ~Launch /\ ~LaunchPendingMerge BY StartedFrom DEF LaunchWork
    <3> QED BY <1>2, <3>1, FlightStays
  <2>1. CASE HandleAttemptDone \/ HandleRetryDue
    <3>1. UNCHANGED <<task, stop, hold>>
      BY <2>1 DEF HandleAttemptDone, HandleRetryDue, runVars
    <3> QED BY <2>0, <3>1, NothingSeen
  <2>2. CASE HandleApproval
    <3> PICK w \in Handled : HandleApproval!(w) BY <2>2 DEF HandleApproval
    <3>1. w.task \in Tasks BY <1>0, HeadOfQueue, ReportType
    <3>2. CASE task[w.task] # "awaiting_approval"
      <4>1. UNCHANGED <<task, stop, hold>> BY <3>2 DEF runVars
      <4> QED BY <2>0, <4>1, NothingSeen
    <3>3. CASE task[w.task] = "awaiting_approval"
      <4>1. ~InFlight(w.task) BY <3>1, <3>3, IdleUnlessActive DEF ActiveStates
      <4>2. CASE task' = [task EXCEPT ![w.task] = "success"] /\ UNCHANGED runVars
        <5>1. StageOf(task[w.task]) = "waiting" /\ StageOf("success") = "ended"
          BY <3>3, StagesOf DEF TerminalStates
        <5>2. "success" \in TaskState BY DEF TaskState
        <5> QED BY <2>0, <3>1, <4>1, <4>2, <5>1, <5>2, OneSettled DEF Contract!Becomes, runVars
      <4>3. CASE EndBadly(w.task, "failed")
        <5>1. task[w.task] \notin TerminalStates BY <3>3 DEF TerminalStates
        <5> QED BY <2>0, <3>1, <4>1, <4>3, <5>1, BadlySettled
      <4> QED BY <3>3, <4>2, <4>3
    <3> QED BY <3>2, <3>3
  <2>3. CASE HandleStop
    <3> PICK w \in Handled : HandleStop!(w) BY <2>3 DEF HandleStop
    <3>1. w.mode \in {"wait", "cancel"} BY <1>0, HeadOfQueue, ReportType
    <3> QED BY <2>0, <3>1, StopKept
  <2> QED BY <1>2, <2>1, <2>2, <2>3 DEF HandleWake
<1> QED BY <1>1, <1>2

(* applyOutcome, and what a late cancel or a restart that was owed makes of it. *)
LEMMA OutcomeKept ==
  ASSUME WorkInvariant, Inside, SameFlight, ApplyOutcome PROVE Kept
<1>0. /\ Focused \in Tasks /\ ~InFlight(Focused)
      /\ pc = "outcome" => task[Focused] \in ActiveStates
  BY SettlesFrom DEF WorkInvariant, WorkOnce, ActiveHasWork, HasWork
<1>1. ASSUME NEW s \in {"waiting", "parked", "ended"}
      PROVE <<"working", s>> \in Contract!Becomes
  BY DEF Contract!Becomes
<1>2. ASSUME pc = "outcome", NEW s \in TaskState \ ActiveStates, Became(s), UNCHANGED hold,
             UNCHANGED stop \/ Stopping'
      PROVE Kept
  <2>1. StageOf(task[Focused]) = "working" BY <1>0, <1>2, StagesOf
  <2>2. StageOf(s) \in {"waiting", "parked", "ended"} BY StagesOf
  <2>3. <<StageOf(task[Focused]), StageOf(s)>> \in Contract!Becomes BY <1>1, <2>1, <2>2
  <2> QED BY <1>0, <1>2, <2>3, OneSettled DEF Became
<1>3. ASSUME pc = "outcome", NEW s \in {"failed", "blocked"}, EndBadly(Focused, s) PROVE Kept
  <2>1. task[Focused] \notin TerminalStates BY <1>0, <1>3 DEF ActiveStates, TerminalStates
  <2> QED BY <1>0, <1>3, <2>1, BadlySettled
<1>4. {"success", "skipped", "needs_input", "suspended", "cancelled", "ready"}
        \subseteq TaskState \ ActiveStates
  BY DEF TaskState, ActiveStates
<1>5. CASE Succeed \/ SkipByAgent \/ EndSuspended \/ EndCancelled \/ RecoverTransient
           \/ NudgeSession \/ RetryAttempt
  <2>1. /\ pc = "outcome" /\ UNCHANGED <<stop, hold>>
        /\ \E s \in {"success", "skipped", "suspended", "cancelled", "ready"} : Became(s)
    BY <1>5 DEF Succeed, SkipByAgent, EndSuspended, EndCancelled, RecoverTransient, NudgeSession,
                RetryAttempt, Failing, Applying, runVars
  <2> QED BY <1>2, <1>4, <2>1
<1>6. CASE AskInput
  <2>1. [mode |-> "wait", cause |-> "pause"] # NoStop BY DEF NoStop
  <2>2. UNCHANGED stop \/ Stopping' BY <1>6, <2>1 DEF AskInput, Stopping
  <2>3. pc = "outcome" /\ Became("needs_input") /\ UNCHANGED hold BY <1>6 DEF AskInput, Applying
  <2> QED BY <1>2, <1>4, <2>2, <2>3
<1>7. CASE BlockByAgent \/ FailTask
  <2>1. pc = "outcome" /\ \E s \in {"failed", "blocked"} : EndBadly(Focused, s)
    BY <1>7 DEF BlockByAgent, FailTask, Failing, Applying
  <2> QED BY <1>3, <2>1
<1>8. CASE SettleCancel
  <2>1. UNCHANGED <<stop, hold>> BY <1>8 DEF SettleCancel, runVars
  <2>2. CASE UNCHANGED task BY <2>1, <2>2, NothingSeen
  <2>3. CASE CancelsLate /\ Became("cancelled")
    <3>1. task[Focused] \in TaskState \ TerminalStates
      BY <1>0, <2>3 DEF CancelsLate, WorkInvariant, TypeOK
    <3>2. TaskState \ TerminalStates
            = ActiveStates \cup {"needs_input", "suspended"} \cup {"pending", "ready", "awaiting_approval"}
      BY DEF TaskState, ActiveStates, TerminalStates
    <3>3. StageOf(task[Focused]) \in {"waiting", "parked", "working"} /\ StageOf("cancelled") = "ended"
      BY <3>1, <3>2, StagesOf DEF TerminalStates
    <3>4. <<StageOf(task[Focused]), StageOf("cancelled")>> \in Contract!Becomes
      BY <3>3 DEF Contract!Becomes
    <3> QED BY <1>0, <1>4, <2>1, <2>3, <3>4, OneSettled DEF Became
  <2> QED BY <1>8, <2>2, <2>3 DEF SettleCancel
<1>9. CASE SettleRestart
  <2>1. UNCHANGED <<stop, hold>> BY <1>9 DEF SettleRestart, runVars
  <2>2. UNCHANGED task \/ Restart(Focused, FALSE) BY <1>9 DEF SettleRestart
  <2> QED BY <1>0, <2>1, <2>2, NothingSeen, RestartKept
<1> QED BY <1>5, <1>6, <1>7, <1>8, <1>9 DEF ApplyOutcome

(* The operator's commands. *)
LEMMA ControlKept ==
  ASSUME WorkInvariant, Inside, SameFlight, HandleControl PROVE Kept
<1>0. TypeOK BY DEF WorkInvariant
<1>1. CASE RejectCommand
  <2>1. UNCHANGED <<task, stop, hold>> BY <1>1 DEF RejectCommand, runVars
  <2> QED BY <2>1, NothingSeen
<1>2. CASE StopRun
  <2> PICK w \in Handled : StopRun!(w) BY <1>2 DEF StopRun
  <2>1. w.command.mode \in {"wait", "cancel"} BY <1>0, CommandedTask
  <2> QED BY <2>1, StopKept
<1>3. CASE HoldRun
  <2>1. ~Stopping /\ ~hold /\ hold' = TRUE /\ UNCHANGED <<task, stop>>
    BY <1>3 DEF HoldRun, CanHold
  <2>2. Phase = "open" /\ Phase' = "held" BY <2>1 DEF Phase, Inside, Stopping
  <2>3. Stage' = Stage BY <2>1, StageInside
  <2>4. {t \in Tasks : InFlight(t)}' = {t \in Tasks : InFlight(t)} BY DEF SameFlight
  <2> QED BY <2>2, <2>3, <2>4 DEF Kept, Contract!Next, Contract!Hold
<1>4. CASE ReleaseRun
  <2>1. hold /\ hold' = FALSE /\ UNCHANGED <<task, stop>> BY <1>4 DEF ReleaseRun, CanRelease
  <2>2. CASE Stopping
    <3>1. SameStage /\ Stopping' BY <2>1, <2>2 DEF SameStage, Stopping
    <3> QED BY <2>2, <3>1, Unseen DEF Kept
  <2>3. CASE ~Stopping
    <3>1. Phase = "held" /\ Phase' = "open" BY <2>1, <2>3 DEF Phase, Inside, Stopping
    <3>2. Stage' = Stage BY <2>1, StageInside
    <3>3. {t \in Tasks : InFlight(t)}' = {t \in Tasks : InFlight(t)} BY DEF SameFlight
    <3> QED BY <3>1, <3>2, <3>3 DEF Kept, Contract!Next, Contract!Release
  <2> QED BY <2>2, <2>3
<1>5. CASE RestartTask \/ ResumeTask
  <2> PICK w \in Handled, k \in {"restart", "resumeTask"}, b \in BOOLEAN :
        Commanded(w, k) /\ Restart(w.command.task, b) /\ UNCHANGED runVars
    BY <1>5 DEF RestartTask, ResumeTask
  <2>1. w.command.task \in Tasks BY <1>0, CommandedTask
  <2> QED BY <2>1, RestartKept DEF runVars
<1>6. CASE CancelTask \/ SuspendTask \/ StopAndContinue
  <2> PICK t : (AbortWorker(t) \/ UNCHANGED <<inflight, task>>) /\ UNCHANGED runVars
    BY <1>6 DEF CancelTask, SuspendTask, StopAndContinue
  <2> QED BY AbortKept, NothingSeen DEF runVars
<1>7. CASE FollowUp
  <2> PICK w \in Handled : FollowUp!(w) BY <1>7 DEF FollowUp
  <2>0. w \in WakeRecord BY <1>0, HeadOfQueue
  <2>1. w.command.task \in Tasks BY <2>0, ReportType, CommandType
  <2>2. task[w.command.task] \notin ActiveStates /\ ~Stopping
    BY DEF CanFollowUp, FollowUpStates, ActiveStates
  <2> QED BY <2>1, <2>2, RevivedKept DEF runVars
<1>8. CASE EditNothing
  <2> PICK w \in Handled : EditNothing!(w) BY <1>8 DEF EditNothing
  <2>1. w.command.task \in Tasks BY <1>0, CommandedTask
  <2>2. UNCHANGED task \/ Restart(w.command.task, FALSE) OBVIOUS
  <2> QED BY <2>1, <2>2, NothingSeen, RestartKept DEF runVars
<1>9. CASE EditTask
  <2> PICK w \in Handled : EditTask!(w) BY <1>9 DEF EditTask
  <2> PICK t : t = w.command.task OBVIOUS
  <2>1. t \in Tasks BY <1>0, CommandedTask
  <2>2. CASE AbortWorker(t) BY <2>2, AbortKept DEF runVars
  <2>3. CASE UNCHANGED task BY <2>3, NothingSeen DEF runVars
  <2>4. CASE task' = [task EXCEPT ![t] = "pending"] /\ RestartPlan(t) = "restart" /\ ~Stopping
    <3>1. task[t] \notin ActiveStates BY <2>4 DEF RestartPlan
    <3> QED BY <2>1, <2>4, <3>1, RevivedKept DEF runVars
  <2> QED BY <2>2, <2>3, <2>4
<1> QED BY <1>1, <1>2, <1>3, <1>4, <1>5, <1>6, <1>7, <1>8, <1>9 DEF HandleControl

(* The workers, their workspaces, the clock and those who submit commands    *)
(* move nothing the contract speaks of: a prompt a worker waits on leaves it  *)
(* at work.                                                                  *)
LEMMA EnvironmentKept ==
  ASSUME WorkInvariant, Inside, SameFlight, Environment PROVE Kept
<1>1. UNCHANGED <<stop, hold>>
  BY DEF Environment, WorkerReports, ReportSession, AskOperator, AnswerOperator, AnswerGate, BecomeDue,
         TimerFires, Submit, Workspace, QueueForTree, Capture, CaptureThrows, MergeBack, FinishCapture,
         runVars
<1>2. \/ UNCHANGED task
      \/ \E t \in Tasks, s \in ActiveStates :
           task[t] \in ActiveStates /\ task' = [task EXCEPT ![t] = s]
  BY DEF Environment, WorkerReports, ReportSession, AskOperator, AnswerOperator, AnswerGate, BecomeDue,
         TimerFires, Submit, Workspace, QueueForTree, Capture, CaptureThrows, MergeBack, FinishCapture,
         ActiveStates
<1>3. SameStage
  <2>1. task \in [Tasks -> TaskState] BY DEF WorkInvariant, TypeOK
  <2> QED BY <1>2, <2>1, StagesOf DEF SameStage
<1> QED BY <1>1, <1>3, Unseen DEF Kept

(* The run ends with nobody at work; what never started is cancelled if it    *)
(* was stopped (finalize).                                                   *)
LEMMA FinalizeKept ==
  ASSUME WorkInvariant, Finalize PROVE Kept
<1>0. task \in [Tasks -> TaskState] BY DEF WorkInvariant, TypeOK
<1>1. /\ pc = "idle" /\ pc' = "done" /\ Idle /\ UNCHANGED inflight
      /\ task' = [t \in Tasks |-> IF CancelsRest /\ task[t] \in {"pending", "ready"}
                                  THEN "cancelled" ELSE task[t]]
  BY DEF Finalize, Goto, workVars
<1>2. Phase # "over" /\ Phase' = "over" BY <1>1 DEF Phase
<1>3. {t \in Tasks : InFlight(t)} = {} BY <1>1 DEF Idle
<1>4. {t \in Tasks : InFlight(t)}' = {t \in Tasks : InFlight(t)} BY <1>1 DEF InFlight
<1>5. \A t \in Tasks : task[t] \notin ActiveStates
  <2>1. ASSUME NEW t \in Tasks PROVE ~HasWork(t) BY <1>1 DEF HasWork, Idle
  <2> QED BY <2>1, IdleTask
<1>6. Stage = [t \in Tasks |-> StageOf(task[t])] /\ Stage' = [t \in Tasks |-> StageOf(task'[t])]
  BY <1>1 DEF Stage
<1>7. \A t \in Tasks : Stage[t] \in {"waiting", "parked", "ended"}
  BY <1>0, <1>5, <1>6, StagesOf
<1>8. \A t \in Tasks : Stage'[t] = Stage[t] \/ (Stage[t] = "waiting" /\ Stage'[t] = "ended")
  BY <1>1, <1>6, StagesOf DEF TerminalStates
<1>9. Stage' \in [Tasks -> {"waiting", "parked", "ended"}] BY <1>6, <1>7, <1>8
<1>10. Contract!Finish BY <1>2, <1>3, <1>4, <1>7, <1>8, <1>9 DEF Contract!Finish
<1> QED BY <1>10 DEF Kept, Contract!Next

(* Every step is one the contract has, or one it does not see.               *)
LEMMA StepKept ==
  ASSUME WorkInvariant, RunsOn, LimitInvariant, [Next]_vars PROVE Kept
<1>1. CASE UNCHANGED vars
  <2>1. Phase' = Phase /\ Stage' = Stage
    BY <1>1 DEF vars, runVars, loopVars, Phase, Stopping, Stage, Prepared
  <2>2. {t \in Tasks : InFlight(t)}' = {t \in Tasks : InFlight(t)}
    BY <1>1 DEF vars, workVars, InFlight
  <2> QED BY <2>1, <2>2 DEF Kept, Contract!contract
<1>2. CASE Prepare BY <1>2, PrepareKept
<1>3. CASE Finalize BY <1>3, FinalizeKept
<1>4. CASE Next /\ ~Prepare /\ ~Finalize /\ ~UNCHANGED vars
  <2>1. Inside BY <1>4, StepsInside
  <2>2. CASE HandleWake BY <2>1, <2>2, WakeKept
  <2>3. CASE LaunchWork BY <2>1, <2>3, LaunchKept
  <2>4. CASE ~HandleWake /\ ~LaunchWork
    <3>1. SameFlight BY <2>4, FlightStays DEF LaunchWork, HandleWake
    <3>2. ASSUME NEW t \in Tasks, FailPreflight(t) PROVE Kept
      BY <2>1, <3>1, <3>2, PreflightKept
    <3>3. CASE EnterLoop \/ Park
      <4>1. UNCHANGED <<task, stop, hold>> BY <3>3 DEF EnterLoop, Park, runVars
      <4> QED BY <2>1, <3>1, <4>1, NothingSeen
    <3> QED
      BY <1>4, <2>1, <2>4, <3>1, <3>2, <3>3, PromoteKept, OutcomeKept, ControlKept, EnvironmentKept
      DEF Next, Loop, Startup, Rest
  <2> QED BY <2>2, <2>3, <2>4
<1> QED BY <1>1, <1>2, <1>3, <1>4

(* Whoever starts a run may rely on the contract alone: the scheduler, with   *)
(* its queue, its labels, its shared tree and its retries, only ever does     *)
(* what the contract allows.                                                 *)
THEOREM SchedulerKeepsContract == Spec => KeepsContract
<1>1. Init => Contract!Init
  <2> SUFFICES ASSUME Init PROVE Contract!Init OBVIOUS
  <2>1. Phase = "open" BY DEF Init, Phase, Stopping
  <2>2. {t \in Tasks : InFlight(t)} = {} BY DEF Init, InFlight, NoEntry
  <2>3. \A t \in Tasks : Prepared[t] \in {"pending", "success", "skipped"}
    BY DEF Init, Prepared
  <2>4. \A s \in {"pending", "success", "skipped"} : StageOf(s) \in {"waiting", "ended"}
    BY StagesOf DEF TerminalStates
  <2>5. Stage \in [Tasks -> {"waiting", "ended"}] BY <2>3, <2>4 DEF Init, Stage
  <2> QED BY <2>1, <2>2, <2>5 DEF Contract!Init
<1>2. WorkInvariant /\ RunsOn /\ LimitInvariant /\ [Next]_vars
        => [Contract!Next]_Contract!contract
  BY StepKept DEF Kept
<1> QED
  BY <1>1, <1>2, WorkCorrect, RunsOnCorrect, LimitCorrect, PTL
  DEF Spec, KeepsContract, Contract!Spec
=============================================================================
