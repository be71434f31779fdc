------------------------ MODULE SchedulerProperties ------------------------
(***************************************************************************)
(* What the scheduler promises.  The first part holds of every              *)
(* configuration the runs check; the second part holds under the conditions *)
(* its comments name; the last part states what the repository's own words  *)
(* say and the code does not do.                                            *)
(***************************************************************************)
EXTENDS Scheduler

-----------------------------------------------------------------------------
(* Every variable of the loop, its queue and its work keeps its shape.  The *)
(* phases, wakes and labels are those the handlers of scheduler.ts branch   *)
(* on.                                                                      *)
AttemptRecord ==
  [number : Nat \ {0}, kind : {"task", "merge"},
   trigger : {"initial", "retry", "nudge", "user_input"},
   outcome : Outcomes \cup {"none"}, session : BOOLEAN, resumed : Nat, revision : Nat]

EntryRecord ==
  [attempt : Nat, kind : {"task", "merge"},
   phase : {"idle", "working", "ended", "capturing", "queued", "settled"},
   aborted : BOOLEAN, holds : BOOLEAN]

WakeRecord ==
  [kind : {"attempt_done"}, task : Tasks, attempt : Nat, outcome : Outcomes]
  \cup [kind : {"finalized"}, task : Tasks, attempt : Nat, fin : {"clean", "conflict", "lost"}]
  \cup [kind : {"approval"}, task : Tasks, decision : {"approved", "rejected"}]
  \cup [kind : {"stop"}, mode : {"wait", "cancel"}, cause : {"signal", "on_failure", "pause"}]
  \cup [kind : {"retry_due"}]
  \cup [kind : {"control"}, command : Commands, id : 1 .. MaxControls]

StopRecord == {NoStop} \cup [mode : {"wait", "cancel"}, cause : {"signal", "on_failure", "pause"}]

FocusRecord ==
  {NoFocus} \cup [task : Tasks, attempt : Nat, conflict : BOOLEAN, back : {"pass", "merges"}]

TypeOK ==
  /\ runState \in RunState
  /\ task \in [Tasks -> TaskState]
  /\ attempts \in [Tasks -> Seq(AttemptRecord)]
  /\ window \in [Tasks -> Nat \ {0}]
  /\ session \in [Tasks -> Nat]
  /\ decided \in [Tasks -> {"none", "approved", "rejected"}]
  /\ revisions \in [Tasks -> Nat]
  /\ restartOwed \in [Tasks -> {"none", "edit", "message"}]
  /\ delayed \subseteq Tasks /\ followUps \subseteq Tasks /\ swept \subseteq Tasks
  /\ asking \subseteq Tasks /\ cancelReq \subseteq Tasks /\ suspendReq \subseteq Tasks
  /\ inflight \in [Tasks -> EntryRecord]
  /\ pendingMerges \in Seq([task : Tasks, attempt : Nat])
  /\ tree \in Seq(Tasks)
  /\ wake \in Seq(WakeRecord)
  /\ timer \in BOOLEAN /\ seen \in BOOLEAN /\ hold \in BOOLEAN
  /\ stop \in StopRecord
  /\ submitted \in 0 .. MaxControls /\ unsettled \subseteq 1 .. MaxControls
  /\ pc \in {"start", "preflight", "pass", "promote", "merges", "launch", "idle",
             "park", "outcome", "cancel", "restart", "done"}
  /\ cursor \in Nat \ {0} /\ focus \in FocusRecord

-----------------------------------------------------------------------------
(* Safety of every configuration *)

(* No handler ever asks for a transition the tables forbid: setState and    *)
(* transitionRun would throw, and the throw would end execute with the run  *)
(* still marked as running.                                                 *)
LegalTransitions ==
  [][/\ \A t \in Tasks : task'[t] # task[t] => task'[t] \in TaskTransitions[task[t]]
     /\ runState' # runState => runState' \in RunTransitions[runState]]_<<task, runState>>

(* A task is running or waiting exactly while something will still report  *)
(* on it: an attempt in flight, a merge session that waits for the tree, or *)
(* an outcome being applied.  Otherwise the loop would wait for ever for a  *)
(* task nobody works on, or launch a task somebody still works on.          *)
HasWork(t) ==
  \/ InFlight(t)
  \/ \E i \in DOMAIN pendingMerges : pendingMerges[i].task = t
  \/ pc = "outcome" /\ focus.task = t

ActiveHasWork == \A t \in Tasks : task[t] \in ActiveStates <=> HasWork(t)

(* The lock of the shared tree is held or awaited by exactly the attempts   *)
(* that should: an attempt that works in the tree is its first holder, so   *)
(* no two ever write to it, and a lock nobody will release does not exist.  *)
TreeOwned ==
  /\ IsInjective(tree)
  /\ \A t \in Tasks :
       /\ t \in Range(tree) <=> InFlight(t) /\ (inflight[t].holds \/ inflight[t].phase = "queued")
       /\ InFlight(t) /\ inflight[t].holds => Head(tree) = t

(* No more workers run at once than maxConcurrency says, although a merge    *)
(* session is launched without a look at how many run: the tree it waited   *)
(* for is only free once another attempt is past its worker and about to be *)
(* settled (launchReady, launchPendingMerges, handleFinalized).             *)
WithinLimit == Cardinality({t \in Tasks : Working(t)}) <= MaxConcurrency

(* Once the run is stopping by cancelling, every attempt with a worker has  *)
(* been told to stop: none was launched since, and a stop that only waited  *)
(* has been escalated (applyStop, applyOnFailure).                          *)
StopAborts ==
  Stopping /\ stop.mode = "cancel" => \A t \in Tasks : Working(t) => inflight[t].aborted

(* An accepted cancel is not forgotten: by the time the scheduler drops it  *)
(* the task has ended, whatever its attempt reported (applyPendingCancel).  *)
CancelSettles ==
  [][\A t \in cancelReq \ cancelReq' : task'[t] \in TerminalStates]_<<cancelReq, task>>

AttemptsInWindow(t) ==
  {i \in DOMAIN attempts[t] : attempts[t][i].kind = "task"
                              /\ attempts[t][i].number >= window[t]}

(* A count over the whole window at once: each failure once, a result that a *)
(* nudge asked for not at all, a merge never, and of API errors in a row only *)
(* every one past the free ones.                                             *)
Spending(t) ==
  {i \in AttemptsInWindow(t) :
     /\ attempts[t][i].outcome # "none"
     /\ ~(/\ attempts[t][i].outcome = "invalid_result"
          /\ i < Len(attempts[t]) /\ attempts[t][i + 1].trigger = "nudge")}

Streak(t, i) ==
  Cardinality({j \in Spending(t) :
    j <= i /\ \A k \in Spending(t) : k \in j .. i => attempts[t][k].outcome = "api_error"})

Counted(t) ==
  Cardinality({i \in Spending(t) :
    IF attempts[t][i].outcome = "api_error"
    THEN Streak(t, i) % (TransientAttempts + 1) = 0
    ELSE attempts[t][i].outcome \in FailureOutcomes})

FreeSoFar(t) ==
  IF Spending(t) = {} THEN 0
  ELSE Streak(t, Max(Spending(t))) % (TransientAttempts + 1)

(* Within one retry window a task is attempted at most as often as its      *)
(* budget allows: each counted failure may be preceded by its free transient *)
(* errors, and each of those by its nudges.  And budgetedFailures, a pass     *)
(* over the attempts, counts what the window as a whole says.                *)
RetryBudget ==
  \A t \in Tasks :
    /\ Cardinality(AttemptsInWindow(t))
         <= (Retries + 1) * (TransientAttempts + 1) * (ResultNudges + 1)
    /\ BudgetedFailures(attempts[t], window[t], TransientAttempts)
         = [counted |-> Counted(t), streak |-> FreeSoFar(t)]

(* A completion or a finalization in the queue is about the attempt in      *)
(* flight, and each attempt in flight is past its worker exactly when one of *)
(* the two is on its way or being made: no report is ever dropped as stale,  *)
(* none comes twice, and none is missing (handleAttemptDone,                 *)
(* handleFinalized).                                                         *)
AboutAttempt(w) == w.kind \in {"attempt_done", "finalized"}

Reported(t, kind) == \E i \in DOMAIN wake : wake[i].kind = kind /\ wake[i].task = t

ReportsMatch ==
  /\ \A i, j \in DOMAIN wake :
       AboutAttempt(wake[i]) /\ AboutAttempt(wake[j]) /\ wake[i].task = wake[j].task => i = j
  /\ \A t \in Tasks : /\ Reported(t, "attempt_done") <=> inflight[t].phase = "ended"
                      /\ Reported(t, "finalized") <=> inflight[t].phase = "settled"
  /\ \A i \in DOMAIN wake :
       AboutAttempt(wake[i]) => wake[i].attempt = inflight[wake[i].task].attempt

(* No worker goes on under a definition an operator has replaced: an edit   *)
(* is refused while a turn runs, or it ends that turn (decideEdit).         *)
NoStaleWork ==
  \A t \in Tasks : Working(t) /\ inflight[t].kind = "task" /\ EditPending(t)
                     => inflight[t].aborted

(* What an observer reads from the run's state is true: it says paused, to  *)
(* somebody watching a live run, while the run is held or has begun to stop *)
(* from a hold.                                                             *)
PausedIsHeld ==
  pc # "done" => /\ hold => runState = "paused"
                 /\ runState = "paused" => hold \/ Stopping

(* A run is over only when nothing works, waits for the tree or waits for   *)
(* an answer; a run that says it completed or failed has no task left to do, *)
(* and one that completed has done them all.                                *)
EndedIsSettled ==
  pc = "done" =>
    /\ \A t \in Tasks : ~InFlight(t) /\ task[t] \notin ActiveStates
    /\ tree = <<>> /\ pendingMerges = <<>> /\ asking = {} /\ unsettled = {}
    /\ runState \in {"completed", "failed"} => \A t \in Tasks : task[t] \in TerminalStates
    /\ runState = "completed" => \A t \in Tasks : task[t] \in {"success", "skipped"}

-----------------------------------------------------------------------------
(* The inductive invariant *)

(* Nothing works before the loop runs. *)
StartsQuietly ==
  /\ pc \in {"start", "preflight"} =>
       wake = <<>> /\ pendingMerges = <<>> /\ \A t \in Tasks : ~InFlight(t)
  /\ pc = "start" => ~Stopping /\ runState = "created"

(* A task has one kind of work at a time. *)
WorkOnce ==
  /\ \A i, j \in DOMAIN pendingMerges : pendingMerges[i].task = pendingMerges[j].task => i = j
  /\ \A i \in DOMAIN pendingMerges : ~InFlight(pendingMerges[i].task)
  /\ pc \in {"outcome", "cancel", "restart"} =>
       /\ focus.task \in Tasks /\ ~InFlight(focus.task)
       /\ \A i \in DOMAIN pendingMerges : pendingMerges[i].task # focus.task

(* What an attempt in flight holds of the shared tree follows from its kind *)
(* and its phase.                                                           *)
EntriesClaim ==
  \A t \in Tasks : InFlight(t) =>
    IF inflight[t].kind = "merge"
    THEN /\ inflight[t].phase # "capturing"
         /\ inflight[t].holds <=> inflight[t].phase \in {"working", "ended"}
    ELSE /\ inflight[t].holds <=> TakesTree(t)
         /\ inflight[t].phase = "queued" => t \in Worktree

(* TypeOK, ActiveHasWork, TreeOwned and ReportsMatch hold each other up: a  *)
(* launch finds its task without work because it is ready, the head of the  *)
(* lock is released by the attempt that reports, and it reports once.       *)
WorkInvariant ==
  /\ TypeOK /\ ActiveHasWork /\ TreeOwned /\ ReportsMatch
  /\ StartsQuietly /\ WorkOnce /\ EntriesClaim

-----------------------------------------------------------------------------
(* Under conditions *)

(* Without an operator, a task starts only when every dependency has ended  *)
(* in a way that lets it (promoteReady), however many launch passes, stops  *)
(* and blocks lie between the promotion and the launch.                     *)
DependenciesMet ==
  [][\A t \in Tasks : task[t] = "ready" /\ task'[t] = "running" =>
       \A i \in DOMAIN DependsOn[t] :
         LET d == DependsOn[t][i] IN
         \/ task[d] \in {"success", "skipped"}
         \/ task[d] = "failed" /\ OnFailure[d] = "continue"
         \/ task[d] \in TerminalStates /\ t \in RunAnyway]_task

(* When the git work cannot throw and worktrees are removed once merged, a  *)
(* task with a worktree is reported successful only after its branch has    *)
(* reached the shared tree: what depends on it starts from its work.        *)
SuccessIsMerged ==
  \A t \in Worktree \ Completed : task[t] = "success" => t \in swept

(* A held run starts no attempt of a task; a merge session may still start. *)
HoldStartsNothing ==
  [][hold => \A t \in Tasks : task[t] = "ready" => task'[t] # "running"]_<<hold, task>>

-----------------------------------------------------------------------------
(* Liveness *)

(* A run ends, or comes to wait for a person and for nothing else - held,   *)
(* with a suspended task, or at a gate: every worker ends, every retry comes *)
(* due, every merge gets the tree, and no wake is lost.                     *)
RunEnds == <>[](pc = "done" \/ WaitsForPerson)

(* Every command gets its answer, whatever happens to the run meanwhile.    *)
CommandsAnswered == \A id \in 1 .. MaxControls : id \in unsettled ~> id \notin unsettled

(* A run that has been told to stop ends, or waits for an answer at a gate. *)
StopEnds == Stopping ~> pc = "done" \/ asking # {}

(* Whatever happens, no run goes on for ever without a person. *)
RunsEnd == RunEnds /\ StopEnds

-----------------------------------------------------------------------------
(* What the repository says *)

(* "A suspended task is going to walk back into this worktree when it is    *)
(* continued, so it is not torn down even under cleanup: always."           *)
SuspendedKeepsWorktree == \A t \in Worktree : task[t] = "suspended" => t \notin swept

(* "Tasks whose cancellation is the first half of an edit-and-restart ...   *)
(* the abort has gone out" (restartAfterCancel).                            *)
OwedIsAborted ==
  \A t \in Tasks : restartOwed[t] # "none" /\ Working(t) => inflight[t].aborted

(* "Stopped, holding a session" (decision D46): a task a run leaves          *)
(* suspended has a session to be continued from, unless it was edited.      *)
SuspendedHoldsSession ==
  \A t \in Tasks : pc = "done" /\ task[t] = "suspended" => session[t] # 0 \/ EditPending(t)

=============================================================================
