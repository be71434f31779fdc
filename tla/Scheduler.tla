----------------------------- MODULE Scheduler -----------------------------
(***************************************************************************)
(* The workflow scheduler of src/src/workflow/scheduler.ts: one loop that  *)
(* owns the state of every task of a run, and the concurrent work that     *)
(* reports to it through the wake queue.                                   *)
(*                                                                         *)
(* The loop is a program counter.  Between two awaits it runs alone, so a  *)
(* stretch of synchronous code is a chain of actions during which nothing  *)
(* else moves; at pc "merges", "launch" and "park" the code awaits, and    *)
(* there the workers, the git work that ends an attempt, the timers and    *)
(* the people act (EnvironmentTurn).                                       *)
(*                                                                         *)
(*   start -> preflight -> pass -> promote -> merges -> launch -> idle     *)
(*                          ^                   ^                 |  \     *)
(*                          |                   |               park  done *)
(*                          +-- restart <- cancel <- outcome <----+        *)
(***************************************************************************)
EXTENDS Integers, Sequences, FiniteSets, FiniteSetsExt, Retry

CONSTANTS
  Tasks,              \* the tasks of the workflow
  Topo,               \* their topological order, a sequence
  DependsOn,          \* per task, the sequence of its dependencies
  OnFailure,          \* per task: "stop", "skip_dependents" or "continue"
  RunAnyway,          \* the tasks with runIfDependencyFailed
  Gates,              \* the approval gates
  Conditional,        \* the tasks with a "when" expression
  Worktree,           \* the tasks that run in a worktree merged back on success
  UnsafeShared,       \* execution.allowUnsafeSharedParallel
  MaxConcurrency,
  Retries,            \* retry.attempts
  TransientAttempts,  \* retry.transientAttempts
  ResultNudges,       \* retry.resultNudges
  ResumeSession,      \* retry.resumeSession, for an agent whose sessions persist
  StopMode,           \* execution.stopMode: "wait" or "cancel"
  MergeStrategy,      \* worktree.mergeConflictStrategy: "agent" or "fail"
  Cleanup,            \* worktree.cleanup: "always", "onSuccess" or "never"
  ApprovalHandler,    \* whether somebody can be asked at a gate
  Interactive,        \* whether somebody can be asked by a worker
  Completed,          \* the tasks the workflow file marks as done
  Only, From,         \* --task and --from selections
  Misconfigured,      \* the tasks preflight finds a problem with
  StartupFails,       \* whether prepareRun or beforeWorkflow may fail
  WorkspaceFails,     \* whether the git work that ends an attempt may throw
  WorkerOutcomes,     \* what a worker that is not aborted may report
  Commands,           \* the control commands an operator may submit
  MaxControls,        \* bound: commands submitted in one run
  MaxAttempts         \* bound: past it a task's attempts only succeed and merge

(* TaskGraph.topologicalOrder, which throws on a cycle: every task once,      *)
(* after what it depends on.  A gate runs nothing, so it has no worktree.   *)
ASSUME GraphAssumption ==
  /\ Topo \in Seq(Tasks) /\ IsInjective(Topo)
  /\ \A t \in Tasks : \E i \in 1 .. Len(Topo) : Topo[i] = t
  /\ DependsOn \in [Tasks -> Seq(Tasks)]
  /\ \A i \in DOMAIN Topo : \A j \in DOMAIN DependsOn[Topo[i]] :
       \E k \in 1 .. (i - 1) : Topo[k] = DependsOn[Topo[i]][j]
  /\ OnFailure \in [Tasks -> {"stop", "skip_dependents", "continue"}]
  /\ Worktree \subseteq Tasks \ Gates

ASSUME OptionsAssumption ==
  /\ MaxConcurrency \in Nat \ {0}
  /\ Retries \in Nat /\ TransientAttempts \in Nat /\ ResultNudges \in Nat
  /\ StopMode \in {"wait", "cancel"}
  /\ {ResumeSession, UnsafeShared, ApprovalHandler, Interactive,
      StartupFails, WorkspaceFails} \subseteq BOOLEAN
  /\ WorkerOutcomes \subseteq Outcomes \ {"merge_conflict", "suspended"}
  /\ MaxControls \in Nat /\ MaxAttempts \in Nat

(* ControlCommand, about tasks of the workflow.  A kill is a stop that        *)
(* cancels; approve, reject and answer are not taken by the loop.          *)
ASSUME CommandsAssumption ==
  Commands \subseteq
    [kind : {"stop"}, mode : {"wait", "cancel"}]
    \cup [kind : {"pause", "resume"}]
    \cup [kind : {"restart", "cancelTask", "suspendTask", "resumeTask"}, task : Tasks]
    \cup [kind : {"prompt"}, task : Tasks, fresh : BOOLEAN]
    \cup [kind : {"edit"}, task : Tasks, restart : BOOLEAN, changes : BOOLEAN]

VARIABLES
  runState,       \* run.state
  task,           \* per task, its state
  attempts,       \* per task, every attempt it has had
  window,         \* per task, retryWindowStart
  session,        \* per task, the attempt whose session would be resumed, or 0
  delayed,        \* tasks whose retryNotBefore is in the future
  decided,        \* per task, the recorded approval
  followUps,      \* tasks with an operator's message no attempt has carried
  revisions,      \* per task, how many edits it has had
  swept,          \* tasks whose last worktree has been removed
  inflight,       \* per task, its in-flight entry
  pendingMerges,  \* merge sessions waiting for the shared tree, in order
  tree,           \* the shared tree's lock: its holder, then those waiting
  wake,           \* the wake queue
  timer,          \* whether retryTimer is armed
  seen,           \* whether this launch pass has passed over a delayed task
  asking,         \* pendingApprovals: gates somebody is being asked about
  stop, hold,     \* the two ways the loop is told not to schedule
  cancelReq, suspendReq, restartOwed,
  submitted,      \* how many commands have been submitted
  unsettled,      \* the commands whose sender still waits for an ack
  pc, cursor, focus

runVars     == <<runState, stop, hold>>
taskVars    == <<attempts, window, session, delayed, decided, followUps, revisions, swept>>
workVars    == <<inflight, pendingMerges, tree>>
queueVars   == <<timer, seen, asking>>
requestVars == <<cancelReq, suspendReq, restartOwed>>
senderVars  == <<submitted, unsettled>>
loopVars    == <<pc, cursor, focus>>

vars == <<runVars, task, taskVars, workVars, wake, queueVars, requestVars,
          senderVars, loopVars>>

-----------------------------------------------------------------------------
(* Records *)

NoStop  == [mode |-> "none", cause |-> "none"]
NoEntry == [attempt |-> 0, kind |-> "task", phase |-> "idle",
            aborted |-> FALSE, holds |-> FALSE]
NoFocus == [task |-> "none", attempt |-> 0, conflict |-> FALSE, back |-> "pass"]

(* An in-flight attempt: its worker runs ("working"), its report waits in   *)
(* the wake queue ("ended"), its workspace is captured ("capturing"), it    *)
(* waits for or uses the shared tree to merge back ("queued"), and its      *)
(* finalized wake is out ("settled").                                       *)
Entry(number, kind, holds) ==
  [attempt |-> number, kind |-> kind, phase |-> "working",
   aborted |-> FALSE, holds |-> holds]

AttemptDone(t, n, o) == [kind |-> "attempt_done", task |-> t, attempt |-> n, outcome |-> o]
Finalized(t, n, fin) == [kind |-> "finalized", task |-> t, attempt |-> n, fin |-> fin]
Approval(t, d)       == [kind |-> "approval", task |-> t, decision |-> d]
StopWake(m, c)       == [kind |-> "stop", mode |-> m, cause |-> c]
RetryDue             == [kind |-> "retry_due"]
Control(c, id)       == [kind |-> "control", command |-> c, id |-> id]

InFlight(t)   == inflight[t].phase # "idle"
Working(t)    == inflight[t].phase = "working"
Stopping      == stop # NoStop
Merging(t)    == \/ \E i \in DOMAIN pendingMerges : pendingMerges[i].task = t
                 \/ InFlight(t) /\ inflight[t].kind = "merge"
LastOf(as)    == as[Len(as)]
(* Mutant: attempts numbered from 0. *)
LastNumberFromZero(t) == IF attempts[t] = <<>> THEN -1 ELSE LastOf(attempts[t]).number

LastNumber(t) == IF attempts[t] = <<>> THEN 0 ELSE LastOf(attempts[t]).number

(* state.attempts.find(a => a.number === n), as a position. *)
Positions(t, n) == {i \in DOMAIN attempts[t] : attempts[t][i].number = n}
PositionOf(t, n) == Min(Positions(t, n))

(* Whether the attempt in flight has an outcome, that is, an endedAt. *)
HasEnded(t) == inflight[t].phase \in {"capturing", "queued", "settled"}

(* The attempt that a task's own session belongs to (lastTaskAttempt). *)
LastTaskPosition(t) ==
  LET own == {i \in DOMAIN attempts[t] : attempts[t][i].kind = "task"}
  IN IF own = {} THEN 0 ELSE Max(own)

(* editPendingOnTask: an edit no attempt has carried yet. *)
EditPending(t) ==
  revisions[t] # (IF LastTaskPosition(t) = 0 THEN 0
                  ELSE attempts[t][LastTaskPosition(t)].revision)

(* resumableSessionId: the session a follow-up would continue. *)
ResumableSession(t) ==
  LET i == LastTaskPosition(t)
  IN IF ~ResumeSession THEN 0
     ELSE IF session[t] # 0 THEN session[t]
     ELSE IF i # 0 /\ attempts[t][i].session THEN attempts[t][i].number
     ELSE 0

(* The transitive dependents of a task (TaskGraph.descendants): what every    *)
(* set that is closed under "depends on" holds.                              *)
Dependents(S) == {u \in Tasks : \E i \in DOMAIN DependsOn[u] : DependsOn[u][i] \in S}
Descendants(t) ==
  {u \in Tasks : \A S \in SUBSET Tasks : Dependents(S \cup {t}) \subseteq S => u \in S}

(* applySelection: what --task and --from name, or everything. *)
Selected ==
  IF Only \cup From = {} THEN Tasks
  ELSE Only \cup From \cup UNION {Descendants(t) : t \in From}

-----------------------------------------------------------------------------
(* A run that has just been created: the tasks its file marks as done are  *)
(* done, the others are pending.                                           *)

Init ==
  /\ runState = "created"
  /\ task = [t \in Tasks |-> IF t \in Completed THEN "success" ELSE "pending"]
  /\ attempts = [t \in Tasks |-> <<>>]
  /\ window = [t \in Tasks |-> 1]
  /\ session = [t \in Tasks |-> 0]
  /\ delayed = {} /\ followUps = {} /\ swept = {}
  /\ decided = [t \in Tasks |-> "none"]
  /\ revisions = [t \in Tasks |-> 0]
  /\ inflight = [t \in Tasks |-> NoEntry]
  /\ pendingMerges = <<>> /\ tree = <<>> /\ wake = <<>>
  /\ timer = FALSE /\ seen = FALSE /\ asking = {}
  /\ stop = NoStop /\ hold = FALSE
  /\ cancelReq = {} /\ suspendReq = {}
  /\ restartOwed = [t \in Tasks |-> "none"]
  /\ submitted = 0 /\ unsettled = {}
  /\ pc = "start" /\ cursor = 1 /\ focus = NoFocus

-----------------------------------------------------------------------------
(* Effects several handlers share *)

(* Mutant: a merge session is left alone. *)
AbortTaskAttempts(e) ==
  [u \in Tasks |-> IF e[u].phase # "idle" /\ e[u].kind = "task"
                   THEN [e[u] EXCEPT !.aborted = TRUE] ELSE e[u]]

AbortAll(e) ==
  [u \in Tasks |-> IF e[u].phase # "idle" THEN [e[u] EXCEPT !.aborted = TRUE] ELSE e[u]]

(* A task ends as s, a state its onFailure policy then answers             *)
(* (applyOnFailure): stop the run, block what depends on it, or nothing.   *)
EndBadly(t, s) ==
  LET stopping == OnFailure[t] = "stop"
      blocks   == IF OnFailure[t] = "skip_dependents" THEN Descendants(t) ELSE {}
  IN /\ task' = [u \in Tasks |->
                   IF u = t THEN s
                   ELSE IF u \in blocks /\ task[u] \in {"pending", "ready"}
                   THEN "blocked" ELSE task[u]]
     /\ stop' = IF stopping /\ ~Stopping
                THEN [mode |-> StopMode, cause |-> "on_failure"] ELSE stop
     /\ inflight' = IF stopping /\ stop'.mode = "cancel"
                    THEN AbortAll(inflight) ELSE inflight
     /\ UNCHANGED <<runState, hold>>

(* A new attempt of t is recorded and its entry goes in flight. *)
StartAttempt(t, a, entry) ==
  /\ attempts' = [attempts EXCEPT ![t] = Append(@, a)]
  /\ inflight' = [inflight EXCEPT ![t] = entry]

(* launchMergeAttempt: the session that resolves t's conflict in the tree. *)
StartMergeAttempt(t, previous) ==
  LET merge == [number |-> previous + 1, kind |-> "merge", trigger |-> "retry",
                outcome |-> "none", session |-> FALSE, resumed |-> 0,
                revision |-> 0]
  IN /\ StartAttempt(t, merge, Entry(previous + 1, "merge", TRUE))
     /\ tree' = <<t>>

(* applyRestart, for a task in a restartable state of a run that is not     *)
(* stopping; nothing otherwise.                                             *)
Restart(t, continues) ==
  IF Stopping \/ InFlight(t) \/ task[t] \notin RestartableStates
  THEN UNCHANGED <<task, window, session>>
  ELSE /\ task' = [task EXCEPT ![t] = "pending"]
       /\ window' = [window EXCEPT ![t] = LastNumber(t) + 1]
       /\ session' = IF task[t] = "suspended" /\ ~continues /\ t \notin followUps
                     THEN [session EXCEPT ![t] = 0] ELSE session

(* Every open permission prompt of the tasks in S is denied, which returns  *)
(* their workers to their turn (settleTaskInteractions).                    *)
Settled(S) ==
  [t \in Tasks |-> IF t \in S /\ task[t] = "waiting" THEN "running" ELSE task[t]]

(* The worker of t is told to stop, the prompt it may be blocked on first. *)
AbortWorker(t) ==
  /\ inflight' = [inflight EXCEPT ![t].aborted = TRUE]
  /\ task' = Settled({t})

(* applyStop *)
ApplyStop(mode, cause) ==
  /\ stop' = IF \/ ~Stopping
                \/ stop.mode = "wait" /\ mode = "cancel"
                \/ cause = "signal"
             THEN [mode |-> mode, cause |-> cause] ELSE stop
  /\ restartOwed' = [t \in Tasks |-> "none"]
  /\ inflight' = IF mode = "cancel" THEN AbortAll(inflight) ELSE inflight
  /\ hold' = FALSE
  /\ task' = Settled(Tasks)

-----------------------------------------------------------------------------
(* Startup: execute up to its loop *)

Goto(label) == pc' = label

(* applySelection: a selected task the file marks as done runs again, an   *)
(* unselected one is skipped.                                              *)
Prepared ==
  [t \in Tasks |->
     IF Only \cup From # {} /\ t \in Selected /\ t \in Completed THEN "pending"
     ELSE IF t \notin Selected /\ task[t] = "pending" THEN "skipped"
     ELSE task[t]]

(* prepareRun and the beforeWorkflow hook, then applySelection. *)
Prepare ==
  /\ pc = "start"
  /\ runState' = "running"
  /\ stop' \in IF StartupFails
               THEN {NoStop, [mode |-> "cancel", cause |-> "on_failure"]} ELSE {NoStop}
  /\ task' = Prepared
  /\ Goto("preflight")
  /\ UNCHANGED <<hold, taskVars, workVars, wake, queueVars, requestVars, senderVars,
                 cursor, focus>>

(* preflightRunners: a task its agent's CLI cannot run fails at once. *)
FailPreflight(t) ==
  /\ pc = "preflight"
  /\ t \in Misconfigured /\ task[t] \notin TerminalStates
  /\ EndBadly(t, "failed")
  /\ UNCHANGED <<taskVars, pendingMerges, tree, wake, queueVars, requestVars,
                 senderVars, loopVars>>

EnterLoop ==
  /\ pc = "preflight"
  /\ \A t \in Misconfigured : task[t] \in TerminalStates
  /\ Goto("pass")
  /\ UNCHANGED <<runVars, task, taskVars, workVars, wake, queueVars, requestVars,
                 senderVars, cursor, focus>>

-----------------------------------------------------------------------------
(* promoteReady *)

DepSatisfied(t, d) ==
  IF task[d] \notin TerminalStates THEN "wait"
  ELSE IF \/ task[d] \in {"success", "skipped"}
          \/ t \in RunAnyway
          \/ OnFailure[d] = "continue" /\ task[d] = "failed"
  THEN "ok" ELSE "blocked"

(* Mutant: only the first dependency is looked at. *)
VerdictOfFirst(t) ==
  IF DependsOn[t] = <<>> THEN "ok" ELSE DepSatisfied(t, DependsOn[t][1])

(* The first dependency that is not satisfied decides. *)
Verdict(t) ==
  LET hindrances == {j \in DOMAIN DependsOn[t] : DepSatisfied(t, DependsOn[t][j]) # "ok"}
  IN IF hindrances = {} THEN "ok" ELSE DepSatisfied(t, DependsOn[t][Min(hindrances)])

(* Mutant: a blocked task is looked at again. *)
PromotableAgain(i) ==
  /\ task[Topo[i]] \in {"pending", "blocked"}
  /\ Verdict(Topo[i]) = "ok" /\ ~Stopping

(* What the pass still has to look at: a pending task that is blocked or,  *)
(* unless a stop has been set during this very pass, one that is free.     *)
Promotable(i) ==
  /\ task[Topo[i]] = "pending"
  /\ \/ Verdict(Topo[i]) = "blocked"
     \/ Verdict(Topo[i]) = "ok" /\ ~Stopping

(* The pass reaches position i, and moves past it. *)
Promoting(i) ==
  /\ pc = "promote"
  /\ i \in cursor .. Len(Topo) /\ Promotable(i)
  /\ \A j \in cursor .. (i - 1) : ~Promotable(j)
  /\ cursor' = i + 1
  /\ UNCHANGED <<taskVars, pendingMerges, tree, timer, seen, requestVars, senderVars,
                 pc, focus>>

StartPass ==
  /\ pc = "pass"
  /\ IF Stopping \/ hold THEN Goto("merges") /\ UNCHANGED cursor
     ELSE Goto("promote") /\ cursor' = 1
  /\ UNCHANGED <<runVars, task, taskVars, workVars, wake, queueVars, requestVars,
                 senderVars, focus>>

BlockOnDependency ==
  \E i \in DOMAIN Topo :
    /\ Promoting(i) /\ Verdict(Topo[i]) = "blocked"
    /\ task' = [task EXCEPT ![Topo[i]] = "blocked"]
    /\ UNCHANGED <<runVars, inflight, wake, asking>>

SkipOnCondition ==
  \E i \in DOMAIN Topo :
    /\ Promoting(i) /\ Verdict(Topo[i]) = "ok" /\ Topo[i] \in Conditional
    /\ task' = [task EXCEPT ![Topo[i]] = "skipped"]
    /\ UNCHANGED <<runVars, inflight, wake, asking>>

FailOnCondition ==
  \E i \in DOMAIN Topo :
    /\ Promoting(i) /\ Verdict(Topo[i]) = "ok" /\ Topo[i] \in Conditional
    /\ EndBadly(Topo[i], "failed")
    /\ UNCHANGED <<wake, asking>>

(* A gate opens: answered from the decision on record, put to somebody, or *)
(* the run is told to pause for want of anybody to ask.                    *)
OpenGate ==
  \E i \in DOMAIN Topo :
    LET t == Topo[i] IN
    /\ Promoting(i) /\ Verdict(t) = "ok" /\ t \in Gates
    /\ task' = [task EXCEPT ![t] = "awaiting_approval"]
    /\ IF decided[t] # "none"
       THEN wake' = Append(wake, Approval(t, decided[t])) /\ UNCHANGED <<stop, asking>>
       ELSE IF ApprovalHandler
       THEN asking' = asking \cup {t} /\ UNCHANGED <<stop, wake>>
       ELSE stop' = [mode |-> "wait", cause |-> "pause"] /\ UNCHANGED <<asking, wake>>
    /\ UNCHANGED <<runState, hold, inflight>>

MakeReady ==
  \E i \in DOMAIN Topo :
    /\ Promoting(i) /\ Verdict(Topo[i]) = "ok" /\ Topo[i] \notin Gates
    /\ task' = [task EXCEPT ![Topo[i]] = "ready"]
    /\ UNCHANGED <<runVars, inflight, wake, asking>>

EndPass ==
  /\ pc = "promote"
  /\ \A i \in cursor .. Len(Topo) : ~Promotable(i)
  /\ Goto("merges")
  /\ UNCHANGED <<runVars, task, taskVars, workVars, wake, queueVars, requestVars,
                 senderVars, cursor, focus>>

-----------------------------------------------------------------------------
(* launchPendingMerges *)

LaunchPendingMerge ==
  /\ pc = "merges" /\ pendingMerges # <<>>
  /\ ~Stopping /\ tree = <<>>
  /\ StartMergeAttempt(Head(pendingMerges).task, Head(pendingMerges).attempt)
  /\ pendingMerges' = Tail(pendingMerges)
  /\ UNCHANGED <<runVars, task, window, session, delayed, decided, followUps,
                 revisions, swept, wake, queueVars, requestVars, senderVars, loopVars>>

(* abandonMerge: the conflict becomes the attempt's outcome. *)
Conflicted(t, n) == [attempts EXCEPT ![t][PositionOf(t, n)].outcome = "merge_conflict"]

AbandonPendingMerge ==
  /\ pc = "merges" /\ pendingMerges # <<>>
  /\ Stopping
  /\ LET m == Head(pendingMerges) IN
       /\ attempts' = Conflicted(m.task, m.attempt)
       /\ focus' = [task |-> m.task, attempt |-> m.attempt, conflict |-> TRUE,
                    back |-> "merges"]
  /\ pendingMerges' = Tail(pendingMerges)
  /\ Goto("outcome")
  /\ UNCHANGED <<runVars, task, window, session, delayed, decided, followUps,
                 revisions, swept, inflight, tree, wake, queueVars, requestVars,
                 senderVars, cursor>>

EndMerges ==
  /\ pc = "merges"
  /\ pendingMerges = <<>> \/ (~Stopping /\ tree # <<>>)
  /\ Goto("launch") /\ cursor' = 1 /\ seen' = FALSE
  /\ UNCHANGED <<runVars, task, taskVars, workVars, wake, timer, asking, requestVars,
                 senderVars, focus>>

-----------------------------------------------------------------------------
(* launchReady and launch *)

(* Whether an attempt of t takes the shared tree for itself. *)
TakesTree(t) == t \notin Worktree /\ ~UnsafeShared

(* Mutant: one attempt too many is let in. *)
AtCapacityOffByOne == Cardinality({t \in Tasks : InFlight(t)}) > MaxConcurrency

AtCapacity == Cardinality({t \in Tasks : InFlight(t)}) >= MaxConcurrency

(* Mutant: a hold does not close the launch. *)
LaunchClosedByStop == Stopping \/ AtCapacity

(* Mutant: a stop lets the pass go on. *)
LaunchClosedByHold == hold \/ AtCapacity

LaunchClosed == Stopping \/ hold \/ AtCapacity

Launchable(i) ==
  /\ task[Topo[i]] = "ready" /\ Topo[i] \notin delayed
  /\ TakesTree(Topo[i]) => tree = <<>>

DelayedAt(i) == task[Topo[i]] = "ready" /\ Topo[i] \in delayed

(* The session the next attempt of t continues, or 0: after a transient    *)
(* error, a missing result or a suspend, or to carry a message - unless an *)
(* edit has replaced what that session was about.                          *)
ResumedSession(t) ==
  LET last == LastOf(attempts[t])
      continues == \/ t \in followUps
                   \/ attempts[t] # <<>>
                      /\ last.outcome \in {"api_error", "invalid_result", "suspended"}
  IN IF continues /\ ~EditPending(t) /\ ResumeSession THEN session[t] ELSE 0

NextAttempt(t) ==
  LET resumed == ResumedSession(t)
      nudge == resumed # 0 /\ LastOf(attempts[t]).outcome = "invalid_result"
  IN [number   |-> LastNumber(t) + 1,
      kind     |-> "task",
      trigger  |-> IF t \in followUps THEN "user_input"
                   ELSE IF attempts[t] = <<>> THEN "initial"
                   ELSE IF nudge THEN "nudge" ELSE "retry",
      outcome  |-> "none",
      session  |-> FALSE,
      resumed  |-> resumed,
      revision |-> revisions[t]]

Launch ==
  \E i \in cursor .. Len(Topo) :
    LET t == Topo[i] IN
    /\ pc = "launch" /\ ~LaunchClosed
    /\ Launchable(i) /\ \A j \in cursor .. (i - 1) : ~Launchable(j)
    /\ StartAttempt(t, NextAttempt(t), Entry(NextAttempt(t).number, "task", TakesTree(t)))
    /\ tree' = IF TakesTree(t) THEN <<t>> ELSE tree
    /\ task' = [task EXCEPT ![t] = "running"]
    /\ session' = [session EXCEPT ![t] = 0]
    /\ followUps' = followUps \ {t}
    /\ delayed' = delayed \ {t}
    /\ swept' = swept \ {t}
    /\ cursor' = i + 1
    /\ seen' = (seen \/ \E j \in cursor .. (i - 1) : DelayedAt(j))
    /\ UNCHANGED <<runVars, window, decided, revisions, pendingMerges, wake, timer,
                   asking, requestVars, senderVars, pc, focus>>

(* The pass ends at capacity or at the end of the order, and arms the      *)
(* retry timer if it has passed over a retry that is not due.              *)
EndLaunch ==
  /\ pc = "launch"
  /\ LaunchClosed \/ \A i \in cursor .. Len(Topo) : ~Launchable(i)
  /\ timer' = \/ timer \/ seen
              \/ ~LaunchClosed /\ \E i \in cursor .. Len(Topo) : DelayedAt(i)
  /\ seen' = FALSE
  /\ Goto("idle")
  /\ UNCHANGED <<runVars, task, taskVars, workVars, wake, asking, requestVars,
                 senderVars, cursor, focus>>

-----------------------------------------------------------------------------
(* Whether the loop parks or ends *)

HasReady == ~Stopping /\ \E t \in Tasks : task[t] = "ready"

Idle ==
  /\ \A t \in Tasks : ~InFlight(t)
  /\ asking = {} /\ pendingMerges = <<>> /\ wake = <<>>
  /\ ~HasReady

(* Mutant: a suspended task keeps a stopping run open. *)
HeldOpenAnyway ==
  /\ hold \/ \E t \in Tasks : task[t] = "suspended"
  /\ \E t \in Tasks : task[t] \notin TerminalStates

HeldOpen ==
  /\ ~Stopping
  /\ hold \/ \E t \in Tasks : task[t] = "suspended"
  /\ \E t \in Tasks : task[t] \notin TerminalStates

Park ==
  /\ pc = "idle" /\ (~Idle \/ HeldOpen)
  /\ Goto("park")
  /\ UNCHANGED <<runVars, task, taskVars, workVars, wake, queueVars, requestVars,
                 senderVars, cursor, focus>>

(* Mutant: a stop for a failure leaves what has not started. *)
CancelsRestOnSignal == Stopping /\ stop.cause = "signal"

CancelsRest == Stopping /\ stop.cause # "pause"

(* finalize: what is left is cancelled if the run stopped for a failure or *)
(* a signal, the queue is drained and its senders answered, and the run is *)
(* given the verdict its tasks earn.                                       *)
Finalize ==
  /\ pc = "idle" /\ Idle /\ ~HeldOpen
  /\ LET final == [t \in Tasks |-> IF CancelsRest /\ task[t] \in {"pending", "ready"}
                                   THEN "cancelled" ELSE task[t]]
         some(S) == \E t \in Tasks : final[t] \in S
     IN /\ task' = final
        /\ runState' =
             IF stop.cause = "signal" THEN "interrupted"
             ELSE IF \/ stop.cause = "pause"
                     \/ some({"awaiting_approval", "needs_input", "suspended"})
             THEN "paused"
             ELSE IF some({"failed", "blocked", "cancelled"}) THEN "failed"
             ELSE "completed"
  /\ wake' = <<>> /\ timer' = FALSE
  /\ unsettled' = unsettled \ {wake[i].id : i \in {j \in DOMAIN wake : wake[j].kind = "control"}}
  /\ Goto("done")
  /\ UNCHANGED <<stop, hold, taskVars, workVars, seen, asking, requestVars, submitted,
                 cursor, focus>>

-----------------------------------------------------------------------------
(* Handling the head of the wake queue *)

Handled == IF pc = "park" /\ wake # <<>> THEN {Head(wake)} ELSE {}

Took == wake' = Tail(wake)

(* A completion or a finalization is about the attempt in flight; one that  *)
(* is not is dropped.                                                      *)
Current(w) == InFlight(w.task) /\ inflight[w.task].attempt = w.attempt

(* handleAttemptDone: the outcome is recorded - a worker that says it was  *)
(* cancelled when nobody cancelled it has crashed - and the workspace work *)
(* starts.  A merge session gives the tree back and queues for it again.   *)
HandleAttemptDone ==
  \E w \in Handled :
    LET t == w.task
        e == inflight[t]
        crashed == w.outcome = "cancelled" /\ stop.cause # "signal" /\ ~e.aborted
    IN
    /\ Took /\ w.kind = "attempt_done"
    /\ IF ~Current(w) THEN UNCHANGED <<attempts, inflight, tree>>
       ELSE /\ attempts' = [attempts EXCEPT ![t][PositionOf(t, w.attempt)].outcome =
                              IF crashed THEN "crash" ELSE w.outcome]
            /\ IF e.kind = "merge"
               THEN /\ inflight' = [inflight EXCEPT ![t].phase = "queued", ![t].holds = FALSE]
                    /\ tree' = Append(Tail(tree), t)
               ELSE /\ inflight' = [inflight EXCEPT ![t].phase = "capturing"]
                    /\ UNCHANGED tree
    /\ Goto("pass")
    /\ UNCHANGED <<runVars, task, window, session, delayed, decided, followUps,
                   revisions, swept, pendingMerges, queueVars, requestVars,
                   senderVars, cursor, focus>>

(* handleFinalized, once the entry is released: a task whose branch         *)
(* conflicts gets a merge session now, or when the tree is free; any other  *)
(* conflict is the outcome; and the outcome is then applied.                *)
HandleFinalized ==
  \E w \in Handled :
    LET t == w.task
        freed == IF inflight[t].holds THEN Tail(tree) ELSE tree
        conflict == w.fin = "conflict"
        resolves == conflict /\ MergeStrategy # "fail" /\ inflight[t].kind = "task" /\ ~Stopping
    IN
    /\ Took /\ w.kind = "finalized"
    /\ IF ~Current(w)
       THEN Goto("pass") /\ UNCHANGED <<attempts, inflight, tree, pendingMerges, focus>>
       ELSE IF resolves /\ freed = <<>>
       THEN StartMergeAttempt(t, w.attempt) /\ Goto("pass") /\ UNCHANGED <<pendingMerges, focus>>
       ELSE /\ inflight' = [inflight EXCEPT ![t] = NoEntry]
            /\ tree' = freed
            /\ IF resolves
               THEN /\ pendingMerges' = Append(pendingMerges, [task |-> t, attempt |-> w.attempt])
                    /\ Goto("pass") /\ UNCHANGED <<attempts, focus>>
               ELSE /\ attempts' = IF conflict THEN Conflicted(t, w.attempt) ELSE attempts
                    /\ focus' = [task |-> t, attempt |-> w.attempt,
                                 conflict |-> conflict, back |-> "pass"]
                    /\ Goto("outcome") /\ UNCHANGED pendingMerges
    /\ UNCHANGED <<runVars, task, window, session, delayed, decided, followUps,
                   revisions, swept, queueVars, requestVars, senderVars, cursor>>

(* handleApproval: an answer for a gate that is not waiting is ignored. *)
HandleApproval ==
  \E w \in Handled :
    /\ Took /\ w.kind = "approval"
    /\ IF task[w.task] # "awaiting_approval"
       THEN UNCHANGED <<decided, runVars, task, inflight>>
       ELSE /\ decided' = [decided EXCEPT ![w.task] = w.decision]
            /\ IF w.decision = "approved"
               THEN /\ task' = [task EXCEPT ![w.task] = "success"]
                    /\ UNCHANGED <<runVars, inflight>>
               ELSE EndBadly(w.task, "failed")
    /\ Goto("pass")
    /\ UNCHANGED <<attempts, window, session, delayed, followUps, revisions, swept,
                   pendingMerges, tree, queueVars, requestVars, senderVars, cursor,
                   focus>>

HandleRetryDue ==
  \E w \in Handled :
    /\ Took /\ w.kind = "retry_due"
    /\ Goto("pass")
    /\ UNCHANGED <<runVars, task, taskVars, workVars, queueVars, requestVars,
                   senderVars, cursor, focus>>

HandleStop ==
  \E w \in Handled :
    /\ Took /\ w.kind = "stop"
    /\ ApplyStop(w.mode, w.cause)
    /\ Goto("pass")
    /\ UNCHANGED <<runState, taskVars, pendingMerges, tree, queueVars, cancelReq,
                   suspendReq, senderVars, cursor, focus>>

-----------------------------------------------------------------------------
(* applyOutcome: one action per way an attempt leaves its task *)

Focused == focus.task
FocusAttempt == attempts[Focused][PositionOf(Focused, focus.attempt)]
OwnSession == IF ResumeSession /\ FocusAttempt.session THEN focus.attempt ELSE 0
Budget == BudgetedFailures(attempts[Focused], window[Focused], TransientAttempts)

Applying(outcomes) ==
  /\ pc = "outcome" /\ FocusAttempt.outcome \in outcomes
  /\ Goto("cancel")
  /\ UNCHANGED <<window, decided, followUps, revisions, swept, pendingMerges, tree, wake,
                 queueVars, restartOwed, senderVars, cursor, focus>>

(* Mutant: an outcome is not applied any more once the run stops. *)
BecameUnlessStopping(s) ==
  task' = IF Stopping THEN task ELSE [task EXCEPT ![Focused] = s]

Became(s) == task' = [task EXCEPT ![Focused] = s]

Succeed ==
  /\ Applying({"success"}) /\ ~focus.conflict
  /\ Became("success")
  /\ UNCHANGED <<runVars, attempts, session, delayed, inflight, cancelReq, suspendReq>>

SkipByAgent ==
  /\ Applying({"skipped"})
  /\ Became("skipped")
  /\ UNCHANGED <<runVars, attempts, session, delayed, inflight, cancelReq, suspendReq>>

(* A worker with a question keeps its session and pauses the run. *)
AskInput ==
  /\ Applying({"needs_input"})
  /\ Became("needs_input")
  /\ session' = [session EXCEPT ![Focused] = OwnSession]
  /\ stop' = IF Stopping THEN stop ELSE [mode |-> "wait", cause |-> "pause"]
  /\ UNCHANGED <<runState, hold, attempts, delayed, inflight, cancelReq, suspendReq>>

BlockByAgent ==
  /\ Applying({"blocked"})
  /\ EndBadly(Focused, "blocked")
  /\ UNCHANGED <<attempts, session, delayed, cancelReq, suspendReq>>

(* An aborted attempt was suspended, if a suspend was asked for, ... *)
EndSuspended ==
  /\ Applying({"cancelled"}) /\ Focused \in suspendReq
  /\ suspendReq' = suspendReq \ {Focused}
  /\ attempts' = [attempts EXCEPT ![Focused][PositionOf(Focused, focus.attempt)].outcome =
                    "suspended"]
  /\ session' = [session EXCEPT ![Focused] =
                   IF FocusAttempt.session THEN focus.attempt ELSE @]
  /\ delayed' = delayed \ {Focused}
  /\ Became("suspended")
  /\ UNCHANGED <<runVars, inflight, cancelReq>>

(* ... and cancelled otherwise. *)
EndCancelled ==
  /\ Applying({"cancelled"}) /\ Focused \notin suspendReq
  /\ cancelReq' = cancelReq \ {Focused}
  /\ Became("cancelled")
  /\ UNCHANGED <<runVars, attempts, session, delayed, inflight, suspendReq>>

(* The failures, and the success that could not be merged. *)
Failing ==
  /\ Applying({"success", "failed", "timeout", "crash", "fatal", "api_error",
               "config_error", "invalid_result", "merge_conflict"})
  /\ FocusAttempt.outcome = "success" => focus.conflict

Recovers ==
  /\ FocusAttempt.outcome = "api_error" /\ FocusAttempt.kind = "task"
  /\ Budget.streak > 0 /\ ~focus.conflict /\ ~Stopping

Nudges ==
  /\ FocusAttempt.outcome = "invalid_result" /\ FocusAttempt.kind = "task"
  /\ ~focus.conflict /\ ~Stopping
  /\ NudgesUsed(attempts[Focused]) < ResultNudges
  /\ OwnSession # 0

(* Mutant: one failure too few is counted. *)
RetriesLeftOffByOne == Retries - (Budget.counted - 2)

RetriesLeft == Retries - (Budget.counted - 1)

Retriable ==
  /\ ~focus.conflict /\ ~Stopping
  /\ FocusAttempt.outcome \notin {"config_error", "fatal"}
  /\ RetriesLeft > 0

(* A transient API error: wait, then continue the same session for free. *)
RecoverTransient ==
  /\ Failing /\ Recovers
  /\ session' = [session EXCEPT ![Focused] = OwnSession]
  /\ delayed' = delayed \cup {Focused}
  /\ Became("ready")
  /\ UNCHANGED <<runVars, attempts, inflight, cancelReq, suspendReq>>

(* A session that forgot the completion object is asked for it at once. *)
NudgeSession ==
  /\ Failing /\ ~Recovers /\ Nudges
  /\ session' = [session EXCEPT ![Focused] = OwnSession]
  /\ delayed' = delayed \ {Focused}
  /\ Became("ready")
  /\ UNCHANGED <<runVars, attempts, inflight, cancelReq, suspendReq>>

(* The session is forgotten, unless a message has already chosen it. *)
ForgetSession ==
  session' = IF Focused \in followUps THEN session ELSE [session EXCEPT ![Focused] = 0]

RetryAttempt ==
  /\ Failing /\ ~Recovers /\ ~Nudges /\ Retriable
  /\ ForgetSession
  /\ delayed' = delayed \cup {Focused}
  /\ Became("ready")
  /\ UNCHANGED <<runVars, attempts, inflight, cancelReq, suspendReq>>

FailTask ==
  /\ Failing /\ ~Recovers /\ ~Nudges /\ ~Retriable
  /\ ForgetSession
  /\ EndBadly(Focused, "failed")
  /\ UNCHANGED <<attempts, delayed, cancelReq, suspendReq>>

(* Mutant: only a task about to be retried is cancelled. *)
CancelsRetry == Focused \in cancelReq /\ task[Focused] = "ready"

(* applyPendingCancel: a cancel that came too late to abort anything stops  *)
(* what would have happened next.                                           *)
CancelsLate == Focused \in cancelReq /\ task[Focused] \notin TerminalStates

SettleCancel ==
  /\ pc = "cancel"
  /\ cancelReq' = cancelReq \ {Focused}
  /\ IF CancelsLate
     THEN Became("cancelled") /\ delayed' = delayed \ {Focused} /\ ForgetSession
     ELSE UNCHANGED <<task, delayed, session>>
  /\ Goto("restart")
  /\ UNCHANGED <<runVars, attempts, window, decided, followUps, revisions, swept, workVars,
                 wake, queueVars, suspendReq, restartOwed, senderVars, cursor, focus>>

(* The second half of an edit-and-restart or a stop-and-continue. *)
SettleRestart ==
  /\ pc = "restart"
  /\ restartOwed' = [restartOwed EXCEPT ![Focused] = "none"]
  /\ IF restartOwed[Focused] # "none" /\ task[Focused] = "cancelled"
     THEN Restart(Focused, FALSE)
     ELSE UNCHANGED <<task, window, session>>
  /\ Goto(focus.back) /\ focus' = NoFocus
  /\ UNCHANGED <<runVars, attempts, delayed, decided, followUps, revisions, swept, workVars,
                 wake, queueVars, cancelReq, suspendReq, senderVars, cursor>>

-----------------------------------------------------------------------------
(* Control commands: decideControl, then what the decision applies.  A     *)
(* command is answered whatever is decided; Can... is what makes the       *)
(* answer other than a rejection.                                          *)

CanHold == ~Stopping /\ ~hold

CanRelease == hold

(* The attempt in front of us is the task's own and has not ended. *)
HasTurn(t) == InFlight(t) /\ ~HasEnded(t)

CanSuspend(t) ==
  /\ HasTurn(t) /\ inflight[t].kind = "task"
  /\ LastOf(attempts[t]).session \/ session[t] # 0
  /\ ResumeSession

CanResumeTask(t) == task[t] = "suspended"

CanRestart(t) ==
  /\ ~Stopping /\ t \notin cancelReq
  /\ ~InFlight(t) /\ task[t] \in RestartableStates

CanCancel(t) == Merging(t) \/ InFlight(t)

(* The follow-up row of the prompt matrix, and the stop-and-continue row. *)
CanFollowUp(t) ==
  /\ task[t] \in FollowUpStates
  /\ ~Stopping /\ ~Merging(t) /\ ~InFlight(t)

CanStopAndContinue(t) ==
  /\ task[t] = "running"
  /\ ~Stopping /\ ~Merging(t) /\ HasTurn(t)

(* A descendant has already worked on this task as it is. *)
DependentCommitted(t) ==
  \E u \in Descendants(t) :
    \/ task[u] \in ActiveStates \cup {"success"}
    \/ task[u] = "skipped" /\ LastTaskPosition(u) # 0

(* Mutant: a running task is edited without being restarted. *)
CanEditRunning(t, restart) ==
  /\ t \notin Gates
  /\ task[t] \in EditableStates \cup ActiveStates
  /\ ~Merging(t) /\ ~(InFlight(t) /\ HasEnded(t))
  /\ ~DependentCommitted(t)

CanEdit(t, restart) ==
  /\ t \notin Gates
  /\ task[t] \in EditableStates \/ (task[t] \in ActiveStates /\ restart)
  /\ ~Merging(t) /\ ~(InFlight(t) /\ HasEnded(t))
  /\ ~DependentCommitted(t)

(* restartPlanFor: what an edit's restart does in this state. *)
RestartPlan(t) ==
  IF task[t] \in ActiveStates THEN "cancelAndRestart"
  ELSE IF task[t] \in {"pending", "ready"} THEN "notStarted"
  ELSE IF task[t] \in {"needs_input", "suspended"} THEN "paused"
  ELSE "restart"

Accepts(c) ==
  CASE c.kind = "stop"        -> TRUE
    [] c.kind = "pause"       -> CanHold
    [] c.kind = "resume"      -> CanRelease
    [] c.kind = "restart"     -> CanRestart(c.task)
    [] c.kind = "cancelTask"  -> CanCancel(c.task)
    [] c.kind = "suspendTask" -> CanSuspend(c.task)
    [] c.kind = "resumeTask"  -> CanResumeTask(c.task)
    [] c.kind = "prompt"      -> CanFollowUp(c.task) \/ CanStopAndContinue(c.task)
    [] c.kind = "edit"        -> CanEdit(c.task, c.restart)

(* Mutant: a rejected command is not answered. *)
CommandedSilently(w, kind) ==
  /\ w.kind = "control" /\ w.command.kind = kind
  /\ unsettled' = IF Accepts(w.command) THEN unsettled \ {w.id} ELSE unsettled
  /\ Goto("pass")
  /\ UNCHANGED <<submitted, cursor, focus, timer, seen, asking, decided, attempts, swept,
                 delayed, pendingMerges, tree>>

(* handleControl: the head of the queue is a command of this kind, and its *)
(* sender gets its ack.                                                    *)
Commanded(w, kind) ==
  /\ w.kind = "control" /\ w.command.kind = kind
  /\ unsettled' = unsettled \ {w.id}
  /\ Goto("pass")
  /\ UNCHANGED <<submitted, cursor, focus, timer, seen, asking, decided, attempts, swept,
                 delayed, pendingMerges, tree>>

(* Turned down.  A command about a task may always be: its sender may have  *)
(* seen the task before its last attempt or edit (staleness), and a prompt  *)
(* may name another mode, or a session that is gone from the disk.  A       *)
(* prompt steered into a running turn changes nothing of the run either.    *)
RejectCommand ==
  \E w \in Handled :
    /\ w.kind = "control" /\ Commanded(w, w.command.kind)
    /\ ~Accepts(w.command) \/ w.command.kind \notin {"stop", "pause", "resume"}
    /\ Took
    /\ UNCHANGED <<runVars, task, window, session, followUps, revisions, inflight,
                   requestVars>>

StopRun ==
  \E w \in Handled :
    /\ Commanded(w, "stop") /\ Took
    /\ ApplyStop(w.command.mode, "signal")
    /\ UNCHANGED <<runState, window, session, followUps, revisions, cancelReq, suspendReq>>

HoldRun ==
  \E w \in Handled :
    /\ Commanded(w, "pause") /\ CanHold /\ Took
    /\ hold' = TRUE /\ runState' = "paused"
    /\ UNCHANGED <<stop, task, window, session, followUps, revisions, inflight, requestVars>>

(* Mutant: the run goes on, but still says it is paused. *)
ReleaseQuietly ==
  \E w \in Handled :
    /\ Commanded(w, "resume") /\ CanRelease
    /\ hold' = FALSE
    /\ wake' = Append(Tail(wake), RetryDue)
    /\ UNCHANGED <<runState, stop, task, window, session, followUps, revisions, inflight,
                   requestVars>>

ReleaseRun ==
  \E w \in Handled :
    /\ Commanded(w, "resume") /\ CanRelease
    /\ hold' = FALSE /\ runState' = "running"
    /\ wake' = Append(Tail(wake), RetryDue)
    /\ UNCHANGED <<stop, task, window, session, followUps, revisions, inflight, requestVars>>

RestartTask ==
  \E w \in Handled :
    /\ Commanded(w, "restart") /\ CanRestart(w.command.task) /\ Took
    /\ Restart(w.command.task, FALSE)
    /\ UNCHANGED <<runVars, followUps, revisions, inflight, requestVars>>

(* With a turn to stop the worker is aborted; past it, the cancel waits for *)
(* the merge to finish.                                                     *)
CancelTask ==
  \E w \in Handled :
    LET t == w.command.task IN
    /\ Commanded(w, "cancelTask") /\ CanCancel(t) /\ Took
    /\ cancelReq' = cancelReq \cup {t}
    /\ IF HasTurn(t) THEN AbortWorker(t) ELSE UNCHANGED <<inflight, task>>
    /\ UNCHANGED <<runVars, window, session, followUps, revisions, suspendReq, restartOwed>>

SuspendTask ==
  \E w \in Handled :
    LET t == w.command.task IN
    /\ Commanded(w, "suspendTask") /\ CanSuspend(t) /\ Took
    /\ suspendReq' = suspendReq \cup {t}
    /\ AbortWorker(t)
    /\ UNCHANGED <<runVars, window, session, followUps, revisions, cancelReq, restartOwed>>

ResumeTask ==
  \E w \in Handled :
    /\ Commanded(w, "resumeTask") /\ CanResumeTask(w.command.task) /\ Took
    /\ Restart(w.command.task, TRUE)
    /\ UNCHANGED <<runVars, followUps, revisions, inflight, requestVars>>

(* queueFollowUp, then startFollowUp or cancelForFollowUp. *)
QueueFollowUp(t, fresh) ==
  /\ followUps' = followUps \cup {t}
  /\ session' = [session EXCEPT ![t] = IF fresh THEN 0 ELSE ResumableSession(t)]

FollowUp ==
  \E w \in Handled :
    LET t == w.command.task IN
    /\ w.kind = "control" /\ w.command.kind = "prompt"
    /\ CanFollowUp(t) /\ Took
    /\ QueueFollowUp(t, w.command.fresh)
    /\ task' = [task EXCEPT ![t] = "pending"]
    /\ window' = [window EXCEPT ![t] = LastNumber(t) + 1]
    /\ delayed' = delayed \ {t}
    /\ unsettled' = unsettled \ {w.id}
    /\ Goto("pass")
    /\ UNCHANGED <<runVars, attempts, decided, revisions, swept, workVars, queueVars,
                   requestVars, submitted, cursor, focus>>

StopAndContinue ==
  \E w \in Handled :
    LET t == w.command.task IN
    /\ Commanded(w, "prompt") /\ CanStopAndContinue(t) /\ Took
    /\ QueueFollowUp(t, w.command.fresh)
    /\ cancelReq' = cancelReq \cup {t}
    /\ restartOwed' = [restartOwed EXCEPT ![t] = "message"]
    /\ AbortWorker(t)
    /\ UNCHANGED <<runVars, window, revisions, suspendReq>>

(* An edit that names the values the task already has records nothing; its *)
(* restart still happens (restartAfterEdit).                               *)
EditNothing ==
  \E w \in Handled :
    LET t == w.command.task IN
    /\ Commanded(w, "edit") /\ CanEdit(t, w.command.restart) /\ ~w.command.changes /\ Took
    /\ IF w.command.restart /\ RestartPlan(t) = "cancelAndRestart"
       THEN /\ restartOwed' = [restartOwed EXCEPT ![t] = "edit"]
            /\ UNCHANGED <<task, window, session>>
       ELSE /\ IF w.command.restart /\ RestartPlan(t) = "restart"
               THEN Restart(t, FALSE) ELSE UNCHANGED <<task, window, session>>
            /\ UNCHANGED restartOwed
    /\ UNCHANGED <<runVars, followUps, revisions, inflight, cancelReq, suspendReq>>

(* An edit that changes something: stop the worker (cancelForEdit), record *)
(* the revision and drop the session, restart.                             *)
EditTask ==
  \E w \in Handled :
    LET t == w.command.task
        stops == w.command.restart /\ RestartPlan(t) = "cancelAndRestart"
        restarts == w.command.restart /\ RestartPlan(t) = "restart" /\ ~Stopping
    IN
    /\ Commanded(w, "edit") /\ CanEdit(t, w.command.restart) /\ w.command.changes /\ Took
    /\ revisions' = [revisions EXCEPT ![t] = @ + 1]
    /\ session' = [session EXCEPT ![t] = 0]
    /\ IF stops
       THEN /\ cancelReq' = cancelReq \cup {t}
            /\ restartOwed' = [restartOwed EXCEPT ![t] = "edit"]
            /\ AbortWorker(t) /\ UNCHANGED window
       ELSE /\ task' = IF restarts THEN [task EXCEPT ![t] = "pending"] ELSE task
            /\ window' = IF restarts THEN [window EXCEPT ![t] = LastNumber(t) + 1] ELSE window
            /\ UNCHANGED <<cancelReq, restartOwed, inflight>>
    /\ UNCHANGED <<runVars, followUps, suspendReq>>

-----------------------------------------------------------------------------
(* The world around the loop *)

EnvironmentTurn == pc \in {"merges", "launch", "park"}

Pushes(w) == wake' = Append(wake, w)

(* A worker exits.  An aborted one reports cancelled whatever it had done. *)
(* At the bound it can only succeed, or fail in a way nothing retries.     *)
WorkerReports(t) ==
  /\ EnvironmentTurn /\ Working(t)
  /\ \E o \in IF inflight[t].aborted THEN {"cancelled"}
              ELSE IF Len(attempts[t]) < MaxAttempts THEN WorkerOutcomes
              ELSE WorkerOutcomes \cap {"success", "fatal"} :
       Pushes(AttemptDone(t, inflight[t].attempt, o))
  /\ inflight' = [inflight EXCEPT ![t].phase = "ended"]
  /\ UNCHANGED <<runVars, task, taskVars, pendingMerges, tree, queueVars, requestVars,
                 senderVars, loopVars>>

(* onProcess: a worker reports the id of its session. *)
ReportSession(t) ==
  /\ EnvironmentTurn /\ Working(t) /\ ResumeSession
  /\ ~LastOf(attempts[t]).session
  /\ attempts' = [attempts EXCEPT ![t][Len(attempts[t])].session = TRUE]
  /\ UNCHANGED <<runVars, task, window, session, delayed, decided, followUps, revisions,
                 swept, workVars, wake, queueVars, requestVars, senderVars, loopVars>>

(* handleInteraction: a worker asks, and is answered, denied or times out. *)
AskOperator(t) ==
  /\ EnvironmentTurn /\ Interactive
  /\ Working(t) /\ task[t] = "running"
  /\ task' = [task EXCEPT ![t] = "waiting"]
  /\ UNCHANGED <<runVars, taskVars, workVars, wake, queueVars, requestVars, senderVars,
                 loopVars>>

AnswerOperator(t) ==
  /\ EnvironmentTurn
  /\ Working(t) /\ task[t] = "waiting"
  /\ task' = [task EXCEPT ![t] = "running"]
  /\ UNCHANGED <<runVars, taskVars, workVars, wake, queueVars, requestVars, senderVars,
                 loopVars>>

(* finalizeWorkspace.  A branch to merge back waits for the shared tree;   *)
(* anything else is captured where it is.  A worktree whose work is kept    *)
(* nowhere else survives only as Cleanup says.                              *)
EndedWith(t) == attempts[t][PositionOf(t, inflight[t].attempt)].outcome

(* Mutant: a stopping run merges nothing back any more. *)
MergesBackUnlessStopping(t) == t \in Worktree /\ EndedWith(t) = "success" /\ ~Stopping

MergesBack(t) == t \in Worktree /\ EndedWith(t) = "success"

Capturing(t) == EnvironmentTurn /\ inflight[t].phase = "capturing"

(* Mutant: the last to ask for the tree is the first to get it. *)
QueueForTreeFirst(t) ==
  /\ Capturing(t) /\ MergesBack(t)
  /\ inflight' = [inflight EXCEPT ![t].phase = "queued"]
  /\ tree' = <<t>> \o tree
  /\ UNCHANGED <<runVars, task, taskVars, pendingMerges, wake, queueVars, requestVars,
                 senderVars, loopVars>>

QueueForTree(t) ==
  /\ Capturing(t) /\ MergesBack(t)
  /\ inflight' = [inflight EXCEPT ![t].phase = "queued"]
  /\ tree' = Append(tree, t)
  /\ UNCHANGED <<runVars, task, taskVars, pendingMerges, wake, queueVars, requestVars,
                 senderVars, loopVars>>

(* Mutant: an attempt may be captured twice. *)
FinishCaptureTwice(t, fin) ==
  /\ Pushes(Finalized(t, inflight[t].attempt, fin))
  /\ UNCHANGED <<runVars, task, attempts, window, session, delayed, decided, followUps,
                 revisions, inflight, pendingMerges, queueVars, requestVars, senderVars, loopVars>>

FinishCapture(t, fin) ==
  /\ inflight' = [inflight EXCEPT ![t].phase = "settled"]
  /\ Pushes(Finalized(t, inflight[t].attempt, fin))
  /\ UNCHANGED <<runVars, task, attempts, window, session, delayed, decided, followUps,
                 revisions, pendingMerges, queueVars, requestVars, senderVars, loopVars>>

Capture(t) ==
  /\ Capturing(t) /\ ~MergesBack(t)
  /\ FinishCapture(t, "clean")
  /\ swept' = IF t \in Worktree /\ Cleanup = "always" /\ EndedWith(t) # "suspended"
              THEN swept \cup {t} ELSE swept
  /\ UNCHANGED tree

CaptureThrows(t) ==
  /\ Capturing(t) /\ WorkspaceFails
  /\ FinishCapture(t, "lost")
  /\ UNCHANGED <<tree, swept>>

(* mergeBack, completeMerge or captureMergeAttempt, with the tree locked.  *)
MergeBack(t) ==
  /\ EnvironmentTurn /\ inflight[t].phase = "queued" /\ Head(tree) = t
  /\ tree' = Tail(tree)
  /\ \E fin \in {"clean"}
             \cup (IF EndedWith(t) = "success" /\ Len(attempts[t]) < MaxAttempts
                   THEN {"conflict"} ELSE {})
             \cup (IF WorkspaceFails THEN {"lost"} ELSE {}) :
       /\ FinishCapture(t, fin)
       /\ swept' = IF fin = "clean" /\ EndedWith(t) = "success" /\ Cleanup # "never"
                   THEN swept \cup {t} ELSE swept

(* The approval handler answers, or defers, which pauses the run. *)
AnswerGate(t) ==
  /\ EnvironmentTurn /\ t \in asking
  /\ asking' = asking \ {t}
  /\ \E w \in {Approval(t, "approved"), Approval(t, "rejected"), StopWake("wait", "pause")} :
       Pushes(w)
  /\ UNCHANGED <<runVars, task, taskVars, workVars, timer, seen, requestVars, senderVars,
                 loopVars>>

(* Time passes: a retry becomes due, and the timer wakes the loop for it. *)
BecomeDue(t) ==
  /\ EnvironmentTurn /\ t \in delayed
  /\ delayed' = delayed \ {t}
  /\ UNCHANGED <<runVars, task, attempts, window, session, decided, followUps, revisions,
                 swept, workVars, wake, queueVars, requestVars, senderVars, loopVars>>

TimerFires ==
  /\ EnvironmentTurn /\ timer
  /\ timer' = FALSE /\ Pushes(RetryDue)
  /\ UNCHANGED <<runVars, task, taskVars, workVars, seen, asking, requestVars, senderVars,
                 loopVars>>

(* submitControl, while the run has not finished. *)
Submit(c) ==
  /\ EnvironmentTurn /\ submitted < MaxControls
  /\ submitted' = submitted + 1
  /\ unsettled' = unsettled \cup {submitted + 1}
  /\ Pushes(Control(c, submitted + 1))
  /\ UNCHANGED <<runVars, task, taskVars, workVars, queueVars, requestVars, loopVars>>

(* Parked for a person and for nothing else: held, with a suspended task,   *)
(* or at a gate.                                                           *)
WaitsForPerson ==
  /\ pc = "park" /\ wake = <<>> /\ ~timer
  /\ \A t \in Tasks : ~InFlight(t)
  /\ hold \/ ~HasReady
  /\ HeldOpen \/ asking # {}

(* A run that has ended or that waits for a person may stay as it is. *)
Rest ==
  /\ pc = "done" \/ WaitsForPerson
  /\ UNCHANGED vars

-----------------------------------------------------------------------------
Startup == Prepare \/ (\E t \in Tasks : FailPreflight(t)) \/ EnterLoop

Promote == StartPass \/ BlockOnDependency \/ SkipOnCondition \/ FailOnCondition
           \/ OpenGate \/ MakeReady \/ EndPass

LaunchWork == LaunchPendingMerge \/ AbandonPendingMerge \/ EndMerges \/ Launch \/ EndLaunch

HandleWake == HandleAttemptDone \/ HandleFinalized \/ HandleApproval \/ HandleRetryDue
              \/ HandleStop

ApplyOutcome == Succeed \/ SkipByAgent \/ AskInput \/ BlockByAgent \/ EndSuspended
                \/ EndCancelled \/ RecoverTransient \/ NudgeSession \/ RetryAttempt
                \/ FailTask \/ SettleCancel \/ SettleRestart

HandleControl == RejectCommand \/ StopRun \/ HoldRun \/ ReleaseRun \/ RestartTask
                 \/ CancelTask \/ SuspendTask \/ ResumeTask \/ FollowUp
                 \/ StopAndContinue \/ EditNothing \/ EditTask

Loop == Startup \/ Promote \/ LaunchWork \/ HandleWake \/ ApplyOutcome \/ HandleControl
        \/ Park \/ Finalize

Workspace(t) == QueueForTree(t) \/ Capture(t) \/ CaptureThrows(t) \/ MergeBack(t)

Environment ==
  \/ \E t \in Tasks : \/ WorkerReports(t) \/ ReportSession(t)
                      \/ AskOperator(t) \/ AnswerOperator(t)
                      \/ Workspace(t) \/ AnswerGate(t) \/ BecomeDue(t)
  \/ TimerFires
  \/ \E c \in Commands : Submit(c)

Next == Loop \/ Environment \/ Rest

Spec == Init /\ [][Next]_vars

(* The loop keeps running; a worker ends (its timeout sees to that), with a *)
(* prompt it waits on answered (interactionTimeout); git work ends; time    *)
(* passes.  These go on whatever the loop does, and only the grain of the   *)
(* model lets them move at the loop's awaits alone: hence strong fairness.  *)
(* Nothing makes a person answer a gate or submit a command.                *)
Fairness ==
  /\ WF_vars(Loop)
  /\ \A t \in Tasks : /\ SF_vars(WorkerReports(t))
                      /\ SF_vars(Workspace(t))
                      /\ SF_vars(BecomeDue(t))
  /\ SF_vars(TimerFires)

FairSpec == Spec /\ Fairness

=============================================================================
