----------------------------- MODULE Ownership -----------------------------
(***************************************************************************)
(* Who executes a run.  A repository holds runs; each has workflow.json,    *)
(* lock.json and live.json.  Processes of `cao run` and `cao resume` read   *)
(* them, take the lock, put the run back in a state that can be continued,  *)
(* execute it, and release the lock, or die at any point on the way and     *)
(* leave their workers behind.  What a run does with its tasks is kept to   *)
(* what another process can find on disk; module Scheduler has the rest.    *)
(***************************************************************************)
EXTENDS Naturals, Sequences, FiniteSets

CONSTANTS
  Tasks,        \* the tasks of every run
  Procs,        \* process ids; each is an orchestrator once
  Nobody,       \* no process
  MaxRuns,      \* runs of the repository
  MaxAttempts,  \* attempts of one task
  Commands,     \* what an operator may type: [kind |-> "run"] or a resume
  MaxUpsets,    \* how often the world takes the lock of a run from its owner
  MaxAfter,     \* attempts of a task once that has happened to its run
  Endings       \* the task states an attempt of this instance may end in

Runs == 1..MaxRuns

TaskStates == {"pending", "ready", "running", "waiting", "success", "failed", "skipped",
               "blocked", "cancelled", "suspended", "needs_input", "awaiting_approval"}
RunStates == {"created", "running", "paused", "completed", "failed", "interrupted"}
AttemptEnds == {"success", "failed", "skipped", "blocked", "cancelled",
                "suspended", "needs_input", "ready"}

(* The reasons for a skip that a resume looks at again (a condition that was *)
(* false, a task that was not selected), and the others.                     *)
SkipReasons == {"condition", "other"}

ASSUME BoundsAssumption ==
  MaxRuns \in Nat \ {0} /\ MaxAttempts \in Nat \ {0} /\ MaxUpsets \in Nat /\ MaxAfter \in 0..MaxAttempts
ASSUME ProcsAssumption == Nobody \notin Procs
ASSUME CommandsAssumption ==
  \A c \in Commands :
    c.kind = "resume" =>
      /\ c.named \subseteq Tasks /\ c.answer \subseteq Tasks
      /\ c.approve \subseteq Tasks /\ c.reject \subseteq Tasks /\ c.retryFailed \in BOOLEAN
ASSUME EndingsAssumption == Endings \subseteq AttemptEnds

-----------------------------------------------------------------------------
(* Data *)

(* A worker process, named by the attempt it was started for. *)
Workers == [owner : Procs, run : Runs, task : Tasks, number : 1..MaxAttempts]
NoWorker == [owner |-> Nobody, run |-> 0, task |-> Nobody, number |-> 0]

(* An attempt: the pid its orchestrator noted, and how it ended if it has. *)
Attempts == [pid : Workers \cup {NoWorker}, outcome : AttemptEnds \cup {"interrupted", "none"}]

TaskRecords ==
  [state : TaskStates, reason : SkipReasons, attempts : Seq(Attempts),
   current : 0..MaxAttempts, approval : {"none", "approved", "rejected"}]
RunRecords == [id : Runs \cup {0}, state : RunStates, tasks : [Tasks -> TaskRecords]]

FreshTask == [state |-> "pending", reason |-> "other", attempts |-> <<>>,
              current |-> 0, approval |-> "none"]

(* createRun: every task pending, no attempt made. *)
NewRun(r) == [id |-> r, state |-> "created", tasks |-> [t \in Tasks |-> FreshTask]]
NoRun == NewRun(0)

(* lock.json and live.json.  A heartbeat is fresh for 60 seconds. *)
Locks == [pid : Procs \cup {Nobody}, fresh : BOOLEAN]
NoLock == [pid |-> Nobody, fresh |-> FALSE]
Lives == [pid : Procs \cup {Nobody}, fresh : BOOLEAN, state : RunStates]
NoLive == [pid |-> Nobody, fresh |-> FALSE, state |-> "created"]

VARIABLES
  at,       \* at[p]: where process p is between its command and its end
  asked,    \* asked[p]: its command
  mem,      \* mem[p]: the WorkflowRun object it works on
  saved,    \* saved[r]: workflow.json of run r
  lock,     \* lock[r]: lock.json of run r
  live,     \* live[r]: live.json of run r
  workers,  \* the worker processes that are alive
  recycled, \* pids of ended orchestrators that now belong to other programs
  upset,    \* history: upset[r], what has taken the lock of run r from an owner
  outdated  \* history: who took the lock of a run that had changed since it was read

vars == <<at, asked, mem, saved, lock, live, workers, recycled, upset, outdated>>
files == <<saved, lock, live>>
history == <<upset, outdated>>

(* What takes its lock from an owner: lock.json is removed by something      *)
(* else, the owner is 60 seconds late, or another overwrites what its own    *)
(* reading of the lock would have refused.                                   *)
Upsets == {"removed", "late", "raced"}

Stages == {"idle", "checked", "unlocked", "locking", "locked", "reconciled", "starting",
           "executing", "ending", "closing", "gone"}

(* From the lock to its release. *)
Owning == {"locked", "reconciled", "starting", "executing", "ending", "closing"}

Exists(r) == saved[r].id = r
Owns(p, r) == at[p] \in Owning /\ mem[p].id = r

(* An upset run is followed as far as these bounds go. *)
Upsettable(r) == Cardinality(upset[r]) < MaxUpsets
AttemptsLeft(r) == IF upset[r] = {} THEN MaxAttempts ELSE MaxAfter

-----------------------------------------------------------------------------
(* Who is at the wheel *)

(* isProcessAlive: a pid may belong to a program that has nothing to do with it. *)
IsAlive(p) == p # Nobody /\ (at[p] \notin {"idle", "gone"} \/ p \in recycled)

(* Mutant: the lock counts only while its run says that it is running. *)
LockOfRunningHeld(r, p) ==
  /\ saved[r].state = "running" /\ lock[r].pid \notin {p, Nobody}
  /\ lock[r].fresh /\ IsAlive(lock[r].pid)

(* acquireLock refuses when the lock is another's, fresh, and its pid exists. *)
LockHeld(r, p) == lock[r].pid \notin {p, Nobody} /\ lock[r].fresh /\ IsAlive(lock[r].pid)

(* readOrchestrator: the lock is believed on its pid alone; without a lock, *)
(* live.json is, if it says running and has been written lately.           *)
Orchestrator(r) ==
  IF lock[r].pid # Nobody
  THEN [pid |-> lock[r].pid, fresh |-> lock[r].fresh, alive |-> IsAlive(lock[r].pid)]
  ELSE IF live[r].pid # Nobody /\ live[r].state = "running"
       THEN [pid |-> live[r].pid, fresh |-> live[r].fresh,
             alive |-> live[r].fresh /\ IsAlive(live[r].pid)]
       ELSE [pid |-> Nobody, fresh |-> FALSE, alive |-> FALSE]

(* ownershipOf: what a window of process p is told about run r. *)
OwnershipOf(r, p) ==
  LET o == Orchestrator(r)
  IN  CASE o.pid = Nobody -> "ended"
        [] o.pid # Nobody /\ ~o.alive -> "abandoned"
        [] o.alive /\ o.pid = p -> "self"
        [] o.alive /\ o.pid # p -> "owned"

(* findActiveRun: a run that says it is running and whose orchestrator is fresh and alive. *)
ActiveRuns(p) ==
  {r \in Runs : /\ Exists(r) /\ saved[r].state = "running"
                /\ LET o == Orchestrator(r)
                   IN o.pid \notin {Nobody, p} /\ o.fresh /\ o.alive}

-----------------------------------------------------------------------------
(* Putting a run back together *)

LastOf(task) == Len(task.attempts)

(* reconcileForResume looks for the current attempt, or else the last one. *)
OpenAttempt(task) == IF task.current # 0 THEN task.current ELSE LastOf(task)

(* Mutant: a worker that waits for an answer is forgotten. *)
OrphansRunning(run) ==
  {run.tasks[t].attempts[OpenAttempt(run.tasks[t])].pid :
     t \in {u \in Tasks : run.tasks[u].state = "running" /\ OpenAttempt(run.tasks[u]) # 0}}

Orphans(run) ==
  {run.tasks[t].attempts[OpenAttempt(run.tasks[t])].pid :
     t \in {u \in Tasks : /\ run.tasks[u].state \in {"running", "waiting"}
                          /\ OpenAttempt(run.tasks[u]) # 0}}

(* An attempt without an outcome is closed as interrupted. *)
Closed(task) ==
  LET n == OpenAttempt(task)
  IN  IF n = 0 \/ task.attempts[n].outcome # "none" THEN task.attempts
      ELSE [task.attempts EXCEPT ![n].outcome = "interrupted"]

Again(task) == [task EXCEPT !.state = "pending", !.reason = "other"]

(* The switch of reconcileForResume on the state a task was saved in. *)
ReconciledState(t, task, c) ==
  CASE task.state \in {"running", "waiting"} ->
         [Again(task) EXCEPT !.attempts = Closed(task), !.current = 0]
    [] task.state \in {"ready", "cancelled", "blocked", "suspended"} -> Again(task)
    [] task.state = "failed" /\ c.retryFailed -> Again(task)
    [] task.state = "skipped" /\ task.reason = "condition" -> Again(task)
    [] task.state = "awaiting_approval" ->
         [Again(task) EXCEPT !.approval = IF t \in c.approve THEN "approved"
                                          ELSE IF t \in c.reject THEN "rejected" ELSE @]
    [] task.state = "needs_input" /\ t \in c.answer \cup c.named -> Again(task)
    [] OTHER -> task

(* A task that was named runs again although it has succeeded, and asks for *)
(* its approval again.                                                      *)
Forced(t, task, c) ==
  IF t \in c.named /\ task.state \in {"success", "skipped"}
  THEN [Again(task) EXCEPT !.approval = "none"] ELSE task

(* A follow-up (`answer`) starts the task it names from any state it stopped in. *)
FollowedUp(t, task, c) ==
  IF t \in c.answer /\ task.state \in {"success", "failed", "skipped", "blocked", "cancelled",
                                       "needs_input", "suspended"}
  THEN Again(task) ELSE task

ReconcileForResume(run, c) ==
  [run EXCEPT !.tasks =
     [t \in Tasks |-> FollowedUp(t, Forced(t, ReconciledState(t, run.tasks[t], c), c), c)]]

(* Mutant: every task that is not pending is written down as cancelled. *)
PersistCancelled(run) ==
  [run EXCEPT !.state = "interrupted",
     !.tasks = [t \in Tasks |-> IF run.tasks[t].state = "pending" THEN run.tasks[t]
                                 ELSE [run.tasks[t] EXCEPT !.state = "cancelled"]]]

(* persistInterruptedSync: what an exit handler can still write. *)
PersistInterrupted(run) ==
  [run EXCEPT !.state = "interrupted",
     !.tasks = [t \in Tasks |->
       LET task == run.tasks[t]
       IN CASE task.state \in {"running", "waiting"} ->
                 [task EXCEPT !.state = "cancelled", !.current = 0,
                    !.attempts = IF task.current = 0 \/ @[task.current].outcome # "none" THEN @
                                 ELSE [@ EXCEPT ![task.current].outcome = "interrupted"]]
            [] task.state = "ready" -> [task EXCEPT !.state = "cancelled"]
            [] OTHER -> task]]

-----------------------------------------------------------------------------
Init ==
  /\ at = [p \in Procs |-> "idle"]
  /\ asked = [p \in Procs |-> [kind |-> "none"]]
  /\ mem = [p \in Procs |-> NoRun]
  /\ saved = [r \in Runs |-> NoRun]
  /\ lock = [r \in Runs |-> NoLock]
  /\ live = [r \in Runs |-> NoLive]
  /\ workers = {}
  /\ recycled = {}
  /\ upset = [r \in Runs |-> {}]
  /\ outdated = {}

-----------------------------------------------------------------------------
(* Starting *)

(* A process ends, and what it knew is gone with it. *)
Gone(p) ==
  /\ at' = [at EXCEPT ![p] = "gone"]
  /\ asked' = [asked EXCEPT ![p] = [kind |-> "none"]]
  /\ mem' = [mem EXCEPT ![p] = NoRun]

(* `cao run` creates no run beside one that is active. *)
CheckActive(p) ==
  /\ at[p] = "idle"
  /\ \E c \in Commands : c.kind = "run" /\ asked' = [asked EXCEPT ![p] = c]
  /\ ActiveRuns(p) = {}
  /\ at' = [at EXCEPT ![p] = "checked"]
  /\ UNCHANGED <<mem, files, workers, recycled, history>>

(* allocateRunId and createRun: the next number whose directory can be made. *)
CreateRun(p) ==
  /\ at[p] = "checked"
  /\ \E r \in Runs :
       /\ ~Exists(r) /\ \A s \in Runs : s < r => Exists(s)
       /\ mem' = [mem EXCEPT ![p] = NewRun(r)]
       /\ saved' = [saved EXCEPT ![r] = NewRun(r)]
  /\ at' = [at EXCEPT ![p] = "unlocked"]
  /\ UNCHANGED <<asked, lock, live, workers, recycled, history>>

(* startRuntime up to the lock: the run is loaded and its arguments are     *)
(* judged by what was loaded.  A command that is refused leaves no trace.   *)
LoadRun(p, r, c) ==
  /\ at[p] = "idle"
  /\ c.kind = "resume" /\ Exists(r)
  /\ \A t \in c.answer : c.question => saved[r].tasks[t].state = "needs_input"
  /\ asked' = [asked EXCEPT ![p] = c]
  /\ mem' = [mem EXCEPT ![p] = saved[r]]
  /\ at' = [at EXCEPT ![p] = "unlocked"]
  /\ UNCHANGED <<files, workers, recycled, history>>

(* acquireLock, as far as its reading goes ... *)
ReadLock(p) ==
  /\ at[p] = "unlocked"
  /\ IF LockHeld(mem[p].id, p)
     THEN Gone(p)
     ELSE at' = [at EXCEPT ![p] = "locking"] /\ UNCHANGED <<asked, mem>>
  /\ UNCHANGED <<files, workers, recycled, history>>

(* ... and its writing, whatever the file is by then. *)
WriteLock(p) ==
  /\ at[p] = "locking"
  /\ lock' = [lock EXCEPT ![mem[p].id] = [pid |-> p, fresh |-> TRUE]]
  /\ at' = [at EXCEPT ![p] = "locked"]
  /\ upset' = IF LockHeld(mem[p].id, p)
              THEN [upset EXCEPT ![mem[p].id] = @ \cup {"raced"}] ELSE upset
  /\ outdated' = IF mem[p] # saved[mem[p].id] THEN outdated \cup {p} ELSE outdated
  /\ UNCHANGED <<asked, mem, saved, live, workers, recycled>>

(* releaseLock: one's own lock, or none. *)
Released(p) == LET r == mem[p].id
               IN  IF lock[r].pid \in {p, Nobody} THEN [lock EXCEPT ![r] = NoLock] ELSE lock

(* A completed run has nothing to do unless a task is named. *)
NothingToDo(p) ==
  /\ at[p] = "locked" /\ asked[p].kind = "resume"
  /\ mem[p].state = "completed" /\ asked[p].named = {} /\ asked[p].answer = {}
  /\ lock' = Released(p)
  /\ Gone(p)
  /\ UNCHANGED <<saved, live, workers, recycled, history>>

(* Orphaned workers are killed, and the tasks put back. *)
Reconcile(p) ==
  /\ at[p] = "locked" /\ asked[p].kind = "resume"
  /\ mem[p].state # "completed" \/ asked[p].named \cup asked[p].answer # {}
  /\ workers' = workers \ Orphans(mem[p])
  /\ mem' = [mem EXCEPT ![p] = ReconcileForResume(@, asked[p])]
  /\ at' = [at EXCEPT ![p] = "reconciled"]
  /\ UNCHANGED <<asked, files, recycled, history>>

(* execute: the run is on disk as running before anything else happens. *)
Execute(p) ==
  /\ \/ at[p] = "reconciled"
     \/ at[p] = "locked" /\ asked[p].kind = "run"
  /\ mem' = [mem EXCEPT ![p].state = "running"]
  /\ saved' = [saved EXCEPT ![mem[p].id] = mem'[p]]
  /\ at' = [at EXCEPT ![p] = "starting"]
  /\ UNCHANGED <<asked, lock, live, workers, recycled, history>>

(* The repository, the hook before the workflow and the agents' preflight   *)
(* come first; the heartbeat starts after them.                             *)
StartHeartbeat(p) ==
  /\ at[p] = "starting"
  /\ at' = [at EXCEPT ![p] = "executing"]
  /\ UNCHANGED <<asked, mem, files, workers, recycled, history>>

-----------------------------------------------------------------------------
(* Executing *)

(* heartbeat: refresh one's lock, restore a missing one, leave another's     *)
(* alone.  live.json is written with it.                                     *)
Beat(p) ==
  LET r == mem[p].id
  IN  /\ at[p] = "executing"
      /\ lock' = IF lock[r].pid \in {p, Nobody}
                 THEN [lock EXCEPT ![r] = [pid |-> p, fresh |-> TRUE]] ELSE lock
      /\ live' = [live EXCEPT ![r] = [pid |-> p, fresh |-> TRUE, state |-> mem[p].state]]
      /\ UNCHANGED <<at, asked, mem, saved, workers, recycled, history>>

(* A change of the run, saved: persist, and with a change of state live.json. *)
Save(p, run) ==
  /\ mem' = [mem EXCEPT ![p] = run]
  /\ saved' = [saved EXCEPT ![run.id] = run]
  /\ live' = [live EXCEPT ![run.id] = [pid |-> p, fresh |-> TRUE, state |-> run.state]]
  /\ UNCHANGED <<asked, lock, recycled, history>>

SaveTask(p, t, task) == Save(p, [mem[p] EXCEPT !.tasks[t] = task])

InFlight(run) == {t \in Tasks : run.tasks[t].state \in {"running", "waiting"}}

(* promoteReady decides that a task may start, or that it does not: its     *)
(* condition is false, its dependency failed, it needs an approval.          *)
Promote(p, t) ==
  LET task == mem[p].tasks[t]
  IN  /\ at[p] = "executing" /\ task.state = "pending"
      /\ \/ SaveTask(p, t, [task EXCEPT !.state = "ready"])
         \/ \E why \in SkipReasons :
              SaveTask(p, t, [task EXCEPT !.state = "skipped", !.reason = why])
         \/ SaveTask(p, t, [task EXCEPT !.state = "blocked"])
         \/ /\ task.approval = "none"
            /\ SaveTask(p, t, [task EXCEPT !.state = "awaiting_approval"])
      /\ UNCHANGED <<at, workers>>

(* The attempt is on disk before its worker exists. *)
Launch(p, t) ==
  LET task == mem[p].tasks[t]
  IN  /\ at[p] = "executing" /\ task.state = "ready" /\ LastOf(task) < AttemptsLeft(mem[p].id)
      /\ SaveTask(p, t, [task EXCEPT !.state = "running", !.current = LastOf(task) + 1,
                           !.attempts = Append(@, [pid |-> NoWorker, outcome |-> "none"])])
      /\ UNCHANGED <<at, workers>>

(* The runner spawns the agent and tells its pid, which is not saved yet. *)
Spawn(p, t) ==
  LET n == mem[p].tasks[t].current
      w == [owner |-> p, run |-> mem[p].id, task |-> t, number |-> n]
  IN  /\ at[p] = "executing" /\ mem[p].tasks[t].state = "running"
      /\ mem[p].tasks[t].attempts[n].pid = NoWorker
      /\ workers' = workers \cup {w}
      /\ mem' = [mem EXCEPT ![p].tasks[t].attempts[n].pid = w]
      /\ UNCHANGED <<at, asked, files, recycled, history>>

(* onProcess: the save that lets a later owner find the worker. *)
SavePid(p) ==
  /\ at[p] = "executing" /\ saved[mem[p].id] # mem[p]
  /\ Save(p, mem[p])
  /\ UNCHANGED <<at, workers>>

(* A worker ends: by itself, by a timeout, or because it is told to. *)
WorkerEnds(w) ==
  /\ w \in workers
  /\ workers' = workers \ {w}
  /\ UNCHANGED <<at, asked, mem, files, recycled, history>>

(* The report of an attempt, once its worker is gone; `ready` is a retry. *)
Settle(p, t, end) ==
  LET task == mem[p].tasks[t]
      n == task.current
  IN  /\ at[p] = "executing" /\ task.state \in {"running", "waiting"}
      /\ task.attempts[n].pid \notin workers
      /\ end = "ready" => n < MaxAttempts
      /\ SaveTask(p, t, [task EXCEPT !.state = end, !.current = 0, !.reason = "other",
                           !.attempts[n].outcome = end])
      /\ UNCHANGED <<at, workers>>

(* A question to the operator, and its answer. *)
Ask(p, t) ==
  /\ at[p] = "executing" /\ mem[p].tasks[t].state \in {"running", "waiting"}
  /\ mem[p].tasks[t].attempts[mem[p].tasks[t].current].pid \in workers
  /\ SaveTask(p, t, [mem[p].tasks[t] EXCEPT
                       !.state = IF @ = "running" THEN "waiting" ELSE "running"])
  /\ UNCHANGED <<at, workers>>

(* A hold makes the run paused on disk although it is being executed. *)
Hold(p) ==
  /\ at[p] = "executing"
  /\ mem' = [mem EXCEPT ![p].state = IF @ = "running" THEN "paused" ELSE "running"]
  /\ saved' = [saved EXCEPT ![mem[p].id] = mem'[p]]
  /\ UNCHANGED <<at, asked, lock, live, workers, recycled, history>>

-----------------------------------------------------------------------------
(* Ending *)

(* Why the run ends: everything is settled, or it was stopped. *)
Causes == {"none", "signal", "on_failure", "pause"}

(* finalize: what had not started is cancelled by a stop, unless the stop    *)
(* came from a task that needs input.                                        *)
FinalTasks(run, cause) ==
  [t \in Tasks |->
     IF cause \in {"signal", "on_failure"} /\ run.tasks[t].state \in {"pending", "ready"}
     THEN [run.tasks[t] EXCEPT !.state = "cancelled"] ELSE run.tasks[t]]

(* A person has to say something before the task goes on. *)
Unanswered == {"awaiting_approval", "needs_input", "suspended"}

Some(tasks, states) == \E t \in Tasks : tasks[t].state \in states

FinalState(tasks, cause) ==
  CASE cause = "signal" -> "interrupted"
    [] cause # "signal" /\ (cause = "pause" \/ Some(tasks, Unanswered)) -> "paused"
    [] OTHER -> IF Some(tasks, {"failed", "blocked", "cancelled"}) THEN "failed" ELSE "completed"

Finalize(p, cause) ==
  LET run == mem[p]
      tasks == FinalTasks(run, cause)
  IN  /\ at[p] = "executing" /\ InFlight(run) = {}
      /\ cause = "none" => /\ ~Some(run.tasks, {"ready"})
                           /\ Some(run.tasks, {"pending"}) => Some(run.tasks, Unanswered)
      /\ cause = "pause" => Some(run.tasks, {"needs_input"})
      /\ mem' = [mem EXCEPT ![p].tasks = tasks, ![p].state = FinalState(tasks, cause)]
      /\ at' = [at EXCEPT ![p] = "ending"]
      /\ UNCHANGED <<asked, files, workers, recycled, history>>

(* The end is on disk only after the cleanup, a hook and the report. *)
SaveEnd(p) ==
  /\ at[p] = "ending"
  /\ Save(p, mem[p])
  /\ at' = [at EXCEPT ![p] = "closing"]
  /\ UNCHANGED workers

Release(p) ==
  /\ at[p] = "closing"
  /\ lock' = Released(p)
  /\ Gone(p)
  /\ UNCHANGED <<saved, live, workers, recycled, history>>

(* The process dies at once; its workers do not. *)
Die(p) ==
  /\ at[p] \notin {"idle", "gone"}
  /\ Gone(p)
  /\ UNCHANGED <<files, workers, recycled, history>>

(* An error that escapes, a second Ctrl+C or the deadline of the first: the  *)
(* run is saved as interrupted and the workers are killed.  The lock stays.  *)
ForceExit(p) ==
  /\ at[p] \in {"starting", "executing"}
  /\ saved' = [saved EXCEPT ![mem[p].id] = PersistInterrupted(mem[p])]
  /\ workers' = {w \in workers : w.owner # p}
  /\ Gone(p)
  /\ UNCHANGED <<lock, live, recycled, history>>

-----------------------------------------------------------------------------
(* The world *)

(* Sixty seconds pass without a heartbeat.  An owner that beats is never     *)
(* that late; one that prepares, cleans up or runs its last hook may be.     *)
Beating(p) == p # Nobody /\ at[p] = "executing"

Late(r) == lock[r].fresh /\ ~Beating(lock[r].pid) /\ \E p \in Procs : p = lock[r].pid /\ Owns(p, r)

Age(r) ==
  /\ lock[r].fresh \/ live[r].fresh
  /\ Late(r) => Upsettable(r)
  /\ lock' = [lock EXCEPT ![r].fresh = @ /\ Beating(lock[r].pid)]
  /\ live' = [live EXCEPT ![r].fresh = @ /\ Beating(live[r].pid)]
  /\ upset' = IF Late(r) THEN [upset EXCEPT ![r] = @ \cup {"late"}] ELSE upset
  /\ UNCHANGED <<at, asked, mem, saved, workers, recycled, outdated>>

(* The pid of an orchestrator that ended is given to another program; it is  *)
(* of no account unless a file still has it.                                 *)
Recycle(p) ==
  /\ at[p] = "gone" /\ p \notin recycled
  /\ \E r \in Runs : p \in {lock[r].pid, live[r].pid}
  /\ recycled' = recycled \cup {p}
  /\ UNCHANGED <<at, asked, mem, files, workers, history>>

(* Something in the tree removes lock.json. *)
LoseLock(r) ==
  /\ lock[r].pid # Nobody /\ Upsettable(r)
  /\ lock' = [lock EXCEPT ![r] = NoLock]
  /\ upset' = [upset EXCEPT ![r] = @ \cup {"removed"}]
  /\ UNCHANGED <<at, asked, mem, saved, live, workers, recycled, outdated>>

Step(p) ==
  \/ CheckActive(p) \/ CreateRun(p) \/ \E r \in Runs, c \in Commands : LoadRun(p, r, c)
  \/ ReadLock(p) \/ WriteLock(p) \/ NothingToDo(p) \/ Reconcile(p) \/ Execute(p)
  \/ StartHeartbeat(p) \/ Beat(p) \/ SavePid(p) \/ Hold(p)
  \/ \E t \in Tasks : \/ Promote(p, t) \/ Launch(p, t) \/ Spawn(p, t) \/ Ask(p, t)
                      \/ \E end \in Endings : Settle(p, t, end)
  \/ \E cause \in Causes : Finalize(p, cause)
  \/ SaveEnd(p) \/ Release(p) \/ Die(p) \/ ForceExit(p)

World ==
  \/ \E w \in workers : WorkerEnds(w)
  \/ \E r \in Runs : Age(r) \/ LoseLock(r)
  \/ \E p \in Procs : Recycle(p)

Next == (\E p \in Procs : Step(p)) \/ World

Spec == Init /\ [][Next]_vars

TypeOK ==
  /\ at \in [Procs -> Stages]
  /\ asked \in [Procs -> Commands \cup {[kind |-> "none"]}]
  /\ mem \in [Procs -> RunRecords]
  /\ saved \in [Runs -> RunRecords]
  /\ lock \in [Runs -> Locks]
  /\ live \in [Runs -> Lives]
  /\ workers \subseteq Workers
  /\ recycled \subseteq Procs
  /\ upset \in [Runs -> SUBSET Upsets]
  /\ outdated \subseteq Procs
=============================================================================
