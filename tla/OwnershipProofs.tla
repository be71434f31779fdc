--------------------------- MODULE OwnershipProofs ---------------------------
(***************************************************************************)
(* What is proved of the owners of runs, for any number of runs, tasks,      *)
(* processes, attempts and commands, however their start-ups overlap.        *)
(***************************************************************************)
EXTENDS OwnershipProperties, TLAPS, FiniteSetTheorems, SequenceTheorems

-----------------------------------------------------------------------------
(* The inductive invariant: who owns a run *)

(* A process that has chosen its run works on one that exists. *)
Chosen(p) == at[p] \in {"unlocked", "locking"} \cup Owning
HasRun(p) == Chosen(p) => mem[p].id \in Runs /\ saved[mem[p].id].id = mem[p].id

(* The owner's lock is its own and not stale, unless the run is upset.       *)
HoldsLock ==
  \A p \in Procs, r \in Runs :
    upset[r] = {} /\ Owns(p, r) => lock[r].pid = p /\ lock[r].fresh

(* live.json names an owner that has begun to beat, and is not stale while  *)
(* it does.                                                                 *)
LiveIsFresh ==
  \A p \in Procs, r \in Runs : live[r].pid = p =>
    /\ at[p] \in {"executing", "ending", "closing", "gone"}
    /\ at[p] = "executing" => live[r].fresh

(* A run that says it is completed has done its tasks, but for the one that *)
(* is put back to be executed again.                                        *)
AllDone(run) == \A t \in Tasks : run.tasks[t].state \in {"success", "skipped"}
DoneInMemory(p) ==
  /\ mem[p].state = "completed" /\ at[p] \notin {"reconciled", "gone"} => AllDone(mem[p])
  /\ at[p] \in {"starting", "executing"} => mem[p].state \in {"running", "paused"}

(* An attempt's pid is that of the worker that was started for it.          *)
Shaped(run) ==
  \A t \in Tasks : \A n \in DOMAIN run.tasks[t].attempts :
    LET w == run.tasks[t].attempts[n].pid
    IN  w # NoWorker => w.run = run.id /\ w.task = t /\ w.number = n

(* An owner that has put its run back together. *)
Working == {"reconciled", "starting", "executing", "ending", "closing"}

(* A task in flight has a current attempt. *)
InRange(run) ==
  \A t \in Tasks : run.tasks[t].state \in {"running", "waiting"} =>
    run.tasks[t].current \in DOMAIN run.tasks[t].attempts

(* No attempt has been made of a run that has just been created. *)
Untouched(run) == \A t \in Tasks : run.tasks[t] = FreshTask

InFlightInMemory(p) ==
  /\ at[p] \in Working => InRange(mem[p])
  /\ at[p] \in {"unlocked", "locking", "locked"} /\ asked[p].kind = "run" => Untouched(mem[p])

OnRun(p) == HasRun(p) /\ DoneInMemory(p) /\ InFlightInMemory(p) /\ Shaped(mem[p])

(* The directory of a run holds that run, or nothing. *)
Filed(r) ==
  /\ saved[r].id = r \/ saved[r] = NoRun
  /\ Shaped(saved[r])
  /\ saved[r].state = "completed" => AllDone(saved[r])

BaseInvariant ==
  TypeOK /\ LiveIsFresh /\ (\A p \in Procs : OnRun(p)) /\ (\A r \in Runs : Filed(r))

-----------------------------------------------------------------------------
(* The inductive invariant: what an owner knows of the workers *)

(* A live worker that an attempt of the run names. *)
Live(run, t, n) == run.tasks[t].attempts[n].pid \in workers

(* A later owner would find every live worker that the run names. *)
Findable(run) ==
  \A t \in Tasks : \A n \in DOMAIN run.tasks[t].attempts :
    Live(run, t, n) => run.tasks[t].state \in {"running", "waiting"} /\ OpenAttempt(run.tasks[t]) = n

(* The live workers the owner knows of are its own, one for each task that  *)
(* is in flight.                                                            *)
Tracked(p) ==
  \A t \in Tasks : \A n \in DOMAIN mem[p].tasks[t].attempts :
    Live(mem[p], t, n) =>
      /\ mem[p].tasks[t].state \in {"running", "waiting"} /\ mem[p].tasks[t].current = n
      /\ mem[p].tasks[t].attempts[n].pid.owner = p

(* A run names a worker; and some file or some process does. *)
Mentions(run, w) ==
  \E t \in Tasks : \E n \in DOMAIN run.tasks[t].attempts : run.tasks[t].attempts[n].pid = w
Mentioned(w) ==
  (\E r \in Runs : Mentions(saved[r], w)) \/ (\E q \in Procs : Mentions(mem[q], w))

(* Whoever has heard of a worker has heard of it from its owner, who has not *)
(* forgotten it.                                                            *)
Remembers(p) ==
  at[p] # "gone" =>
    \A w \in Workers : w.owner = p /\ Mentioned(w) => at[p] \in Working /\ Mentions(mem[p], w)

(* The operator of a resume names the task. *)
Named(p, t) == asked[p].kind = "resume" /\ t \in asked[p].named \cup asked[p].answer

(* What has succeeded on disk has succeeded in memory, or was asked for again. *)
Keeps(p, old, new) ==
  \A t \in Tasks : old.tasks[t].state = "success" => new.tasks[t].state = "success" \/ Named(p, t)

(* A process that is about to take over knows of every live worker there is  *)
(* on file, and has what the file has when it has the lock, unless it came   *)
(* too late.                                                                 *)
Loaded(p) ==
  /\ at[p] \in {"unlocked", "locking", "locked"} /\ upset[mem[p].id] = {} => Findable(mem[p])
  /\ at[p] = "locked" /\ upset[mem[p].id] = {} /\ p \notin outdated =>
       mem[p] = saved[mem[p].id]

UpToDate(p) ==
  at[p] \in Working /\ upset[mem[p].id] = {} =>
    /\ Tracked(p)
    /\ at[p] # "reconciled" \/ p \notin outdated => Keeps(p, saved[mem[p].id], mem[p])

WorkersInvariant ==
  /\ \A r \in Runs : upset[r] = {} => Findable(saved[r])
  /\ \A p \in Procs : Loaded(p) /\ UpToDate(p) /\ Remembers(p)

OwnershipInvariant == BaseInvariant /\ HoldsLock /\ WorkersInvariant

-----------------------------------------------------------------------------
(* The data of a run *)

(* The pid of an attempt says whose it is. *)
LEMMA PidShaped ==
  ASSUME NEW run, Shaped(run), NEW t \in Tasks, NEW n \in DOMAIN run.tasks[t].attempts,
         run.tasks[t].attempts[n].pid # NoWorker
  PROVE /\ run.tasks[t].attempts[n].pid.run = run.id
        /\ run.tasks[t].attempts[n].pid.task = t
        /\ run.tasks[t].attempts[n].pid.number = n
  BY DEF Shaped

(* The state of a run says nothing of its attempts. *)
LEMMA SameTasksShape ==
  ASSUME NEW run, NEW new, new.id = run.id, new.tasks = run.tasks
  PROVE /\ Shaped(run) => Shaped(new)
        /\ InRange(run) => InRange(new)
        /\ Untouched(run) => InRange(new)
<1>1. ASSUME Shaped(run) PROVE Shaped(new)
  <2> SUFFICES ASSUME NEW t \in Tasks, NEW n \in DOMAIN run.tasks[t].attempts,
                      run.tasks[t].attempts[n].pid # NoWorker
               PROVE LET w == run.tasks[t].attempts[n].pid
                     IN  w.run = run.id /\ w.task = t /\ w.number = n
    BY DEF Shaped
  <2> QED BY <1>1, PidShaped
<1>2. InRange(run) => InRange(new) BY DEF InRange
<1>3. Untouched(run) => InRange(new) BY DEF Untouched, InRange, FreshTask
<1> QED BY <1>1, <1>2, <1>3

(* The same workers, attempt by attempt. *)
SamePids(s, u) == DOMAIN s = DOMAIN u /\ \A n \in DOMAIN s : s[n].pid = u[n].pid

(* The outcome of an attempt changes nothing else of it. *)
LEMMA SetOutcome ==
  ASSUME NEW s \in Seq(Attempts), NEW n, NEW e \in AttemptEnds \cup {"interrupted", "none"}
  PROVE /\ [s EXCEPT ![n].outcome = e] \in Seq(Attempts)
        /\ SamePids(s, [s EXCEPT ![n].outcome = e])
<1>1. Len(s) \in Nat /\ DOMAIN s = 1 .. Len(s) /\ s \in [1 .. Len(s) -> Attempts]
  BY LenProperties
<1>2. CASE n \in 1 .. Len(s)
  <2>1. s[n] \in Attempts BY <1>1, <1>2
  <2>2. [s[n] EXCEPT !.outcome = e] \in Attempts /\ [s[n] EXCEPT !.outcome = e].pid = s[n].pid
    BY <2>1 DEF Attempts
  <2>3. [s EXCEPT ![n].outcome = e] = [s EXCEPT ![n] = [s[n] EXCEPT !.outcome = e]] OBVIOUS
  <2>4. [s EXCEPT ![n] = [s[n] EXCEPT !.outcome = e]] \in Seq(Attempts)
    BY <1>2, <2>2, ExceptSeq
  <2> QED BY <1>1, <1>2, <2>2, <2>3, <2>4 DEF SamePids
<1>3. CASE n \notin 1 .. Len(s)
  <2>1. [s EXCEPT ![n].outcome = e] = s BY <1>1, <1>3
  <2> QED BY <2>1 DEF SamePids
<1> QED BY <1>2, <1>3

(* The pid of an attempt is noted. *)
LEMMA SetPid ==
  ASSUME NEW s \in Seq(Attempts), NEW n, NEW w \in Workers
  PROVE /\ [s EXCEPT ![n].pid = w] \in Seq(Attempts)
        /\ DOMAIN [s EXCEPT ![n].pid = w] = DOMAIN s
        /\ \A m \in DOMAIN s : [s EXCEPT ![n].pid = w][m].pid = IF m = n THEN w ELSE s[m].pid
<1>1. Len(s) \in Nat /\ DOMAIN s = 1 .. Len(s) /\ s \in [1 .. Len(s) -> Attempts]
  BY LenProperties
<1>2. CASE n \in 1 .. Len(s)
  <2>1. s[n] \in Attempts BY <1>1, <1>2
  <2>2. [s[n] EXCEPT !.pid = w] \in Attempts /\ [s[n] EXCEPT !.pid = w].pid = w
    BY <2>1 DEF Attempts
  <2>3. [s EXCEPT ![n].pid = w] = [s EXCEPT ![n] = [s[n] EXCEPT !.pid = w]] OBVIOUS
  <2>4. [s EXCEPT ![n] = [s[n] EXCEPT !.pid = w]] \in Seq(Attempts)
    BY <1>2, <2>2, ExceptSeq
  <2> QED BY <1>1, <1>2, <2>2, <2>3, <2>4
<1>3. CASE n \notin 1 .. Len(s)
  <2>1. [s EXCEPT ![n].pid = w] = s BY <1>1, <1>3
  <2> QED BY <1>1, <1>3, <2>1
<1> QED BY <1>2, <1>3

(* A task keeps the workers of its attempts, and is not in flight. *)
PutBack(old, new) ==
  /\ new \in TaskRecords /\ SamePids(old.attempts, new.attempts)
  /\ new.state \notin {"running", "waiting"}

(* What a resume makes of a task. *)
Reconciled(t, task, c) == FollowedUp(t, Forced(t, ReconciledState(t, task, c), c), c)

(* A task that runs again is pending, with the attempts it had. *)
LEMMA AgainType ==
  ASSUME NEW task \in TaskRecords
  PROVE /\ Again(task) \in TaskRecords /\ Again(task).state = "pending"
        /\ Again(task).attempts = task.attempts
  BY DEF Again, TaskRecords, TaskStates, SkipReasons

(* reconcileForResume puts a task back with the workers its attempts name,  *)
(* and leaves a success alone. *)
LEMMA ReconciledStateFacts ==
  ASSUME NEW t \in Tasks, NEW task \in TaskRecords, NEW c
  PROVE /\ PutBack(task, ReconciledState(t, task, c))
        /\ task.state = "success" => ReconciledState(t, task, c) = task
<1> DEFINE new == ReconciledState(t, task, c)
<1>0. task.state \in TaskStates /\ task.attempts \in Seq(Attempts) BY DEF TaskRecords
<1>a. SamePids(task.attempts, task.attempts) BY DEF SamePids
<1>b. /\ Again(task) \in TaskRecords /\ Again(task).state = "pending"
      /\ Again(task).attempts = task.attempts
  BY AgainType
<1>1. CASE task.state \in {"running", "waiting"}
  <2>1. new = [Again(task) EXCEPT !.attempts = Closed(task), !.current = 0]
    BY <1>1 DEF ReconciledState
  <2>2. Closed(task) \in Seq(Attempts) /\ SamePids(task.attempts, Closed(task))
    BY <1>0, <1>a, SetOutcome DEF Closed
  <2>3. 0 \in 0 .. MaxAttempts BY BoundsAssumption
  <2>4. new \in TaskRecords /\ new.attempts = Closed(task) /\ new.state = "pending"
    BY <1>b, <2>1, <2>2, <2>3 DEF TaskRecords
  <2> QED BY <1>1, <2>2, <2>4 DEF PutBack
<1>2. CASE new = Again(task) /\ task.state # "success" BY <1>2, <1>a, <1>b DEF PutBack
<1>3. CASE task.state = "awaiting_approval"
  <2>1. PICK v \in {"approved", "rejected", Again(task).approval} :
          new = [Again(task) EXCEPT !.approval = v]
    BY <1>3 DEF ReconciledState
  <2>2. v \in {"none", "approved", "rejected"} BY <1>b, <2>1 DEF TaskRecords
  <2>3. new \in TaskRecords /\ new.attempts = task.attempts /\ new.state = "pending"
    BY <1>b, <2>1, <2>2 DEF TaskRecords
  <2> QED BY <1>3, <1>a, <2>3 DEF PutBack
<1>4. CASE new = task /\ task.state \notin {"running", "waiting"} BY <1>4, <1>a DEF PutBack
<1>5. \/ task.state \in {"running", "waiting"} \/ task.state = "awaiting_approval"
      \/ new = Again(task) /\ task.state # "success"
      \/ new = task /\ task.state \notin {"running", "waiting"}
  BY DEF ReconciledState
<1> QED BY <1>1, <1>2, <1>3, <1>4, <1>5

(* reconcileForResume forgets no worker, leaves no task in flight, and puts *)
(* no success back that was not asked for.                                  *)
LEMMA ReconciledFacts ==
  ASSUME NEW t \in Tasks, NEW task \in TaskRecords, NEW c
  PROVE /\ PutBack(task, Reconciled(t, task, c))
        /\ task.state = "success" =>
             Reconciled(t, task, c).state = "success" \/ t \in c.named \cup c.answer
<1> DEFINE s == ReconciledState(t, task, c)
           f == Forced(t, s, c)
<1>1. PutBack(task, s) /\ (task.state = "success" => s = task) BY ReconciledStateFacts
<1>2. PutBack(task, f) /\ (task.state = "success" => f = task \/ t \in c.named)
  <2> HIDE DEF s
  <2>1. CASE f = s BY <1>1, <2>1
  <2>2. CASE f = [Again(s) EXCEPT !.approval = "none"] /\ t \in c.named
    <3>1. Again(s) \in TaskRecords /\ Again(s).state = "pending" /\ Again(s).attempts = s.attempts
      BY <1>1, AgainType DEF PutBack
    <3>2. f \in TaskRecords /\ f.state = "pending" /\ f.attempts = s.attempts
      BY <2>2, <3>1 DEF TaskRecords
    <3> QED BY <1>1, <2>2, <3>2 DEF PutBack
  <2> QED BY <2>1, <2>2 DEF Forced
<1>3. CASE Reconciled(t, task, c) = f BY <1>2, <1>3
<1>4. CASE Reconciled(t, task, c) = Again(f) /\ t \in c.answer
  <2> HIDE DEF f
  <2>1. Again(f) \in TaskRecords /\ Again(f).state = "pending" /\ Again(f).attempts = f.attempts
    BY <1>2, AgainType DEF PutBack
  <2> QED BY <1>2, <1>4, <2>1 DEF PutBack
<1> QED BY <1>3, <1>4 DEF Reconciled, FollowedUp

(* The run that a resume goes on with. *)
LEMMA ReconcileFacts ==
  ASSUME NEW run \in RunRecords, NEW c
  PROVE LET new == ReconcileForResume(run, c)
        IN  /\ new \in RunRecords /\ new.id = run.id /\ new.state = run.state
            /\ \A t \in Tasks :
                 /\ PutBack(run.tasks[t], new.tasks[t])
                 /\ run.tasks[t].state = "success" =>
                      new.tasks[t].state = "success" \/ t \in c.named \cup c.answer
<1> DEFINE new == ReconcileForResume(run, c)
           tasks == [t \in Tasks |-> Reconciled(t, run.tasks[t], c)]
<1>1. run.tasks \in [Tasks -> TaskRecords] BY DEF RunRecords
<1>2. \A t \in Tasks :
        /\ PutBack(run.tasks[t], tasks[t])
        /\ run.tasks[t].state = "success" =>
             tasks[t].state = "success" \/ t \in c.named \cup c.answer
  BY <1>1, ReconciledFacts
<1>3. new = [run EXCEPT !.tasks = tasks] BY DEF ReconcileForResume, Reconciled
<1>4. tasks \in [Tasks -> TaskRecords] BY <1>2 DEF PutBack
<1> HIDE DEF tasks
<1>5. /\ new \in RunRecords /\ new.id = run.id /\ new.state = run.state /\ new.tasks = tasks
  <2> HIDE DEF new
  <2> QED BY <1>3, <1>4 DEF RunRecords
<1> QED BY <1>2, <1>5

(* The run that an exit handler writes. *)
LEMMA PersistFacts ==
  ASSUME NEW run \in RunRecords
  PROVE LET new == PersistInterrupted(run)
        IN  /\ new \in RunRecords /\ new.id = run.id /\ new.state = "interrupted"
            /\ \A t \in Tasks :
                 /\ PutBack(run.tasks[t], new.tasks[t])
                 /\ run.tasks[t].state = "success" => new.tasks[t].state = "success"
<1> DEFINE new == PersistInterrupted(run)
           One(task) ==
             CASE task.state \in {"running", "waiting"} ->
                    [task EXCEPT !.state = "cancelled", !.current = 0,
                       !.attempts = IF task.current = 0 \/ @[task.current].outcome # "none" THEN @
                                    ELSE [@ EXCEPT ![task.current].outcome = "interrupted"]]
               [] task.state = "ready" -> [task EXCEPT !.state = "cancelled"]
               [] OTHER -> task
           tasks == [t \in Tasks |-> One(run.tasks[t])]
<1>1. run.tasks \in [Tasks -> TaskRecords] BY DEF RunRecords
<1>2. ASSUME NEW task \in TaskRecords
      PROVE PutBack(task, One(task)) /\ (task.state = "success" => One(task).state = "success")
  <2>0. task.attempts \in Seq(Attempts) /\ SamePids(task.attempts, task.attempts)
    BY DEF TaskRecords, SamePids
  <2>1. CASE task.state \in {"running", "waiting"}
    <3> DEFINE s == IF task.current = 0 \/ task.attempts[task.current].outcome # "none"
                    THEN task.attempts
                    ELSE [task.attempts EXCEPT ![task.current].outcome = "interrupted"]
    <3>1. One(task) = [task EXCEPT !.state = "cancelled", !.current = 0, !.attempts = s]
      BY <2>1
    <3>2. s \in Seq(Attempts) /\ SamePids(task.attempts, s) BY <2>0, SetOutcome
    <3>3. 0 \in 0 .. MaxAttempts BY BoundsAssumption
    <3> HIDE DEF s, One
    <3>4. One(task) \in TaskRecords /\ One(task).attempts = s /\ One(task).state = "cancelled"
      BY <3>1, <3>2, <3>3 DEF TaskRecords, TaskStates
    <3> QED BY <2>1, <3>2, <3>4 DEF PutBack
  <2>2. CASE task.state = "ready"
    <3>1. One(task) = [task EXCEPT !.state = "cancelled"] BY <2>2
    <3> HIDE DEF One
    <3>2. One(task) \in TaskRecords /\ One(task).attempts = task.attempts
          /\ One(task).state = "cancelled"
      BY <3>1 DEF TaskRecords, TaskStates
    <3> QED BY <2>0, <2>2, <3>2 DEF PutBack
  <2>3. CASE task.state \notin {"running", "waiting", "ready"}
    <3>1. One(task) = task BY <2>3
    <3> HIDE DEF One
    <3> QED BY <2>0, <2>3, <3>1 DEF PutBack
  <2> QED BY <2>1, <2>2, <2>3
<1>3. \A t \in Tasks :
        /\ PutBack(run.tasks[t], tasks[t])
        /\ run.tasks[t].state = "success" => tasks[t].state = "success"
  <2> HIDE DEF One
  <2> QED BY <1>1, <1>2
<1>4. new = [run EXCEPT !.state = "interrupted", !.tasks = tasks]
  <2> SUFFICES tasks = [t \in Tasks |->
       LET task == run.tasks[t]
       IN CASE task.state \in {"running", "waiting"} ->
                 [task EXCEPT !.state = "cancelled", !.current = 0,
                    !.attempts = IF task.current = 0 \/ @[task.current].outcome # "none" THEN @
                                 ELSE [@ EXCEPT ![task.current].outcome = "interrupted"]]
            [] task.state = "ready" -> [task EXCEPT !.state = "cancelled"]
            [] OTHER -> task]
    BY DEF PersistInterrupted
  <2> QED OBVIOUS
<1>5. tasks \in [Tasks -> TaskRecords]
  <2> HIDE DEF One
  <2> QED BY <1>3 DEF PutBack
<1> HIDE DEF tasks, One
<1>6. new \in RunRecords /\ new.id = run.id /\ new.state = "interrupted" /\ new.tasks = tasks
  <2> HIDE DEF new
  <2> QED BY <1>4, <1>5 DEF RunRecords, RunStates
<1> QED BY <1>3, <1>6

(* The tasks of a run that ends: what had not started may be cancelled. *)
LEMMA FinalFacts ==
  ASSUME NEW run \in RunRecords, NEW cause \in Causes
  PROVE /\ FinalTasks(run, cause) \in [Tasks -> TaskRecords]
        /\ \A t \in Tasks :
             LET old == run.tasks[t]
                 new == FinalTasks(run, cause)[t]
             IN  /\ new.attempts = old.attempts /\ new.current = old.current
                 /\ \/ new.state = old.state
                       /\ (cause \in {"signal", "on_failure"} => old.state \notin {"pending", "ready"})
                    \/ old.state \in {"pending", "ready"} /\ new.state = "cancelled"
                       /\ cause \in {"signal", "on_failure"}
        /\ FinalState(FinalTasks(run, cause), cause) \in RunStates
<1> DEFINE tasks == FinalTasks(run, cause)
<1>1. ASSUME NEW t \in Tasks
      PROVE /\ tasks[t] \in TaskRecords
            /\ tasks[t].attempts = run.tasks[t].attempts /\ tasks[t].current = run.tasks[t].current
            /\ \/ tasks[t].state = run.tasks[t].state
                  /\ (cause \in {"signal", "on_failure"} => run.tasks[t].state \notin {"pending", "ready"})
               \/ run.tasks[t].state \in {"pending", "ready"} /\ tasks[t].state = "cancelled"
                  /\ cause \in {"signal", "on_failure"}
  <2>1. run.tasks[t] \in TaskRecords BY DEF RunRecords
  <2>2. \/ tasks[t] = run.tasks[t]
           /\ (cause \in {"signal", "on_failure"} => run.tasks[t].state \notin {"pending", "ready"})
        \/ /\ run.tasks[t].state \in {"pending", "ready"} /\ cause \in {"signal", "on_failure"}
           /\ tasks[t] = [run.tasks[t] EXCEPT !.state = "cancelled"]
    BY DEF FinalTasks
  <2> HIDE DEF tasks
  <2> QED BY <2>1, <2>2 DEF TaskRecords, TaskStates
<1>2. FinalState(tasks, cause) \in RunStates BY DEF FinalState, RunStates
<1>3. tasks \in [Tasks -> TaskRecords] BY <1>1 DEF FinalTasks
<1> QED BY <1>1, <1>2, <1>3

-----------------------------------------------------------------------------
(* What the steps of an owner do to its run *)

(* persist: the run in memory, the run on disk and live.json. *)
LEMMA SaveFacts ==
  ASSUME TypeOK, NEW p \in Procs, NEW run \in RunRecords, run.id \in Runs, Save(p, run)
  PROVE /\ mem' \in [Procs -> RunRecords] /\ saved' \in [Runs -> RunRecords]
        /\ live' \in [Runs -> Lives] /\ UNCHANGED <<asked, lock, recycled, upset, outdated>>
        /\ mem'[p] = run /\ \A q \in Procs \ {p} : mem'[q] = mem[q]
        /\ saved'[run.id] = run /\ \A r \in Runs \ {run.id} : saved'[r] = saved[r]
        /\ live'[run.id] = [pid |-> p, fresh |-> TRUE, state |-> run.state]
        /\ \A r \in Runs \ {run.id} : live'[r] = live[r]
<1>1. run.state \in RunStates BY DEF RunRecords
<1>2. [pid |-> p, fresh |-> TRUE, state |-> run.state] \in Lives BY <1>1 DEF Lives
<1> QED BY <1>2 DEF Save, TypeOK, history

(* The run with another record of one task. *)
WithTask(run, t, new) == [run EXCEPT !.tasks[t] = new]

(* Another record of one task leaves the rest of the run. *)
LEMMA WithTaskFacts ==
  ASSUME NEW run \in RunRecords, NEW t \in Tasks, NEW new \in TaskRecords
  PROVE /\ WithTask(run, t, new) \in RunRecords
        /\ WithTask(run, t, new).id = run.id /\ WithTask(run, t, new).state = run.state
        /\ WithTask(run, t, new).tasks[t] = new
        /\ \A u \in Tasks \ {t} : WithTask(run, t, new).tasks[u] = run.tasks[u]
  BY DEF WithTask, RunRecords

(* How a task changes while its run is executed: attempts are only added,   *)
(* without a worker, and one is current unless its worker has gone.         *)
TaskMoves(old, new) ==
  /\ new \in TaskRecords /\ old.state # "success"
  /\ \A n \in DOMAIN old.attempts :
       n \in DOMAIN new.attempts /\ new.attempts[n].pid = old.attempts[n].pid
  /\ \A n \in DOMAIN new.attempts : n \in DOMAIN old.attempts \/ new.attempts[n].pid = NoWorker
  /\ \/ /\ new.state \in {"running", "waiting"} /\ old.state \in {"running", "waiting"}
        /\ new.current = old.current
     \/ /\ new.state \in {"running", "waiting"} => new.current \in DOMAIN new.attempts
        /\ old.state \notin {"running", "waiting"} \/ old.attempts[old.current].pid \notin workers

(* The steps on one task. *)
OnTask(p, t) ==
  Promote(p, t) \/ Launch(p, t) \/ Ask(p, t) \/ \E end \in Endings : Settle(p, t, end)

(* What an owner does about a task changes the record of that task only,    *)
(* and saves it. *)
LEMMA OnTaskFacts ==
  ASSUME TypeOK, NEW p \in Procs, NEW t \in Tasks, OnTask(p, t)
  PROVE \E new : /\ TaskMoves(mem[p].tasks[t], new) /\ SaveTask(p, t, new)
                 /\ at[p] = "executing" /\ UNCHANGED <<at, workers>>
<1> DEFINE task == mem[p].tasks[t]
<1>0. /\ task \in TaskRecords /\ task.attempts \in Seq(Attempts) /\ task.current \in 0 .. MaxAttempts
      /\ task.approval \in {"none", "approved", "rejected"}
  BY DEF TypeOK, RunRecords, TaskRecords
<1> HIDE DEF task
<1>1. CASE Promote(p, t)
  <2>1. task.state = "pending" /\ at[p] = "executing" /\ UNCHANGED <<at, workers>>
    BY <1>1 DEF Promote, task
  <2>2. PICK state \in {"ready", "skipped", "blocked", "awaiting_approval"}, why \in SkipReasons :
          SaveTask(p, t, [task EXCEPT !.state = state, !.reason = why])
    <3>1. task.reason \in SkipReasons BY <1>0 DEF TaskRecords
    <3>2. \A s : [task EXCEPT !.state = s] = [task EXCEPT !.state = s, !.reason = task.reason]
      BY <1>0 DEF TaskRecords
    <3> QED BY <1>1, <3>1, <3>2 DEF Promote, task
  <2> DEFINE new == [task EXCEPT !.state = state, !.reason = why]
  <2>3. new \in TaskRecords /\ new.attempts = task.attempts /\ new.state = state
    BY <1>0 DEF TaskRecords, TaskStates
  <2>4. TaskMoves(task, new) BY <2>1, <2>3 DEF TaskMoves
  <2> QED BY <2>1, <2>2, <2>4 DEF task
<1>2. CASE Launch(p, t)
  <2> DEFINE none == [pid |-> NoWorker, outcome |-> "none"]
             new == [task EXCEPT !.state = "running", !.current = LastOf(task) + 1,
                           !.attempts = Append(@, none)]
  <2>1. /\ task.state = "ready" /\ at[p] = "executing" /\ UNCHANGED <<at, workers>>
        /\ LastOf(task) < AttemptsLeft(mem[p].id) /\ SaveTask(p, t, new)
    BY <1>2 DEF Launch, task
  <2>a. AttemptsLeft(mem[p].id) \in Nat /\ AttemptsLeft(mem[p].id) <= MaxAttempts
    BY BoundsAssumption DEF AttemptsLeft
  <2>2. none \in Attempts BY DEF Attempts
  <2>3. /\ Len(task.attempts) \in Nat /\ DOMAIN task.attempts = 1 .. Len(task.attempts)
        /\ Append(task.attempts, none) \in Seq(Attempts)
        /\ DOMAIN Append(task.attempts, none) = 1 .. Len(task.attempts) + 1
        /\ Append(task.attempts, none)[Len(task.attempts) + 1] = none
        /\ \A n \in 1 .. Len(task.attempts) : Append(task.attempts, none)[n] = task.attempts[n]
    BY <1>0, <2>2, LenProperties, AppendProperties
  <2>4. Len(task.attempts) + 1 \in 0 .. MaxAttempts
    BY <2>1, <2>3, <2>a, BoundsAssumption DEF LastOf
  <2>5. /\ new \in TaskRecords /\ new.attempts = Append(task.attempts, none)
        /\ new.state = "running" /\ new.current = Len(task.attempts) + 1
    <3> HIDE DEF none
    <3> QED BY <1>0, <2>3, <2>4 DEF TaskRecords, TaskStates, LastOf
  <2>6. TaskMoves(task, new)
    <3> HIDE DEF new
    <3>1. \A n \in DOMAIN new.attempts : n \in DOMAIN task.attempts \/ new.attempts[n] = none
      BY <2>3, <2>5
    <3> QED BY <2>1, <2>3, <2>5, <3>1 DEF TaskMoves
  <2> QED BY <2>1, <2>6 DEF task
<1>3. CASE Ask(p, t)
  <2> DEFINE new == [task EXCEPT !.state = IF @ = "running" THEN "waiting" ELSE "running"]
  <2>1. /\ task.state \in {"running", "waiting"} /\ at[p] = "executing" /\ UNCHANGED <<at, workers>>
        /\ SaveTask(p, t, new)
    BY <1>3 DEF Ask, task
  <2>2. /\ new \in TaskRecords /\ new.attempts = task.attempts
        /\ new.state \in {"running", "waiting"} /\ new.current = task.current
    BY <1>0 DEF TaskRecords, TaskStates
  <2>3. TaskMoves(task, new) BY <2>1, <2>2 DEF TaskMoves
  <2> QED BY <2>1, <2>3 DEF task
<1>4. ASSUME NEW end \in Endings, Settle(p, t, end)
      PROVE \E new : /\ TaskMoves(task, new) /\ SaveTask(p, t, new)
                     /\ at[p] = "executing" /\ UNCHANGED <<at, workers>>
  <2> DEFINE s == [task.attempts EXCEPT ![task.current].outcome = end]
             new == [task EXCEPT !.state = end, !.current = 0, !.reason = "other", !.attempts = s]
  <2>1. /\ task.state \in {"running", "waiting"} /\ at[p] = "executing" /\ UNCHANGED <<at, workers>>
        /\ task.attempts[task.current].pid \notin workers /\ SaveTask(p, t, new)
    BY <1>4 DEF Settle, task
  <2>2. end \in AttemptEnds BY EndingsAssumption
  <2>3. s \in Seq(Attempts) /\ SamePids(task.attempts, s) BY <1>0, <2>2, SetOutcome
  <2>4. 0 \in 0 .. MaxAttempts BY BoundsAssumption
  <2> HIDE DEF s
  <2>5. new \in TaskRecords /\ new.attempts = s /\ new.state = end /\ end \notin {"running", "waiting"}
    BY <1>0, <2>2, <2>3, <2>4 DEF TaskRecords, TaskStates, AttemptEnds, SkipReasons
  <2>6. TaskMoves(task, new) BY <2>1, <2>3, <2>5 DEF TaskMoves, SamePids
  <2> QED BY <2>1, <2>6
<1> QED BY <1>1, <1>2, <1>3, <1>4 DEF OnTask, task

-----------------------------------------------------------------------------
(* The base of the invariant, of every instance *)

(* A new run: nothing is done, and nobody works on it. *)
LEMMA NewRunFacts ==
  ASSUME NEW r \in Runs \cup {0}
  PROVE /\ NewRun(r) \in RunRecords /\ NewRun(r).id = r /\ NewRun(r).state = "created"
        /\ Untouched(NewRun(r)) /\ Shaped(NewRun(r)) /\ InRange(NewRun(r))
<1>1. FreshTask \in TaskRecords
  <2>1. 0 \in 0 .. MaxAttempts /\ <<>> \in Seq(Attempts) BY BoundsAssumption, EmptySeq
  <2> QED BY <2>1 DEF FreshTask, TaskRecords, TaskStates, SkipReasons
<1>2. NewRun(r) \in RunRecords BY <1>1 DEF NewRun, RunRecords, RunStates
<1>3. /\ NewRun(r).id = r /\ NewRun(r).state = "created"
      /\ \A t \in Tasks : NewRun(r).tasks[t] = FreshTask
  BY DEF NewRun
<1>4. FreshTask.attempts = <<>> /\ FreshTask.state = "pending" BY DEF FreshTask
<1> QED BY <1>2, <1>3, <1>4 DEF Untouched, Shaped, InRange

(* What is filed after a step. *)
LEMMA FiledNext ==
  ASSUME NEW r \in Runs,
         saved'[r].id = r \/ saved'[r] = NoRun, Shaped(saved'[r]),
         saved'[r].state = "completed" => AllDone(saved'[r])
  PROVE Filed(r)'
<1>1. NoRun' = NoRun OBVIOUS
<1> QED BY <1>1, Zenon DEF Filed

(* What a process does is nothing to what the others have in memory.        *)
LEMMA BaseFrame ==
  ASSUME BaseInvariant, TypeOK', NEW p \in Procs, OnRun(p)',
         \A q \in Procs \ {p} : at'[q] = at[q] /\ mem'[q] = mem[q] /\ asked'[q] = asked[q],
         \A r \in Runs : saved'[r] = saved[r] \/ (saved'[r].id = r /\ Filed(r)'),
         \A r \in Runs :
           \/ live'[r].pid = live[r].pid /\ live'[r].fresh = live[r].fresh
           \/ live'[r].pid = p /\ live'[r].fresh /\ at'[p] \in {"executing", "closing"},
         at[p] \in {"executing", "ending", "closing", "gone"} =>
           /\ at'[p] \in {"executing", "ending", "closing", "gone"}
           /\ at'[p] = "executing" => at[p] = "executing"
  PROVE BaseInvariant'
<1>1. ASSUME NEW r \in Runs PROVE Filed(r)'
  <2>1. CASE saved'[r] = saved[r]
    <3>1. /\ saved[r].id = r \/ saved[r] = NoRun
          /\ Shaped(saved[r])
          /\ saved[r].state = "completed" => AllDone(saved[r])
      BY DEF BaseInvariant, Filed
    <3>2. /\ saved'[r].id = r \/ saved'[r] = NoRun
          /\ Shaped(saved'[r])
          /\ saved'[r].state = "completed" => AllDone(saved'[r])
      BY <2>1, <3>1, Zenon
    <3> QED BY <3>2, FiledNext
  <2> QED BY <2>1
<1>2. ASSUME NEW q \in Procs \ {p} PROVE OnRun(q)'
  <2>1. OnRun(q) BY DEF BaseInvariant
  <2>2. HasRun(q)' BY <2>1 DEF OnRun, HasRun, Chosen
  <2>3. mem'[q] = mem[q] /\ at'[q] = at[q] /\ asked'[q] = asked[q] BY <1>2
  <2>4. DoneInMemory(q)' BY <2>1, <2>3 DEF OnRun, DoneInMemory, AllDone
  <2>5. InFlightInMemory(q)' BY <2>1, <2>3 DEF OnRun, InFlightInMemory, InRange, Untouched
  <2>6. Shaped(mem[q])'
    <3>1. Shaped(mem[q]) BY <2>1 DEF OnRun
    <3> QED BY <3>1, <2>3, Zenon
  <2> QED BY <2>2, <2>4, <2>5, <2>6 DEF OnRun
<1>3. LiveIsFresh' BY DEF BaseInvariant, LiveIsFresh
<1> QED BY <1>1, <1>2, <1>3 DEF BaseInvariant

(* A step that leaves the runs alone keeps what a process has in memory.     *)
LEMMA SameRun ==
  ASSUME BaseInvariant, TypeOK', NEW p \in Procs, UNCHANGED <<mem, saved>>,
         asked'[p] = asked[p] \/ at'[p] = "checked",
         \/ at'[p] \in {at[p], "checked"}
         \/ at[p] = "unlocked" /\ at'[p] = "locking"
         \/ at[p] = "locking" /\ at'[p] = "locked"
         \/ at[p] = "starting" /\ at'[p] = "executing",
         at'[p] = "checked" => at[p] = "idle"
  PROVE OnRun(p)'
<1>1. OnRun(p) BY DEF BaseInvariant
<1>2. HasRun(p)' BY <1>1 DEF OnRun, HasRun, Chosen, Owning
<1>3. DoneInMemory(p)' BY <1>1 DEF OnRun, DoneInMemory, AllDone
<1>4. InFlightInMemory(p)' BY <1>1 DEF OnRun, InFlightInMemory, Working, InRange, Untouched
<1> QED BY <1>1, <1>2, <1>3, <1>4 DEF OnRun, Shaped

(* The steps of a process that leave the runs alone, and its end. *)
Quiet(p) ==
  CheckActive(p) \/ (ReadLock(p) /\ at'[p] # "gone") \/ WriteLock(p) \/ StartHeartbeat(p) \/ Beat(p)
Ends(p) == (ReadLock(p) /\ at'[p] = "gone") \/ NothingToDo(p) \/ Release(p) \/ Die(p)

(* What they change. *)
LEMMA QuietFacts ==
  ASSUME TypeOK, NEW p \in Procs, Quiet(p)
  PROVE /\ UNCHANGED <<mem, saved, workers, recycled>>
        /\ \A q \in Procs \ {p} : at'[q] = at[q] /\ asked'[q] = asked[q]
        /\ at' \in [Procs -> Stages]
        /\ asked' \in [Procs -> Commands \cup {[kind |-> "none"]}]
        /\ asked'[p] = asked[p] \/ at'[p] = "checked"
        /\ \/ at'[p] \in {at[p], "checked"}
           \/ at[p] = "unlocked" /\ at'[p] = "locking"
           \/ at[p] = "locking" /\ at'[p] = "locked" /\ WriteLock(p)
           \/ at[p] = "starting" /\ at'[p] = "executing"
        /\ at'[p] = "checked" => at[p] = "idle"
        /\ at[p] # "gone" /\ at'[p] # "gone"
<1>1. CASE CheckActive(p) BY <1>1 DEF CheckActive, TypeOK, Stages, files
<1>2. CASE ReadLock(p) /\ at'[p] # "gone"
  <2>1. /\ at[p] = "unlocked" /\ at' = [at EXCEPT ![p] = "locking"]
        /\ UNCHANGED <<asked, mem, saved, workers, recycled>>
    BY <1>2 DEF ReadLock, Gone, TypeOK, files
  <2> QED BY <2>1 DEF TypeOK, Stages
<1>3. CASE WriteLock(p) BY <1>3 DEF WriteLock, TypeOK, Stages
<1>4. CASE StartHeartbeat(p) \/ Beat(p) BY <1>4 DEF StartHeartbeat, Beat, TypeOK, Stages, files
<1> QED BY <1>1, <1>2, <1>3, <1>4 DEF Quiet

(* What they leave alone. *)
LEMMA EndsFacts ==
  ASSUME TypeOK, NEW p \in Procs, Ends(p)
  PROVE /\ at[p] # "gone" /\ Gone(p) /\ UNCHANGED <<saved, live, workers, recycled, upset, outdated>>
        /\ lock' = lock \/ (at[p] \in Owning /\ lock' = Released(p))
        /\ at'[p] = "gone" /\ mem'[p] = NoRun
        /\ \A q \in Procs \ {p} : at'[q] = at[q] /\ asked'[q] = asked[q] /\ mem'[q] = mem[q]
<1>1. CASE ReadLock(p) /\ at'[p] = "gone"
  <2>1. /\ at[p] = "unlocked" /\ Gone(p)
        /\ UNCHANGED <<saved, lock, live, workers, recycled, upset, outdated>>
    BY <1>1 DEF ReadLock, TypeOK, files, history
  <2> QED BY <2>1 DEF Gone, TypeOK
<1>2. CASE NothingToDo(p) BY <1>2 DEF NothingToDo, Gone, TypeOK, history, Owning
<1>3. CASE Release(p) BY <1>3 DEF Release, Gone, TypeOK, history, Owning
<1>4. CASE Die(p) BY <1>4 DEF Die, Gone, TypeOK, files, history
<1> QED BY <1>1, <1>2, <1>3, <1>4 DEF Ends

(* A released lock. *)
LEMMA ReleasedType ==
  ASSUME TypeOK, NEW p \in Procs
  PROVE Released(p) \in [Runs -> Locks]
<1>1. NoLock \in Locks BY DEF NoLock, Locks
<1> QED BY <1>1 DEF Released, TypeOK

(* The steps that leave the runs alone keep the base. *)
LEMMA BaseQuiet ==
  ASSUME BaseInvariant, NEW p \in Procs, Quiet(p)
  PROVE BaseInvariant'
<1>0. TypeOK /\ OnRun(p) BY DEF BaseInvariant
<1>1. /\ UNCHANGED <<mem, saved, workers, recycled>>
      /\ \A q \in Procs \ {p} : at'[q] = at[q] /\ asked'[q] = asked[q]
      /\ at' \in [Procs -> Stages]
      /\ asked' \in [Procs -> Commands \cup {[kind |-> "none"]}]
      /\ asked'[p] = asked[p] \/ at'[p] = "checked"
      /\ \/ at'[p] \in {at[p], "checked"}
         \/ at[p] = "unlocked" /\ at'[p] = "locking"
         \/ at[p] = "locking" /\ at'[p] = "locked"
         \/ at[p] = "starting" /\ at'[p] = "executing"
      /\ at'[p] = "checked" => at[p] = "idle"
  BY <1>0, QuietFacts
<1>2. lock' \in [Runs -> Locks]
  <2>1. [pid |-> p, fresh |-> TRUE] \in Locks BY DEF Locks
  <2> QED BY <1>0, <2>1 DEF Quiet, TypeOK, CheckActive, ReadLock, WriteLock, StartHeartbeat, Beat, files
<1>3. upset' \in [Runs -> SUBSET Upsets] /\ outdated' \subseteq Procs
  <2>1. CASE WriteLock(p) BY <1>0, <2>1 DEF WriteLock, TypeOK, Upsets
  <2>2. CASE ~WriteLock(p)
    <3>1. UNCHANGED <<upset, outdated>>
      BY <2>2 DEF Quiet, CheckActive, ReadLock, StartHeartbeat, Beat, history
    <3> QED BY <1>0, <3>1 DEF TypeOK
  <2> QED BY <2>1, <2>2
<1>5. live' = live \/ (Beat(p) /\ live' = [live EXCEPT ![mem[p].id] = [pid |-> p, fresh |-> TRUE, state |-> mem[p].state]])
  BY DEF Quiet, CheckActive, ReadLock, WriteLock, StartHeartbeat, Beat, files
<1>6. live' \in [Runs -> Lives]
  <2>1. mem[p].state \in RunStates BY <1>0 DEF TypeOK, RunRecords
  <2>2. [pid |-> p, fresh |-> TRUE, state |-> mem[p].state] \in Lives BY <2>1 DEF Lives
  <2> QED BY <1>0, <1>5, <2>2 DEF TypeOK
<1>7. \A r \in Runs :
        \/ live'[r].pid = live[r].pid /\ live'[r].fresh = live[r].fresh
        \/ live'[r].pid = p /\ live'[r].fresh /\ at'[p] \in {"executing", "closing"}
  BY <1>0, <1>5 DEF Beat, TypeOK
<1>8. at[p] \in {"executing", "ending", "closing", "gone"} =>
        /\ at'[p] \in {"executing", "ending", "closing", "gone"}
        /\ at'[p] = "executing" => at[p] = "executing"
  BY <1>1
<1>9. TypeOK' BY <1>0, <1>1, <1>2, <1>3, <1>6 DEF TypeOK
<1>10. OnRun(p)' BY <1>1, <1>9, SameRun
<1> QED BY <1>1, <1>7, <1>8, <1>9, <1>10, BaseFrame

(* A process that has ended has nothing in memory. *)
LEMMA GoneFacts ==
  ASSUME TypeOK, NEW p \in Procs, Gone(p)
  PROVE /\ at' \in [Procs -> Stages] /\ mem' \in [Procs -> RunRecords]
        /\ asked' \in [Procs -> Commands \cup {[kind |-> "none"]}]
        /\ at'[p] = "gone" /\ mem'[p] = NoRun /\ OnRun(p)'
        /\ \A q \in Procs \ {p} : at'[q] = at[q] /\ mem'[q] = mem[q] /\ asked'[q] = asked[q]
<1>1. /\ NoRun \in RunRecords /\ NoRun.id = 0 /\ NoRun.state = "created" /\ Shaped(NoRun)
  BY NewRunFacts DEF NoRun
<1>2. /\ at' \in [Procs -> Stages] /\ mem' \in [Procs -> RunRecords]
      /\ asked' \in [Procs -> Commands \cup {[kind |-> "none"]}]
      /\ at'[p] = "gone" /\ mem'[p] = NoRun
      /\ \A q \in Procs \ {p} : at'[q] = at[q] /\ mem'[q] = mem[q] /\ asked'[q] = asked[q]
  BY <1>1 DEF Gone, TypeOK, Stages
<1>3. HasRun(p)' /\ DoneInMemory(p)' /\ InFlightInMemory(p)'
  BY <1>1, <1>2 DEF HasRun, Chosen, Owning, DoneInMemory, InFlightInMemory, Working
<1>4. Shaped(mem[p])' BY <1>1, <1>2, Zenon
<1> QED BY <1>2, <1>3, <1>4 DEF OnRun

(* The end of a process keeps the base. *)
LEMMA BaseEnds ==
  ASSUME BaseInvariant, NEW p \in Procs, Ends(p)
  PROVE BaseInvariant'
<1>0. TypeOK BY DEF BaseInvariant
<1>1. /\ Gone(p) /\ UNCHANGED <<saved, live, workers, recycled, upset, outdated>>
      /\ lock' = lock \/ lock' = Released(p)
  BY <1>0, EndsFacts
<1>2. /\ at' \in [Procs -> Stages] /\ mem' \in [Procs -> RunRecords]
      /\ asked' \in [Procs -> Commands \cup {[kind |-> "none"]}]
      /\ at'[p] = "gone" /\ mem'[p] = NoRun /\ OnRun(p)'
      /\ \A q \in Procs \ {p} : at'[q] = at[q] /\ mem'[q] = mem[q] /\ asked'[q] = asked[q]
  BY <1>0, <1>1, GoneFacts
<1>3. lock' \in [Runs -> Locks] BY <1>0, <1>1, ReleasedType DEF TypeOK
<1>4. TypeOK' BY <1>0, <1>1, <1>2, <1>3 DEF TypeOK
<1> QED BY <1>1, <1>2, <1>4, BaseFrame

(* A task that moves keeps the shape of its run. *)
LEMMA MovesShape ==
  ASSUME NEW run \in RunRecords, NEW t \in Tasks, NEW new, TaskMoves(run.tasks[t], new),
         Shaped(run), InRange(run)
  PROVE Shaped(WithTask(run, t, new)) /\ InRange(WithTask(run, t, new))
<1> DEFINE next == WithTask(run, t, new)
<1>1. /\ next.id = run.id /\ next.tasks[t] = new
      /\ \A u \in Tasks \ {t} : next.tasks[u] = run.tasks[u]
  BY WithTaskFacts DEF TaskMoves
<1> HIDE DEF next
<1>2. Shaped(next)
  <2> SUFFICES ASSUME NEW u \in Tasks, NEW n \in DOMAIN next.tasks[u].attempts,
                      next.tasks[u].attempts[n].pid # NoWorker
               PROVE LET w == next.tasks[u].attempts[n].pid
                     IN  w.run = run.id /\ w.task = u /\ w.number = n
    BY <1>1 DEF Shaped
  <2>1. CASE u # t BY <1>1, <2>1 DEF Shaped
  <2>2. CASE u = t
    <3>1. n \in DOMAIN run.tasks[t].attempts BY <1>1, <2>2 DEF TaskMoves
    <3>2. next.tasks[u].attempts[n].pid = run.tasks[t].attempts[n].pid
      BY <1>1, <2>2, <3>1 DEF TaskMoves
    <3> QED BY <2>2, <3>1, <3>2 DEF Shaped
  <2> QED BY <2>1, <2>2
<1>3. InRange(next)
  <2> SUFFICES ASSUME NEW u \in Tasks, next.tasks[u].state \in {"running", "waiting"}
               PROVE next.tasks[u].current \in DOMAIN next.tasks[u].attempts
    BY DEF InRange
  <2>1. CASE u # t BY <1>1, <2>1 DEF InRange
  <2>2. CASE u = t BY <1>1, <2>2 DEF InRange, TaskMoves
  <2> QED BY <2>1, <2>2
<1> QED BY <1>2, <1>3 DEF next

(* What an owner that executes writes of its run is what it has in memory.  *)
LEMMA BaseWrites ==
  ASSUME BaseInvariant, TypeOK', NEW p \in Procs, NEW run, run.id \in Runs,
         at[p] = "executing", run.id = mem[p].id, run.state \in {"running", "paused"},
         Shaped(run), InRange(run), UNCHANGED <<at, asked>>,
         mem'[p] = run, \A q \in Procs \ {p} : mem'[q] = mem[q],
         saved'[run.id] = run, \A r \in Runs \ {run.id} : saved'[r] = saved[r],
         \A r \in Runs : live'[r] = live[r] \/ (live'[r].pid = p /\ live'[r].fresh)
  PROVE BaseInvariant'
<1>1. OnRun(p)'
  BY DEF OnRun, HasRun, DoneInMemory, InFlightInMemory, Shaped, InRange
<1>2. Filed(run.id)' BY DEF Filed, Shaped
<1> QED BY <1>1, <1>2, BaseFrame

(* An owner that saves a run while it executes keeps the base. *)
LEMMA BaseExecuting ==
  ASSUME BaseInvariant, NEW p \in Procs, NEW run \in RunRecords,
         at[p] = "executing", run.id = mem[p].id, run.state \in {"running", "paused"},
         Shaped(run), InRange(run), Save(p, run), UNCHANGED <<at, workers>>
  PROVE BaseInvariant'
<1>0. TypeOK /\ OnRun(p) BY DEF BaseInvariant
<1>1. run.id \in Runs BY <1>0 DEF OnRun, HasRun, Chosen, Owning
<1>2. /\ mem' \in [Procs -> RunRecords] /\ saved' \in [Runs -> RunRecords]
      /\ live' \in [Runs -> Lives] /\ UNCHANGED <<asked, lock, recycled, upset, outdated>>
      /\ mem'[p] = run /\ \A q \in Procs \ {p} : mem'[q] = mem[q]
      /\ saved'[run.id] = run /\ \A r \in Runs \ {run.id} : saved'[r] = saved[r]
      /\ live'[run.id] = [pid |-> p, fresh |-> TRUE, state |-> run.state]
      /\ \A r \in Runs \ {run.id} : live'[r] = live[r]
  BY <1>0, <1>1, SaveFacts
<1>3. TypeOK' BY <1>0, <1>2 DEF TypeOK
<1> QED BY <1>1, <1>2, <1>3, BaseWrites

(* The steps of the execution. *)
LEMMA BaseTask ==
  ASSUME BaseInvariant, NEW p \in Procs,
         SavePid(p) \/ Hold(p) \/ \E t \in Tasks : OnTask(p, t)
  PROVE BaseInvariant'
<1>0. TypeOK /\ OnRun(p) /\ at[p] = "executing" /\ mem[p] \in RunRecords
  BY OnTaskFacts DEF BaseInvariant, TypeOK, SavePid, Hold
<1>1. /\ mem[p].state \in {"running", "paused"} /\ Shaped(mem[p]) /\ InRange(mem[p])
      /\ mem[p].id \in Runs
  BY <1>0 DEF OnRun, DoneInMemory, InFlightInMemory, Working, HasRun, Chosen, Owning
<1>2. CASE SavePid(p) BY <1>0, <1>1, <1>2, BaseExecuting DEF SavePid
<1>3. ASSUME NEW t \in Tasks, OnTask(p, t) PROVE BaseInvariant'
  <2>1. PICK new : /\ TaskMoves(mem[p].tasks[t], new) /\ SaveTask(p, t, new)
                   /\ at[p] = "executing" /\ UNCHANGED <<at, workers>>
    BY <1>0, <1>3, OnTaskFacts
  <2>2. Save(p, WithTask(mem[p], t, new)) BY <2>1 DEF SaveTask, WithTask
  <2>3. /\ WithTask(mem[p], t, new) \in RunRecords /\ WithTask(mem[p], t, new).id = mem[p].id
        /\ WithTask(mem[p], t, new).state = mem[p].state
    BY <1>0, <2>1, WithTaskFacts DEF TaskMoves
  <2>4. Shaped(WithTask(mem[p], t, new)) /\ InRange(WithTask(mem[p], t, new))
    BY <1>0, <1>1, <2>1, MovesShape
  <2> QED BY <1>0, <1>1, <2>1, <2>2, <2>3, <2>4, BaseExecuting
<1>4. CASE Hold(p)
  <2> PICK run : run = [mem[p] EXCEPT !.state = IF @ = "running" THEN "paused" ELSE "running"]
    OBVIOUS
  <2>1. /\ run \in RunRecords /\ run.id = mem[p].id /\ run.tasks = mem[p].tasks
        /\ run.state \in {"running", "paused"}
    BY <1>0 DEF RunRecords, RunStates
  <2>2. mem' = [mem EXCEPT ![p] = run] BY <1>4 DEF Hold
  <2>3. /\ mem'[p] = run /\ \A q \in Procs \ {p} : mem'[q] = mem[q]
        /\ mem' \in [Procs -> RunRecords]
    BY <1>0, <2>1, <2>2 DEF TypeOK
  <2>4. /\ saved' = [saved EXCEPT ![mem[p].id] = run]
        /\ UNCHANGED <<at, asked, lock, live, workers, recycled, upset, outdated>>
    BY <1>4, <2>3 DEF Hold, history
  <2>5. /\ saved'[run.id] = run /\ \A r \in Runs \ {run.id} : saved'[r] = saved[r]
        /\ saved' \in [Runs -> RunRecords]
    BY <1>0, <1>1, <2>1, <2>4 DEF TypeOK
  <2>6. TypeOK' BY <1>0, <2>3, <2>4, <2>5 DEF TypeOK
  <2>7. Shaped(run) /\ InRange(run) BY <1>1, <2>1, SameTasksShape
  <2> QED BY <1>0, <1>1, <2>1, <2>3, <2>4, <2>5, <2>6, <2>7, BaseWrites
<1> QED BY <1>2, <1>3, <1>4

(* The worker is noted in memory. *)
Noted(p, t, n, w, new) ==
  LET task == mem[p].tasks[t]
  IN  /\ at[p] = "executing" /\ UNCHANGED <<at, asked, files, recycled, upset, outdated>>
      /\ w \in Workers /\ workers' = workers \cup {w}
      /\ w.owner = p /\ w.run = mem[p].id /\ w.task = t /\ w.number = n
      /\ n \in DOMAIN task.attempts /\ task.attempts[n].pid = NoWorker
      /\ task.state = "running" /\ task.current = n
      /\ new \in TaskRecords /\ new.state = "running" /\ new.current = n
      /\ DOMAIN new.attempts = DOMAIN task.attempts /\ new.attempts[n].pid = w
      /\ \A m \in DOMAIN task.attempts \ {n} : new.attempts[m].pid = task.attempts[m].pid
      /\ mem' = [mem EXCEPT ![p] = WithTask(mem[p], t, new)]

(* A worker that starts is noted at the attempt it was started for. *)
LEMMA SpawnFacts ==
  ASSUME BaseInvariant, NEW p \in Procs, NEW t \in Tasks, Spawn(p, t)
  PROVE \E n, w, new : Noted(p, t, n, w, new)
<1> DEFINE task == mem[p].tasks[t]
           n == task.current
           w == [owner |-> p, run |-> mem[p].id, task |-> t, number |-> n]
           s == [task.attempts EXCEPT ![n].pid = w]
           new == [task EXCEPT !.attempts[n].pid = w]
<1>0. TypeOK /\ OnRun(p) BY DEF BaseInvariant
<1>1. /\ at[p] = "executing" /\ UNCHANGED <<at, asked, files, recycled, upset, outdated>>
      /\ task.state = "running" /\ workers' = workers \cup {w}
      /\ task.attempts[n].pid = NoWorker
      /\ mem' = [mem EXCEPT ![p].tasks[t].attempts[n].pid = w]
  BY DEF Spawn, history
<1>2. task \in TaskRecords /\ task.attempts \in Seq(Attempts) /\ n \in 0 .. MaxAttempts
      /\ mem[p] \in RunRecords
  BY <1>0 DEF TypeOK, RunRecords, TaskRecords
<1>3. mem[p].id \in Runs BY <1>0, <1>1 DEF OnRun, HasRun, Chosen, Owning
<1>4. n \in DOMAIN task.attempts
  BY <1>0, <1>1 DEF OnRun, InFlightInMemory, Working, InRange
<1>5. n \in 1 .. MaxAttempts BY <1>2, <1>4, LenProperties, BoundsAssumption
<1>6. w \in Workers BY <1>3, <1>5 DEF Workers
<1>7. /\ s \in Seq(Attempts) /\ DOMAIN s = DOMAIN task.attempts
      /\ \A m \in DOMAIN task.attempts : s[m].pid = IF m = n THEN w ELSE task.attempts[m].pid
  <2> HIDE DEF task, n, w
  <2> QED BY <1>2, <1>6, SetPid
<1>8. new = [task EXCEPT !.attempts = s] BY <1>2 DEF TaskRecords
<1>9. new \in TaskRecords /\ new.attempts = s /\ new.state = task.state /\ new.current = n
  <2> HIDE DEF s, new, task
  <2> QED BY <1>2, <1>7, <1>8 DEF TaskRecords, n
<1>10. mem' = [mem EXCEPT ![p] = WithTask(mem[p], t, new)] BY <1>1 DEF WithTask
<1> HIDE DEF s, new
<1>11. /\ DOMAIN new.attempts = DOMAIN task.attempts
       /\ \A m \in DOMAIN task.attempts : new.attempts[m].pid = IF m = n THEN w ELSE task.attempts[m].pid
  BY <1>7, <1>9
<1>12. Noted(p, t, n, w, new)
  BY <1>1, <1>4, <1>6, <1>9, <1>10, <1>11 DEF Noted
<1> QED BY <1>12

(* Starting a worker keeps the base. *)
LEMMA BaseSpawn ==
  ASSUME BaseInvariant, NEW p \in Procs, NEW t \in Tasks, Spawn(p, t)
  PROVE BaseInvariant'
<1>0. TypeOK /\ OnRun(p) BY DEF BaseInvariant
<1>1. PICK n, w, new : Noted(p, t, n, w, new)
  BY SpawnFacts
<1>2. mem[p] \in RunRecords BY <1>0 DEF TypeOK
<1>3. PICK run : run = WithTask(mem[p], t, new) OBVIOUS
<1>4. /\ run \in RunRecords /\ run.id = mem[p].id /\ run.state = mem[p].state
      /\ run.tasks[t] = new /\ \A u \in Tasks \ {t} : run.tasks[u] = mem[p].tasks[u]
  BY <1>1, <1>2, <1>3, WithTaskFacts DEF Noted
<1>5. mem'[p] = run /\ (\A q \in Procs \ {p} : mem'[q] = mem[q]) /\ mem' \in [Procs -> RunRecords]
  BY <1>0, <1>1, <1>3, <1>4 DEF Noted, TypeOK
<1>6. TypeOK' BY <1>0, <1>1, <1>5 DEF Noted, TypeOK, files
<1>7. Shaped(mem[p]) /\ InRange(mem[p]) /\ mem[p].state \in {"running", "paused"}
  BY <1>0, <1>1 DEF Noted, OnRun, InFlightInMemory, DoneInMemory, Working
<1>8. Shaped(run)
  <2> SUFFICES ASSUME NEW u \in Tasks, NEW m \in DOMAIN run.tasks[u].attempts,
                      run.tasks[u].attempts[m].pid # NoWorker
               PROVE LET v == run.tasks[u].attempts[m].pid
                     IN  v.run = run.id /\ v.task = u /\ v.number = m
    BY DEF Shaped
  <2>1. CASE u # t
    <3>1. run.tasks[u] = mem[p].tasks[u] /\ run.id = mem[p].id BY <1>4, <2>1
    <3> QED BY <1>7, <3>1, SMTT(30) DEF Shaped
  <2>2. CASE u = t /\ m # n
    <3>1. /\ m \in DOMAIN mem[p].tasks[t].attempts
          /\ run.tasks[u].attempts[m].pid = mem[p].tasks[t].attempts[m].pid
      BY <1>1, <1>4, <2>2 DEF Noted
    <3>2. mem[p].tasks[t].attempts[m].pid # NoWorker BY <3>1
    <3>3. /\ mem[p].tasks[t].attempts[m].pid.run = mem[p].id
          /\ mem[p].tasks[t].attempts[m].pid.task = t
          /\ mem[p].tasks[t].attempts[m].pid.number = m
      BY <1>7, <3>1, <3>2 DEF Shaped
    <3> QED BY <1>4, <2>2, <3>1, <3>3
  <2>3. CASE u = t /\ m = n
    <3>1. /\ run.tasks[u].attempts[m].pid = w
          /\ w.run = mem[p].id /\ w.task = t /\ w.number = n
      BY <1>1, <1>4, <2>3 DEF Noted
    <3> QED BY <1>4, <2>3, <3>1
  <2> QED BY <2>1, <2>2, <2>3
<1>9. InRange(run) BY <1>1, <1>4, <1>7 DEF Noted, InRange
<1>10. OnRun(p)'
  <2>1. HasRun(p)' BY <1>0, <1>1, <1>4, <1>5 DEF Noted, OnRun, HasRun, Chosen, Owning, files
  <2>2. DoneInMemory(p)' BY <1>1, <1>4, <1>5, <1>7 DEF Noted, DoneInMemory
  <2>3. InFlightInMemory(p)' BY <1>1, <1>5, <1>9 DEF Noted, InFlightInMemory, InRange
  <2> QED BY <1>5, <1>8, <2>1, <2>2, <2>3 DEF OnRun, Shaped
<1> QED BY <1>1, <1>5, <1>6, <1>10, BaseFrame DEF Noted, files

(* Creating a run keeps the base. *)
LEMMA BaseCreate ==
  ASSUME BaseInvariant, NEW p \in Procs, CreateRun(p)
  PROVE BaseInvariant'
<1>0. TypeOK BY DEF BaseInvariant
<1>1. PICK r \in Runs : /\ mem' = [mem EXCEPT ![p] = NewRun(r)]
                        /\ saved' = [saved EXCEPT ![r] = NewRun(r)]
  BY DEF CreateRun
<1>2. /\ NewRun(r) \in RunRecords /\ NewRun(r).id = r /\ NewRun(r).state = "created"
      /\ Untouched(NewRun(r)) /\ Shaped(NewRun(r)) /\ InRange(NewRun(r))
  BY NewRunFacts
<1>3. /\ at[p] = "checked" /\ at' = [at EXCEPT ![p] = "unlocked"]
      /\ UNCHANGED <<asked, lock, live, workers, recycled, upset, outdated>>
  BY DEF CreateRun, history
<1>4. /\ mem'[p] = NewRun(r) /\ \A q \in Procs \ {p} : mem'[q] = mem[q] /\ at'[q] = at[q]
      /\ saved'[r] = NewRun(r) /\ \A s \in Runs \ {r} : saved'[s] = saved[s]
      /\ at'[p] = "unlocked"
  BY <1>0, <1>1, <1>3 DEF TypeOK
<1>5. TypeOK' BY <1>0, <1>1, <1>2, <1>3 DEF TypeOK, Stages
<1>6. OnRun(p)'
  BY <1>2, <1>4 DEF OnRun, HasRun, DoneInMemory, InFlightInMemory, Working, Shaped, Untouched
<1>7. Filed(r)' BY <1>2, <1>4 DEF Filed, Shaped
<1> QED BY <1>2, <1>3, <1>4, <1>5, <1>6, <1>7, BaseFrame

(* Reading the run to be resumed keeps the base. *)
LEMMA BaseLoad ==
  ASSUME BaseInvariant, NEW p \in Procs, NEW r \in Runs, NEW c \in Commands, LoadRun(p, r, c)
  PROVE BaseInvariant'
<1>0. TypeOK /\ Filed(r) BY DEF BaseInvariant
<1>1. /\ at[p] = "idle" /\ c.kind = "resume" /\ saved[r].id = r
      /\ asked' = [asked EXCEPT ![p] = c] /\ mem' = [mem EXCEPT ![p] = saved[r]]
      /\ at' = [at EXCEPT ![p] = "unlocked"]
      /\ UNCHANGED <<saved, lock, live, workers, recycled, upset, outdated>>
  BY DEF LoadRun, Exists, files, history
<1>2. /\ mem'[p] = saved[r] /\ asked'[p] = c /\ at'[p] = "unlocked"
      /\ \A q \in Procs \ {p} : mem'[q] = mem[q] /\ at'[q] = at[q] /\ asked'[q] = asked[q]
  BY <1>0, <1>1 DEF TypeOK
<1>3. TypeOK' BY <1>0, <1>1 DEF TypeOK, Stages
<1>4. OnRun(p)'
  <2>1. /\ Shaped(saved[r]) /\ saved[r].id = r
        /\ saved[r].state = "completed" => AllDone(saved[r])
    BY <1>0, <1>1 DEF Filed
  <2>2. Shaped(mem'[p]) /\ (mem'[p].state = "completed" => AllDone(mem'[p]))
    BY <1>2, <2>1, Zenon
  <2>3. HasRun(p)' BY <1>1, <1>2 DEF HasRun
  <2>4. DoneInMemory(p)' BY <1>2, <2>2 DEF DoneInMemory, AllDone
  <2>5. InFlightInMemory(p)' BY <1>1, <1>2 DEF InFlightInMemory, Working
  <2>6. Shaped(mem[p])' BY <2>2, Zenon
  <2> QED BY <2>3, <2>4, <2>5, <2>6 DEF OnRun
<1> QED BY <1>1, <1>2, <1>3, <1>4, BaseFrame

(* A run whose tasks are put back keeps its shape. *)
LEMMA PutBackShape ==
  ASSUME NEW run, NEW new, new.id = run.id, \A t \in Tasks : PutBack(run.tasks[t], new.tasks[t])
  PROVE InRange(new) /\ (Shaped(run) => Shaped(new))
  BY DEF PutBack, SamePids, Shaped, InRange

(* Putting the run back together keeps the base (reconcileForResume). *)
LEMMA BaseReconcile ==
  ASSUME BaseInvariant, NEW p \in Procs, Reconcile(p)
  PROVE BaseInvariant'
<1>0. TypeOK /\ OnRun(p) /\ mem[p] \in RunRecords BY DEF BaseInvariant, TypeOK
<1>1. PICK run : run = ReconcileForResume(mem[p], asked[p]) OBVIOUS
<1>2. /\ run \in RunRecords /\ run.id = mem[p].id
      /\ \A t \in Tasks : PutBack(mem[p].tasks[t], run.tasks[t])
  BY <1>0, <1>1, ReconcileFacts
<1>3. /\ at[p] = "locked" /\ mem' = [mem EXCEPT ![p] = run] /\ at' = [at EXCEPT ![p] = "reconciled"]
      /\ workers' = workers \ Orphans(mem[p])
      /\ UNCHANGED <<asked, saved, lock, live, recycled, upset, outdated>>
  BY <1>1 DEF Reconcile, files, history
<1>4. /\ mem'[p] = run /\ at'[p] = "reconciled"
      /\ \A q \in Procs \ {p} : mem'[q] = mem[q] /\ at'[q] = at[q]
  BY <1>0, <1>3 DEF TypeOK
<1>5. TypeOK' BY <1>0, <1>2, <1>3 DEF TypeOK, Stages
<1>6. Shaped(run) /\ InRange(run) BY <1>0, <1>2, PutBackShape DEF OnRun
<1>7. OnRun(p)'
  <2>1. HasRun(p)' BY <1>0, <1>2, <1>3, <1>4 DEF OnRun, HasRun, Chosen, Owning
  <2>2. DoneInMemory(p)' BY <1>4 DEF DoneInMemory
  <2>3. InFlightInMemory(p)' BY <1>4, <1>6 DEF InFlightInMemory, InRange
  <2> QED BY <1>4, <1>6, <2>1, <2>2, <2>3 DEF OnRun, Shaped
<1> QED BY <1>3, <1>4, <1>5, <1>7, BaseFrame

(* Entering the loop keeps the base. *)
LEMMA BaseExecute ==
  ASSUME BaseInvariant, NEW p \in Procs, Execute(p)
  PROVE BaseInvariant'
<1>0. TypeOK /\ OnRun(p) /\ mem[p] \in RunRecords BY DEF BaseInvariant, TypeOK
<1>1. PICK run : run = [mem[p] EXCEPT !.state = "running"] OBVIOUS
<1>2. /\ run \in RunRecords /\ run.id = mem[p].id /\ run.tasks = mem[p].tasks /\ run.state = "running"
  BY <1>0, <1>1 DEF RunRecords, RunStates
<1>3. /\ at[p] = "reconciled" \/ (at[p] = "locked" /\ asked[p].kind = "run")
      /\ mem' = [mem EXCEPT ![p] = run] /\ at' = [at EXCEPT ![p] = "starting"]
      /\ UNCHANGED <<asked, lock, live, workers, recycled, upset, outdated>>
  BY <1>1 DEF Execute, history
<1>4. /\ mem'[p] = run /\ at'[p] = "starting" /\ mem[p].id \in Runs
      /\ \A q \in Procs \ {p} : mem'[q] = mem[q] /\ at'[q] = at[q]
  BY <1>0, <1>3 DEF TypeOK, OnRun, HasRun, Chosen, Owning
<1>5. saved' = [saved EXCEPT ![run.id] = run] BY <1>2, <1>4 DEF Execute
<1>6. saved'[run.id] = run /\ \A r \in Runs \ {run.id} : saved'[r] = saved[r]
  BY <1>0, <1>2, <1>4, <1>5 DEF TypeOK
<1>7. TypeOK' BY <1>0, <1>2, <1>3, <1>5 DEF TypeOK, Stages
<1>8. Shaped(run) BY <1>0, <1>2, SameTasksShape DEF OnRun
<1>9. InRange(run)
  <2>1. CASE at[p] = "reconciled"
    BY <1>0, <1>2, <2>1 DEF OnRun, InFlightInMemory, Working, InRange
  <2>2. CASE at[p] = "locked" /\ asked[p].kind = "run"
    <3>1. Untouched(mem[p]) BY <1>0, <2>2 DEF OnRun, InFlightInMemory
    <3> QED BY <1>2, <3>1 DEF Untouched, InRange, FreshTask
  <2> QED BY <1>3, <2>1, <2>2
<1>10. OnRun(p)'
  <2>1. HasRun(p)' BY <1>2, <1>4, <1>6 DEF HasRun
  <2>2. DoneInMemory(p)' BY <1>2, <1>4 DEF DoneInMemory
  <2>3. InFlightInMemory(p)' BY <1>4, <1>9 DEF InFlightInMemory, InRange
  <2> QED BY <1>4, <1>8, <2>1, <2>2, <2>3 DEF OnRun, Shaped
<1>11. Filed(run.id)'
  <2>1. Shaped(saved'[run.id]) BY <1>6, <1>8, Zenon
  <2> QED BY <1>2, <1>4, <1>6, <2>1, FiledNext
<1> QED BY <1>2, <1>3, <1>4, <1>6, <1>7, <1>10, <1>11, BaseFrame

(* finalize says completed only of a run whose tasks are done.               *)
LEMMA CompletedFacts ==
  ASSUME NEW run \in RunRecords, NEW cause \in Causes, InFlight(run) = {},
         cause = "none" => /\ ~Some(run.tasks, {"ready"})
                           /\ Some(run.tasks, {"pending"}) => Some(run.tasks, Unanswered),
         FinalState(FinalTasks(run, cause), cause) = "completed"
  PROVE \A t \in Tasks : FinalTasks(run, cause)[t].state \in {"success", "skipped"}
<1> DEFINE tasks == FinalTasks(run, cause)
<1>1. /\ cause \in {"none", "on_failure"} /\ ~Some(tasks, Unanswered)
      /\ ~Some(tasks, {"failed", "blocked", "cancelled"})
  BY DEF FinalState, Causes
<1>2. \A t \in Tasks :
        /\ tasks[t] \in TaskRecords
        /\ \/ tasks[t].state = run.tasks[t].state
              /\ (cause \in {"signal", "on_failure"} => run.tasks[t].state \notin {"pending", "ready"})
           \/ run.tasks[t].state \in {"pending", "ready"} /\ tasks[t].state = "cancelled"
              /\ cause \in {"signal", "on_failure"}
  BY FinalFacts
<1> HIDE DEF tasks
<1>3. SUFFICES ASSUME NEW t \in Tasks PROVE tasks[t].state \in {"success", "skipped"}
  BY DEF tasks
<1>4. /\ tasks[t].state \in TaskStates
      /\ tasks[t].state \notin Unanswered \cup {"failed", "blocked", "cancelled"}
  BY <1>1, <1>2 DEF Some, TaskRecords
<1>5. tasks[t].state = run.tasks[t].state BY <1>2, <1>4
<1>6. tasks[t].state \notin {"running", "waiting"} BY <1>5 DEF InFlight
<1>7. tasks[t].state \notin {"pending", "ready"}
  <2>1. CASE cause = "on_failure" BY <1>2, <1>5, <2>1
  <2>2. CASE cause = "none"
    <3>1. \A u \in Tasks : tasks[u].state = run.tasks[u].state BY <1>2, <2>2
    <3>2. ~Some(run.tasks, Unanswered) BY <1>1, <3>1 DEF Some
    <3>3. ~Some(run.tasks, {"pending"}) /\ ~Some(run.tasks, {"ready"}) BY <2>2, <3>2
    <3> QED BY <1>5, <3>3 DEF Some
  <2> QED BY <1>1, <2>1, <2>2
<1> QED BY <1>4, <1>6, <1>7 DEF TaskStates, Unanswered

(* The verdict on a run keeps the base: "completed" is said of one whose    *)
(* tasks are done (finalize). *)
LEMMA BaseFinalize ==
  ASSUME BaseInvariant, NEW p \in Procs, NEW cause \in Causes, Finalize(p, cause)
  PROVE BaseInvariant'
<1>0. TypeOK /\ OnRun(p) /\ mem[p] \in RunRecords BY DEF BaseInvariant, TypeOK
<1>1. PICK tasks, state : tasks = FinalTasks(mem[p], cause) /\ state = FinalState(tasks, cause)
  OBVIOUS
<1>2. PICK run : run = [mem[p] EXCEPT !.tasks = tasks, !.state = state] OBVIOUS
<1>3. /\ tasks \in [Tasks -> TaskRecords] /\ state \in RunStates
      /\ \A t \in Tasks : tasks[t].attempts = mem[p].tasks[t].attempts
      /\ \A t \in Tasks : tasks[t].state \in {mem[p].tasks[t].state, "cancelled"}
  BY <1>0, <1>1, FinalFacts
<1>4. run \in RunRecords /\ run.id = mem[p].id /\ run.tasks = tasks /\ run.state = state
  BY <1>0, <1>2, <1>3 DEF RunRecords
<1>5. /\ at[p] = "executing" /\ InFlight(mem[p]) = {}
      /\ at' = [at EXCEPT ![p] = "ending"]
      /\ UNCHANGED <<asked, files, workers, recycled, upset, outdated>>
  BY DEF Finalize, history
<1>6. mem' = [mem EXCEPT ![p] = run] BY <1>1, <1>2 DEF Finalize
<1>7. /\ mem'[p] = run /\ at'[p] = "ending"
      /\ \A q \in Procs \ {p} : mem'[q] = mem[q] /\ at'[q] = at[q]
  BY <1>0, <1>5, <1>6 DEF TypeOK
<1>8. TypeOK' BY <1>0, <1>4, <1>5, <1>6 DEF TypeOK, Stages, files
<1>9. Shaped(run) BY <1>0, <1>3, <1>4 DEF OnRun, Shaped
<1>10. InRange(run)
  <2>1. \A t \in Tasks : mem[p].tasks[t].state \notin {"running", "waiting"} BY <1>5 DEF InFlight
  <2> QED BY <1>3, <1>4, <2>1 DEF InRange
<1>11. state = "completed" => AllDone(run)
  <2>1. cause = "none" => /\ ~Some(mem[p].tasks, {"ready"})
                          /\ Some(mem[p].tasks, {"pending"}) => Some(mem[p].tasks, Unanswered)
    BY DEF Finalize
  <2>2. state = "completed" => \A t \in Tasks : tasks[t].state \in {"success", "skipped"}
    BY <1>0, <1>1, <1>5, <2>1, CompletedFacts
  <2> QED BY <1>4, <2>2 DEF AllDone
<1>12. OnRun(p)'
  <2>1. HasRun(p)' BY <1>0, <1>4, <1>5, <1>7 DEF OnRun, HasRun, Chosen, Owning, files
  <2>2. DoneInMemory(p)' BY <1>4, <1>7, <1>11 DEF DoneInMemory, AllDone
  <2>3. InFlightInMemory(p)' BY <1>7, <1>10 DEF InFlightInMemory, InRange
  <2> QED BY <1>7, <1>9, <2>1, <2>2, <2>3 DEF OnRun, Shaped
<1> QED BY <1>5, <1>7, <1>8, <1>12, BaseFrame DEF files

(* Saving the verdict keeps the base. *)
LEMMA BaseSaveEnd ==
  ASSUME BaseInvariant, NEW p \in Procs, SaveEnd(p)
  PROVE BaseInvariant'
<1>0. TypeOK /\ OnRun(p) /\ mem[p] \in RunRecords BY DEF BaseInvariant, TypeOK
<1>1. /\ at[p] = "ending" /\ Save(p, mem[p]) /\ at' = [at EXCEPT ![p] = "closing"]
      /\ UNCHANGED workers
  BY DEF SaveEnd
<1>2. mem[p].id \in Runs BY <1>0, <1>1 DEF OnRun, HasRun, Chosen, Owning
<1>3. /\ mem' \in [Procs -> RunRecords] /\ saved' \in [Runs -> RunRecords]
      /\ live' \in [Runs -> Lives] /\ UNCHANGED <<asked, lock, recycled, upset, outdated>>
      /\ mem'[p] = mem[p] /\ \A q \in Procs \ {p} : mem'[q] = mem[q]
      /\ saved'[mem[p].id] = mem[p] /\ \A r \in Runs \ {mem[p].id} : saved'[r] = saved[r]
      /\ live'[mem[p].id] = [pid |-> p, fresh |-> TRUE, state |-> mem[p].state]
      /\ \A r \in Runs \ {mem[p].id} : live'[r] = live[r]
  BY <1>0, <1>1, <1>2, SaveFacts
<1>4. at'[p] = "closing" /\ \A q \in Procs \ {p} : at'[q] = at[q] BY <1>0, <1>1 DEF TypeOK
<1>5. TypeOK' BY <1>0, <1>1, <1>3 DEF TypeOK, Stages
<1>6. /\ Shaped(mem[p]) /\ InRange(mem[p])
      /\ mem[p].state = "completed" => AllDone(mem[p])
  BY <1>0, <1>1 DEF OnRun, DoneInMemory, InFlightInMemory, Working
<1>7. OnRun(p)'
  <2>1. HasRun(p)' BY <1>2, <1>3 DEF HasRun
  <2>2. DoneInMemory(p)' BY <1>3, <1>4, <1>6 DEF DoneInMemory, AllDone
  <2>3. InFlightInMemory(p)' BY <1>3, <1>4, <1>6 DEF InFlightInMemory, InRange
  <2>4. mem'[p] = mem[p] BY <1>3
  <2>5. Shaped(mem[p])' BY <1>6, <2>4, Zenon
  <2> QED BY <2>1, <2>2, <2>3, <2>5 DEF OnRun
<1>8. Filed(mem[p].id)'
  <2>1. mem'[p] = mem[p] /\ saved'[mem'[p].id] = mem[p] BY <1>3
  <2>2. Shaped(saved[mem[p].id])' BY <1>6, <2>1, Zenon
  <2>3. (saved[mem[p].id].state = "completed" => AllDone(saved[mem[p].id]))'
    BY <1>6, <2>1 DEF AllDone
  <2>4. (saved[mem[p].id].id = mem[p].id)' BY <2>1
  <2> QED BY <2>2, <2>3, <2>4 DEF Filed
<1> QED BY <1>1, <1>3, <1>4, <1>5, <1>7, <1>8, BaseFrame

(* A forced exit keeps the base (persistInterruptedSync). *)
LEMMA BaseForceExit ==
  ASSUME BaseInvariant, NEW p \in Procs, ForceExit(p)
  PROVE BaseInvariant'
<1>0. TypeOK /\ OnRun(p) /\ mem[p] \in RunRecords BY DEF BaseInvariant, TypeOK
<1>1. PICK run : run = PersistInterrupted(mem[p]) OBVIOUS
<1>2. /\ run \in RunRecords /\ run.id = mem[p].id /\ run.state = "interrupted"
      /\ \A t \in Tasks : PutBack(mem[p].tasks[t], run.tasks[t])
  BY <1>0, <1>1, PersistFacts
<1>3. /\ at[p] \in {"starting", "executing"} /\ saved' = [saved EXCEPT ![run.id] = run]
      /\ workers' = {w \in workers : w.owner # p} /\ Gone(p)
      /\ UNCHANGED <<lock, live, recycled, upset, outdated>>
  BY <1>1, <1>2 DEF ForceExit, history
<1>4. run.id \in Runs BY <1>0, <1>2, <1>3 DEF OnRun, HasRun, Chosen, Owning
<1>5. /\ saved'[run.id] = run /\ \A r \in Runs \ {run.id} : saved'[r] = saved[r]
  BY <1>0, <1>3, <1>4 DEF TypeOK
<1>a. /\ at' \in [Procs -> Stages] /\ mem' \in [Procs -> RunRecords]
      /\ asked' \in [Procs -> Commands \cup {[kind |-> "none"]}]
      /\ at'[p] = "gone" /\ mem'[p] = NoRun /\ OnRun(p)'
      /\ \A q \in Procs \ {p} : at'[q] = at[q] /\ mem'[q] = mem[q] /\ asked'[q] = asked[q]
  BY <1>0, <1>3, GoneFacts
<1>6. TypeOK' BY <1>0, <1>2, <1>3, <1>a DEF TypeOK
<1>7. Shaped(run) BY <1>0, <1>2, PutBackShape DEF OnRun
<1>8. Filed(run.id)' BY <1>2, <1>5, <1>7 DEF Filed, Shaped
<1> QED BY <1>2, <1>3, <1>5, <1>6, <1>8, <1>a, BaseFrame

(* What happens around the owners. *)
LEMMA BaseWorld ==
  ASSUME BaseInvariant,
         World \/ UNCHANGED vars
  PROVE BaseInvariant'
<1>0. TypeOK BY DEF BaseInvariant
<1>1. UNCHANGED <<at, asked, mem, saved>>
  BY DEF World, WorkerEnds, Age, LoseLock, Recycle, files, vars
<1>2. /\ live' \in [Runs -> Lives]
      /\ \A r \in Runs : /\ live'[r].pid = live[r].pid
                         /\ live'[r].fresh \/ live'[r].fresh = live[r].fresh \/ ~Beating(live[r].pid)
  <2>1. CASE live' = live BY <1>0, <2>1 DEF TypeOK
  <2>2. ASSUME NEW r \in Runs, Age(r)
        PROVE /\ live' \in [Runs -> Lives]
              /\ \A s \in Runs : /\ live'[s].pid = live[s].pid
                                 /\ live'[s].fresh \/ live'[s].fresh = live[s].fresh \/ ~Beating(live[s].pid)
    <3>1. live' = [live EXCEPT ![r].fresh = @ /\ Beating(live[r].pid)] BY <2>2 DEF Age
    <3>2. live[r] \in Lives BY <1>0 DEF TypeOK
    <3>3. PICK b \in BOOLEAN : b = (live[r].fresh /\ Beating(live[r].pid)) OBVIOUS
    <3>4. [live[r] EXCEPT !.fresh = b] \in Lives /\ [live[r] EXCEPT !.fresh = b].pid = live[r].pid
          /\ [live[r] EXCEPT !.fresh = b].fresh = b
      BY <3>2, <3>3 DEF Lives
    <3>5. live' = [live EXCEPT ![r] = [live[r] EXCEPT !.fresh = b]] BY <3>1, <3>3
    <3>6. live[r].fresh \in BOOLEAN BY <3>2 DEF Lives
    <3> QED BY <1>0, <3>3, <3>4, <3>5, <3>6 DEF TypeOK
  <2> QED BY <2>1, <2>2 DEF World, WorkerEnds, LoseLock, Recycle, files, vars
<1>3. lock' \in [Runs -> Locks] /\ upset' \in [Runs -> SUBSET Upsets]
  <2>1. CASE lock' = lock /\ upset' = upset BY <1>0, <2>1 DEF TypeOK
  <2>2. ASSUME NEW r \in Runs, Age(r)
        PROVE lock' \in [Runs -> Locks] /\ upset' \in [Runs -> SUBSET Upsets]
    <3>1. lock' = [lock EXCEPT ![r].fresh = @ /\ Beating(lock[r].pid)] BY <2>2 DEF Age
    <3>2. upset' = upset \/ upset' = [upset EXCEPT ![r] = @ \cup {"late"}] BY <2>2 DEF Age
    <3>3. lock' \in [Runs -> Locks] BY <1>0, <3>1 DEF TypeOK, Locks
    <3> QED BY <1>0, <3>2, <3>3 DEF TypeOK, Upsets
  <2>3. ASSUME NEW r \in Runs, LoseLock(r)
        PROVE lock' \in [Runs -> Locks] /\ upset' \in [Runs -> SUBSET Upsets]
    BY <1>0, <2>3, ProcsAssumption DEF LoseLock, TypeOK, Locks, NoLock, Upsets
  <2> QED BY <1>0, <2>1, <2>2, <2>3 DEF World, WorkerEnds, Recycle, files, vars, history, TypeOK
<1>4. workers' \subseteq Workers /\ recycled' \subseteq Procs /\ outdated' \subseteq Procs
  BY <1>0 DEF World, WorkerEnds, Age, LoseLock, Recycle, vars, history, TypeOK
<1>5. TypeOK' BY <1>0, <1>1, <1>2, <1>3, <1>4 DEF TypeOK
<1>6. LiveIsFresh'
  <2> SUFFICES ASSUME NEW p \in Procs, NEW r \in Runs, live'[r].pid = p
               PROVE /\ at'[p] \in {"executing", "ending", "closing", "gone"}
                     /\ at'[p] = "executing" => live'[r].fresh
    BY DEF LiveIsFresh
  <2>1. /\ live[r].pid = p /\ at[p] \in {"executing", "ending", "closing", "gone"}
        /\ at[p] = "executing" => live[r].fresh
    BY <1>2 DEF BaseInvariant, LiveIsFresh
  <2>2. at[p] = "executing" => Beating(live[r].pid)
    BY <2>1, ProcsAssumption DEF Beating, Owning
  <2> QED BY <1>1, <1>2, <2>1, <2>2
<1>7. ASSUME NEW p \in Procs PROVE OnRun(p)'
  <2>1. OnRun(p) BY DEF BaseInvariant
  <2>2. HasRun(p)' BY <1>1, <2>1 DEF OnRun, HasRun, Chosen
  <2>3. DoneInMemory(p)' BY <1>1, <2>1 DEF OnRun, DoneInMemory, AllDone
  <2>4. InFlightInMemory(p)' BY <1>1, <2>1 DEF OnRun, InFlightInMemory, InRange, Untouched
  <2>5. Shaped(mem[p])'
    <3>1. Shaped(mem[p]) /\ mem' = mem BY <1>1, <2>1 DEF OnRun
    <3> QED BY <3>1, Zenon
  <2> QED BY <2>2, <2>3, <2>4, <2>5 DEF OnRun
<1>8. ASSUME NEW r \in Runs PROVE Filed(r)'
  <2>1. /\ saved' = saved
        /\ saved[r].id = r \/ saved[r] = NoRun
        /\ Shaped(saved[r])
        /\ saved[r].state = "completed" => AllDone(saved[r])
    BY <1>1 DEF BaseInvariant, Filed
  <2>2. /\ saved'[r].id = r \/ saved'[r] = NoRun
        /\ Shaped(saved'[r])
        /\ saved'[r].state = "completed" => AllDone(saved'[r])
    BY <2>1, Zenon
  <2> QED BY <2>2, FiledNext
<1> QED BY <1>5, <1>6, <1>7, <1>8 DEF BaseInvariant

(* The base holds before any run exists. *)
LEMMA BaseInit == Init => BaseInvariant
<1> SUFFICES ASSUME Init PROVE BaseInvariant OBVIOUS
<1>1. /\ NoRun \in RunRecords /\ NoRun.id = 0 /\ NoRun.state = "created" /\ Shaped(NoRun)
  BY NewRunFacts DEF NoRun
<1>2. TypeOK
  <2>1. NoLock \in Locks /\ NoLive \in Lives BY DEF NoLock, Locks, NoLive, Lives, RunStates
  <2> QED BY <1>1, <2>1, BoundsAssumption DEF Init, TypeOK, Stages
<1>3. LiveIsFresh BY ProcsAssumption DEF Init, LiveIsFresh, NoLive
<1>4. \A p \in Procs : OnRun(p)
  BY <1>1 DEF Init, OnRun, HasRun, Chosen, Owning, DoneInMemory, InFlightInMemory, Working
<1>5. \A r \in Runs : Filed(r) BY <1>1 DEF Init, Filed
<1> QED BY <1>2, <1>3, <1>4, <1>5 DEF BaseInvariant

(* Every step keeps the base. *)
LEMMA BaseStep == BaseInvariant /\ [Next]_vars => BaseInvariant'
<1> SUFFICES ASSUME BaseInvariant, [Next]_vars PROVE BaseInvariant' OBVIOUS
<1>1. ASSUME NEW p \in Procs, Step(p) PROVE BaseInvariant'
  BY <1>1, BaseCreate, BaseLoad, BaseQuiet, BaseEnds, BaseReconcile, BaseExecute, BaseTask, BaseSpawn,
     BaseFinalize, BaseSaveEnd, BaseForceExit
  DEF Step, OnTask, Quiet, Ends
<1>2. CASE World \/ UNCHANGED vars BY <1>2, BaseWorld
<1> QED BY <1>1, <1>2 DEF Next

(* Whatever overlaps, dies or comes late: the records keep their types, a   *)
(* beating owner has begun to execute, an attempt names its own worker      *)
(* only, and a completed run has done its tasks (acquireLock, heartbeat,    *)
(* persist, finalize). *)
THEOREM OwnershipBase == Spec => []BaseInvariant
<1>1. Init => BaseInvariant BY BaseInit
<1>2. BaseInvariant /\ [Next]_vars => BaseInvariant' BY BaseStep
<1> QED BY <1>1, <1>2, PTL DEF Spec

(* The records of the owners have their types: runs, locks, heartbeats and   *)
(* the workers that are left behind, in every instance.                      *)
THEOREM OwnershipTypeCorrect == Spec => []TypeOK
<1>1. BaseInvariant => TypeOK BY DEF BaseInvariant
<1> QED BY <1>1, OwnershipBase, PTL

(* finalize, persistInterruptedSync, reconcileForResume: whatever overlaps,  *)
(* dies or comes late, a run that is completed on disk has every task done.  *)
THEOREM CompletedRunsAreDone == Spec => []CompletedIsDone
<1>1. BaseInvariant => CompletedIsDone BY DEF BaseInvariant, Filed, CompletedIsDone, AllDone
<1> QED BY <1>1, OwnershipBase, PTL

-----------------------------------------------------------------------------
(* The lock of an owner *)

(* What a step of p does to the others, to its run's id and to the lock.     *)
LEMMA StepFrame ==
  ASSUME BaseInvariant, NEW p \in Procs, Step(p)
  PROVE /\ at[p] # "gone"
        /\ \A q \in Procs \ {p} : at'[q] = at[q] /\ mem'[q] = mem[q] /\ asked'[q] = asked[q]
        /\ ~WriteLock(p) => UNCHANGED <<upset, outdated>>
        /\ at'[p] \in Owning => WriteLock(p) \/ (at[p] \in Owning /\ mem'[p].id = mem[p].id)
        /\ \/ lock' = lock
           \/ WriteLock(p)
           \/ lock' = Released(p) /\ at[p] \in Owning /\ at'[p] = "gone"
           \/ /\ at[p] \in Owning /\ lock[mem[p].id].pid \in {p, Nobody}
              /\ lock' = [lock EXCEPT ![mem[p].id] = [pid |-> p, fresh |-> TRUE]]
<1>0. TypeOK /\ OnRun(p) /\ mem[p] \in RunRecords BY DEF BaseInvariant, TypeOK
<1> DEFINE Frame ==
  /\ at[p] # "gone"
  /\ \A q \in Procs \ {p} : at'[q] = at[q] /\ mem'[q] = mem[q] /\ asked'[q] = asked[q]
  /\ ~WriteLock(p) => UNCHANGED <<upset, outdated>>
  /\ at'[p] \in Owning => WriteLock(p) \/ (at[p] \in Owning /\ mem'[p].id = mem[p].id)
<1> DEFINE LockFrame ==
  \/ lock' = lock
  \/ WriteLock(p)
  \/ lock' = Released(p) /\ at[p] \in Owning /\ at'[p] = "gone"
  \/ /\ at[p] \in Owning /\ lock[mem[p].id].pid \in {p, Nobody}
     /\ lock' = [lock EXCEPT ![mem[p].id] = [pid |-> p, fresh |-> TRUE]]
<1>1. CASE CreateRun(p) \/ (\E r \in Runs, c \in Commands : LoadRun(p, r, c))
  <2>1. Frame BY <1>0, <1>1 DEF TypeOK, CreateRun, LoadRun, Owning, history
  <2>2. LockFrame BY <1>1 DEF CreateRun, LoadRun, files
  <2> QED BY <2>1, <2>2
<1>2. CASE Quiet(p)
  <2>1. ~WriteLock(p) => UNCHANGED <<upset, outdated>>
    BY <1>2 DEF Quiet, CheckActive, ReadLock, StartHeartbeat, Beat, history
  <2>2. Frame BY <1>0, <1>2, <2>1, QuietFacts DEF Owning
  <2>3. LockFrame
    BY <1>2 DEF Quiet, CheckActive, ReadLock, StartHeartbeat, Beat, Owning, files
  <2> QED BY <2>2, <2>3
<1>a. CASE Ends(p)
  <2>1. Frame BY <1>0, <1>a, EndsFacts DEF Owning
  <2>2. LockFrame BY <1>0, <1>a, EndsFacts
  <2> QED BY <2>1, <2>2
<1>3. CASE Reconcile(p)
  <2>1. ReconcileForResume(mem[p], asked[p]).id = mem[p].id BY <1>0, ReconcileFacts
  <2> QED BY <1>0, <1>3, <2>1 DEF TypeOK, Reconcile, Owning, files, history
<1>b. CASE ForceExit(p)
  <2>1. /\ Gone(p) /\ lock' = lock /\ UNCHANGED <<upset, outdated>>
        /\ at[p] \in {"starting", "executing"}
    BY <1>b DEF ForceExit, history
  <2> QED BY <1>0, <2>1, GoneFacts DEF Owning
<1>4. CASE Execute(p) \/ SavePid(p) \/ Hold(p) \/ SaveEnd(p)
           \/ (\E cause \in Causes : Finalize(p, cause))
  <2>1. lock' = lock /\ UNCHANGED <<upset, outdated>> /\ asked' = asked
    BY <1>4 DEF Execute, SavePid, Hold, SaveEnd, Finalize, Save, files, history
  <2>2. /\ \A q \in Procs \ {p} : at'[q] = at[q] /\ mem'[q] = mem[q]
        /\ at[p] \in Owning /\ at[p] # "gone"
    BY <1>0, <1>4 DEF TypeOK, Execute, SavePid, Hold, SaveEnd, Finalize, Save, Owning
  <2>3. mem'[p].id = mem[p].id
    <3>1. CASE SavePid(p) \/ SaveEnd(p) BY <1>0, <3>1 DEF TypeOK, SavePid, SaveEnd, Save
    <3>2. CASE Execute(p) \/ Hold(p)
      <4>1. PICK s : mem' = [mem EXCEPT ![p] = [mem[p] EXCEPT !.state = s]]
        BY <3>2 DEF Execute, Hold
      <4> QED BY <1>0, <4>1 DEF TypeOK, RunRecords
    <3>3. ASSUME NEW cause \in Causes, Finalize(p, cause) PROVE mem'[p].id = mem[p].id
      <4>1. PICK ts, s : mem' = [mem EXCEPT ![p] = [mem[p] EXCEPT !.tasks = ts, !.state = s]]
        BY <3>3 DEF Finalize
      <4> QED BY <1>0, <4>1 DEF TypeOK, RunRecords
    <3> QED BY <1>4, <3>1, <3>2, <3>3
  <2> QED BY <2>1, <2>2, <2>3
<1>5. ASSUME NEW t \in Tasks, OnTask(p, t) PROVE Frame /\ LockFrame
  <2>1. PICK new : /\ TaskMoves(mem[p].tasks[t], new) /\ SaveTask(p, t, new)
                   /\ at[p] = "executing" /\ UNCHANGED <<at, workers>>
    BY <1>0, <1>5, OnTaskFacts
  <2>2. Save(p, WithTask(mem[p], t, new)) BY <2>1 DEF SaveTask, WithTask
  <2>3. WithTask(mem[p], t, new).id = mem[p].id BY <1>0, <2>1, WithTaskFacts DEF TaskMoves
  <2> QED BY <1>0, <2>1, <2>2, <2>3 DEF Save, Owning, TypeOK, history
<1>6. ASSUME NEW t \in Tasks, Spawn(p, t) PROVE Frame /\ LockFrame
  <2>1. PICK n, w, new : Noted(p, t, n, w, new) BY <1>6, SpawnFacts
  <2>2. WithTask(mem[p], t, new).id = mem[p].id BY <1>0, <2>1, WithTaskFacts DEF Noted
  <2> QED BY <1>0, <2>1, <2>2 DEF Noted, Owning, TypeOK, files
<1> QED BY <1>1, <1>2, <1>a, <1>3, <1>b, <1>4, <1>5, <1>6 DEF Step, OnTask, Quiet, Ends

(* What a write of the lock notes of it. *)
LEMMA WriteLockFacts ==
  ASSUME TypeOK, NEW p \in Procs, WriteLock(p)
  PROVE /\ mem' = mem /\ at[p] = "locking" /\ at'[p] = "locked"
        /\ lock' = [lock EXCEPT ![mem[p].id] = [pid |-> p, fresh |-> TRUE]]
        /\ \A r \in Runs : upset'[r] = {} => upset[r] = {} /\ (mem[p].id = r => ~LockHeld(r, p))
        /\ \A q \in Procs : q \in outdated' <=>
             q \in outdated \/ (q = p /\ mem[p] # saved[mem[p].id])
<1>1. CASE LockHeld(mem[p].id, p)
  <2>1. upset' = [upset EXCEPT ![mem[p].id] = @ \cup {"raced"}] BY <1>1 DEF WriteLock
  <2>2. \A r \in Runs : upset'[r] = {} => upset[r] = {} /\ mem[p].id # r BY <2>1 DEF TypeOK
  <2> QED BY <2>2 DEF WriteLock, TypeOK
<1>2. CASE ~LockHeld(mem[p].id, p) BY <1>2 DEF WriteLock, TypeOK
<1> QED BY <1>1, <1>2

(* A step clears nothing, and an owner is outdated by its own doing. *)
LEMMA HistoryFrame ==
  ASSUME BaseInvariant, NEW p \in Procs, Step(p)
  PROVE /\ \A r \in Runs : upset'[r] = {} => upset[r] = {}
        /\ \A q \in Procs \ {p} : q \in outdated' <=> q \in outdated
<1>0. TypeOK BY DEF BaseInvariant
<1>1. CASE WriteLock(p) BY <1>0, <1>1, WriteLockFacts
<1>2. CASE ~WriteLock(p) BY <1>2, StepFrame
<1> QED BY <1>1, <1>2

(* A process that acts keeps its lock; it takes another's only from a run    *)
(* that it upsets.                                                           *)
LEMMA HoldsLockStep ==
  ASSUME BaseInvariant, HoldsLock, NEW p \in Procs, Step(p)
  PROVE HoldsLock'
<1>0. TypeOK /\ OnRun(p) BY DEF BaseInvariant
<1> SUFFICES ASSUME NEW q \in Procs, NEW r \in Runs, upset'[r] = {}, Owns(q, r)'
             PROVE lock'[r].pid = q /\ lock'[r].fresh
  BY DEF HoldsLock
<1>1. /\ \A o \in Procs \ {p} : at'[o] = at[o] /\ mem'[o] = mem[o]
      /\ at'[p] \in Owning => WriteLock(p) \/ (at[p] \in Owning /\ mem'[p].id = mem[p].id)
      /\ \/ lock' = lock
         \/ WriteLock(p)
         \/ lock' = Released(p) /\ at[p] \in Owning /\ at'[p] = "gone"
         \/ /\ at[p] \in Owning /\ lock[mem[p].id].pid \in {p, Nobody}
            /\ lock' = [lock EXCEPT ![mem[p].id] = [pid |-> p, fresh |-> TRUE]]
  BY StepFrame
<1>2. upset[r] = {} BY HistoryFrame
<1>3. CASE q = p /\ WriteLock(p)
  <2>1. mem'[p] = mem[p] /\ lock' = [lock EXCEPT ![mem[p].id] = [pid |-> p, fresh |-> TRUE]]
    BY <1>0, <1>3, WriteLockFacts
  <2> QED BY <1>0, <1>3, <2>1 DEF Owns, TypeOK
<1>4. CASE q = p /\ ~WriteLock(p)
  <2>1. Owns(p, r) BY <1>1, <1>4 DEF Owns
  <2>2. lock[r].pid = p /\ lock[r].fresh BY <1>2, <2>1 DEF HoldsLock
  <2>3. at'[p] # "gone" BY <1>4 DEF Owns, Owning
  <2> QED BY <1>0, <1>1, <1>4, <2>1, <2>2, <2>3 DEF TypeOK, Owns
<1>5. CASE q # p
  <2>1. Owns(q, r) BY <1>1, <1>5 DEF Owns
  <2>2. lock[r].pid = q /\ lock[r].fresh BY <1>2, <2>1 DEF HoldsLock
  <2>3. q # Nobody /\ IsAlive(q) BY <2>1, ProcsAssumption DEF IsAlive, Owns, Owning
  <2>4. CASE WriteLock(p)
    <3>1. /\ lock' = [lock EXCEPT ![mem[p].id] = [pid |-> p, fresh |-> TRUE]]
          /\ mem[p].id = r => ~LockHeld(r, p)
      BY <1>0, <2>4, WriteLockFacts
    <3>2. mem[p].id # r BY <1>5, <2>2, <2>3, <3>1 DEF LockHeld
    <3> QED BY <1>0, <2>2, <3>1, <3>2 DEF TypeOK
  <2>5. CASE lock' = Released(p)
    <3>1. \/ lock' = lock
          \/ lock[mem[p].id].pid \in {p, Nobody} /\ lock' = [lock EXCEPT ![mem[p].id] = NoLock]
      BY <2>5 DEF Released
    <3> QED BY <1>0, <1>5, <2>2, <2>3, <3>1 DEF TypeOK
  <2>6. CASE /\ lock[mem[p].id].pid \in {p, Nobody}
             /\ lock' = [lock EXCEPT ![mem[p].id] = [pid |-> p, fresh |-> TRUE]]
    BY <1>0, <1>5, <2>2, <2>3, <2>6 DEF TypeOK
  <2> QED BY <1>1, <2>2, <2>4, <2>5, <2>6
<1> QED BY <1>3, <1>4, <1>5

(* The world takes a lock only from a run that it upsets. *)
LEMMA HoldsLockWorld ==
  ASSUME BaseInvariant, HoldsLock, World \/ UNCHANGED vars
  PROVE HoldsLock' /\ (\A r \in Runs : upset'[r] = {} => upset[r] = {}) /\ outdated' = outdated
<1>0. TypeOK BY DEF BaseInvariant
<1>1. UNCHANGED <<at, mem, outdated>>
  BY DEF World, WorkerEnds, Age, LoseLock, Recycle, vars, history
<1>2. ASSUME NEW r \in Runs, upset'[r] = {}
      PROVE /\ upset[r] = {} /\ lock'[r].pid = lock[r].pid
            /\ lock[r].fresh => lock'[r].fresh \/ (~Beating(lock[r].pid) /\ ~Late(r))
  <2>1. CASE UNCHANGED <<lock, upset>> BY <1>2, <2>1
  <2>2. ASSUME NEW s \in Runs, Age(s)
        PROVE /\ upset[r] = {} /\ lock'[r].pid = lock[r].pid
              /\ lock[r].fresh => lock'[r].fresh \/ (~Beating(lock[r].pid) /\ ~Late(r))
    <3>1. lock' = [lock EXCEPT ![s].fresh = @ /\ Beating(lock[s].pid)] BY <2>2 DEF Age
    <3>2. CASE Late(s)
      <4>1. upset' = [upset EXCEPT ![s] = @ \cup {"late"}] BY <2>2, <3>2 DEF Age
      <4>2. s # r /\ upset[r] = {} BY <1>0, <1>2, <4>1 DEF TypeOK
      <4> QED BY <1>0, <3>1, <4>2 DEF TypeOK
    <3>3. CASE ~Late(s)
      <4>1. upset' = upset BY <2>2, <3>3 DEF Age
      <4>2. CASE s = r
        <5>1. lock[r] \in Locks BY <1>0 DEF TypeOK
        <5>2. lock'[r] = [lock[r] EXCEPT !.fresh = @ /\ Beating(lock[r].pid)]
          BY <1>0, <3>1, <4>2 DEF TypeOK
        <5>3. PICK b \in BOOLEAN : b = (lock[r].fresh /\ Beating(lock[r].pid)) OBVIOUS
        <5>4. lock'[r] = [lock[r] EXCEPT !.fresh = b] BY <5>2, <5>3
        <5>5. lock'[r].pid = lock[r].pid /\ lock'[r].fresh = b BY <5>1, <5>4 DEF Locks
        <5> QED BY <1>2, <3>3, <4>1, <4>2, <5>3, <5>5
      <4>3. CASE s # r
        <5>1. lock'[r] = lock[r] BY <1>0, <3>1, <4>3 DEF TypeOK
        <5> QED BY <1>2, <4>1, <5>1
      <4> QED BY <4>2, <4>3
    <3> QED BY <3>2, <3>3
  <2>3. ASSUME NEW s \in Runs, LoseLock(s)
        PROVE upset[r] = {} /\ lock'[r] = lock[r]
    BY <1>0, <1>2, <2>3 DEF LoseLock, TypeOK
  <2> QED BY <2>1, <2>2, <2>3 DEF World, WorkerEnds, Recycle, files, vars, history
<1>3. ASSUME NEW q \in Procs, NEW r \in Runs, upset'[r] = {}, Owns(q, r)'
      PROVE lock'[r].pid = q /\ lock'[r].fresh
  <2>1. upset[r] = {} /\ lock'[r].pid = lock[r].pid BY <1>2, <1>3
  <2>2. Owns(q, r) BY <1>1, <1>3 DEF Owns
  <2>3. lock[r].pid = q /\ lock[r].fresh BY <2>1, <2>2 DEF HoldsLock
  <2>4. ~Beating(lock[r].pid) => Late(r) BY <2>2, <2>3 DEF Late
  <2> QED BY <1>2, <1>3, <2>1, <2>3, <2>4
<1> QED BY <1>1, <1>2, <1>3 DEF HoldsLock

-----------------------------------------------------------------------------
(* Who has heard of a worker *)

(* Attempts are numbered from one. *)
LEMMA AttemptNumbers ==
  ASSUME NEW run \in RunRecords, NEW t \in Tasks, NEW n \in DOMAIN run.tasks[t].attempts
  PROVE n \in Nat /\ n # 0 /\ run.tasks[t].attempts[n] \in Attempts
<1>1. run.tasks[t].attempts \in Seq(Attempts) BY DEF RunRecords, TaskRecords
<1>2. DOMAIN run.tasks[t].attempts = 1 .. Len(run.tasks[t].attempts) BY <1>1, LenProperties
<1> QED BY <1>1, <1>2, ElementOfSeq, LenProperties

(* NoWorker is not one. *)
LEMMA WorkerIsReal == ASSUME NEW w \in Workers PROVE w # NoWorker
  BY ProcsAssumption DEF Workers, NoWorker

(* A new run names no worker. *)
LEMMA UntouchedMentions ==
  ASSUME NEW run, Untouched(run)
  PROVE (\A w : ~Mentions(run, w)) /\ Findable(run)
  BY DEF Untouched, FreshTask, Mentions, Findable

(* The same pids name the same workers. *)
LEMMA SamePidsMention ==
  ASSUME NEW run, NEW new, \A t \in Tasks : SamePids(run.tasks[t].attempts, new.tasks[t].attempts)
  PROVE \A w : Mentions(new, w) <=> Mentions(run, w)
  BY DEF Mentions, SamePids

(* What p says of workers in a step it has from memory, or it is about its own. *)
Recalls(p) ==
  /\ at[p] = "gone" => at'[p] = "gone"
  /\ at[p] \in Working /\ at'[p] # "gone" =>
       at'[p] \in Working /\ \A w \in Workers : Mentions(mem[p], w) => Mentions(mem'[p], w)
  /\ \A w \in Workers :
       Mentions(mem'[p], w) \/ (\E r \in Runs : Mentions(saved'[r], w)) =>
         Mentioned(w) \/ (w.owner = p /\ at'[p] \in Working /\ Mentions(mem'[p], w))

(* Then whoever has heard of a worker has heard of it from its owner.        *)
LEMMA RemembersFrame ==
  ASSUME \A q \in Procs : Remembers(q), NEW p \in Procs, Recalls(p),
         \A q \in Procs \ {p} : at'[q] = at[q] /\ mem'[q] = mem[q]
  PROVE \A q \in Procs : Remembers(q)'
<1> SUFFICES ASSUME NEW q \in Procs, at'[q] # "gone",
                    NEW w \in Workers, w.owner = q, Mentioned(w)'
             PROVE at'[q] \in Working /\ Mentions(mem[q], w)'
  BY DEF Remembers
<1>1. (\E r \in Runs : Mentions(saved'[r], w)) \/ (\E o \in Procs : Mentions(mem'[o], w))
  BY DEF Mentioned, Mentions
<1>2. Mentioned(w) \/ (w.owner = p /\ at'[p] \in Working /\ Mentions(mem'[p], w))
  <2>1. CASE (\E r \in Runs : Mentions(saved'[r], w)) \/ Mentions(mem'[p], w)
    BY <2>1 DEF Recalls
  <2>2. ASSUME NEW o \in Procs \ {p}, Mentions(mem'[o], w) PROVE Mentioned(w)
    <3>1. mem'[o] = mem[o] OBVIOUS
    <3>2. Mentions(mem[o], w) BY <2>2, <3>1, Zenon
    <3> QED BY <3>2 DEF Mentioned
  <2> QED BY <1>1, <2>1, <2>2
<1>3. at'[q] \in Working /\ Mentions(mem'[q], w)
  <2>1. CASE q = p /\ Mentioned(w)
    <3>1. at[p] # "gone" BY <2>1 DEF Recalls
    <3>2. at[p] \in Working /\ Mentions(mem[p], w) BY <2>1, <3>1 DEF Remembers
    <3> QED BY <2>1, <3>2 DEF Recalls
  <2>2. CASE q # p
    <3>1. Mentioned(w) BY <1>2, <2>2
    <3>2. at'[q] = at[q] /\ mem'[q] = mem[q] BY <2>2
    <3>3. at[q] \in Working /\ Mentions(mem[q], w) BY <3>1, <3>2 DEF Remembers
    <3>4. Mentions(mem'[q], w) BY <3>2, <3>3, Zenon
    <3> QED BY <3>2, <3>3, <3>4
  <2> QED BY <1>2, <2>1, <2>2
<1> QED BY <1>3 DEF Mentions

(* No file and no memory has heard of the workers that are new. *)
NoNews == \A w \in workers' : w \in workers \/ ~Mentioned(w)

(* So what a file or a process knows of the living stays true. *)
LEMMA NoNewsLive ==
  ASSUME NoNews, NEW run,
         (\E r \in Runs : run = saved[r]) \/ (\E q \in Procs : run = mem[q]),
         NEW t \in Tasks, NEW n \in DOMAIN run.tasks[t].attempts,
         run.tasks[t].attempts[n].pid \in workers'
  PROVE run.tasks[t].attempts[n].pid \in workers
<1> DEFINE w == run.tasks[t].attempts[n].pid
<1>1. Mentions(run, w) BY DEF Mentions
<1>2. Mentioned(w) BY <1>1, Zenon DEF Mentioned
<1> QED BY <1>2 DEF NoNews

(* What an owner says in memory, a later owner finds on disk. *)
LEMMA TrackedFindable ==
  ASSUME TypeOK, NEW p \in Procs, Tracked(p)
  PROVE Findable(mem[p])
<1> SUFFICES ASSUME NEW t \in Tasks, NEW n \in DOMAIN mem[p].tasks[t].attempts, Live(mem[p], t, n)
             PROVE mem[p].tasks[t].state \in {"running", "waiting"} /\ OpenAttempt(mem[p].tasks[t]) = n
  BY DEF Findable
<1>1. mem[p].tasks[t].state \in {"running", "waiting"} /\ mem[p].tasks[t].current = n
  BY DEF Tracked
<1>2. n # 0 BY AttemptNumbers DEF TypeOK
<1> QED BY <1>1, <1>2 DEF OpenAttempt

(* A step of one process leaves what the others know true: each run is its   *)
(* owner's by the lock, and news of a worker comes from its owner.           *)
LEMMA WorkersFrame ==
  ASSUME BaseInvariant, BaseInvariant', HoldsLock, WorkersInvariant, NEW p \in Procs, Step(p),
         \A r \in Runs : saved'[r] = saved[r] \/ Owns(p, r) \/ saved[r].id # r,
         NoNews, Recalls(p), Loaded(p)', UpToDate(p)',
         \A r \in Runs : upset'[r] = {} =>
           \/ saved'[r] = saved[r] \/ Findable(saved[r])'
           \/ saved'[r] = mem'[p] /\ Tracked(p)'
  PROVE WorkersInvariant'
<1>0. TypeOK /\ TypeOK' BY DEF BaseInvariant
<1>a. /\ \A q \in Procs \ {p} : at'[q] = at[q] /\ mem'[q] = mem[q] /\ asked'[q] = asked[q]
      /\ \A r \in Runs : upset'[r] = {} => upset[r] = {}
      /\ \A q \in Procs \ {p} : q \in outdated' <=> q \in outdated
  BY StepFrame, HistoryFrame
<1>1. ASSUME NEW r \in Runs, upset'[r] = {} PROVE Findable(saved[r])'
  <2>1. CASE saved'[r] = saved[r]
    <3> SUFFICES ASSUME NEW t \in Tasks, NEW n \in DOMAIN saved'[r].tasks[t].attempts,
                        saved'[r].tasks[t].attempts[n].pid \in workers'
                 PROVE /\ saved'[r].tasks[t].state \in {"running", "waiting"}
                       /\ OpenAttempt(saved'[r].tasks[t]) = n
      BY DEF Findable, Live, OpenAttempt, LastOf
    <3>1. saved[r].tasks[t].attempts[n].pid \in workers BY <2>1, NoNewsLive
    <3>2. Findable(saved[r]) BY <1>1, <1>a DEF WorkersInvariant
    <3> QED BY <2>1, <3>1, <3>2 DEF Findable, Live
  <2>2. CASE saved'[r] = mem'[p] /\ Tracked(p)'
    <3> SUFFICES ASSUME NEW t \in Tasks, NEW n \in DOMAIN saved'[r].tasks[t].attempts,
                        saved'[r].tasks[t].attempts[n].pid \in workers'
                 PROVE /\ saved'[r].tasks[t].state \in {"running", "waiting"}
                       /\ OpenAttempt(saved'[r].tasks[t]) = n
      BY DEF Findable, Live, OpenAttempt, LastOf
    <3>1. mem'[p].tasks[t].state \in {"running", "waiting"} /\ mem'[p].tasks[t].current = n
      BY <2>2 DEF Tracked, Live
    <3>2. n # 0 BY <1>0, AttemptNumbers DEF TypeOK
    <3> QED BY <2>2, <3>1, <3>2 DEF OpenAttempt
  <2> QED BY <1>1, <2>1, <2>2
<1>2. ASSUME NEW q \in Procs \ {p}, Owns(q, mem[q].id), upset'[mem[q].id] = {}
      PROVE saved'[mem[q].id] = saved[mem[q].id]
  <2>1. mem[q].id \in Runs /\ saved[mem[q].id].id = mem[q].id
    BY <1>2 DEF BaseInvariant, OnRun, HasRun, Chosen, Owns
  <2>2. upset[mem[q].id] = {} BY <1>2, <1>a, <2>1
  <2>3. ~Owns(p, mem[q].id) BY <1>2, <2>1, <2>2 DEF HoldsLock
  <2> QED BY <2>1, <2>3
<1>3. ASSUME NEW q \in Procs \ {p} PROVE Loaded(q)'
  <2> SUFFICES ASSUME at[q] \in {"unlocked", "locking", "locked"}, upset'[mem[q].id] = {}
               PROVE /\ Findable(mem[q])'
                     /\ at[q] = "locked" /\ q \notin outdated => mem[q] = saved'[mem[q].id]
    BY <1>a DEF Loaded
  <2>1. mem[q].id \in Runs /\ upset[mem[q].id] = {}
    BY <1>a DEF BaseInvariant, OnRun, HasRun, Chosen, Owning
  <2>2. Loaded(q) BY DEF WorkersInvariant
  <2>3. Findable(mem[q])'
    <3>1. mem'[q] = mem[q] BY <1>a
    <3> SUFFICES ASSUME NEW t \in Tasks, NEW n \in DOMAIN mem[q].tasks[t].attempts,
                        mem[q].tasks[t].attempts[n].pid \in workers'
                 PROVE /\ mem[q].tasks[t].state \in {"running", "waiting"}
                       /\ OpenAttempt(mem[q].tasks[t]) = n
      BY <3>1 DEF Findable, Live, OpenAttempt, LastOf
    <3>2. mem[q].tasks[t].attempts[n].pid \in workers BY NoNewsLive
    <3> QED BY <2>1, <2>2, <3>2 DEF Loaded, Findable, Live
  <2>4. ASSUME at[q] = "locked", q \notin outdated PROVE mem[q] = saved'[mem[q].id]
    <3>1. Owns(q, mem[q].id) BY <2>4 DEF Owns, Owning
    <3>2. mem[q] = saved[mem[q].id] BY <2>1, <2>2, <2>4 DEF Loaded
    <3>3. saved'[mem[q].id] = saved[mem[q].id] BY <1>2, <3>1
    <3> QED BY <3>2, <3>3
  <2> QED BY <2>3, <2>4
<1>4. ASSUME NEW q \in Procs \ {p} PROVE UpToDate(q)'
  <2>1. mem'[q] = mem[q] /\ at'[q] = at[q] /\ asked'[q] = asked[q] /\ (q \in outdated' <=> q \in outdated)
    BY <1>a
  <2> SUFFICES ASSUME at[q] \in Working, upset'[mem[q].id] = {}
               PROVE /\ Tracked(q)'
                     /\ at[q] # "reconciled" \/ q \notin outdated => Keeps(q, saved[mem[q].id], mem[q])'
    BY <2>1 DEF UpToDate
  <2>2. mem[q].id \in Runs /\ upset[mem[q].id] = {} /\ Owns(q, mem[q].id)
    BY <1>a DEF BaseInvariant, OnRun, HasRun, Chosen, Owns, Working, Owning
  <2>3. /\ Tracked(q)
        /\ at[q] # "reconciled" \/ q \notin outdated => Keeps(q, saved[mem[q].id], mem[q])
    BY <2>2 DEF WorkersInvariant, UpToDate
  <2>4. Tracked(q)'
    <3> SUFFICES ASSUME NEW t \in Tasks, NEW n \in DOMAIN mem[q].tasks[t].attempts,
                        mem[q].tasks[t].attempts[n].pid \in workers'
                 PROVE /\ mem[q].tasks[t].state \in {"running", "waiting"}
                       /\ mem[q].tasks[t].current = n
                       /\ mem[q].tasks[t].attempts[n].pid.owner = q
      BY <2>1 DEF Tracked, Live
    <3>1. mem[q].tasks[t].attempts[n].pid \in workers BY NoNewsLive
    <3> QED BY <2>3, <3>1 DEF Tracked, Live
  <2>5. saved'[mem[q].id] = saved[mem[q].id] BY <1>2, <2>2
  <2>6. Keeps(q, saved[mem[q].id], mem[q]) => Keeps(q, saved[mem[q].id], mem[q])'
    BY <2>1, <2>5 DEF Keeps, Named
  <2> QED BY <2>3, <2>4, <2>6
<1>5. \A q \in Procs : Remembers(q)' BY <1>a, RemembersFrame DEF WorkersInvariant
<1> QED BY <1>1, <1>3, <1>4, <1>5 DEF WorkersInvariant

-----------------------------------------------------------------------------
(* The steps *)

(* The steps of a process that change no run and no worker. *)
LEMMA WorkersQuiet ==
  ASSUME BaseInvariant, WorkersInvariant, NEW p \in Procs, Quiet(p)
  PROVE Loaded(p)' /\ UpToDate(p)' /\ Recalls(p) /\ UNCHANGED <<saved, workers>>
<1>0. TypeOK /\ Loaded(p) /\ UpToDate(p) BY DEF BaseInvariant, WorkersInvariant
<1>1. /\ UNCHANGED <<mem, saved, workers>>
      /\ asked'[p] = asked[p] \/ at'[p] = "checked"
      /\ \/ at'[p] \in {at[p], "checked"}
         \/ at[p] = "unlocked" /\ at'[p] = "locking"
         \/ at[p] = "locking" /\ at'[p] = "locked" /\ WriteLock(p)
         \/ at[p] = "starting" /\ at'[p] = "executing"
      /\ at'[p] = "checked" => at[p] = "idle"
      /\ at[p] # "gone"
  BY <1>0, QuietFacts
<1>2. Recalls(p)
  <2>1. at[p] \in Working => at'[p] \in Working BY <1>1 DEF Working
  <2>2. \A w \in Workers :
          Mentions(mem'[p], w) \/ (\E r \in Runs : Mentions(saved'[r], w)) => Mentioned(w)
    <3>1. mem' = mem /\ saved' = saved BY <1>1
    <3> QED BY <3>1, Zenon DEF Mentioned
  <2>3. \A w \in Workers : Mentions(mem[p], w) => Mentions(mem'[p], w) BY <1>1, Zenon
  <2> QED BY <1>1, <2>1, <2>2, <2>3 DEF Recalls
<1>3. CASE WriteLock(p)
  <2>1. /\ at[p] = "locking" /\ at'[p] = "locked"
        /\ \A r \in Runs : upset'[r] = {} => upset[r] = {}
        /\ p \in outdated' <=> p \in outdated \/ mem[p] # saved[mem[p].id]
    BY <1>0, <1>3, WriteLockFacts
  <2>2. mem[p].id \in Runs BY <2>1 DEF BaseInvariant, OnRun, HasRun, Chosen
  <2>3. UpToDate(p)' BY <2>1 DEF UpToDate, Working
  <2>4. Loaded(p)'
    <3>1. mem' = mem /\ saved' = saved /\ workers' = workers BY <1>1
    <3> SUFFICES ASSUME upset'[mem[p].id] = {}
                 PROVE Findable(mem[p])' /\ (p \notin outdated' => mem[p] = saved[mem[p].id])
      BY <2>1, <3>1 DEF Loaded
    <3>2. Findable(mem[p]) BY <1>0, <2>1, <2>2 DEF Loaded
    <3>3. Findable(mem[p])' BY <3>1, <3>2 DEF Findable, Live, OpenAttempt, LastOf
    <3> QED BY <2>1, <3>3
  <2> QED BY <1>1, <1>2, <2>3, <2>4
<1>4. CASE ~WriteLock(p)
  <2>1. UNCHANGED <<upset, outdated>>
    BY <1>4 DEF Quiet, CheckActive, ReadLock, StartHeartbeat, Beat, history
  <2>2. Loaded(p)'
    <3>1. /\ at'[p] \in {"unlocked", "locking", "locked"} => at[p] \in {"unlocked", "locking", "locked"}
          /\ at'[p] = "locked" => at[p] = "locked"
      BY <1>1, <1>4
    <3>2. Findable(mem[p]) => Findable(mem[p])' BY <1>1 DEF Findable, Live, OpenAttempt, LastOf
    <3> QED BY <1>0, <1>1, <2>1, <3>1, <3>2 DEF Loaded
  <2>3. UpToDate(p)'
    <3>1. /\ at'[p] \in Working => at[p] \in Working /\ asked'[p] = asked[p]
          /\ at'[p] \in Working /\ at'[p] # "reconciled" => at[p] # "reconciled"
      BY <1>1, <1>4 DEF Working
    <3>2. Tracked(p) => Tracked(p)' BY <1>1 DEF Tracked, Live
    <3>3. asked'[p] = asked[p] /\ Keeps(p, saved[mem[p].id], mem[p]) => Keeps(p, saved[mem[p].id], mem[p])'
      BY <1>1 DEF Keeps, Named
    <3> QED BY <1>0, <1>1, <2>1, <3>1, <3>2, <3>3 DEF UpToDate
  <2> QED BY <1>1, <1>2, <2>2, <2>3
<1> QED BY <1>3, <1>4

(* A process that has ended knows nothing. *)
LEMMA WorkersEnds ==
  ASSUME BaseInvariant, NEW p \in Procs, Gone(p)
  PROVE /\ Loaded(p)' /\ UpToDate(p)'
        /\ (\A r \in Runs, w \in Workers : Mentions(saved'[r], w) => Mentioned(w)) => Recalls(p)
<1>0. TypeOK BY DEF BaseInvariant
<1>1. at'[p] = "gone" /\ mem'[p] = NoRun BY <1>0, GoneFacts
<1>2. \A w : ~Mentions(mem'[p], w)
  <2>1. Untouched(NoRun) BY NewRunFacts DEF NoRun
  <2>2. \A w : ~Mentions(NoRun, w) BY <2>1, UntouchedMentions
  <2> QED BY <1>1, <2>2, Zenon
<1>3. Loaded(p)' /\ UpToDate(p)' BY <1>1 DEF Loaded, UpToDate, Working
<1> QED BY <1>1, <1>2, <1>3 DEF Recalls

(* A run that is created names no worker. *)
LEMMA WorkersCreate ==
  ASSUME BaseInvariant, NEW p \in Procs, CreateRun(p)
  PROVE /\ Loaded(p)' /\ UpToDate(p)' /\ Recalls(p) /\ UNCHANGED workers
        /\ \A r \in Runs : saved'[r] = saved[r] \/ (saved[r].id # r /\ Findable(saved[r])')
<1>0. TypeOK BY DEF BaseInvariant
<1>1. PICK r \in Runs : /\ mem' = [mem EXCEPT ![p] = NewRun(r)] /\ saved[r].id # r
                        /\ saved' = [saved EXCEPT ![r] = NewRun(r)]
  BY DEF CreateRun, Exists
<1>2. at[p] = "checked" /\ at' = [at EXCEPT ![p] = "unlocked"] /\ UNCHANGED workers BY DEF CreateRun
<1>3. /\ mem'[p] = NewRun(r) /\ saved'[r] = NewRun(r) /\ at'[p] = "unlocked"
      /\ \A s \in Runs \ {r} : saved'[s] = saved[s]
  BY <1>0, <1>1, <1>2 DEF TypeOK
<1>4. NewRun(r).id = r /\ Untouched(NewRun(r)) BY NewRunFacts
<1>5. Findable(saved[r])' /\ Findable(mem[p])' BY <1>3, <1>4 DEF Findable, Untouched, FreshTask
<1>6. Recalls(p)
  <2>1. \A w : ~Mentions(NewRun(r), w) BY <1>4, UntouchedMentions
  <2>2. \A w : ~Mentions(mem'[p], w) /\ ~Mentions(saved'[r], w) BY <1>3, <2>1, Zenon
  <2>3. ASSUME NEW w \in Workers, NEW s \in Runs, Mentions(saved'[s], w) PROVE Mentioned(w)
    <3>1. s # r BY <2>2, <2>3
    <3>2. saved'[s] = saved[s] BY <1>3, <3>1
    <3>3. Mentions(saved[s], w) BY <2>3, <3>2, Zenon
    <3> QED BY <3>3 DEF Mentioned
  <2> QED BY <1>2, <2>2, <2>3 DEF Recalls, Working
<1> QED BY <1>1, <1>2, <1>3, <1>5, <1>6 DEF Loaded, UpToDate, Working

(* What is read from the file is what the file says. *)
LEMMA WorkersLoad ==
  ASSUME BaseInvariant, WorkersInvariant,
         NEW p \in Procs, NEW r \in Runs, NEW c \in Commands, LoadRun(p, r, c)
  PROVE Loaded(p)' /\ UpToDate(p)' /\ Recalls(p) /\ UNCHANGED <<saved, workers>>
<1>0. TypeOK BY DEF BaseInvariant
<1>1. /\ at[p] = "idle" /\ saved[r].id = r /\ mem' = [mem EXCEPT ![p] = saved[r]]
      /\ at' = [at EXCEPT ![p] = "unlocked"] /\ UNCHANGED <<saved, workers, upset, outdated>>
  BY DEF LoadRun, Exists, files, history
<1>2. mem'[p] = saved[r] /\ at'[p] = "unlocked" BY <1>0, <1>1 DEF TypeOK
<1>3. Loaded(p)'
  <2> SUFFICES ASSUME upset[r] = {} PROVE Findable(mem[p])' BY <1>1, <1>2 DEF Loaded
  <2>1. Findable(saved[r]) BY DEF WorkersInvariant
  <2> QED BY <1>1, <1>2, <2>1 DEF Findable, Live, OpenAttempt, LastOf
<1>4. Recalls(p)
  <2>1. ASSUME NEW w \in Workers, Mentions(mem'[p], w) PROVE Mentioned(w)
    <3>1. Mentions(saved[r], w) BY <1>2, <2>1, Zenon
    <3> QED BY <3>1 DEF Mentioned
  <2>2. ASSUME NEW w \in Workers, NEW s \in Runs, Mentions(saved'[s], w) PROVE Mentioned(w)
    <3>1. Mentions(saved[s], w) BY <1>1, <2>2, Zenon
    <3> QED BY <3>1 DEF Mentioned
  <2> QED BY <1>1, <2>1, <2>2 DEF Recalls, Working
<1> QED BY <1>1, <1>2, <1>3, <1>4 DEF UpToDate, Working

(* Every live worker that the run names is killed before the run goes on.   *)
LEMMA WorkersReconcile ==
  ASSUME BaseInvariant, WorkersInvariant, NEW p \in Procs, Reconcile(p)
  PROVE /\ Loaded(p)' /\ UpToDate(p)' /\ Recalls(p) /\ UNCHANGED saved
        /\ workers' \subseteq workers
<1>0. TypeOK /\ OnRun(p) /\ mem[p] \in RunRecords BY DEF BaseInvariant, TypeOK
<1>1. PICK run : run = ReconcileForResume(mem[p], asked[p]) OBVIOUS
<1>2. /\ run.id = mem[p].id
      /\ \A t \in Tasks :
           /\ PutBack(mem[p].tasks[t], run.tasks[t])
           /\ mem[p].tasks[t].state = "success" =>
                run.tasks[t].state = "success" \/ t \in asked[p].named \cup asked[p].answer
  BY <1>0, <1>1, ReconcileFacts
<1>3. /\ at[p] = "locked" /\ asked[p].kind = "resume" /\ workers' = workers \ Orphans(mem[p])
      /\ mem' = [mem EXCEPT ![p] = run] /\ at' = [at EXCEPT ![p] = "reconciled"]
      /\ UNCHANGED <<asked, saved, upset, outdated>>
  BY <1>1 DEF Reconcile, files, history
<1>4. mem'[p] = run /\ at'[p] = "reconciled" BY <1>0, <1>3 DEF TypeOK
<1>5. Loaded(p) /\ mem[p].id \in Runs
  BY <1>0, <1>3 DEF WorkersInvariant, OnRun, HasRun, Chosen, Owning
<1>6. Loaded(p)' BY <1>4 DEF Loaded
<1>7. ASSUME upset[mem[p].id] = {} PROVE Tracked(p)'
  <2> SUFFICES ASSUME NEW t \in Tasks, NEW n \in DOMAIN run.tasks[t].attempts,
                      run.tasks[t].attempts[n].pid \in workers'
               PROVE FALSE
    BY <1>4 DEF Tracked, Live
  <2> DEFINE task == mem[p].tasks[t]
  <2>1. n \in DOMAIN task.attempts /\ task.attempts[n].pid = run.tasks[t].attempts[n].pid
    BY <1>2 DEF PutBack, SamePids
  <2>2. task.attempts[n].pid \in workers BY <1>3, <2>1
  <2>3. task.state \in {"running", "waiting"} /\ OpenAttempt(task) = n
    <3>1. Findable(mem[p]) BY <1>3, <1>5, <1>7 DEF Loaded
    <3> QED BY <2>1, <2>2, <3>1 DEF Findable, Live
  <2>4. n # 0 BY <1>0, <2>1, AttemptNumbers
  <2>5. task.attempts[n].pid \in Orphans(mem[p]) BY <2>3, <2>4 DEF Orphans
  <2> QED BY <1>3, <2>1, <2>5
<1>8. ASSUME upset[mem[p].id] = {}, p \notin outdated PROVE Keeps(p, saved[mem[p].id], mem[p])'
  <2>1. mem[p] = saved[mem[p].id] BY <1>3, <1>5, <1>8 DEF Loaded
  <2> QED BY <1>2, <1>3, <1>4, <2>1 DEF Keeps, Named
<1>9. UpToDate(p)' BY <1>2, <1>3, <1>4, <1>7, <1>8 DEF UpToDate
<1>10. Recalls(p)
  <2>1. \A w : Mentions(run, w) <=> Mentions(mem[p], w) BY <1>2, SamePidsMention DEF PutBack
  <2>2. ASSUME NEW w \in Workers, Mentions(mem'[p], w) PROVE Mentioned(w)
    <3>1. Mentions(mem[p], w) BY <1>4, <2>1, <2>2, Zenon
    <3> QED BY <3>1 DEF Mentioned
  <2>3. ASSUME NEW w \in Workers, NEW s \in Runs, Mentions(saved'[s], w) PROVE Mentioned(w)
    <3>1. Mentions(saved[s], w) BY <1>3, <2>3, Zenon
    <3> QED BY <3>1 DEF Mentioned
  <2> QED BY <1>3, <2>2, <2>3 DEF Recalls, Working
<1> QED BY <1>3, <1>6, <1>9, <1>10

(* An owner writes its run: memory and disk agree, what has succeeded stays *)
(* so, the live workers are those of the tasks in flight, and it names the   *)
(* workers it named.                                                        *)
Wrote(p) ==
  /\ at[p] \in Owning /\ at'[p] \in Working /\ mem[p].id \in Runs /\ mem'[p].id = mem[p].id
  /\ saved'[mem[p].id] = mem'[p] /\ \A r \in Runs \ {mem[p].id} : saved'[r] = saved[r]
  /\ UNCHANGED <<asked, workers, upset, outdated>>
  /\ \A t \in Tasks : mem[p].tasks[t].state = "success" => mem'[p].tasks[t].state = "success"
  /\ \A w \in Workers : Mentions(mem'[p], w) <=> Mentions(mem[p], w)
  /\ upset[mem[p].id] = {} => Tracked(p)'

(* An owner that has just saved is up to date. *)
LEMMA WroteFacts ==
  ASSUME NEW p \in Procs, Wrote(p)
  PROVE Loaded(p)' /\ UpToDate(p)' /\ Recalls(p)
<1>1. Loaded(p)' BY DEF Wrote, Loaded, Working
<1>2. Keeps(p, saved[mem[p].id], mem[p])' BY DEF Wrote, Keeps
<1>3. upset'[mem'[p].id] = {} => Tracked(p)' BY DEF Wrote
<1>4. Recalls(p)
  <2>1. ASSUME NEW w \in Workers, Mentions(mem'[p], w) PROVE Mentioned(w)
    <3>1. Mentions(mem[p], w) BY <2>1 DEF Wrote
    <3> QED BY <3>1 DEF Mentioned
  <2>2. ASSUME NEW w \in Workers, NEW s \in Runs, Mentions(saved'[s], w) PROVE Mentioned(w)
    <3>1. CASE s = mem[p].id
      <4>1. saved'[s] = mem'[p] BY <3>1 DEF Wrote
      <4>2. Mentions(mem'[p], w) BY <2>2, <4>1, Zenon
      <4> QED BY <2>1, <4>2
    <3>2. CASE s # mem[p].id
      <4>1. saved'[s] = saved[s] BY <3>2 DEF Wrote
      <4>2. Mentions(saved[s], w) BY <2>2, <4>1, Zenon
      <4> QED BY <4>2 DEF Mentioned
    <3> QED BY <3>1, <3>2
  <2>3. at[p] # "gone" /\ at'[p] \in Working BY DEF Wrote, Owning
  <2>4. \A w \in Workers : Mentions(mem[p], w) => Mentions(mem'[p], w) BY DEF Wrote
  <2> QED BY <2>1, <2>2, <2>3, <2>4 DEF Recalls
<1> QED BY <1>1, <1>2, <1>3, <1>4 DEF UpToDate

(* An owner that leaves the tasks alone knows the workers it knew. *)
LEMMA SameTasksTracked ==
  ASSUME NEW p \in Procs, Tracked(p), mem'[p].tasks = mem[p].tasks, UNCHANGED workers
  PROVE Tracked(p)'
  BY DEF Tracked, Live

(* It names those it named. *)
LEMMA SameTasksMention ==
  ASSUME NEW run, NEW new, new.tasks = run.tasks
  PROVE \A w : Mentions(new, w) <=> Mentions(run, w)
  BY DEF Mentions

(* An owner that enters the loop has saved what it knows. *)
LEMMA WorkersExecute ==
  ASSUME BaseInvariant, WorkersInvariant, NEW p \in Procs, Execute(p)
  PROVE Wrote(p)
<1>0. TypeOK /\ OnRun(p) /\ mem[p] \in RunRecords BY DEF BaseInvariant, TypeOK
<1>1. PICK run : run = [mem[p] EXCEPT !.state = "running"] OBVIOUS
<1>2. run.id = mem[p].id /\ run.tasks = mem[p].tasks BY <1>0, <1>1 DEF RunRecords
<1>3. /\ at[p] = "reconciled" \/ (at[p] = "locked" /\ asked[p].kind = "run")
      /\ mem' = [mem EXCEPT ![p] = run] /\ at' = [at EXCEPT ![p] = "starting"]
      /\ UNCHANGED <<asked, workers, upset, outdated>>
  BY <1>1 DEF Execute, history
<1>4. mem'[p] = run /\ at'[p] = "starting" /\ mem[p].id \in Runs
  BY <1>0, <1>3 DEF TypeOK, OnRun, HasRun, Chosen, Owning
<1>5. saved' = [saved EXCEPT ![run.id] = run] BY <1>2, <1>4 DEF Execute
<1>6. saved'[run.id] = run /\ \A r \in Runs \ {run.id} : saved'[r] = saved[r]
  BY <1>0, <1>2, <1>4, <1>5 DEF TypeOK
<1>7. ASSUME upset[mem[p].id] = {} PROVE Tracked(p)'
  <2>1. CASE at[p] = "reconciled"
    <3>1. Tracked(p) BY <1>7, <2>1 DEF WorkersInvariant, UpToDate, Working
    <3> QED BY <1>2, <1>3, <1>4, <3>1, SameTasksTracked
  <2>2. CASE at[p] = "locked" /\ asked[p].kind = "run"
    <3>1. Untouched(mem[p]) BY <1>0, <2>2 DEF OnRun, InFlightInMemory
    <3> QED BY <1>2, <1>4, <3>1 DEF Untouched, FreshTask, Tracked
  <2> QED BY <1>3, <2>1, <2>2
<1>8. \A w \in Workers : Mentions(mem'[p], w) <=> Mentions(mem[p], w)
  <2>1. \A w : Mentions(run, w) <=> Mentions(mem[p], w) BY <1>2, SameTasksMention
  <2> QED BY <1>4, <2>1, Zenon
<1> QED BY <1>2, <1>3, <1>4, <1>6, <1>7, <1>8 DEF Wrote, Working, Owning

(* So has one that has done something about a task. *)
LEMMA WorkersTask ==
  ASSUME BaseInvariant, WorkersInvariant, NEW p \in Procs,
         SavePid(p) \/ Hold(p) \/ SaveEnd(p) \/ \E t \in Tasks : OnTask(p, t)
  PROVE Wrote(p)
<1>0. TypeOK /\ OnRun(p) /\ at[p] \in {"executing", "ending"} /\ mem[p] \in RunRecords
  BY OnTaskFacts DEF BaseInvariant, TypeOK, SavePid, Hold, SaveEnd
<1>1. mem[p].id \in Runs BY <1>0 DEF OnRun, HasRun, Chosen, Owning
<1>2. upset[mem[p].id] = {} => Tracked(p) BY <1>0 DEF WorkersInvariant, UpToDate, Working
<1>3. CASE SavePid(p) \/ SaveEnd(p)
  <2>1. /\ Save(p, mem[p]) /\ UNCHANGED workers
        /\ at' = at \/ at' = [at EXCEPT ![p] = "closing"]
    BY <1>3 DEF SavePid, SaveEnd
  <2>2. /\ mem'[p] = mem[p] /\ saved'[mem[p].id] = mem[p]
        /\ \A r \in Runs \ {mem[p].id} : saved'[r] = saved[r]
        /\ UNCHANGED <<asked, upset, outdated>>
    <3>1. Save(p, mem[p]) BY <2>1
    <3>2. TypeOK /\ mem[p] \in RunRecords BY <1>0
    <3>3. /\ mem'[p] = mem[p] /\ saved'[mem[p].id] = mem[p]
          /\ \A r \in Runs \ {mem[p].id} : saved'[r] = saved[r]
          /\ UNCHANGED <<asked, lock, recycled, upset, outdated>>
      BY <1>1, <3>1, <3>2, SaveFacts, ZenonT(20)
    <3> QED BY <3>3
  <2>3. at'[p] \in Working BY <1>0, <2>1 DEF TypeOK, Working
  <2>4. upset[mem[p].id] = {} => Tracked(p)' BY <1>2, <2>1, <2>2, SameTasksTracked
  <2>5. at[p] \in Owning BY <1>0 DEF Owning
  <2>6. mem'[p].id = mem[p].id /\ saved'[mem[p].id] = mem'[p] BY <2>2
  <2>7. \A t \in Tasks : mem[p].tasks[t].state = "success" => mem'[p].tasks[t].state = "success"
    BY <2>2
  <2>8. UNCHANGED <<asked, workers, upset, outdated>> BY <2>1, <2>2
  <2>9. \A w \in Workers : Mentions(mem'[p], w) <=> Mentions(mem[p], w) BY <2>2, Zenon
  <2> QED BY <1>1, <2>2, <2>3, <2>4, <2>5, <2>6, <2>7, <2>8, <2>9 DEF Wrote
<1>4. CASE Hold(p)
  <2> PICK run : run = [mem[p] EXCEPT !.state = IF @ = "running" THEN "paused" ELSE "running"]
    OBVIOUS
  <2>1. run.id = mem[p].id /\ run.tasks = mem[p].tasks BY <1>0 DEF RunRecords
  <2>2. mem' = [mem EXCEPT ![p] = run] /\ at[p] = "executing" BY <1>4 DEF Hold
  <2>3. mem'[p] = run BY <1>0, <2>2 DEF TypeOK
  <2>4. /\ saved' = [saved EXCEPT ![mem[p].id] = run]
        /\ UNCHANGED <<at, asked, workers, upset, outdated>>
    BY <1>4, <2>3 DEF Hold, history
  <2>5. saved'[mem[p].id] = run /\ \A r \in Runs \ {mem[p].id} : saved'[r] = saved[r]
    BY <1>0, <1>1, <2>4 DEF TypeOK
  <2>6. upset[mem[p].id] = {} => Tracked(p)' BY <1>2, <2>1, <2>3, <2>4, SameTasksTracked
  <2>7. \A w \in Workers : Mentions(mem'[p], w) <=> Mentions(mem[p], w)
    <3>1. \A w : Mentions(run, w) <=> Mentions(mem[p], w) BY <2>1, SameTasksMention
    <3> QED BY <2>3, <3>1, Zenon
  <2> QED BY <1>1, <2>1, <2>2, <2>3, <2>4, <2>5, <2>6, <2>7 DEF Wrote, Owning, Working
<1>5. ASSUME NEW t \in Tasks, OnTask(p, t) PROVE Wrote(p)
  <2>1. PICK new : /\ TaskMoves(mem[p].tasks[t], new) /\ SaveTask(p, t, new)
                   /\ at[p] = "executing" /\ UNCHANGED <<at, workers>>
    BY <1>0, <1>5, OnTaskFacts
  <2>2. PICK run : run = WithTask(mem[p], t, new) OBVIOUS
  <2>3. /\ run \in RunRecords /\ run.id = mem[p].id /\ run.tasks[t] = new
        /\ \A u \in Tasks \ {t} : run.tasks[u] = mem[p].tasks[u]
    <3>1. new \in TaskRecords /\ mem[p] \in RunRecords BY <1>0, <2>1 DEF TaskMoves
    <3> QED BY <2>2, <3>1, WithTaskFacts
  <2>4. Save(p, run) BY <2>1, <2>2 DEF SaveTask, WithTask
  <2>5. /\ mem'[p] = run /\ saved'[run.id] = run
        /\ \A r \in Runs \ {run.id} : saved'[r] = saved[r]
        /\ UNCHANGED <<asked, upset, outdated>>
    BY <1>0, <1>1, <2>3, <2>4, SaveFacts
  <2>6. ASSUME upset[mem[p].id] = {} PROVE Tracked(p)'
    <3> SUFFICES ASSUME NEW u \in Tasks, NEW n \in DOMAIN run.tasks[u].attempts,
                        run.tasks[u].attempts[n].pid \in workers
                 PROVE /\ run.tasks[u].state \in {"running", "waiting"} /\ run.tasks[u].current = n
                       /\ run.tasks[u].attempts[n].pid.owner = p
      BY <2>1, <2>5 DEF Tracked, Live
    <3>1. Tracked(p) BY <1>2, <2>6
    <3>2. CASE u # t BY <2>3, <3>1, <3>2 DEF Tracked, Live
    <3>3. CASE u = t
      <4> DEFINE old == mem[p].tasks[t]
      <4>1. run.tasks[u].attempts[n].pid # NoWorker BY <1>0, WorkerIsReal DEF TypeOK
      <4>2. n \in DOMAIN old.attempts /\ new.attempts[n].pid = old.attempts[n].pid
        BY <2>1, <2>3, <3>3, <4>1 DEF TaskMoves
      <4>3. /\ old.state \in {"running", "waiting"} /\ old.current = n
            /\ old.attempts[n].pid.owner = p /\ old.attempts[n].pid \in workers
        BY <2>3, <3>1, <3>3, <4>2 DEF Tracked, Live
      <4>4. new.state \in {"running", "waiting"} /\ new.current = old.current
        BY <2>1, <4>3 DEF TaskMoves
      <4> QED BY <2>3, <3>3, <4>2, <4>3, <4>4
    <3> QED BY <3>2, <3>3
  <2>7. \A u \in Tasks : mem[p].tasks[u].state = "success" => run.tasks[u].state = "success"
    BY <2>1, <2>3 DEF TaskMoves
  <2>8. ASSUME NEW w \in Workers PROVE Mentions(mem'[p], w) <=> Mentions(mem[p], w)
    <3>1. w # NoWorker BY WorkerIsReal
    <3>2. ASSUME NEW u \in Tasks
          PROVE (\E n \in DOMAIN run.tasks[u].attempts : run.tasks[u].attempts[n].pid = w)
                <=> (\E n \in DOMAIN mem[p].tasks[u].attempts : mem[p].tasks[u].attempts[n].pid = w)
      <4>1. CASE u # t BY <2>3, <4>1
      <4>2. CASE u = t BY <2>1, <2>3, <3>1, <4>2 DEF TaskMoves
      <4> QED BY <4>1, <4>2
    <3>3. Mentions(run, w) <=> Mentions(mem[p], w) BY <3>2 DEF Mentions
    <3> QED BY <2>5, <3>3, Zenon
  <2> QED BY <1>1, <2>1, <2>3, <2>5, <2>6, <2>7, <2>8 DEF Wrote, Owning, Working
<1> QED BY <1>3, <1>4, <1>5

(* The new worker is its task's only one, and nobody has heard of it yet.   *)
LEMMA WorkersSpawn ==
  ASSUME BaseInvariant, WorkersInvariant, NEW p \in Procs, NEW t \in Tasks, Spawn(p, t)
  PROVE Loaded(p)' /\ UpToDate(p)' /\ Recalls(p) /\ NoNews /\ UNCHANGED saved
<1>0. TypeOK /\ OnRun(p) /\ mem[p] \in RunRecords BY DEF BaseInvariant, TypeOK
<1>1. PICK n, w, new : Noted(p, t, n, w, new) BY SpawnFacts
<1>2. PICK run : run = WithTask(mem[p], t, new) OBVIOUS
<1>3. /\ run.id = mem[p].id /\ run.tasks[t] = new
      /\ \A u \in Tasks \ {t} : run.tasks[u] = mem[p].tasks[u]
  BY <1>0, <1>1, <1>2, WithTaskFacts DEF Noted
<1>4. mem'[p] = run BY <1>0, <1>1, <1>2 DEF TypeOK, Noted
<1>5. /\ at[p] = "executing" /\ UNCHANGED <<at, asked, saved, upset, outdated>>
      /\ w \in Workers /\ workers' = workers \cup {w}
      /\ w.owner = p /\ w.run = mem[p].id /\ w.task = t /\ w.number = n
  BY <1>1 DEF Noted, files
<1>6. mem[p].id \in Runs /\ Shaped(mem[p])
  BY <1>0, <1>5 DEF OnRun, HasRun, Chosen, Owning
<1>7. /\ upset[mem[p].id] = {} => Tracked(p) /\ Keeps(p, saved[mem[p].id], mem[p])
      /\ Remembers(p)
  BY <1>5 DEF WorkersInvariant, UpToDate, Working
<1>8. ~Mentioned(w)
  <2>1. w # NoWorker BY <1>5, WorkerIsReal
  <2>2. ASSUME Mentions(mem[p], w) PROVE FALSE
    <3>1. PICK u \in Tasks : \E m \in DOMAIN mem[p].tasks[u].attempts :
                                mem[p].tasks[u].attempts[m].pid = w
      BY <2>2 DEF Mentions
    <3>a. PICK m \in DOMAIN mem[p].tasks[u].attempts : mem[p].tasks[u].attempts[m].pid = w
      BY <3>1
    <3>2. u = t /\ m = n BY <1>5, <1>6, <2>1, <3>a, PidShaped
    <3> QED BY <1>1, <2>1, <3>a, <3>2 DEF Noted
  <2> QED BY <1>5, <1>7, <2>2 DEF Remembers
<1>9. NoNews BY <1>5, <1>8 DEF NoNews
<1>10. ASSUME upset[mem[p].id] = {} PROVE Tracked(p)'
  <2> SUFFICES ASSUME NEW u \in Tasks, NEW m \in DOMAIN run.tasks[u].attempts,
                      run.tasks[u].attempts[m].pid \in workers'
               PROVE /\ run.tasks[u].state \in {"running", "waiting"} /\ run.tasks[u].current = m
                     /\ run.tasks[u].attempts[m].pid.owner = p
    BY <1>4 DEF Tracked, Live
  <2>1. Tracked(p) BY <1>7, <1>10
  <2>2. CASE u = t /\ m = n BY <1>1, <1>3, <1>5, <2>2 DEF Noted
  <2>3. CASE u # t \/ m # n
    <3>1. /\ m \in DOMAIN mem[p].tasks[u].attempts
          /\ run.tasks[u].attempts[m].pid = mem[p].tasks[u].attempts[m].pid
      BY <1>1, <1>3, <2>3 DEF Noted
    <3>2. run.tasks[u].attempts[m].pid # NoWorker
      <4>1. workers' \subseteq Workers BY <1>0, <1>5 DEF TypeOK
      <4> QED BY <4>1, WorkerIsReal
    <3>3. run.tasks[u].attempts[m].pid # w
      <4>1. /\ mem[p].tasks[u].attempts[m].pid.task = u
            /\ mem[p].tasks[u].attempts[m].pid.number = m
        <5>1. mem[p].tasks[u].attempts[m].pid # NoWorker BY <3>1, <3>2
        <5>2. Shaped(mem[p]) BY <1>6
        <5> QED BY <3>1, <5>1, <5>2, PidShaped, SMTT(30)
      <4> QED BY <1>5, <2>3, <3>1, <4>1
    <3>4. mem[p].tasks[u].attempts[m].pid \in workers BY <1>5, <3>1, <3>3
    <3>5. /\ mem[p].tasks[u].state \in {"running", "waiting"} /\ mem[p].tasks[u].current = m
          /\ mem[p].tasks[u].attempts[m].pid.owner = p
      BY <2>1, <3>1, <3>4 DEF Tracked, Live
    <3>6. u # t BY <1>1, <2>3, <3>5 DEF Noted
    <3> QED BY <1>3, <3>1, <3>5, <3>6
  <2> QED BY <2>2, <2>3
<1>11. ASSUME upset[mem[p].id] = {} PROVE Keeps(p, saved[mem[p].id], mem[p])'
  <2>1. \A u \in Tasks : run.tasks[u].state = mem[p].tasks[u].state BY <1>1, <1>3 DEF Noted
  <2> QED BY <1>3, <1>4, <1>5, <1>7, <1>11, <2>1 DEF Keeps, Named
<1>12. UpToDate(p)' BY <1>3, <1>4, <1>5, <1>10, <1>11 DEF UpToDate
<1>13. Loaded(p)' BY <1>5 DEF Loaded
<1>14. Recalls(p)
  <2>1. ASSUME NEW v \in Workers
        PROVE /\ Mentions(mem[p], v) => Mentions(run, v)
              /\ Mentions(run, v) => Mentions(mem[p], v) \/ v = w
    <3>1. v # NoWorker BY WorkerIsReal
    <3>2. ASSUME Mentions(mem[p], v) PROVE Mentions(run, v)
      <4>1. PICK u \in Tasks : \E m \in DOMAIN mem[p].tasks[u].attempts :
                                  mem[p].tasks[u].attempts[m].pid = v
        BY <3>2 DEF Mentions
      <4>a. PICK m \in DOMAIN mem[p].tasks[u].attempts : mem[p].tasks[u].attempts[m].pid = v
        BY <4>1
      <4>2. u # t \/ m # n BY <1>1, <3>1, <4>a DEF Noted
      <4>3. m \in DOMAIN run.tasks[u].attempts /\ run.tasks[u].attempts[m].pid = v
        BY <1>1, <1>3, <4>a, <4>2 DEF Noted
      <4> QED BY <4>3 DEF Mentions
    <3>3. ASSUME Mentions(run, v), v # w PROVE Mentions(mem[p], v)
      <4>1. PICK u \in Tasks : \E m \in DOMAIN run.tasks[u].attempts :
                                  run.tasks[u].attempts[m].pid = v
        BY <3>3 DEF Mentions
      <4>a. PICK m \in DOMAIN run.tasks[u].attempts : run.tasks[u].attempts[m].pid = v
        BY <4>1
      <4>2. u # t \/ m # n BY <1>1, <1>3, <3>3, <4>a DEF Noted
      <4>3. m \in DOMAIN mem[p].tasks[u].attempts /\ mem[p].tasks[u].attempts[m].pid = v
        BY <1>1, <1>3, <4>a, <4>2 DEF Noted
      <4> QED BY <4>3 DEF Mentions
    <3> QED BY <3>2, <3>3
  <2>2. \A v \in Workers : /\ Mentions(mem[p], v) => Mentions(mem'[p], v)
                           /\ Mentions(mem'[p], v) => Mentions(mem[p], v) \/ v = w
    BY <1>4, <2>1, Zenon
  <2>3. ASSUME NEW v \in Workers, NEW s \in Runs, Mentions(saved'[s], v) PROVE Mentioned(v)
    <3>1. Mentions(saved[s], v) BY <1>5, <2>3, Zenon
    <3> QED BY <3>1 DEF Mentioned
  <2>4. \A v \in Workers : Mentions(mem[p], v) => Mentioned(v) BY DEF Mentioned
  <2>5. at[p] # "gone" /\ at'[p] \in Working BY <1>5 DEF Working
  <2> QED BY <1>5, <2>2, <2>3, <2>4, <2>5 DEF Recalls
<1> QED BY <1>5, <1>9, <1>12, <1>13, <1>14

(* So has one that gives its verdict. *)
LEMMA WorkersFinalize ==
  ASSUME BaseInvariant, WorkersInvariant, NEW p \in Procs, NEW cause \in Causes, Finalize(p, cause)
  PROVE Loaded(p)' /\ UpToDate(p)' /\ Recalls(p) /\ UNCHANGED <<saved, workers>>
<1>0. TypeOK /\ mem[p] \in RunRecords BY DEF BaseInvariant, TypeOK
<1>1. PICK tasks, state : tasks = FinalTasks(mem[p], cause) /\ state = FinalState(tasks, cause)
  OBVIOUS
<1>2. PICK run : run = [mem[p] EXCEPT !.tasks = tasks, !.state = state] OBVIOUS
<1>3. \A t \in Tasks : /\ tasks[t].attempts = mem[p].tasks[t].attempts
                       /\ mem[p].tasks[t].state = "success" => tasks[t].state = "success"
  BY <1>0, <1>1, FinalFacts
<1>4. run.id = mem[p].id /\ run.tasks = tasks BY <1>0, <1>2 DEF RunRecords
<1>5. /\ at[p] = "executing" /\ InFlight(mem[p]) = {} /\ at' = [at EXCEPT ![p] = "ending"]
      /\ UNCHANGED <<asked, saved, workers, upset, outdated>>
  BY DEF Finalize, files, history
<1>6. mem' = [mem EXCEPT ![p] = run] BY <1>1, <1>2 DEF Finalize
<1>7. mem'[p] = run /\ at'[p] = "ending" BY <1>0, <1>5, <1>6 DEF TypeOK
<1>8. ASSUME upset[mem[p].id] = {}
      PROVE Tracked(p)' /\ Keeps(p, saved[mem[p].id], mem[p])'
  <2>1. Tracked(p) /\ Keeps(p, saved[mem[p].id], mem[p])
    BY <1>5, <1>8 DEF WorkersInvariant, UpToDate, Working
  <2>2. \A t \in Tasks : mem[p].tasks[t].state \notin {"running", "waiting"}
    BY <1>5 DEF InFlight
  <2>3. \A t \in Tasks : \A n \in DOMAIN run.tasks[t].attempts :
          run.tasks[t].attempts[n].pid \notin workers
    BY <1>3, <1>4, <2>1, <2>2 DEF Tracked, Live
  <2>4. Tracked(p)' BY <1>5, <1>7, <2>3 DEF Tracked, Live
  <2>5. Keeps(p, saved[mem[p].id], mem[p])' BY <1>3, <1>4, <1>5, <1>7, <2>1 DEF Keeps, Named
  <2> QED BY <2>4, <2>5
<1>9. UpToDate(p)' BY <1>4, <1>5, <1>7, <1>8 DEF UpToDate
<1>10. Loaded(p)' BY <1>7 DEF Loaded
<1>11. Recalls(p)
  <2>1. \A t \in Tasks : SamePids(mem[p].tasks[t].attempts, run.tasks[t].attempts)
    BY <1>3, <1>4 DEF SamePids
  <2>2. \A w : Mentions(run, w) <=> Mentions(mem[p], w) BY <2>1, SamePidsMention
  <2>3. \A w \in Workers : Mentions(mem'[p], w) <=> Mentions(mem[p], w) BY <1>7, <2>2, Zenon
  <2>4. ASSUME NEW w \in Workers, NEW s \in Runs, Mentions(saved'[s], w) PROVE Mentioned(w)
    <3>1. Mentions(saved[s], w) BY <1>5, <2>4, Zenon
    <3> QED BY <3>1 DEF Mentioned
  <2>5. \A w \in Workers : Mentions(mem[p], w) => Mentioned(w) BY DEF Mentioned
  <2>6. at[p] # "gone" /\ at'[p] \in Working BY <1>5, <1>7 DEF Working
  <2> QED BY <2>3, <2>4, <2>5, <2>6 DEF Recalls
<1> QED BY <1>5, <1>9, <1>10, <1>11

(* The workers an exit handler kills are all that its file names.           *)
LEMMA WorkersForceExit ==
  ASSUME BaseInvariant, WorkersInvariant, NEW p \in Procs, ForceExit(p)
  PROVE /\ Loaded(p)' /\ UpToDate(p)' /\ Recalls(p) /\ workers' \subseteq workers
        /\ at[p] \in {"starting", "executing"} /\ mem[p].id \in Runs
        /\ \A r \in Runs \ {mem[p].id} : saved'[r] = saved[r]
        /\ \A t \in Tasks :
             mem[p].tasks[t].state = "success" => saved'[mem[p].id].tasks[t].state = "success"
        /\ \A r \in Runs : upset[r] = {} => saved'[r] = saved[r] \/ Findable(saved[r])'
<1>0. TypeOK /\ OnRun(p) /\ mem[p] \in RunRecords BY DEF BaseInvariant, TypeOK
<1>1. PICK run : run = PersistInterrupted(mem[p]) OBVIOUS
<1>2. \A t \in Tasks :
        /\ PutBack(mem[p].tasks[t], run.tasks[t])
        /\ mem[p].tasks[t].state = "success" => run.tasks[t].state = "success"
  BY <1>0, <1>1, PersistFacts
<1>3. /\ at[p] \in {"starting", "executing"} /\ saved' = [saved EXCEPT ![mem[p].id] = run]
      /\ workers' = {w \in workers : w.owner # p} /\ Gone(p)
  BY <1>1 DEF ForceExit
<1>4. mem[p].id \in Runs BY <1>0, <1>3 DEF OnRun, HasRun, Chosen, Owning
<1>5. saved'[mem[p].id] = run /\ \A r \in Runs \ {mem[p].id} : saved'[r] = saved[r]
  BY <1>0, <1>3, <1>4 DEF TypeOK
<1>6. ASSUME NEW r \in Runs, upset[r] = {}, r = mem[p].id PROVE Findable(saved[r])'
  <2>1. Tracked(p) BY <1>3, <1>6 DEF WorkersInvariant, UpToDate, Working
  <2>2. ASSUME NEW t \in Tasks, NEW n \in DOMAIN run.tasks[t].attempts
        PROVE run.tasks[t].attempts[n].pid \notin workers'
    <3>1. /\ n \in DOMAIN mem[p].tasks[t].attempts
          /\ run.tasks[t].attempts[n].pid = mem[p].tasks[t].attempts[n].pid
      BY <1>2 DEF PutBack, SamePids
    <3>2. Live(mem[p], t, n) => mem[p].tasks[t].attempts[n].pid.owner = p
      BY <2>1, <3>1 DEF Tracked
    <3> QED BY <1>3, <3>1, <3>2 DEF Live
  <2>3. saved'[r] = run BY <1>5, <1>6
  <2> QED BY <2>2, <2>3 DEF Findable, Live
<1>7. Recalls(p)
  <2>1. \A t \in Tasks : SamePids(mem[p].tasks[t].attempts, run.tasks[t].attempts)
    BY <1>2 DEF PutBack
  <2>2. \A w : Mentions(run, w) <=> Mentions(mem[p], w) BY <2>1, SamePidsMention
  <2>3. ASSUME NEW s \in Runs, NEW w \in Workers, Mentions(saved'[s], w) PROVE Mentioned(w)
    <3>1. CASE s = mem[p].id
      <4>1. saved'[s] = run BY <1>5, <3>1
      <4>2. Mentions(mem[p], w) BY <2>2, <2>3, <4>1, Zenon
      <4> QED BY <4>2 DEF Mentioned
    <3>2. CASE s # mem[p].id
      <4>1. saved'[s] = saved[s] BY <1>5, <3>2
      <4>2. Mentions(saved[s], w) BY <2>3, <4>1, Zenon
      <4> QED BY <4>2 DEF Mentioned
    <3> QED BY <3>1, <3>2
  <2> QED BY <1>3, <2>3, WorkersEnds
<1>8. Loaded(p)' /\ UpToDate(p)' BY <1>3, WorkersEnds
<1>9. \A r \in Runs : upset[r] = {} => saved'[r] = saved[r] \/ Findable(saved[r])'
  BY <1>5, <1>6
<1> QED BY <1>2, <1>3, <1>4, <1>5, <1>7, <1>8, <1>9

(* What one process does leaves every owner up to date. *)
LEMMA WorkersStep ==
  ASSUME BaseInvariant, BaseInvariant', HoldsLock, WorkersInvariant, NEW p \in Procs, Step(p)
  PROVE WorkersInvariant'
<1>1. CASE Loaded(p)' /\ UpToDate(p)' /\ Recalls(p) /\ NoNews /\ UNCHANGED saved
  BY <1>1, WorkersFrame
<1>2. workers' \subseteq workers => NoNews BY DEF NoNews
<1>3. CASE Wrote(p)
  <2>1. Loaded(p)' /\ UpToDate(p)' /\ Recalls(p) BY <1>3, WroteFacts
  <2>2. \A r \in Runs : saved'[r] = saved[r] \/ Owns(p, r) BY <1>3 DEF Wrote, Owns
  <2>3. NoNews BY <1>2, <1>3 DEF Wrote
  <2>4. \A r \in Runs : upset'[r] = {} =>
          saved'[r] = saved[r] \/ (saved'[r] = mem'[p] /\ Tracked(p)')
    BY <1>3 DEF Wrote
  <2> QED BY <2>1, <2>2, <2>3, <2>4, WorkersFrame
<1>4. CASE Quiet(p) BY <1>1, <1>2, <1>4, WorkersQuiet
<1>5. CASE Ends(p)
  <2>1. Gone(p) /\ UNCHANGED <<saved, workers>> BY <1>5, EndsFacts DEF BaseInvariant
  <2>2. \A r \in Runs, w \in Workers : Mentions(saved'[r], w) => Mentioned(w)
    <3>1. saved' = saved BY <2>1
    <3> QED BY <3>1, Zenon DEF Mentioned
  <2>3. Loaded(p)' /\ UpToDate(p)' /\ Recalls(p) BY <2>1, <2>2, WorkersEnds
  <2> QED BY <1>1, <1>2, <2>1, <2>3
<1>6. CASE CreateRun(p)
  <2>1. /\ Loaded(p)' /\ UpToDate(p)' /\ Recalls(p) /\ UNCHANGED workers
        /\ \A r \in Runs : saved'[r] = saved[r] \/ (saved[r].id # r /\ Findable(saved[r])')
    BY <1>6, WorkersCreate
  <2> QED BY <1>2, <2>1, WorkersFrame
<1>7. ASSUME NEW r \in Runs, NEW c \in Commands, LoadRun(p, r, c) PROVE WorkersInvariant'
  BY <1>1, <1>2, <1>7, WorkersLoad
<1>8. CASE Reconcile(p) BY <1>1, <1>2, <1>8, WorkersReconcile
<1>9. CASE Execute(p) BY <1>3, <1>9, WorkersExecute
<1>10. CASE SavePid(p) \/ Hold(p) \/ SaveEnd(p) \/ \E t \in Tasks : OnTask(p, t)
  BY <1>3, <1>10, WorkersTask
<1>11. ASSUME NEW t \in Tasks, Spawn(p, t) PROVE WorkersInvariant'
  BY <1>1, <1>11, WorkersSpawn
<1>12. ASSUME NEW cause \in Causes, Finalize(p, cause) PROVE WorkersInvariant'
  BY <1>1, <1>2, <1>12, WorkersFinalize
<1>13. CASE ForceExit(p)
  <2>1. /\ Loaded(p)' /\ UpToDate(p)' /\ Recalls(p) /\ workers' \subseteq workers
        /\ at[p] \in {"starting", "executing"}
        /\ \A r \in Runs \ {mem[p].id} : saved'[r] = saved[r]
        /\ \A r \in Runs : upset[r] = {} => saved'[r] = saved[r] \/ Findable(saved[r])'
    BY <1>13, WorkersForceExit
  <2>2. \A r \in Runs : saved'[r] = saved[r] \/ Owns(p, r) BY <2>1 DEF Owns, Owning
  <2>3. \A r \in Runs : upset'[r] = {} => upset[r] = {} BY HistoryFrame
  <2> QED BY <1>2, <2>1, <2>2, <2>3, WorkersFrame
<1> QED BY <1>4, <1>5, <1>6, <1>7, <1>8, <1>9, <1>10, <1>11, <1>12, <1>13
        DEF Step, OnTask, Quiet, Ends

(* So does what the world does. *)
LEMMA WorkersWorld ==
  ASSUME BaseInvariant, WorkersInvariant, World \/ UNCHANGED vars,
         \A r \in Runs : upset'[r] = {} => upset[r] = {}, outdated' = outdated
  PROVE WorkersInvariant'
<1>1. UNCHANGED <<at, asked, mem, saved>> /\ workers' \subseteq workers
  BY DEF World, WorkerEnds, Age, LoseLock, Recycle, files, vars
<1>2. \A r \in Runs : upset'[r] = {} => Findable(saved[r])'
  BY <1>1 DEF WorkersInvariant, Findable, Live, OpenAttempt, LastOf
<1>3. ASSUME NEW p \in Procs PROVE Loaded(p)'
  <2>1. at[p] \in {"unlocked", "locking", "locked"} => mem[p].id \in Runs
    BY DEF BaseInvariant, OnRun, HasRun, Chosen, Owning
  <2>2. Findable(mem[p]) => Findable(mem[p])'
    BY <1>1 DEF Findable, Live, OpenAttempt, LastOf
  <2>3. Loaded(p) BY DEF WorkersInvariant
  <2> QED BY <1>1, <2>1, <2>2, <2>3 DEF Loaded
<1>4. ASSUME NEW p \in Procs PROVE UpToDate(p)'
  <2>1. at[p] \in Working => mem[p].id \in Runs
    BY DEF BaseInvariant, OnRun, HasRun, Chosen, Working, Owning
  <2>2. Tracked(p) => Tracked(p)' BY <1>1 DEF Tracked, Live
  <2>3. Keeps(p, saved[mem[p].id], mem[p]) => Keeps(p, saved[mem[p].id], mem[p])'
    BY <1>1 DEF Keeps, Named
  <2>4. UpToDate(p) /\ at' = at /\ mem' = mem BY <1>1 DEF WorkersInvariant
  <2>5. upset'[mem[p].id] = {} /\ mem[p].id \in Runs => upset[mem[p].id] = {} OBVIOUS
  <2>6. SUFFICES ASSUME at[p] \in Working, upset'[mem[p].id] = {}
                 PROVE /\ Tracked(p)'
                       /\ at[p] # "reconciled" \/ p \notin outdated =>
                            Keeps(p, saved[mem[p].id], mem[p])'
    BY <2>4 DEF UpToDate
  <2>7. upset[mem[p].id] = {} BY <2>1, <2>5, <2>6
  <2>8. /\ Tracked(p)
        /\ at[p] # "reconciled" \/ p \notin outdated => Keeps(p, saved[mem[p].id], mem[p])
    BY <2>4, <2>6, <2>7 DEF UpToDate
  <2> QED BY <2>2, <2>3, <2>8
<1>5. ASSUME NEW p \in Procs PROVE Remembers(p)'
  <2>1. Remembers(p) /\ at' = at /\ mem' = mem /\ saved' = saved BY <1>1 DEF WorkersInvariant
  <2>2. ASSUME NEW w \in Workers PROVE Mentioned(w)' => Mentioned(w)
    <3>1. (\E r \in Runs : Mentions(saved'[r], w)) \/ (\E q \in Procs : Mentions(mem'[q], w))
          => (\E r \in Runs : Mentions(saved[r], w)) \/ (\E q \in Procs : Mentions(mem[q], w))
      BY <2>1, Zenon
    <3> QED BY <3>1 DEF Mentioned, Mentions
  <2>3. ASSUME NEW w \in Workers PROVE Mentions(mem[p], w) => Mentions(mem[p], w)'
    BY <2>1 DEF Mentions
  <2> QED BY <2>1, <2>2, <2>3 DEF Remembers
<1> QED BY <1>2, <1>3, <1>4, <1>5 DEF WorkersInvariant

-----------------------------------------------------------------------------
(* The theorems *)

(* The invariant holds before any run exists. *)
LEMMA OwnershipInit == Init => OwnershipInvariant
<1> SUFFICES ASSUME Init PROVE OwnershipInvariant OBVIOUS
<1>1. BaseInvariant BY BaseInit
<1>2. HoldsLock BY DEF Init, HoldsLock, Owns, Owning
<1>3. (\A w : ~Mentions(NoRun, w)) /\ Findable(NoRun)
  <2>1. Untouched(NoRun) BY NewRunFacts DEF NoRun
  <2> QED BY <2>1, UntouchedMentions
<1>4. \A r \in Runs : Findable(saved[r])
  <2>1. \A r \in Runs : saved[r] = NoRun BY DEF Init
  <2> QED BY <1>3, <2>1, Zenon
<1>5. ASSUME NEW p \in Procs PROVE Remembers(p)
  <2>1. (\A r \in Runs : saved[r] = NoRun) /\ (\A q \in Procs : mem[q] = NoRun) BY DEF Init
  <2>2. \A w \in Workers : ~Mentioned(w) BY <1>3, <2>1, Zenon DEF Mentioned
  <2> QED BY <2>2 DEF Remembers
<1>6. \A p \in Procs : Loaded(p) /\ UpToDate(p) BY DEF Init, Loaded, UpToDate, Working
<1> QED BY <1>1, <1>2, <1>4, <1>5, <1>6 DEF OwnershipInvariant, WorkersInvariant

(* Every step keeps the invariant. *)
LEMMA OwnershipStep == OwnershipInvariant /\ [Next]_vars => OwnershipInvariant'
<1> SUFFICES ASSUME OwnershipInvariant, [Next]_vars PROVE OwnershipInvariant' OBVIOUS
<1>1. BaseInvariant /\ BaseInvariant' /\ HoldsLock /\ WorkersInvariant
  BY BaseStep DEF OwnershipInvariant
<1>2. ASSUME NEW p \in Procs, Step(p) PROVE HoldsLock' /\ WorkersInvariant'
  BY <1>1, <1>2, HoldsLockStep, WorkersStep
<1>3. ASSUME World \/ UNCHANGED vars PROVE HoldsLock' /\ WorkersInvariant'
  <2>1. HoldsLock' /\ (\A r \in Runs : upset'[r] = {} => upset[r] = {}) /\ outdated' = outdated
    BY <1>1, <1>3, HoldsLockWorld
  <2> QED BY <1>1, <1>3, <2>1, WorkersWorld
<1> QED BY <1>1, <1>2, <1>3 DEF OwnershipInvariant, Next

(* However start-ups overlap: the owner of a run that is not upset holds its *)
(* lock and knows every live worker of its run, as the file it leaves does,  *)
(* and nobody names a worker but from its owner (acquireLock, onProcess,     *)
(* persist, reconcileForResume).                                            *)
THEOREM OwnershipCorrect == Spec => []OwnershipInvariant
<1>1. Init => OwnershipInvariant BY OwnershipInit
<1>2. OwnershipInvariant /\ [Next]_vars => OwnershipInvariant' BY OwnershipStep
<1> QED BY <1>1, <1>2, PTL DEF Spec

(* acquireLock, heartbeat and releaseLock: however start-ups overlap, a run  *)
(* has at most one owner until its lock is removed by something else, is     *)
(* late under its owner, or is overwritten by a process that read it before  *)
(* it was taken; and a window is told of an owner that beats.                *)
THEOREM OneOwner == Spec => []OneExecutor
<1>1. ASSUME OwnershipInvariant PROVE OneExecutor
  <2>0. BaseInvariant /\ HoldsLock BY <1>1 DEF OwnershipInvariant
  <2> SUFFICES ASSUME NEW r \in Runs
               PROVE /\ upset[r] = {} => Cardinality({p \in Procs : Owns(p, r)}) <= 1
                     /\ \A p \in Procs :
                          /\ at[p] = "executing" /\ mem[p].id = r
                          /\ live[r].pid = p /\ live[r].state = "running"
                          /\ lock[r].pid \in {p, Nobody}
                          => \A q \in Procs : OwnershipOf(r, q) = IF q = p THEN "self" ELSE "owned"
    BY DEF OneExecutor
  <2>1. ASSUME upset[r] = {} PROVE Cardinality({p \in Procs : Owns(p, r)}) <= 1
    <3> DEFINE owners == {p \in Procs : Owns(p, r)}
    <3>1. owners \subseteq {lock[r].pid} BY <2>0, <2>1 DEF HoldsLock
    <3>2. IsFiniteSet({lock[r].pid}) /\ Cardinality({lock[r].pid}) = 1 BY FS_Singleton
    <3> QED BY <3>1, <3>2, FS_Subset
  <2>2. ASSUME NEW p \in Procs, at[p] = "executing", live[r].pid = p, live[r].state = "running",
               lock[r].pid \in {p, Nobody}, NEW q \in Procs
        PROVE OwnershipOf(r, q) = IF q = p THEN "self" ELSE "owned"
    <3>1. p # Nobody /\ IsAlive(p) BY <2>2, ProcsAssumption DEF IsAlive
    <3>2. live[r].fresh BY <2>0, <2>2 DEF BaseInvariant, LiveIsFresh
    <3>3. Orchestrator(r).pid = p /\ Orchestrator(r).alive
      BY <2>2, <3>1, <3>2 DEF Orchestrator
    <3> QED BY <3>1, <3>3 DEF OwnershipOf
  <2> QED BY <2>1, <2>2
<1> QED BY <1>1, OwnershipCorrect, PTL

(* reconcileForResume, onProcess and persistInterruptedSync: however start-  *)
(* ups overlap, a later owner kills every worker the file names, so that a   *)
(* task of a run that is not upset never has two of them.                    *)
THEOREM OneWorkerOnFile == Spec => []OneKnownWorker
<1>1. ASSUME OwnershipInvariant PROVE OneKnownWorker
  <2>0. TypeOK /\ WorkersInvariant BY <1>1 DEF OwnershipInvariant, BaseInvariant
  <2> SUFFICES ASSUME NEW v \in workers, NEW w \in workers, v.run = w.run, v.task = w.task,
                      upset[v.run] = {}, KnownWorker(v), KnownWorker(w)
               PROVE v = w
    BY DEF OneKnownWorker
  <2>1. v.run \in Runs /\ v.task \in Tasks BY <2>0 DEF TypeOK, Workers
  <2>2. Findable(saved[v.run]) BY <2>0, <2>1 DEF WorkersInvariant
  <2>3. PICK n \in DOMAIN saved[v.run].tasks[v.task].attempts :
          saved[v.run].tasks[v.task].attempts[n].pid = v
    BY DEF KnownWorker
  <2>4. PICK m \in DOMAIN saved[v.run].tasks[v.task].attempts :
          saved[v.run].tasks[v.task].attempts[m].pid = w
    BY DEF KnownWorker
  <2>5. n = m BY <2>1, <2>2, <2>3, <2>4 DEF Findable, Live
  <2> QED BY <2>3, <2>4, <2>5
<1> QED BY <1>1, OwnershipCorrect, PTL

(* A step that takes a success off the disk is one of a resume that names   *)
(* it, or the first of a resume whose reading of the run was outdated.       *)
LEMMA SuccessStep ==
  ASSUME OwnershipInvariant, [Next]_vars,
         NEW r \in Runs, NEW t \in Tasks, upset'[r] = {}, Lost(r, t)
  PROVE \E p \in Procs : AskedFor(p, r, t) \/ StartsOutdated(p, r)
<1>0. BaseInvariant /\ TypeOK /\ WorkersInvariant
  BY DEF OwnershipInvariant, BaseInvariant
<1>a. saved[r].tasks[t].state = "success" /\ saved'[r].tasks[t].state # "success" BY DEF Lost
<1>1. ~(World \/ UNCHANGED vars)
  <2>1. World \/ UNCHANGED vars => saved' = saved
    BY DEF World, WorkerEnds, Age, LoseLock, Recycle, files, vars
  <2> QED BY <1>a, <2>1
<1>2. PICK p \in Procs : Step(p) BY <1>1 DEF Next
<1>3. upset[r] = {} BY <1>0, <1>2, HistoryFrame
<1>b. saved' # saved BY <1>a
<1>c. ASSUME Wrote(p)
      PROVE mem[p].id = r /\ (mem[p].tasks[t].state = "success" => saved'[r].tasks[t].state = "success")
  BY <1>a, <1>c DEF Wrote
<1>4. /\ Execute(p) \/ at[p] \in {"starting", "executing", "ending"}
      /\ mem[p].id = r
      /\ mem[p].tasks[t].state = "success" => saved'[r].tasks[t].state = "success"
  <2>1. CASE CreateRun(p)
    <3>1. \A s \in Runs : saved'[s] = saved[s] \/ saved[s].id # s BY <1>0, <2>1, WorkersCreate
    <3>2. saved[r].id # r BY <1>a, <3>1
    <3>3. saved[r] = NoRun BY <1>0, <3>2 DEF BaseInvariant, Filed
    <3>4. Untouched(NoRun) BY NewRunFacts DEF NoRun
    <3> QED BY <1>a, <3>3, <3>4 DEF Untouched, FreshTask
  <2>2. CASE ForceExit(p) BY <1>0, <1>a, <2>2, WorkersForceExit
  <2>3. ~Quiet(p) BY <1>0, <1>b, QuietFacts
  <2>4. ~Ends(p) BY <1>0, <1>b, EndsFacts
  <2>5. ASSUME NEW s \in Runs, NEW c \in Commands, LoadRun(p, s, c) PROVE FALSE
    BY <1>b, <2>5 DEF LoadRun, files
  <2>6. ~Reconcile(p) BY <1>b DEF Reconcile, files
  <2>7. CASE Execute(p) BY <1>0, <1>c, <2>7, WorkersExecute
  <2>8. CASE SavePid(p) \/ Hold(p) \/ SaveEnd(p) \/ (\E u \in Tasks : OnTask(p, u))
    <3>1. at[p] \in {"executing", "ending"}
      BY <1>0, <2>8, OnTaskFacts DEF SavePid, Hold, SaveEnd
    <3> QED BY <1>0, <1>c, <2>8, <3>1, WorkersTask
  <2>9. ASSUME NEW u \in Tasks, Spawn(p, u) PROVE FALSE
    BY <1>b, <2>9 DEF Spawn, files
  <2>10. ASSUME NEW cause \in Causes, Finalize(p, cause) PROVE FALSE
    BY <1>b, <2>10 DEF Finalize, files
  <2> QED BY <1>2, <2>1, <2>2, <2>3, <2>4, <2>5, <2>6, <2>7, <2>8, <2>9, <2>10
          DEF Step, OnTask, Quiet, Ends
<1>5. CASE Execute(p) /\ p \in outdated BY <1>4, <1>5 DEF StartsOutdated
<1>6. CASE Keeps(p, saved[r], mem[p])
  BY <1>4, <1>6, <1>a DEF Keeps, Named, AskedFor
<1>7. CASE at[p] \in {"starting", "executing", "ending"}
  <2>1. Keeps(p, saved[r], mem[p]) BY <1>0, <1>3, <1>4, <1>7 DEF WorkersInvariant, UpToDate, Working
  <2> QED BY <1>6, <2>1
<1>8. CASE Execute(p) /\ p \notin outdated
  <2>1. at[p] = "reconciled" \/ at[p] = "locked" BY <1>8 DEF Execute
  <2>2. CASE at[p] = "reconciled"
    <3>1. Keeps(p, saved[r], mem[p])
      BY <1>0, <1>3, <1>4, <1>8, <2>2 DEF WorkersInvariant, UpToDate, Working
    <3> QED BY <1>6, <3>1
  <2>3. CASE at[p] = "locked"
    <3>1. mem[p] = saved[r] BY <1>0, <1>3, <1>4, <1>8, <2>3 DEF WorkersInvariant, Loaded
    <3> QED BY <1>4, <1>a, <3>1
  <2> QED BY <2>1, <2>2, <2>3
<1> QED BY <1>4, <1>5, <1>7, <1>8

(* A completed run has done its tasks; and a success on disk is lost only    *)
(* where a resume names its task, or starts with what it read before another *)
(* owner changed the run (reconcileForResume, startRuntime).                 *)
THEOREM ProgressIsKept == Spec => ProgressStands
<1>1. ASSUME OwnershipInvariant, [Next]_vars
      PROVE [\A r \in Runs, t \in Tasks :
               upset'[r] = {} /\ Lost(r, t) =>
                 \E p \in Procs : AskedFor(p, r, t) \/ StartsOutdated(p, r)]_vars
  BY <1>1, SuccessStep
<1>2. Spec => SuccessStands BY <1>1, OwnershipCorrect, PTL DEF Spec, SuccessStands
<1>3. Spec => []CompletedIsDone BY CompletedRunsAreDone
<1> QED BY <1>2, <1>3 DEF ProgressStands

=============================================================================
