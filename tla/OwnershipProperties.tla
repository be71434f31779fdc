------------------------ MODULE OwnershipProperties ------------------------
(***************************************************************************)
(* What is promised of the owners of a run.                                 *)
(***************************************************************************)
EXTENDS Ownership

(* At most one process works on a run at a time, however start-ups overlap,  *)
(* whatever dies and whichever pid is given to another program: the lock of  *)
(* acquireLock, heartbeat and releaseLock.  Not promised of a run whose lock *)
(* was removed by something else, went stale under an owner that prepares or *)
(* cleans up, or was overwritten between the read and the write of           *)
(* acquireLock (`upset`).                                                    *)
(* And while that process beats and says so in live.json, a window that asks *)
(* is told that the run is owned, even when lock.json has just been removed. *)
OneExecutor ==
  \A r \in Runs :
    /\ upset[r] = {} => Cardinality({p \in Procs : Owns(p, r)}) <= 1
    /\ \A p \in Procs :
         /\ at[p] = "executing" /\ mem[p].id = r
         /\ live[r].pid = p /\ live[r].state = "running" /\ lock[r].pid \in {p, Nobody}
         => \A q \in Procs : OwnershipOf(r, q) = IF q = p THEN "self" ELSE "owned"


(* At most one process works in the repository, when every run is started    *)
(* with `cao run`: "every run is checked before a new one is created".       *)
OneOrchestrator == Cardinality({p \in Procs : at[p] \in Owning}) <= 1

(* A worker is dead before another one is started on its task, by this owner *)
(* or a later one (reconcileForResume), unless its pid never reached the     *)
(* disk, or was overwritten there by an owner that started with what it had  *)
(* read before: a task never has two workers that the file knows of.         *)
KnownWorker(w) ==
  \E n \in DOMAIN saved[w.run].tasks[w.task].attempts :
    saved[w.run].tasks[w.task].attempts[n].pid = w

OneKnownWorker ==
  \A v, w \in workers :
    v.run = w.run /\ v.task = w.task /\ v # w /\ upset[v.run] = {}
      => ~KnownWorker(v) \/ ~KnownWorker(w)

(* A task has one worker: what the comment of onProcess wants of it. *)
OneWorker == \A v, w \in workers : v.run = w.run /\ v.task = w.task => v = w

(* A run that is completed on disk has no task left to do, through any       *)
(* number of crashes and resumes (finalize, persistInterruptedSync).         *)
CompletedIsDone ==
  \A r \in Runs : saved[r].state = "completed" =>
    \A t \in Tasks : saved[r].tasks[t].state \in {"success", "skipped"}

(* What the operator of a resume asked to be done again. *)
AskedFor(p, r, t) ==
  mem[p].id = r /\ asked[p].kind = "resume" /\ t \in asked[p].named \cup asked[p].answer

(* A start with what was read before somebody else worked on the run. *)
StartsOutdated(p, r) == mem[p].id = r /\ p \in outdated /\ Execute(p)

(* A success on disk is lost. *)
Lost(r, t) == saved[r].tasks[t].state = "success" /\ saved'[r].tasks[t].state # "success"

(* A success on disk is never lost or repeated, unless the operator of a     *)
(* resume names the task (reconcileForResume), or a resume starts with the   *)
(* run it read before another process changed it: startRuntime loads it      *)
(* first and takes the lock later.  Not promised of an upset run.            *)
SuccessStands ==
  [][\A r \in Runs, t \in Tasks :
       upset'[r] = {} /\ Lost(r, t) =>
         \E p \in Procs : AskedFor(p, r, t) \/ StartsOutdated(p, r)]_vars

(* A resume repeats no success it was not asked to repeat: it "re-runs       *)
(* explicitly selected tasks" (docs/architecture.md), and no others that     *)
(* have succeeded.                                                           *)
OnlyAskedAgain ==
  [][\A r \in Runs, t \in Tasks :
       upset'[r] = {} /\ Lost(r, t) => \E p \in Procs : AskedFor(p, r, t)]_vars

(* What is done stays done, for the run and for each of its tasks. *)
ProgressStands == []CompletedIsDone /\ SuccessStands

=============================================================================
