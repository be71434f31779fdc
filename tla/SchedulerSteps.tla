--------------------------- MODULE SchedulerSteps ---------------------------
(***************************************************************************)
(* The actions that start work, hand it on or end it keep WorkInvariant,     *)
(* and so does every step of the scheduler.                                  *)
(***************************************************************************)
EXTENDS SchedulerWork

-----------------------------------------------------------------------------
(* What these actions have in common *)

(* The reports in the queue are those of the entries.                       *)
LEMMA Matching ==
  ASSUME WorkInvariant
  PROVE wake \in Seq(WakeRecord) /\ QueueMatches(wake, inflight)
  BY DEF WorkInvariant, TypeOK, ReportsMatch, Reported, QueueMatches

(* A report that is handled is that of the attempt in flight: none is stale. *)
LEMMA ReportIsCurrent ==
  ASSUME WorkInvariant, NEW w \in Handled, AboutAttempt(w)
  PROVE /\ w \in WakeRecord /\ wake # <<>> /\ w = Head(wake) /\ pc = "park"
        /\ w.task \in Tasks /\ Current(w)
        /\ inflight[w.task].phase = IF w.kind = "attempt_done" THEN "ended" ELSE "settled"
<1>1. TypeOK /\ QueueMatches(wake, inflight) BY Matching DEF WorkInvariant
<1>2. w \in WakeRecord /\ w = wake[1] /\ wake # <<>> /\ w = Head(wake) /\ pc = "park"
  BY <1>1, HeadOfQueue DEF Handled
<1>3. 1 \in DOMAIN wake BY <1>1, <1>2, QueueTail DEF TypeOK
<1>4. w.task \in Tasks BY <1>2, AboutTask
<1>5. inflight[w.task].phase = IF w.kind = "attempt_done" THEN "ended" ELSE "settled"
  BY <1>1, <1>2, <1>3, <1>4 DEF QueueMatches, AboutAttempt
<1>6. w.attempt = inflight[w.task].attempt
  BY <1>1, <1>2, <1>3 DEF QueueMatches
<1> QED BY <1>2, <1>4, <1>5, <1>6 DEF Current, InFlight

(* An attempt without a report may be replaced, or appear, or go.           *)
LEMMA SilentMatches ==
  ASSUME NEW q \in Seq(WakeRecord), NEW e, NEW f, NEW t \in Tasks, QueueMatches(q, e),
         e[t].phase \notin {"ended", "settled"}, f[t].phase \notin {"ended", "settled"},
         \A u \in Tasks \ {t} : f[u] = e[u]
  PROVE QueueMatches(q, f)
<1>1. ASSUME NEW i \in DOMAIN q, AboutAttempt(q[i]) PROVE q[i].task \in Tasks \ {t}
  <2>1. q[i].task \in Tasks BY <1>1, LenProperties, ElementOfSeq, AboutTask
  <2> QED BY <1>1, <2>1 DEF QueueMatches, AboutAttempt
<1> QED BY <1>1 DEF QueueMatches

(* An attempt moves to its next phase; nothing else of its entry changes.   *)
LEMMA PhaseMoves ==
  ASSUME TypeOK, NEW t \in Tasks, NEW p, inflight' = [inflight EXCEPT ![t].phase = p]
  PROVE /\ inflight'[t].phase = p
        /\ inflight'[t].attempt = inflight[t].attempt
        /\ inflight'[t].kind = inflight[t].kind
        /\ inflight'[t].holds = inflight[t].holds
        /\ \A u \in Tasks \ {t} : inflight'[u] = inflight[u]
  BY DEF TypeOK, EntryRecord

(* An attempt that is handed on leaves its task with the same work.         *)
LEMMA HandedOn ==
  ASSUME WorkInvariant, TypeOK', UNCHANGED <<task, pendingMerges>>, SamePlace, SameFlight,
         QueueMatches(wake', inflight'), TreeOwned', EntriesClaim'
  PROVE WorkInvariant'
<1>1. ReportsMatch' BY DEF ReportsMatch, Reported, QueueMatches, AboutAttempt
<1> QED BY <1>1, SameTask, WorkKept, QuietKept DEF WorkInvariant

(* The lock stays owned when nobody claims it or gives it up.               *)
LEMMA LockKept ==
  ASSUME TreeOwned, UNCHANGED tree, SameFlight,
         \A u \in Tasks : /\ inflight'[u].holds = inflight[u].holds
                          /\ inflight'[u].phase = "queued" <=> inflight[u].phase = "queued"
  PROVE TreeOwned'
  BY DEF TreeOwned, SameFlight

(* A lock taken while it is free belongs to its taker alone.                *)
LEMMA LockTaken ==
  ASSUME NEW t \in Tasks
  PROVE IsInjective(<<t>>) /\ Range(<<t>>) = {t} /\ Head(<<t>>) = t
  BY DEF IsInjective, Range

(* A free lock belongs to nobody.                                           *)
LEMMA LockFree ==
  ASSUME TreeOwned, tree = <<>>
  PROVE \A u \in Tasks : InFlight(u) => ~inflight[u].holds /\ inflight[u].phase # "queued"
<1>1. Range(tree) = {} BY DEF Range
<1> QED BY <1>1 DEF TreeOwned

-----------------------------------------------------------------------------
(* A worker ends, and its work is captured *)

(* A worker's report is the one its attempt was missing.                    *)
LEMMA WorkerReportsWork ==
  ASSUME WorkInvariant, TypeOK', NEW t \in Tasks, WorkerReports(t)
  PROVE WorkInvariant'
<1>0. TypeOK /\ TreeOwned /\ EntriesClaim BY DEF WorkInvariant
<1>1. inflight' = [inflight EXCEPT ![t].phase = "ended"]
  BY DEF WorkerReports
<1>8. inflight[t].phase = "working" BY DEF WorkerReports, Working
<1>2. /\ inflight'[t].phase = "ended" /\ inflight'[t].attempt = inflight[t].attempt
      /\ inflight'[t].kind = inflight[t].kind /\ inflight'[t].holds = inflight[t].holds
      /\ \A u \in Tasks \ {t} : inflight'[u] = inflight[u]
  BY <1>0, <1>1, PhaseMoves
<1>3. UNCHANGED <<task, pendingMerges, tree>> /\ SamePlace
  BY DEF WorkerReports, EnvironmentTurn, SamePlace, Settling, loopVars
<1>4. SameFlight BY <1>8, <1>2 DEF SameFlight, InFlight
<1>5. QueueMatches(wake', inflight')
  <2> PICK o \in IF inflight[t].aborted THEN {"cancelled"}
                 ELSE IF Len(attempts[t]) < MaxAttempts THEN WorkerOutcomes
                 ELSE WorkerOutcomes \cap {"success", "fatal"} :
        wake' = Append(wake, AttemptDone(t, inflight[t].attempt, o))
    BY DEF WorkerReports, Pushes
  <2> DEFINE w == AttemptDone(t, inflight[t].attempt, o)
  <2>1. o \in Outcomes BY OptionsAssumption DEF Outcomes
  <2>2. inflight[t].attempt \in Nat BY <1>0 DEF TypeOK, EntryRecord
  <2>3. /\ w \in WakeRecord /\ AboutAttempt(w) /\ w.task = t /\ w.kind = "attempt_done"
        /\ w.attempt = inflight[t].attempt
    BY <2>1, <2>2 DEF AttemptDone, WakeRecord, AboutAttempt
  <2> HIDE DEF w
  <2>4. QueueMatches(Append(wake, w), inflight')
    BY <1>8, <1>2, <2>3, Matching, PushReport
  <2> QED BY <2>4 DEF w
<1>6. TreeOwned' BY <1>0, <1>8, <1>2, <1>3, <1>4, LockKept
<1>7. EntriesClaim' BY <1>0, <1>8, <1>2 DEF EntriesClaim, InFlight, TakesTree
<1> QED BY <1>3, <1>4, <1>5, <1>6, <1>7, HandedOn

(* A branch to merge back joins those that wait for the tree.               *)
LEMMA QueueForTreeWork ==
  ASSUME WorkInvariant, TypeOK', NEW t \in Tasks, QueueForTree(t)
  PROVE WorkInvariant'
<1>0. TypeOK /\ TreeOwned /\ EntriesClaim BY DEF WorkInvariant
<1>1. /\ inflight[t].phase = "capturing" /\ inflight' = [inflight EXCEPT ![t].phase = "queued"]
      /\ t \in Worktree /\ tree' = Append(tree, t) /\ wake' = wake
  BY DEF QueueForTree, Capturing, MergesBack
<1>2. /\ inflight'[t].phase = "queued" /\ inflight'[t].attempt = inflight[t].attempt
      /\ inflight'[t].kind = inflight[t].kind /\ inflight'[t].holds = inflight[t].holds
      /\ \A u \in Tasks \ {t} : inflight'[u] = inflight[u]
  BY <1>0, <1>1, PhaseMoves
<1>3. UNCHANGED <<task, pendingMerges>> /\ SamePlace
  BY DEF QueueForTree, Capturing, EnvironmentTurn, SamePlace, Settling, loopVars
<1>4. SameFlight BY <1>1, <1>2 DEF SameFlight, InFlight
<1>5. QueueMatches(wake', inflight')
  <2>1. QueueMatches(wake, inflight) /\ wake \in Seq(WakeRecord) BY Matching
  <2>2. /\ inflight[t].phase \notin {"ended", "settled"}
        /\ inflight'[t].phase \notin {"ended", "settled"}
    BY <1>1, <1>2
  <2>3. QueueMatches(wake, inflight') BY <2>1, <2>2, <1>2, SilentMatches
  <2> QED BY <2>3, <1>1
<1>6. inflight[t].kind = "task" /\ ~inflight[t].holds
  <2>1. inflight[t].kind \in {"task", "merge"} BY <1>0 DEF TypeOK, EntryRecord
  <2> QED BY <1>0, <1>1, <2>1 DEF EntriesClaim, InFlight, TakesTree
<1>7. t \notin Range(tree) BY <1>0, <1>1, <1>6 DEF TreeOwned
<1>8. /\ IsInjective(tree') /\ Range(tree') = Range(tree) \cup {t}
      /\ tree # <<>> => Head(tree') = Head(tree)
  BY <1>0, <1>1, <1>7, AppendTo DEF TypeOK, TreeOwned
<1>9. ASSUME tree = <<>> PROVE \A u \in Tasks : InFlight(u) => ~inflight[u].holds
  BY <1>0, <1>9, LockFree
<1>10. TreeOwned'
  BY <1>0, <1>1, <1>2, <1>4, <1>6, <1>8, <1>9 DEF TreeOwned, SameFlight, InFlight
<1>11. EntriesClaim' BY <1>0, <1>1, <1>2, <1>6 DEF EntriesClaim, InFlight, TakesTree
<1> QED BY <1>3, <1>4, <1>5, <1>10, <1>11, HandedOn

(* The finalized wake of an attempt is the report it was missing.           *)
LEMMA CaptureReports ==
  ASSUME WorkInvariant, NEW t \in Tasks, NEW fin \in {"clean", "conflict", "lost"},
         FinishCapture(t, fin), inflight[t].phase \in {"capturing", "queued"}
  PROVE /\ QueueMatches(wake', inflight') /\ SameFlight /\ UNCHANGED <<task, pendingMerges>>
        /\ inflight'[t].phase = "settled"
        /\ inflight'[t].kind = inflight[t].kind /\ inflight'[t].holds = inflight[t].holds
        /\ \A u \in Tasks \ {t} : inflight'[u] = inflight[u]
<1>0. TypeOK BY DEF WorkInvariant
<1>1. /\ inflight' = [inflight EXCEPT ![t].phase = "settled"] /\ UNCHANGED <<task, pendingMerges>>
      /\ wake' = Append(wake, Finalized(t, inflight[t].attempt, fin))
  BY DEF FinishCapture, Pushes
<1>2. /\ inflight'[t].phase = "settled" /\ inflight'[t].attempt = inflight[t].attempt
      /\ inflight'[t].kind = inflight[t].kind /\ inflight'[t].holds = inflight[t].holds
      /\ \A u \in Tasks \ {t} : inflight'[u] = inflight[u]
  BY <1>0, <1>1, PhaseMoves
<1>3. SameFlight BY <1>2 DEF SameFlight, InFlight
<1> DEFINE w == Finalized(t, inflight[t].attempt, fin)
<1>4. inflight[t].attempt \in Nat BY <1>0 DEF TypeOK, EntryRecord
<1>5. /\ w \in WakeRecord /\ AboutAttempt(w) /\ w.task = t /\ w.kind = "finalized"
      /\ w.attempt = inflight[t].attempt
  BY <1>4 DEF Finalized, WakeRecord, AboutAttempt
<1>6. wake' = Append(wake, w) BY <1>1
<1> HIDE DEF w
<1>7. QueueMatches(Append(wake, w), inflight')
  BY <1>2, <1>5, Matching, PushReport
<1> QED BY <1>1, <1>2, <1>3, <1>6, <1>7

(* An attempt is captured where it ran: the lock stays as it is.            *)
LEMMA CaptureWork ==
  ASSUME WorkInvariant, TypeOK', NEW t \in Tasks, Capture(t) \/ CaptureThrows(t)
  PROVE WorkInvariant'
<1>0. TreeOwned /\ EntriesClaim BY DEF WorkInvariant
<1>1. PICK fin \in {"clean", "conflict", "lost"} : FinishCapture(t, fin)
  BY DEF Capture, CaptureThrows
<1>2. inflight[t].phase = "capturing" /\ UNCHANGED tree
  BY DEF Capture, CaptureThrows, Capturing
<1>3. SamePlace
  BY <1>1 DEF Capture, CaptureThrows, Capturing, EnvironmentTurn, FinishCapture, SamePlace,
              Settling, loopVars
<1>4. /\ QueueMatches(wake', inflight') /\ SameFlight /\ UNCHANGED <<task, pendingMerges>>
      /\ inflight'[t].phase = "settled"
      /\ inflight'[t].kind = inflight[t].kind /\ inflight'[t].holds = inflight[t].holds
      /\ \A u \in Tasks \ {t} : inflight'[u] = inflight[u]
  BY <1>1, <1>2, CaptureReports
<1>5. TreeOwned' BY <1>0, <1>2, <1>4, LockKept
<1>6. EntriesClaim' BY <1>0, <1>2, <1>4 DEF EntriesClaim, InFlight, TakesTree
<1> QED BY <1>3, <1>4, <1>5, <1>6, HandedOn

(* A merge ends and gives the tree to the next that waits for it.           *)
LEMMA MergeBackWork ==
  ASSUME WorkInvariant, TypeOK', NEW t \in Tasks, MergeBack(t)
  PROVE WorkInvariant'
<1>0. TypeOK /\ TreeOwned /\ EntriesClaim BY DEF WorkInvariant
<1>1. PICK fin \in {"clean", "conflict", "lost"} : FinishCapture(t, fin)
  BY DEF MergeBack
<1>2. inflight[t].phase = "queued" /\ Head(tree) = t /\ tree' = Tail(tree)
  BY DEF MergeBack
<1>3. SamePlace
  BY <1>1 DEF MergeBack, EnvironmentTurn, FinishCapture, SamePlace, Settling, loopVars
<1>4. /\ QueueMatches(wake', inflight') /\ SameFlight /\ UNCHANGED <<task, pendingMerges>>
      /\ inflight'[t].phase = "settled"
      /\ inflight'[t].kind = inflight[t].kind /\ inflight'[t].holds = inflight[t].holds
      /\ \A u \in Tasks \ {t} : inflight'[u] = inflight[u]
  BY <1>1, <1>2, CaptureReports
<1>5. ~inflight[t].holds
  BY <1>0, <1>2 DEF EntriesClaim, InFlight, TakesTree
<1>6. t \in Range(tree) BY <1>0, <1>2 DEF TreeOwned, InFlight
<1>7. tree # <<>> BY <1>6 DEF Range
<1>8. IsInjective(tree') /\ Range(tree') = Range(tree) \ {t}
  BY <1>0, <1>2, <1>7, TailOf DEF TypeOK, TreeOwned
<1>9. \A u \in Tasks \ {t} : InFlight(u) => ~inflight[u].holds
  BY <1>0, <1>2 DEF TreeOwned
<1>10. TreeOwned'
  BY <1>0, <1>4, <1>5, <1>8, <1>9 DEF TreeOwned, SameFlight
<1>11. EntriesClaim' BY <1>0, <1>2, <1>4, <1>5 DEF EntriesClaim, InFlight, TakesTree
<1> QED BY <1>3, <1>4, <1>10, <1>11, HandedOn

(* A merge session gives the tree back and queues for it again.             *)
LEMMA TreeRequeued ==
  ASSUME TypeOK, TreeOwned, EntriesClaim, NEW t \in Tasks,
         inflight[t].phase = "ended", inflight[t].kind = "merge",
         inflight' = [inflight EXCEPT ![t].phase = "queued", ![t].holds = FALSE],
         tree' = Append(Tail(tree), t)
  PROVE /\ SameFlight /\ TreeOwned' /\ EntriesClaim'
        /\ inflight'[t].phase = "queued"
        /\ \A u \in Tasks \ {t} : inflight'[u] = inflight[u]
<1>1. /\ inflight'[t].phase = "queued" /\ inflight'[t].attempt = inflight[t].attempt
      /\ inflight'[t].kind = inflight[t].kind
      /\ \A u \in Tasks \ {t} : inflight'[u] = inflight[u]
  BY DEF TypeOK, EntryRecord
<1>2. ~inflight'[t].holds BY DEF TypeOK, EntryRecord
<1>3. SameFlight BY <1>1 DEF SameFlight, InFlight
<1>4. InFlight(t) /\ inflight[t].holds BY DEF EntriesClaim, InFlight
<1>5. t \in Range(tree) /\ Head(tree) = t BY <1>4 DEF TreeOwned
<1>6. tree # <<>> BY <1>5 DEF Range
<1>7. tree \in Seq(Tasks) /\ IsInjective(tree) BY DEF TypeOK, TreeOwned
<1>8. IsInjective(Tail(tree)) /\ Range(Tail(tree)) = Range(tree) \ {t}
  BY <1>5, <1>6, <1>7, TailOf
<1>9. Tail(tree) \in Seq(Tasks) BY <1>6, <1>7, HeadTailProperties
<1> DEFINE rest == Tail(tree)
<1>10. IsInjective(tree') /\ Range(tree') = Range(tree)
  <2>1. rest \in Seq(Tasks) /\ IsInjective(rest) /\ t \notin Range(rest) BY <1>8, <1>9
  <2>2. tree' = Append(rest, t) OBVIOUS
  <2> HIDE DEF rest
  <2>3. IsInjective(Append(rest, t)) /\ Range(Append(rest, t)) = Range(rest) \cup {t}
    BY ONLY <2>1, AppendTo
  <2> QED BY <1>5, <1>8, <2>2, <2>3 DEF rest
<1>11. \A u \in Tasks \ {t} : InFlight(u) => ~inflight[u].holds
  BY <1>5 DEF TreeOwned
<1>12. TreeOwned'
  BY <1>1, <1>2, <1>3, <1>4, <1>5, <1>10, <1>11 DEF TreeOwned, SameFlight, InFlight
<1>13. EntriesClaim' BY <1>1, <1>2 DEF EntriesClaim, InFlight, TakesTree
<1> QED BY <1>1, <1>3, <1>12, <1>13

(* The work of an attempt of the task's own is captured where it ran.       *)
LEMMA CaptureBegins ==
  ASSUME TypeOK, TreeOwned, EntriesClaim, NEW t \in Tasks,
         inflight[t].phase = "ended", inflight[t].kind # "merge",
         inflight' = [inflight EXCEPT ![t].phase = "capturing"], UNCHANGED tree
  PROVE /\ SameFlight /\ TreeOwned' /\ EntriesClaim'
        /\ inflight'[t].phase = "capturing"
        /\ \A u \in Tasks \ {t} : inflight'[u] = inflight[u]
<1>1. /\ inflight'[t].phase = "capturing" /\ inflight'[t].attempt = inflight[t].attempt
      /\ inflight'[t].kind = inflight[t].kind /\ inflight'[t].holds = inflight[t].holds
      /\ \A u \in Tasks \ {t} : inflight'[u] = inflight[u]
  BY PhaseMoves
<1>2. SameFlight BY <1>1 DEF SameFlight, InFlight
<1>3. TreeOwned' BY <1>1, <1>2, LockKept
<1>4. EntriesClaim' BY <1>1 DEF EntriesClaim, InFlight, TakesTree
<1> QED BY <1>1, <1>2, <1>3, <1>4

(* A worker's report is taken, and its work goes on to be captured.         *)
LEMMA HandleAttemptDoneWork ==
  ASSUME WorkInvariant, TypeOK', HandleAttemptDone PROVE WorkInvariant'
<1>0. TypeOK /\ TreeOwned /\ EntriesClaim BY DEF WorkInvariant
<1> PICK w \in Handled : HandleAttemptDone!(w) BY DEF HandleAttemptDone
<1> DEFINE t == w.task
<1>1. /\ wake' = Tail(wake) /\ w.kind = "attempt_done" /\ AboutAttempt(w)
      /\ UNCHANGED <<task, pendingMerges>> /\ pc' = "pass"
  BY DEF Took, Goto, AboutAttempt
<1>2. /\ wake # <<>> /\ w = Head(wake) /\ pc = "park" /\ t \in Tasks /\ Current(w)
      /\ inflight[t].phase = "ended" /\ t = Head(wake).task
  BY <1>1, ReportIsCurrent
<1>3. SamePlace BY <1>1, <1>2 DEF SamePlace, Settling
<1>4. \/ /\ inflight[t].kind = "merge"
         /\ inflight' = [inflight EXCEPT ![t].phase = "queued", ![t].holds = FALSE]
         /\ tree' = Append(Tail(tree), t)
      \/ /\ inflight[t].kind # "merge"
         /\ inflight' = [inflight EXCEPT ![t].phase = "capturing"] /\ UNCHANGED tree
  BY <1>2
<1> HIDE DEF t
<1>5. /\ SameFlight /\ TreeOwned' /\ EntriesClaim'
      /\ inflight'[t].phase \in {"queued", "capturing"}
      /\ \A u \in Tasks \ {t} : inflight'[u] = inflight[u]
  BY <1>0, <1>2, <1>4, TreeRequeued, CaptureBegins
<1>6. QueueMatches(Tail(wake), inflight')
  <2>1. wake \in Seq(WakeRecord) /\ wake # <<>> /\ AboutAttempt(Head(wake)) /\ QueueMatches(wake, inflight)
    BY <1>1, <1>2, Matching
  <2>2. inflight'[Head(wake).task].phase \notin {"ended", "settled"} BY <1>2, <1>5
  <2>3. \A u \in Tasks \ {Head(wake).task} :
          inflight'[u].phase = inflight[u].phase /\ inflight'[u].attempt = inflight[u].attempt
    BY <1>2, <1>5
  <2> QED BY <2>1, <2>2, <2>3, TakeReport
<1> QED BY <1>1, <1>3, <1>5, <1>6, HandedOn

-----------------------------------------------------------------------------
(* Work starts *)

(* A new attempt of t works; the other entries are left alone.              *)
LEMMA AttemptStarts ==
  ASSUME TypeOK, NEW t \in Tasks, NEW a, NEW n, NEW k, NEW b, StartAttempt(t, a, Entry(n, k, b))
  PROVE /\ inflight'[t].phase = "working" /\ inflight'[t].kind = k
        /\ \A u \in Tasks \ {t} : inflight'[u] = inflight[u]
<1>1. inflight' = [inflight EXCEPT ![t] = Entry(n, k, b)] /\ inflight \in [Tasks -> EntryRecord]
  BY DEF StartAttempt, TypeOK
<1>2. Entry(n, k, b).phase = "working" /\ Entry(n, k, b).kind = k BY DEF Entry
<1> QED BY <1>1, <1>2

(* The merges that wait name tasks.                                         *)
LEMMA PendingTasks ==
  ASSUME TypeOK, NEW i \in DOMAIN pendingMerges
  PROVE pendingMerges[i].task \in Tasks
<1>1. pendingMerges \in Seq([task : Tasks, attempt : Nat]) BY DEF TypeOK
<1>2. pendingMerges[i] \in [task : Tasks, attempt : Nat] BY <1>1, LenProperties, ElementOfSeq
<1> QED BY <1>2

(* An attempt that starts without the tree leaves its lock alone.           *)
LEMMA LockLeft ==
  ASSUME TreeOwned, UNCHANGED tree, NEW t \in Tasks, ~InFlight(t),
         inflight'[t].phase = "working", ~inflight'[t].holds,
         \A u \in Tasks \ {t} : inflight'[u] = inflight[u]
  PROVE TreeOwned'
  BY DEF TreeOwned, InFlight

(* An attempt that starts in the tree finds it free and holds it alone.     *)
LEMMA LockAcquired ==
  ASSUME NEW t \in Tasks, tree' = <<t>>,
         inflight'[t].phase = "working", inflight'[t].holds,
         \A u \in Tasks \ {t} : /\ inflight'[u] = inflight[u]
                                /\ InFlight(u) => ~inflight[u].holds /\ inflight[u].phase # "queued"
  PROVE TreeOwned'
<1>1. IsInjective(tree') /\ Range(tree') = {t} /\ Head(tree') = t BY LockTaken
<1> QED BY <1>1 DEF TreeOwned, InFlight

(* A launch starts a task that nothing works on, in the tree only if free.  *)
LEMMA LaunchWorkKept ==
  ASSUME WorkInvariant, TypeOK', Launch PROVE WorkInvariant'
<1>0. TypeOK /\ TreeOwned /\ EntriesClaim /\ ActiveHasWork /\ WorkOnce BY DEF WorkInvariant
<1> PICK i \in cursor .. Len(Topo) : Launch!(i) BY DEF Launch
<1>1. i \in Nat \ {0} /\ i <= Len(Topo) BY <1>0, Order DEF TypeOK
<1> PICK t \in Tasks : t = Topo[i] BY <1>1, TaskAt
<1> PICK n \in Nat : n = NextAttempt(t).number
  <2>1. LastNumber(t) \in Nat BY <1>0, LastNumberType
  <2> QED BY <2>1 DEF NextAttempt
<1>5. StartAttempt(t, NextAttempt(t), Entry(n, "task", TakesTree(t))) OBVIOUS
<1>6. /\ task[t] = "ready" /\ (TakesTree(t) => tree = <<>>)
      /\ tree' = (IF TakesTree(t) THEN <<t>> ELSE tree)
      /\ task' = [task EXCEPT ![t] = "running"]
      /\ pc = "launch" /\ UNCHANGED <<pendingMerges, wake, pc, focus>>
  BY DEF Launchable
<1>7. /\ inflight'[t].phase = "working" /\ inflight'[t].kind = "task"
      /\ \A u \in Tasks \ {t} : inflight'[u] = inflight[u]
  BY <1>0, <1>5, AttemptStarts
<1>4. inflight'[t].holds <=> TakesTree(t)
  <2>1. inflight' = [inflight EXCEPT ![t] = Entry(n, "task", TakesTree(t))]
    BY <1>5 DEF StartAttempt
  <2>2. inflight'[t] = Entry(n, "task", TakesTree(t)) BY <1>0, <2>1 DEF TypeOK
  <2> QED BY <2>2 DEF Entry
<1>8. ~HasWork(t) BY <1>0, <1>6 DEF ActiveHasWork, ActiveStates
<1>9. ~InFlight(t) /\ \A j \in DOMAIN pendingMerges : pendingMerges[j].task # t
  BY <1>8 DEF HasWork
<1>10. ReportsMatch'
  <2>1. inflight[t].phase \notin {"ended", "settled"} /\ inflight'[t].phase \notin {"ended", "settled"}
    BY <1>7, <1>9 DEF InFlight
  <2>2. QueueMatches(wake, inflight') BY <1>7, <2>1, Matching, SilentMatches
  <2> QED BY <1>6, <2>2 DEF ReportsMatch, Reported, QueueMatches, AboutAttempt
<1>11. TreeOwned'
  <2>1. CASE TakesTree(t)
    <3>1. \A u \in Tasks : InFlight(u) => ~inflight[u].holds /\ inflight[u].phase # "queued"
      BY <1>0, <1>6, <2>1, LockFree
    <3> QED BY <1>4, <1>6, <1>7, <2>1, <3>1, LockAcquired
  <2>2. CASE ~TakesTree(t) BY <1>0, <1>4, <1>6, <1>7, <1>9, <2>2, LockLeft
  <2> QED BY <2>1, <2>2
<1>12. EntriesClaim' BY <1>0, <1>4, <1>7 DEF EntriesClaim, InFlight, TakesTree
<1>13. ActiveHasWork'
  <2>1. HasWork(t)' BY <1>7 DEF HasWork, InFlight
  <2>2. \A u \in Tasks \ {t} : HasWork(u)' <=> HasWork(u) BY <1>6, <1>7 DEF HasWork, InFlight
  <2>3. task'[t] = "running" /\ \A u \in Tasks \ {t} : task'[u] = task[u]
    BY <1>0, <1>6 DEF TypeOK
  <2> QED BY <1>0, <2>1, <2>2, <2>3 DEF ActiveHasWork, ActiveStates
<1>14. WorkOnce' /\ StartsQuietly'
  <2>1. \A j \in DOMAIN pendingMerges : pendingMerges[j].task \in Tasks
    BY <1>0, PendingTasks
  <2>2. WorkOnce' BY <1>0, <1>6, <1>7, <1>9, <2>1 DEF WorkOnce, InFlight
  <2>3. StartsQuietly' BY <1>6 DEF StartsQuietly
  <2> QED BY <2>2, <2>3
<1> QED BY <1>10, <1>11, <1>12, <1>13, <1>14 DEF WorkInvariant

(* The first of the merges that wait names a task nothing else works on,    *)
(* and once it is taken no other names that task.                           *)
LEMMA FirstPending ==
  ASSUME TypeOK, WorkOnce, pendingMerges # <<>>, pendingMerges' = Tail(pendingMerges)
  PROVE \E t \in Tasks, n \in Nat :
          /\ Head(pendingMerges).task = t /\ Head(pendingMerges).attempt = n /\ ~InFlight(t)
          /\ \E i \in DOMAIN pendingMerges : pendingMerges[i].task = t
          /\ \A i \in DOMAIN pendingMerges' :
               /\ pendingMerges'[i].task \in Tasks \ {t}
               /\ i + 1 \in DOMAIN pendingMerges /\ pendingMerges'[i] = pendingMerges[i + 1]
               /\ i \in Int
          /\ \A i \in DOMAIN pendingMerges :
               pendingMerges[i].task # t
                 => \E j \in DOMAIN pendingMerges' : pendingMerges'[j] = pendingMerges[i]
<1> DEFINE M == [task : Tasks, attempt : Nat]
           q == pendingMerges
           s == Tail(pendingMerges)
<1>1. q \in Seq(M) /\ q # <<>> BY DEF TypeOK
<1>2. /\ s \in Seq(M) /\ Len(s) = Len(q) - 1 /\ \A i \in 1 .. Len(s) : s[i] = q[i + 1]
  BY <1>1, HeadTailProperties
<1>3. Len(q) \in Nat \ {0} /\ DOMAIN q = 1 .. Len(q) /\ DOMAIN s = 1 .. Len(q) - 1
  BY <1>1, <1>2, EmptySeq, LenProperties
<1>4. Head(q) = q[1] /\ 1 \in DOMAIN q BY <1>3
<1>5. \A i \in DOMAIN q : q[i] \in M BY <1>1, <1>3, ElementOfSeq
<1>6. \A i, j \in DOMAIN q : q[i].task = q[j].task => i = j BY DEF WorkOnce
<1>7. ~InFlight(q[1].task) BY <1>4 DEF WorkOnce
<1>8. ASSUME NEW i \in DOMAIN s
      PROVE i + 1 \in DOMAIN q /\ s[i] = q[i + 1] /\ i \in Int /\ i + 1 # 1
  BY <1>2, <1>3
<1>9. ASSUME NEW i \in DOMAIN q, i # 1 PROVE i - 1 \in DOMAIN s /\ s[i - 1] = q[i]
  BY <1>2, <1>3, <1>9
<1>10. pendingMerges' = s OBVIOUS
<1> HIDE DEF q, s
<1>11. Head(q).task \in Tasks /\ Head(q).attempt \in Nat BY <1>4, <1>5
<1>12. \A i \in DOMAIN s : s[i].task \in Tasks \ {Head(q).task}
  BY <1>4, <1>5, <1>6, <1>8
<1>13. \A i \in DOMAIN q : q[i].task # Head(q).task => \E j \in DOMAIN s : s[j] = q[i]
  BY <1>4, <1>9
<1> QED BY <1>4, <1>7, <1>8, <1>10, <1>11, <1>12, <1>13 DEF q

(* A merge session starts in the tree, which it holds alone.                *)
LEMMA MergeAttemptStarts ==
  ASSUME TypeOK, NEW t \in Tasks, NEW n, StartMergeAttempt(t, n)
  PROVE /\ inflight'[t].phase = "working" /\ inflight'[t].kind = "merge" /\ inflight'[t].holds
        /\ tree' = <<t>> /\ \A u \in Tasks \ {t} : inflight'[u] = inflight[u]
<1>1. PICK a : StartAttempt(t, a, Entry(n + 1, "merge", TRUE)) /\ tree' = <<t>>
  BY DEF StartMergeAttempt
<1>2. inflight'[t] = Entry(n + 1, "merge", TRUE) BY <1>1 DEF StartAttempt, TypeOK
<1>3. inflight'[t].holds BY <1>2 DEF Entry
<1>4. /\ inflight'[t].phase = "working" /\ inflight'[t].kind = "merge"
      /\ \A u \in Tasks \ {t} : inflight'[u] = inflight[u]
  BY <1>1, AttemptStarts
<1>5. tree' = <<t>> BY <1>1
<1> QED BY <1>3, <1>4, <1>5

(* A pending merge session starts in a tree that is free.                   *)
LEMMA LaunchPendingMergeWork ==
  ASSUME WorkInvariant, TypeOK', LaunchPendingMerge PROVE WorkInvariant'
<1>0. TypeOK /\ TreeOwned /\ EntriesClaim /\ ActiveHasWork /\ WorkOnce BY DEF WorkInvariant
<1> PICK t \in Tasks, n \in Nat :
       /\ Head(pendingMerges).task = t /\ Head(pendingMerges).attempt = n /\ ~InFlight(t)
       /\ \E i \in DOMAIN pendingMerges : pendingMerges[i].task = t
       /\ \A i \in DOMAIN pendingMerges' :
            /\ pendingMerges'[i].task \in Tasks \ {t}
            /\ i + 1 \in DOMAIN pendingMerges /\ pendingMerges'[i] = pendingMerges[i + 1]
            /\ i \in Int
       /\ \A i \in DOMAIN pendingMerges :
            pendingMerges[i].task # t
              => \E j \in DOMAIN pendingMerges' : pendingMerges'[j] = pendingMerges[i]
  BY <1>0, FirstPending DEF LaunchPendingMerge
<1>1. /\ pendingMerges # <<>> /\ pendingMerges' = Tail(pendingMerges)
      /\ pc = "merges" /\ tree = <<>> /\ StartMergeAttempt(t, n)
      /\ UNCHANGED <<task, wake, pc, focus>>
  BY DEF LaunchPendingMerge, loopVars
<1>3. /\ inflight'[t].phase = "working" /\ inflight'[t].kind = "merge" /\ inflight'[t].holds
      /\ tree' = <<t>> /\ \A u \in Tasks \ {t} : inflight'[u] = inflight[u]
  BY <1>0, <1>1, MergeAttemptStarts
<1>4. ReportsMatch'
  <2>1. inflight[t].phase \notin {"ended", "settled"} /\ inflight'[t].phase \notin {"ended", "settled"}
    BY <1>3 DEF InFlight
  <2>3. \A u \in Tasks \ {t} : inflight'[u] = inflight[u] BY <1>3
  <2>2. QueueMatches(wake, inflight') BY <2>1, <2>3, Matching, SilentMatches
  <2> QED BY <1>1, <2>2 DEF ReportsMatch, Reported, QueueMatches, AboutAttempt
<1>5. TreeOwned'
  <2>1. \A u \in Tasks : InFlight(u) => ~inflight[u].holds /\ inflight[u].phase # "queued"
    BY <1>0, <1>1, LockFree
  <2> QED BY <1>3, <2>1, LockAcquired
<1>6. EntriesClaim' BY <1>0, <1>3 DEF EntriesClaim, InFlight, TakesTree
<1>7. ActiveHasWork'
  <2>1. HasWork(t)' BY <1>3 DEF HasWork, InFlight
  <2>2. HasWork(t) BY DEF HasWork
  <2>3. ASSUME NEW u \in Tasks \ {t} PROVE HasWork(u)' <=> HasWork(u)
    BY <1>1, <1>3 DEF HasWork, InFlight
  <2> QED BY <1>0, <1>1, <2>1, <2>2, <2>3 DEF ActiveHasWork
<1>8. WorkOnce'
  <2>1. \A i, j \in DOMAIN pendingMerges' : pendingMerges'[i].task = pendingMerges'[j].task => i = j
    <3> SUFFICES ASSUME NEW i \in DOMAIN pendingMerges', NEW j \in DOMAIN pendingMerges',
                        pendingMerges'[i].task = pendingMerges'[j].task
                 PROVE i = j
      OBVIOUS
    <3>1. i + 1 = j + 1 BY <1>0 DEF WorkOnce
    <3> QED BY <3>1
  <2>2. \A i \in DOMAIN pendingMerges' : inflight'[pendingMerges'[i].task].phase = "idle"
    BY <1>0, <1>3 DEF WorkOnce, InFlight
  <2> QED BY <1>1, <2>1, <2>2 DEF WorkOnce, InFlight
<1>9. StartsQuietly' BY <1>1 DEF StartsQuietly
<1> QED BY <1>4, <1>5, <1>6, <1>7, <1>8, <1>9 DEF WorkInvariant

(* A merge session that a stop keeps from starting leaves its conflict as   *)
(* the outcome to apply.                                                    *)
LEMMA AbandonPendingMergeWork ==
  ASSUME WorkInvariant, TypeOK', AbandonPendingMerge PROVE WorkInvariant'
<1>0. TypeOK /\ TreeOwned /\ EntriesClaim /\ ActiveHasWork /\ WorkOnce /\ ReportsMatch
  BY DEF WorkInvariant
<1> PICK t \in Tasks, n \in Nat :
       /\ Head(pendingMerges).task = t /\ Head(pendingMerges).attempt = n /\ ~InFlight(t)
       /\ \E i \in DOMAIN pendingMerges : pendingMerges[i].task = t
       /\ \A i \in DOMAIN pendingMerges' :
            /\ pendingMerges'[i].task \in Tasks \ {t}
            /\ i + 1 \in DOMAIN pendingMerges /\ pendingMerges'[i] = pendingMerges[i + 1]
            /\ i \in Int
       /\ \A i \in DOMAIN pendingMerges :
            pendingMerges[i].task # t
              => \E j \in DOMAIN pendingMerges' : pendingMerges'[j] = pendingMerges[i]
  BY <1>0, FirstPending DEF AbandonPendingMerge
<1>1. /\ pendingMerges # <<>> /\ pendingMerges' = Tail(pendingMerges)
      /\ pc = "merges" /\ pc' = "outcome" /\ focus'.task = t
      /\ UNCHANGED <<task, wake, tree, inflight>>
  BY DEF AbandonPendingMerge, Goto
<1>3. ReportsMatch' BY <1>0, <1>1 DEF ReportsMatch, Reported, AboutAttempt
<1>4. SameEntries BY <1>1, LeftAlone
<1>5. TreeOwned' /\ EntriesClaim' BY <1>0, <1>1, <1>4, ClaimsKept
<1>6. ActiveHasWork'
  <2>1. HasWork(t)' BY <1>1 DEF HasWork
  <2>2. HasWork(t) BY DEF HasWork
  <2>3. ASSUME NEW u \in Tasks \ {t} PROVE HasWork(u)' <=> HasWork(u)
    BY <1>1 DEF HasWork, InFlight
  <2> QED BY <1>0, <1>1, <2>1, <2>2, <2>3 DEF ActiveHasWork
<1>7. WorkOnce'
  <2>1. \A i, j \in DOMAIN pendingMerges' : pendingMerges'[i].task = pendingMerges'[j].task => i = j
    <3> SUFFICES ASSUME NEW i \in DOMAIN pendingMerges', NEW j \in DOMAIN pendingMerges',
                        pendingMerges'[i].task = pendingMerges'[j].task
                 PROVE i = j
      OBVIOUS
    <3>1. i + 1 = j + 1 BY <1>0 DEF WorkOnce
    <3> QED BY <3>1
  <2>2. \A i \in DOMAIN pendingMerges' : inflight'[pendingMerges'[i].task].phase = "idle"
    BY <1>0, <1>1 DEF WorkOnce, InFlight
  <2>3. focus'.task \in Tasks /\ inflight'[focus'.task].phase = "idle"
        /\ \A i \in DOMAIN pendingMerges' : pendingMerges'[i].task # focus'.task
    BY <1>1 DEF InFlight
  <2> QED BY <2>1, <2>2, <2>3 DEF WorkOnce, InFlight
<1>8. StartsQuietly' BY <1>1 DEF StartsQuietly
<1> QED BY <1>3, <1>5, <1>6, <1>7, <1>8 DEF WorkInvariant

(* The launches of a pass, and its ends, keep the invariant.                *)
LEMMA LaunchWorkWork ==
  ASSUME WorkInvariant, TypeOK', LaunchWork PROVE WorkInvariant'
<1>1. CASE EndMerges \/ EndLaunch
  <2>1. QuietQueue /\ SamePlace /\ UNCHANGED <<tree, pendingMerges, task, inflight>>
    BY <1>1 DEF EndMerges, EndLaunch, Goto, QuietQueue, SamePlace, Settling, workVars
  <2> QED BY <2>1, LeftAlone, SameTask, Undisturbed
<1> QED BY <1>1, LaunchWorkKept, LaunchPendingMergeWork, AbandonPendingMergeWork DEF LaunchWork

-----------------------------------------------------------------------------
(* Work ends *)

(* The lock without t, which has given it up or never claimed it.           *)
LEMMA LockFreed ==
  ASSUME TypeOK, TreeOwned, EntriesClaim, NEW t \in Tasks, inflight[t].phase = "settled",
         NEW freed, freed = IF inflight[t].holds THEN Tail(tree) ELSE tree
  PROVE /\ IsInjective(freed) /\ Range(freed) = Range(tree) \ {t}
        /\ \A u \in Tasks \ {t} : InFlight(u) /\ inflight[u].holds => Head(freed) = u
<1>1. InFlight(t) /\ tree \in Seq(Tasks) /\ IsInjective(tree)
  BY DEF InFlight, TypeOK, TreeOwned
<1>2. CASE inflight[t].holds
  <2>1. t \in Range(tree) /\ Head(tree) = t BY <1>1, <1>2 DEF TreeOwned
  <2>2. tree # <<>> BY <2>1 DEF Range
  <2>3. freed = Tail(tree) BY <1>2
  <2>4. IsInjective(Tail(tree)) /\ Range(Tail(tree)) = Range(tree) \ {t}
    BY <1>1, <2>1, <2>2, TailOf
  <2>5. \A u \in Tasks \ {t} : ~(InFlight(u) /\ inflight[u].holds) BY <2>1 DEF TreeOwned
  <2> QED BY <2>3, <2>4, <2>5
<1>3. CASE ~inflight[t].holds
  <2>1. t \notin Range(tree) /\ freed = tree BY <1>1, <1>3 DEF TreeOwned
  <2> QED BY <1>1, <2>1 DEF TreeOwned
<1> QED BY <1>2, <1>3

(* Once an attempt is over, the lock belongs to those that still claim it.  *)
LEMMA LockReleased ==
  ASSUME TypeOK, TreeOwned, EntriesClaim, NEW t \in Tasks, inflight[t].phase = "settled",
         tree' = IF inflight[t].holds THEN Tail(tree) ELSE tree,
         inflight' = [inflight EXCEPT ![t] = NoEntry]
  PROVE /\ TreeOwned' /\ EntriesClaim' /\ inflight'[t].phase = "idle"
        /\ \A u \in Tasks \ {t} : inflight'[u] = inflight[u]
<1>1. /\ IsInjective(tree') /\ Range(tree') = Range(tree) \ {t}
      /\ \A u \in Tasks \ {t} : InFlight(u) /\ inflight[u].holds => Head(tree') = u
  BY LockFreed
<1>2. /\ inflight'[t].phase = "idle" /\ \A u \in Tasks \ {t} : inflight'[u] = inflight[u]
  BY DEF NoEntry, TypeOK
<1>3. TreeOwned' BY <1>1, <1>2 DEF TreeOwned, InFlight
<1>4. EntriesClaim' BY <1>2 DEF EntriesClaim, InFlight, TakesTree
<1> QED BY <1>2, <1>3, <1>4

(* A wait for the tree is put behind those that wait already.               *)
LEMMA LastPending ==
  ASSUME TypeOK, NEW m \in [task : Tasks, attempt : Nat],
         pendingMerges' = Append(pendingMerges, m)
  PROVE /\ \A i \in DOMAIN pendingMerges' :
             \/ i \in DOMAIN pendingMerges /\ pendingMerges'[i] = pendingMerges[i]
             \/ i = Len(pendingMerges) + 1 /\ pendingMerges'[i] = m
        /\ \A i \in DOMAIN pendingMerges :
             i \in DOMAIN pendingMerges' /\ pendingMerges'[i] = pendingMerges[i]
        /\ \E i \in DOMAIN pendingMerges' : pendingMerges'[i] = m
<1> DEFINE M == [task : Tasks, attempt : Nat]
           q == pendingMerges
           a == Append(q, m)
<1>1. q \in Seq(M) /\ m \in M BY DEF TypeOK
<1>2. /\ a \in Seq(M) /\ Len(a) = Len(q) + 1 /\ a[Len(q) + 1] = m
      /\ \A i \in 1 .. Len(q) : a[i] = q[i]
  BY <1>1, AppendProperties
<1>3. Len(q) \in Nat /\ DOMAIN q = 1 .. Len(q) /\ DOMAIN a = 1 .. Len(q) + 1
  BY <1>1, <1>2, LenProperties
<1>4. pendingMerges' = a OBVIOUS
<1> HIDE DEF a, q
<1>5. /\ \A i \in DOMAIN a : \/ i \in DOMAIN q /\ a[i] = q[i]
                             \/ i = Len(q) + 1 /\ a[i] = m
      /\ \A i \in DOMAIN q : i \in DOMAIN a /\ a[i] = q[i]
  BY <1>2, <1>3
<1>6. \E i \in DOMAIN a : a[i] = m
  <2>1. Len(q) + 1 \in DOMAIN a /\ a[Len(q) + 1] = m BY <1>2, <1>3
  <2> QED BY <2>1
<1> QED BY <1>4, <1>5, <1>6 DEF q

(* An attempt that is over leaves a merge session, a wait for one or an     *)
(* outcome to apply: its task has work as before.                           *)
LEMMA HandleFinalizedWork ==
  ASSUME WorkInvariant, TypeOK', HandleFinalized PROVE WorkInvariant'
<1>0. TypeOK /\ TreeOwned /\ EntriesClaim /\ ActiveHasWork /\ WorkOnce BY DEF WorkInvariant
<1> PICK w \in Handled : HandleFinalized!(w) BY DEF HandleFinalized
<1>1. /\ wake' = Tail(wake) /\ w.kind = "finalized" /\ AboutAttempt(w)
      /\ UNCHANGED task
  BY DEF Took, AboutAttempt
<1>2. /\ wake # <<>> /\ w = Head(wake) /\ pc = "park" /\ w.task \in Tasks /\ Current(w)
      /\ inflight[w.task].phase = "settled" /\ w \in WakeRecord
  BY <1>1, ReportIsCurrent
<1>3. w.attempt \in Nat BY <1>1, <1>2, ReportType
<1> PICK t \in Tasks, n \in Nat : t = w.task /\ n = w.attempt BY <1>2, <1>3
<1> PICK freed : freed = IF inflight[t].holds THEN Tail(tree) ELSE tree OBVIOUS
<1>4. \/ /\ StartMergeAttempt(t, n) /\ freed = <<>>
         /\ pc' = "pass" /\ UNCHANGED pendingMerges
      \/ /\ inflight' = [inflight EXCEPT ![t] = NoEntry] /\ tree' = freed
         /\ \/ /\ pendingMerges' = Append(pendingMerges, [task |-> t, attempt |-> n])
               /\ pc' = "pass"
            \/ /\ focus'.task = t /\ pc' = "outcome" /\ UNCHANGED pendingMerges
  BY <1>2 DEF Goto
<1>5. t = Head(wake).task /\ InFlight(t) /\ inflight[t].phase = "settled"
  BY <1>2 DEF InFlight
<1>6. HasWork(t) /\ \A i \in DOMAIN pendingMerges : pendingMerges[i].task # t
  BY <1>0, <1>5 DEF HasWork, WorkOnce
<1>7. StartsQuietly' BY <1>4 DEF StartsQuietly
<1>8. ASSUME inflight'[t].phase \in {"idle", "working"},
             \A u \in Tasks \ {t} : inflight'[u] = inflight[u]
      PROVE ReportsMatch'
  <2>1. wake \in Seq(WakeRecord) /\ wake # <<>> /\ AboutAttempt(Head(wake)) /\ QueueMatches(wake, inflight)
    BY <1>1, <1>2, Matching
  <2>2. inflight'[Head(wake).task].phase \notin {"ended", "settled"} BY <1>5, <1>8
  <2>3. \A u \in Tasks \ {Head(wake).task} :
          inflight'[u].phase = inflight[u].phase /\ inflight'[u].attempt = inflight[u].attempt
    BY <1>5, <1>8
  <2>4. QueueMatches(Tail(wake), inflight') BY <2>1, <2>2, <2>3, TakeReport
  <2> QED BY <1>1, <2>4 DEF ReportsMatch, Reported, QueueMatches, AboutAttempt
<1>9. CASE StartMergeAttempt(t, n) /\ freed = <<>> /\ pc' = "pass" /\ UNCHANGED pendingMerges
  <2>1. /\ inflight'[t].phase = "working" /\ inflight'[t].kind = "merge" /\ inflight'[t].holds
        /\ tree' = <<t>> /\ \A u \in Tasks \ {t} : inflight'[u] = inflight[u]
    BY <1>0, <1>9, MergeAttemptStarts
  <2>2. ReportsMatch' BY <1>8, <2>1
  <2>3. Range(freed) = Range(tree) \ {t} BY <1>0, <1>5, LockFreed
  <2>4. Range(freed) = {} BY <1>9 DEF Range
  <2>5. \A u \in Tasks \ {t} : InFlight(u) => ~inflight[u].holds /\ inflight[u].phase # "queued"
    BY <1>0, <2>3, <2>4 DEF TreeOwned
  <2>6. TreeOwned' BY <2>1, <2>5, LockAcquired
  <2>7. EntriesClaim' BY <1>0, <2>1 DEF EntriesClaim, InFlight, TakesTree
  <2>8. SameFlight BY <1>5, <2>1 DEF SameFlight, InFlight
  <2>9. SamePlace BY <1>2, <1>9 DEF SamePlace, Settling
  <2>10. ActiveHasWork' /\ WorkOnce' BY <1>0, <1>1, <1>9, <2>8, <2>9, SameTask, WorkKept
  <2> QED BY <1>7, <2>2, <2>6, <2>7, <2>10 DEF WorkInvariant
<1>10. CASE /\ inflight' = [inflight EXCEPT ![t] = NoEntry] /\ tree' = freed
            /\ \/ /\ pendingMerges' = Append(pendingMerges, [task |-> t, attempt |-> n])
                  /\ pc' = "pass"
               \/ /\ focus'.task = t /\ pc' = "outcome" /\ UNCHANGED pendingMerges
  <2>1. /\ TreeOwned' /\ EntriesClaim' /\ inflight'[t].phase = "idle"
        /\ \A u \in Tasks \ {t} : inflight'[u] = inflight[u]
    BY <1>0, <1>5, <1>10, LockReleased
  <2>2. ReportsMatch' BY <1>8, <2>1
  <2>3. CASE pendingMerges' = Append(pendingMerges, [task |-> t, attempt |-> n]) /\ pc' = "pass"
    <3>1. /\ \A i \in DOMAIN pendingMerges' :
               \/ i \in DOMAIN pendingMerges /\ pendingMerges'[i] = pendingMerges[i]
               \/ i = Len(pendingMerges) + 1 /\ pendingMerges'[i] = [task |-> t, attempt |-> n]
          /\ \A i \in DOMAIN pendingMerges :
               i \in DOMAIN pendingMerges' /\ pendingMerges'[i] = pendingMerges[i]
          /\ \E i \in DOMAIN pendingMerges' : pendingMerges'[i] = [task |-> t, attempt |-> n]
      BY <1>0, <2>3, LastPending
    <3>2. HasWork(t)' BY <3>1 DEF HasWork
    <3>3. ASSUME NEW u \in Tasks \ {t} PROVE HasWork(u)' <=> HasWork(u)
      BY <1>2, <2>1, <2>3, <3>1 DEF HasWork, InFlight
    <3>4. ActiveHasWork' BY <1>0, <1>1, <1>6, <3>2, <3>3 DEF ActiveHasWork
    <3>5. \A i, j \in DOMAIN pendingMerges' : pendingMerges'[i].task = pendingMerges'[j].task => i = j
      BY <1>0, <1>6, <3>1 DEF WorkOnce
    <3>6. \A i \in DOMAIN pendingMerges' : inflight'[pendingMerges'[i].task].phase = "idle"
      BY <1>0, <1>6, <2>1, <3>1, PendingTasks DEF WorkOnce, InFlight
    <3>7. WorkOnce' BY <2>3, <3>5, <3>6 DEF WorkOnce, InFlight
    <3> QED BY <1>7, <2>1, <2>2, <3>4, <3>7 DEF WorkInvariant
  <2>4. CASE focus'.task = t /\ pc' = "outcome" /\ UNCHANGED pendingMerges
    <3>1. HasWork(t)' BY <2>4 DEF HasWork
    <3>2. ASSUME NEW u \in Tasks \ {t} PROVE HasWork(u)' <=> HasWork(u)
      BY <1>2, <2>1, <2>4 DEF HasWork, InFlight
    <3>3. ActiveHasWork' BY <1>0, <1>1, <1>6, <3>1, <3>2 DEF ActiveHasWork
    <3>4. \A i \in DOMAIN pendingMerges : inflight'[pendingMerges[i].task].phase = "idle"
      BY <1>0, <1>6, <2>1, PendingTasks DEF WorkOnce, InFlight
    <3>5. WorkOnce' BY <1>0, <1>6, <2>1, <2>4, <3>4 DEF WorkOnce, InFlight
    <3> QED BY <1>7, <2>1, <2>2, <3>3, <3>5 DEF WorkInvariant
  <2> QED BY <1>10, <2>3, <2>4
<1> QED BY <1>4, <1>9, <1>10

(* Every way an attempt may leave its task ends the task's work and makes    *)
(* it inactive at once.                                                     *)
LEMMA OutcomeWork ==
  ASSUME WorkInvariant, TypeOK',
         \/ Succeed \/ SkipByAgent \/ AskInput \/ BlockByAgent \/ EndSuspended
         \/ EndCancelled \/ RecoverTransient \/ NudgeSession \/ RetryAttempt \/ FailTask
  PROVE WorkInvariant'
<1>0. TypeOK /\ TreeOwned /\ EntriesClaim /\ ActiveHasWork /\ WorkOnce /\ ReportsMatch
  BY DEF WorkInvariant
<1>1. /\ pc = "outcome" /\ pc' = "cancel" /\ UNCHANGED <<focus, wake, tree, pendingMerges>>
  BY DEF Succeed, SkipByAgent, AskInput, BlockByAgent, EndSuspended, EndCancelled, Failing,
         RecoverTransient, NudgeSession, RetryAttempt, FailTask, Applying, Goto
<1> PICK f \in Tasks : f = focus.task BY <1>1, FocusType
<1>2. /\ ~InFlight(f) /\ \A i \in DOMAIN pendingMerges : pendingMerges[i].task # f
  BY <1>0, <1>1 DEF WorkOnce
<1>3. /\ SameEntries /\ task'[f] \notin ActiveStates
      /\ \A u \in Tasks \ {f} : task'[u] \in ActiveStates <=> task[u] \in ActiveStates
  <2>1. CASE BlockByAgent \/ FailTask
    <3>1. EndBadly(f, "blocked") \/ EndBadly(f, "failed")
      BY <2>1 DEF BlockByAgent, FailTask, Focused
    <3> QED BY <1>0, <3>1, EndBadlyKeeps
  <2>2. ASSUME NEW s \in TaskState \ ActiveStates, Became(s), UNCHANGED inflight
        PROVE /\ SameEntries /\ task'[f] \notin ActiveStates
              /\ \A u \in Tasks \ {f} : task'[u] \in ActiveStates <=> task[u] \in ActiveStates
    BY <1>0, <2>2, LeftAlone DEF Became, Focused, TypeOK
  <2>3. {"success", "skipped", "needs_input", "suspended", "cancelled", "ready"}
          \subseteq TaskState \ ActiveStates
    BY DEF TaskState, ActiveStates
  <2>4. CASE Succeed \/ SkipByAgent \/ AskInput \/ EndSuspended \/ EndCancelled
             \/ RecoverTransient \/ NudgeSession \/ RetryAttempt
    BY <2>2, <2>3, <2>4 DEF Succeed, SkipByAgent, AskInput, EndSuspended, EndCancelled,
                            RecoverTransient, NudgeSession, RetryAttempt
  <2> QED BY <2>1, <2>4
<1>4. QuietQueue BY <1>1 DEF QuietQueue
<1>5. ReportsMatch' BY <1>0, <1>3, <1>4, ReportsKept
<1>6. TreeOwned' /\ EntriesClaim' BY <1>0, <1>1, <1>3, ClaimsKept
<1>7. \A u \in Tasks : InFlight(u)' <=> InFlight(u) BY <1>3 DEF SameEntries, InFlight
<1>8. ActiveHasWork'
  <2>1. ~HasWork(f)' BY <1>1, <1>2, <1>7 DEF HasWork
  <2>2. \A u \in Tasks \ {f} : HasWork(u)' <=> HasWork(u) BY <1>1, <1>7 DEF HasWork
  <2> QED BY <1>0, <1>3, <2>1, <2>2 DEF ActiveHasWork
<1>9. WorkOnce'
  <2>1. \A i \in DOMAIN pendingMerges : pendingMerges[i].task \in Tasks BY <1>0, PendingTasks
  <2> QED BY <1>0, <1>1, <1>7, <2>1 DEF WorkOnce
<1>10. StartsQuietly' BY <1>1 DEF StartsQuietly
<1> QED BY <1>5, <1>6, <1>8, <1>9, <1>10 DEF WorkInvariant

-----------------------------------------------------------------------------
(* Every step *)

(* A step that changes nothing keeps the invariant.                         *)
LEMMA RestWork ==
  ASSUME WorkInvariant, TypeOK', UNCHANGED vars PROVE WorkInvariant'
<1>1. UNCHANGED <<task, inflight, tree, pendingMerges, wake, pc, focus, stop, runState>>
  BY DEF vars, runVars, workVars, loopVars
<1> QED BY <1>1 DEF WorkInvariant, ActiveHasWork, HasWork, InFlight, TreeOwned, ReportsMatch,
                    Reported, AboutAttempt, StartsQuietly, Stopping, WorkOnce, EntriesClaim,
                    TakesTree

(* The loop's own steps keep the invariant.                                 *)
LEMMA LoopWork ==
  ASSUME WorkInvariant, TypeOK', Loop PROVE WorkInvariant'
<1>1. CASE Startup \/ Promote \/ LaunchWork \/ HandleControl \/ Park \/ Finalize
  BY <1>1, StartupQuiet, PromoteQuiet, LaunchWorkWork, ControlQuiet, ParkQuiet
<1>2. CASE HandleWake
  BY <1>2, HandleAttemptDoneWork, HandleFinalizedWork, WakeQuiet DEF HandleWake
<1>3. CASE ApplyOutcome
  BY <1>3, OutcomeWork, SettleQuiet DEF ApplyOutcome
<1> QED BY <1>1, <1>2, <1>3 DEF Loop

(* The steps of the world around the loop keep the invariant.               *)
LEMMA EnvironmentWork ==
  ASSUME WorkInvariant, TypeOK', Environment PROVE WorkInvariant'
<1>1. ASSUME NEW t \in Tasks, WorkerReports(t) \/ Workspace(t) PROVE WorkInvariant'
  BY <1>1, WorkerReportsWork, QueueForTreeWork, CaptureWork, MergeBackWork DEF Workspace
<1>2. CASE \/ \E t \in Tasks : \/ ReportSession(t) \/ AskOperator(t) \/ AnswerOperator(t)
                               \/ AnswerGate(t) \/ BecomeDue(t)
           \/ TimerFires
           \/ \E c \in Commands : Submit(c)
  BY <1>2, WorldQuiet
<1> QED BY <1>1, <1>2 DEF Environment

(* The invariant holds of a run that has just been created.                 *)
LEMMA WorkInit == Init => WorkInvariant
<1> SUFFICES ASSUME Init PROVE WorkInvariant OBVIOUS
<1>1. TypeOK BY TypingInit
<1>2. /\ \A t \in Tasks : inflight[t] = NoEntry
      /\ \A t \in Tasks : task[t] \in {"success", "pending"}
      /\ wake = <<>> /\ tree = <<>> /\ pendingMerges = <<>> /\ pc = "start"
      /\ stop = NoStop /\ runState = "created"
  BY DEF Init
<1>3. \A t \in Tasks : ~InFlight(t) /\ inflight[t].phase = "idle"
  BY <1>2 DEF InFlight, NoEntry
<1>4. ActiveHasWork BY <1>2, <1>3 DEF ActiveHasWork, HasWork, ActiveStates
<1>5. TreeOwned BY <1>2, <1>3 DEF TreeOwned, IsInjective, Range
<1>6. ReportsMatch BY <1>2, <1>3 DEF ReportsMatch, Reported
<1>7. StartsQuietly BY <1>2, <1>3 DEF StartsQuietly, Stopping
<1>8. WorkOnce /\ EntriesClaim BY <1>2, <1>3 DEF WorkOnce, EntriesClaim
<1> QED BY <1>1, <1>4, <1>5, <1>6, <1>7, <1>8 DEF WorkInvariant

(* The invariant is inductive.                                              *)
LEMMA WorkStep == WorkInvariant /\ [Next]_vars => WorkInvariant'
<1> SUFFICES ASSUME WorkInvariant, [Next]_vars PROVE WorkInvariant' OBVIOUS
<1>1. TypeOK' BY TypingStep
<1> QED BY <1>1, LoopWork, EnvironmentWork, RestWork DEF Next, Rest

=============================================================================
