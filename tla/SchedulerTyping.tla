---------------------------- MODULE SchedulerTyping ----------------------------
(***************************************************************************)
(* Every step of the scheduler keeps the shape of its variables.  One lemma *)
(* per group of actions; TypingStep puts them together.  Two steps need more *)
(* than the shape: the lock of the shared tree has a head when a merge       *)
(* session hands it on and when an attempt releases it, which WorkInvariant  *)
(* says.                                                                     *)
(***************************************************************************)
EXTENDS SchedulerProperties, TLAPS, SequenceTheorems, WellFoundedInduction

-----------------------------------------------------------------------------
(* Data *)

(* A set of positions that is not empty has a last one (lastTaskAttempt     *)
(* finds it).                                                               *)
LEMMA MaxOfBounded ==
  ASSUME NEW n \in Nat, NEW S \in SUBSET (1 .. n), S # {}
  PROVE Max(S) \in S /\ \A x \in S : x <= Max(S)
<1> DEFINE T == {k \in Nat : n - k \in S}
<1>1. T # {}
  <2> PICK x \in S : TRUE OBVIOUS
  <2>1. n - x \in Nat /\ n - (n - x) = x OBVIOUS
  <2> QED BY <2>1
<1>2. T \subseteq Nat OBVIOUS
<1> DEFINE R == {ss \in Nat \X Nat : ss[1] < ss[2]}
<1>3. IsWellFoundedOn(R, Nat) BY NatLessThanWellFounded DEF OpToRel
<1>4. \E k \in T : \A y \in T : <<y, k>> \notin R
  <2> HIDE DEF T, R
  <2> QED BY <1>1, <1>2, <1>3, WFMin
<1> PICK k \in T : \A y \in T : ~(y < k) BY <1>4
<1>5. n - k \in S OBVIOUS
<1>6. ASSUME NEW x \in S PROVE x <= n - k
  <2>1. n - x \in Nat /\ n - (n - x) = x /\ x \in Int OBVIOUS
  <2>2. ~(n - x < k) BY <2>1
  <2> QED BY <2>1, <2>2
<1> QED BY <1>5, <1>6 DEF Max

(* The order of the workflow is a sequence with positions from 1.           *)
LEMMA Order == DOMAIN Topo = 1 .. Len(Topo) /\ Len(Topo) \in Nat
  BY GraphAssumption, LenProperties

(* Every position of the order names a task.                                *)
LEMMA TaskAt ==
  ASSUME NEW i \in Nat \ {0}, i <= Len(Topo)
  PROVE Topo[i] \in Tasks
  BY GraphAssumption, ElementOfSeq, LenProperties

(* The last attempt number of a task is a number, 0 before its first        *)
(* attempt.                                                                 *)
LEMMA LastNumberType ==
  ASSUME TypeOK, NEW t \in Tasks
  PROVE LastNumber(t) \in Nat
<1>1. attempts[t] \in Seq(AttemptRecord) BY DEF TypeOK
<1>2. CASE attempts[t] = <<>> BY <1>2 DEF LastNumber
<1>3. CASE attempts[t] # <<>>
  <2>1. attempts[t][Len(attempts[t])] \in AttemptRecord
     BY <1>1, <1>3, EmptySeq, ElementOfSeq
  <2> QED BY <1>3, <2>1 DEF LastNumber, LastOf, AttemptRecord
<1> QED BY <1>2, <1>3

(* resumableSessionId gives the number of an attempt, or 0.                 *)
LEMMA ResumableSessionType ==
  ASSUME TypeOK, NEW t \in Tasks
  PROVE ResumableSession(t) \in Nat
<1> DEFINE own == {i \in DOMAIN attempts[t] : attempts[t][i].kind = "task"}
<1>1. attempts[t] \in Seq(AttemptRecord) BY DEF TypeOK
<1>2. DOMAIN attempts[t] = 1 .. Len(attempts[t]) /\ Len(attempts[t]) \in Nat
  BY <1>1, LenProperties
<1>3. LastTaskPosition(t) = IF own = {} THEN 0 ELSE Max(own)
  BY DEF LastTaskPosition
<1>4. own # {} => LastTaskPosition(t) \in 1 .. Len(attempts[t])
  <2> SUFFICES ASSUME own # {} PROVE Max(own) \in 1 .. Len(attempts[t]) BY <1>3
  <2>1. own \in SUBSET (1 .. Len(attempts[t])) BY <1>2
  <2> HIDE DEF own
  <2> QED BY <1>2, <2>1, MaxOfBounded
<1> HIDE DEF own
<1>5. LastTaskPosition(t) # 0 => attempts[t][LastTaskPosition(t)].number \in Nat
  <2> SUFFICES ASSUME LastTaskPosition(t) # 0
               PROVE attempts[t][LastTaskPosition(t)] \in AttemptRecord
    BY DEF AttemptRecord
  <2> QED BY <1>1, <1>3, <1>4, ElementOfSeq
<1>6. session[t] \in Nat BY DEF TypeOK
<1> QED BY <1>5, <1>6 DEF ResumableSession

(* What a wake of each kind carries.                                        *)
LEMMA ReportType ==
  ASSUME NEW w \in WakeRecord
  PROVE /\ w.kind = "attempt_done" => w.task \in Tasks /\ w.attempt \in Nat /\ w.outcome \in Outcomes
        /\ w.kind = "finalized" => w.task \in Tasks /\ w.attempt \in Nat /\ w.fin \in {"clean", "conflict", "lost"}
        /\ w.kind = "approval" => w.task \in Tasks /\ w.decision \in {"approved", "rejected"}
        /\ w.kind = "stop" => w.mode \in {"wait", "cancel"} /\ w.cause \in {"signal", "on_failure", "pause"}
        /\ w.kind = "control" => w.command \in Commands /\ w.id \in 1 .. MaxControls
  BY DEF WakeRecord

(* What a command of each kind carries.                                     *)
LEMMA CommandType ==
  ASSUME NEW c \in Commands
  PROVE /\ c.kind = "stop" => c.mode \in {"wait", "cancel"}
        /\ c.kind \in {"restart", "cancelTask", "suspendTask", "resumeTask", "prompt", "edit"} => c.task \in Tasks
        /\ c.kind \in {"stop", "pause", "resume", "restart", "cancelTask", "suspendTask", "resumeTask", "prompt", "edit"}
  BY CommandsAssumption

-----------------------------------------------------------------------------
(* Effects several handlers share *)

(* Aborting every worker leaves entries in flight.                          *)
LEMMA AbortAllType ==
  ASSUME inflight \in [Tasks -> EntryRecord]
  PROVE AbortAll(inflight) \in [Tasks -> EntryRecord]
<1>1. ASSUME NEW u \in Tasks PROVE [inflight[u] EXCEPT !.aborted = TRUE] \in EntryRecord
  BY DEF EntryRecord
<1> QED BY <1>1 DEF AbortAll

(* A task that ends badly, and what applyOnFailure then does, keeps the     *)
(* shape of the states, of the stop and of the work in flight.              *)
LEMMA EndBadlyType ==
  ASSUME TypeOK, NEW t, NEW s \in {"failed", "blocked"}, EndBadly(t, s)
  PROVE /\ task' \in [Tasks -> TaskState]
        /\ inflight' \in [Tasks -> EntryRecord]
        /\ stop' \in StopRecord
        /\ UNCHANGED <<runState, hold>>
<1>1. task' \in [Tasks -> TaskState]
  BY DEF EndBadly, TypeOK, TaskState
<1>2. stop' \in StopRecord
  BY OptionsAssumption DEF EndBadly, TypeOK, StopRecord
<1>3. inflight' \in [Tasks -> EntryRecord]
  BY AbortAllType DEF EndBadly, TypeOK
<1>4. UNCHANGED <<runState, hold>> BY DEF EndBadly
<1> QED BY <1>1, <1>2, <1>3, <1>4

(* An outcome written into a task's attempts, wherever it is written,       *)
(* leaves attempts.                                                         *)
LEMMA OutcomeRecorded ==
  ASSUME TypeOK, NEW t, NEW p, NEW o \in Outcomes
  PROVE [attempts EXCEPT ![t][p].outcome = o] \in [Tasks -> Seq(AttemptRecord)]
<1> SUFFICES ASSUME t \in Tasks PROVE [attempts[t] EXCEPT ![p].outcome = o] \in Seq(AttemptRecord)
  BY DEF TypeOK
<1> DEFINE s == attempts[t]
<1>1. s \in Seq(AttemptRecord) /\ DOMAIN s = 1 .. Len(s) /\ Len(s) \in Nat
  BY LenProperties DEF TypeOK
<1>2. CASE p \in DOMAIN s
  <2>1. s[p] \in AttemptRecord BY <1>1, <1>2, ElementOfSeq
  <2>2. [s[p] EXCEPT !.outcome = o] \in AttemptRecord BY <2>1 DEF AttemptRecord
  <2> QED BY <1>1, <1>2, <2>2, ExceptSeq
<1>3. CASE p \notin DOMAIN s
  <2>1. [s EXCEPT ![p].outcome = o] = s BY <1>1, <1>3
  <2> QED BY <2>1, <1>1
<1> QED BY <1>2, <1>3

(* applyStop keeps the shape of what it writes.                             *)
LEMMA ApplyStopType ==
  ASSUME TypeOK, NEW m \in {"wait", "cancel"}, NEW c \in {"signal", "on_failure", "pause"}, ApplyStop(m, c)
  PROVE /\ stop' \in StopRecord /\ restartOwed' \in [Tasks -> {"none", "edit", "message"}]
        /\ inflight' \in [Tasks -> EntryRecord] /\ hold' \in BOOLEAN /\ task' \in [Tasks -> TaskState]
<1>1. stop' \in StopRecord BY DEF TypeOK, ApplyStop, StopRecord
<1>2. inflight' \in [Tasks -> EntryRecord] BY AbortAllType DEF TypeOK, ApplyStop
<1>3. task' \in [Tasks -> TaskState] BY DEF TypeOK, ApplyStop, Settled, TaskState
<1> QED BY <1>1, <1>2, <1>3 DEF ApplyStop

(* launchMergeAttempt keeps the shape of what it writes.                    *)
LEMMA StartMergeAttemptType ==
  ASSUME TypeOK, NEW t \in Tasks, NEW n \in Nat, StartMergeAttempt(t, n)
  PROVE /\ attempts' \in [Tasks -> Seq(AttemptRecord)]
        /\ inflight' \in [Tasks -> EntryRecord]
        /\ tree' \in Seq(Tasks)
<1> DEFINE a == [number |-> n + 1, kind |-> "merge", trigger |-> "retry",
            outcome |-> "none", session |-> FALSE, resumed |-> 0, revision |-> 0]
<1>1. a \in AttemptRecord /\ Entry(n + 1, "merge", TRUE) \in EntryRecord
  BY DEF AttemptRecord, Entry, EntryRecord
<1>2. StartAttempt(t, a, Entry(n + 1, "merge", TRUE)) /\ tree' = <<t>>
  BY DEF StartMergeAttempt
<1> HIDE DEF a
<1>3. attempts' \in [Tasks -> Seq(AttemptRecord)]
  BY <1>1, <1>2 DEF StartAttempt, TypeOK
<1>4. inflight' \in [Tasks -> EntryRecord]
  BY <1>1, <1>2 DEF StartAttempt, TypeOK
<1> QED BY <1>2, <1>3, <1>4

(* applyRestart keeps the shape of what it writes, whether or not it        *)
(* restarts.                                                                *)
LEMMA RestartType ==
  ASSUME TypeOK, NEW t \in Tasks, NEW b \in BOOLEAN, Restart(t, b)
  PROVE /\ task' \in [Tasks -> TaskState] /\ window' \in [Tasks -> Nat \ {0}]
        /\ session' \in [Tasks -> Nat]
<1>1. LastNumber(t) + 1 \in Nat \ {0} BY LastNumberType
<1>2. task' \in [Tasks -> TaskState] BY DEF TypeOK, Restart, TaskState
<1>3. window' \in [Tasks -> Nat \ {0}] BY <1>1 DEF TypeOK, Restart
<1>4. session' \in [Tasks -> Nat]
  <2>1. session' = session \/ session' = [session EXCEPT ![t] = 0] BY DEF Restart
  <2>2. session \in [Tasks -> Nat] /\ 0 \in Nat BY DEF TypeOK
  <2> QED BY <2>1, <2>2
<1> QED BY <1>2, <1>3, <1>4

(* Aborting one worker keeps the shape of the states and of the work in     *)
(* flight.                                                                  *)
LEMMA AbortWorkerType ==
  ASSUME TypeOK, NEW t, AbortWorker(t)
  PROVE /\ inflight' \in [Tasks -> EntryRecord]
        /\ task' \in [Tasks -> TaskState]
<1>1. inflight' \in [Tasks -> EntryRecord] BY DEF TypeOK, AbortWorker, EntryRecord
<1>2. task' \in [Tasks -> TaskState] BY DEF TypeOK, AbortWorker, Settled, TaskState
<1> QED BY <1>1, <1>2

(* The wake being handled is the head of the queue, and what is left is a   *)
(* queue.                                                                   *)
LEMMA HeadOfQueue ==
  ASSUME TypeOK, NEW w \in Handled
  PROVE /\ w \in WakeRecord /\ w = wake[1] /\ wake # <<>> /\ pc = "park"
        /\ Tail(wake) \in Seq(WakeRecord)
<1>1. wake \in Seq(WakeRecord) /\ wake # <<>> /\ w = Head(wake) /\ pc = "park"
  BY DEF Handled, TypeOK
<1>2. Len(wake) \in Nat \ {0} BY <1>1, EmptySeq
<1>3. w = wake[1] BY <1>1, <1>2
<1>4. wake[1] \in WakeRecord BY <1>1, <1>2, ElementOfSeq
<1>5. Tail(wake) \in Seq(WakeRecord) BY <1>1, HeadTailProperties
<1> QED BY <1>1, <1>3, <1>4, <1>5

(* A wake pushed onto the queue leaves a queue.                             *)
LEMMA PushedType ==
  ASSUME TypeOK, NEW w \in WakeRecord
  PROVE Append(wake, w) \in Seq(WakeRecord)
  BY DEF TypeOK

-----------------------------------------------------------------------------
(* The actions *)

(* Preparing the run and preflight keep every shape.                        *)
LEMMA StartupType ==
  ASSUME TypeOK, Startup PROVE TypeOK'
<1>1. CASE Prepare
  BY <1>1, OptionsAssumption
  DEF Prepare, Prepared, TypeOK, RunState, TaskState, StopRecord, Goto, taskVars, workVars, queueVars,
      requestVars, senderVars
<1>2. ASSUME NEW t \in Tasks, FailPreflight(t) PROVE TypeOK'
  <2>1. EndBadly(t, "failed") BY <1>2 DEF FailPreflight
  <2> QED BY <1>2, <2>1, EndBadlyType
      DEF FailPreflight, TypeOK, taskVars, requestVars, queueVars, senderVars, loopVars
<1>3. CASE EnterLoop
  BY <1>3 DEF EnterLoop, Goto, TypeOK, runVars, taskVars, workVars, queueVars, requestVars, senderVars
<1> QED BY <1>1, <1>2, <1>3 DEF Startup

(* promoteReady keeps every shape, gates and failed conditions included.    *)
LEMMA PromoteType ==
  ASSUME TypeOK, Promote PROVE TypeOK'
<1>1. CASE StartPass
  BY <1>1 DEF StartPass, Goto, TypeOK, runVars, taskVars, workVars, queueVars, requestVars, senderVars
<1>2. CASE EndPass
  BY <1>2 DEF EndPass, Goto, TypeOK, runVars, taskVars, workVars, queueVars, requestVars, senderVars
<1> DEFINE Quiet == /\ UNCHANGED <<taskVars, pendingMerges, tree, timer, seen, requestVars, senderVars,
                                   pc, focus>>
                    /\ cursor' \in Nat \ {0}
<1>3. ASSUME NEW i \in DOMAIN Topo, Promoting(i) PROVE Quiet /\ Topo[i] \in Tasks
  <2>1. i \in Nat \ {0} /\ i <= Len(Topo) BY <1>3, Order
  <2>2. Topo[i] \in Tasks BY <2>1, TaskAt
  <2>3. cursor' = i + 1 BY <1>3 DEF Promoting
  <2> QED BY <1>3, <2>1, <2>2, <2>3 DEF Promoting, taskVars, requestVars, senderVars
<1>4. ASSUME NEW i \in DOMAIN Topo, Promoting(i),
             NEW s \in {"blocked", "skipped", "ready"},
             task' = [task EXCEPT ![Topo[i]] = s],
             UNCHANGED <<runVars, inflight, wake, asking>>
      PROVE TypeOK'
  <2>1. Quiet BY <1>3, <1>4
  <2> QED BY <1>4, <2>1 DEF TypeOK, TaskState, runVars, taskVars, requestVars, senderVars
<1>5. CASE BlockOnDependency BY <1>4, <1>5 DEF BlockOnDependency
<1>6. CASE SkipOnCondition BY <1>4, <1>6 DEF SkipOnCondition
<1>7. CASE MakeReady BY <1>4, <1>7 DEF MakeReady
<1>8. CASE FailOnCondition
  <2> PICK i \in DOMAIN Topo : FailOnCondition!(i) BY <1>8 DEF FailOnCondition
  <2>1. Promoting(i) /\ EndBadly(Topo[i], "failed") /\ UNCHANGED <<wake, asking>>
    OBVIOUS
  <2>2. Quiet BY <1>3, <2>1
  <2> QED BY <2>1, <2>2, EndBadlyType DEF TypeOK, taskVars, requestVars, senderVars
<1>9. CASE OpenGate
  <2> PICK i \in DOMAIN Topo : OpenGate!(i) BY <1>9 DEF OpenGate
  <2>1. Promoting(i) OBVIOUS
  <2>2. Quiet /\ Topo[i] \in Tasks BY <1>3, <2>1
  <2>3. task' \in [Tasks -> TaskState] BY DEF TypeOK, TaskState
  <2>4. wake' \in Seq(WakeRecord)
    <3>1. CASE decided[Topo[i]] # "none"
      <4>1. Approval(Topo[i], decided[Topo[i]]) \in WakeRecord
        BY <3>1, <2>2 DEF TypeOK, Approval, WakeRecord
      <4> QED BY <3>1, <4>1, PushedType
    <3>2. CASE decided[Topo[i]] = "none" BY <3>2 DEF TypeOK
    <3> QED BY <3>1, <3>2
  <2>5. stop' \in StopRecord /\ asking' \subseteq Tasks
    BY <2>2 DEF TypeOK, StopRecord
  <2>6. UNCHANGED <<runState, hold, inflight>> OBVIOUS
  <2> QED BY <2>2, <2>3, <2>4, <2>5, <2>6 DEF TypeOK, taskVars, requestVars, senderVars
<1> QED BY <1>1, <1>2, <1>5, <1>6, <1>7, <1>8, <1>9 DEF Promote

(* launch keeps every shape: the new attempt has a number above 0 and a     *)
(* session to continue that is a number.                                    *)
LEMMA LaunchType == ASSUME TypeOK, Launch PROVE TypeOK'
<1> PICK i \in cursor .. Len(Topo) : Launch!(i)
  BY DEF Launch
<1> DEFINE t == Topo[i]
<1>0. t \in Tasks /\ i + 1 \in Nat \ {0}
  <2>1. i \in Nat \ {0} /\ i <= Len(Topo) BY Order DEF TypeOK
  <2> QED BY <2>1, TaskAt
<1>1. NextAttempt(t) \in AttemptRecord
  <2>1. LastNumber(t) + 1 \in Nat \ {0} BY <1>0, LastNumberType
  <2>2. ResumedSession(t) \in Nat BY <1>0 DEF TypeOK, ResumedSession
  <2>3. revisions[t] \in Nat BY <1>0 DEF TypeOK
  <2> QED BY <2>1, <2>2, <2>3 DEF NextAttempt, AttemptRecord
<1>2. Entry(NextAttempt(t).number, "task", TakesTree(t)) \in EntryRecord
  <2>1. NextAttempt(t).number \in Nat BY <1>1 DEF AttemptRecord
  <2> QED BY <2>1 DEF Entry, EntryRecord, TakesTree
<1>3. attempts' \in [Tasks -> Seq(AttemptRecord)] /\ inflight' \in [Tasks -> EntryRecord]
  BY <1>0, <1>1, <1>2 DEF TypeOK, StartAttempt
<1>4. tree' \in Seq(Tasks)
  BY <1>0 DEF TypeOK
<1> QED
  BY <1>0, <1>3, <1>4 DEF TypeOK, TaskState, requestVars, senderVars, runVars

(* A launch pass and the merge sessions before it keep every shape.         *)
LEMMA LaunchWorkType ==
  ASSUME TypeOK, LaunchWork PROVE TypeOK'
<1>1. CASE LaunchPendingMerge
  <2> DEFINE m == Head(pendingMerges)
  <2>1. pendingMerges # <<>> /\ pendingMerges \in Seq([task : Tasks, attempt : Nat])
    BY <1>1 DEF LaunchPendingMerge, TypeOK
  <2>2. m \in [task : Tasks, attempt : Nat] /\ Tail(pendingMerges) \in Seq([task : Tasks, attempt : Nat])
    BY <2>1, HeadTailProperties
  <2>3. StartMergeAttempt(m.task, m.attempt) /\ m.task \in Tasks /\ m.attempt \in Nat
    BY <1>1, <2>2 DEF LaunchPendingMerge
  <2> HIDE DEF m
  <2>4. /\ attempts' \in [Tasks -> Seq(AttemptRecord)]
        /\ inflight' \in [Tasks -> EntryRecord] /\ tree' \in Seq(Tasks)
    BY <2>3, StartMergeAttemptType
  <2> QED
    BY <1>1, <2>2, <2>4
    DEF LaunchPendingMerge, TypeOK, runVars, queueVars, requestVars, senderVars, loopVars
<1>2. CASE AbandonPendingMerge
  <2> DEFINE m == Head(pendingMerges)
  <2>1. pendingMerges # <<>> /\ pendingMerges \in Seq([task : Tasks, attempt : Nat])
    BY <1>2 DEF AbandonPendingMerge, TypeOK
  <2>2. m \in [task : Tasks, attempt : Nat] /\ Tail(pendingMerges) \in Seq([task : Tasks, attempt : Nat])
    BY <2>1, HeadTailProperties
  <2>3. attempts' = Conflicted(m.task, m.attempt)
        /\ focus' = [task |-> m.task, attempt |-> m.attempt, conflict |-> TRUE, back |-> "merges"]
    BY <1>2 DEF AbandonPendingMerge
  <2> HIDE DEF m
  <2>4. attempts' \in [Tasks -> Seq(AttemptRecord)]
    BY <2>3, OutcomeRecorded DEF Conflicted, Outcomes
  <2>5. focus' \in FocusRecord
    BY <2>2, <2>3 DEF FocusRecord
  <2> QED
    BY <1>2, <2>2, <2>4, <2>5
    DEF AbandonPendingMerge, Goto, TypeOK, runVars, queueVars, requestVars, senderVars
<1>3. CASE EndMerges
  <2>1. /\ pc' = "launch" /\ cursor' = 1 /\ seen' = FALSE
        /\ UNCHANGED <<runVars, task, taskVars, workVars, wake, timer, asking, requestVars,
                       senderVars, focus>>
    BY <1>3 DEF EndMerges, Goto
  <2>2. seen' \in BOOLEAN BY <2>1
  <2>3. cursor' \in Nat \ {0} BY <2>1
  <2> QED BY <2>1, <2>2, <2>3 DEF TypeOK, runVars, taskVars, workVars, requestVars, senderVars
<1>4. CASE Launch
  BY <1>4, LaunchType
<1>5. CASE EndLaunch
  BY <1>5 DEF EndLaunch, Goto, TypeOK, runVars, taskVars, workVars, requestVars, senderVars
<1> QED BY <1>1, <1>2, <1>3, <1>4, <1>5 DEF LaunchWork

(* handleAttemptDone keeps every shape.  A merge session that reports holds *)
(* the tree, so the lock it hands on has a head.                            *)
LEMMA HandleAttemptDoneType ==
  ASSUME WorkInvariant, HandleAttemptDone PROVE TypeOK'
<1> PICK w \in Handled : HandleAttemptDone!(w) BY DEF HandleAttemptDone
<1> DEFINE t == w.task
           o == IF w.outcome = "cancelled" /\ stop.cause # "signal" /\ ~inflight[t].aborted
                THEN "crash" ELSE w.outcome
<1>0. TypeOK /\ ReportsMatch /\ EntriesClaim /\ TreeOwned BY DEF WorkInvariant
<1>1. /\ w \in WakeRecord /\ w.kind = "attempt_done" /\ Tail(wake) \in Seq(WakeRecord)
      /\ w = wake[1] /\ 1 \in DOMAIN wake
  <2>1. /\ w \in WakeRecord /\ w = wake[1] /\ wake # <<>>
        /\ Tail(wake) \in Seq(WakeRecord)
    BY <1>0, HeadOfQueue
  <2>2. w.kind = "attempt_done" OBVIOUS
  <2>3. wake \in Seq(WakeRecord) BY <1>0 DEF TypeOK
  <2>4. Len(wake) \in Nat \ {0} BY <2>1, <2>3, EmptySeq
  <2>5. 1 \in DOMAIN wake BY <2>3, <2>4, LenProperties
  <2> QED BY <2>1, <2>2, <2>5
<1>2. t \in Tasks /\ w.attempt \in Nat /\ o \in Outcomes
  BY <1>1, ReportType DEF Outcomes
<1>3. attempts' \in [Tasks -> Seq(AttemptRecord)]
  <2>1. attempts' = attempts \/ attempts' = [attempts EXCEPT ![t][PositionOf(t, w.attempt)].outcome = o]
    OBVIOUS
  <2>2. attempts \in [Tasks -> Seq(AttemptRecord)] BY <1>0 DEF TypeOK
  <2> HIDE DEF o
  <2>3. [attempts EXCEPT ![t][PositionOf(t, w.attempt)].outcome = o] \in [Tasks -> Seq(AttemptRecord)]
    BY <1>0, <1>2, OutcomeRecorded
  <2> QED BY <2>1, <2>2, <2>3
<1>4. inflight' \in [Tasks -> EntryRecord]
  <2>1. \/ inflight' = inflight
        \/ inflight' = [inflight EXCEPT ![t] = [@ EXCEPT !.phase = "queued", !.holds = FALSE]]
        \/ inflight' = [inflight EXCEPT ![t].phase = "capturing"]
    BY <1>0, <1>2 DEF TypeOK, EntryRecord
  <2>2. inflight[t] \in EntryRecord /\ inflight \in [Tasks -> EntryRecord] BY <1>0, <1>2 DEF TypeOK
  <2>3. /\ [inflight[t] EXCEPT !.phase = "queued", !.holds = FALSE] \in EntryRecord
        /\ [inflight[t] EXCEPT !.phase = "capturing"] \in EntryRecord
    BY <2>2 DEF EntryRecord
  <2> QED BY <2>1, <2>2, <2>3, <1>2
<1>5. tree' \in Seq(Tasks)
  <2>1. CASE tree' = tree BY <2>1, <1>0 DEF TypeOK
  <2>2. CASE tree' # tree
    <3>1. Current(w) /\ inflight[t].kind = "merge" /\ tree' = Append(Tail(tree), t)
      BY <2>2
    <3>2. InFlight(t) /\ inflight[t].phase = "ended"
      BY <1>0, <3>1, <1>1, <1>2 DEF Current, ReportsMatch, Reported
    <3>3. t \in Range(tree)
      BY <1>0, <3>1, <3>2, <1>2 DEF EntriesClaim, TreeOwned
    <3>4. tree # <<>> BY <3>3 DEF Range
    <3> QED BY <1>0, <3>1, <3>4, <1>2, HeadTailProperties DEF TypeOK
  <2> QED BY <2>1, <2>2
<1>6. /\ pc' = "pass" /\ wake' = Tail(wake)
      /\ UNCHANGED <<runVars, task, window, session, delayed, decided, followUps,
                   revisions, swept, pendingMerges, queueVars, requestVars,
                   senderVars, cursor, focus>>
  BY DEF Goto, Took
<1> QED
  BY <1>0, <1>1, <1>3, <1>4, <1>5, <1>6
  DEF TypeOK, runVars, queueVars, requestVars, senderVars

(* handleFinalized keeps every shape.  An attempt that holds the tree is    *)
(* its head, so the lock it releases has one.                               *)
LEMMA HandleFinalizedType ==
  ASSUME WorkInvariant, HandleFinalized PROVE TypeOK'
<1> PICK w \in Handled : HandleFinalized!(w) BY DEF HandleFinalized
<1> DEFINE t == w.task
<1>0. TypeOK /\ TreeOwned BY DEF WorkInvariant
<1>1. /\ w \in WakeRecord /\ w.kind = "finalized" /\ Tail(wake) \in Seq(WakeRecord)
  BY <1>0, HeadOfQueue
<1>2. t \in Tasks /\ w.attempt \in Nat
  BY <1>1, ReportType
<1>3. /\ wake' = Tail(wake)
      /\ UNCHANGED <<runVars, task, window, session, delayed, decided, followUps,
                     revisions, swept, queueVars, requestVars, senderVars, cursor>>
  BY DEF Took
<1>4. ASSUME StartMergeAttempt(t, w.attempt), pc' = "pass", UNCHANGED <<pendingMerges, focus>>
      PROVE TypeOK'
  <2>1. /\ attempts' \in [Tasks -> Seq(AttemptRecord)]
        /\ inflight' \in [Tasks -> EntryRecord] /\ tree' \in Seq(Tasks)
    BY <1>0, <1>2, <1>4, StartMergeAttemptType
  <2> QED
    BY <1>0, <1>1, <1>3, <1>4, <2>1 DEF TypeOK, runVars, queueVars, requestVars, senderVars
<1>5. ASSUME ~Current(w), pc' = "pass",
             UNCHANGED <<attempts, inflight, tree, pendingMerges, focus>>
      PROVE TypeOK'
  BY <1>0, <1>1, <1>3, <1>5 DEF TypeOK, runVars, queueVars, requestVars, senderVars
<1> DEFINE freed == IF inflight[t].holds THEN Tail(tree) ELSE tree
           released == inflight' = [inflight EXCEPT ![t] = NoEntry] /\ tree' = freed
<1>6. ASSUME Current(w), released
      PROVE inflight' \in [Tasks -> EntryRecord] /\ tree' \in Seq(Tasks)
  <2>1. inflight' \in [Tasks -> EntryRecord]
    BY <1>0, <1>6 DEF TypeOK, NoEntry, EntryRecord
  <2>2. ASSUME inflight[t].holds PROVE tree' \in Seq(Tasks)
    <3>1. t \in Range(tree)
      BY <1>0, <1>2, <1>6, <2>2 DEF TreeOwned, Current
    <3>2. tree # <<>> BY <3>1 DEF Range
    <3> QED BY <1>0, <1>6, <2>2, <3>2, HeadTailProperties DEF TypeOK
  <2>3. ASSUME ~inflight[t].holds PROVE tree' \in Seq(Tasks)
    BY <1>0, <1>6, <2>3 DEF TypeOK
  <2> QED BY <2>1, <2>2, <2>3
<1>7. ASSUME Current(w), released, pc' = "pass", UNCHANGED <<attempts, focus>>,
             pendingMerges' = Append(pendingMerges, [task |-> t, attempt |-> w.attempt])
      PROVE TypeOK'
  <2>1. inflight' \in [Tasks -> EntryRecord] /\ tree' \in Seq(Tasks) BY <1>6, <1>7
  <2>2. pendingMerges' \in Seq([task : Tasks, attempt : Nat])
    BY <1>0, <1>2, <1>7 DEF TypeOK
  <2> HIDE DEF released
  <2> QED
    BY <1>0, <1>1, <1>3, <1>7, <2>1, <2>2 DEF TypeOK, runVars, queueVars, requestVars, senderVars
<1>8. ASSUME Current(w), released, pc' = "outcome", UNCHANGED pendingMerges,
             attempts' = Conflicted(t, w.attempt) \/ attempts' = attempts,
             focus' = [task |-> t, attempt |-> w.attempt, conflict |-> w.fin = "conflict", back |-> "pass"]
      PROVE TypeOK'
  <2>1. inflight' \in [Tasks -> EntryRecord] /\ tree' \in Seq(Tasks) BY <1>6, <1>8
  <2>2. Conflicted(t, w.attempt) \in [Tasks -> Seq(AttemptRecord)]
    BY <1>0, OutcomeRecorded DEF Conflicted, Outcomes
  <2>3. attempts' \in [Tasks -> Seq(AttemptRecord)]
    BY <1>0, <1>8, <2>2 DEF TypeOK
  <2>4. focus' \in FocusRecord BY <1>2, <1>8 DEF FocusRecord
  <2> HIDE DEF released
  <2> QED
    BY <1>0, <1>1, <1>3, <1>8, <2>1, <2>3, <2>4
    DEF TypeOK, runVars, queueVars, requestVars, senderVars
<1>9. \/ /\ ~Current(w) /\ pc' = "pass"
         /\ UNCHANGED <<attempts, inflight, tree, pendingMerges, focus>>
      \/ StartMergeAttempt(t, w.attempt) /\ pc' = "pass" /\ UNCHANGED <<pendingMerges, focus>>
      \/ /\ Current(w) /\ released /\ pc' = "pass" /\ UNCHANGED <<attempts, focus>>
         /\ pendingMerges' = Append(pendingMerges, [task |-> t, attempt |-> w.attempt])
      \/ /\ Current(w) /\ released /\ pc' = "outcome" /\ UNCHANGED pendingMerges
         /\ attempts' = Conflicted(t, w.attempt) \/ attempts' = attempts
         /\ focus' = [task |-> t, attempt |-> w.attempt, conflict |-> w.fin = "conflict", back |-> "pass"]
  BY DEF Goto
<1> HIDE DEF released, t
<1> QED BY <1>4, <1>5, <1>7, <1>8, <1>9

(* The other wakes of the loop itself keep every shape.                     *)
LEMMA OtherWakeType ==
  ASSUME TypeOK, HandleApproval \/ HandleRetryDue \/ HandleStop PROVE TypeOK'
<1>1. CASE HandleApproval
  <2> PICK w \in Handled : HandleApproval!(w) BY <1>1 DEF HandleApproval
  <2>1. /\ w \in WakeRecord /\ w.kind = "approval" /\ Tail(wake) \in Seq(WakeRecord)
    BY HeadOfQueue
  <2>2. w.task \in Tasks /\ w.decision \in {"approved", "rejected"}
    BY <2>1, ReportType
  <2>3. decided' \in [Tasks -> {"none", "approved", "rejected"}]
    BY <2>2 DEF TypeOK
  <2>4. /\ task' \in [Tasks -> TaskState]
        /\ inflight' \in [Tasks -> EntryRecord]
        /\ stop' \in StopRecord
        /\ UNCHANGED <<runState, hold>>
    <3>1. CASE EndBadly(w.task, "failed") BY <3>1, EndBadlyType
    <3>2. CASE UNCHANGED <<runVars, task, inflight>> BY <3>2 DEF TypeOK, runVars
    <3>3. CASE task' = [task EXCEPT ![w.task] = "success"] /\ UNCHANGED <<runVars, inflight>>
      BY <3>3 DEF TypeOK, TaskState, runVars
    <3> QED BY <3>1, <3>2, <3>3
  <2>5. /\ wake' = Tail(wake) /\ pc' = "pass"
        /\ UNCHANGED <<attempts, window, session, delayed, followUps, revisions, swept,
                       pendingMerges, tree, queueVars, requestVars, senderVars, cursor,
                       focus>>
    BY DEF Goto, Took
  <2> QED BY <2>1, <2>3, <2>4, <2>5 DEF TypeOK, queueVars, requestVars, senderVars
<1>2. CASE HandleRetryDue
  <2> PICK w \in Handled : HandleRetryDue!(w) BY <1>2 DEF HandleRetryDue
  <2>1. Tail(wake) \in Seq(WakeRecord) BY HeadOfQueue
  <2> QED
    BY <2>1 DEF Goto, Took, TypeOK, runVars, taskVars, workVars, queueVars, requestVars, senderVars
<1>3. CASE HandleStop
  <2> PICK w \in Handled : HandleStop!(w) BY <1>3 DEF HandleStop
  <2>1. w \in WakeRecord /\ w.kind = "stop" /\ Tail(wake) \in Seq(WakeRecord)
    BY HeadOfQueue
  <2>2. w.mode \in {"wait", "cancel"} /\ w.cause \in {"signal", "on_failure", "pause"}
    BY <2>1, ReportType
  <2>3. /\ stop' \in StopRecord /\ restartOwed' \in [Tasks -> {"none", "edit", "message"}]
        /\ inflight' \in [Tasks -> EntryRecord] /\ hold' \in BOOLEAN /\ task' \in [Tasks -> TaskState]
    BY <2>2, ApplyStopType
  <2> QED
    BY <2>1, <2>3 DEF Goto, Took, TypeOK, taskVars, queueVars, senderVars
<1> QED BY <1>1, <1>2, <1>3

(* What applying an outcome leaves alone (applyOutcome).                    *)
Applied ==
  /\ pc' = "cancel"
  /\ UNCHANGED <<window, decided, followUps, revisions, swept, pendingMerges, tree, wake,
                 queueVars, restartOwed, senderVars, cursor, focus>>

(* An outcome applied within those limits keeps every shape.                *)
LEMMA AppliedType ==
  ASSUME TypeOK, Applied,
         task' \in [Tasks -> TaskState], attempts' \in [Tasks -> Seq(AttemptRecord)],
         inflight' \in [Tasks -> EntryRecord], session' \in [Tasks -> Nat],
         stop' \in StopRecord, UNCHANGED <<runState, hold>>,
         delayed' \subseteq Tasks, cancelReq' \subseteq Tasks, suspendReq' \subseteq Tasks
  PROVE TypeOK'
  BY DEF Applied, TypeOK, queueVars, senderVars

(* The attempt whose outcome is being applied is an attempt of a task.      *)
LEMMA FocusType ==
  ASSUME WorkInvariant, pc \in {"outcome", "cancel", "restart"}
  PROVE focus.task \in Tasks /\ focus.attempt \in Nat /\ focus.back \in {"pass", "merges"}
<1>1. focus.task \in Tasks BY DEF WorkInvariant, WorkOnce
<1>2. focus \in FocusRecord BY DEF WorkInvariant, TypeOK
<1> QED BY <1>1, <1>2 DEF FocusRecord, NoFocus

(* A task that changes to a state has a state.                              *)
LEMMA BecameType ==
  ASSUME TypeOK, NEW s \in TaskState, Became(s)
  PROVE task' \in [Tasks -> TaskState]
  BY DEF TypeOK, Became

(* The session of the attempt under judgement is its number, or 0.          *)
LEMMA OwnSessionType ==
  ASSUME WorkInvariant, pc = "outcome"
  PROVE OwnSession \in Nat
  BY FocusType DEF OwnSession

(* Every way an attempt may leave its task keeps every shape.               *)
LEMMA OutcomeType ==
  ASSUME WorkInvariant,
         \/ Succeed \/ SkipByAgent \/ AskInput \/ BlockByAgent \/ EndSuspended
         \/ EndCancelled \/ RecoverTransient \/ NudgeSession \/ RetryAttempt \/ FailTask
  PROVE TypeOK'
<1>0. TypeOK BY DEF WorkInvariant
<1>1. /\ pc = "outcome" /\ Applied
  BY DEF Succeed, SkipByAgent, AskInput, BlockByAgent, EndSuspended, EndCancelled, Failing,
         RecoverTransient, NudgeSession, RetryAttempt, FailTask, Applying, Applied, Goto
<1>2. Focused \in Tasks /\ OwnSession \in Nat /\ focus.attempt \in Nat
  BY <1>1, FocusType, OwnSessionType DEF Focused
<1> DEFINE Typed == /\ task' \in [Tasks -> TaskState] /\ stop' \in StopRecord
                    /\ inflight' \in [Tasks -> EntryRecord] /\ UNCHANGED <<runState, hold>>
<1>3. Typed
  <2>1. ASSUME NEW s \in {"success", "skipped", "suspended", "cancelled", "ready"},
               Became(s), UNCHANGED <<runVars, inflight>>
        PROVE Typed
    <3>1. task' \in [Tasks -> TaskState] BY <1>0, <2>1, BecameType DEF TaskState
    <3> QED BY <1>0, <2>1, <3>1 DEF TypeOK, runVars
  <2>2. ASSUME NEW s \in {"blocked", "failed"}, EndBadly(Focused, s)
        PROVE Typed
    BY <1>0, <2>2, EndBadlyType
  <2>3. CASE AskInput
    <3>1. task' \in [Tasks -> TaskState] BY <1>0, <2>3, BecameType DEF TaskState, AskInput
    <3> QED BY <1>0, <2>3, <3>1 DEF AskInput, TypeOK, StopRecord
  <2> QED
    BY <2>1, <2>2, <2>3
    DEF Succeed, SkipByAgent, BlockByAgent, EndSuspended, EndCancelled, RecoverTransient,
        NudgeSession, RetryAttempt, FailTask
<1>4. session' \in [Tasks -> Nat]
  <2>1. session \in [Tasks -> Nat] BY <1>0 DEF TypeOK
  <2>2. \/ session' = session
        \/ \E n \in Nat : session' = [session EXCEPT ![Focused] = n]
    BY <1>2, <2>1
    DEF Succeed, SkipByAgent, AskInput, BlockByAgent, EndSuspended, EndCancelled, RecoverTransient,
        NudgeSession, RetryAttempt, FailTask, ForgetSession
  <2> QED BY <2>1, <2>2
<1>5. attempts' \in [Tasks -> Seq(AttemptRecord)]
  <2>1. CASE EndSuspended
    <3>1. "suspended" \in Outcomes BY DEF Outcomes
    <3> QED BY <1>0, <2>1, <3>1, OutcomeRecorded DEF EndSuspended
  <2>2. CASE UNCHANGED attempts BY <1>0, <2>2 DEF TypeOK
  <2> QED
    BY <2>1, <2>2
    DEF Succeed, SkipByAgent, AskInput, BlockByAgent, EndCancelled, RecoverTransient,
        NudgeSession, RetryAttempt, FailTask
<1>6. delayed' \subseteq Tasks /\ cancelReq' \subseteq Tasks /\ suspendReq' \subseteq Tasks
  BY <1>0, <1>2
  DEF TypeOK, Succeed, SkipByAgent, AskInput, BlockByAgent, EndSuspended, EndCancelled,
      RecoverTransient, NudgeSession, RetryAttempt, FailTask
<1> QED BY <1>0, <1>1, <1>3, <1>4, <1>5, <1>6, AppliedType

(* applyPendingCancel and the restart owed after it keep every shape.       *)
LEMMA SettleType ==
  ASSUME WorkInvariant, SettleCancel \/ SettleRestart PROVE TypeOK'
<1>0. TypeOK BY DEF WorkInvariant
<1>1. CASE SettleCancel
  <2>1. Focused \in Tasks BY <1>1, FocusType DEF Focused, SettleCancel
  <2>2. task' \in [Tasks -> TaskState] BY <1>0, <1>1 DEF SettleCancel, Became, TypeOK, TaskState
  <2>3. session' \in [Tasks -> Nat]
    <3>1. session \in [Tasks -> Nat] BY <1>0 DEF TypeOK
    <3>2. session' = session \/ session' = [session EXCEPT ![Focused] = 0]
      BY <1>1 DEF SettleCancel, ForgetSession
    <3> QED BY <3>1, <3>2
  <2>4. delayed' \subseteq Tasks /\ cancelReq' \subseteq Tasks
    BY <1>0, <1>1 DEF SettleCancel, TypeOK
  <2> QED
    BY <1>0, <1>1, <2>2, <2>3, <2>4
    DEF SettleCancel, Goto, TypeOK, runVars, workVars, queueVars, senderVars
<1>2. CASE SettleRestart
  <2>1. Focused \in Tasks /\ focus.back \in {"pass", "merges"}
    BY <1>2, FocusType DEF Focused, SettleRestart
  <2>2. /\ task' \in [Tasks -> TaskState] /\ window' \in [Tasks -> Nat \ {0}]
        /\ session' \in [Tasks -> Nat]
    <3>1. CASE Restart(Focused, FALSE) BY <1>0, <2>1, <3>1, RestartType
    <3>2. CASE UNCHANGED <<task, window, session>> BY <1>0, <3>2 DEF TypeOK
    <3> QED BY <1>2, <3>1, <3>2 DEF SettleRestart
  <2>3. restartOwed' \in [Tasks -> {"none", "edit", "message"}]
    BY <1>0, <1>2 DEF SettleRestart, TypeOK
  <2>4. pc' \in {"pass", "merges"} /\ focus' = NoFocus
    BY <1>2, <2>1 DEF SettleRestart, Goto
  <2> QED
    BY <1>0, <1>2, <2>2, <2>3, <2>4
    DEF SettleRestart, TypeOK, FocusRecord, runVars, workVars, queueVars, senderVars
<1> QED BY <1>1, <1>2

(* What answering a command leaves alone (handleControl).                   *)
Answered ==
  /\ pc' = "pass"
  /\ unsettled' \subseteq unsettled
  /\ UNCHANGED <<submitted, cursor, focus, timer, seen, asking, decided, attempts, swept,
                 pendingMerges, tree>>

(* A command applied within those limits keeps every shape.                 *)
LEMMA AnsweredType ==
  ASSUME TypeOK, Answered, delayed' \subseteq Tasks,
         task' \in [Tasks -> TaskState], window' \in [Tasks -> Nat \ {0}],
         session' \in [Tasks -> Nat], followUps' \subseteq Tasks, revisions' \in [Tasks -> Nat],
         inflight' \in [Tasks -> EntryRecord], runState' \in RunState, stop' \in StopRecord,
         hold' \in BOOLEAN, wake' \in Seq(WakeRecord), cancelReq' \subseteq Tasks,
         suspendReq' \subseteq Tasks, restartOwed' \in [Tasks -> {"none", "edit", "message"}]
  PROVE TypeOK'
  BY DEF Answered, TypeOK

(* Every answered command stays within those limits.                        *)
LEMMA CommandedFrame ==
  ASSUME NEW w, NEW k, Commanded(w, k)
  PROVE Answered /\ delayed' = delayed /\ w.kind = "control" /\ w.command.kind = k
  BY DEF Commanded, Answered, Goto

(* A command about a task names one, and a stop has a mode.                 *)
LEMMA CommandedTask ==
  ASSUME TypeOK, NEW w \in Handled, NEW k, Commanded(w, k)
  PROVE /\ w.command \in Commands
        /\ k \in {"restart", "cancelTask", "suspendTask", "resumeTask", "prompt", "edit"}
             => w.command.task \in Tasks
        /\ k = "stop" => w.command.mode \in {"wait", "cancel"}
<1>1. w \in WakeRecord BY HeadOfQueue
<1>2. w.kind = "control" /\ w.command.kind = k BY CommandedFrame
<1>3. w.command \in Commands BY <1>1, <1>2, ReportType
<1> QED BY <1>2, <1>3, CommandType

(* Commands about the run keep every shape.                                 *)
LEMMA RunControlType ==
  ASSUME TypeOK, RejectCommand \/ StopRun \/ HoldRun \/ ReleaseRun PROVE TypeOK'
<1>1. CASE RejectCommand
  <2> PICK w \in Handled : RejectCommand!(w) BY <1>1 DEF RejectCommand
  <2>1. Answered /\ delayed' = delayed BY CommandedFrame
  <2>2. wake' \in Seq(WakeRecord) BY HeadOfQueue DEF Took
  <2> QED BY <2>1, <2>2, AnsweredType DEF TypeOK, runVars, requestVars
<1>2. CASE StopRun
  <2> PICK w \in Handled : StopRun!(w) BY <1>2 DEF StopRun
  <2>1. Answered /\ delayed' = delayed BY CommandedFrame
  <2>2. wake' \in Seq(WakeRecord) BY HeadOfQueue DEF Took
  <2>3. w.command.mode \in {"wait", "cancel"} BY CommandedTask
  <2>4. /\ stop' \in StopRecord /\ restartOwed' \in [Tasks -> {"none", "edit", "message"}]
        /\ inflight' \in [Tasks -> EntryRecord] /\ hold' \in BOOLEAN /\ task' \in [Tasks -> TaskState]
    BY <2>3, ApplyStopType
  <2> QED BY <2>1, <2>2, <2>4, AnsweredType DEF TypeOK
<1>3. CASE HoldRun
  <2> PICK w \in Handled : HoldRun!(w) BY <1>3 DEF HoldRun
  <2>1. Answered /\ delayed' = delayed BY CommandedFrame
  <2>2. wake' \in Seq(WakeRecord) BY HeadOfQueue DEF Took
  <2>3. runState' \in RunState BY DEF RunState
  <2>4. hold' \in BOOLEAN OBVIOUS
  <2> QED BY <2>1, <2>2, <2>3, <2>4, AnsweredType DEF TypeOK, requestVars
<1>4. CASE ReleaseRun
  <2> PICK w \in Handled : ReleaseRun!(w) BY <1>4 DEF ReleaseRun
  <2>1. Answered /\ delayed' = delayed BY CommandedFrame
  <2>2. wake' \in Seq(WakeRecord)
    <3>1. Tail(wake) \in Seq(WakeRecord) BY HeadOfQueue
    <3>2. RetryDue \in WakeRecord BY DEF RetryDue, WakeRecord
    <3> QED BY <3>1, <3>2
  <2>3. runState' \in RunState BY DEF RunState
  <2>4. hold' \in BOOLEAN OBVIOUS
  <2> QED BY <2>1, <2>2, <2>3, <2>4, AnsweredType DEF TypeOK, requestVars
<1> QED BY <1>1, <1>2, <1>3, <1>4

(* Restart, cancel, suspend and resume of a task keep every shape.          *)
LEMMA TaskControlType ==
  ASSUME TypeOK, RestartTask \/ CancelTask \/ SuspendTask \/ ResumeTask PROVE TypeOK'
<1>1. CASE RestartTask \/ ResumeTask
  <2> PICK w \in Handled, b \in BOOLEAN :
        /\ Commanded(w, "restart") \/ Commanded(w, "resumeTask")
        /\ Took /\ Restart(w.command.task, b)
        /\ UNCHANGED <<runVars, followUps, revisions, inflight, requestVars>>
    BY <1>1 DEF RestartTask, ResumeTask
  <2>1. Answered /\ delayed' = delayed BY CommandedFrame
  <2>2. wake' \in Seq(WakeRecord) BY HeadOfQueue DEF Took
  <2>3. w.command.task \in Tasks BY CommandedTask
  <2>4. /\ task' \in [Tasks -> TaskState] /\ window' \in [Tasks -> Nat \ {0}]
        /\ session' \in [Tasks -> Nat]
    BY <2>3, RestartType
  <2> QED BY <2>1, <2>2, <2>4, AnsweredType DEF TypeOK, runVars, requestVars
<1>2. CASE CancelTask
  <2> PICK w \in Handled : CancelTask!(w) BY <1>2 DEF CancelTask
  <2>1. Answered /\ delayed' = delayed BY CommandedFrame
  <2>2. wake' \in Seq(WakeRecord) BY HeadOfQueue DEF Took
  <2>3. w.command.task \in Tasks BY CommandedTask
  <2>4. inflight' \in [Tasks -> EntryRecord] /\ task' \in [Tasks -> TaskState]
    BY AbortWorkerType DEF TypeOK
  <2>5. cancelReq' \subseteq Tasks BY <2>3 DEF TypeOK
  <2> QED BY <2>1, <2>2, <2>4, <2>5, AnsweredType DEF TypeOK, runVars
<1>3. CASE SuspendTask
  <2> PICK w \in Handled : SuspendTask!(w) BY <1>3 DEF SuspendTask
  <2>1. Answered /\ delayed' = delayed BY CommandedFrame
  <2>2. wake' \in Seq(WakeRecord) BY HeadOfQueue DEF Took
  <2>3. w.command.task \in Tasks BY CommandedTask
  <2>4. inflight' \in [Tasks -> EntryRecord] /\ task' \in [Tasks -> TaskState]
    BY AbortWorkerType
  <2>5. suspendReq' \subseteq Tasks BY <2>3 DEF TypeOK
  <2> QED BY <2>1, <2>2, <2>4, <2>5, AnsweredType DEF TypeOK, runVars
<1> QED BY <1>1, <1>2, <1>3

(* queueFollowUp chooses a session that is a number.                        *)
LEMMA QueueFollowUpType ==
  ASSUME TypeOK, NEW t \in Tasks, NEW b, QueueFollowUp(t, b)
  PROVE followUps' \subseteq Tasks /\ session' \in [Tasks -> Nat]
<1>1. (IF b THEN 0 ELSE ResumableSession(t)) \in Nat BY ResumableSessionType
<1> QED BY <1>1 DEF QueueFollowUp, TypeOK

(* A prompt keeps every shape, as a follow-up and as a stop-and-continue.   *)
LEMMA PromptType ==
  ASSUME TypeOK, FollowUp \/ StopAndContinue PROVE TypeOK'
<1>1. CASE FollowUp
  <2> PICK w \in Handled : FollowUp!(w) BY <1>1 DEF FollowUp
  <2> DEFINE t == w.command.task
  <2>1. w \in WakeRecord /\ Tail(wake) \in Seq(WakeRecord) BY HeadOfQueue
  <2>2. t \in Tasks BY <2>1, ReportType, CommandType
  <2>3. followUps' \subseteq Tasks /\ session' \in [Tasks -> Nat]
    BY <2>2, QueueFollowUpType
  <2>4. task' \in [Tasks -> TaskState] BY DEF TypeOK, TaskState
  <2>5. window' \in [Tasks -> Nat \ {0}]
    <3>1. LastNumber(t) + 1 \in Nat \ {0} BY <2>2, LastNumberType
    <3> QED BY <3>1 DEF TypeOK
  <2>6. Answered /\ delayed' \subseteq Tasks
    BY DEF Answered, Goto, workVars, queueVars, TypeOK
  <2> QED
    BY <2>1, <2>3, <2>4, <2>5, <2>6, AnsweredType
    DEF TypeOK, Took, runVars, workVars, requestVars
<1>2. CASE StopAndContinue
  <2> PICK w \in Handled : StopAndContinue!(w) BY <1>2 DEF StopAndContinue
  <2>1. Answered /\ delayed' = delayed BY CommandedFrame
  <2>2. wake' \in Seq(WakeRecord) BY HeadOfQueue DEF Took
  <2>3. w.command.task \in Tasks BY CommandedTask
  <2>4. followUps' \subseteq Tasks /\ session' \in [Tasks -> Nat]
    BY <2>3, QueueFollowUpType
  <2>5. inflight' \in [Tasks -> EntryRecord] /\ task' \in [Tasks -> TaskState]
    BY AbortWorkerType
  <2>6. /\ cancelReq' \subseteq Tasks
        /\ restartOwed' \in [Tasks -> {"none", "edit", "message"}]
    BY <2>3 DEF TypeOK
  <2> QED BY <2>1, <2>2, <2>4, <2>5, <2>6, AnsweredType DEF TypeOK, runVars
<1> QED BY <1>1, <1>2

(* An edit keeps every shape, with and without its restart.                 *)
LEMMA EditType ==
  ASSUME TypeOK, EditNothing \/ EditTask PROVE TypeOK'
<1>1. CASE EditNothing
  <2> PICK w \in Handled : EditNothing!(w) BY <1>1 DEF EditNothing
  <2>1. Answered /\ delayed' = delayed BY CommandedFrame
  <2>2. wake' \in Seq(WakeRecord) BY HeadOfQueue DEF Took
  <2>3. w.command.task \in Tasks BY CommandedTask
  <2>4. /\ task' \in [Tasks -> TaskState] /\ window' \in [Tasks -> Nat \ {0}]
        /\ session' \in [Tasks -> Nat]
    <3>1. CASE Restart(w.command.task, FALSE) BY <2>3, <3>1, RestartType
    <3>2. CASE UNCHANGED <<task, window, session>> BY <3>2 DEF TypeOK
    <3> QED BY <3>1, <3>2
  <2>5. restartOwed' \in [Tasks -> {"none", "edit", "message"}]
    BY DEF TypeOK
  <2> QED BY <2>1, <2>2, <2>4, <2>5, AnsweredType DEF TypeOK, runVars
<1>2. CASE EditTask
  <2> PICK w \in Handled : EditTask!(w) BY <1>2 DEF EditTask
  <2> DEFINE t == w.command.task
  <2>1. Answered /\ delayed' = delayed BY CommandedFrame
  <2>2. wake' \in Seq(WakeRecord) BY HeadOfQueue DEF Took
  <2>3. t \in Tasks BY CommandedTask
  <2>4. revisions' \in [Tasks -> Nat] /\ session' \in [Tasks -> Nat]
    <3>1. revisions' = [revisions EXCEPT ![t] = @ + 1] /\ session' = [session EXCEPT ![t] = 0]
      OBVIOUS
    <3>2. revisions \in [Tasks -> Nat] /\ session \in [Tasks -> Nat] BY DEF TypeOK
    <3> QED BY <2>3, <3>1, <3>2
  <2>5. LastNumber(t) + 1 \in Nat \ {0} BY <2>3, LastNumberType
  <2>6. inflight' \in [Tasks -> EntryRecord] /\ task' \in [Tasks -> TaskState]
    <3>1. CASE AbortWorker(t) BY <3>1, AbortWorkerType
    <3>2. CASE UNCHANGED inflight
      <4>1. AbortWorker(t) \/ task' = task \/ task' = [task EXCEPT ![t] = "pending"] OBVIOUS
      <4>2. CASE AbortWorker(t) BY <4>2, AbortWorkerType
      <4>3. CASE task' = task \/ task' = [task EXCEPT ![t] = "pending"]
        BY <3>2, <4>3 DEF TypeOK, TaskState
      <4> QED BY <4>1, <4>2, <4>3
    <3> QED BY <3>1, <3>2
  <2>7. window' \in [Tasks -> Nat \ {0}]
    <3>1. window' = window \/ window' = [window EXCEPT ![t] = LastNumber(t) + 1] OBVIOUS
    <3> QED BY <3>1, <2>5 DEF TypeOK
  <2>8. /\ cancelReq' \subseteq Tasks
        /\ restartOwed' \in [Tasks -> {"none", "edit", "message"}]
    <3>1. \/ UNCHANGED <<cancelReq, restartOwed>>
          \/ cancelReq' = cancelReq \cup {t} /\ restartOwed' = [restartOwed EXCEPT ![t] = "edit"]
      OBVIOUS
    <3> QED BY <2>3, <3>1 DEF TypeOK
  <2> QED BY <2>1, <2>2, <2>4, <2>6, <2>7, <2>8, AnsweredType DEF TypeOK, runVars
<1> QED BY <1>1, <1>2

(* Parking, finalizing and resting keep every shape.                        *)
LEMMA ParkType ==
  ASSUME TypeOK, Park \/ Finalize \/ Rest PROVE TypeOK'
<1>1. CASE Park
  BY <1>1 DEF Park, Goto, TypeOK, runVars, taskVars, workVars, queueVars, requestVars, senderVars
<1>2. CASE Finalize
  <2>1. task' \in [Tasks -> TaskState] BY <1>2 DEF Finalize, TypeOK, TaskState
  <2>2. runState' \in RunState BY <1>2 DEF Finalize, RunState
  <2>3. timer' \in BOOLEAN BY <1>2 DEF Finalize
  <2>4. wake' \in Seq(WakeRecord) BY <1>2 DEF Finalize
  <2>6. unsettled' \subseteq unsettled BY <1>2 DEF Finalize
  <2>5. /\ pc' = "done"
        /\ UNCHANGED <<stop, hold, taskVars, workVars, seen, asking, requestVars, submitted,
                       cursor, focus>>
    BY <1>2 DEF Finalize, Goto
  <2> QED BY <2>1, <2>2, <2>3, <2>4, <2>5, <2>6 DEF TypeOK, taskVars, workVars, requestVars
<1>3. CASE Rest
  BY <1>3 DEF Rest, vars, TypeOK, runVars, taskVars, workVars, queueVars, requestVars,
              senderVars, loopVars
<1> QED BY <1>1, <1>2, <1>3

(* A worker keeps every shape while it runs and when it reports.            *)
LEMMA WorkerType ==
  ASSUME TypeOK, NEW t \in Tasks,
         WorkerReports(t) \/ ReportSession(t) \/ AskOperator(t) \/ AnswerOperator(t)
  PROVE TypeOK'
<1>1. CASE WorkerReports(t)
  <2> PICK o \in Outcomes : wake' = Append(wake, AttemptDone(t, inflight[t].attempt, o))
    BY <1>1, OptionsAssumption DEF WorkerReports, Pushes, Outcomes
  <2>1. inflight[t].attempt \in Nat BY DEF TypeOK, EntryRecord
  <2>2. AttemptDone(t, inflight[t].attempt, o) \in WakeRecord
    BY <2>1 DEF AttemptDone, WakeRecord
  <2>3. wake' \in Seq(WakeRecord) BY <2>2, PushedType
  <2>4. inflight' \in [Tasks -> EntryRecord]
    BY <1>1 DEF WorkerReports, TypeOK, EntryRecord
  <2> QED
    BY <1>1, <2>3, <2>4
    DEF WorkerReports, TypeOK, runVars, taskVars, queueVars, requestVars, senderVars, loopVars
<1>2. CASE ReportSession(t)
  <2> DEFINE s == attempts[t]
             p == Len(attempts[t])
  <2>1. s \in Seq(AttemptRecord) /\ p \in Nat /\ DOMAIN s = 1 .. p
    BY LenProperties DEF TypeOK
  <2>2. [s EXCEPT ![p].session = TRUE] \in Seq(AttemptRecord)
    <3>1. CASE p = 0
      <4>1. p \notin DOMAIN s BY <2>1, <3>1
      <4>2. [s EXCEPT ![p].session = TRUE] = s BY <2>1, <4>1
      <4> QED BY <2>1, <4>2
    <3>2. CASE p # 0
      <4>1. p \in 1 .. p BY <2>1, <3>2
      <4>2. s[p] \in AttemptRecord BY <2>1, <4>1, ElementOfSeq
      <4>3. [s[p] EXCEPT !.session = TRUE] \in AttemptRecord BY <4>2 DEF AttemptRecord
      <4> QED BY <2>1, <4>1, <4>3, ExceptSeq
    <3> QED BY <3>1, <3>2
  <2>3. attempts' = [attempts EXCEPT ![t] = [s EXCEPT ![p].session = TRUE]]
    BY <1>2 DEF ReportSession, TypeOK
  <2>4. attempts' \in [Tasks -> Seq(AttemptRecord)] BY <2>2, <2>3 DEF TypeOK
  <2> QED
    BY <1>2, <2>4
    DEF ReportSession, TypeOK, runVars, workVars, queueVars, requestVars, senderVars, loopVars
<1>3. CASE AskOperator(t)
  <2>1. task' \in [Tasks -> TaskState] BY <1>3 DEF AskOperator, TypeOK, TaskState
  <2> QED
    BY <1>3, <2>1
    DEF AskOperator, TypeOK, runVars, taskVars, workVars, queueVars, requestVars, senderVars, loopVars
<1>4. CASE AnswerOperator(t)
  <2>1. task' \in [Tasks -> TaskState] BY <1>4 DEF AnswerOperator, TypeOK, TaskState
  <2> QED
    BY <1>4, <2>1
    DEF AnswerOperator, TypeOK, runVars, taskVars, workVars, queueVars, requestVars, senderVars,
        loopVars
<1> QED BY <1>1, <1>2, <1>3, <1>4

(* The end of the workspace work of an attempt keeps every shape.           *)
LEMMA FinishCaptureType ==
  ASSUME TypeOK, NEW t \in Tasks, NEW f \in {"clean", "conflict", "lost"}, FinishCapture(t, f),
         tree' \in Seq(Tasks), swept' \subseteq Tasks
  PROVE TypeOK'
<1>1. inflight[t].attempt \in Nat BY DEF TypeOK, EntryRecord
<1>2. Finalized(t, inflight[t].attempt, f) \in WakeRecord
  BY <1>1 DEF Finalized, WakeRecord
<1>3. wake' \in Seq(WakeRecord) BY <1>2, PushedType DEF FinishCapture, Pushes
<1>4. inflight' \in [Tasks -> EntryRecord] BY DEF FinishCapture, TypeOK, EntryRecord
<1> QED
  BY <1>3, <1>4 DEF FinishCapture, TypeOK, runVars, queueVars, requestVars, senderVars, loopVars

(* The workspace work of an attempt keeps every shape.  Who waits for the   *)
(* tree is in its lock, so the lock that merging back releases has a head.  *)
LEMMA WorkspaceType ==
  ASSUME WorkInvariant, NEW t \in Tasks, Workspace(t) PROVE TypeOK'
<1>0. TypeOK /\ TreeOwned BY DEF WorkInvariant
<1>1. CASE QueueForTree(t)
  <2>1. inflight' \in [Tasks -> EntryRecord]
    BY <1>0, <1>1 DEF QueueForTree, TypeOK, EntryRecord
  <2>2. tree' \in Seq(Tasks) BY <1>0, <1>1 DEF QueueForTree, TypeOK
  <2> QED
    BY <1>0, <1>1, <2>1, <2>2
    DEF QueueForTree, TypeOK, runVars, taskVars, queueVars, requestVars, senderVars, loopVars
<1>2. CASE Capture(t)
  <2>1. tree' \in Seq(Tasks) /\ swept' \subseteq Tasks BY <1>0, <1>2 DEF Capture, TypeOK
  <2> QED BY <1>0, <1>2, <2>1, FinishCaptureType DEF Capture
<1>3. CASE CaptureThrows(t)
  <2>1. tree' \in Seq(Tasks) /\ swept' \subseteq Tasks BY <1>0, <1>3 DEF CaptureThrows, TypeOK
  <2> QED BY <1>0, <1>3, <2>1, FinishCaptureType DEF CaptureThrows
<1>4. CASE MergeBack(t)
  <2>1. InFlight(t) /\ inflight[t].phase = "queued" BY <1>4 DEF MergeBack, InFlight
  <2>2. t \in Range(tree) BY <1>0, <2>1 DEF TreeOwned
  <2>6. tree # <<>> BY <2>2 DEF Range
  <2>3. tree' \in Seq(Tasks)
    BY <1>0, <1>4, <2>6, HeadTailProperties DEF MergeBack, TypeOK
  <2>4. PICK fin \in {"clean", "conflict", "lost"} :
          /\ FinishCapture(t, fin)
          /\ swept' = swept \/ swept' = swept \cup {t}
    BY <1>4 DEF MergeBack
  <2>5. swept' \subseteq Tasks BY <1>0, <2>4 DEF TypeOK
  <2> QED BY <1>0, <2>3, <2>4, <2>5, FinishCaptureType
<1> QED BY <1>1, <1>2, <1>3, <1>4 DEF Workspace

(* Answers at a gate, time and submitted commands keep every shape.         *)
LEMMA WorldType ==
  ASSUME TypeOK,
         \/ \E t \in Tasks : AnswerGate(t) \/ BecomeDue(t)
         \/ TimerFires
         \/ \E c \in Commands : Submit(c)
  PROVE TypeOK'
<1>1. ASSUME NEW t \in Tasks, AnswerGate(t) PROVE TypeOK'
  <2>1. PICK w \in {Approval(t, "approved"), Approval(t, "rejected"), StopWake("wait", "pause")} :
          wake' = Append(wake, w)
    BY <1>1 DEF AnswerGate, Pushes
  <2>2. w \in WakeRecord BY DEF Approval, StopWake, WakeRecord
  <2>3. wake' \in Seq(WakeRecord) BY <2>1, <2>2, PushedType
  <2> QED
    BY <1>1, <2>3
    DEF AnswerGate, TypeOK, runVars, taskVars, workVars, requestVars, senderVars, loopVars
<1>2. ASSUME NEW t \in Tasks, BecomeDue(t) PROVE TypeOK'
  BY <1>2 DEF BecomeDue, TypeOK, runVars, workVars, queueVars, requestVars, senderVars, loopVars
<1>3. CASE TimerFires
  <2>1. RetryDue \in WakeRecord BY DEF RetryDue, WakeRecord
  <2>2. wake' \in Seq(WakeRecord) BY <1>3, <2>1, PushedType DEF TimerFires, Pushes
  <2>3. timer' \in BOOLEAN BY <1>3 DEF TimerFires
  <2> QED
    BY <1>3, <2>2, <2>3
    DEF TimerFires, TypeOK, runVars, taskVars, workVars, requestVars, senderVars, loopVars
<1>4. ASSUME NEW c \in Commands, Submit(c) PROVE TypeOK'
  <2>1. submitted + 1 \in 1 .. MaxControls /\ submitted' = submitted + 1
    BY <1>4, OptionsAssumption DEF Submit, TypeOK
  <2>2. Control(c, submitted + 1) \in WakeRecord BY <2>1 DEF Control, WakeRecord
  <2>3. wake' \in Seq(WakeRecord) BY <1>4, <2>2, PushedType DEF Submit, Pushes
  <2>4. submitted' \in 0 .. MaxControls /\ unsettled' \subseteq 1 .. MaxControls
    BY <1>4, <2>1 DEF Submit, TypeOK
  <2> QED
    BY <1>4, <2>3, <2>4
    DEF Submit, TypeOK, runVars, taskVars, workVars, queueVars, requestVars, loopVars
<1> QED BY <1>1, <1>2, <1>3, <1>4

-----------------------------------------------------------------------------
(* Together *)


(* A run that has just been created has the shape it keeps.                 *)
LEMMA TypingInit == Init => TypeOK
<1> SUFFICES ASSUME Init PROVE TypeOK
  OBVIOUS
<1>1. runState \in RunState /\ task \in [Tasks -> TaskState]
  BY DEF Init, RunState, TaskState
<1>2. attempts \in [Tasks -> Seq(AttemptRecord)]
  BY DEF Init
<1>3. /\ window \in [Tasks -> Nat \ {0}] /\ session \in [Tasks -> Nat] /\ revisions \in [Tasks -> Nat]
      /\ decided \in [Tasks -> {"none", "approved", "rejected"}]
      /\ restartOwed \in [Tasks -> {"none", "edit", "message"}]
  BY DEF Init
<1>4. /\ delayed \subseteq Tasks /\ followUps \subseteq Tasks /\ swept \subseteq Tasks
      /\ asking \subseteq Tasks /\ cancelReq \subseteq Tasks /\ suspendReq \subseteq Tasks
  BY DEF Init
<1>5. inflight \in [Tasks -> EntryRecord]
  BY DEF Init, NoEntry, EntryRecord
<1>6. /\ pendingMerges \in Seq([task : Tasks, attempt : Nat])
      /\ tree \in Seq(Tasks)
      /\ wake \in Seq(WakeRecord)
  BY DEF Init
<1>7. /\ timer \in BOOLEAN /\ seen \in BOOLEAN /\ hold \in BOOLEAN
      /\ stop \in StopRecord
  BY DEF Init, StopRecord
<1>8. submitted \in 0 .. MaxControls /\ unsettled \subseteq 1 .. MaxControls
  BY OptionsAssumption DEF Init
<1>9. focus \in FocusRecord /\ cursor \in Nat
  BY DEF Init, FocusRecord
<1> QED BY <1>1, <1>2, <1>3, <1>4, <1>5, <1>6, <1>7, <1>8, <1>9 DEF TypeOK, Init

(* Every step from a state of the inductive invariant keeps every shape.     *)
LEMMA TypingStep ==
  ASSUME WorkInvariant, [Next]_vars PROVE TypeOK'
<1>0. TypeOK BY DEF WorkInvariant
<1>1. CASE Startup BY <1>0, <1>1, StartupType
<1>2. CASE Promote BY <1>0, <1>2, PromoteType
<1>3. CASE LaunchWork BY <1>0, <1>3, LaunchWorkType
<1>4. CASE HandleWake
  BY <1>0, <1>4, HandleAttemptDoneType, HandleFinalizedType, OtherWakeType DEF HandleWake
<1>5. CASE ApplyOutcome BY <1>5, OutcomeType, SettleType DEF ApplyOutcome
<1>6. CASE HandleControl
  BY <1>0, <1>6, RunControlType, TaskControlType, PromptType, EditType DEF HandleControl
<1>7. CASE Park \/ Finalize \/ Rest BY <1>0, <1>7, ParkType
<1>8. CASE Environment BY <1>0, <1>8, WorkerType, WorkspaceType, WorldType DEF Environment
<1>9. CASE UNCHANGED vars
  BY <1>0, <1>9 DEF vars, TypeOK, runVars, taskVars, workVars, queueVars, requestVars, senderVars,
                    loopVars
<1> QED BY <1>1, <1>2, <1>3, <1>4, <1>5, <1>6, <1>7, <1>8, <1>9 DEF Next, Loop

=============================================================================
