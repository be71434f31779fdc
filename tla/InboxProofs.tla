---------------------------- MODULE InboxProofs ----------------------------
(***************************************************************************)
(* What is proved of the request inbox, for any set of requests, any number *)
(* of owners and any number of faults: a request is carried out at most     *)
(* once, and nothing of one owner's inbox reaches the next.                 *)
(***************************************************************************)
EXTENDS RequestInboxProperties, TLAPS, FiniteSetTheorems, SequenceTheorems,
        WellFoundedInduction

-----------------------------------------------------------------------------
(* The inductive invariant *)

(* What the bound on the faults is counted over stays finite. *)
FiniteFaults ==
  IsFiniteSet(resent) /\ IsFiniteSet(stuck) /\ IsFiniteSet(failed) /\ IsFiniteSet(lost)

(* An owner that has the run in its hands. *)
Active(p) == phase[p] \in {"clearing", "running", "ended"}

(* An owner starts when those before it have let go of the run. *)
HandedOver ==
  \A p \in Procs : phase[p] # "new" =>
    \A q \in 1 .. p - 1 : phase[q] \in {"released", "closing"} \cup Over

(* The loop handles a request while the run goes on, and a watcher takes    *)
(* none before.                                                             *)
HandlesWhileRunning(p) ==
  /\ at[p] \in {"asked", "recorded", "saved"} => phase[p] = "running"
  /\ phase[p] \in {"new", "clearing"} => at[p] = "rest" /\ batch[p] = {}
  /\ at[p] \in {"recorded", "saved", "settled", "written"} => reply[p] # "none"

(* What the owner remembers of the requests is what is saved, but for the   *)
(* decision it has just recorded.                                           *)
SeenIsSaved(p) ==
  Active(p) =>
    IF at[p] = "recorded" /\ Current(p) # StopJson
      THEN seen[p] = [saved EXCEPT ![Current(p)] = reply[p]]
      ELSE seen[p] = saved

(* The request that is handled was not decided before, and is not carried   *)
(* out before its decision is saved; nor answered as applied.               *)
HandledOnce(p) ==
  at[p] \notin {"rest", "drain"} /\ Current(p) # StopJson =>
    /\ at[p] \in {"asked", "recorded"} => saved[Current(p)] = "none"
    /\ at[p] = "saved" => saved[Current(p)] = reply[p] /\ carried[Current(p)] = <<>>
    /\ at[p] = "settled" /\ reply[p] = "applied" => saved[Current(p)] = "applied"

Careful(p) == HandlesWhileRunning(p) /\ SeenIsSaved(p) /\ HandledOnce(p)

OnceInvariant ==
  /\ TypeOK /\ FiniteFaults /\ HandedOver /\ AppliedOnce
  /\ \A p \in Procs : Careful(p)

(* What was written is what can be found, read or carried out. *)
Written ==
  /\ pending \subseteq sent /\ leftover \subseteq sent
  /\ \A p \in Procs : batch[p] \subseteq sent \cup {StopJson} /\ sweep[p] \subseteq sent
  /\ \A r \in Requests : carried[r] # <<>> => r \in sent

(* Until the newest owner begins its run, what it found is what it is about *)
(* to remove; from then on it is not there to be read.                      *)
LeftoverRemoved ==
  \A p \in Procs :
    /\ phase[p] = "clearing" => (leftover \ stuck) \cap pending \subseteq sweep[p]
    /\ phase[p] \in {"running", "ended"} => (leftover \ stuck) \cap (pending \cup batch[p]) = {}

(* A kill that was carried out is being answered, or was.                   *)
KillAnswered ==
  \A r \in Requests, p \in Procs :
    /\ KindOf[r] = "kill" /\ p \in Range(carried[r])
    /\ phase[p] # "crashed" /\ r \notin failed
    => \/ at[p] = "settled" /\ batch[p] # {} /\ Current(p) = r /\ phase[p] = "running"
       \/ ack[r] # "none" /\ r \notin pending \ (stuck \cup resent)

InboxInvariant == OnceInvariant /\ Written /\ LeftoverRemoved /\ KillAnswered

-----------------------------------------------------------------------------
(* Data *)

(* A batch of requests that is not empty has a smallest one.                *)
LEMMA MinOfNaturals ==
  ASSUME NEW S \in SUBSET Nat, S # {}
  PROVE Min(S) \in S
<1> DEFINE R == {ss \in Nat \X Nat : ss[1] < ss[2]}
<1>1. IsWellFoundedOn(R, Nat) BY NatLessThanWellFounded DEF OpToRel
<1>2. \E k \in S : \A y \in S : <<y, k>> \notin R
  <2> HIDE DEF R
  <2> QED BY <1>1, WFMin
<1>3. PICK k \in S : \A y \in S : ~(y < k) BY <1>2
<1>4. \A y \in S : k <= y BY <1>3
<1> QED BY <1>4 DEF Min

(* The request the watcher is at is one of its batch. *)
LEMMA CurrentType ==
  ASSUME TypeOK, NEW p \in Procs, batch[p] # {}
  PROVE /\ Current(p) \in batch[p]
        /\ Current(p) # StopJson => Current(p) \in Requests
<1>1. batch[p] \subseteq Requests \cup {StopJson} BY DEF TypeOK
<1>2. Requests \cup {StopJson} \subseteq Nat BY RequestsAssumption DEF StopJson
<1>3. batch[p] \in SUBSET Nat BY <1>1, <1>2
<1> QED BY <1>1, <1>3, MinOfNaturals DEF Current

(* The request the sweep is at is one of those it has read. *)
LEMMA SweepType ==
  ASSUME TypeOK, NEW p \in Procs, sweep[p] # {}
  PROVE Min(sweep[p]) \in sweep[p] /\ Min(sweep[p]) \in Requests
<1>1. sweep[p] \in SUBSET Nat /\ sweep[p] \subseteq Requests
  BY RequestsAssumption DEF TypeOK
<1> QED BY <1>1, MinOfNaturals

(* The number of the faults so far is a number. *)
LEMMA TroubleCount ==
  ASSUME TypeOK, FiniteFaults
  PROVE MoreTrouble => stops + 1 \in 0 .. MaxTroubles
<1>1. /\ Cardinality(resent) \in Nat /\ Cardinality(stuck) \in Nat
      /\ Cardinality(failed) \in Nat /\ Cardinality(lost) \in Nat
  BY FS_CardinalityType DEF FiniteFaults
<1>2. stops \in Nat /\ MaxTroubles \in Nat BY RequestsAssumption DEF TypeOK
<1> QED BY <1>1, <1>2 DEF MoreTrouble

(* A deletion leaves a subset of the files, and marks at most one. *)
LEMMA DeleteType ==
  ASSUME TypeOK, FiniteFaults, NEW r \in Requests \cup {StopJson}, Delete(r)
  PROVE /\ pending' \subseteq Requests
        /\ stuck' \subseteq Requests \cup {StopJson} /\ IsFiniteSet(stuck')
<1>1. CASE UNCHANGED stuck BY <1>1 DEF TypeOK, FiniteFaults, Delete
<1>2. CASE stuck' = stuck \cup {r}
  <2>1. IsFiniteSet(stuck') BY <1>2, FS_AddElement DEF FiniteFaults
  <2> QED BY <1>2, <2>1 DEF TypeOK, Delete
<1> QED BY <1>1, <1>2 DEF Delete

(* What an owner's memory is when it has left. *)
LEMMA LeaveType ==
  ASSUME TypeOK, NEW p \in Procs, NEW how \in {"gone", "killed", "crashed"}, Leave(p, how)
  PROVE /\ phase' \in [Procs -> {"new", "clearing", "running", "ended",
                          "released", "closing", "gone", "killed", "crashed"}]
        /\ seen' \in [Procs -> [Requests -> Statuses]]
        /\ stopping' \in [Procs -> BOOLEAN] /\ stopSeen' \in [Procs -> BOOLEAN]
        /\ killing' \in [Procs -> BOOLEAN] /\ swept' \in [Procs -> BOOLEAN]
        /\ at' \in [Procs -> {"rest", "drain", "asked", "recorded", "saved",
                             "settled", "written"}]
        /\ batch' \in [Procs -> SUBSET (Requests \cup {StopJson})]
        /\ reply' \in [Procs -> Statuses]
        /\ answered' \in [Procs -> SUBSET Requests] /\ sweep' \in [Procs -> SUBSET Requests]
        /\ \A q \in Procs : at'[q] \notin {"rest", "drain"} => batch'[q] # {}
        /\ \A q \in Procs : swept'[q] => phase'[q] \in {"clearing", "closing"} /\ sweep'[q] # {}
  BY DEF TypeOK, Leave, Blank, Statuses

-----------------------------------------------------------------------------
(* Every step keeps the shape of the variables *)

(* The senders write requests that exist, and no more than the bound. *)
LEMMA SendType ==
  ASSUME TypeOK, FiniteFaults, Send PROVE TypeOK' /\ FiniteFaults'
<1>1. CASE WriteStopFile
  <2>1. stops' \in 0 .. MaxTroubles BY <1>1, TroubleCount DEF WriteStopFile
  <2> QED BY <1>1, <2>1
    DEF WriteStopFile, TypeOK, FiniteFaults, run, watcher, sweeper, faults, history
<1>2. ASSUME NEW r \in Requests, Write(r) PROVE TypeOK' /\ FiniteFaults'
  BY <1>2 DEF Write, TypeOK, FiniteFaults, run, watcher, sweeper, faults, history
<1>3. ASSUME NEW r \in Requests, Resend(r) PROVE TypeOK' /\ FiniteFaults'
  <2>1. IsFiniteSet(resent') BY <1>3, FS_AddElement DEF Resend, FiniteFaults
  <2> QED BY <1>3, <2>1
    DEF Resend, TypeOK, FiniteFaults, run, watcher, sweeper, faults
<1> QED BY <1>1, <1>2, <1>3 DEF Send

(* So do what starts and ends an owner, *)
LEMMA MainType ==
  ASSUME TypeOK, FiniteFaults, NEW p \in Procs,
         Start(p) \/ Main(p) \/ Finish(p) \/ ForceExit(p) \/ Crash(p)
  PROVE TypeOK' /\ FiniteFaults'
<1>1. CASE Start(p)
  BY <1>1 DEF Start, OpenSweep, Readable, TypeOK, FiniteFaults, watcher, senders, faults
<1>2. CASE Close(p)
  BY <1>2 DEF Close, OpenSweep, Readable, TypeOK, FiniteFaults, watcher, senders, faults, history
<1>3. CASE RejectLeftover(p)
  <2> DEFINE r == Min(sweep[p])
  <2>1. r \in Requests BY <1>3, SweepType DEF RejectLeftover
  <2>2. ack' \in [Requests -> Statuses] BY <1>3, <2>1 DEF RejectLeftover, TypeOK, Statuses
  <2>3. lost' \subseteq Requests /\ IsFiniteSet(lost')
    <3>1. IsFiniteSet(lost \cup {r}) BY FS_AddElement DEF FiniteFaults
    <3> QED BY <1>3, <2>1, <3>1 DEF RejectLeftover, TypeOK, FiniteFaults
  <2>4. /\ swept' \in [Procs -> BOOLEAN]
        /\ \A q \in Procs : swept'[q] => phase'[q] \in {"clearing", "closing"} /\ sweep'[q] # {}
    BY <1>3 DEF RejectLeftover, TypeOK, run
  <2> QED BY <1>3, <2>2, <2>3, <2>4
    DEF RejectLeftover, TypeOK, FiniteFaults, run, watcher, senders, history
<1>4. CASE RemoveLeftover(p)
  <2> DEFINE r == Min(sweep[p])
  <2>1. r \in Requests BY <1>4, SweepType DEF RemoveLeftover, TypeOK
  <2>2. Delete(r) BY <1>4 DEF RemoveLeftover
  <2>3. /\ pending' \subseteq Requests
        /\ stuck' \subseteq Requests \cup {StopJson} /\ IsFiniteSet(stuck')
    BY <2>1, <2>2, DeleteType
  <2>4. /\ sweep' \in [Procs -> SUBSET Requests] /\ swept' \in [Procs -> BOOLEAN]
        /\ \A q \in Procs : swept'[q] => phase'[q] \in {"clearing", "closing"} /\ sweep'[q] # {}
    BY <1>4 DEF RemoveLeftover, TypeOK, run
  <2> QED BY <1>4, <2>3, <2>4
    DEF RemoveLeftover, TypeOK, FiniteFaults, run, watcher, senders, history
<1>5. CASE BeginRun(p) \/ Finish(p)
  BY <1>5 DEF BeginRun, Finish, TypeOK, FiniteFaults, disk, watcher, sweeper, senders, faults,
              history
<1>6. CASE Release(p)
  BY <1>6 DEF Release, Blank, Statuses, TypeOK, FiniteFaults, watcher, sweeper, senders, faults,
              history
<1>7. ASSUME NEW how \in {"gone", "killed", "crashed"}, Leave(p, how),
             saved' \in {saved, seen[p]}, UNCHANGED <<pending, ack, stopFile, senders, faults, history>>
      PROVE TypeOK' /\ FiniteFaults'
  <2>1. saved' \in [Requests -> Statuses] BY <1>7 DEF TypeOK
  <2> QED BY <1>7, <2>1, LeaveType DEF TypeOK, FiniteFaults, senders, faults, history
<1>8. CASE EndProcess(p) BY <1>7, <1>8 DEF EndProcess, disk
<1>9. CASE ForceExit(p) BY <1>7, <1>9 DEF ForceExit, Exit
<1>10. CASE Crash(p) BY <1>7, <1>10 DEF Crash
<1> QED BY <1>1, <1>2, <1>3, <1>4, <1>5, <1>6, <1>8, <1>9, <1>10 DEF Main

(* and the watcher and the loop it waits for. *)
LEMMA WatchType ==
  ASSUME TypeOK, FiniteFaults, NEW p \in Procs, Watch(p)
  PROVE TypeOK' /\ FiniteFaults'
<1> DEFINE r == Current(p)
<1>a. ASSUME batch[p] # {} PROVE r \in Requests \cup {StopJson} /\ (r # StopJson => r \in Requests)
  BY <1>a, CurrentType
<1>b. ASSUME r \in Requests \cup {StopJson}, Delete(r)
      PROVE /\ pending' \subseteq Requests
            /\ stuck' \subseteq Requests \cup {StopJson} /\ IsFiniteSet(stuck')
  BY <1>b, DeleteType
<1>c. ASSUME r # StopJson => r \in Requests, Acknowledge(p) PROVE ack' \in [Requests -> Statuses]
  BY <1>c DEF Acknowledge, TypeOK
<1>d. ASSUME r \in Requests \cup {StopJson}, Remember(p)
      PROVE answered' \in [Procs -> SUBSET Requests]
  BY <1>d DEF Remember, TypeOK
<1>1. CASE Tick(p)
  BY <1>1 DEF Tick, Readable, TypeOK, FiniteFaults, run, sweeper, senders, faults, history
<1>8. CASE TakeStopFile(p)
  <2>1. /\ batch' \in [Procs -> SUBSET (Requests \cup {StopJson})]
        /\ \A q \in Procs : at'[q] \notin {"rest", "drain"} => batch'[q] # {}
    BY <1>8 DEF TakeStopFile, TypeOK
  <2> QED BY <1>8, <2>1
    DEF TakeStopFile, TypeOK, FiniteFaults, run, sweeper, senders, faults, history
<1>9. CASE EndTick(p)
  BY <1>9 DEF EndTick, TypeOK, FiniteFaults, disk, run, sweeper, senders, faults, history
<1>2. CASE Drop(p)
  <2>1. batch[p] # {} /\ Delete(r) /\ at[p] = "drain" BY <1>2 DEF Drop
  <2> QED BY <1>2, <2>1, <1>a, <1>b
    DEF Drop, TypeOK, FiniteFaults, run, sweeper, senders, faults, history
<1>3. CASE Ask(p)
  <2>1. batch[p] # {} BY <1>3 DEF Ask
  <2>2. Prior(p, r) \in Statuses BY <2>1, <1>a DEF Prior, TypeOK, Statuses
  <2>3. reply' \in [Procs -> Statuses] /\ killing' \in [Procs -> BOOLEAN]
    BY <1>3, <2>2 DEF Ask, TypeOK, Statuses
  <2>4. /\ at' \in [Procs -> {"rest", "drain", "asked", "recorded", "saved", "settled", "written"}]
        /\ \A q \in Procs : at'[q] \notin {"rest", "drain"} => batch'[q] # {}
    BY <1>3, <2>1 DEF Ask, TypeOK
  <2> QED BY <1>3, <2>3, <2>4
    DEF Ask, TypeOK, FiniteFaults, disk, run, sweeper, senders, faults, history
<1>4. CASE AnswerKill(p)
  <2>1. batch[p] # {} BY <1>4 DEF AnswerKill, Answering, TypeOK
  <2>2. Delete(r) /\ Acknowledge(p) /\ Remember(p) BY <1>4 DEF AnswerKill
  <2>3. ack' \in [Requests -> Statuses] /\ answered' \in [Procs -> SUBSET Requests]
    BY <2>1, <2>2, <1>a, <1>c, <1>d
  <2>4. /\ pending' \subseteq Requests
        /\ stuck' \subseteq Requests \cup {StopJson} /\ IsFiniteSet(stuck')
    BY <2>1, <2>2, <1>a, <1>b
  <2> QED BY <1>4, <2>3, <2>4
    DEF AnswerKill, Statuses, TypeOK, FiniteFaults, run, sweeper, senders, history
<1>5. CASE Answer(p)
  <2>1. batch[p] # {} BY <1>5 DEF Answer, TypeOK
  <2>2. Acknowledge(p) /\ Remember(p) BY <1>5 DEF Answer
  <2>3. ack' \in [Requests -> Statuses] /\ answered' \in [Procs -> SUBSET Requests]
    BY <2>1, <2>2, <1>a, <1>c, <1>d
  <2> QED BY <1>5, <2>1, <2>3
    DEF Answer, TypeOK, FiniteFaults, run, sweeper, senders, faults, history
<1>6. CASE AnswerFails(p)
  <2>1. r \in Requests \cup {StopJson} BY <1>6, <1>a DEF AnswerFails, TypeOK
  <2>2. IsFiniteSet(failed') BY <1>6, FS_AddElement DEF AnswerFails, FiniteFaults
  <2> QED BY <1>6, <2>1, <2>2
    DEF AnswerFails, Statuses, TypeOK, FiniteFaults, disk, run, sweeper, senders, history
<1>7. CASE Consume(p)
  <2>1. batch[p] # {} BY <1>7 DEF Consume, TypeOK
  <2>2. Delete(r) BY <1>7 DEF Consume
  <2>3. /\ pending' \subseteq Requests
        /\ stuck' \subseteq Requests \cup {StopJson} /\ IsFiniteSet(stuck')
    BY <2>1, <2>2, <1>a, <1>b
  <2>4. CASE Exit(p)
    <3>1. saved' \in [Requests -> Statuses] /\ Leave(p, "killed") BY <2>4 DEF Exit, TypeOK
    <3>2. UNCHANGED <<ack, stopFile, senders, failed, lost, history>> BY <1>7 DEF Consume
    <3> QED BY <2>3, <3>1, <3>2, LeaveType DEF TypeOK, FiniteFaults, senders, history
  <2>5. CASE ~(reply[p] = "applied" /\ Kind(p) = "stop" /\ stopSeen[p])
    <3>1. /\ stopSeen' \in [Procs -> BOOLEAN]
          /\ UNCHANGED <<saved, run, answered, killing, sweeper>>
          /\ at' = [at EXCEPT ![p] = "drain"]
          /\ batch' = [batch EXCEPT ![p] = @ \ {r}]
          /\ reply' = [reply EXCEPT ![p] = "none"]
          /\ UNCHANGED <<ack, stopFile, senders, failed, lost, history>>
      BY <1>7, <2>5 DEF Consume, TypeOK
    <3> QED BY <2>3, <3>1
      DEF Statuses, TypeOK, FiniteFaults, run, sweeper, senders, history
  <2> QED BY <1>7, <2>4, <2>5 DEF Consume
<1> QED BY <1>1, <1>2, <1>3, <1>4, <1>5, <1>6, <1>7, <1>8, <1>9 DEF Watch

(* Reading, deciding, saving and carrying out a request keep the types. *)
LEMMA HandleType ==
  ASSUME TypeOK, FiniteFaults, NEW p \in Procs, Handle(p)
  PROVE TypeOK' /\ FiniteFaults'
<1> DEFINE r == Current(p)
<1>1. batch[p] # {} BY DEF Handle, Decide, Save, CarryOut, TypeOK
<1>2. r # StopJson => r \in Requests BY <1>1, CurrentType
<1>3. CASE Decide(p)
  <2>1. PICK status \in Statuses :
          /\ reply' = [reply EXCEPT ![p] = status]
          /\ seen' = [seen EXCEPT ![p] = IF r = StopJson THEN @ ELSE [@ EXCEPT ![r] = status]]
    BY <1>3 DEF Decide, Statuses
  <2>2. seen' \in [Procs -> [Requests -> Statuses]] BY <2>1, <1>2 DEF TypeOK
  <2> QED BY <1>1, <1>3, <2>1, <2>2
    DEF Decide, TypeOK, FiniteFaults, disk, sweeper, senders, faults, history
<1>4. CASE Save(p)
  BY <1>1, <1>4 DEF Save, TypeOK, FiniteFaults, run, sweeper, senders, faults, history
<1>5. CASE CarryOut(p)
  <2>1. carried' \in [Requests -> Seq(Procs)]
    <3>1. CASE UNCHANGED carried BY <3>1 DEF TypeOK
    <3>2. CASE r # StopJson /\ carried' = [carried EXCEPT ![r] = Append(@, p)]
      <4>1. carried[r] \in Seq(Procs) BY <1>2, <3>2 DEF TypeOK
      <4>2. Append(carried[r], p) \in Seq(Procs) BY <4>1, AppendProperties
      <4> QED BY <3>2, <4>2 DEF TypeOK
    <3> QED BY <1>5, <3>1, <3>2 DEF CarryOut
  <2> QED BY <1>1, <1>5, <2>1
    DEF CarryOut, TypeOK, FiniteFaults, disk, sweeper, senders, faults
<1> QED BY <1>3, <1>4, <1>5 DEF Handle

(* Each of the steps of Next is one of these. *)
LEMMA NextSteps ==
  ASSUME [Next]_vars
  PROVE \/ Send \/ UNCHANGED vars
        \/ \E p \in Procs : \/ Start(p) \/ Main(p) \/ Finish(p) \/ ForceExit(p) \/ Crash(p)
                            \/ Watch(p) \/ Handle(p)
  BY DEF Next, Rest

(* The types hold when the process has not started. *)
LEMMA InboxTypeInit == Init => TypeOK /\ FiniteFaults
<1> SUFFICES ASSUME Init PROVE TypeOK /\ FiniteFaults OBVIOUS
<1>1. FiniteFaults BY FS_EmptySet DEF Init, FiniteFaults
<1>2. ack \in [Requests -> Statuses] /\ saved \in [Requests -> Statuses] BY DEF Init, Statuses
<1>3. seen \in [Procs -> [Requests -> Statuses]] BY <1>2 DEF Init
<1>4. /\ stopping \in [Procs -> BOOLEAN] /\ stopSeen \in [Procs -> BOOLEAN]
      /\ killing \in [Procs -> BOOLEAN] /\ swept \in [Procs -> BOOLEAN]
      /\ \A p \in Procs : ~swept[p]
  BY DEF Init
<1>5. /\ answered \in [Procs -> SUBSET Requests] /\ sweep \in [Procs -> SUBSET Requests]
      /\ batch \in [Procs -> SUBSET (Requests \cup {StopJson})]
  BY DEF Init
<1>6. carried \in [Requests -> Seq(Procs)] BY DEF Init
<1>7. stops \in 0 .. MaxTroubles BY RequestsAssumption DEF Init
<1> QED BY <1>1, <1>2, <1>3, <1>4, <1>5, <1>6, <1>7 DEF Init, TypeOK, Statuses

(* Every step keeps the types. *)
LEMMA InboxTypeStep ==
  ASSUME TypeOK, FiniteFaults, [Next]_vars
  PROVE TypeOK' /\ FiniteFaults'
<1>1. CASE UNCHANGED vars
  BY <1>1 DEF TypeOK, FiniteFaults, vars, disk, run, watcher, sweeper, senders, faults, history
<1> QED BY <1>1, NextSteps, SendType, MainType, WatchType, HandleType

(* No step of the watcher, of the loop, of the sweeps or of a sender leaves *)
(* a variable without its shape, and the counted faults stay in bounds.     *)
THEOREM InboxTypeCorrect == Spec => []TypeOK
<1>1. Init => TypeOK /\ FiniteFaults BY InboxTypeInit
<1>2. TypeOK /\ FiniteFaults /\ [Next]_vars => (TypeOK /\ FiniteFaults)' BY InboxTypeStep
<1> QED BY <1>1, <1>2, PTL DEF Spec

-----------------------------------------------------------------------------
(* A request is carried out once *)

(* At most one owner has the run in its hands. *)
LEMMA OneActive ==
  ASSUME TypeOK, HandedOver, NEW p \in Procs, NEW q \in Procs, Active(p), Active(q)
  PROVE p = q
<1>1. ASSUME NEW a \in Procs, NEW b \in Procs, Active(a), Active(b) PROVE ~(a < b)
  <2>1. a < b => a \in 1 .. b - 1 BY RequestsAssumption DEF Procs
  <2>2. phase[b] # "new" /\ phase[a] \notin {"released", "closing"} \cup Over
    BY <1>1 DEF Active, Over
  <2> QED BY <2>1, <2>2 DEF HandedOver
<1>2. ~(p < q) /\ ~(q < p) BY <1>1
<1> QED BY <1>2, RequestsAssumption DEF Procs

(* No owner starts before the ones before it have let go, and what is let   *)
(* go of is not taken back.                                                 *)
LEMMA HandedOverStep ==
  ASSUME TypeOK, HandedOver, NEW p \in Procs,
         \A q \in Procs \ {p} : phase'[q] = phase[q],
         \/ phase'[p] = phase[p]
         \/ phase'[p] \in {"released", "closing"} \cup Over /\ phase[p] # "new"
         \/ phase[p] = "clearing" /\ phase'[p] = "running"
         \/ phase[p] = "running" /\ phase'[p] = "ended"
         \/ phase[p] = "new" /\ \A q \in 1 .. p - 1 : phase[q] \in {"released", "closing"} \cup Over
  PROVE HandedOver'
<1> SUFFICES ASSUME NEW a \in Procs, phase'[a] # "new", NEW b \in 1 .. a - 1
             PROVE phase'[b] \in {"released", "closing"} \cup Over
  BY DEF HandedOver
<1>1. b \in Procs /\ b # a BY RequestsAssumption DEF Procs
<1>2. CASE phase[a] # "new"
  <2>1. phase[b] \in {"released", "closing"} \cup Over BY <1>2 DEF HandedOver
  <2> QED BY <1>1, <2>1 DEF Over
<1>3. CASE phase[a] = "new"
  <2>1. a = p BY <1>3
  <2>2. \A q \in 1 .. p - 1 : phase[q] \in {"released", "closing"} \cup Over
    BY <1>3, <2>1 DEF Over
  <2> QED BY <1>1, <2>1, <2>2
<1> QED BY <1>2, <1>3

(* What is saved of a request that was decided does not change. *)
SavedGrows == \A r \in Requests : saved[r] # "none" => saved'[r] = saved[r]

(* Saving a decision changes none that was saved before (handleControl). *)
LEMMA SaveGrows ==
  ASSUME OnceInvariant, NEW p \in Procs, Active(p), saved' = seen[p]
  PROVE SavedGrows
<1>1. TypeOK /\ SeenIsSaved(p) /\ HandledOnce(p) BY DEF OnceInvariant, Careful
<1>2. CASE at[p] = "recorded" /\ Current(p) # StopJson
  <2>1. saved[Current(p)] = "none" BY <1>1, <1>2 DEF HandledOnce
  <2>2. saved' = [saved EXCEPT ![Current(p)] = reply[p]] BY <1>1, <1>2 DEF SeenIsSaved
  <2> QED BY <1>1, <2>1, <2>2 DEF TypeOK, SavedGrows
<1>3. CASE ~(at[p] = "recorded" /\ Current(p) # StopJson)
  BY <1>1, <1>3 DEF SeenIsSaved, SavedGrows
<1> QED BY <1>2, <1>3

(* What an owner does with the run in its hands is nothing to the others.   *)
LEMMA Bystander ==
  ASSUME OnceInvariant, NEW p \in Procs, NEW q \in Procs \ {p},
         /\ phase'[q] = phase[q] /\ seen'[q] = seen[q] /\ at'[q] = at[q]
         /\ batch'[q] = batch[q] /\ reply'[q] = reply[q],
         \/ UNCHANGED <<saved, carried>>
         \/ Active(p) /\ saved' \in {saved, seen[p]}
  PROVE Careful(q)'
<1>1. Careful(q) /\ TypeOK BY DEF OnceInvariant
<1>2. Current(q)' = Current(q) BY DEF Current
<1>3. CASE UNCHANGED <<saved, carried>>
  BY <1>1, <1>2, <1>3 DEF Careful, HandlesWhileRunning, SeenIsSaved, HandledOnce, Active
<1>4. CASE Active(p) /\ saved' \in {saved, seen[p]}
  <2>1. ~Active(q) BY <1>4, OneActive DEF OnceInvariant
  <2>2. SavedGrows BY <1>4, SaveGrows DEF SavedGrows
  <2>3. at[q] \notin {"asked", "recorded", "saved"}
    BY <1>1, <2>1 DEF Careful, HandlesWhileRunning, Active
  <2>4. at[q] \notin {"rest", "drain"} /\ Current(q) # StopJson => Current(q) \in Requests
    BY <1>1, CurrentType DEF TypeOK
  <2>5. HandlesWhileRunning(q)' BY <1>1 DEF Careful, HandlesWhileRunning
  <2>6. SeenIsSaved(q)' BY <2>1 DEF SeenIsSaved, Active
  <2>7. HandledOnce(q)' BY <1>1, <1>2, <2>2, <2>3, <2>4 DEF Careful, HandledOnce, SavedGrows
  <2> QED BY <2>5, <2>6, <2>7 DEF Careful
<1> QED BY <1>3, <1>4

(* Nothing is carried out, or answered as applied, that was not.            *)
LEMMA OnceKept ==
  ASSUME OnceInvariant, SavedGrows, UNCHANGED carried,
         \A r \in Requests : ack'[r] = "applied" => ack[r] = "applied" \/ saved'[r] = "applied"
  PROVE AppliedOnce'
  BY DEF OnceInvariant, AppliedOnce, SavedGrows

(* An owner that has left handles nothing, whether or not it saved the run. *)
LEMMA LeftOnce ==
  ASSUME OnceInvariant, TypeOK', FiniteFaults', NEW p \in Procs, NEW how \in Over, Leave(p, how),
         phase[p] # "new",
         \A r \in Requests : ack'[r] = "applied" => ack[r] = "applied" \/ saved'[r] = "applied",
         UNCHANGED carried, saved' = saved \/ (Active(p) /\ saved' = seen[p])
  PROVE OnceInvariant'
<1>1. TypeOK /\ HandedOver BY DEF OnceInvariant
<1>2. /\ phase'[p] = how /\ at'[p] = "rest" /\ batch'[p] = {}
      /\ \A q \in Procs \ {p} :
           /\ phase'[q] = phase[q] /\ seen'[q] = seen[q] /\ at'[q] = at[q]
           /\ batch'[q] = batch[q] /\ reply'[q] = reply[q]
  BY <1>1 DEF Leave, TypeOK
<1>3. HandedOver' BY <1>1, <1>2, HandedOverStep
<1>4. SavedGrows BY SaveGrows DEF SavedGrows
<1>5. \A q \in Procs \ {p} : Careful(q)' BY <1>2, Bystander
<1>6. AppliedOnce' BY <1>4, OnceKept
<1>7. Careful(p)'
  BY <1>2 DEF Careful, HandlesWhileRunning, SeenIsSaved, HandledOnce, Active, Over
<1> QED BY <1>3, <1>5, <1>6, <1>7 DEF OnceInvariant

(* The steps of the owner's process. *)
LEMMA OnceMain ==
  ASSUME OnceInvariant, TypeOK', FiniteFaults', NEW p \in Procs,
         Start(p) \/ Main(p) \/ Finish(p) \/ ForceExit(p) \/ Crash(p)
  PROVE OnceInvariant'
<1> USE DEF OnceInvariant
<1>0. Careful(p) BY DEF OnceInvariant
<1>1. CASE Start(p) \/ Close(p) \/ RejectLeftover(p) \/ RemoveLeftover(p) \/ BeginRun(p) \/ Finish(p)
  <2>1. /\ UNCHANGED <<saved, carried, at, batch, reply>>
        /\ \A q \in Procs \ {p} : phase'[q] = phase[q] /\ seen'[q] = seen[q]
    BY <1>1 DEF Start, Close, OpenSweep, RejectLeftover, RemoveLeftover, BeginRun, Finish, TypeOK,
                disk, run, watcher, senders, faults, history
  <2>2. HandedOver'
    <3>1. \/ phase'[p] = phase[p]
          \/ phase'[p] \in {"released", "closing"} \cup Over /\ phase[p] # "new"
          \/ phase[p] = "clearing" /\ phase'[p] = "running"
          \/ phase[p] = "running" /\ phase'[p] = "ended"
          \/ phase[p] = "new" /\ \A q \in 1 .. p - 1 : phase[q] \in {"released", "closing"} \cup Over
      BY <1>1 DEF Start, Close, OpenSweep, RejectLeftover, RemoveLeftover, BeginRun, Finish, TypeOK,
                  run
    <3> QED BY <2>1, <3>1, HandedOverStep
  <2>3. \A q \in Procs \ {p} : Careful(q)' BY <2>1, Bystander
  <2>4. AppliedOnce'
    <3>1. \A r \in Requests : ack'[r] = "applied" => ack[r] = "applied"
      BY <1>1 DEF Start, Close, RejectLeftover, RemoveLeftover, BeginRun, Finish, TypeOK, disk
    <3> QED BY <2>1, <3>1, OnceKept DEF SavedGrows
  <2>5. Careful(p)'
    <3>1. Current(p)' = Current(p) BY <2>1 DEF Current
    <3>2. CASE Start(p)
      <4>1. phase'[p] = "clearing" /\ phase[p] = "new" /\ seen'[p] = saved
        BY <3>2 DEF Start, OpenSweep, TypeOK
      <4>2. at[p] = "rest" /\ batch[p] = {} BY <1>0, <4>1 DEF Careful, HandlesWhileRunning
      <4> QED BY <2>1, <4>1, <4>2 DEF Careful, HandlesWhileRunning, SeenIsSaved, HandledOnce
    <3>3. CASE Close(p)
      <4>1. phase'[p] = "closing" /\ phase[p] = "released" BY <3>3 DEF Close, OpenSweep, TypeOK
      <4> QED BY <1>0, <2>1, <3>1, <4>1
          DEF Careful, HandlesWhileRunning, SeenIsSaved, HandledOnce, Active
    <3>4. CASE RejectLeftover(p) \/ RemoveLeftover(p)
      <4>1. UNCHANGED <<phase, seen>> BY <3>4 DEF RejectLeftover, RemoveLeftover, run
      <4> QED BY <1>0, <2>1, <3>1, <4>1
          DEF Careful, HandlesWhileRunning, SeenIsSaved, HandledOnce, Active
    <3>5. CASE BeginRun(p)
      <4>1. phase'[p] = "running" /\ phase[p] = "clearing" /\ seen' = seen
        BY <3>5 DEF BeginRun, TypeOK
      <4> QED BY <1>0, <2>1, <3>1, <4>1
          DEF Careful, HandlesWhileRunning, SeenIsSaved, HandledOnce, Active
    <3>6. CASE Finish(p)
      <4>1. /\ phase'[p] = "ended" /\ phase[p] = "running" /\ seen' = seen
            /\ at[p] \notin {"asked", "recorded", "saved"}
        BY <3>6 DEF Finish, TypeOK
      <4> QED BY <1>0, <2>1, <3>1, <4>1
          DEF Careful, HandlesWhileRunning, SeenIsSaved, HandledOnce, Active
    <3> QED BY <1>1, <3>2, <3>3, <3>4, <3>5, <3>6
  <2> QED BY <2>2, <2>3, <2>4, <2>5
<1>2. CASE Release(p)
  <2>1. /\ phase[p] = "ended" /\ phase'[p] = "released" /\ saved' = seen[p]
        /\ UNCHANGED <<ack, carried, at, batch, reply>>
        /\ \A q \in Procs \ {p} : phase'[q] = phase[q] /\ seen'[q] = seen[q]
    BY <1>2 DEF Release, TypeOK, watcher, history
  <2>2. HandedOver' BY <2>1, HandedOverStep
  <2>3. Active(p) /\ SavedGrows BY <2>1, SaveGrows DEF Active
  <2>4. \A q \in Procs \ {p} : Careful(q)' BY <2>1, <2>3, Bystander
  <2>5. AppliedOnce' BY <2>1, <2>3, OnceKept
  <2>6. Careful(p)'
    <3>1. Current(p)' = Current(p) BY <2>1 DEF Current
    <3>2. at[p] \notin {"rest", "drain"} /\ Current(p) # StopJson => Current(p) \in Requests
      BY CurrentType DEF TypeOK
    <3> QED BY <1>0, <2>1, <2>3, <3>1, <3>2
        DEF Careful, HandlesWhileRunning, SeenIsSaved, HandledOnce, Active, SavedGrows
  <2> QED BY <2>2, <2>4, <2>5, <2>6
<1>3. ASSUME NEW how \in Over, Leave(p, how), phase[p] # "new", UNCHANGED <<ack, carried>>,
             saved' = saved \/ (Active(p) /\ saved' = seen[p])
      PROVE OnceInvariant'
  BY <1>3, LeftOnce
<1>4. CASE EndProcess(p) BY <1>3, <1>4 DEF EndProcess, disk, history, Over
<1>5. CASE ForceExit(p) BY <1>3, <1>5 DEF ForceExit, Exit, history, Over, Active, Alive
<1>6. CASE Crash(p) BY <1>3, <1>6 DEF Crash, history, Over, Active, Alive
<1> QED BY <1>1, <1>2, <1>4, <1>5, <1>6 DEF Main

(* The watcher and the loop change nothing of the other owners. *)
LEMMA OnceStay ==
  ASSUME OnceInvariant, TypeOK', FiniteFaults', NEW p \in Procs, phase' = phase,
         \A q \in Procs \ {p} :
           seen'[q] = seen[q] /\ at'[q] = at[q] /\ batch'[q] = batch[q] /\ reply'[q] = reply[q],
         \/ UNCHANGED <<saved, carried>>
         \/ Active(p) /\ saved' \in {saved, seen[p]},
         AppliedOnce', Careful(p)'
  PROVE OnceInvariant'
<1>1. HandedOver' BY HandedOverStep DEF OnceInvariant
<1>2. \A q \in Procs \ {p} : Careful(q)' BY Bystander
<1> QED BY <1>1, <1>2 DEF OnceInvariant

(* The steps of the watcher. *)
LEMMA OnceWatch ==
  ASSUME OnceInvariant, TypeOK', FiniteFaults', NEW p \in Procs, Watch(p)
  PROVE OnceInvariant'
<1> DEFINE r == Current(p)
<1>0. TypeOK /\ Careful(p) BY DEF OnceInvariant
<1>a. at[p] \notin {"rest", "drain"} \/ batch[p] # {} =>
        r \in batch[p] /\ (r # StopJson => r \in Requests)
  BY <1>0, CurrentType DEF TypeOK
<1>b. ASSUME UNCHANGED <<saved, carried, seen, phase>>,
             \A q \in Procs \ {p} : at'[q] = at[q] /\ batch'[q] = batch[q] /\ reply'[q] = reply[q],
             \A a \in Requests : ack'[a] = "applied" => ack[a] = "applied" \/ saved[a] = "applied",
             at[p] # "recorded", phase[p] \notin {"new", "clearing"},
             at'[p] \in {"rest", "drain"}
      PROVE OnceInvariant'
  <2>1. Careful(p)'
    BY <1>0, <1>b DEF Careful, HandlesWhileRunning, SeenIsSaved, HandledOnce, Active
  <2>2. AppliedOnce' BY <1>b, OnceKept DEF SavedGrows
  <2> QED BY <1>b, <2>1, <2>2, OnceStay
<1>c. ASSUME at[p] = "settled", Acknowledge(p), UNCHANGED saved
      PROVE \A a \in Requests : ack'[a] = "applied" => ack[a] = "applied" \/ saved[a] = "applied"
  <2>1. r # StopJson /\ reply[p] = "applied" => saved[r] = "applied"
    BY <1>0, <1>c DEF Careful, HandledOnce
  <2> QED BY <1>0, <1>c, <2>1 DEF Acknowledge, TypeOK
<1>1. CASE Tick(p) \/ TakeStopFile(p) \/ EndTick(p) \/ Drop(p)
  <2>1. /\ at[p] \in {"rest", "drain"} /\ at'[p] \in {"rest", "drain"}
        /\ phase[p] \notin {"new", "clearing"}
        /\ \A q \in Procs \ {p} : at'[q] = at[q] /\ batch'[q] = batch[q]
    BY <1>0, <1>1 DEF Tick, TakeStopFile, EndTick, Drop, Watching, Alive, Careful,
                      HandlesWhileRunning, TypeOK
  <2>2. UNCHANGED <<saved, carried, seen, phase, ack, reply>>
    BY <1>1 DEF Tick, TakeStopFile, EndTick, Drop, disk, run, history
  <2> QED BY <2>1, <2>2, <1>b
<1>2. CASE Ask(p)
  <2>1. /\ phase[p] \in {"running", "ended"} /\ at[p] = "drain" /\ batch[p] # {}
        /\ UNCHANGED <<saved, carried, seen, phase, ack, batch>>
        /\ \A q \in Procs \ {p} : at'[q] = at[q] /\ reply'[q] = reply[q]
    BY <1>0, <1>2 DEF Ask, Watching, disk, run, history, TypeOK
  <2>2. r' = r BY <2>1 DEF Current
  <2>3. seen[p] = saved BY <1>0, <2>1 DEF Careful, SeenIsSaved, Active
  <2>4. Prior(p, r) = IF r = StopJson THEN "none" ELSE saved[r] BY <2>3 DEF Prior
  <2>5. \/ at'[p] = "asked" /\ phase[p] = "running" /\ Prior(p, r) = "none"
        \/ at'[p] = "settled" /\ reply'[p] # "none" /\ reply'[p] \in {Prior(p, r), "rejected"}
    BY <1>0, <1>2 DEF Ask, TypeOK
  <2>6. HandlesWhileRunning(p)' BY <2>1, <2>5 DEF HandlesWhileRunning
  <2>7. SeenIsSaved(p)' BY <2>1, <2>3, <2>5 DEF SeenIsSaved
  <2>8. HandledOnce(p)' BY <2>1, <2>2, <2>4, <2>5 DEF HandledOnce
  <2>9. AppliedOnce' BY <2>1, OnceKept DEF SavedGrows
  <2> QED BY <2>1, <2>6, <2>7, <2>8, <2>9, OnceStay DEF Careful
<1>3. CASE AnswerKill(p)
  <2>1. /\ at[p] = "settled" /\ Acknowledge(p) /\ at'[p] = "drain"
        /\ \A q \in Procs \ {p} : at'[q] = at[q] /\ batch'[q] = batch[q] /\ reply'[q] = reply[q]
        /\ UNCHANGED <<saved, carried, seen, phase>>
    BY <1>0, <1>3 DEF AnswerKill, Answering, run, history, TypeOK
  <2>2. phase[p] \notin {"new", "clearing"} BY <1>0, <2>1 DEF Careful, HandlesWhileRunning
  <2> QED BY <2>1, <2>2, <1>b, <1>c
<1>4. CASE Answer(p)
  <2>1. /\ at[p] = "settled" /\ Acknowledge(p) /\ at'[p] = "written"
        /\ \A q \in Procs \ {p} : at'[q] = at[q]
        /\ UNCHANGED <<saved, carried, seen, phase, batch, reply>>
    BY <1>0, <1>4 DEF Answer, run, history, TypeOK
  <2>2. Careful(p)'
    BY <1>0, <2>1 DEF Careful, HandlesWhileRunning, SeenIsSaved, HandledOnce, Active
  <2>3. AppliedOnce' BY <2>1, <1>c, OnceKept DEF SavedGrows
  <2> QED BY <2>1, <2>2, <2>3, OnceStay
<1>5. CASE AnswerFails(p)
  <2>1. /\ at[p] = "settled" /\ at'[p] = "rest"
        /\ \A q \in Procs \ {p} : at'[q] = at[q] /\ batch'[q] = batch[q] /\ reply'[q] = reply[q]
        /\ UNCHANGED <<saved, carried, seen, phase, ack>>
    BY <1>0, <1>5 DEF AnswerFails, disk, run, history, TypeOK
  <2>2. phase[p] \notin {"new", "clearing"} BY <1>0, <2>1 DEF Careful, HandlesWhileRunning
  <2> QED BY <2>1, <2>2, <1>b
<1>6. CASE Consume(p)
  <2>1. at[p] = "written" /\ phase[p] # "new" /\ UNCHANGED <<ack, carried>>
    BY <1>6 DEF Consume, Alive, history
  <2>2. phase[p] # "clearing" BY <1>0, <2>1 DEF Careful, HandlesWhileRunning
  <2>3. CASE Exit(p)
    <3>1. Leave(p, "killed") /\ (saved' = saved \/ (Active(p) /\ saved' = seen[p]))
      BY <2>3 DEF Exit, Active
    <3> QED BY <2>1, <3>1, LeftOnce DEF Over
  <2>4. CASE ~(reply[p] = "applied" /\ Kind(p) = "stop" /\ stopSeen[p])
    <3>1. /\ UNCHANGED <<saved, run>> /\ at' = [at EXCEPT ![p] = "drain"]
          /\ batch' = [batch EXCEPT ![p] = @ \ {r}] /\ reply' = [reply EXCEPT ![p] = "none"]
      BY <1>6, <2>4 DEF Consume
    <3>2. /\ at'[p] = "drain" /\ UNCHANGED <<saved, seen, phase>>
          /\ \A q \in Procs \ {p} : at'[q] = at[q] /\ batch'[q] = batch[q] /\ reply'[q] = reply[q]
      BY <1>0, <3>1 DEF TypeOK, run
    <3> QED BY <2>1, <2>2, <3>2, <1>b
  <2> QED BY <1>6, <2>3, <2>4 DEF Consume
<1> QED BY <1>1, <1>2, <1>3, <1>4, <1>5, <1>6 DEF Watch

(* The steps of the loop, which records, saves and carries out. *)
LEMMA OnceHandle ==
  ASSUME OnceInvariant, TypeOK', FiniteFaults', NEW p \in Procs, Handle(p)
  PROVE OnceInvariant'
<1> DEFINE r == Current(p)
<1>0. TypeOK /\ Careful(p) /\ AppliedOnce BY DEF OnceInvariant
<1>1. /\ phase[p] = "running" /\ at[p] \in {"asked", "recorded", "saved"}
      /\ UNCHANGED <<ack, phase, batch>>
  BY DEF Handle, Decide, Save, CarryOut, disk, run
<1>2. r' = r BY <1>1 DEF Current
<1>3. r # StopJson => r \in Requests BY <1>0, <1>1, CurrentType DEF TypeOK
<1>4. Active(p) /\ Active(p)' BY <1>1 DEF Active
<1>5. CASE Decide(p)
  <2>1. PICK status \in {"applied", "rejected"} :
          /\ reply' = [reply EXCEPT ![p] = status]
          /\ seen' = [seen EXCEPT ![p] = IF r = StopJson THEN @ ELSE [@ EXCEPT ![r] = status]]
    BY <1>5 DEF Decide
  <2>2. at[p] = "asked" /\ at' = [at EXCEPT ![p] = "recorded"] /\ UNCHANGED <<saved, carried>>
    BY <1>5 DEF Decide, disk, history
  <2>3. /\ at'[p] = "recorded" /\ reply'[p] = status
        /\ seen'[p] = IF r = StopJson THEN seen[p] ELSE [seen[p] EXCEPT ![r] = status]
        /\ \A q \in Procs \ {p} : seen'[q] = seen[q] /\ at'[q] = at[q] /\ reply'[q] = reply[q]
    BY <1>0, <2>1, <2>2 DEF TypeOK
  <2>4. seen[p] = saved BY <1>0, <1>4, <2>2 DEF Careful, SeenIsSaved
  <2>5. r # StopJson => saved[r] = "none" BY <1>0, <2>2 DEF Careful, HandledOnce
  <2>6. HandlesWhileRunning(p)' BY <1>1, <2>3 DEF HandlesWhileRunning
  <2>7. SeenIsSaved(p)' BY <1>2, <2>2, <2>3, <2>4 DEF SeenIsSaved
  <2>8. HandledOnce(p)' BY <1>2, <2>2, <2>3, <2>5 DEF HandledOnce
  <2>9. AppliedOnce' BY <1>1, <2>2, OnceKept DEF SavedGrows
  <2> QED BY <1>1, <2>2, <2>3, <2>6, <2>7, <2>8, <2>9, OnceStay DEF Careful
<1>6. CASE Save(p)
  <2>1. /\ at[p] = "recorded" /\ at' = [at EXCEPT ![p] = "saved"] /\ saved' = seen[p]
        /\ UNCHANGED <<carried, seen, reply>>
    BY <1>6 DEF Save, run, history
  <2>2. at'[p] = "saved" /\ \A q \in Procs \ {p} : at'[q] = at[q] BY <1>0, <2>1 DEF TypeOK
  <2>3. SavedGrows BY <1>4, <2>1, SaveGrows
  <2>4. ASSUME r # StopJson PROVE saved'[r] = reply[p] /\ carried[r] = <<>>
    <3>1. saved[r] = "none" /\ seen[p] = [saved EXCEPT ![r] = reply[p]]
      BY <1>0, <1>4, <2>1, <2>4 DEF Careful, HandledOnce, SeenIsSaved
    <3> QED BY <1>0, <1>3, <2>1, <2>4, <3>1 DEF TypeOK, AppliedOnce
  <2>5. HandlesWhileRunning(p)' BY <1>0, <1>1, <2>1, <2>2 DEF Careful, HandlesWhileRunning
  <2>6. SeenIsSaved(p)' BY <2>1, <2>2 DEF SeenIsSaved
  <2>7. HandledOnce(p)' BY <1>2, <2>1, <2>2, <2>4 DEF HandledOnce
  <2>8. AppliedOnce' BY <1>1, <2>1, <2>3, OnceKept
  <2> QED BY <1>1, <1>4, <2>1, <2>2, <2>5, <2>6, <2>7, <2>8, OnceStay DEF Careful
<1>7. CASE CarryOut(p)
  <2>1. /\ at[p] = "saved" /\ at' = [at EXCEPT ![p] = "settled"] /\ UNCHANGED <<saved, seen, reply>>
        /\ \/ UNCHANGED carried
           \/ /\ r # StopJson /\ reply[p] = "applied"
              /\ carried' = [carried EXCEPT ![r] = Append(@, p)]
    BY <1>7 DEF CarryOut, disk
  <2>2. at'[p] = "settled" /\ \A q \in Procs \ {p} : at'[q] = at[q] BY <1>0, <2>1 DEF TypeOK
  <2>3. r # StopJson => saved[r] = reply[p] /\ carried[r] = <<>>
    BY <1>0, <2>1 DEF Careful, HandledOnce
  <2>4. HandlesWhileRunning(p)' BY <1>0, <1>1, <2>1, <2>2 DEF Careful, HandlesWhileRunning
  <2>5. SeenIsSaved(p)' BY <1>0, <1>4, <2>1, <2>2 DEF Careful, SeenIsSaved
  <2>6. HandledOnce(p)' BY <1>2, <2>1, <2>2, <2>3 DEF HandledOnce
  <2>7. AppliedOnce'
    <3>1. CASE UNCHANGED carried BY <1>0, <1>1, <2>1, <3>1 DEF AppliedOnce
    <3>2. CASE r # StopJson /\ reply[p] = "applied" /\ carried' = [carried EXCEPT ![r] = Append(@, p)]
      <4>1. Len(Append(<<>>, p)) = 1 OBVIOUS
      <4>2. carried'[r] = Append(<<>>, p) /\ \A a \in Requests \ {r} : carried'[a] = carried[a]
        BY <1>0, <1>3, <2>3, <3>2 DEF TypeOK
      <4> QED BY <1>0, <1>1, <2>1, <2>3, <3>2, <4>1, <4>2 DEF AppliedOnce
    <3> QED BY <2>1, <3>1, <3>2
  <2> QED BY <1>1, <1>4, <2>1, <2>2, <2>4, <2>5, <2>6, <2>7, OnceStay DEF Careful
<1> QED BY <1>5, <1>6, <1>7 DEF Handle

(* The steps of the senders are nothing to any owner. *)
LEMMA OnceStutter ==
  ASSUME OnceInvariant, TypeOK', FiniteFaults', UNCHANGED <<ack, saved, phase, seen, at, batch, reply, carried>>
  PROVE OnceInvariant'
<1>1. \A p \in Procs : Careful(p)'
  BY DEF OnceInvariant, Careful, HandlesWhileRunning, SeenIsSaved, HandledOnce, Active, Current
<1>2. HandedOver' /\ AppliedOnce' BY DEF OnceInvariant, HandedOver, AppliedOnce
<1> QED BY <1>1, <1>2 DEF OnceInvariant

(* Nothing has been decided, saved or carried out yet. *)
LEMMA OnceInit == Init => OnceInvariant
<1> SUFFICES ASSUME Init PROVE OnceInvariant OBVIOUS
<1>1. TypeOK /\ FiniteFaults BY InboxTypeInit
<1>2. HandedOver BY DEF Init, HandedOver
<1>3. AppliedOnce BY DEF Init, AppliedOnce
<1>4. ASSUME NEW p \in Procs PROVE Careful(p)
  BY DEF Init, Careful, HandlesWhileRunning, SeenIsSaved, HandledOnce, Active
<1> QED BY <1>1, <1>2, <1>3, <1>4 DEF OnceInvariant

(* Every step keeps what "applied at most once" rests on. *)
LEMMA OnceStep ==
  ASSUME OnceInvariant, [Next]_vars PROVE OnceInvariant'
<1>1. TypeOK' /\ FiniteFaults' BY InboxTypeStep DEF OnceInvariant
<1>2. CASE Send \/ UNCHANGED vars
  <2>1. UNCHANGED <<ack, saved, phase, seen, at, batch, reply, carried>>
    BY <1>2 DEF Send, WriteStopFile, Write, Resend, vars, disk, run, watcher, history
  <2> QED BY <1>1, <2>1, OnceStutter
<1> QED BY <1>1, <1>2, NextSteps, OnceMain, OnceWatch, OnceHandle

(* A request is carried out at most once in the life of the run, whatever   *)
(* is sent again, fails or dies between any two of submitControl,           *)
(* handleControl, the save, the effect and the ack; and what was carried    *)
(* out, or answered as applied, is known to the saved run.                  *)
THEOREM RequestsAppliedOnce == Spec => []AppliedOnce
<1>1. Init => OnceInvariant BY OnceInit
<1>2. OnceInvariant /\ [Next]_vars => OnceInvariant' BY OnceStep
<1>3. OnceInvariant => AppliedOnce BY DEF OnceInvariant
<1> QED BY <1>1, <1>2, <1>3, PTL DEF Spec

-----------------------------------------------------------------------------
(* Nothing of one owner's inbox reaches the next *)

(* What an owner's process, its watcher and its loop do. *)
OwnerStep(p) ==
  Start(p) \/ Main(p) \/ Finish(p) \/ ForceExit(p) \/ Crash(p) \/ Watch(p) \/ Handle(p)

(* An owner changes nothing that another one holds in memory. *)
LEMMA OwnMemory ==
  ASSUME TypeOK, NEW p \in Procs, OwnerStep(p), NEW q \in Procs \ {p}
  PROVE phase'[q] = phase[q] /\ at'[q] = at[q] /\ batch'[q] = batch[q] /\ sweep'[q] = sweep[q]
<1> USE DEF TypeOK
<1>0. ASSUME NEW how, Leave(p, how)
      PROVE phase'[q] = phase[q] /\ at'[q] = at[q] /\ batch'[q] = batch[q] /\ sweep'[q] = sweep[q]
  BY <1>0 DEF Leave
<1>1. CASE Start(p) BY <1>1 DEF Start, OpenSweep, watcher
<1>2. CASE Main(p)
  BY <1>0, <1>2 DEF Main, Close, OpenSweep, RejectLeftover, RemoveLeftover, BeginRun, Release,
                    EndProcess, run, watcher, sweeper
<1>3. CASE Finish(p) \/ ForceExit(p) \/ Crash(p)
  BY <1>0, <1>3 DEF Finish, ForceExit, Exit, Crash, watcher, sweeper
<1>4. CASE Watch(p)
  BY <1>0, <1>4 DEF Watch, Tick, Drop, Ask, AnswerKill, Answer, AnswerFails, Consume, Exit,
                    TakeStopFile, EndTick, run, sweeper
<1>5. CASE Handle(p) BY <1>5 DEF Handle, Decide, Save, CarryOut, run, sweeper
<1> QED BY <1>1, <1>2, <1>3, <1>4, <1>5 DEF OwnerStep

(* A request's file is written by a sender and removed by an owner; a file  *)
(* that will not go is remembered, and so are an ack that cannot be written *)
(* and a crash.                                                             *)
FilesOf == /\ pending' \subseteq pending /\ stuck \subseteq stuck' /\ failed \subseteq failed'
           /\ UNCHANGED <<sent, resent>>

(* An owner adds no request to the inbox, and forgets none it could not     *)
(* delete. *)
LEMMA OwnerFiles ==
  ASSUME TypeOK, NEW p \in Procs, OwnerStep(p)
  PROVE FilesOf
<1>0. ASSUME NEW r, Delete(r) PROVE pending' \subseteq pending /\ stuck \subseteq stuck'
  BY <1>0 DEF Delete
<1>1. CASE Start(p) BY <1>1 DEF Start, OpenSweep, Readable, senders, faults, FilesOf
<1>2. CASE Main(p)
  BY <1>0, <1>2 DEF Main, Close, OpenSweep, Readable, RejectLeftover, RemoveLeftover, BeginRun,
                    Release, EndProcess, disk, senders, faults, FilesOf
<1>3. CASE Finish(p) \/ ForceExit(p) \/ Crash(p)
  BY <1>3 DEF Finish, ForceExit, Exit, Crash, disk, senders, faults, FilesOf
<1>4. CASE Watch(p)
  BY <1>0, <1>4 DEF Watch, Tick, Readable, Drop, Ask, AnswerKill, Answer, AnswerFails, Consume,
                    TakeStopFile, EndTick, disk, senders, faults, FilesOf
<1>5. CASE Handle(p)
  BY <1>5 DEF Handle, Decide, Save, CarryOut, disk, senders, faults, FilesOf
<1> QED BY <1>1, <1>2, <1>3, <1>4, <1>5 DEF OwnerStep

(* Only the loop carries a request out: the one the watcher is at. *)
LEMMA OnlyCarryOut ==
  ASSUME NEW p \in Procs, OwnerStep(p)
  PROVE /\ UNCHANGED carried \/ CarryOut(p)
        /\ leftover' = leftover \/ Start(p)
  BY DEF OwnerStep, Start, Main, Close, RejectLeftover, RemoveLeftover, BeginRun, Release,
         EndProcess, Finish, ForceExit, Crash, Watch, Tick, Drop, Ask, AnswerKill, Answer,
         AnswerFails, Consume, TakeStopFile, EndTick, Handle, Decide, Save, CarryOut, history

(* What a watcher or a sweep reads is there to be read. *)
LEMMA OwnerReads ==
  ASSUME TypeOK, NEW p \in Procs, OwnerStep(p)
  PROVE /\ batch'[p] \subseteq batch[p] \cup pending \cup {StopJson}
        /\ sweep'[p] \subseteq sweep[p] \cup pending
<1> USE DEF TypeOK
<1>0. ASSUME NEW how, Leave(p, how) PROVE batch'[p] = {} /\ sweep'[p] = {}
  BY <1>0 DEF Leave
<1>1. CASE Start(p) BY <1>1 DEF Start, OpenSweep, Readable, watcher
<1>2. CASE Main(p)
  BY <1>0, <1>2 DEF Main, Close, OpenSweep, Readable, RejectLeftover, RemoveLeftover, BeginRun,
                    Release, EndProcess, run, watcher, sweeper
<1>3. CASE Finish(p) \/ ForceExit(p) \/ Crash(p)
  BY <1>0, <1>3 DEF Finish, ForceExit, Exit, Crash, watcher, sweeper
<1>4. CASE Watch(p)
  BY <1>0, <1>4 DEF Watch, Tick, Readable, Drop, Ask, AnswerKill, Answer, AnswerFails, Consume,
                    Exit, TakeStopFile, EndTick, run, sweeper
<1>5. CASE Handle(p) BY <1>5 DEF Handle, Decide, Save, CarryOut, run, sweeper
<1> QED BY <1>1, <1>2, <1>3, <1>4, <1>5 DEF OwnerStep

(* What can be found was written by a sender. *)
LEMMA WrittenStep ==
  ASSUME OnceInvariant, OnceInvariant', Written, [Next]_vars
  PROVE Written'
<1>0. TypeOK /\ TypeOK' BY DEF OnceInvariant
<1>1. CASE Send
  <2>1. /\ sent \subseteq sent' /\ pending' \subseteq sent' /\ leftover' \subseteq leftover
        /\ UNCHANGED <<batch, sweep, carried>>
    BY <1>0, <1>1 DEF Send, WriteStopFile, Write, Resend, Written, watcher, sweeper, history
  <2> QED BY <2>1 DEF Written
<1>2. CASE UNCHANGED vars
  BY <1>2 DEF Written, vars, disk, watcher, sweeper, senders, history
<1>3. ASSUME NEW p \in Procs, OwnerStep(p) PROVE Written'
  <2>1. pending' \subseteq pending /\ sent' = sent BY <1>0, <1>3, OwnerFiles DEF FilesOf
  <2>2. leftover' \subseteq sent
    BY <1>3, <2>1, OnlyCarryOut DEF Written, Start
  <2>3. ASSUME NEW q \in Procs PROVE batch'[q] \subseteq sent \cup {StopJson} /\ sweep'[q] \subseteq sent
    <3>1. CASE q = p BY <1>0, <1>3, <3>1, OwnerReads DEF Written
    <3>2. CASE q # p
      <4>1. batch'[q] = batch[q] /\ sweep'[q] = sweep[q] BY <1>0, <1>3, <3>2, OwnMemory
      <4> QED BY <4>1 DEF Written
    <3> QED BY <3>1, <3>2
  <2>4. ASSUME NEW r \in Requests, carried'[r] # <<>> PROVE r \in sent
    <3>1. CASE UNCHANGED carried BY <2>4, <3>1 DEF Written
    <3>2. CASE CarryOut(p) /\ r = Current(p)
      <4>1. batch[p] # {} BY <1>0, <3>2 DEF CarryOut, TypeOK
      <4>2. r # StopJson BY RequestsAssumption DEF StopJson
      <4>3. r \in batch[p] BY <1>0, <3>2, <4>1, CurrentType
      <4> QED BY <4>2, <4>3 DEF Written
    <3>3. CASE CarryOut(p) /\ r # Current(p)
      <4>1. carried'[r] = carried[r] BY <1>0, <3>3 DEF CarryOut, TypeOK
      <4> QED BY <2>4, <4>1 DEF Written
    <3> QED BY <1>3, <3>1, <3>2, <3>3, OnlyCarryOut
  <2> QED BY <2>1, <2>2, <2>3, <2>4 DEF Written
<1> QED BY <1>1, <1>2, <1>3, NextSteps DEF OwnerStep

(* What the newest owner found is removed before its run begins, and read   *)
(* by none of its watcher's ticks.                                          *)
LEMMA LeftoverStep ==
  ASSUME OnceInvariant, OnceInvariant', Written, LeftoverRemoved, [Next]_vars
  PROVE LeftoverRemoved'
<1> DEFINE Found == leftover \ stuck
<1>0. TypeOK /\ TypeOK' BY DEF OnceInvariant
<1>1. CASE Send
  <2>1. UNCHANGED <<phase, batch, sweep, stuck>> /\ leftover' \subseteq leftover
    BY <1>1 DEF Send, WriteStopFile, Write, Resend, run, watcher, sweeper, faults, history
  <2>2. leftover' \cap pending' \subseteq pending
    BY <1>1 DEF Send, WriteStopFile, Write, Resend, Written, history
  <2> QED BY <2>1, <2>2 DEF LeftoverRemoved
<1>2. CASE UNCHANGED vars
  BY <1>2 DEF LeftoverRemoved, vars, disk, run, watcher, sweeper, faults, history
<1>3. ASSUME NEW p \in Procs, OwnerStep(p) PROVE LeftoverRemoved'
  <2>1. pending' \subseteq pending /\ stuck \subseteq stuck' BY <1>0, <1>3, OwnerFiles DEF FilesOf
  <2>2. \A q \in Procs \ {p} : phase'[q] = phase[q] /\ batch'[q] = batch[q] /\ sweep'[q] = sweep[q]
    BY <1>0, <1>3, OwnMemory
  <2>3. CASE Start(p)
    <3>1. /\ phase'[p] = "clearing" /\ leftover' = pending /\ sweep'[p] = Readable
          /\ pending' = Readable
      BY <1>0, <2>3 DEF Start, OpenSweep, TypeOK
    <3>2. ASSUME NEW q \in Procs \ {p} PROVE phase'[q] \notin {"clearing", "running", "ended"}
      <4>1. CASE q < p
        <5>1. q \in 1 .. p - 1 BY <4>1, RequestsAssumption DEF Procs
        <5> QED BY <2>2, <2>3, <5>1 DEF Start, Over
      <4>2. CASE p < q
        <5>1. p \in 1 .. q - 1 BY <4>2, RequestsAssumption DEF Procs
        <5>2. phase[p] = "new" BY <2>3 DEF Start
        <5>3. phase[q] = "new" BY <5>1, <5>2 DEF OnceInvariant, HandedOver, Over
        <5> QED BY <2>2, <5>3
      <4> QED BY <4>1, <4>2, RequestsAssumption DEF Procs
    <3> QED BY <3>1, <3>2 DEF LeftoverRemoved
  <2>4. CASE ~Start(p)
    <3>1. leftover' = leftover BY <1>3, <2>4, OnlyCarryOut
    <3>2. ASSUME NEW q \in Procs \ {p}
          PROVE /\ phase'[q] = "clearing" => (leftover' \ stuck') \cap pending' \subseteq sweep'[q]
                /\ phase'[q] \in {"running", "ended"} =>
                     (leftover' \ stuck') \cap (pending' \cup batch'[q]) = {}
      BY <2>1, <2>2, <3>1 DEF LeftoverRemoved
    <3>3. ASSUME phase'[p] = "clearing"
          PROVE (leftover' \ stuck') \cap pending' \subseteq sweep'[p]
      <4>1. phase[p] = "clearing" /\ (UNCHANGED sweep \/ RemoveLeftover(p))
        BY <1>0, <1>3, <2>4, <3>3
        DEF OwnerStep, Main, Close, OpenSweep, RejectLeftover, RemoveLeftover, BeginRun, Release,
            EndProcess, Finish, ForceExit, Exit, Leave, Crash, Watch, Watching, Tick, Drop, Ask, AnswerKill,
            Answer, AnswerFails, Consume, TakeStopFile, EndTick, Handle, Decide, Save, CarryOut,
            Answering, sweeper, run, TypeOK
      <4>2. Found \cap pending \subseteq sweep[p] BY <4>1 DEF LeftoverRemoved
      <4>3. CASE UNCHANGED sweep BY <2>1, <3>1, <4>2, <4>3
      <4>4. CASE RemoveLeftover(p)
        <5>1. sweep'[p] = sweep[p] \ {Min(sweep[p])}
              /\ (Min(sweep[p]) \notin pending' \/ Min(sweep[p]) \in stuck')
          BY <1>0, <4>4 DEF RemoveLeftover, Delete, TypeOK
        <5> QED BY <2>1, <3>1, <4>2, <5>1
      <4> QED BY <4>1, <4>3, <4>4
    <3>4. ASSUME phase'[p] \in {"running", "ended"}
          PROVE (leftover' \ stuck') \cap (pending' \cup batch'[p]) = {}
      <4>1. CASE BeginRun(p)
        <5>1. /\ phase[p] = "clearing" /\ sweep[p] = {}
              /\ UNCHANGED <<pending, leftover, stuck, batch>>
          BY <4>1 DEF BeginRun, disk, faults, history, watcher
        <5>2. batch[p] = {} BY <5>1 DEF OnceInvariant, Careful, HandlesWhileRunning
        <5> QED BY <5>1, <5>2 DEF LeftoverRemoved
      <4>2. CASE ~BeginRun(p)
        <5>1. phase[p] \in {"running", "ended"}
          BY <1>0, <1>3, <2>4, <3>4, <4>2
          DEF OwnerStep, Main, Close, OpenSweep, RejectLeftover, RemoveLeftover, Release,
              EndProcess, Finish, ForceExit, Exit, Leave, Crash, Watch, Tick, Drop, Ask, AnswerKill,
              Answer, AnswerFails, Consume, TakeStopFile, EndTick, Handle, Decide, Save, CarryOut,
              sweeper, run, TypeOK
        <5>2. batch'[p] \subseteq batch[p] \cup pending \cup {StopJson} BY <1>0, <1>3, OwnerReads
        <5>3. StopJson \notin leftover BY <1>0, RequestsAssumption DEF TypeOK, StopJson
        <5> QED BY <2>1, <3>1, <5>1, <5>2, <5>3 DEF LeftoverRemoved
      <4> QED BY <4>1, <4>2
    <3> QED BY <3>2, <3>3, <3>4 DEF LeftoverRemoved
  <2> QED BY <2>3, <2>4
<1> QED BY <1>1, <1>2, <1>3, NextSteps DEF OwnerStep

(* A kill that is being answered is answered, unless the ack cannot be      *)
(* written or the owner crashes; one that was answered stays so.            *)
LEMMA KillStep ==
  ASSUME OnceInvariant, OnceInvariant', Written, KillAnswered, [Next]_vars
  PROVE KillAnswered'
<1>0. TypeOK /\ TypeOK' BY DEF OnceInvariant
<1> SUFFICES ASSUME NEW r \in Requests, NEW p \in Procs, KindOf[r] = "kill",
                    p \in Range(carried'[r]), phase'[p] # "crashed", r \notin failed'
             PROVE \/ at'[p] = "settled" /\ batch'[p] # {} /\ Current(p)' = r /\ phase'[p] = "running"
                   \/ ack'[r] # "none" /\ r \notin pending' \ (stuck' \cup resent')
  BY DEF KillAnswered
<1> DEFINE Answered == ack[r] # "none" /\ r \notin pending \ (stuck \cup resent)
           AtIt == at[p] = "settled" /\ batch[p] # {} /\ Current(p) = r /\ phase[p] = "running"
<1>1. CASE Send \/ UNCHANGED vars
  <2>1. UNCHANGED <<carried, phase, at, batch, failed, ack, stuck>> /\ resent \subseteq resent'
    BY <1>1 DEF Send, WriteStopFile, Write, Resend, vars, disk, run, watcher, senders, faults, history
  <2>2. AtIt \/ Answered BY <2>1 DEF KillAnswered
  <2>3. CASE AtIt BY <2>1, <2>3 DEF Current
  <2>4. CASE Answered
    <3>1. carried[r] # <<>> BY <2>1 DEF Range
    <3>2. r \in sent BY <3>1 DEF Written
    <3>3. r \in pending' => r \in pending \/ r \in resent'
      BY <1>1, <3>2 DEF Send, WriteStopFile, Write, Resend, vars, disk
    <3> QED BY <2>1, <2>4, <3>3
  <2> QED BY <2>2, <2>3, <2>4
<1>2. ASSUME NEW o \in Procs, OwnerStep(o)
      PROVE \/ at'[p] = "settled" /\ batch'[p] # {} /\ Current(p)' = r /\ phase'[p] = "running"
            \/ ack'[r] # "none" /\ r \notin pending' \ (stuck' \cup resent')
  <2>1. FilesOf BY <1>0, <1>2, OwnerFiles
  <2>2. ack[r] # "none" => ack'[r] # "none"
    <3>1. at[o] = "settled" => reply[o] # "none"
      BY DEF OnceInvariant, Careful, HandlesWhileRunning
    <3>2. ack'[r] = ack[r] \/ ack'[r] = "rejected" \/ (at[o] = "settled" /\ ack'[r] = reply[o])
      BY <1>0, <1>2
      DEF OwnerStep, Start, Main, Close, RejectLeftover, RemoveLeftover, BeginRun, Release,
          EndProcess, Finish, ForceExit, Crash, Watch, Tick, Drop, Ask, AnswerKill, Answering,
          Answer, AnswerFails, Consume, TakeStopFile, EndTick, Handle, Decide, Save, CarryOut,
          Acknowledge, disk, TypeOK
    <3> QED BY <3>1, <3>2
  <2>3. ASSUME Answered PROVE ack'[r] # "none" /\ r \notin pending' \ (stuck' \cup resent')
    BY <2>1, <2>2, <2>3 DEF FilesOf
  <2>4. CASE CarryOut(o)
    <3>1. /\ UNCHANGED <<phase, batch, failed>>
          /\ at' = [at EXCEPT ![o] = "settled"] /\ at[o] = "saved" /\ phase[o] = "running"
      BY <2>4 DEF CarryOut, faults
    <3>2. at[p] = "settled" => at'[p] = "settled" BY <1>0, <3>1 DEF TypeOK
    <3>3. CASE p \in Range(carried[r])
      <4>1. AtIt \/ Answered BY <3>1, <3>3 DEF KillAnswered
      <4> QED BY <2>3, <3>1, <3>2, <4>1 DEF Current
    <3>4. CASE p \notin Range(carried[r])
      <4>1. Current(o) = r /\ carried'[r] = Append(carried[r], o)
        BY <1>0, <2>4, <3>4 DEF CarryOut, TypeOK
      <4>2. carried[r] = <<>>
        <5>1. r # StopJson BY RequestsAssumption DEF StopJson
        <5> QED BY <3>1, <4>1, <5>1 DEF OnceInvariant, Careful, HandledOnce
      <4>3. Range(carried'[r]) = {o} BY <4>1, <4>2 DEF Range
      <4>4. p = o BY <4>3
      <4>5. at'[o] = "settled" /\ batch[o] # {} BY <1>0, <3>1 DEF TypeOK
      <4> QED BY <3>1, <4>1, <4>4, <4>5 DEF Current
    <3> QED BY <3>3, <3>4
  <2>5. CASE ~CarryOut(o)
    <3>1. carried' = carried /\ r \notin failed
      BY <1>2, <2>1, <2>5, OnlyCarryOut DEF FilesOf
    <3>2. phase[p] # "crashed"
      <4>1. CASE p # o BY <1>0, <1>2, <4>1, OwnMemory
      <4>2. CASE p = o
        BY <1>0, <1>2, <4>2
        DEF OwnerStep, Start, Main, Close, OpenSweep, RejectLeftover, RemoveLeftover, BeginRun,
            Release, EndProcess, Finish, ForceExit, Alive, Over, Crash, Watch, Watching, Tick, Drop,
            Ask, AnswerKill, Answer, AnswerFails, Consume, TakeStopFile, EndTick, Handle, Decide,
            Save, CarryOut, run, TypeOK
      <4> QED BY <4>1, <4>2
    <3>3. AtIt \/ Answered BY <3>1, <3>2 DEF KillAnswered
    <3>4. CASE AtIt /\ p # o
      <4>1. phase'[p] = phase[p] /\ at'[p] = at[p] /\ batch'[p] = batch[p]
        BY <1>0, <1>2, <3>4, OwnMemory
      <4> QED BY <3>4, <4>1 DEF Current
    <3>5. CASE AtIt /\ p = o
      <4>1. r # StopJson BY RequestsAssumption DEF StopJson
      <4>2. SyncAnswer(p) /\ Answering(p) BY <3>5, <4>1 DEF SyncAnswer, Answering, Kind
      <4>3. CASE AnswerKill(p)
        <5>1. Acknowledge(p) /\ Delete(r) BY <3>5, <4>3 DEF AnswerKill
        <5>2. reply[p] # "none" BY <3>5 DEF OnceInvariant, Careful, HandlesWhileRunning
        <5>3. ack'[r] # "none" BY <1>0, <3>5, <4>1, <5>1, <5>2 DEF Acknowledge, TypeOK
        <5> QED BY <5>1, <5>3 DEF Delete
      <4>4. ~AnswerFails(p) BY <3>5 DEF AnswerFails
      <4>5. ~Crash(p) BY <1>0 DEF Crash, Leave, TypeOK
      <4>6. CASE RejectLeftover(p) \/ RemoveLeftover(p)
        BY <3>5, <4>6 DEF RejectLeftover, RemoveLeftover, run, watcher, Current
      <4> QED
        BY <1>2, <2>5, <3>5, <4>2, <4>3, <4>4, <4>5, <4>6
        DEF OwnerStep, Start, Main, Close, BeginRun, Release, EndProcess, Finish, ForceExit,
            Watch, Tick, Drop, Ask, Answer, Consume, TakeStopFile, EndTick, Handle, Decide, Save
    <3> QED BY <2>3, <3>3, <3>4, <3>5
  <2> QED BY <2>4, <2>5
<1> QED BY <1>1, <1>2, NextSteps DEF OwnerStep

(* Every step keeps the invariant of the inbox. *)
LEMMA InboxStep ==
  ASSUME InboxInvariant, [Next]_vars PROVE InboxInvariant'
<1>1. OnceInvariant /\ Written /\ LeftoverRemoved /\ KillAnswered BY DEF InboxInvariant
<1>2. OnceInvariant' BY <1>1, OnceStep
<1> QED BY <1>1, <1>2, WrittenStep, LeftoverStep, KillStep DEF InboxInvariant

(* The invariant of the inbox holds when nothing has been sent. *)
LEMMA InboxInit == Init => InboxInvariant
<1> SUFFICES ASSUME Init PROVE InboxInvariant OBVIOUS
<1>1. OnceInvariant BY OnceInit
<1>2. Written /\ LeftoverRemoved BY DEF Init, Written, LeftoverRemoved
<1>3. KillAnswered BY DEF Init, KillAnswered, Range
<1> QED BY <1>1, <1>2, <1>3 DEF InboxInvariant

(* What the newest owner found is carried out by none. *)
LEMMA LeftoverIsLeft ==
  ASSUME InboxInvariant, [Next]_vars, NEW r \in leftover \ stuck
  PROVE carried'[r] = carried[r]
<1>0. TypeOK /\ LeftoverRemoved BY DEF InboxInvariant, OnceInvariant
<1>1. CASE Send \/ UNCHANGED vars
  BY <1>1 DEF Send, WriteStopFile, Write, Resend, vars, history
<1>2. ASSUME NEW p \in Procs, CarryOut(p) PROVE carried'[r] = carried[r]
  <2>1. phase[p] = "running" /\ batch[p] # {} BY <1>0, <1>2 DEF CarryOut, TypeOK
  <2>2. Current(p) \in batch[p] BY <1>0, <2>1, CurrentType
  <2>3. Current(p) # r BY <1>0, <2>1, <2>2 DEF LeftoverRemoved
  <2> QED BY <1>0, <1>2, <2>3 DEF CarryOut, TypeOK
<1> QED BY <1>1, <1>2, NextSteps, OnlyCarryOut DEF OwnerStep

(* clearPendingRequests, at either end of an owner, and the answer a kill   *)
(* gets before its timer: what was left for one owner is never carried out  *)
(* by the next, and a kill that ended one owner is not there for the next.  *)
THEOREM NothingReachesNextOwner == Spec => NothingLeftBehind
<1>1. Spec => []InboxInvariant
  <2>1. Init => InboxInvariant BY InboxInit
  <2>2. InboxInvariant /\ [Next]_vars => InboxInvariant' BY InboxStep
  <2> QED BY <2>1, <2>2, PTL DEF Spec
<1>2. InboxInvariant => KillConsumed BY DEF InboxInvariant, KillAnswered, KillConsumed
<1>3. InboxInvariant /\ [Next]_vars => [\A r \in leftover \ stuck : carried'[r] = carried[r]]_vars
  BY LeftoverIsLeft
<1> QED BY <1>1, <1>2, <1>3, PTL DEF Spec, NothingLeftBehind, NothingInherited

=============================================================================
