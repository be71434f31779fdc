---------------------------- MODULE SchedulerWork ----------------------------
(***************************************************************************)
(* Every step of the scheduler keeps WorkInvariant: a task is active exactly *)
(* while it has work, the lock of the shared tree belongs to those that      *)
(* claim it, and each attempt past its worker has one report on its way.     *)
(*                                                                           *)
(* Most actions change none of what the invariant is about (Undisturbed);    *)
(* what is left are those that start work, hand it on or end it.             *)
(***************************************************************************)
EXTENDS SchedulerTyping

-----------------------------------------------------------------------------
(* The lock and the queue as sequences *)

(* Giving a lock up takes its head from those it belongs to, and from       *)
(* nobody else.                                                             *)
LEMMA TailOf ==
  ASSUME NEW S, NEW s \in Seq(S), s # <<>>, IsInjective(s)
  PROVE /\ IsInjective(Tail(s))
        /\ Range(Tail(s)) = Range(s) \ {Head(s)}
<1>1. /\ Tail(s) \in Seq(S) /\ Len(Tail(s)) = Len(s) - 1
      /\ \A i \in 1 .. Len(Tail(s)) : Tail(s)[i] = s[i + 1]
  BY HeadTailProperties
<1>2. Len(s) \in Nat \ {0} /\ DOMAIN s = 1 .. Len(s) /\ DOMAIN Tail(s) = 1 .. Len(s) - 1
  BY <1>1, EmptySeq, LenProperties
<1>3. Head(s) = s[1] BY <1>2
<1>4. IsInjective(Tail(s)) BY <1>1, <1>2 DEF IsInjective
<1>5. ASSUME NEW x \in Range(Tail(s)) PROVE x \in Range(s) \ {Head(s)}
  <2> PICK i \in 1 .. Len(s) - 1 : x = Tail(s)[i] BY <1>2 DEF Range
  <2>1. i + 1 \in DOMAIN s /\ x = s[i + 1] /\ 1 \in DOMAIN s /\ i + 1 # 1 BY <1>1, <1>2
  <2> QED BY <1>3, <2>1 DEF Range, IsInjective
<1>6. ASSUME NEW x \in Range(s), x # Head(s) PROVE x \in Range(Tail(s))
  <2> PICK i \in 1 .. Len(s) : x = s[i] BY <1>2 DEF Range
  <2>1. i # 1 BY <1>3, <1>6
  <2>2. i - 1 \in 1 .. Len(s) - 1 /\ (i - 1) + 1 = i BY <1>2, <2>1
  <2>3. Tail(s)[i - 1] = x BY <1>1, <1>2, <2>2
  <2> QED BY <1>2, <2>2, <2>3 DEF Range
<1> QED BY <1>4, <1>5, <1>6

(* Waiting for a lock adds one to those it belongs to, behind its holder.   *)
LEMMA AppendTo ==
  ASSUME NEW S, NEW s \in Seq(S), NEW x \in S, IsInjective(s), x \notin Range(s)
  PROVE /\ IsInjective(Append(s, x))
        /\ Range(Append(s, x)) = Range(s) \cup {x}
        /\ Head(Append(s, x)) = IF s = <<>> THEN x ELSE Head(s)
<1> DEFINE a == Append(s, x)
<1>1. /\ a \in Seq(S) /\ Len(a) = Len(s) + 1 /\ a[Len(s) + 1] = x
      /\ \A i \in 1 .. Len(s) : a[i] = s[i]
  BY AppendProperties
<1>2. Len(s) \in Nat /\ DOMAIN s = 1 .. Len(s) /\ DOMAIN a = 1 .. Len(s) + 1
  BY <1>1, LenProperties
<1> HIDE DEF a
<1>3. IsInjective(a) BY <1>1, <1>2 DEF IsInjective, Range
<1>4. Range(a) = Range(s) \cup {x}
  <2>1. ASSUME NEW y \in Range(a) PROVE y \in Range(s) \cup {x} BY <1>1, <1>2 DEF Range
  <2>2. ASSUME NEW y \in Range(s) PROVE y \in Range(a) BY <1>1, <1>2 DEF Range
  <2>3. x \in Range(a) BY <1>1, <1>2 DEF Range
  <2> QED BY <2>1, <2>2, <2>3
<1>5. Head(a) = IF s = <<>> THEN x ELSE Head(s)
  <2>1. a # <<>> BY <1>1, <1>2
  <2>2. Head(a) = a[1] BY <1>1, <2>1
  <2>3. s = <<>> => Len(s) = 0 BY <1>2
  <2>4. s # <<>> => Len(s) # 0 /\ Head(s) = s[1] BY EmptySeq
  <2> QED BY <1>1, <1>2, <2>2, <2>3, <2>4
<1> QED BY <1>3, <1>4, <1>5 DEF a

(* ReportsMatch, of a queue q and the entries e: what a handler leaves is     *)
(* compared with what it found.                                              *)
QueueMatches(q, e) ==
  /\ \A i, j \in DOMAIN q :
       AboutAttempt(q[i]) /\ AboutAttempt(q[j]) /\ q[i].task = q[j].task => i = j
  /\ \A t \in Tasks :
       /\ (\E i \in DOMAIN q : q[i].kind = "attempt_done" /\ q[i].task = t) <=> e[t].phase = "ended"
       /\ (\E i \in DOMAIN q : q[i].kind = "finalized" /\ q[i].task = t) <=> e[t].phase = "settled"
  /\ \A i \in DOMAIN q : AboutAttempt(q[i]) => q[i].attempt = e[q[i].task].attempt

(* Where the wakes of a queue are once one is pushed.                       *)
LEMMA QueueAppend ==
  ASSUME NEW q \in Seq(WakeRecord), NEW w \in WakeRecord
  PROVE /\ DOMAIN q = 1 .. Len(q) /\ Len(q) \in Nat
        /\ DOMAIN Append(q, w) = 1 .. Len(q) + 1
        /\ Append(q, w)[Len(q) + 1] = w
        /\ \A i \in 1 .. Len(q) : Append(q, w)[i] = q[i]
<1>1. /\ Append(q, w) \in Seq(WakeRecord) /\ Len(Append(q, w)) = Len(q) + 1
      /\ Append(q, w)[Len(q) + 1] = w
      /\ \A i \in 1 .. Len(q) : Append(q, w)[i] = q[i]
  BY AppendProperties
<1> QED BY <1>1, LenProperties

(* Where the wakes of a queue are once its head is taken.                   *)
LEMMA QueueTail ==
  ASSUME NEW q \in Seq(WakeRecord), q # <<>>
  PROVE /\ DOMAIN q = 1 .. Len(q) /\ Len(q) \in Nat \ {0}
        /\ Head(q) = q[1] /\ DOMAIN Tail(q) = 1 .. Len(q) - 1
        /\ \A i \in 1 .. Len(q) - 1 : Tail(q)[i] = q[i + 1]
<1>1. /\ Tail(q) \in Seq(WakeRecord) /\ Len(Tail(q)) = Len(q) - 1
      /\ \A i \in 1 .. Len(Tail(q)) : Tail(q)[i] = q[i + 1]
  BY HeadTailProperties
<1> QED BY <1>1, EmptySeq, LenProperties

(* A report about an attempt names a task.                                  *)
LEMMA AboutTask ==
  ASSUME NEW w \in WakeRecord, AboutAttempt(w)
  PROVE w.task \in Tasks
  BY DEF AboutAttempt, WakeRecord

(* Pushing a wake that reports on no attempt leaves the reports as they     *)
(* are.                                                                     *)
LEMMA PushOther ==
  ASSUME NEW q \in Seq(WakeRecord), NEW w \in WakeRecord, ~AboutAttempt(w),
         NEW e, QueueMatches(q, e)
  PROVE QueueMatches(Append(q, w), e)
<1> DEFINE a == Append(q, w)
<1>1. /\ DOMAIN q = 1 .. Len(q) /\ Len(q) \in Nat /\ DOMAIN a = 1 .. Len(q) + 1
      /\ a[Len(q) + 1] = w /\ \A i \in 1 .. Len(q) : a[i] = q[i]
  BY QueueAppend
<1> HIDE DEF a
<1>2. ASSUME NEW i \in DOMAIN a, AboutAttempt(a[i]) PROVE i \in DOMAIN q /\ a[i] = q[i]
  BY <1>1, <1>2
<1>3. ASSUME NEW i \in DOMAIN q PROVE i \in DOMAIN a /\ a[i] = q[i]
  BY <1>1
<1>4. QueueMatches(a, e)
  BY <1>2, <1>3 DEF QueueMatches, AboutAttempt
<1> QED BY <1>4 DEF a

(* Taking a wake that reports on no attempt leaves the reports as they are. *)
LEMMA DropOther ==
  ASSUME NEW q \in Seq(WakeRecord), q # <<>>, ~AboutAttempt(Head(q)),
         NEW e, QueueMatches(q, e)
  PROVE QueueMatches(Tail(q), e)
<1> DEFINE s == Tail(q)
<1>1. /\ DOMAIN q = 1 .. Len(q) /\ Len(q) \in Nat \ {0} /\ Head(q) = q[1]
      /\ DOMAIN s = 1 .. Len(q) - 1 /\ \A i \in 1 .. Len(q) - 1 : s[i] = q[i + 1]
  BY QueueTail
<1> HIDE DEF s
<1>2. ASSUME NEW i \in DOMAIN s PROVE i + 1 \in DOMAIN q /\ s[i] = q[i + 1] /\ i \in Int
  BY <1>1
<1>3. ASSUME NEW i \in DOMAIN q, AboutAttempt(q[i])
      PROVE i - 1 \in DOMAIN s /\ s[i - 1] = q[i]
  BY <1>1, <1>3
<1>4. \A i, j \in DOMAIN s :
        AboutAttempt(s[i]) /\ AboutAttempt(s[j]) /\ s[i].task = s[j].task => i = j
  <2> SUFFICES ASSUME NEW i \in DOMAIN s, NEW j \in DOMAIN s, AboutAttempt(s[i]),
                      AboutAttempt(s[j]), s[i].task = s[j].task
               PROVE i = j
    OBVIOUS
  <2>1. i + 1 = j + 1 BY <1>2 DEF QueueMatches
  <2> QED BY <1>2, <2>1
<1>5. QueueMatches(s, e)
  BY <1>2, <1>3, <1>4 DEF QueueMatches, AboutAttempt
<1> QED BY <1>5 DEF s

(* Reports match entries of which only other fields have changed.           *)
LEMMA SameMatches ==
  ASSUME NEW q \in Seq(WakeRecord), NEW e, NEW f, QueueMatches(q, e),
         \A t \in Tasks : f[t].phase = e[t].phase /\ f[t].attempt = e[t].attempt
  PROVE QueueMatches(q, f)
<1>1. \A i \in DOMAIN q : AboutAttempt(q[i]) => q[i].task \in Tasks
  BY LenProperties, ElementOfSeq, AboutTask
<1> QED BY <1>1 DEF QueueMatches

(* The report of an attempt that just reached its phase is the one that was *)
(* missing.                                                                 *)
LEMMA PushReport ==
  ASSUME NEW q \in Seq(WakeRecord), NEW w \in WakeRecord, AboutAttempt(w),
         NEW e, NEW f, QueueMatches(q, e),
         e[w.task].phase \notin {"ended", "settled"},
         f[w.task].phase = IF w.kind = "attempt_done" THEN "ended" ELSE "settled",
         f[w.task].attempt = w.attempt,
         \A t \in Tasks \ {w.task} : f[t].phase = e[t].phase /\ f[t].attempt = e[t].attempt
  PROVE QueueMatches(Append(q, w), f)
<1> DEFINE a == Append(q, w)
<1>1. /\ DOMAIN q = 1 .. Len(q) /\ Len(q) \in Nat /\ DOMAIN a = 1 .. Len(q) + 1
      /\ a[Len(q) + 1] = w /\ \A i \in 1 .. Len(q) : a[i] = q[i]
  BY QueueAppend
<1> HIDE DEF a
<1>2. w.task \in Tasks BY AboutTask
<1>3. \A i \in DOMAIN q : AboutAttempt(q[i]) => q[i].task \in Tasks /\ q[i].task # w.task
  <2> SUFFICES ASSUME NEW i \in DOMAIN q, AboutAttempt(q[i])
               PROVE q[i].task \in Tasks /\ q[i].task # w.task
    OBVIOUS
  <2>1. q[i].task \in Tasks BY <1>1, ElementOfSeq, AboutTask
  <2>2. e[q[i].task].phase \in {"ended", "settled"} BY <2>1 DEF QueueMatches, AboutAttempt
  <2> QED BY <2>1, <2>2
<1>4. ASSUME NEW i \in DOMAIN a
      PROVE \/ i \in DOMAIN q /\ a[i] = q[i]
            \/ i = Len(q) + 1 /\ a[i] = w
  BY <1>1
<1>5. ASSUME NEW i \in DOMAIN q PROVE i \in DOMAIN a /\ a[i] = q[i]
  BY <1>1
<1>6. Len(q) + 1 \in DOMAIN a /\ a[Len(q) + 1] = w BY <1>1
<1>7. \A i, j \in DOMAIN a :
        AboutAttempt(a[i]) /\ AboutAttempt(a[j]) /\ a[i].task = a[j].task => i = j
  BY <1>3, <1>4 DEF QueueMatches
<1>8. \A i \in DOMAIN a : AboutAttempt(a[i]) => a[i].attempt = f[a[i].task].attempt
  BY <1>3, <1>4 DEF QueueMatches
<1>9. ASSUME NEW t \in Tasks, NEW k \in {"attempt_done", "finalized"}
      PROVE (\E i \in DOMAIN a : a[i].kind = k /\ a[i].task = t)
              <=> f[t].phase = IF k = "attempt_done" THEN "ended" ELSE "settled"
  <2>1. CASE t = w.task
    <3>1. w.kind \in {"attempt_done", "finalized"} BY DEF AboutAttempt
    <3>2. (\E i \in DOMAIN a : a[i].kind = k /\ a[i].task = t) <=> w.kind = k
      BY <1>3, <1>4, <1>6, <2>1 DEF AboutAttempt
    <3> QED BY <2>1, <3>1, <3>2
  <2>2. CASE t # w.task
    <3>1. (\E i \in DOMAIN a : a[i].kind = k /\ a[i].task = t)
            <=> (\E i \in DOMAIN q : q[i].kind = k /\ q[i].task = t)
      BY <1>4, <1>5, <2>2
    <3> QED BY <2>2, <3>1 DEF QueueMatches
  <2> QED BY <2>1, <2>2
<1>10. QueueMatches(a, f)
  BY <1>7, <1>8, <1>9 DEF QueueMatches
<1> QED BY <1>10 DEF a

(* Once its report is taken, an attempt that leaves its phase has none.     *)
LEMMA TakeReport ==
  ASSUME NEW q \in Seq(WakeRecord), q # <<>>, AboutAttempt(Head(q)),
         NEW e, NEW f, QueueMatches(q, e),
         f[Head(q).task].phase \notin {"ended", "settled"},
         \A t \in Tasks \ {Head(q).task} : f[t].phase = e[t].phase /\ f[t].attempt = e[t].attempt
  PROVE QueueMatches(Tail(q), f)
<1> DEFINE s == Tail(q)
           w == Head(q)
<1>1. /\ DOMAIN q = 1 .. Len(q) /\ Len(q) \in Nat \ {0} /\ w = q[1]
      /\ DOMAIN s = 1 .. Len(q) - 1 /\ \A i \in 1 .. Len(q) - 1 : s[i] = q[i + 1]
  BY QueueTail
<1>0. AboutAttempt(w) /\ f[w.task].phase \notin {"ended", "settled"}
      /\ \A t \in Tasks \ {w.task} : f[t].phase = e[t].phase /\ f[t].attempt = e[t].attempt
  OBVIOUS
<1> HIDE DEF s, w
<1>2. ASSUME NEW i \in DOMAIN s
      PROVE i + 1 \in DOMAIN q /\ s[i] = q[i + 1] /\ i \in Int /\ i + 1 # 1
  BY <1>1
<1>3. ASSUME NEW i \in DOMAIN q, i # 1
      PROVE i - 1 \in DOMAIN s /\ s[i - 1] = q[i]
  BY <1>1, <1>3
<1>4. \A i \in DOMAIN s : AboutAttempt(s[i]) => s[i].task \in Tasks /\ s[i].task # w.task
  <2> SUFFICES ASSUME NEW i \in DOMAIN s, AboutAttempt(s[i])
               PROVE s[i].task \in Tasks /\ s[i].task # w.task
    OBVIOUS
  <2>1. i + 1 \in DOMAIN q /\ s[i] = q[i + 1] /\ i + 1 # 1 /\ 1 \in DOMAIN q BY <1>1, <1>2
  <2>2. s[i].task \in Tasks BY <1>1, <2>1, ElementOfSeq, AboutTask
  <2> QED BY <1>0, <1>1, <2>1, <2>2 DEF QueueMatches
<1>5. \A i, j \in DOMAIN s :
        AboutAttempt(s[i]) /\ AboutAttempt(s[j]) /\ s[i].task = s[j].task => i = j
  <2> SUFFICES ASSUME NEW i \in DOMAIN s, NEW j \in DOMAIN s, AboutAttempt(s[i]),
                      AboutAttempt(s[j]), s[i].task = s[j].task
               PROVE i = j
    OBVIOUS
  <2>1. i + 1 = j + 1 BY <1>2 DEF QueueMatches
  <2> QED BY <1>2, <2>1
<1>6. \A i \in DOMAIN s : AboutAttempt(s[i]) => s[i].attempt = f[s[i].task].attempt
  BY <1>0, <1>2, <1>4 DEF QueueMatches
<1>7. ASSUME NEW t \in Tasks, NEW k \in {"attempt_done", "finalized"}
      PROVE (\E i \in DOMAIN s : s[i].kind = k /\ s[i].task = t)
              <=> f[t].phase = IF k = "attempt_done" THEN "ended" ELSE "settled"
  <2>1. CASE t = w.task
    <3>1. ~ \E i \in DOMAIN s : s[i].kind = k /\ s[i].task = t
      BY <1>4, <2>1 DEF AboutAttempt
    <3> QED BY <1>0, <2>1, <3>1
  <2>2. CASE t # w.task
    <3>1. (\E i \in DOMAIN s : s[i].kind = k /\ s[i].task = t)
            <=> (\E i \in DOMAIN q : q[i].kind = k /\ q[i].task = t)
      <4>1. ASSUME NEW i \in DOMAIN q, q[i].kind = k, q[i].task = t
            PROVE \E j \in DOMAIN s : s[j].kind = k /\ s[j].task = t
        <5>1. i # 1 BY <1>1, <2>2, <4>1
        <5> QED BY <1>3, <4>1, <5>1
      <4>2. ASSUME NEW i \in DOMAIN s, s[i].kind = k, s[i].task = t
            PROVE \E j \in DOMAIN q : q[j].kind = k /\ q[j].task = t
        BY <1>2, <4>2
      <4> QED BY <4>1, <4>2
    <3> QED BY <1>0, <2>2, <3>1 DEF QueueMatches
  <2> QED BY <2>1, <2>2
<1>8. QueueMatches(s, f)
  BY <1>5, <1>6, <1>7 DEF QueueMatches
<1> QED BY <1>8 DEF s

-----------------------------------------------------------------------------
(* Steps that disturb nothing *)

(* No attempt starts, ends or moves to another phase. *)
SameEntries ==
  \A t \in Tasks : /\ inflight'[t].attempt = inflight[t].attempt
                   /\ inflight'[t].kind = inflight[t].kind
                   /\ inflight'[t].phase = inflight[t].phase
                   /\ inflight'[t].holds = inflight[t].holds

(* The attempts in flight are those of the same tasks. *)
SameFlight == \A t \in Tasks : InFlight(t)' <=> InFlight(t)

(* No task becomes active or stops being active. *)
SameActive == \A t \in Tasks : task'[t] \in ActiveStates <=> task[t] \in ActiveStates

(* No report about an attempt is pushed or taken. *)
QuietQueue ==
  \/ wake' = wake
  \/ \E w \in WakeRecord : ~AboutAttempt(w) /\ wake' = Append(wake, w)
  \/ /\ wake # <<>> /\ ~AboutAttempt(Head(wake))
     /\ \/ wake' = Tail(wake)
        \/ \E w \in WakeRecord : ~AboutAttempt(w) /\ wake' = Append(Tail(wake), w)

(* The loop stays where no outcome is being applied, or where one has been.   *)
Settling == {"outcome", "cancel", "restart"}

SamePlace ==
  /\ pc # "outcome" /\ pc' # "outcome"
  /\ pc' \in Settling => pc \in Settling /\ UNCHANGED focus
  /\ pc' # "start"
  /\ pc' = "preflight" => pc \in {"start", "preflight"} /\ UNCHANGED wake

(* Reports stay matched with their attempts.                                *)
LEMMA ReportsKept ==
  ASSUME TypeOK, ReportsMatch, SameEntries, QuietQueue
  PROVE ReportsMatch'
<1>1. QueueMatches(wake, inflight) BY DEF ReportsMatch, Reported, QueueMatches
<1>2. wake \in Seq(WakeRecord) BY DEF TypeOK
<1>3. QueueMatches(wake', inflight)
  <2>1. CASE wake' = wake BY <1>1, <2>1
  <2>2. CASE \E w \in WakeRecord : ~AboutAttempt(w) /\ wake' = Append(wake, w)
    BY <1>1, <1>2, <2>2, PushOther
  <2>3. CASE /\ wake # <<>> /\ ~AboutAttempt(Head(wake))
             /\ \/ wake' = Tail(wake)
                \/ \E w \in WakeRecord : ~AboutAttempt(w) /\ wake' = Append(Tail(wake), w)
    <3>1. QueueMatches(Tail(wake), inflight) BY <1>1, <1>2, <2>3, DropOther
    <3>2. Tail(wake) \in Seq(WakeRecord) BY <1>2, <2>3, HeadTailProperties
    <3> QED BY <2>3, <3>1, <3>2, PushOther
  <2> QED BY <2>1, <2>2, <2>3 DEF QuietQueue
<1>4. wake' \in Seq(WakeRecord)
  BY <1>2, HeadTailProperties DEF QuietQueue
<1>5. QueueMatches(wake', inflight')
  BY <1>3, <1>4, SameMatches DEF SameEntries
<1> QED BY <1>5 DEF ReportsMatch, Reported, QueueMatches, AboutAttempt

(* The shared tree stays owned.                                             *)
LEMMA ClaimsKept ==
  ASSUME TreeOwned, EntriesClaim, SameEntries, UNCHANGED tree
  PROVE TreeOwned' /\ EntriesClaim'
<1>1. \A t \in Tasks : InFlight(t)' <=> InFlight(t) BY DEF SameEntries, InFlight
<1>2. TreeOwned' BY <1>1 DEF TreeOwned, SameEntries
<1>3. EntriesClaim' BY <1>1 DEF EntriesClaim, SameEntries, TakesTree
<1> QED BY <1>2, <1>3

(* Active tasks stay those with work.                                       *)
LEMMA WorkKept ==
  ASSUME TypeOK, ActiveHasWork, WorkOnce, SameFlight, SameActive, UNCHANGED pendingMerges,
         SamePlace
  PROVE ActiveHasWork' /\ WorkOnce'
<1>1. \A t \in Tasks : InFlight(t)' <=> InFlight(t) BY DEF SameFlight
<1>2. \A t \in Tasks : HasWork(t)' <=> HasWork(t) BY <1>1 DEF HasWork, SamePlace
<1>3. ActiveHasWork' BY <1>2 DEF ActiveHasWork, SameActive
<1>4. ASSUME NEW i \in DOMAIN pendingMerges PROVE pendingMerges[i].task \in Tasks
  <2>1. pendingMerges \in Seq([task : Tasks, attempt : Nat]) BY DEF TypeOK
  <2>2. pendingMerges[i] \in [task : Tasks, attempt : Nat] BY <2>1, LenProperties, ElementOfSeq
  <2> QED BY <2>2
<1>5. WorkOnce' BY <1>1, <1>4 DEF WorkOnce, SamePlace, Settling
<1> QED BY <1>3, <1>5

(* Nothing starts to work before the loop runs.                             *)
LEMMA QuietKept ==
  ASSUME StartsQuietly, SameFlight, UNCHANGED pendingMerges, SamePlace
  PROVE StartsQuietly'
  BY DEF StartsQuietly, SameFlight, SamePlace

(* A step that disturbs nothing keeps the invariant.                        *)
LEMMA Undisturbed ==
  ASSUME WorkInvariant, TypeOK', SameEntries, SameActive, QuietQueue,
         UNCHANGED <<tree, pendingMerges>>, SamePlace
  PROVE WorkInvariant'
<1>1. SameFlight BY DEF SameEntries, SameFlight, InFlight
<1> QED BY <1>1, ReportsKept, ClaimsKept, WorkKept, QuietKept DEF WorkInvariant

(* Aborting every worker moves no attempt to another phase.                 *)
LEMMA SameAborted ==
  ASSUME TypeOK, inflight' = AbortAll(inflight) \/ UNCHANGED inflight
  PROVE SameEntries
<1>1. ASSUME NEW t \in Tasks
      PROVE \/ inflight'[t] = inflight[t]
            \/ inflight'[t] = [inflight[t] EXCEPT !.aborted = TRUE]
  BY <1>1 DEF AbortAll
<1>2. \A t \in Tasks : inflight[t] \in EntryRecord BY DEF TypeOK
<1> QED BY <1>1, <1>2 DEF SameEntries, EntryRecord

(* A task that ends badly is not active, and nothing else changes but tasks *)
(* that were not active either (applyOnFailure).                            *)
LEMMA EndBadlyKeeps ==
  ASSUME TypeOK, NEW t \in Tasks, NEW s \in {"failed", "blocked"}, EndBadly(t, s)
  PROVE /\ SameEntries
        /\ \A u \in Tasks \ {t} : task'[u] \in ActiveStates <=> task[u] \in ActiveStates
        /\ task'[t] \notin ActiveStates
<1>1. SameEntries BY SameAborted DEF EndBadly
<1>2. \A u \in Tasks \ {t} : task'[u] \in ActiveStates <=> task[u] \in ActiveStates
  BY DEF EndBadly, ActiveStates
<1>3. task'[t] \notin ActiveStates BY DEF EndBadly, ActiveStates
<1> QED BY <1>1, <1>2, <1>3

(* Denying a permission prompt leaves its task active.                      *)
LEMMA SettledKeeps ==
  ASSUME TypeOK, NEW S, task' = Settled(S)
  PROVE SameActive
  BY DEF SameActive, Settled, ActiveStates, TypeOK

(* Aborting a worker disturbs nothing.                                      *)
LEMMA AbortWorkerKeeps ==
  ASSUME TypeOK, NEW t, AbortWorker(t)
  PROVE SameEntries /\ SameActive
<1>1. SameEntries BY DEF AbortWorker, SameEntries, TypeOK, EntryRecord
<1> QED BY <1>1, SettledKeeps DEF AbortWorker

(* Restarting a task makes none active: only one that has ended, or was     *)
(* suspended, restarts.                                                     *)
LEMMA RestartKeeps ==
  ASSUME TypeOK, NEW t \in Tasks, NEW b, Restart(t, b)
  PROVE SameActive
  BY DEF SameActive, Restart, TypeOK, RestartableStates, TerminalStates, ActiveStates

-----------------------------------------------------------------------------
(* The actions that disturb nothing *)

(* A task without work is not active. *)
LEMMA IdleTask ==
  ASSUME WorkInvariant, NEW t \in Tasks, ~HasWork(t)
  PROVE task[t] \notin ActiveStates
  BY DEF WorkInvariant, ActiveHasWork

(* An entry that is left alone disturbs nothing. *)
LEMMA LeftAlone ==
  ASSUME UNCHANGED inflight
  PROVE SameEntries
  BY DEF SameEntries

(* No state changes, so no task becomes or stops being active.              *)
LEMMA SameTask ==
  ASSUME UNCHANGED task
  PROVE SameActive
  BY DEF SameActive

(* A task that was not active and does not become it disturbs nothing.      *)
LEMMA ChangesIdle ==
  ASSUME TypeOK, NEW t, NEW s \in TaskState \ ActiveStates,
         t \in Tasks => task[t] \notin ActiveStates,
         task' = [task EXCEPT ![t] = s]
  PROVE SameActive
  BY DEF SameActive, TypeOK

(* Nothing works yet while the run is prepared.                             *)
LEMMA StartupQuiet ==
  ASSUME WorkInvariant, TypeOK', Startup PROVE WorkInvariant'
<1>0. TypeOK /\ StartsQuietly BY DEF WorkInvariant
<1>1. pc \in {"start", "preflight"} BY DEF Startup, Prepare, FailPreflight, EnterLoop
<1>2. \A t \in Tasks : ~HasWork(t) BY <1>0, <1>1 DEF HasWork, StartsQuietly
<1>3. \A t \in Tasks : task[t] \notin ActiveStates BY <1>2, IdleTask
<1>4. CASE Prepare
  <2>1. SameActive BY <1>3, <1>4 DEF Prepare, Prepared, SameActive, ActiveStates, TypeOK
  <2>2. SameEntries BY <1>4, LeftAlone DEF Prepare, workVars
  <2>3. QuietQueue /\ SamePlace /\ UNCHANGED <<tree, pendingMerges>>
    BY <1>4 DEF Prepare, Goto, QuietQueue, SamePlace, Settling, workVars
  <2> QED BY <2>1, <2>2, <2>3, Undisturbed
<1>5. ASSUME NEW t \in Tasks, FailPreflight(t) PROVE WorkInvariant'
  <2>1. EndBadly(t, "failed") BY <1>5 DEF FailPreflight
  <2>2. SameEntries /\ SameActive BY <1>0, <1>3, <2>1, EndBadlyKeeps DEF SameActive
  <2>3. QuietQueue /\ SamePlace /\ UNCHANGED <<tree, pendingMerges>>
    BY <1>5 DEF FailPreflight, QuietQueue, SamePlace, Settling, loopVars
  <2> QED BY <2>2, <2>3, Undisturbed
<1>6. CASE EnterLoop
  <2>1. QuietQueue /\ SamePlace /\ UNCHANGED <<tree, pendingMerges, task, inflight>>
    BY <1>6 DEF EnterLoop, Goto, QuietQueue, SamePlace, Settling, workVars
  <2> QED BY <2>1, LeftAlone, SameTask, Undisturbed
<1> QED BY <1>4, <1>5, <1>6 DEF Startup

(* The promotion pass only moves tasks that have not started.               *)
LEMMA PromoteQuiet ==
  ASSUME WorkInvariant, TypeOK', Promote PROVE WorkInvariant'
<1>0. TypeOK BY DEF WorkInvariant
<1>1. CASE StartPass
  <2>1. QuietQueue /\ SamePlace /\ UNCHANGED <<tree, pendingMerges, task, inflight>>
    BY <1>1 DEF StartPass, Goto, QuietQueue, SamePlace, Settling, workVars
  <2> QED BY <2>1, LeftAlone, SameTask, Undisturbed
<1>2. CASE EndPass
  <2>1. QuietQueue /\ SamePlace /\ UNCHANGED <<tree, pendingMerges, task, inflight>>
    BY <1>2 DEF EndPass, Goto, QuietQueue, SamePlace, Settling, workVars
  <2> QED BY <2>1, LeftAlone, SameTask, Undisturbed
<1>3. ASSUME NEW i \in DOMAIN Topo, Promoting(i)
      PROVE /\ SamePlace /\ UNCHANGED <<tree, pendingMerges>>
            /\ Topo[i] \in Tasks /\ task[Topo[i]] \notin ActiveStates
  <2>1. SamePlace /\ UNCHANGED <<tree, pendingMerges>>
    BY <1>3 DEF Promoting, SamePlace, Settling
  <2>2. task[Topo[i]] = "pending" BY <1>3 DEF Promoting, Promotable
  <2>3. Topo[i] \in Tasks BY Order, TaskAt
  <2> QED BY <2>1, <2>2, <2>3 DEF ActiveStates
<1>4. ASSUME NEW i \in DOMAIN Topo, Promoting(i), QuietQueue,
             NEW s \in {"blocked", "skipped", "ready", "awaiting_approval"},
             task' = [task EXCEPT ![Topo[i]] = s], UNCHANGED inflight
      PROVE WorkInvariant'
  <2>1. s \in TaskState \ ActiveStates BY DEF TaskState, ActiveStates
  <2>2. SameActive BY <1>0, <1>3, <1>4, <2>1, ChangesIdle
  <2> QED BY <1>3, <1>4, <2>2, LeftAlone, Undisturbed
<1>5. CASE BlockOnDependency \/ SkipOnCondition \/ MakeReady
  BY <1>4, <1>5 DEF BlockOnDependency, SkipOnCondition, MakeReady, QuietQueue
<1>6. CASE FailOnCondition
  <2> PICK i \in DOMAIN Topo : FailOnCondition!(i) BY <1>6 DEF FailOnCondition
  <2>1. Promoting(i) /\ EndBadly(Topo[i], "failed") /\ UNCHANGED wake OBVIOUS
  <2>2. SameEntries /\ SameActive BY <1>0, <1>3, <2>1, EndBadlyKeeps DEF SameActive
  <2> QED BY <1>3, <2>1, <2>2, Undisturbed DEF QuietQueue
<1>7. CASE OpenGate
  <2> PICK i \in DOMAIN Topo : OpenGate!(i) BY <1>7 DEF OpenGate
  <2>1. Promoting(i) /\ UNCHANGED inflight OBVIOUS
  <2>2. Topo[i] \in Tasks BY <1>3, <2>1
  <2>3. QuietQueue
    <3>1. CASE decided[Topo[i]] # "none"
      <4>1. Approval(Topo[i], decided[Topo[i]]) \in WakeRecord
        BY <1>0, <3>1, <2>2 DEF TypeOK, Approval, WakeRecord
      <4>2. ~AboutAttempt(Approval(Topo[i], decided[Topo[i]])) BY DEF AboutAttempt, Approval
      <4> QED BY <3>1, <4>1, <4>2 DEF QuietQueue
    <3>2. CASE decided[Topo[i]] = "none" BY <3>2 DEF QuietQueue
    <3> QED BY <3>1, <3>2
  <2> QED BY <1>4, <2>1, <2>3
<1> QED BY <1>1, <1>2, <1>5, <1>6, <1>7 DEF Promote

(* Taking a wake that reports on no attempt is quiet, whether or not        *)
(* another such wake is pushed.                                             *)
LEMMA HandledQuietly ==
  ASSUME TypeOK, NEW w \in Handled, ~AboutAttempt(w),
         \/ Took
         \/ \E v \in WakeRecord : ~AboutAttempt(v) /\ wake' = Append(Tail(wake), v)
  PROVE QuietQueue
<1>1. wake # <<>> /\ w = Head(wake) BY DEF Handled
<1> QED BY <1>1 DEF Took, QuietQueue

(* An answer at a gate, a retry that is due and a stop disturb nothing.     *)
LEMMA WakeQuiet ==
  ASSUME WorkInvariant, TypeOK', HandleApproval \/ HandleRetryDue \/ HandleStop
  PROVE WorkInvariant'
<1>0. TypeOK BY DEF WorkInvariant
<1>1. SamePlace /\ UNCHANGED <<tree, pendingMerges>>
  BY DEF HandleApproval, HandleRetryDue, HandleStop, Handled, Goto, SamePlace, Settling, workVars
<1>2. QuietQueue
  BY <1>0, HandledQuietly DEF HandleApproval, HandleRetryDue, HandleStop, AboutAttempt
<1>3. SameEntries /\ SameActive
  <2>1. CASE HandleApproval
    <3> PICK w \in Handled : HandleApproval!(w) BY <2>1 DEF HandleApproval
    <3>1. w.task \in Tasks BY <1>0, HeadOfQueue, ReportType
    <3>2. CASE UNCHANGED <<task, inflight>> BY <3>2, LeftAlone, SameTask
    <3>3. CASE task[w.task] = "awaiting_approval"
      <4>1. task[w.task] \notin ActiveStates BY <3>3 DEF ActiveStates
      <4>2. CASE EndBadly(w.task, "failed")
        BY <1>0, <3>1, <4>1, <4>2, EndBadlyKeeps DEF SameActive
      <4>3. CASE task' = [task EXCEPT ![w.task] = "success"] /\ UNCHANGED inflight
        <5>1. "success" \in TaskState \ ActiveStates BY DEF TaskState, ActiveStates
        <5> QED BY <1>0, <4>1, <4>3, <5>1, ChangesIdle, LeftAlone
      <4> QED BY <3>3, <4>2, <4>3
    <3> QED BY <3>2, <3>3
  <2>2. CASE HandleRetryDue BY <2>2, LeftAlone, SameTask DEF HandleRetryDue, workVars
  <2>3. CASE HandleStop
    <3>1. task' = Settled(Tasks) /\ (inflight' = AbortAll(inflight) \/ UNCHANGED inflight)
      BY <2>3 DEF HandleStop, ApplyStop
    <3> QED BY <1>0, <3>1, SameAborted, SettledKeeps
  <2> QED BY <2>1, <2>2, <2>3
<1> QED BY <1>1, <1>2, <1>3, Undisturbed

(* The task of an outcome that has been applied has no work, so a late      *)
(* cancel or an owed restart disturbs nothing.                              *)
LEMMA SettleQuiet ==
  ASSUME WorkInvariant, TypeOK', SettleCancel \/ SettleRestart PROVE WorkInvariant'
<1>0. TypeOK /\ WorkOnce BY DEF WorkInvariant
<1>1. pc \in {"cancel", "restart"} /\ focus.back \in {"pass", "merges"}
  BY FocusType DEF SettleCancel, SettleRestart
<1>2. /\ focus.task \in Tasks /\ ~HasWork(focus.task)
  BY <1>0, <1>1 DEF WorkOnce, HasWork
<1>3. task[focus.task] \notin ActiveStates BY <1>2, IdleTask
<1>4. QuietQueue /\ SamePlace /\ UNCHANGED <<tree, pendingMerges, inflight>>
  BY <1>1 DEF SettleCancel, SettleRestart, Goto, QuietQueue, SamePlace, Settling, workVars
<1>5. SameActive
  <2>1. CASE UNCHANGED task BY <2>1, SameTask
  <2>2. CASE SettleCancel /\ Became("cancelled")
    <3>1. "cancelled" \in TaskState \ ActiveStates BY DEF TaskState, ActiveStates
    <3> QED BY <1>0, <1>3, <2>2, <3>1, ChangesIdle DEF Became, Focused
  <2>3. CASE Restart(focus.task, FALSE) BY <1>0, <1>2, <2>3, RestartKeeps
  <2> QED BY <2>1, <2>2, <2>3 DEF SettleCancel, SettleRestart, Focused
<1> QED BY <1>4, <1>5, LeftAlone, Undisturbed

(* No control command starts, ends or moves an attempt: at most it aborts   *)
(* one.                                                                     *)
LEMMA ControlQuiet ==
  ASSUME WorkInvariant, TypeOK', HandleControl PROVE WorkInvariant'
<1>0. TypeOK BY DEF WorkInvariant
<1>1. PICK w \in Handled :
        /\ w.kind = "control" /\ pc' = "pass" /\ UNCHANGED <<tree, pendingMerges>>
        /\ \/ Took
           \/ wake' = Append(Tail(wake), RetryDue)
  BY DEF HandleControl, RejectCommand, StopRun, HoldRun, ReleaseRun, RestartTask, CancelTask,
         SuspendTask, ResumeTask, FollowUp, StopAndContinue, EditNothing, EditTask, Commanded,
         Goto, workVars
<1>2. SamePlace BY <1>1 DEF Handled, SamePlace, Settling
<1>3. QuietQueue
  <2>1. RetryDue \in WakeRecord /\ ~AboutAttempt(RetryDue) /\ ~AboutAttempt(w)
    BY <1>1 DEF RetryDue, WakeRecord, AboutAttempt
  <2> QED BY <1>0, <1>1, <2>1, HandledQuietly
<1>4. SameEntries /\ SameActive
  <2>1. CASE UNCHANGED <<task, inflight>> BY <2>1, LeftAlone, SameTask
  <2>2. CASE StopRun
    <3>1. task' = Settled(Tasks) /\ (inflight' = AbortAll(inflight) \/ UNCHANGED inflight)
      BY <2>2 DEF StopRun, ApplyStop
    <3> QED BY <1>0, <3>1, SameAborted, SettledKeeps
  <2>3. CASE \E t : AbortWorker(t) BY <1>0, <2>3, AbortWorkerKeeps
  <2>4. CASE UNCHANGED inflight /\ \E t \in Tasks, b \in BOOLEAN : Restart(t, b)
    BY <1>0, <2>4, RestartKeeps, LeftAlone
  <2>5. CASE /\ UNCHANGED inflight
             /\ \E t : task[t] \notin ActiveStates /\ task' = [task EXCEPT ![t] = "pending"]
    <3>1. "pending" \in TaskState \ ActiveStates BY DEF TaskState, ActiveStates
    <3> QED BY <1>0, <2>5, <3>1, ChangesIdle, LeftAlone
  <2>6. CASE RejectCommand \/ HoldRun \/ ReleaseRun
    BY <2>1, <2>6 DEF RejectCommand, HoldRun, ReleaseRun
  <2>7. CASE CancelTask \/ SuspendTask \/ StopAndContinue
    BY <2>1, <2>3, <2>7 DEF CancelTask, SuspendTask, StopAndContinue
  <2>8. CASE RestartTask \/ ResumeTask
    <3> PICK v \in Handled, b \in BOOLEAN :
          /\ Commanded(v, "restart") \/ Commanded(v, "resumeTask")
          /\ Restart(v.command.task, b) /\ UNCHANGED inflight
      BY <2>8 DEF RestartTask, ResumeTask
    <3>1. v.command.task \in Tasks BY <1>0, CommandedTask
    <3> QED BY <2>4, <3>1
  <2>9. CASE FollowUp
    <3> PICK v \in Handled : FollowUp!(v) BY <2>9 DEF FollowUp
    <3>1. task[v.command.task] \notin ActiveStates
      BY DEF CanFollowUp, FollowUpStates, ActiveStates
    <3> QED BY <2>5, <3>1 DEF workVars
  <2>10. CASE EditNothing
    <3> PICK v \in Handled : EditNothing!(v) BY <2>10 DEF EditNothing
    <3>1. v.command.task \in Tasks BY <1>0, CommandedTask
    <3> QED BY <2>1, <2>4, <3>1
  <2>11. CASE EditTask
    <3> PICK v \in Handled : EditTask!(v) BY <2>11 DEF EditTask
    <3> DEFINE t == v.command.task
    <3>1. CASE AbortWorker(t) BY <2>3, <3>1
    <3>2. CASE UNCHANGED <<task, inflight>> BY <2>1, <3>2
    <3>3. CASE RestartPlan(t) = "restart" /\ UNCHANGED inflight /\ task' = [task EXCEPT ![t] = "pending"]
      <4>1. task[t] \notin ActiveStates BY <3>3 DEF RestartPlan
      <4> QED BY <2>5, <3>3, <4>1
    <3> QED BY <3>1, <3>2, <3>3
  <2> QED BY <2>2, <2>6, <2>7, <2>8, <2>9, <2>10, <2>11 DEF HandleControl
<1> QED BY <1>1, <1>2, <1>3, <1>4, Undisturbed

(* Parking and ending disturb nothing.                                      *)
LEMMA ParkQuiet ==
  ASSUME WorkInvariant, TypeOK', Park \/ Finalize PROVE WorkInvariant'
<1>1. QuietQueue /\ SamePlace /\ UNCHANGED <<tree, pendingMerges, inflight>>
  BY DEF Park, Finalize, Idle, Goto, QuietQueue, SamePlace, Settling, workVars
<1>2. SameActive BY DEF Park, Finalize, SameActive, ActiveStates
<1> QED BY <1>1, <1>2, LeftAlone, Undisturbed

(* Sessions, prompts, gates, time and commands disturb nothing.             *)
LEMMA WorldQuiet ==
  ASSUME WorkInvariant, TypeOK',
         \/ \E t \in Tasks : \/ ReportSession(t) \/ AskOperator(t) \/ AnswerOperator(t)
                             \/ AnswerGate(t) \/ BecomeDue(t)
         \/ TimerFires
         \/ \E c \in Commands : Submit(c)
  PROVE WorkInvariant'
<1>0. TypeOK BY DEF WorkInvariant
<1>1. SamePlace /\ UNCHANGED <<tree, pendingMerges, inflight>>
  BY DEF ReportSession, AskOperator, AnswerOperator, AnswerGate, BecomeDue, TimerFires, Submit,
         EnvironmentTurn, SamePlace, Settling, workVars, loopVars
<1>2. QuietQueue
  <2>1. ASSUME NEW w \in WakeRecord, ~AboutAttempt(w), Pushes(w) PROVE QuietQueue
    BY <2>1 DEF Pushes, QuietQueue
  <2>2. CASE UNCHANGED wake BY <2>2 DEF QuietQueue
  <2>3. ASSUME NEW t \in Tasks, AnswerGate(t) PROVE QuietQueue
    <3>1. \A w \in {Approval(t, "approved"), Approval(t, "rejected"), StopWake("wait", "pause")} :
            w \in WakeRecord /\ ~AboutAttempt(w)
      BY DEF Approval, StopWake, WakeRecord, AboutAttempt
    <3> QED BY <2>1, <2>3, <3>1 DEF AnswerGate
  <2>4. CASE TimerFires
    <3>1. RetryDue \in WakeRecord /\ ~AboutAttempt(RetryDue)
      BY DEF RetryDue, WakeRecord, AboutAttempt
    <3> QED BY <2>1, <2>4, <3>1 DEF TimerFires
  <2>5. ASSUME NEW c \in Commands, Submit(c) PROVE QuietQueue
    <3>1. submitted + 1 \in 1 .. MaxControls
      BY <1>0, <2>5, OptionsAssumption DEF Submit, TypeOK
    <3>2. Control(c, submitted + 1) \in WakeRecord /\ ~AboutAttempt(Control(c, submitted + 1))
      BY <3>1 DEF Control, WakeRecord, AboutAttempt
    <3> QED BY <2>1, <2>5, <3>2 DEF Submit
  <2> QED
    BY <2>2, <2>3, <2>4, <2>5 DEF ReportSession, AskOperator, AnswerOperator, BecomeDue
<1>3. SameActive
  <2>1. ASSUME NEW t \in Tasks, AskOperator(t) \/ AnswerOperator(t) PROVE SameActive
    BY <1>0, <2>1 DEF AskOperator, AnswerOperator, SameActive, ActiveStates, TypeOK
  <2>2. CASE UNCHANGED task BY <2>2, SameTask
  <2> QED
    BY <2>1, <2>2 DEF ReportSession, AnswerGate, BecomeDue, TimerFires, Submit
<1> QED BY <1>1, <1>2, <1>3, LeftAlone, Undisturbed
=============================================================================
