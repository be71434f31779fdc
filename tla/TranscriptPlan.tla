--------------------------- MODULE TranscriptPlan ---------------------------
(***************************************************************************)
(* How a transcript becomes the tree a screen shows                        *)
(* (src/packages/protocol/src/transcript-plan.ts), twice: PlanTranscript   *)
(* plans a whole log, and createTranscriptPlan keeps a plan while entries  *)
(* arrive, one Append at a time, and tells its surface what moved.         *)
(*                                                                         *)
(* An entry is known by the position it arrived at.  A planned node is the *)
(* value a reader holds: it contains its children's nodes as they were     *)
(* when it was built, so one that is not rebuilt is stale.                 *)
(***************************************************************************)
EXTENDS Integers, Sequences, FiniteSets, SequencesExt, TLC

CONSTANTS
  CallIds,          \* tool use ids
  MaxEntries    \* bound: entries of one attempt

VARIABLES
  log,          \* the entries taken since the last reset
  slot,         \* slots: per entry, where it renders and its node
  memo,         \* the maps kept between appends
  tree          \* the cached answer of plan()

planVars == <<log, slot, memo, tree>>

None   == "none"
Undated == -1

(* TranscriptEntry, as far as a plan reads one. *)
Entry ==
  [kind : {"tool", "tool_result"}, id : CallIds, parent : CallIds \cup {None}, dated : BOOLEAN]
  \cup [kind : {"text"}, id : {None}, parent : CallIds, dated : {TRUE}]
  \cup [kind : {"result"}, id : {None}, parent : {None}, dated : {TRUE}]

(* entryToolUseId of the call itself: a result carries its call's id, not its own. *)
OwnId(e) == IF e.kind = "tool_result" THEN None ELSE e.id
IsResultOf(e, id) == e.kind = "tool_result" /\ e.id = id

(* timestampMs: arrival is the clock. *)
Date(es, i) == IF es[i].dated THEN i ELSE Undated

Closing(es) == es # <<>> /\ Last(es).kind = "result"

NodeOf(n, elapsed, kids, hasKids, nested, result, unanswered) ==
  [entry |-> n, elapsed |-> elapsed, children |-> kids, delegates |-> hasKids,
   nested |-> nested, result |-> result, unanswered |-> unanswered]

RECURSIVE CountNested(_)
CountNested(kids) ==
  IF kids = <<>> THEN 0
  ELSE LET c == Head(kids)
       IN 1 + c.nested + (IF c.result # 0 THEN 1 ELSE 0) + CountNested(Tail(kids))

-----------------------------------------------------------------------------
(* planTranscript: the whole log at once *)

First(S) == IF S = {} THEN 0 ELSE CHOOSE i \in S : \A j \in S : i <= j

CallAt(es, id)   == First({i \in DOMAIN es : OwnId(es[i]) = id})
ResultAt(es, id) == First({i \in DOMAIN es : IsResultOf(es[i], id)})

Later(a, b) == IF b >= a THEN b - a ELSE 0

Elapsed(es, id) ==
  LET call  == CallAt(es, id)
      ended == First({i \in DOMAIN es : IsResultOf(es[i], id) /\ es[i].dated})
  IN IF call = 0 \/ ended = 0 \/ ~es[call].dated THEN Undated ELSE Later(call, ended)

(* The entries a known call spawned, in the order they arrived. *)
Spawned(es, id) ==
  IF id = None \/ CallAt(es, id) = 0 THEN <<>>
  ELSE SelectSeq([i \in DOMAIN es |-> i], LAMBDA i : es[i].parent = id)

RECURSIVE Build(_, _, _, _)
Build(es, list, under, over) ==
  IF list = <<>> THEN <<>>
  ELSE
    LET i    == Head(list)
        e    == es[i]
        id   == OwnId(e)
        kids == Spawned(es, id)
        plan == Build(es, kids, id, over)
        elsewhere == \/ e.parent # under /\ Spawned(es, e.parent) # <<>>
                     \/ e.kind = "tool_result" /\ Spawned(es, e.id) # <<>>
        node == NodeOf(i, IF id = None THEN Undated ELSE Elapsed(es, id),
                       plan, kids # <<>>, CountNested(plan),
                       IF kids = <<>> THEN 0 ELSE ResultAt(es, id),
                       over /\ id # None /\ ResultAt(es, id) = 0)
    IN (IF elsewhere THEN <<>> ELSE <<node>>) \o Build(es, Tail(list), under, over)

PlanTranscript(es, over) == Build(es, [i \in DOMAIN es |-> i], None, over)

-----------------------------------------------------------------------------
(* createTranscriptPlan: the maps of one attempt.  A slot's entry is its     *)
(* position; under is the call it renders below.                             *)

Empty ==
  [calls    |-> [id \in CallIds |-> 0],    \* the first call of an id
   elapsed  |-> [id \in CallIds |-> Undated],
   result   |-> [id \in CallIds |-> 0],
   children |-> [id \in CallIds |-> <<>>],
   early    |-> [id \in CallIds |-> <<>>], \* results of a call not seen yet
   waiting  |-> [id \in CallIds |-> <<>>], \* entries of a call not seen yet
   owners   |-> [id \in CallIds |-> <<>>],
   answers  |-> [id \in CallIds |-> <<>>],
   open     |-> {},
   ended    |-> FALSE, over |-> FALSE]

Hidden(es, m, i) == es[i].kind = "tool_result" /\ m.children[es[i].id] # <<>>

Nodes(s, list) == FoldLeft(LAMBDA nodes, i : Append(nodes, s[i].node), <<>>, list)

PlannedFor(es, m, s, i) ==
  LET id   == OwnId(es[i])
      kids == IF id = None THEN <<>> ELSE m.children[id]
      plan == Nodes(s, SelectSeq(kids, LAMBDA j : ~Hidden(es, m, j)))
  IN NodeOf(i, IF id = None THEN Undated ELSE m.elapsed[id], plan, kids # <<>>,
            CountNested(plan), IF kids = <<>> THEN 0 ELSE m.result[id],
            m.over /\ id # None /\ m.result[id] = 0)

(* The slots an update reaches: its seeds, and whatever holds them.  A stack  *)
(* is walked from its end.                                                   *)
RECURSIVE Affected(_, _, _, _)
Affected(m, s, stack, reached) ==
  IF stack = <<>> THEN reached
  ELSE LET i == Last(stack)
           rest == Front(stack)
       IN IF Contains(reached, i) THEN Affected(m, s, rest, reached)
          ELSE Affected(m, s,
                 rest \o (IF s[i].under = None THEN <<>> ELSE m.owners[s[i].under]),
                 Append(reached, i))

(* One sweep rebuilds each of them, in the order they were reached. *)
Sweep(es, m, s, reached) ==
  FoldLeft(LAMBDA acc, i : [acc EXCEPT ![i].node = PlannedFor(es, m, acc, i)], s, reached)

RECURSIVE Settled(_, _, _, _, _)
Settled(es, m, s, reached, sweeps) ==
  LET next == Sweep(es, m, s, reached)
  IN IF sweeps = 0 \/ next = s THEN s ELSE Settled(es, m, next, reached, sweeps - 1)

(* Mutant: one pass upward from the seeds, instead of sweeping until nothing moves. *)
RefreshOnce(es, m, s, seeds) == Sweep(es, m, s, Affected(m, s, seeds, <<>>))

Refresh(es, m, s, seeds) ==
  LET reached == Affected(m, s, seeds, <<>>)
  IN Settled(es, m, s, reached, Len(reached))

(* timeCall, over the positions of results. *)
TimeCall(es, m, id, results) ==
  LET dated == SelectSeq(results, LAMBDA i : es[i].dated)
  IN IF \/ m.calls[id] = 0 \/ dated = <<>> \/ m.elapsed[id] # Undated
        \/ ~es[m.calls[id]].dated
     THEN m
     ELSE [m EXCEPT !.elapsed[id] = Later(m.calls[id], Head(dated))]

(* A call the transcript had not seen dates the results already waiting on   *)
(* it, and adopts the entries that named it before it arrived.               *)
Arrive(es, m, n) ==
  LET id == OwnId(es[n])
  IN IF id = None THEN m
     ELSE IF m.calls[id] # 0 THEN m
     ELSE LET known == [m EXCEPT !.calls[id] = n]
              timed == TimeCall(es, known, id, m.early[id])
          IN [timed EXCEPT !.early[id] = <<>>,
                           !.children[id] = @ \o m.waiting[id],
                           !.waiting[id] = <<>>]

(* The result of a call: the first is its report, the first with a date times it. *)
Answer(es, m, n) ==
  LET id == es[n].id
      reported == IF m.result[id] = 0
                  THEN [m EXCEPT !.result[id] = n, !.open = @ \ {id}] ELSE m
      timed == IF m.calls[id] # 0 THEN TimeCall(es, reported, id, <<n>>)
               ELSE [reported EXCEPT !.early[id] = Append(@, n)]
  IN IF es[n].kind # "tool_result" THEN m
     ELSE [timed EXCEPT !.answers[id] = Append(@, n)]

Place(es, m, n) ==
  LET p == es[n].parent
  IN IF p = None THEN m
     ELSE IF m.calls[p] # 0 THEN [m EXCEPT !.children[p] = Append(@, n)]
     ELSE [m EXCEPT !.waiting[p] = Append(@, n)]

Own(es, m, n) ==
  LET id == OwnId(es[n])
  IN IF id = None THEN m
     ELSE [m EXCEPT !.owners[id] = Append(@, n),
                    !.open = IF m.result[id] = 0 THEN @ \cup {id} ELSE @]

(* The calls whose nodes an entry changed, and the reports that left the     *)
(* list they were in because their call has gained its first child.          *)
Moved(old, new) ==
  {id \in CallIds : \/ new.children[id] # old.children[id]
                \/ new.elapsed[id] # old.elapsed[id]
                \/ new.result[id] # old.result[id]}
Reports(old, new) ==
  {i \in UNION {Range(new.answers[id]) : id \in
       {id \in CallIds : old.children[id] = <<>> /\ new.children[id] # <<>>}} : TRUE}

Seeds(es, old, new, s) ==
  LET calls   == Moved(old, new) \cup
                 ({s[i].under : i \in Reports(old, new)} \ {None})
  IN SetToSeq(UNION {Range(new.owners[id]) : id \in calls})

(* take *)
Take(st, e) ==
  LET es  == Append(st.log, e)
      n   == Len(es)
      m   == Own(es, Place(es, Answer(es, Arrive(es, st.memo, n), n), n), n)
      under(i) == IF es[i].parent # None /\ m.calls[es[i].parent] # 0
                  THEN es[i].parent ELSE None
      old  == FoldLeft(LAMBDA acc, i : Append(acc, [st.slot[i] EXCEPT !.under = under(i)]),
                       <<>>, [i \in 1 .. n - 1 |-> i])
      own  == Append(old, [under |-> under(n), node |-> PlannedFor(es, m, old, n)])
  IN [log |-> es, memo |-> m, slot |-> Refresh(es, m, own, Seeds(es, st.memo, m, own))]

(* settle: whether the attempt is over may turn, both ways. *)
Settle(st) ==
  LET over == st.memo.ended \/ Closing(st.log)
      m    == [st.memo EXCEPT !.over = over]
      seeds == SetToSeq(UNION {Range(m.owners[id]) : id \in m.open})
  IN IF over = st.memo.over THEN st
     ELSE [st EXCEPT !.memo = m, !.slot = Refresh(st.log, m, st.slot, seeds)]

-----------------------------------------------------------------------------
(* The planner and its surface *)

InitPlan == log = <<>> /\ slot = <<>> /\ memo = Empty /\ tree = <<>>

Current == [log |-> log, slot |-> slot, memo |-> memo]

(* A log in which a call is its own ancestor is one no plan exists of. *)
Holds(es) == {<<p, id>> \in CallIds \X CallIds :
                \E i \in DOMAIN es : OwnId(es[i]) = id /\ es[i].parent = p}
RECURSIVE Reaches(_, _, _)
Reaches(R, S, n) ==
  IF n = 0 THEN S ELSE Reaches(R, S \cup {r[2] : r \in {x \in R : x[1] \in S}}, n - 1)
Plannable(es) ==
  \A id \in CallIds :
    id \notin Reaches(Holds(es), {r[2] : r \in {x \in Holds(es) : x[1] = id}}, Cardinality(CallIds))

TopLevel(st) ==
  Nodes(st.slot, SelectSeq([i \in DOMAIN st.slot |-> i],
    LAMBDA i : st.slot[i].under = None /\ ~Hidden(st.log, st.memo, i)))

(* A surface reads the plan after every delta: it is the cached tree, unless *)
(* something moved.                                                          *)
Became(st) ==
  /\ log' = st.log /\ slot' = st.slot /\ memo' = st.memo
  /\ tree' = IF st = Current THEN tree ELSE TopLevel(st)

(* append.  Several entries differ from one at a time only in where the       *)
(* attempt is found to be over, so two of which the first closes it will do. *)
AppendEntries ==
  \E es \in {<<e>> : e \in Entry} \cup {<<e, f>> : e \in {x \in Entry : x.kind = "result"}, f \in Entry} :
    /\ Len(log) + Len(es) <= MaxEntries
    /\ Plannable(log \o es)
    /\ Became(Settle(FoldLeft(Take, Current, es)))

(* end: the attempt died without a last word. *)
End == ~memo.ended /\ Became(Settle([Current EXCEPT !.memo.ended = TRUE]))

(* reset, for the next attempt: an id of this one may come again. *)
Reset ==
  /\ log # <<>>
  /\ log' = <<>> /\ slot' = <<>> /\ memo' = Empty /\ tree' = <<>>

NextPlan == AppendEntries \/ End \/ Reset

-----------------------------------------------------------------------------
(* Properties *)

(* However the entries arrived and were batched, a read plan is the one the  *)
(* whole log has: "the equivalence property" of createTranscriptPlan.        *)
PlanAgrees == tree = PlanTranscript(log, memo.ended \/ Closing(log))

=============================================================================
