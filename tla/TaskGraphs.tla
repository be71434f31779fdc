----------------------------- MODULE TaskGraphs -----------------------------
(***************************************************************************)
(* The algorithms on the dependency graph of a workflow                     *)
(* (src/src/workflow/graph.ts).  A graph is a record: ids, the tasks in     *)
(* document order, and deps, the sequence each of them lists in dependsOn,  *)
(* where a name that is no task, or the same name twice, may occur.         *)
(***************************************************************************)
EXTENDS Integers, Sequences, FiniteSets, SequencesExt

Known(g, id) == Contains(g.ids, id)
Times(s, x)  == Cardinality({i \in DOMAIN s : s[i] = x})

(* dependenciesOf, dependentsOf: the tasks that list id, in document order,  *)
(* as often as they list it.                                                 *)
DependenciesOf(g, id) == IF Known(g, id) THEN g.deps[id] ELSE <<>>
DependentsOf(g, id) ==
  FlattenSeq([i \in DOMAIN g.ids |->
    [j \in 1 .. Times(g.deps[g.ids[i]], id) |-> g.ids[i]]])

-----------------------------------------------------------------------------
(* findCycle: a depth-first search.  A search is the stack of tasks being    *)
(* visited (gray), those done with (black), and the cycle once it has one.   *)

RECURSIVE Visit(_, _, _)
Visit(g, list, search) ==
  IF list = <<>> \/ search.cycle # <<>> THEN search
  ELSE LET d      == Head(list)
           at     == SelectInSeq(search.stack, LAMBDA u : u = d)
           inside == Visit(g, g.deps[d], [search EXCEPT !.stack = Append(@, d)])
           after  == CASE ~Known(g, d) \/ d \in search.black -> search
                       [] at # 0 -> [search EXCEPT !.cycle =
                            Append(SubSeq(search.stack, at, Len(search.stack)), d)]
                       [] OTHER -> [inside EXCEPT !.stack = search.stack,
                                                  !.black = @ \cup {d}]
       IN Visit(g, Tail(list), after)

FindCycle(g) == Visit(g, g.ids, [stack |-> <<>>, black |-> {}, cycle |-> <<>>]).cycle

-----------------------------------------------------------------------------
(* layers: Kahn's algorithm, ties in document order.  left is indeg.         *)

(* Mutant: a name listed twice is taken off once. *)
OncePerDependent(g, frontier) ==
  SetToSeq(UNION {ToSet(DependentsOf(g, frontier[i])) : i \in DOMAIN frontier})

Freed(g, frontier) ==
  FlattenSeq([i \in DOMAIN frontier |-> DependentsOf(g, frontier[i])])

RECURSIVE Peel(_, _, _)
Peel(g, left, frontier) ==
  LET freed == Freed(g, frontier)
      rest  == [t \in ToSet(g.ids) |-> left[t] - Times(freed, t)]
      next  == SelectSeq(g.ids, LAMBDA t : Contains(freed, t) /\ rest[t] = 0)
  IN IF frontier = <<>> THEN <<>> ELSE <<frontier>> \o Peel(g, rest, next)

Indegrees(g) ==
  [t \in ToSet(g.ids) |-> Len(SelectSeq(g.deps[t], LAMBDA d : Known(g, d)))]

(* The layers, or the cycle it throws. *)
Layers(g) ==
  LET peeled == Peel(g, Indegrees(g), SelectSeq(g.ids, LAMBDA t : Indegrees(g)[t] = 0))
      all    == Len(FlattenSeq(peeled)) = Len(g.ids)
  IN [layers |-> IF all THEN peeled ELSE <<>>, circular |-> ~all]

TopologicalOrder(g) == FlattenSeq(Layers(g).layers)

-----------------------------------------------------------------------------
(* ancestors, descendants: what a stack of tasks to look at leads to. *)

RECURSIVE Walk(_, _, _)
Walk(next, stack, out) ==
  IF stack = <<>> THEN out
  ELSE LET cur == Last(stack)
       IN IF cur \in out THEN Walk(next, Front(stack), out)
          ELSE Walk(next, Front(stack) \o (IF cur \in DOMAIN next THEN next[cur] ELSE <<>>),
                    out \cup {cur})

AncestorsOf(g, id) == Walk(g.deps, DependenciesOf(g, id), {})
DescendantsOf(g, id) ==
  Walk([t \in ToSet(g.ids) |-> DependentsOf(g, t)], DependentsOf(g, id), {})

-----------------------------------------------------------------------------
(* What they should return, told by paths. *)

Edge(g, t, d) == d \in ToSet(DependenciesOf(g, t))

(* The paths of dependencies no longer than a cycle can be: p[1] lists p[2], *)
(* which lists p[3], ...                                                     *)
IsPath(g, p) == Len(p) > 1 /\ \A i \in 1 .. Len(p) - 1 : Edge(g, p[i], p[i + 1])
Paths(g) ==
  LET grown[n \in 0 .. Len(g.ids)] ==
        IF n = 0 THEN {<<t>> : t \in ToSet(g.ids)}
        ELSE UNION {{Append(p, d) : d \in ToSet(DependenciesOf(g, Last(p)))} : p \in grown[n - 1]}
  IN UNION {grown[n] : n \in 1 .. Len(g.ids)}
Above(P, t) == {Last(p) : p \in {q \in P : q[1] = t}}
Below(P, t) == {p[1] : p \in {q \in P : Last(q) = t}}
Height(g, P, t) ==
  Max({0} \cup {Len(p) - 1 : p \in {q \in P : q[1] = t /\ ToSet(q) \subseteq ToSet(g.ids)}})

(* The search finds a cycle exactly when there is one, and what it returns   *)
(* is one; the layers are the tasks by the length of the longest chain of    *)
(* dependencies below them, in document order; ancestors and descendants are *)
(* what paths lead to.                                                       *)
GraphTrue(g) ==
  LET cycle == FindCycle(g)
      ls    == Layers(g)
      P     == Paths(g)
      circular == \E t \in ToSet(g.ids) : t \in Above(P, t)
  IN /\ cycle # <<>> <=> circular
     /\ cycle # <<>> => IsPath(g, cycle) /\ cycle[1] = Last(cycle) /\ IsInjective(Front(cycle))
     /\ ls.circular <=> circular
     /\ ~ls.circular =>
          /\ Len(TopologicalOrder(g)) = Len(g.ids)
          /\ \A i \in DOMAIN ls.layers :
               ls.layers[i] = SelectSeq(g.ids, LAMBDA t : Height(g, P, t) = i - 1)
     /\ \A t \in ToSet(g.ids) : /\ AncestorsOf(g, t) = Above(P, t)
                               /\ DescendantsOf(g, t) = Below(P, t)
=============================================================================
