---------------------------- MODULE Configuration ----------------------------
(***************************************************************************)
(* From a workflow file to the tasks of a run: the foreach expansion, the   *)
(* rules that order a sequential workflow, context sources                  *)
(* (src/src/config/normalize.ts), and what the validator accepts            *)
(* (src/src/workflow/validator.ts).                                        *)
(*                                                                         *)
(* A task of the file is a record: its id (source is the same); what it     *)
(* depends on (deps, which counts only when explicit); its parallelGroup;   *)
(* its foreach items, each with a key and a group that overrides the task's; *)
(* the tasks its context takes from and its condition refers to; its        *)
(* workspace and directory; whether it is a gate; whether its own options    *)
(* are wrong (faulty).  Prompts, durations and the options of an agent are   *)
(* left out.                                                                *)
(***************************************************************************)
EXTENDS TaskGraphs

NoGroup == "none"
ChildId(id, key) == id \o "-" \o key

Unique(s) ==
  FoldLeft(LAMBDA out, x : IF Contains(out, x) THEN out ELSE Append(out, x), <<>>, s)

-----------------------------------------------------------------------------
(* normalizeWorkflow *)

(* A foreach task stands for one child per item. *)
Children(t) ==
  [k \in DOMAIN t.items |->
     [t EXCEPT !.id = ChildId(t.id, t.items[k].key),
               !.group = IF t.items[k].group # NoGroup THEN t.items[k].group
                         ELSE IF t.chained THEN NoGroup ELSE t.group]]

Expanded(file) ==
  FlattenSeq([i \in DOMAIN file |-> IF file[i].foreach THEN Children(file[i]) ELSE <<file[i]>>])

TaskIds(tasks) == [i \in DOMAIN tasks |-> tasks[i].id]
Duplicates(tasks) == ~IsInjective(TaskIds(tasks))

(* A reference to a foreach task is one to each of its children. *)
ExpandRef(tasks, ref) ==
  LET children == SelectSeq(tasks, LAMBDA t : t.id # ref /\ t.source = ref)
  IN IF children = <<>> THEN <<ref>> ELSE TaskIds(children)

ExpandRefs(tasks, refs) ==
  Unique(FlattenSeq([i \in DOMAIN refs |-> ExpandRef(tasks, refs[i])]))

(* resolveContext: the known tasks it names, but not the task itself. *)
ResolveContext(tasks, t) ==
  SelectSeq(ExpandRefs(tasks, t.from), LAMBDA id : id # t.id /\ Contains(TaskIds(tasks), id))
UnknownContext(tasks, t) ==
  \E i \in DOMAIN ExpandRefs(tasks, t.from) : ~Contains(TaskIds(tasks), ExpandRefs(tasks, t.from)[i])

(* applyDagRules: the walk of a sequential workflow.  The frontier is what a  *)
(* task that names no dependencies comes after.                              *)
Start == [frontier |-> <<>>, group |-> NoGroup, members |-> <<>>, before |-> <<>>,
          groups |-> {}, tasks |-> <<>>, scattered |-> FALSE]

CloseGroup(w) ==
  IF w.group = NoGroup THEN w
  ELSE [w EXCEPT !.frontier = w.members, !.group = NoGroup, !.members = <<>>]

OpenGroup(w, group) ==
  LET closed == CloseGroup(w)
  IN IF w.group = group THEN w
     ELSE [closed EXCEPT !.scattered = @ \/ group \in closed.groups,
                         !.groups = @ \cup {group}, !.group = group,
                         !.before = closed.frontier]

After(t, frontier) ==
  IF t.explicit THEN t ELSE [t EXCEPT !.dependsOn = Unique(@ \o frontier)]

(* Mutant: the frontier of a group is its last member. *)
PlaceLastMember(w, t) ==
  LET open   == OpenGroup(w, t.group)
      closed == CloseGroup(w)
  IN IF t.group # NoGroup
     THEN [open EXCEPT !.tasks = Append(@, After(t, open.before)), !.members = <<t.id>>]
     ELSE [closed EXCEPT !.tasks = Append(@, After(t, closed.frontier)), !.frontier = <<t.id>>]

PlaceTask(w, t) ==
  LET open   == OpenGroup(w, t.group)
      closed == CloseGroup(w)
  IN IF t.group # NoGroup
     THEN [open EXCEPT !.tasks = Append(@, After(t, open.before)),
                       !.members = Append(@, t.id)]
     ELSE [closed EXCEPT !.tasks = Append(@, After(t, closed.frontier)),
                         !.frontier = <<t.id>>]

(* The tasks of the run, and what was wrong on the way. *)
Normalize(file, mode) ==
  LET all     == Expanded(file)
      task(t) == [id |-> t.id, explicit |-> t.explicit, group |-> t.group,
                  dependsOn |-> IF t.explicit THEN ExpandRefs(all, t.deps) ELSE <<>>,
                  context |-> ResolveContext(all, t), refs |-> t.refs,
                  workspace |-> t.workspace, directory |-> t.directory, approval |-> t.approval]
      tasks   == FoldLeft(LAMBDA out, t : Append(out, task(t)), <<>>, all)
      walk    == FoldLeft(PlaceTask, Start, tasks)
      wrong == [duplicated |-> Duplicates(all),
                faulty     |-> \E i \in DOMAIN all : all[i].faulty,
                itself     |-> \E i \in DOMAIN tasks : Contains(tasks[i].dependsOn, tasks[i].id),
                context    |-> \E i \in DOMAIN all : UnknownContext(all, all[i]),
                grouped    |-> mode = "dag" /\ \E i \in DOMAIN all : all[i].group # NoGroup,
                scattered  |-> mode # "dag" /\ walk.scattered]
  IN [tasks  |-> IF mode = "dag" THEN tasks ELSE walk.tasks,
      errors |-> {e \in DOMAIN wrong : wrong[e]}]

-----------------------------------------------------------------------------
(* validateWorkflow.  A setting is a record: the mode, whether tasks may run  *)
(* at once, the workspace of tasks that do, whether git is enabled (git) and  *)
(* whether the repository is one (gitAvailable), and whether parallel tasks   *)
(* may share a tree.                                                          *)

BuildGraph(tasks) ==
  [ids |-> TaskIds(tasks),
   deps |-> [id \in ToSet(TaskIds(tasks)) |->
     tasks[SelectLastInSeq(tasks, LAMBDA t : t.id = id)].dependsOn]]

EffectiveWorkspace(t, s) ==
  IF t.workspace # "auto" THEN t.workspace ELSE IF s.git THEN s.parallel ELSE "shared"
Shares(t, s) == EffectiveWorkspace(t, s) = "shared" /\ ~t.approval

(* Tasks of one layer in the same directory of the shared tree. *)
SharedLayer(tasks, layer, s) ==
  \E i, j \in {k \in DOMAIN tasks : Contains(layer, tasks[k].id) /\ Shares(tasks[k], s)} :
    tasks[i].id # tasks[j].id /\ tasks[i].directory = tasks[j].directory

ValidateWorkflow(tasks, s) ==
  LET g       == BuildGraph(tasks)
      ids     == ToSet(g.ids)
      unknown == \E i \in DOMAIN tasks : ~(ToSet(tasks[i].dependsOn) \subseteq ids)
      layers  == Layers(g).layers
      sound   == ~unknown /\ FindCycle(g) = <<>>
      above   == [t \in ids |-> AncestorsOf(g, t)]
      some(P(_)) == \E i \in DOMAIN tasks : P(tasks[i])
      wrong == [duplicated |-> Duplicates(tasks),
                empty      |-> tasks = <<>>,
                unknown    |-> unknown,
                circular   |-> ~unknown /\ FindCycle(g) # <<>>,
                condition  |-> sound /\ some(LAMBDA t : ~(t.refs \subseteq above[t.id])),
                source     |-> sound /\ some(LAMBDA t : ~(ToSet(t.context) \subseteq above[t.id])),
                together   |-> sound /\ s.concurrent /\ ~s.unsafe
                               /\ \E k \in DOMAIN layers : SharedLayer(tasks, layers[k], s),
                isolation  |-> sound /\ ~(s.git /\ s.gitAvailable)
                               /\ some(LAMBDA t : EffectiveWorkspace(t, s) = "worktree")]
  IN {e \in DOMAIN wrong : wrong[e]}

Diagnostics(file, s) ==
  LET n == Normalize(file, s.mode) IN n.errors \cup ValidateWorkflow(n.tasks, s)
Accepted(file, s) == Diagnostics(file, s) = {}

-----------------------------------------------------------------------------
(* What an accepted file promises, told by paths of dependencies. *)

(* Everything a task takes its context from or decides on has ended by the    *)
(* time it starts: its dependencies are tasks, each once, without a circle.   *)
Ordered(file, s) ==
  LET tasks == Normalize(file, s.mode).tasks
      g     == BuildGraph(tasks)
      P     == Paths(g)
  IN Accepted(file, s) =>
       \A i \in DOMAIN tasks :
         LET t == tasks[i]
         IN /\ t.id \notin Above(P, t.id)
            /\ Above(P, t.id) \subseteq ToSet(g.ids)
            /\ t.refs \cup ToSet(t.context) \subseteq Above(P, t.id)
            /\ \A j \in DOMAIN tasks \ {i} : tasks[j].id # t.id

(* In a sequential workflow that names no dependencies a task comes after     *)
(* every task above it in the file, except those of its own group.            *)
InFileOrder(file, s) ==
  LET tasks == Normalize(file, s.mode).tasks
      P     == Paths(BuildGraph(tasks))
      both(i, j) == tasks[i].group # NoGroup /\ tasks[i].group = tasks[j].group
  IN Accepted(file, s) /\ s.mode = "sequential" /\ (\A i \in DOMAIN file : ~file[i].explicit) =>
       \A j \in DOMAIN tasks : \A i \in 1 .. j - 1 :
         (tasks[i].id \in Above(P, tasks[j].id)) <=> ~both(i, j)

(* The rules add no circle of their own. *)
NoCircleAdded(file, s) ==
  LET tasks == Normalize(file, s.mode).tasks
  IN (\A i \in DOMAIN tasks : tasks[i].explicit =>
        ToSet(tasks[i].dependsOn) \subseteq {tasks[j].id : j \in 1 .. i - 1})
       => Duplicates(tasks) \/ "circular" \notin Diagnostics(file, s)

ConfigurationTrue(file, s) ==
  Ordered(file, s) /\ InFileOrder(file, s) /\ NoCircleAdded(file, s)
=============================================================================
