---------------------------- MODULE MCFunctions ----------------------------
(***************************************************************************)
(* The system's pure functions, each compared with what it promises on      *)
(* every input of a bounded set: an initial state is one function and one   *)
(* input.  Two of them are applied to what they made before, and have steps:*)
(* the plan of a transcript, which is kept up to date entry by entry, and   *)
(* the buffer of a message, key by key.                                     *)
(***************************************************************************)
EXTENDS TranscriptPlan, Conditions, Configuration

CONSTANTS CollapseLines, UndoLimit, Pastes, MaxLines, MaxColumns

VARIABLES subject, input, buf

C == INSTANCE Composer

ASSUME BufferAssumption == {CollapseLines, UndoLimit, MaxLines, MaxColumns} \subseteq Nat \ {0}

-----------------------------------------------------------------------------
(* Graphs of three tasks, which may name each other, a stranger, or one twice. *)
Graphs3 ==
  [ids : {<<"a", "b", "c">>}, deps : [{"a", "b", "c"} -> BoundedSeq({"a", "b", "c", "ghost"}, 2)]]

(* Texts of conditions: every short one, and longer ones of fewer tokens. *)
Texts ==
  LET all     == {Op(o) : o \in {"||", "&&", "!", "==", "(", ")", "[", "]", ",", "."}}
                   \cup {Ident("in"), Str("s"), Ident("a")}
      logic   == {Ident("a"), Op("||"), Op("&&"), Op("!")}
      nesting == {Ident("a"), Op("("), Op(")"), Op("!"), Op("=="), Ident("in")}
      lists   == {Ident("a"), Op("["), Op("]"), Op(","), Str("s")}
  IN BoundedSeq(all, 4) \cup BoundedSeq(logic, 6) \cup BoundedSeq(nesting, 5) \cup BoundedSeq(lists, 5)

(* Conditions over the tasks a and b, and what became of the two. *)
Nodes2 ==
  LET leaves == {Path(<<"tasks", "a", "status">>), Path(<<"tasks", "b", "data">>),
                 Path(<<"tasks", "b", "data", "length">>), Path(<<"tasks", "b", "data", "0">>),
                 Path(<<"vars", "x">>), Literal(Str("1")), Literal(Num("1")), Literal(Ident("true")),
                 Literal(Ident("null")), List(<<Literal(Str("done")), Path(<<"tasks", "b", "status">>)>>)}
      tests  == {Path(<<"tasks", "a", "data">>), Not(Path(<<"tasks", "b", "data">>)),
                 Binary("==", Path(<<"tasks", "a", "status">>), Literal(Str("done"))),
                 CompileStatus("b", <<"done", "1">>)}
  IN leaves
       \cup {Binary(op, l, r) : op \in {"==", "!=", "<", "<=", ">", ">=", "in", "contains"}, l \in leaves, r \in leaves}
       \cup {Binary(op, l, r) : op \in {"&&", "||"}, l \in tests, r \in tests}

Results(statuses, datas) ==
  [{"a", "b"} -> [status : statuses, data : {Null, Array("list", <<Number(1)>>)} \cup datas]]

(* Files of three tasks: dependencies named or not, groups, foreach, context, *)
(* workspaces; under the settings that decide about each.                     *)
Written(id) ==
  [id |-> id, source |-> id, explicit |-> FALSE, deps |-> <<>>, group |-> NoGroup, foreach |-> FALSE,
   items |-> <<>>, chained |-> FALSE, from |-> <<>>, refs |-> {}, workspace |-> "auto", directory |-> "top",
   approval |-> FALSE, faulty |-> FALSE]
Depending(t) ==
  {t} \cup {[t EXCEPT !.explicit = TRUE, !.deps = d] : d \in {<<>>, <<"a">>, <<"b">>, <<"c", "a">>, <<"x">>}}
Grouped(t) == {t, [t EXCEPT !.group = "g"]}
Repeated(t) ==
  {[t EXCEPT !.foreach = TRUE, !.items = << [key |-> "1", group |-> NoGroup], [key |-> "2", group |-> g] >>,
             !.chained = c, !.group = h] : g \in {NoGroup, "g"}, h \in {NoGroup, "g"}, c \in BOOLEAN}
Informed(t) ==
  {[t EXCEPT !.from = f] : f \in {<<"a">>, <<"b">>, <<"x">>}} \cup {[t EXCEPT !.refs = {r}] : r \in {"a", "b"}}
Placed(t) ==
  {[t EXCEPT !.workspace = w, !.directory = d, !.approval = a] :
     w \in {"shared", "worktree"}, d \in {"top", "below"}, a \in BOOLEAN}
Varied(t) == UNION {Grouped(d) : d \in Depending(t)}

Firsts  == Varied(Written("a")) \cup Repeated(Written("a")) \cup Placed(Written("a"))
Seconds == Varied(Written("b")) \cup Informed(Written("b")) \cup Repeated(Written("b"))
Thirds  ==
  LET c == Written("c")
  IN Varied(c) \cup Informed(c) \cup Informed([c EXCEPT !.explicit = TRUE, !.deps = <<"b">>])
       \cup {Written("a"), [c EXCEPT !.faulty = TRUE], [c EXCEPT !.group = "h"]}

Sequential == [mode |-> "sequential", concurrent |-> TRUE, parallel |-> "worktree",
               git |-> TRUE, gitAvailable |-> TRUE, unsafe |-> FALSE]
Dag        == [Sequential EXCEPT !.mode = "dag", !.parallel = "shared"]
Files ==
  (Firsts \X Seconds \X Thirds \X {Sequential, Dag})
    \cup (Firsts \X {Written("b")} \X {Written("c")}
            \X [mode : {"sequential"}, concurrent : BOOLEAN, parallel : {"worktree"},
              git : BOOLEAN, gitAvailable : BOOLEAN, unsafe : BOOLEAN])

-----------------------------------------------------------------------------
(* Long texts, which are pasted as a block. *)
LongPastes == {<< <<"x">>, <<>> >>, << <<>>, <<>>, <<"x">> >>}

Init ==
  /\ InitPlan /\ C!InitBuffer
  /\ \/ subject = "graph" /\ input \in Graphs3
     \/ subject = "text" /\ input \in Texts
     \/ subject = "condition" /\ input \in [node : Nodes2, result : Results({"done"}, {})]
     \/ subject = "file" /\ \E f \in Files : input = [file |-> <<f[1], f[2], f[3]>>, settings |-> f[4]]
     \/ subject \in {"plan", "buffer"} /\ input = <<>>

KeepPlan   == subject = "plan" /\ UNCHANGED buf /\ NextPlan
KeepBuffer == subject = "buffer" /\ UNCHANGED planVars /\ C!NextBuffer

Next == UNCHANGED <<subject, input>> /\ (KeepPlan \/ KeepBuffer)

Spec == Init /\ [][Next]_<<subject, input, planVars, buf>>

Symmetry == Permutations(CallIds)

-----------------------------------------------------------------------------
(* buildGraph's answers about a dependency graph (graph.ts): the search finds  *)
(* a cycle exactly when there is one, and the layers, ancestors and            *)
(* descendants are those the paths of the graph give.                          *)
GraphsTrue == subject = "graph" => GraphTrue(input)

(* parseExpression (evaluator.ts) accepts exactly the texts of the grammar and *)
(* builds the one tree each of them has: "or" binds less than "and".           *)
ParsesTrue == subject = "text" => ParserTrue(input)

(* What the validator relies on when it accepts a condition all of whose       *)
(* referencedTasks are dependencies: what became of the other tasks makes no   *)
(* difference to evaluateWhen.                                                 *)
ReferencesSuffice ==
  subject = "condition" =>
    RefsSuffice(input.node, input.result, Results({"done", "1"}, {Number(0), Text("1")}))

(* A condition is read as it is written, and reads what the validator says. *)
ConditionsTrue == ParsesTrue /\ ReferencesSuffice

(* What normalizeWorkflow and validateWorkflow make of an accepted file: all a *)
(* task reads or decides on has ended when it starts; a sequential file runs   *)
(* in the order it is written, but for groups; the rules close no circle; and  *)
(* the graph that is built of the tasks is the one they say.                   *)
FilesTrue == GraphsTrue /\ (subject = "file" => ConfigurationTrue(input.file, input.settings))

(* A message is written and drawn without a line of it lost (Composer). *)
BufferTrue == subject = "buffer" => C!BufferTrue
=============================================================================
