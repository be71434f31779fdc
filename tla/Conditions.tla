----------------------------- MODULE Conditions -----------------------------
(***************************************************************************)
(* "when" conditions (src/src/conditions/evaluator.ts): a recursive-descent *)
(* parser over tokens, the tasks an expression refers to, and its value in  *)
(* a scope.  A token is a record of a kind and a word; characters are not   *)
(* modelled.                                                               *)
(***************************************************************************)
EXTENDS Integers, Sequences, FiniteSets, SequencesExt, TLC

Op(w)     == [kind |-> "op", word |-> w]
Ident(w)  == [kind |-> "ident", word |-> w]
Str(w)    == [kind |-> "string", word |-> w]
Num(w)    == [kind |-> "number", word |-> w]
Eof       == [kind |-> "eof", word |-> ""]

Keywords    == {"true", "false", "null"}
Comparisons == {Op("=="), Op("!="), Op(">"), Op(">="), Op("<"), Op("<=")}
Membership  == {Ident("in"), Ident("contains")}

IsLiteral(t) == t.kind \in {"string", "number"} \/ (t.kind = "ident" /\ t.word \in Keywords)
IsName(t)    == t.kind = "ident" /\ t.word \notin Keywords

(* ExprNode: a literal's token, a path's parts, or an operator's operands. *)
Node(kind, words, nodes) == [kind |-> kind, words |-> words, nodes |-> nodes]
Literal(t)       == Node("literal", <<t.kind, t.word>>, <<>>)
Path(parts)      == Node("path", parts, <<>>)
List(items)      == Node("list", <<>>, items)
Not(n)           == Node("not", <<>>, <<n>>)
Binary(op, l, r) == Node("binary", <<op>>, <<l, r>>)

-----------------------------------------------------------------------------
(* The parser.  What a method returns is the node and the position after it, *)
(* or Failure.                                                              *)

Failure == [node |-> Path(<<>>), at |-> 0]
Found(n, i) == [node |-> n, at |-> i]
At(ts, i) == IF i \in DOMAIN ts THEN ts[i] ELSE Eof

Levels == [or |-> "||", and |-> "&&"]

RECURSIVE Parse(_, _, _), Rest(_, _, _, _), Parts(_, _, _), Items(_, _, _)

(* or, and, unary, cmp, value *)
Parse(level, ts, i) ==
  LET t == At(ts, i)
  IN CASE level = "or" ->
            LET left == Parse("and", ts, i)
            IN IF left = Failure THEN Failure ELSE Rest("or", ts, left, "and")
       [] level = "and" ->
            LET left == Parse("unary", ts, i)
            IN IF left = Failure THEN Failure ELSE Rest("and", ts, left, "unary")
       [] level = "unary" ->
            IF t # Op("!") THEN Parse("cmp", ts, i)
            ELSE LET inner == Parse("unary", ts, i + 1)
                 IN IF inner = Failure THEN Failure ELSE Found(Not(inner.node), inner.at)
       [] level = "cmp" ->
            LET left == Parse("value", ts, i)
                op   == At(ts, left.at)
                right == Parse("value", ts, left.at + 1)
            IN IF left = Failure \/ op \notin Comparisons \cup Membership THEN left
               ELSE IF right = Failure THEN Failure
               ELSE Found(Binary(op.word, left.node, right.node), right.at)
       [] level = "value" /\ IsLiteral(t) ->
            Found(Literal(t), i + 1)
       [] level = "value" /\ t = Op("(") ->
            LET inner == Parse("or", ts, i + 1)
            IN IF inner = Failure \/ At(ts, inner.at) # Op(")") THEN Failure
               ELSE Found(inner.node, inner.at + 1)
       [] level = "value" /\ t = Op("[") ->
            IF At(ts, i + 1) = Op("]") THEN Found(List(<<>>), i + 2)
            ELSE Items(ts, i + 1, <<>>)
       [] level = "value" /\ IsName(t) ->
            Parts(ts, i + 1, <<t.word>>)
       [] OTHER -> Failure

(* while (isOp) left = binary(left, right) *)
Rest(level, ts, left, below) ==
  LET right == Parse(below, ts, left.at + 1)
  IN IF At(ts, left.at) # Op(Levels[level]) THEN left
     ELSE IF right = Failure THEN Failure
     ELSE Rest(level, ts, Found(Binary(Levels[level], left.node, right.node), right.at), below)

Items(ts, i, items) ==
  LET item == Parse("value", ts, i)
      all  == Append(items, item.node)
  IN IF item = Failure THEN Failure
     ELSE IF At(ts, item.at) = Op(",") THEN Items(ts, item.at + 1, all)
     ELSE IF At(ts, item.at) = Op("]") THEN Found(List(all), item.at + 1)
     ELSE Failure

Parts(ts, i, parts) ==
  LET key == At(ts, i + 1)
  IN IF At(ts, i) = Op(".")
     THEN IF key.kind # "ident" THEN Failure ELSE Parts(ts, i + 2, Append(parts, key.word))
     ELSE IF At(ts, i) = Op("[")
     THEN IF key.kind \notin {"string", "number"} \/ At(ts, i + 2) # Op("]") THEN Failure
          ELSE Parts(ts, i + 3, Append(parts, key.word))
     ELSE Found(Path(parts), i)

(* parseExpression: the whole input, or an error. *)
ParseExpression(ts) ==
  LET all == Parse("or", ts, 1)
  IN IF all = Failure \/ all.at # Len(ts) + 1 THEN Failure ELSE all

-----------------------------------------------------------------------------
(* The grammar of the module's comment, read as a definition: the trees that *)
(* the tokens from i to j - 1 have as an expression of a level.  A list, and *)
(* a number in brackets, are as the parser has them: the comment names them  *)
(* without a rule.                                                          *)

RECURSIVE Trees(_, _, _, _), Sequences(_, _, _)
Trees(level, ts, i, j) ==
  LET joined(op, l, r) ==
        UNION {{Binary(op, x, y) : x \in Trees(l, ts, i, k), y \in Trees(r, ts, k + 1, j)} :
               k \in {n \in i + 1 .. j - 2 : ts[n] = Op(op)}}
      compared ==
        UNION {{Binary(ts[k].word, x, y) : x \in Trees("value", ts, i, k),
                                           y \in Trees("value", ts, k + 1, j)} :
               k \in {n \in i + 1 .. j - 2 : ts[n] \in Comparisons \cup Membership}}
      within(a, b) == i + 1 < j /\ ts[i] = Op(a) /\ ts[j - 1] = Op(b)
  IN IF i >= j THEN {} ELSE
     CASE level = "or"    -> Trees("and", ts, i, j) \cup joined("||", "or", "and")
       [] level = "and"   -> Trees("unary", ts, i, j) \cup joined("&&", "and", "unary")
       [] level = "unary" -> Trees("cmp", ts, i, j)
                             \cup (IF ts[i] = Op("!") THEN {Not(n) : n \in Trees("unary", ts, i + 1, j)} ELSE {})
       [] level = "cmp"   -> Trees("value", ts, i, j) \cup compared
       [] level = "value" ->
            (IF i + 1 = j /\ IsLiteral(ts[i])
             THEN {Literal(ts[i])} ELSE {})
            \cup Trees("path", ts, i, j)
            \cup (IF within("(", ")") THEN Trees("or", ts, i + 1, j - 1) ELSE {})
            \cup (IF within("[", "]") THEN {List(s) : s \in Sequences(ts, i + 1, j - 1)} ELSE {})
       [] level = "path"  ->
            (IF i + 1 = j /\ IsName(ts[i]) THEN {Path(<<ts[i].word>>)} ELSE {})
            \cup (IF i + 2 < j /\ ts[j - 2] = Op(".") /\ ts[j - 1].kind = "ident"
                  THEN {Path(Append(p.words, ts[j - 1].word)) : p \in Trees("path", ts, i, j - 2)} ELSE {})
            \cup (IF i + 3 < j /\ ts[j - 3] = Op("[") /\ ts[j - 2].kind \in {"string", "number"} /\ ts[j - 1] = Op("]")
                  THEN {Path(Append(p.words, ts[j - 2].word)) : p \in Trees("path", ts, i, j - 3)} ELSE {})

Sequences(ts, i, j) ==
  IF i = j THEN {<<>>}
  ELSE {<<v>> : v \in Trees("value", ts, i, j)}
       \cup UNION {{<<v>> \o s : v \in Trees("value", ts, i, k), s \in Sequences(ts, k + 1, j) \ {<<>>}} :
                   k \in {n \in i + 1 .. j - 2 : ts[n] = Op(",")}}

(* The parser accepts exactly the grammar, and gives each text its one tree. *)
ParserTrue(ts) ==
  LET parsed == ParseExpression(ts)
  IN Trees("or", ts, 1, Len(ts) + 1) = IF parsed = Failure THEN {} ELSE {parsed.node}

-----------------------------------------------------------------------------
(* Values: null, booleans, numbers, strings, and lists and objects, which     *)
(* are equal when they are the same one: name tells which.                    *)

Value(type, n, name, items) == [type |-> type, n |-> n, name |-> name, items |-> items]
Null      == Value("null", 0, "", <<>>)
NaN       == Value("nan", 0, "", <<>>)
Bool(b)   == Value("boolean", IF b THEN 1 ELSE 0, "", <<>>)
Number(n) == Value("number", n, "", <<>>)
Text(w)   == Value("string", 0, w, <<>>)
Array(name, items)   == Value("list", 0, name, items)
Object(name, fields) == Value("object", 0, name, fields)

(* The strings of the models: what Number() and includes() make of them.     *)
Numeral(w) == CASE w = "" -> Number(0) [] w = "1" -> Number(1) [] OTHER -> NaN
Includes(w, part) == part = "" \/ part = w
ScalarText(v) ==
  CASE v.type = "string" -> v.name
    [] v.type = "number" -> IF v.n = 1 THEN "1" ELSE "0"
    [] v.type = "boolean" -> IF v.n = 1 THEN "true" ELSE "false"
    [] v.type = "null" -> "null"
    [] OTHER -> "[object Object]"

(* The lists of the models have one item at most. *)
ToText(v) == CASE v.type # "list" -> ScalarText(v)
               [] v.items = <<>>  -> ""
               [] OTHER           -> ScalarText(v.items[1])

ToNumber(v) ==
  CASE v.type \in {"boolean", "number", "null"} -> Number(v.n)
    [] v.type = "string" -> Numeral(v.name)
    [] v.type = "list" -> Numeral(ToText(v))
    [] OTHER -> NaN

Less(l, r) == ToNumber(l) # NaN /\ ToNumber(r) # NaN /\ ToNumber(l).n < ToNumber(r).n
AtMost(l, r) == ToNumber(l) # NaN /\ ToNumber(r) # NaN /\ ToNumber(l).n <= ToNumber(r).n

Truthy(v) ==
  CASE v.type = "list" -> v.items # <<>>
    [] v.type \in {"boolean", "number"} -> v.n # 0
    [] v.type = "string" -> v.name # ""
    [] OTHER -> v.type = "object"

LooseEquals(l, r) ==
  \/ l.type = r.type /\ l.type # "nan" /\ l.n = r.n /\ l.name = r.name
  \/ l.type = "number" /\ r.type = "string" /\ l = Numeral(r.name)
  \/ l.type = "string" /\ r.type = "number" /\ Numeral(l.name) = r

(* resolvePath.  The length of a string is left out. *)
RECURSIVE ResolvePath(_, _)
ResolvePath(cur, parts) ==
  IF parts = <<>> THEN cur
  ELSE LET part == Head(parts)
           next == CASE cur.type = "list" /\ part = "length" -> Number(Len(cur.items))
                     [] cur.type = "list" /\ part = "0" /\ cur.items # <<>> -> cur.items[1]
                     [] cur.type = "object" -> IF part \in DOMAIN cur.items THEN cur.items[part] ELSE Null
                     [] OTHER -> Null
       IN ResolvePath(next, Tail(parts))

RECURSIVE Evaluate(_, _)
Evaluate(node, scope) ==
  LET l == Evaluate(node.nodes[1], scope)
      r == Evaluate(node.nodes[2], scope)
      op == node.words[1]
      holds(c, x) ==
        \/ c.type = "list" /\ \E i \in DOMAIN c.items : LooseEquals(c.items[i], x)
        \/ c.type = "string" /\ Includes(c.name, ToText(x))
  IN CASE node.kind = "literal" ->
            IF node.words[1] = "string" THEN Text(node.words[2])
            ELSE IF node.words[1] = "number" THEN Numeral(node.words[2])
            ELSE IF node.words[2] = "null" THEN Null ELSE Bool(node.words[2] = "true")
       [] node.kind = "path" -> ResolvePath(scope, node.words)
       [] node.kind = "list" ->
            Array("new", [i \in DOMAIN node.nodes |-> Evaluate(node.nodes[i], scope)])
       [] node.kind = "not" -> Bool(~Truthy(l))
       [] node.kind = "binary" ->
            Bool(CASE op = "&&" -> Truthy(l) /\ Truthy(r)
                   [] op = "||" -> Truthy(l) \/ Truthy(r)
                   [] op = "==" -> LooseEquals(l, r)
                   [] op = "!=" -> ~LooseEquals(l, r)
                   [] op = "<"  -> Less(l, r)
                   [] op = ">"  -> Less(r, l)
                   [] op = "<=" -> AtMost(l, r)
                   [] op = ">=" -> AtMost(r, l)
                   [] op = "in" -> holds(r, l)
                   [] op = "contains" -> holds(l, r))

(* Mutant: only the left side of an operator is looked at. *)
RECURSIVE LeftReferences(_)
LeftReferences(node) ==
  IF node.kind = "path"
  THEN IF Len(node.words) > 1 /\ node.words[1] = "tasks" THEN {node.words[2]} ELSE {}
  ELSE IF node.nodes = <<>> THEN {} ELSE LeftReferences(node.nodes[1])

(* referencedTasks *)
RECURSIVE ReferencedTasks(_)
ReferencedTasks(node) ==
  IF node.kind = "path"
  THEN IF Len(node.words) > 1 /\ node.words[1] = "tasks" THEN {node.words[2]} ELSE {}
  ELSE UNION {ReferencedTasks(node.nodes[i]) : i \in DOMAIN node.nodes}

(* compileWhen, of the form with a task and its statuses. *)
CompileStatus(t, statuses) ==
  Binary("in", Path(<<"tasks", t, "status">>),
         List([i \in DOMAIN statuses |-> Literal(Str(statuses[i]))]))

(* evaluateWhen *)
EvaluateWhen(node, scope) == Truthy(Evaluate(node, scope))

(* conditionScope: what became of each task, and the variables. *)
ScopeOf(result) ==
  Object("scope",
    [tasks |-> Object("tasks",
       [t \in DOMAIN result |->
          Object(t, [status |-> Text(result[t].status), data |-> result[t].data])]),
     vars |-> Object("vars", [x |-> Number(1)])])

(* What the validator relies on when it accepts a condition whose references  *)
(* are all dependencies: what became of the other tasks makes no difference.  *)
RefsSuffice(node, result, others) ==
  \A other \in others :
    (\A t \in ReferencedTasks(node) : t \in DOMAIN result => result[t] = other[t]) =>
      (EvaluateWhen(node, ScopeOf(result)) <=> EvaluateWhen(node, ScopeOf(other)))

=============================================================================
