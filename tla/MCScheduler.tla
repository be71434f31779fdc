---------------------------- MODULE MCScheduler ----------------------------
(***************************************************************************)
(* Small workflows for TLC: the shapes of dependency graph, the policies    *)
(* and the operators the configurations choose from.                        *)
(***************************************************************************)
EXTENDS RunRefinement, TLC

CONSTANTS a, b, c

(* a and b beside each other, then c after both. *)
JoinTopo == <<a, b, c>>
JoinDeps == (a :> <<>>) @@ (b :> <<>>) @@ (c :> <<a, b>>)

(* a and b beside each other. *)
PairTopo == <<a, b>>
PairDeps == (a :> <<>>) @@ (b :> <<>>)

(* Three beside each other. *)
RowTopo == <<a, b, c>>
RowDeps == [t \in Tasks |-> <<>>]

(* a, then b. *)
ChainTopo == <<a, b>>
ChainDeps == (a :> <<>>) @@ (b :> <<a>>)

(* What a failure of a task does to the run. *)
AllContinue == [t \in Tasks |-> "continue"]
AllStop     == [t \in Tasks |-> "stop"]
AllSkip     == [t \in Tasks |-> "skip_dependents"]
StopOnFirst == [t \in Tasks |-> IF t = a THEN "stop" ELSE "continue"]
SkipOnFirst == [t \in Tasks |-> IF t = a THEN "skip_dependents" ELSE "stop"]

(* The operators. *)
NoCommands == {}
StopCommands == {[kind |-> "stop", mode |-> m] : m \in {"wait", "cancel"}}
HoldCommands == {[kind |-> "pause"], [kind |-> "resume"]}
RunCommands == StopCommands \cup HoldCommands
TaskCommands(kinds, S) == [kind : kinds, task : S]
RestartCommands == TaskCommands({"restart"}, Tasks)
PromptCommands(S) == [kind : {"prompt"}, task : S, fresh : BOOLEAN]
EditCommands(S) == [kind : {"edit"}, task : S, restart : BOOLEAN, changes : BOOLEAN]

GateCommands ==
  RunCommands \cup TaskCommands({"restart", "cancelTask"}, Tasks)


(* Everything an operator can ask of the run and of its first task. *)
EveryCommand ==
  RunCommands
  \cup TaskCommands({"restart", "cancelTask", "suspendTask", "resumeTask"}, {a})
  \cup PromptCommands({a}) \cup EditCommands({a})

=============================================================================
