------------------------------- MODULE Agents -------------------------------
(***************************************************************************)
(* The agents as the orchestrator knows them: an attempt of one of the three  *)
(* runners, or the quota monitor.  They share the worker and the promises;    *)
(* part says which of them a behaviour is about.                              *)
(***************************************************************************)
EXTENDS Worker

CONSTANTS
  MaxOverloads,
  ServerMessages   \* texts an operator sends to an attempt of the app server

ASSUME OverloadAssumption == MaxOverloads \in Nat

VARIABLES part, queued, awaiting, owed, closed, working, overtaken,
          sent, overloads, delayed, threadOpen, turnReady, turn,
          monitor, channel, waiting, said, windows, authBlocked, cooling, chip

Claude == INSTANCE ClaudeAttempt
Exec == INSTANCE CodexExec
Server == INSTANCE CodexServer WITH Messages <- ServerMessages
Quota == INSTANCE CodexQuota

steering == <<queued, awaiting, owed, closed, working, overtaken>>
rpc == <<sent, overloads, delayed, threadOpen, turnReady, turn>>
quota == <<monitor, channel, waiting, said, windows, authBlocked, cooling, chip>>
vars == <<part, common, steering, rpc, quota>>

Init ==
  /\ part \in {"claude", "exec", "server", "quota"}
  /\ IF part = "claude" THEN Claude!Init
     ELSE IF part = "server" THEN Claude!InitSteering /\ Server!Init
     ELSE Claude!InitSteering /\ Exec!Init
  /\ part # "server" => Server!InitRpc
  /\ Quota!Init

ClaudeStep == part = "claude" /\ Claude!Next /\ UNCHANGED <<part, rpc, quota>>
ExecStep == part = "exec" /\ Exec!Next /\ UNCHANGED <<part, steering, rpc, quota>>
ServerStep == part = "server" /\ Server!Next /\ UNCHANGED <<part, steering, quota>>
QuotaStep == part = "quota" /\ Quota!Next /\ UNCHANGED <<part, common, steering, rpc>>

Next == ClaudeStep \/ ExecStep \/ ServerStep \/ QuotaStep

Spec == Init /\ [][Next]_vars

(* The event loop reads what there is and returns when the process has ended; *)
(* timers fire; the kernel carries out SIGKILL and closes the streams of the  *)
(* dead.  Nothing is assumed of the worker or of the operator.  Each of the   *)
(* timers happens once at most, so that fairness of their disjunction is      *)
(* fairness of every one of them.                                             *)
RunnerRuns ==
  \/ part = "claude" /\ (Claude!Prepare \/ Claude!Runner) /\ UNCHANGED <<part, overtaken, rpc, quota>>
  \/ part = "exec" /\ (Exec!Prepare \/ Exec!Runner) /\ UNCHANGED <<part, steering, rpc, quota>>
  \/ part = "server" /\ (Server!Prepare \/ Server!Runner) /\ UNCHANGED <<part, steering, quota>>

Timers ==
  /\ TimeoutFires \/ Escalate \/ ForcedEnd \/ StreamsClose
  /\ UNCHANGED <<part, steering, rpc, quota>>

FairSpec == Spec /\ WF_vars(RunnerRuns) /\ WF_vars(Timers)

----------------------------------------------------------------------------
(* OUTCOME_MAP of runners/outcomes.ts: when each of its rows describes an     *)
(* attempt, and the outcome it promises.                                      *)

Row(outcome1, holds) == [outcome |-> outcome1, holds |-> holds]

NoResult == heard.result \in {"none", "missing"}
Failed == heard.result \in {"transient", "rejected", "denied", "error"}

OutcomeMap ==
  [no_result |-> Row("invalid_result", NoResult /\ (proc.code = "zero" \/ heard.result = "missing")),
   invalid_result |-> Row("invalid_result", heard.result = "invalid"),
   api_error |-> Row("api_error", "transient" \in {heard.result, heard.flaw, proc.stderr}),
   config_error |-> Row("config_error",
     heard.flaw \in {"protocol", "conflict"} \/ "rejected" \in {heard.result, heard.flaw} \/ proc.stderr = "rejection"),
   agent_error |-> Row("crash", heard.flaw = "init" \/ (Failed /\ heard.result # "transient")),
   killed |-> Row("crash", proc.code \in {"nonzero", "signal"} /\ (NoResult \/ Failed)),
   open_tool |-> Row("crash", proc.code = "zero" /\ heard.tool),
   spawn_failure |-> Row("crash", proc.code \in {"none", "enoent"}),
   cancelled |-> Row("cancelled", aborted),
   timeout |-> Row("timeout", proc.timedOut)]
=============================================================================
