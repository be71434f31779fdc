-------------------------- MODULE AgentsProperties --------------------------
(***************************************************************************)
(* What is promised of an attempt, whichever agent works on it.              *)
(***************************************************************************)
EXTENDS Agents

Steered == IF part = "server" THEN ServerMessages ELSE Messages

TypeOK ==
  /\ mode \in {"deny", "ask", "replay", "exec", "input", "declining"}
  /\ phase \in {"detecting", "preparing", "running", "done"}
  /\ aborted \in BOOLEAN
  /\ outcome \in Outcomes
  /\ proc.life \in Lives /\ proc.code \in Codes
  /\ proc.killing \in {"no", "graceful", "forced"}
  /\ Len(out) <= MaxUnread
  /\ heard.result \in Results
  /\ where \in [Steered -> {"sent", "held", "taken"}]
  /\ verdict \in [Steered -> Verdicts]
  /\ asked \in [Requests -> {"none", "open", "withdrawn", "answered", "ended"}]
  /\ queued \cup awaiting \cup owed \cup overtaken \subseteq Messages
  /\ sent \cup delayed \subseteq Server!Calls
  /\ waiting \subseteq {"account", "limits"}

(* While the claude CLI holds a message without a turn for it, its stdin is   *)
(* not closed, or the turn would never run (ClaudeSteering.turnEnded); unless *)
(* the attempt is being ended.                                                *)
HeldOpen(m) ==
  part = "claude" /\ where[m] = "held" /\ Alive /\ proc.killing = "no" => proc.stdin

(* Not promised of a message that is overtaken: one written while the CLI is  *)
(* in the turn of another one and the result before that turn is not read.    *)
StdinHeldOpen == \A m \in Messages \ overtaken : HeldOpen(m)

(* "Stdin may not be closed while any are outstanding: closing it is 'no more *)
(* input', and the turn they are waiting for would never run" (steer.ts, of   *)
(* `owed`): of any message the CLI holds.  No run checks this: a message that *)
(* is overtaken is taken off `owed` with the one before it.                   *)
OutstandingHeldOpen == \A m \in Messages : HeldOpen(m)

(* A message that is reported as accepted has become part of a turn, unless   *)
(* it was overtaken.  What a worker asks is settled once: by an answer, a     *)
(* withdrawal, an abort or the end of the process.  And when the attempt is   *)
(* over, neither is left open (steer, end, the channel of the app server,     *)
(* PendingInteractions).                                                      *)
EverythingAnswered ==
  /\ \A m \in Steered :
       /\ verdict[m] = "accepted" /\ m \notin overtaken => where[m] = "taken"
       /\ phase = "done" => verdict[m] \notin Pending
  /\ \A r \in Requests :
       /\ settled[r] <= 1
       /\ phase = "done" => asked[r] # "open"

(* The outcome of an attempt that ends without a result is the one OUTCOME_MAP *)
(* gives for something that happened, an abort wins over all of them and the  *)
(* timeout over the rest.  The exception is an app server that leaves with    *)
(* code 0 in the middle of a turn.                                            *)
OutcomeOfEnd ==
  phase = "done" =>
    /\ aborted /\ proc.life # "unborn" => outcome = "cancelled"
    /\ ~aborted /\ proc.timedOut => outcome \in {"timeout", "result"}
    /\ \/ outcome = "result"
       \/ \E row \in DOMAIN OutcomeMap :
            OutcomeMap[row].holds /\ OutcomeMap[row].outcome = outcome
       \/ part = "server" /\ outcome = "crash" /\ proc.code = "zero" /\ heard.result = "none"

(* The chip asks to sign in as soon as the account is known to have no quotas *)
(* until it is read again, whatever is pushed or lost meanwhile (authBlocked). *)
SignInShown == said = "apiKey" => chip = "authRequired"

(* What is said of an attempt, and of the account it runs on, is what happened. *)
OutcomeMapped == OutcomeOfEnd /\ SignInShown

(* An attempt whose worker was spawned comes to its end and answers every     *)
(* message, although the worker may ignore its signals, never answer, or      *)
(* leave its streams to a descendant (kill, the timeout, CALL_TIMEOUT_MS).    *)
AttemptEnds == phase = "running" ~> phase = "done"
=============================================================================
