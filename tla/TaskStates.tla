----------------------------- MODULE TaskStates -----------------------------
(***************************************************************************)
(* The state machines every task and every run obeys: the states, the      *)
(* transition tables that setState and transitionRun consult before they   *)
(* write, and the groups of states the scheduler and the control commands  *)
(* ask about (src/src/workflow/states.ts, src/packages/protocol/src/run.ts *)
(* and the constants beside their users).                                  *)
(***************************************************************************)

TaskState == {"pending", "ready", "running", "waiting", "awaiting_approval",
              "needs_input", "suspended", "success", "failed", "blocked",
              "skipped", "cancelled"}

RunState == {"created", "running", "completed", "failed", "interrupted",
             "paused", "cancelled"}

RunningExits == {"success", "failed", "ready", "blocked", "skipped",
                 "needs_input", "cancelled", "pending", "awaiting_approval",
                 "suspended"}

TaskTransitions ==
  [pending           |-> {"ready", "skipped", "blocked", "cancelled",
                          "awaiting_approval", "failed"},
   ready             |-> {"running", "pending", "skipped", "blocked", "cancelled"},
   running           |-> RunningExits \cup {"waiting"},
   waiting           |-> RunningExits \cup {"running"},
   awaiting_approval |-> {"success", "failed", "cancelled", "pending"},
   needs_input       |-> {"pending", "ready", "cancelled", "failed"},
   suspended         |-> {"pending", "ready", "cancelled", "failed", "skipped",
                          "blocked"},
   success           |-> {"pending"},
   failed            |-> {"pending", "ready"},
   blocked           |-> {"pending"},
   skipped           |-> {"pending"},
   cancelled         |-> {"pending"}]

RunTransitions ==
  [created     |-> {"running", "cancelled"},
   running     |-> {"completed", "failed", "interrupted", "paused", "cancelled"},
   paused      |-> {"running", "cancelled", "completed", "failed", "interrupted"},
   completed   |-> {"running"},
   failed      |-> {"running"},
   interrupted |-> {"running"},
   cancelled   |-> {}]

TerminalStates == {"success", "failed", "blocked", "skipped", "cancelled"}

ActiveStates == {"running", "waiting"}

(* What a manual restart returns to pending. *)
RestartableStates == (TerminalStates \ {"success"}) \cup {"suspended"}

(* What an edit may be applied to without stopping a worker first. *)
EditableStates == {"pending", "ready", "failed", "blocked", "cancelled",
                   "needs_input", "suspended"}

(* Where an operator's message becomes the task's next attempt. *)
FollowUpStates == {"failed", "blocked", "cancelled", "needs_input", "suspended"}

(* How an attempt may end.  "fatal" is a crash whose RunnerFailure says     *)
(* retryable: false; every other outcome carries no such verdict.           *)
Outcomes == {"success", "failed", "blocked", "needs_input", "skipped",
             "timeout", "crash", "fatal", "api_error", "config_error",
             "invalid_result", "merge_conflict", "cancelled", "suspended"}

(* The outcomes that count against retry.attempts. *)
FailureOutcomes == {"failed", "timeout", "crash", "fatal", "api_error",
                    "invalid_result", "merge_conflict"}

=============================================================================
