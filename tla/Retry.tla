------------------------------- MODULE Retry -------------------------------
(***************************************************************************)
(* The retry accounting of src/src/workflow/scheduler.ts: how many failures*)
(* a task has spent of retry.attempts, how far into its free allowance of  *)
(* transient API errors it is, and how many nudges the attempt under       *)
(* judgement has had.  Each is a pass over the task's attempts, so each is *)
(* a recursive function on a prefix of that sequence.                      *)
(*                                                                         *)
(* An attempt is a record with at least number, kind ("task" or "merge"),  *)
(* trigger and outcome ("none" while it runs).                             *)
(***************************************************************************)
EXTENDS Naturals, Sequences, TaskStates

(* The attempts the accounting looks at: the task's own, ended, in the      *)
(* current retry window.                                                    *)
Accountable(a, window) ==
  /\ a.number >= window
  /\ a.kind = "task"
  /\ a.outcome # "none"

(* An attempt whose session was then asked for the completion object it     *)
(* forgot is continued by the next one: not a failure yet.                  *)
ContinuedByNudge(as, i) ==
  /\ as[i].outcome = "invalid_result"
  /\ i < Len(as)
  /\ as[i + 1].trigger = "nudge"

(* budgetedFailures: the failures counted against the budget and the        *)
(* current streak of free transient errors.                                 *)
BudgetedFailures(as, window, transientAttempts) ==
  LET spend(b, i) ==
        CASE as[i].outcome = "api_error" /\ b.streak < transientAttempts ->
               [b EXCEPT !.streak = @ + 1]
          [] as[i].outcome = "api_error" /\ b.streak >= transientAttempts ->
               [counted |-> b.counted + 1, streak |-> 0]
          [] ContinuedByNudge(as, i) -> b
          [] OTHER ->
               [counted |-> b.counted
                              + (IF as[i].outcome \in FailureOutcomes THEN 1 ELSE 0),
                streak  |-> 0]
      budget[i \in 0 .. Len(as)] ==
        IF i = 0 THEN [counted |-> 0, streak |-> 0]
        ELSE IF Accountable(as[i], window) THEN spend(budget[i - 1], i)
        ELSE budget[i - 1]
  IN budget[Len(as)]

(* nudgesUsed: the length of the run of nudges at the end of the attempts.  *)
NudgesUsed(as) ==
  LET nudges[i \in 0 .. Len(as)] ==
        IF i > 0 /\ as[i].trigger = "nudge" THEN nudges[i - 1] + 1 ELSE 0
  IN nudges[Len(as)]

=============================================================================
