--------------------------- MODULE RunRefinement ---------------------------
(***************************************************************************)
(* The scheduler implements the contract of a run.                          *)
(***************************************************************************)
EXTENDS SchedulerProperties

Phase == IF pc = "done" THEN "over"
         ELSE IF Stopping THEN "closing"
         ELSE IF hold THEN "held" ELSE "open"

StageOf(s) ==
  CASE s \in ActiveStates -> "working"
    [] s \in {"needs_input", "suspended"} -> "parked"
    [] s \in TerminalStates -> "ended"
    [] OTHER -> "waiting"

(* A selection decides what the run is about before anybody sees it begin. *)
Stage == [t \in Tasks |-> StageOf(IF pc = "start" THEN Prepared[t] ELSE task[t])]

Contract == INSTANCE RunContract
  WITH Jobs <- Tasks, Limit <- MaxConcurrency,
       phase <- Phase, stage <- Stage, workers <- {t \in Tasks : InFlight(t)}

(* Every step of the scheduler's loop, of its workers and of the operator is  *)
(* one the contract has: no launch while the run is paused or stopping or at  *)
(* its limit, no outcome applied to a task a worker is still busy with, no    *)
(* task revived once the run stops, no change after it ended (launchReady,    *)
(* launchPendingMerges, applyOutcome, applyRestart, finalize).                *)
KeepsContract == Contract!Spec
=============================================================================
