---------------------------- MODULE RunContract ----------------------------
(***************************************************************************)
(* What a run promises whoever starts it, with nothing of how its loop      *)
(* works: which jobs are at work, when one may begin, what a stop and a      *)
(* pause mean, and that a run that is over stays over.                      *)
(***************************************************************************)
EXTENDS Integers, FiniteSets

CONSTANTS
  Jobs,      \* the tasks
  Limit      \* execution.maxConcurrency

VARIABLES
  phase,     \* "open", "held", "closing" or "over"
  stage,     \* per job: "waiting", "working", "parked" or "ended"
  workers    \* the jobs a worker is busy with

contract == <<phase, stage, workers>>

Init ==
  /\ phase = "open"
  /\ stage \in [Jobs -> {"waiting", "ended"}]
  /\ workers = {}

(* A waiting job is given a worker: only while the run is open, and never   *)
(* more than the limit at a time.                                           *)
Begin(j) ==
  /\ phase = "open" /\ stage[j] = "waiting"
  /\ j \notin workers /\ Cardinality(workers) < Limit
  /\ stage' = [stage EXCEPT ![j] = "working"]
  /\ workers' = workers \cup {j}
  /\ UNCHANGED phase

(* A job at work is given a second worker for a merge conflict: one such at  *)
(* a time, on top of the limit if need be, and none once the run closes.     *)
Resolve(j) ==
  /\ phase \in {"open", "held"} /\ stage[j] = "working"
  /\ j \notin workers /\ Cardinality(workers) <= Limit
  /\ workers' = workers \cup {j}
  /\ UNCHANGED <<phase, stage>>

(* A worker is done with its job. *)
Leave(j) ==
  /\ phase # "over" /\ j \in workers
  /\ workers' = workers \ {j}
  /\ UNCHANGED <<phase, stage>>

(* What became of one job that no worker is busy with, and of those that     *)
(* waited for it; it may be the run's last word.                             *)
Becomes == {<<"waiting", "ended">>, <<"parked", "ended">>}
             \cup ({"working"} \X {"waiting", "parked", "ended"})

Settle ==
  /\ phase # "over"
  /\ phase' \in {phase, "closing"} /\ stage' \in [Jobs -> {"waiting", "working", "parked", "ended"}]
  /\ LET moved == {j \in Jobs : stage'[j] # stage[j]}
     IN /\ moved # {} /\ moved \cap workers = {}
        /\ \A j \in moved : <<stage[j], stage'[j]>> \in Becomes
        /\ Cardinality({j \in moved : stage[j] = "working"}) <= 1
  /\ UNCHANGED workers

(* Somebody asks for a job again. *)
Revive(j) ==
  /\ phase \in {"open", "held"} /\ stage[j] \in {"parked", "ended"} /\ j \notin workers
  /\ stage' = [stage EXCEPT ![j] = "waiting"]
  /\ UNCHANGED <<phase, workers>>

Hold    == phase = "open" /\ phase' = "held" /\ UNCHANGED <<stage, workers>>
Release == phase = "held" /\ phase' = "open" /\ UNCHANGED <<stage, workers>>
Close   == phase \in {"open", "held"} /\ phase' = "closing" /\ UNCHANGED <<stage, workers>>

(* The run ends when nobody works on anything; what still waited is let go. *)
Finish ==
  /\ phase # "over" /\ workers = {} /\ \A j \in Jobs : stage[j] # "working"
  /\ phase' = "over" /\ stage' \in [Jobs -> {"waiting", "parked", "ended"}]
  /\ \A j \in Jobs : stage'[j] = stage[j] \/ (stage[j] = "waiting" /\ stage'[j] = "ended")
  /\ UNCHANGED workers

Next ==
  \/ \E j \in Jobs : Begin(j) \/ Resolve(j) \/ Leave(j) \/ Revive(j)
  \/ Settle \/ Hold \/ Release \/ Close \/ Finish

Spec == Init /\ [][Next]_contract
=============================================================================
