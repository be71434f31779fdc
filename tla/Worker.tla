------------------------------- MODULE Worker -------------------------------
(***************************************************************************)
(* One attempt at a task and the process that works on it.  This module has *)
(* what the three runners share: the state of the attempt, the process as    *)
(* ProcessManager sees it (execution/process-manager.ts), and the operator,  *)
(* who may abort the attempt, steer it and answer what it asks.  A runner    *)
(* learns of its worker only by reading the lines it wrote, in order, and    *)
(* the end of its process.  A worker may end at any time, ignore SIGTERM, or  *)
(* leave a descendant behind that holds its streams open.                    *)
(***************************************************************************)
EXTENDS Naturals, Sequences, FiniteSets

CONSTANTS
  Messages,     \* texts an operator sends to the attempt
  Requests,     \* permissions and questions the worker asks about
  Questions,    \* those that are questions
  MaxUnread     \* lines in the pipe; the worker writes no more until one is read

ASSUME WorkerAssumption == Questions \subseteq Requests /\ MaxUnread \in Nat \ {0}

VARIABLES
  mode,      \* what the attempt was started as
  phase,     \* of run(): "detecting", "preparing", "running", "done"
  aborted,   \* the attempt's abort signal has fired
  outcome,   \* what run() returned
  proc,      \* the process, as the manager and the kernel know it
  out,       \* lines written and not read
  heard,     \* what the runner has read that its outcome depends on
  where,     \* of each message: not "sent", "held" by the worker, "taken" into a turn
  verdict,   \* of each message: the last SteerResult
  asked,     \* of each request: its entry in the runner's map, and what became of it
  settled    \* of each request: how often it was settled

common == <<mode, phase, aborted, outcome, proc, out, heard, where, verdict, asked, settled>>

Results == {"none", "some", "valid", "invalid", "missing", "transient", "rejected", "denied", "error"}
Lives == {"unborn", "alive", "dead", "closed"}
Codes == {"none", "zero", "nonzero", "signal", "enoent"}
Verdicts == {"none", "waiting", "called", "queued", "accepted", "rejected", "failed"}
Pending == {"waiting", "called", "queued"}
Outcomes == {"none", "result", "crash", "api_error", "invalid_result", "config_error",
             "cancelled", "timeout"}

Unborn == [life |-> "unborn", code |-> "none", stdin |-> FALSE, killing |-> "no",
           timedOut |-> FALSE, held |-> FALSE, stderr |-> "none"]

InitWorker(m) ==
  /\ mode = m
  /\ phase = "detecting"
  /\ aborted = FALSE
  /\ outcome = "none"
  /\ proc = Unborn
  /\ out = <<>>
  /\ heard = [result |-> "none", tool |-> FALSE, flaw |-> "none", blocked |-> FALSE]
  /\ where = [m1 \in Messages |-> "sent"]
  /\ verdict = [m1 \in Messages |-> "none"]
  /\ asked = [r \in Requests |-> "none"]
  /\ settled = [r \in Requests |-> 0]

----------------------------------------------------------------------------
(* The manager.  A process has not ended for it before its streams closed.   *)

Alive == proc.life = "alive"
Ended == proc.life = "closed"

(* kill('graceful') of a process that has not closed: stdin is closed and the *)
(* group told to end.                                                         *)
Killed(p) ==
  IF p.life = "closed" THEN p
  ELSE [p EXCEPT !.stdin = FALSE, !.killing = IF @ = "no" THEN "graceful" ELSE @]

WithoutStdin(p) == [p EXCEPT !.stdin = FALSE]

(* spawn: the process, or one that reports that it could not be started.     *)
Spawned(stdin) ==
  {[Unborn EXCEPT !.life = "alive", !.stdin = stdin]}
    \cup {[Unborn EXCEPT !.life = "dead", !.code = "enoent"]}

(* writeStdin succeeds until stdin was closed by this side or the end was     *)
(* seen: a message to a process that has just died is lost without a word.   *)
CanWrite == proc.stdin /\ ~Ended

TimeoutFires ==
  /\ phase = "running" /\ proc.life \in {"alive", "dead"} /\ ~proc.timedOut
  /\ proc' = [Killed(proc) EXCEPT !.timedOut = TRUE]
  /\ UNCHANGED <<mode, phase, aborted, outcome, out, heard, where, verdict, asked, settled>>

EscalateAlive ==   \* mutant: only a process that runs is killed
  /\ proc.killing = "graceful" /\ Alive
  /\ proc' = [proc EXCEPT !.killing = "forced"]
  /\ UNCHANGED <<mode, phase, aborted, outcome, out, heard, where, verdict, asked, settled>>

(* The grace period is over and the streams have not closed. *)
Escalate ==
  /\ proc.killing = "graceful" /\ ~Ended
  /\ proc' = [proc EXCEPT !.killing = "forced"]
  /\ UNCHANGED <<mode, phase, aborted, outcome, out, heard, where, verdict, asked, settled>>

(* SIGKILL of the process group, descendants that hold the streams included. *)
ForcedEnd ==
  /\ proc.killing = "forced" /\ (Alive \/ (proc.life = "dead" /\ proc.held))
  /\ proc' = [proc EXCEPT !.life = "dead", !.held = FALSE,
                          !.code = IF Alive THEN "signal" ELSE @]
  /\ UNCHANGED <<mode, phase, aborted, outcome, out, heard, where, verdict, asked, settled>>

(* 'close': the process is gone and every line of its streams has been read. *)
StreamsClose ==
  /\ proc.life = "dead" /\ ~proc.held /\ out = <<>>
  /\ proc' = [proc EXCEPT !.life = "closed", !.stdin = FALSE]
  /\ UNCHANGED <<mode, phase, aborted, outcome, out, heard, where, verdict, asked, settled>>

----------------------------------------------------------------------------
(* The worker. *)

(* The lines ls are written, if the pipe takes them. *)
Writes(ls) == Len(out) + Len(ls) <= MaxUnread /\ out' = out \o ls
Line(kind, of) == [kind |-> kind, of |-> of]

(* The worker ends: by itself or by a signal, possibly leaving its streams to *)
(* a descendant.                                                              *)
EndsWith(codes) ==
  /\ Alive
  /\ \E c \in codes, h \in BOOLEAN :
       proc' = [proc EXCEPT !.life = "dead", !.code = c, !.held = h]
  /\ UNCHANGED <<mode, phase, aborted, outcome, out, heard, where, verdict, asked, settled>>

Dies == EndsWith({"nonzero", "signal"})
ObeysTerm == proc.killing # "no" /\ EndsWith({"zero", "nonzero", "signal"})

StartsTool ==
  /\ Alive /\ Writes(<<Line("tool", "none")>>)
  /\ UNCHANGED <<mode, phase, aborted, outcome, proc, heard, where, verdict, asked, settled>>

EndsTool ==
  /\ Alive /\ Writes(<<Line("toolDone", "none")>>)
  /\ UNCHANGED <<mode, phase, aborted, outcome, proc, heard, where, verdict, asked, settled>>

----------------------------------------------------------------------------
(* The outside of the attempt. *)

(* The scheduler aborts.  Before the process is there, nobody listens yet. *)
AbortBefore ==
  /\ ~aborted /\ phase \in {"detecting", "preparing"}
  /\ aborted' = TRUE
  /\ UNCHANGED <<mode, phase, outcome, proc, out, heard, where, verdict, asked, settled>>

(* After `await detect`: the only time the signal is looked at before the end. *)
Detected(found) ==
  /\ phase = "detecting"
  /\ IF ~found THEN phase' = "done" /\ outcome' = "crash"
     ELSE IF aborted THEN phase' = "done" /\ outcome' = "cancelled"
     ELSE phase' = "preparing" /\ outcome' = outcome
  /\ UNCHANGED <<mode, aborted, proc, out, heard, where, verdict, asked, settled>>

Spawn(stdin) ==
  /\ phase = "preparing"
  /\ phase' = "running"
  /\ proc' \in Spawned(stdin)
  /\ UNCHANGED <<mode, aborted, outcome, out, heard, where, verdict, asked, settled>>

(* What the result and stderr said is classified when the process has ended,  *)
(* so it is chosen here: validateTaskResult, isTransientApiError and the       *)
(* ConfigRejection of each agent.  An attempt that was ended is not asked.     *)
OfAny(results) == IF heard.result = "some" THEN results ELSE {"none"}

Classified(results) ==
  IF aborted \/ proc.timedOut THEN UNCHANGED <<heard, proc>>
  ELSE /\ \E k \in results : heard' = [heard EXCEPT !.result = k]
       /\ \E e \in {"none", "transient", "rejection"} :
            proc' = [proc EXCEPT !.stderr = IF proc.code = "zero" THEN "none" ELSE e]

(* PendingInteractions: each entry is settled by whoever removes it. *)
Open == {r \in Requests : asked[r] = "open"}
Settle(rs, how) ==
  /\ asked' = [r \in Requests |-> IF r \in rs THEN how ELSE asked[r]]
  /\ settled' = [r \in Requests |-> IF r \in rs THEN settled[r] + 1 ELSE settled[r]]

Manager == TimeoutFires \/ Escalate \/ ForcedEnd \/ StreamsClose
OwnEnd == Dies \/ ObeysTerm
=============================================================================
