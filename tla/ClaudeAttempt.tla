---------------------------- MODULE ClaudeAttempt ----------------------------
(***************************************************************************)
(* An attempt of the claude runner (runners/claude/claude-runner.ts), its     *)
(* steering (steer.ts) and its CLI.  In ask mode stdin stays open: the CLI    *)
(* asks over stdout, and a message on stdin becomes part of the next turn.    *)
(* The runner has to close stdin when nothing is on its way any more, and has *)
(* only the lines it reads to conclude that from.  With two messages they do  *)
(* not tell it enough: see `overtaken`.                                       *)
(* Modes: "deny", "ask", and "replay" (ask, with the echo of user messages).  *)
(***************************************************************************)
EXTENDS Worker, SequencesExt

VARIABLES
  queued,    \* ClaudeSteering: sent, not acknowledged
  awaiting,  \* queued when a turn ended, waiting for the worker to speak
  owed,      \* held by the CLI, without a turn as far as the runner knows
  closed,    \* the channel has seen the end of the session or of its input
  working,   \* the CLI is in a turn
  overtaken  \* history: written when the CLI was a turn ahead of what had been read

steering == <<queued, awaiting, owed, closed>>
vars == <<common, steering, working, overtaken>>

Asks == mode # "deny"

InitSteering ==
  /\ queued = {} /\ awaiting = {} /\ owed = {} /\ closed = FALSE
  /\ working = FALSE /\ overtaken = {}

Init == InitSteering /\ \E m \in {"deny", "ask", "replay"} : InitWorker(m)

----------------------------------------------------------------------------
(* ClaudeSteering.  Each operator is a method, with the verdicts it updates.  *)

Update(ms, v) == verdict' = [m \in Messages |-> IF m \in ms THEN v ELSE verdict[m]]

(* A result has not been read, and a message that was written before this one *)
(* has its turn already: turnEnded will take this one for part of that turn.  *)
Ahead == /\ \E i \in 1..Len(out) : out[i].kind = "result"
         /\ \E n \in owed : where[n] = "taken"

(* steer: one line on stdin. *)
Steer(m) ==
  /\ phase = "running" /\ Asks /\ verdict[m] = "none"
  /\ IF closed \/ ~CanWrite
     THEN /\ closed' = TRUE
          /\ Update({m}, "failed")
          /\ UNCHANGED <<queued, awaiting, owed, where, overtaken>>
     ELSE /\ queued' = queued \cup {m}
          /\ owed' = owed \cup {m}
          /\ where' = [where EXCEPT ![m] = "held"]
          /\ overtaken' = IF Ahead THEN overtaken \cup {m} ELSE overtaken
          /\ Update({m}, "queued")
          /\ UNCHANGED <<awaiting, closed>>
  /\ UNCHANGED <<mode, phase, aborted, outcome, proc, out, heard, asked, settled, working>>

(* turnEnded, of a result: true when stdin must stay open. *)
StaysOpenForSpeech == mode = "ask" /\ queued # {}   \* mutant
StaysOpen == owed # {} \/ (mode = "ask" /\ queued # {})

TurnEndedAccepts ==   \* mutant: the boundary is taken for an acknowledgment
  /\ Update(queued \cup awaiting, "accepted")
  /\ queued' = {} /\ awaiting' = {} /\ owed' = {}
  /\ UNCHANGED closed

TurnEnded ==
  /\ Update(awaiting, "accepted")
  /\ IF mode = "ask" THEN awaiting' = queued /\ queued' = {}
     ELSE awaiting' = {} /\ UNCHANGED queued
  /\ owed' = {}
  /\ UNCHANGED closed

(* replayed: the echo of a message that is still waiting. *)
Replayed(m) ==
  /\ queued' = queued \ {m}
  /\ Update(queued \cap {m}, "accepted")
  /\ UNCHANGED <<awaiting, owed, closed>>

(* spoke: the worker says something. *)
Spoke ==
  /\ awaiting' = {}
  /\ Update(awaiting, "accepted")
  /\ UNCHANGED <<queued, owed, closed>>

(* end: what was not acknowledged never arrived. *)
End ==
  /\ queued' = {} /\ awaiting' = {} /\ owed' = {} /\ closed' = TRUE
  /\ Update(queued \cup awaiting, "failed")

----------------------------------------------------------------------------
(* The CLI. *)

Says(ls) == Alive /\ Writes(ls)
Quiet == UNCHANGED <<mode, phase, aborted, outcome, heard, verdict, asked, settled, steering>>

Speak ==
  /\ working /\ Says(<<Line("spoke", "none")>>)
  /\ Quiet /\ UNCHANGED <<proc, where, working>>

FailsInit ==
  /\ working /\ Says(<<Line("initFailed", "none")>>)
  /\ Quiet /\ UNCHANGED <<proc, where, working>>

AskFor(r) ==
  /\ working /\ Asks /\ asked[r] = "none"
  /\ \A i \in 1..Len(out) : out[i].kind # "ask"
  /\ Says(<<Line("ask", r)>>)
  /\ Quiet /\ UNCHANGED <<proc, where, working>>

Withdraw(r) ==
  /\ working /\ asked[r] = "open" /\ Says(<<Line("withdraw", r)>>)
  /\ Quiet /\ UNCHANGED <<proc, where, working>>

(* A turn ends with its result. *)
EndTurn ==
  /\ working /\ Says(<<Line("result", "none")>>)
  /\ working' = FALSE
  /\ Quiet /\ UNCHANGED <<proc, where>>

(* One turn takes every message that has come in. *)
Held == {m \in Messages : where[m] = "held"}

StartTurn ==
  /\ Alive /\ ~working /\ Held # {}
  /\ Writes(IF mode = "replay" THEN [i \in 1..Cardinality(Held) |-> Line("replay", SetToSeq(Held)[i])]
            ELSE <<>>)
  /\ where' = [m \in Messages |-> IF m \in Held THEN "taken" ELSE where[m]]
  /\ working' = TRUE
  /\ Quiet /\ UNCHANGED proc

(* Between turns, and with no more input to come, it leaves. *)
Leaves ==
  /\ ~working /\ ~proc.stdin /\ EndsWith({"zero", "nonzero"})
  /\ UNCHANGED <<steering, working>>

CLI ==
  \/ Speak \/ FailsInit \/ EndTurn \/ StartTurn \/ Leaves
  \/ \E r \in Requests : AskFor(r) \/ Withdraw(r)
  \/ working /\ (StartsTool \/ EndsTool) /\ UNCHANGED <<steering, working>>
  \/ OwnEnd /\ UNCHANGED <<steering, working>>

----------------------------------------------------------------------------
(* The runner. *)

Line1 == Head(out)

(* onStdoutLine. *)
Read ==
  /\ phase = "running" /\ out # <<>>
  /\ out' = Tail(out)
  /\ CASE Line1.kind = "spoke" -> Spoke /\ UNCHANGED <<heard, proc, asked, settled>>
       [] Line1.kind = "replay" -> Replayed(Line1.of) /\ UNCHANGED <<heard, proc, asked, settled>>
       [] Line1.kind = "initFailed" ->
            /\ heard' = [heard EXCEPT !.flaw = "init"]
            /\ UNCHANGED <<proc, verdict, asked, settled, steering>>
       [] Line1.kind \in {"tool", "toolDone"} ->
            /\ heard' = [heard EXCEPT !.tool = Line1.kind = "tool"]
            /\ IF Line1.kind = "tool" THEN Spoke ELSE UNCHANGED <<verdict, steering>>
            /\ UNCHANGED <<proc, asked, settled>>
       [] Line1.kind = "ask" ->
            /\ asked' = [asked EXCEPT ![Line1.of] = "open"]
            /\ UNCHANGED <<heard, proc, verdict, settled, steering>>
       [] Line1.kind = "withdraw" ->
            /\ Settle(Open \cap {Line1.of}, "withdrawn")
            /\ UNCHANGED <<heard, proc, verdict, steering>>
       [] Line1.kind = "result" ->
            /\ heard' = [heard EXCEPT !.result = "some"]
            /\ proc' = IF StaysOpen THEN proc ELSE WithoutStdin(proc)
            /\ TurnEnded
            /\ UNCHANGED <<asked, settled>>
  /\ UNCHANGED <<mode, phase, aborted, outcome, where, working>>

(* settle, when the hook has an answer for the worker. *)
Answer(r) ==
  /\ phase = "running" /\ r \in Open
  /\ Settle({r}, "answered")
  /\ UNCHANGED <<mode, phase, aborted, outcome, proc, out, heard, where, verdict, steering, working>>

(* onAbort: what is open is let go, then the process is told to end. *)
Abort ==
  /\ phase = "running" /\ ~aborted
  /\ aborted' = TRUE
  /\ proc' = Killed(proc)
  /\ Settle(Open, "ended")
  /\ UNCHANGED <<mode, phase, outcome, out, heard, where, verdict, steering, working>>

(* What the attempt comes to, once the process is gone. *)
Rejected(h, p) == h.result = "rejected" \/ p.stderr = "rejection"
Transient(h, p) == h.result = "transient" \/ p.stderr = "transient"

OfResultByStatus(h, p) ==   \* mutant: the status of a result for an outcome
  IF h.result = "denied" THEN "needs_input" ELSE "result"

OfResult(h, p) ==
  CASE h.result = "valid" -> "result"
    [] h.result \in {"invalid", "missing"} -> "invalid_result"
    [] h.result \in {"rejected", "transient", "denied", "error"} ->
         IF Rejected(h, p) THEN "config_error"
         ELSE IF Transient(h, p) THEN "api_error"
         ELSE IF h.result = "denied" THEN "result" ELSE "crash"

WithoutResultOrCode(h, p) ==   \* mutant: the exit code is not looked at
  IF Rejected(h, p) THEN "config_error"
  ELSE IF Transient(h, p) THEN "api_error"
  ELSE IF h.tool THEN "crash" ELSE "invalid_result"

WithoutResult(h, p) ==
  IF Rejected(h, p) THEN "config_error"
  ELSE IF p.code # "zero" THEN IF Transient(h, p) THEN "api_error" ELSE "crash"
  ELSE IF h.tool THEN "crash" ELSE "invalid_result"

Outcome(h, p) ==
  IF aborted THEN "cancelled"
  ELSE IF p.timedOut THEN "timeout"
  ELSE IF p.code = "enoent" \/ h.flaw = "init" THEN "crash"
  ELSE IF h.result = "none" THEN WithoutResult(h, p) ELSE OfResult(h, p)

Finish ==
  /\ phase = "running" /\ Ended
  /\ phase' = "done"
  /\ Classified(OfAny(Results \ {"none", "some"}))
  /\ outcome' = Outcome(heard', proc')
  /\ Settle(Open, "ended")
  /\ End
  /\ UNCHANGED <<mode, aborted, out, where, working>>

Runner == Read \/ Finish

Prepare ==
  \/ \E found \in BOOLEAN : Detected(found) /\ UNCHANGED <<steering, working>>
  \/ Spawn(Asks) /\ working' = TRUE /\ UNCHANGED steering

Operator ==
  \/ Abort
  \/ \E r \in Requests : Answer(r)
  \/ AbortBefore /\ UNCHANGED <<steering, working>>

Next ==
  \/ \E m \in Messages : Steer(m)
  \/ /\ Prepare \/ Operator \/ CLI \/ Runner \/ (Manager /\ UNCHANGED <<steering, working>>)
     /\ UNCHANGED overtaken
=============================================================================
