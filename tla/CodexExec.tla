------------------------------ MODULE CodexExec ------------------------------
(***************************************************************************)
(* An attempt of the codex runner over `codex exec` (codex-runner.ts).        *)
(* Nothing can be asked or sent: codex refuses its own approvals, and the     *)
(* runner only notices.  The result is a file, not a line.                    *)
(***************************************************************************)
EXTENDS Worker

vars == common

Init == InitWorker("exec")

Says(line) == Alive /\ Writes(<<line>>)

(* A failure on the stream, or a refused approval. *)
Reports ==
  /\ \E k \in {"needsHuman", "transient", "rejected", "error"} : Says(Line(k, "none"))
  /\ UNCHANGED <<mode, phase, aborted, outcome, proc, heard, where, verdict, asked, settled>>

(* onStdoutLine: a typed failure replaces the last one, a rejected schema and *)
(* a refused decision are remembered.                                         *)
Hear(kind) ==
  heard' = [heard EXCEPT
    !.tool = IF kind \in {"tool", "toolDone"} THEN kind = "tool" ELSE @,
    !.blocked = @ \/ kind = "needsHuman",
    !.flaw = IF kind = "rejected" \/ (kind \in {"transient", "error"} /\ @ # "rejected") THEN kind ELSE @]

Read ==
  /\ phase = "running" /\ out # <<>>
  /\ Hear(Head(out).kind)
  /\ out' = Tail(out)
  /\ UNCHANGED <<mode, phase, aborted, outcome, proc, where, verdict, asked, settled>>

Abort ==
  /\ phase = "running" /\ ~aborted
  /\ aborted' = TRUE
  /\ proc' = Killed(proc)
  /\ UNCHANGED <<mode, phase, outcome, out, heard, where, verdict, asked, settled>>

Outcome(h, p) ==
  IF aborted THEN "cancelled"
  ELSE IF p.timedOut THEN "timeout"
  ELSE IF h.result = "valid" \/ h.blocked THEN "result"
  ELSE IF h.result = "invalid" THEN "invalid_result"
  ELSE IF p.stderr = "rejection" \/ h.flaw = "rejected" THEN "config_error"
  ELSE IF p.code # "zero"
       THEN IF h.flaw = "transient" \/ p.stderr = "transient" THEN "api_error" ELSE "crash"
  ELSE IF h.tool THEN "crash" ELSE "invalid_result"

Finish ==
  /\ phase = "running" /\ Ended
  /\ phase' = "done"
  /\ Classified({"none", "valid", "invalid", "missing"})  \* final.json
  /\ outcome' = Outcome(heard', proc')
  /\ UNCHANGED <<mode, aborted, out, where, verdict, asked, settled>>

Runner == Read \/ Finish
Prepare == (\E found \in BOOLEAN : Detected(found)) \/ Spawn(FALSE)
Operator == Abort \/ AbortBefore
CLI == Reports \/ StartsTool \/ EndsTool \/ EndsWith({"zero"}) \/ OwnEnd

Next == Prepare \/ Operator \/ CLI \/ Runner \/ Manager
=============================================================================
