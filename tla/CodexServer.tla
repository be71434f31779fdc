----------------------------- MODULE CodexServer -----------------------------
(***************************************************************************)
(* An attempt of the codex runner over `codex app-server`                    *)
(* (runners/codex/app-server.ts): a JSON-RPC client that opens a thread,      *)
(* starts one turn in it, steers that turn and answers what the server asks.  *)
(* The server may answer late, in any order, with an overload that is tried   *)
(* again, or never.                                                           *)
(* Modes: "input", and "declining", in which questions are not answered.      *)
(***************************************************************************)
EXTENDS Worker

CONSTANT MaxOverloads   \* 3 in the code


VARIABLES
  sent,       \* calls on the wire, not answered
  overloads,  \* of each call: how often it was sent again (inflightRequests)
  delayed,    \* calls that wait to be sent again
  threadOpen, \* the operator has the channel
  turnReady,  \* turn/start has been answered
  turn        \* of the server: "none", "active", "over"

rpc == <<sent, overloads, delayed, threadOpen, turnReady, turn>>
vars == <<common, rpc>>

Calls == {"initialize", "thread", "turn"} \cup Messages

InitRpc ==
  /\ sent = {} /\ delayed = {} /\ overloads = [c \in Calls |-> 0]
  /\ threadOpen = FALSE /\ turnReady = FALSE /\ turn = "none"

Init == InitRpc /\ \E m \in {"input", "declining"} : InitWorker(m)

Verdict(m, v) == verdict' = [verdict EXCEPT ![m] = v]

----------------------------------------------------------------------------
(* The server. *)

Quiet == UNCHANGED <<mode, phase, aborted, outcome, proc, heard, verdict, asked, settled,
                     overloads, delayed, threadOpen, turnReady>>

Reply(c, how) == Alive /\ Writes(<<[kind |-> "reply", of |-> c, how |-> how]>>) /\ sent' = sent \ {c}

Refuses ==
  /\ \E c \in sent, how \in {"error", "overloaded", "conflict"} :
       Reply(c, how) /\ (how = "conflict" => c = "thread")
  /\ Quiet /\ UNCHANGED <<where, turn>>

Accepts ==
  /\ \E c \in sent :
       /\ c \in Messages => turn = "active"
       /\ Reply(c, "ok")
       /\ where' = IF c \in Messages THEN [where EXCEPT ![c] = "taken"] ELSE where
       /\ turn' = IF c = "turn" THEN "active" ELSE turn
  /\ Quiet

AsksFor(r) ==
  /\ Alive /\ turn = "active" /\ asked[r] = "none"
  /\ \A i \in 1..Len(out) : out[i].kind # "ask"
  /\ Writes(<<Line("ask", r)>>)
  /\ Quiet /\ UNCHANGED <<sent, where, turn>>

(* turn/completed: failed, or completed with the text of its last message. *)
CompletesTurn ==
  /\ Alive /\ turn = "active"
  /\ Writes(<<Line("turnDone", "none")>>)
  /\ turn' = "over"
  /\ Quiet /\ UNCHANGED <<sent, where>>

Leaves == ~proc.stdin /\ EndsWith({"zero", "nonzero"}) /\ UNCHANGED rpc

CLI ==
  \/ Refuses \/ Accepts \/ CompletesTurn \/ Leaves
  \/ \E r \in Requests : AsksFor(r)
  \/ turn = "active" /\ (StartsTool \/ EndsTool) /\ UNCHANGED rpc
  \/ OwnEnd /\ UNCHANGED rpc

----------------------------------------------------------------------------
(* The client. *)

(* request: on the wire, if the server still reads. *)
Request(c, p) == sent' = IF p.stdin /\ p.life # "closed" THEN sent \cup {c} ELSE sent

Line1 == Head(out)

(* A misconfiguration, a refused handshake or a session somebody else holds. *)
GivesUp(flaw) == heard' = [heard EXCEPT !.flaw = flaw] /\ proc' = Killed(proc)

(* retryOverloaded, which takes the answer before anybody else sees it. *)
Overloaded ==
  /\ Line1.how = "overloaded" /\ overloads[Line1.of] < MaxOverloads
  /\ overloads' = [overloads EXCEPT ![Line1.of] = @ + 1]
  /\ delayed' = delayed \cup {Line1.of}
  /\ UNCHANGED <<heard, proc, verdict, sent, threadOpen, turnReady>>

Answered ==
  /\ ~(Line1.how = "overloaded" /\ overloads[Line1.of] < MaxOverloads)
  /\ UNCHANGED <<overloads, delayed>>
  /\ CASE Line1.of \in Messages ->
            /\ IF verdict[Line1.of] = "called"
               THEN Verdict(Line1.of, IF Line1.how = "ok" THEN "accepted" ELSE "rejected")
               ELSE UNCHANGED verdict
            /\ UNCHANGED <<heard, proc, sent, threadOpen, turnReady>>
       [] Line1.of = "initialize" ->
            /\ IF Line1.how = "ok" THEN Request("thread", proc) /\ UNCHANGED <<heard, proc>>
               ELSE GivesUp("protocol") /\ UNCHANGED sent
            /\ UNCHANGED <<verdict, threadOpen, turnReady>>
       [] Line1.of = "thread" ->
            /\ \/ /\ Line1.how = "ok"
                  /\ threadOpen' = TRUE
                  /\ Request("turn", proc)
                  /\ UNCHANGED <<heard, proc>>
               \/ /\ GivesUp(IF Line1.how = "conflict" THEN "conflict" ELSE "protocol")
                  /\ UNCHANGED <<sent, threadOpen>>
            /\ UNCHANGED <<verdict, turnReady>>
       [] Line1.of = "turn" ->
            /\ turnReady' = TRUE
            /\ IF Line1.how = "ok" THEN UNCHANGED <<heard, proc>> ELSE GivesUp("protocol")
            /\ UNCHANGED <<verdict, sent, threadOpen>>

(* answerRequest, declineUserInput. *)
Asked(r) ==
  IF r \in Questions /\ mode = "declining"
  THEN /\ heard' = [heard EXCEPT !.blocked = TRUE]
       /\ Settle({r}, "answered")
  ELSE /\ asked' = [asked EXCEPT ![r] = "open"]
       /\ UNCHANGED <<heard, settled>>

Read ==
  /\ phase = "running" /\ out # <<>>
  /\ out' = Tail(out)
  /\ CASE Line1.kind = "reply" -> (Overloaded \/ Answered) /\ UNCHANGED <<asked, settled>>
       [] Line1.kind = "ask" ->
            Asked(Line1.of) /\ UNCHANGED <<proc, verdict, sent, overloads, delayed, threadOpen, turnReady>>
       [] Line1.kind \in {"tool", "toolDone"} ->
            /\ heard' = [heard EXCEPT !.tool = Line1.kind = "tool"]
            /\ UNCHANGED <<proc, verdict, asked, settled, sent, overloads, delayed, threadOpen, turnReady>>
       [] Line1.kind = "turnDone" ->
            /\ heard' = [heard EXCEPT !.result = "some"]
            /\ proc' = WithoutStdin(proc)
            /\ UNCHANGED <<verdict, asked, settled, sent, overloads, delayed, threadOpen, turnReady>>
  /\ UNCHANGED <<mode, phase, aborted, outcome, where, turn>>

Resend ==
  /\ phase = "running"
  /\ \E c \in delayed : delayed' = delayed \ {c} /\ Request(c, proc)
  /\ UNCHANGED <<common, overloads, threadOpen, turnReady, turn>>

(* An answer to a permission is sent; one that is not an answer declines a    *)
(* question, and the attempt remembers it.                                    *)
Answer(r) ==
  /\ phase = "running" /\ r \in Open
  /\ Settle({r}, "answered")
  /\ \E declined \in BOOLEAN :
       heard' = [heard EXCEPT !.blocked = @ \/ (declined /\ r \in Questions)]
  /\ UNCHANGED <<mode, phase, aborted, outcome, proc, out, where, verdict, rpc>>

(* steer, up to the answer to turn/start that it waits for ... *)
Steer(m) ==
  /\ phase = "running" /\ threadOpen /\ verdict[m] = "none"
  /\ Verdict(m, "waiting")
  /\ UNCHANGED <<mode, phase, aborted, outcome, proc, out, heard, where, asked, settled, rpc>>

(* ... and from there. *)
CallSteer(m) ==
  /\ phase = "running" /\ verdict[m] = "waiting" /\ turnReady
  /\ Verdict(m, IF CanWrite THEN "called" ELSE "rejected")
  /\ Request(m, proc)
  /\ UNCHANGED <<mode, phase, aborted, outcome, proc, out, heard, where, asked, settled,
                 overloads, delayed, threadOpen, turnReady, turn>>

CallTimesOut(m) ==
  /\ phase = "running" /\ verdict[m] = "called"
  /\ Verdict(m, "rejected")
  /\ UNCHANGED <<mode, phase, aborted, outcome, proc, out, heard, where, asked, settled, rpc>>

Abort ==
  /\ phase = "running" /\ ~aborted
  /\ aborted' = TRUE
  /\ proc' = Killed(proc)
  /\ UNCHANGED <<mode, phase, outcome, out, heard, where, verdict, asked, settled, rpc>>

(* A declined question is the outcome when the turn came to nothing. *)
OrBlocked(h, o) == IF h.blocked THEN "result" ELSE o

Outcome(h, p) ==
  IF aborted THEN "cancelled"
  ELSE IF p.timedOut THEN OrBlocked(h, "timeout")
  ELSE IF h.flaw # "none" THEN "config_error"
  ELSE CASE h.result = "none" -> OrBlocked(h, "crash")
         [] h.result = "transient" -> "api_error"
         [] h.result = "error" -> OrBlocked(h, "crash")
         [] h.result = "valid" -> "result"
         [] h.result \in {"invalid", "missing"} -> OrBlocked(h, "invalid_result")

(* The end of the process answers whatever still waits for it. *)
Finish ==
  /\ phase = "running" /\ Ended
  /\ phase' = "done"
  /\ Classified(OfAny({"valid", "invalid", "missing", "transient", "error"}))
  /\ outcome' = Outcome(heard', proc')
  /\ Settle(Open, "ended")
  /\ verdict' = [m \in Messages |-> IF verdict[m] \in Pending THEN "rejected" ELSE verdict[m]]
  /\ turnReady' = TRUE
  /\ delayed' = {}
  /\ UNCHANGED <<mode, aborted, out, where, sent, overloads, threadOpen, turn>>

(* codex.approvals: host, without anybody to approve. *)
NeedsDashboard ==
  /\ phase = "preparing"
  /\ phase' = "done" /\ outcome' = "result"
  /\ UNCHANGED <<mode, aborted, proc, out, heard, where, verdict, asked, settled>>

Prepare ==
  \/ \E found \in BOOLEAN : Detected(found) /\ UNCHANGED rpc
  \/ NeedsDashboard /\ UNCHANGED rpc
  \/ /\ Spawn(TRUE)
     /\ Request("initialize", proc')
     /\ UNCHANGED <<overloads, delayed, threadOpen, turnReady, turn>>

Runner ==
  \/ Read \/ Resend \/ Finish
  \/ \E m \in Messages : CallSteer(m) \/ CallTimesOut(m)

Operator ==
  \/ Abort \/ \E m \in Messages : Steer(m)
  \/ \E r \in Requests : Answer(r)
  \/ AbortBefore /\ UNCHANGED rpc

Next == Prepare \/ Operator \/ CLI \/ Runner \/ (Manager /\ UNCHANGED rpc)
=============================================================================
