------------------------------- MODULE MCEnds -------------------------------
(***************************************************************************)
(* What has to come to an end whatever the other side does: the attempt of *)
(* an agent (Agents), and the requests in an inbox with the run they are    *)
(* for (RequestInbox).  The two do not share state; a behaviour is about    *)
(* one of them.                                                             *)
(***************************************************************************)
EXTENDS AgentsProperties, TLC

CONSTANTS Ids, KindOf, MaxOwners, MaxTroubles, m1, ask1

VARIABLES
  subject,
  pending, ack, stopFile, saved, runPhase, seen, stopping, at, batch, reply, answered,
  stopSeen, killing, sweep, swept, written, resent, stops, stuck, failed, lost, carried, leftover

I == INSTANCE RequestInboxProperties WITH Requests <- Ids, phase <- runPhase, sent <- written

inboxVars ==
  <<pending, ack, stopFile, saved, runPhase, seen, stopping, at, batch, reply, answered,
    stopSeen, killing, sweep, swept, written, resent, stops, stuck, failed, lost, carried, leftover>>

\* The number of a request says what it asks for.
KindByNumber == [r \in Ids |-> <<"command", "stop", "kill", "permission", "unreadable">>[r]]

InitBoth == Init /\ I!Init /\ subject \in {"inbox", "agent"} /\ (subject = "inbox" => part = "exec")

NextInbox == subject = "inbox" /\ UNCHANGED <<subject, vars>> /\ I!Next
NextAgent == subject = "agent" /\ UNCHANGED <<subject, inboxVars>> /\ Next

\* Fairness of RequestInbox.
FairInbox ==
  \A p \in I!Procs :
    /\ WF_inboxVars(subject = "inbox" /\ (I!Watch(p) \/ I!Handle(p)))
    /\ WF_inboxVars(subject = "inbox" /\ (I!Main(p) \/ (stopping[p] /\ I!Finish(p))))

\* FairSpec of Agents.
FairAgent ==
  /\ WF_vars(subject = "agent" /\ RunnerRuns)
  /\ WF_vars(subject = "agent" /\ Timers)

SpecBoth ==
  InitBoth /\ [][NextInbox \/ NextAgent]_<<subject, vars, inboxVars>> /\ FairInbox /\ FairAgent

\* An owner heeds its inbox (RequestInboxProperties).
InboxHeeded == I!InboxHeeded
=============================================================================
