----------------------- MODULE RequestInboxProperties -----------------------
(***************************************************************************)
(* What is promised of the request inbox: a request is carried out once,   *)
(* and its sender is answered, whatever becomes of the owners.             *)
(***************************************************************************)
EXTENDS RequestInbox

(* A request is carried out at most once in the life of the run, though it  *)
(* is sent again, its ack fails or its file will not go, and though its     *)
(* owner dies between any two steps; and nothing is carried out, or answered *)
(* as applied, that the saved run does not know.                            *)
AppliedOnce ==
  \A r \in Requests :
    /\ Len(carried[r]) <= 1
    /\ carried[r] # <<>> \/ ack[r] = "applied" => saved[r] = "applied"

(* A request left by an earlier owner is not carried out by the next one,   *)
(* which a leftover stop or kill would end as it starts.  A file that could *)
(* not be deleted is out of the sweep's hands.                              *)
NothingInherited ==
  [][\A r \in leftover \ stuck : carried'[r] = carried[r]]_vars

(* An owner that a kill ended has answered that kill and removed it, so     *)
(* that the next owner is not killed by it.                                 *)
KillConsumed ==
  \A r \in Requests, p \in Procs :
    /\ KindOf[r] = "kill" /\ p \in Range(carried[r])
    /\ phase[p] \in {"gone", "killed"} /\ r \notin failed
    => ack[r] # "none" /\ r \notin pending \ (stuck \cup resent)

(* One owner's requests do not reach the next. *)
NothingLeftBehind == NothingInherited /\ []KillConsumed

(* A request that an owner can read is answered and consumed, unless that   *)
(* owner dies first or a file will not be deleted.                          *)
RequestsConsumed ==
  \A r \in Requests, p \in Procs :
    (r \in pending /\ phase[p] = "running") ~>
      (r \notin pending \/ phase[p] \in {"killed", "crashed"} \/ r \in stuck)

(* A stop.json written while an owner runs ends that run, unless the owner  *)
(* before it is still closing: its last sweep takes the new owner's file.   *)
StopFileObeyed ==
  \A p \in Procs :
    (stopFile /\ phase[p] = "running" /\ \A q \in 1 .. p - 1 : phase[q] \in Over)
      ~> phase[p] # "running"

(* An owner heeds its inbox. *)
InboxHeeded == RequestsConsumed /\ StopFileObeyed

(* A request that was carried out and is sent again gets its first answer   *)
(* and does nothing: no owner is killed, and none has its workers shut      *)
(* down, that is not stopping its run.                                      *)
ResentDoesNothing ==
  \A r \in resent, p \in Procs :
    phase[p] = "running" /\ carried[r] # <<>> /\ ~stopping[p]
      => ~killing[p] /\ ~stopSeen[p]

=============================================================================
