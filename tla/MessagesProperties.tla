------------------------- MODULE MessagesProperties -------------------------
(***************************************************************************)
(* What the record of a task promises the operator who wrote to it.         *)
(***************************************************************************)
EXTENDS Messages

(* A message that was accepted is not lost on the way to a worker: until one *)
(* was given it, it is queued for the next attempt or part of the input that *)
(* every fresh attempt is composed with, whatever was stopped, edited,       *)
(* crashed or failed to start in between; unless a later message took its    *)
(* place or an attempt that was already running succeeded without it         *)
(* (queueFollowUp, markFollowUpsDelivered, launch, applyOutcome,             *)
(* applyPendingCancel, reconcileForResume).                                  *)
MessageKept ==
  \A m \in DOMAIN said :
    \/ m \in heard \/ Contains(FollowUpText(rec), m) \/ Contains(rec.userInput, m)
    \/ m < Len(said)
    \/ \E n \in DOMAIN rec.attempts : n >= said[m].at /\ rec.attempts[n].outcome = "success"

(* [D27]: an attempt never continues a conversation about a task that has been *)
(* edited since: the session it continues ran the same revision (launch,       *)
(* resumableSessionId, editPendingOnTask, applyOutcome).                       *)
SessionOfRevision ==
  \A n \in DOMAIN rec.attempts :
    LET before == rec.attempts[n].resumed
    IN before # None => rec.attempts[before].revision = rec.attempts[n].revision

(* The definition after the first k revisions. *)
Revised[k \in 0 .. MaxEvents] ==
  IF k = 0 THEN Original
  ELSE LET to(f) == rec.revisions[k].changes[f].to
       IN [f \in DOMAIN Original |-> IF f \in DOMAIN rec.revisions[k].changes THEN to(f) ELSE Revised[k - 1][f]]

(* The history of edits is true: replayed from the workflow file it gives the *)
(* task as it is and, up to the revision an attempt names, the task that      *)
(* attempt ran; each revision names the first attempt that ran with it; and   *)
(* no task that depends on this one works on, or has succeeded after, an      *)
(* earlier revision; and no conversation spans an edit (applyEdit,            *)
(* markRevisionsApplied, dependentRejection, applyEditOffline).               *)
HistoryTrue ==
  /\ rec.def = Revised[Len(rec.revisions)]
  /\ \A n \in DOMAIN rec.attempts : rec.attempts[n].ran = Revised[rec.attempts[n].revision]
  /\ \A k \in DOMAIN rec.revisions :
       LET carriers == {n \in DOMAIN rec.attempts : rec.attempts[n].revision >= k}
       IN rec.revisions[k].applied = IF carriers = {} THEN None ELSE Min(carriers)
  /\ Consumed => dependent.saw = Len(rec.revisions)
  /\ SessionOfRevision

(* What followUpAck says (prompt.ts:184): the next attempt after a message     *)
(* continues the session the answer named.                                    *)
PromiseKept ==
  \A n \in DOMAIN rec.attempts :
    LET carried  == rec.attempts[n].carries
        promised == said[Last(carried)].session
    IN carried # <<>> /\ promised # None => rec.attempts[n].resumed = promised
=============================================================================
