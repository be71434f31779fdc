------------------------------ MODULE Messages ------------------------------
(***************************************************************************)
(* What an operator says to one task and changes about it, at the level of  *)
(* the records of workflow.json: the deliveries of prompts                 *)
(* (workflow/control/prompt.ts, follow-up.ts), the revisions of edits       *)
(* (edit.ts), and the attempts that carry them (scheduler.ts: decidePrompt, *)
(* decideEdit, launch, applyOutcome), with the orchestrator crashing, being *)
(* resumed (run-factory.ts) and an edit applied while nobody runs it.       *)
(*                                                                         *)
(* Every change of the record is saved before anything else is done, so the *)
(* record and the file are one; merging, interactions, holds and the other  *)
(* tasks of the run are in module Scheduler.  A message is a number.        *)
(***************************************************************************)
EXTENDS Integers, Sequences, FiniteSets, SequencesExt, FiniteSetsExt

CONSTANTS
  Original,      \* the task as the workflow file has it: a record of its fields
  Edits,         \* the edits asked for: functions from some of the fields to values
  Retries,       \* retry.attempts
  Transients,    \* retry.transientAttempts
  MaxAttempts,   \* bound: attempts
  MaxEvents,     \* bound: messages, edits and crashes together
  EditorWaits    \* no orchestrator starts between an offline edit's read and its write

ASSUME MessagesAssumption ==
  /\ {"prompt", "agent", "budget"} = DOMAIN Original
  /\ \A e \in Edits : DOMAIN e \subseteq DOMAIN Original /\ e # <<>>
  /\ {Retries, Transients, MaxAttempts, MaxEvents} \subseteq Nat
  /\ EditorWaits \in BOOLEAN

VARIABLES
  rec,       \* the task's record: its definition, state, attempts, revisions, messages
  live,      \* an orchestrator executes the run
  worker,    \* none, prepared (the attempt exists), working, ended (its end is still queued)
  ending,    \* how it ended
  wanted,    \* cancelRequests, suspendRequests and restartAfterCancel of the task
  dependent, \* whether a task that depends on it works or has succeeded, and after which revision it began
  editor,    \* an edit being applied offline: the record it read and the edit
  said,      \* of each accepted message: the session its answer named, the attempts there were
  heard,     \* the messages some worker was given
  crashes

vars == <<rec, live, worker, ending, wanted, dependent, editor, said, heard, crashes>>

None == 0
Terminal    == {"success", "failed", "cancelled"}
FollowUpStates == {"failed", "cancelled", "needs_input", "suspended"}
Editable    == {"pending", "ready", "failed", "cancelled", "needs_input", "suspended"}
Restartable == {"failed", "cancelled", "suspended"}
Unfinished  == {"api_error", "suspended"}
Ran == [cancel |-> FALSE, suspend |-> FALSE, restart |-> FALSE]
Idle == [reading |-> FALSE]

-----------------------------------------------------------------------------
(* The records. *)

LastAttempt(r) == IF r.attempts = <<>> THEN [outcome |-> "none", session |-> None] ELSE Last(r.attempts)
Number(r) == Len(r.attempts)
Put(r, n, field, v) == [r EXCEPT !.attempts = [@ EXCEPT ![n] = [@ EXCEPT ![field] = v]]]

PendingFollowUps(r) == SelectSeq(r.followUps, LAMBDA d : d.state = "queued")
FollowUpText(r) == [i \in DOMAIN PendingFollowUps(r) |-> PendingFollowUps(r)[i].id]

(* resumableSessionId: the session kept for the next attempt, or the last one's. *)
ResumableSession(r) ==
  IF r.resume # None THEN r.resume ELSE LastAttempt(r).session

EditPending(r) == r.revisions # <<>> /\ Last(r.revisions).applied = None

QueueFollowUp(r, m, session) ==
  LET queued == [r EXCEPT !.followUps = Append(@, [id |-> m, state |-> "queued", by |-> None])]
  IN [queued EXCEPT !.userInput = FollowUpText(queued), !.resume = session]

(* Mutant: what was carried is no longer the task's input. *)
MarkAndForget(r, n) ==
  [r EXCEPT !.userInput = <<>>, !.followUps =
    [i \in DOMAIN @ |-> IF @[i].state = "queued" THEN [@[i] EXCEPT !.state = "delivered", !.by = n] ELSE @[i]]]

MarkDelivered(r, n) ==
  [r EXCEPT !.followUps =
    [i \in DOMAIN @ |-> IF @[i].state = "queued" THEN [@[i] EXCEPT !.state = "delivered", !.by = n] ELSE @[i]]]

MarkApplied(r, n) ==
  [r EXCEPT !.revisions =
    [i \in DOMAIN @ |-> IF @[i].applied = None THEN [@[i] EXCEPT !.applied = n] ELSE @[i]]]

(* planEdit: the definition after the edit, and what it changed. *)
Planned(def, edit) == [f \in DOMAIN def |-> IF f \in DOMAIN edit THEN edit[f] ELSE def[f]]
Changed(def, edit) == {f \in DOMAIN edit : edit[f] # def[f]}
BudgetOnCodex(def, edit) == "budget" \in DOMAIN edit /\ Planned(def, edit).agent = "codex"

ApplyEdit(r, edit) ==
  LET fields == Changed(r.def, edit)
  IN [r EXCEPT !.def = Planned(@, edit),
               !.revisions = Append(@, [changes |-> [f \in fields |-> [from |-> r.def[f], to |-> edit[f]]],
                                        applied |-> None])]

Requeued(r) == [r EXCEPT !.state = "pending", !.window = Number(r) + 1]

(* How often attempts of the window ended so. *)
Ended(r, outcome) ==
  Cardinality({n \in DOMAIN r.attempts : n >= r.window /\ r.attempts[n].outcome = outcome})

-----------------------------------------------------------------------------
Init ==
  /\ rec = [def |-> Original, state |-> "pending", attempts |-> <<>>, revisions |-> <<>>,
            followUps |-> <<>>, userInput |-> <<>>, resume |-> None, window |-> 1]
  /\ live = "running" /\ worker = "none" /\ ending = "none" /\ wanted = Ran
  /\ dependent = [begun |-> FALSE, saw |-> 0]
  /\ editor = Idle /\ said = <<>> /\ heard = {} /\ crashes = 0

(* The scheduler's loop takes the next thing: launching, it does not. *)
Free == live # "gone" /\ worker # "prepared"
Inflight == worker # "none"
MoreEvents == Len(said) + Len(rec.revisions) + crashes < MaxEvents

-----------------------------------------------------------------------------
(* Attempts. *)

LaunchSession(r) ==
  IF ~EditPending(r) /\ (LastAttempt(r).outcome \in Unfinished \/ PendingFollowUps(r) # <<>>)
  THEN r.resume ELSE None

(* launch, as far as the save before the worker is started. *)
Launch ==
  LET n       == Number(rec) + 1
      session == LaunchSession(rec)
      carries == FollowUpText(rec)
      begun   == [rec EXCEPT !.state = "running", !.resume = None,
                   !.attempts = Append(@, [resumed |-> session, session |-> None, outcome |-> "none",
                                           revision |-> Len(rec.revisions), ran |-> rec.def,
                                           carries |-> carries])]
  IN /\ live = "running" /\ ~Inflight /\ n <= MaxAttempts
     /\ rec.state \in {"pending", "ready"}
     /\ rec' = MarkDelivered(MarkApplied(begun, n), n)
     /\ worker' = "prepared"
     /\ UNCHANGED <<live, ending, wanted, dependent, editor, said, heard, crashes>>

(* The workspace or a hook fails: no worker, and the prompt went nowhere. *)
LaunchFails ==
  /\ live # "gone" /\ worker = "prepared"
  /\ worker' = "ended" /\ ending' = "crash"
  /\ UNCHANGED <<rec, live, wanted, dependent, editor, said, heard, crashes>>

(* The prompt of a continued session is what the attempt carries; that of a   *)
(* fresh one has all of userInput.                                            *)
WorkerStarts ==
  LET a == Last(rec.attempts)
  IN /\ live # "gone" /\ worker = "prepared"
     /\ worker' = "working"
     /\ heard' = heard \cup ToSet(IF a.resumed # None THEN a.carries ELSE rec.userInput)
     /\ UNCHANGED <<rec, live, ending, wanted, dependent, editor, said, crashes>>

(* The worker reports its session: the one it continues, or its own. *)
ReportSession ==
  LET a == Last(rec.attempts)
  IN /\ live # "gone" /\ worker = "working" /\ a.session = None
     /\ rec' = Put(rec, Number(rec), "session", IF a.resumed # None THEN a.resumed ELSE Number(rec))
     /\ UNCHANGED <<live, worker, ending, wanted, dependent, editor, said, heard, crashes>>

Aborted == wanted.cancel \/ wanted.suspend \/ live = "stopping"

(* Its end is queued for the loop; a worker that was aborted may still end on *)
(* its own terms.                                                             *)
WorkerEnds ==
  /\ live # "gone" /\ worker = "working"
  /\ ending' \in {"success", "crash", "needs_input", "api_error"} \cup (IF Aborted THEN {"cancelled"} ELSE {})
  /\ worker' = "ended"
  /\ UNCHANGED <<rec, live, wanted, dependent, editor, said, heard, crashes>>

(* applyOutcome: the record after the attempt, and what was asked meanwhile. *)
KeepsSession(r) == IF PendingFollowUps(r) # <<>> THEN r ELSE [r EXCEPT !.resume = None]

Outcome(r, stopping) ==
  LET a     == Last(r.attempts)
      n     == Number(r)
      done  == Put(r, n, "outcome", ending)
      again == ~stopping /\ ending = "api_error" /\ Ended(done, "api_error") <= Transients
      retry == ~stopping /\ Ended(done, "crash") <= Retries
  IN CASE ending = "success" -> [done EXCEPT !.state = "success", !.userInput = <<>>]
       [] ending = "needs_input" -> [done EXCEPT !.state = "needs_input", !.resume = a.session]
       [] ending = "cancelled" /\ wanted.suspend ->
            [Put(r, n, "outcome", "suspended") EXCEPT !.state = "suspended",
               !.resume = IF a.session # None THEN a.session ELSE @]
       [] ending = "cancelled" -> [done EXCEPT !.state = "cancelled"]
       [] again -> [done EXCEPT !.state = "ready", !.resume = a.session]
       [] OTHER -> [KeepsSession(done) EXCEPT !.state = IF retry THEN "ready" ELSE "failed"]

(* applyPendingCancel, and the restart that is owed. *)
Cancelled(r, requested) ==
  IF ~requested \/ r.state \in Terminal THEN r ELSE [KeepsSession(r) EXCEPT !.state = "cancelled"]

Restarted(r, continues) ==
  IF r.state = "suspended" /\ ~continues /\ PendingFollowUps(r) = <<>>
  THEN Requeued([r EXCEPT !.resume = None]) ELSE Requeued(r)

AttemptDone ==
  LET stopping == live = "stopping"
      suspends == ending = "cancelled" /\ wanted.suspend
      after    == Cancelled(Outcome(rec, stopping), wanted.cancel /\ (ending # "cancelled" \/ suspends))
  IN /\ live # "gone" /\ worker = "ended"
     /\ worker' = "none" /\ ending' = "none"
     /\ wanted' = [Ran EXCEPT !.suspend = wanted.suspend /\ ~suspends]
     /\ live' = IF after.state = "needs_input" THEN "stopping" ELSE live
     /\ rec' = IF wanted.restart /\ after.state = "cancelled" /\ ~stopping THEN Restarted(after, FALSE) ELSE after
     /\ UNCHANGED <<dependent, editor, said, heard, crashes>>

-----------------------------------------------------------------------------
(* What the operator says. *)

(* promptRow: what a message does to a task whose worker cannot be spoken to.  *)
PromptRow(state) ==
  CASE state = "running" -> "stopAndContinue"
    [] state \in FollowUpStates -> "followUp"
    [] OTHER -> "none"

Says(session) ==
  said' = Append(said, [session |-> session, at |-> Number(rec)])

(* decideFollowUp: queued for the next attempt, which starts once the worker  *)
(* there may be has been stopped.                                             *)
Continue(fresh) ==
  LET m       == Len(said) + 1
      session == IF fresh THEN None ELSE ResumableSession(rec)
  IN /\ live = "running" /\ Free /\ MoreEvents
     /\ Says(session)
     /\ \/ /\ PromptRow(rec.state) = "followUp" /\ ~Inflight
           /\ rec' = Requeued(QueueFollowUp(rec, m, session))
           /\ UNCHANGED wanted
        \/ /\ PromptRow(rec.state) = "stopAndContinue" /\ Inflight
           /\ rec' = QueueFollowUp(rec, m, session)
           /\ wanted' = [wanted EXCEPT !.cancel = TRUE, !.restart = TRUE]
     /\ UNCHANGED <<live, worker, ending, dependent, editor, heard, crashes>>

-----------------------------------------------------------------------------
(* What the operator changes. *)

(* blockingDependent *)
Consumed == dependent.begun

(* Mutant: what depends on the task is not looked at. *)
MayEditAnyway(r, edit) == ~BudgetOnCodex(r.def, edit) /\ MoreEvents

MayEdit(r, edit) ==
  /\ ~Consumed /\ ~BudgetOnCodex(r.def, edit) /\ MoreEvents

Edit ==
  \E edit \in Edits, restart \in BOOLEAN :
    LET running == rec.state = "running"
        again   == restart /\ rec.state \in {"failed", "cancelled"}
        edited  == IF Changed(rec.def, edit) = {} THEN rec
                   ELSE [ApplyEdit(rec, edit) EXCEPT !.resume = None]
    IN /\ Free /\ MayEdit(rec, edit)
       /\ rec.state \in Editable \/ (running /\ restart)
       /\ Changed(rec.def, edit) # {} \/ again \/ running
       /\ rec' = IF again /\ live = "running" THEN Restarted(edited, FALSE) ELSE edited
       /\ wanted' = IF ~running THEN wanted
                    ELSE [wanted EXCEPT !.restart = TRUE, !.cancel = @ \/ Changed(rec.def, edit) # {}]
       /\ UNCHANGED <<live, worker, ending, dependent, editor, said, heard, crashes>>

(* applyEditOffline: reads the file of a run nobody executes, then writes it. *)
EditorReads ==
  \E edit \in Edits :
    /\ live = "gone" /\ ~editor.reading
    /\ rec.state \in Editable /\ MayEdit(rec, edit) /\ Changed(rec.def, edit) # {}
    /\ editor' = [reading |-> TRUE, read |-> rec, edit |-> edit]
    /\ UNCHANGED <<rec, live, worker, ending, wanted, dependent, said, heard, crashes>>

(* An orchestrator that has started since does not see it, and saves its own. *)
EditorWrites ==
  /\ editor.reading
  /\ editor' = Idle
  /\ rec' = IF live = "gone" THEN ApplyEdit(editor.read, editor.edit) ELSE rec
  /\ UNCHANGED <<live, worker, ending, wanted, dependent, said, heard, crashes>>

(* cancelTask, suspendTask, restart, resumeTask *)
CancelTask ==
  /\ Free /\ Inflight /\ ~wanted.cancel
  /\ wanted' = [wanted EXCEPT !.cancel = TRUE]
  /\ UNCHANGED <<rec, live, worker, ending, dependent, editor, said, heard, crashes>>

SuspendTask ==
  /\ Free /\ Inflight /\ ~wanted.suspend /\ ResumableSession(rec) # None
  /\ wanted' = [wanted EXCEPT !.suspend = TRUE]
  /\ UNCHANGED <<rec, live, worker, ending, dependent, editor, said, heard, crashes>>

RestartTask ==
  /\ live = "running" /\ ~Inflight /\ rec.state \in Restartable
  /\ \E continues \in BOOLEAN :
       /\ continues => rec.state = "suspended"
       /\ rec' = Restarted(rec, continues)
  /\ UNCHANGED <<live, worker, ending, wanted, dependent, editor, said, heard, crashes>>

-----------------------------------------------------------------------------
(* The run around the task. *)

(* A dependent, which runs if this task has failed, too, begins, or it fails. *)
DependentMoves ==
  /\ live = "running" /\ ~Inflight
  /\ \/ /\ ~Consumed /\ rec.state \in {"success", "failed"}
        /\ dependent' = [begun |-> TRUE, saw |-> Len(rec.revisions)]
     \/ Consumed /\ dependent' = [begun |-> FALSE, saw |-> 0]
  /\ UNCHANGED <<rec, live, worker, ending, wanted, editor, said, heard, crashes>>

(* A stop aborts the worker and forgets the restart it was to have. *)
StopRun ==
  /\ live = "running" /\ worker # "prepared"
  /\ live' = "stopping" /\ wanted' = [wanted EXCEPT !.restart = FALSE]
  /\ UNCHANGED <<rec, worker, ending, dependent, editor, said, heard, crashes>>

(* finalize.  After a question the run pauses, and tasks that wait stay. *)
RunEnds ==
  /\ live = "stopping" \/ (live = "running" /\ rec.state \in Terminal)
  /\ ~Inflight
  /\ live' = "gone" /\ wanted' = Ran
  /\ rec' \in {rec} \cup (IF live = "stopping" /\ rec.state \in {"pending", "ready"}
                         THEN {[rec EXCEPT !.state = "cancelled"]} ELSE {})
  /\ UNCHANGED <<worker, ending, dependent, editor, said, heard, crashes>>

Crash ==
  /\ live # "gone" /\ MoreEvents
  /\ live' = "gone" /\ worker' = "none" /\ ending' = "none"
  /\ wanted' = Ran /\ crashes' = crashes + 1
  /\ dependent' \in {dependent, [begun |-> FALSE, saw |-> 0]}
  /\ UNCHANGED <<rec, editor, said, heard>>

(* reconcileForResume, for a task that may be named. *)
Reconciled(r, named) ==
  CASE r.state = "running" -> [Put(r, Number(r), "outcome", "interrupted") EXCEPT !.state = "pending"]
    [] r.state = "ready" -> [r EXCEPT !.state = "pending"]
    [] r.state \in {"failed", "cancelled", "suspended"} -> Requeued(r)
    [] named /\ r.state \in {"needs_input", "success"} -> Requeued(r)
    [] OTHER -> r

(* cao resume, cao resume --task, and with a message: --input or cao task prompt. *)
Resume ==
  /\ live = "gone" /\ (EditorWaits => ~editor.reading)
  /\ live' = "running"
  /\ \/ /\ \E named \in BOOLEAN : rec' = Reconciled(rec, named)
        /\ UNCHANGED said
     \/ LET m == Len(said) + 1
            r == Reconciled(rec, TRUE)
        IN /\ rec.state \in FollowUpStates /\ MoreEvents
           /\ \E fresh \in BOOLEAN :
                LET session == IF fresh THEN None ELSE ResumableSession(r)
                IN /\ rec' = QueueFollowUp(r, m, session)
                   /\ Says(session)
  /\ UNCHANGED <<worker, ending, wanted, dependent, editor, heard, crashes>>

Next ==
  \/ Launch \/ LaunchFails \/ WorkerStarts \/ ReportSession \/ WorkerEnds \/ AttemptDone
  \/ (\E fresh \in BOOLEAN : Continue(fresh))
  \/ Edit \/ EditorReads \/ EditorWrites \/ CancelTask \/ SuspendTask \/ RestartTask
  \/ DependentMoves \/ StopRun \/ RunEnds \/ Crash \/ Resume

Spec == Init /\ [][Next]_vars
=============================================================================
