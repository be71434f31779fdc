---------------------------- MODULE RequestInbox ----------------------------
(***************************************************************************)
(* The request inbox of a run: how another process asks the orchestrator   *)
(* that owns a run for something, and what becomes of the request when     *)
(* owners crash, are killed, end and are followed by other owners.         *)
(*                                                                         *)
(* A sender writes a request file.  The owner polls the directory          *)
(* (src/src/execution/signals.ts), submits each request to the scheduler,  *)
(* writes its ack and deletes the file, with an await between any two.     *)
(* Two threads of control share an owner: the watcher (`at`, `batch`) and  *)
(* what starts and ends the run around it (`phase`, `sweep`).              *)
(*                                                                         *)
(*  new -> clearing -> running -> ended -> released -> closing -> gone     *)
(*  rest -> drain -> asked -> recorded -> saved -> settled -> written      *)
(***************************************************************************)
EXTENDS Naturals, Sequences, FiniteSets, FiniteSetsExt, SequencesExt

CONSTANTS
  Requests,   \* the ids of the requests; a ULID order is the order of Nat
  KindOf,     \* what each asks for
  MaxOwners,  \* bound: processes that own the run, one after the other
  MaxTroubles \* bound: requests sent again, stop.json written, file operations
              \* that fail

Kinds == {"command", "stop", "kill", "permission", "unreadable"}
Statuses == {"none", "applied", "rejected"}

ASSUME RequestsAssumption ==
  /\ Requests \subseteq Nat \ {0}
  /\ KindOf \in [Requests -> Kinds]
  /\ MaxOwners \in Nat /\ MaxTroubles \in Nat

(* The owners, in the order they start. *)
Procs == 1 .. MaxOwners

(* The request made of a stop.json, whose id is new each time. *)
StopJson == 0

VARIABLES
  \* what is on disk
  pending,    \* requests/
  ack,        \* requests/acks/
  stopFile,   \* whether stop.json is there
  saved,      \* controls.seen in workflow.json
  \* what an owner holds in memory
  phase,      \* how far its run is
  seen,       \* run.controls.seen
  stopping,   \* whether its scheduler is stopping the run
  at,         \* where its watcher is
  batch,      \* the requests the watcher has read and not finished, smallest first
  reply,      \* the answer to the first of them
  answered,   \* the ids the watcher has answered
  stopSeen,   \* whether a stop was applied and the shutdown of the workers begun
  killing,    \* whether the timer of a kill is set
  sweep,      \* the requests clearPendingRequests has read and not removed
  swept,      \* whether it has answered the first of them
  \* senders and faults
  sent, resent, \* the requests written, and those written again
  stops,      \* how often stop.json was written
  stuck,      \* the requests a deletion has failed for
  failed,     \* the requests whose ack the watcher could not write
  lost,       \* the requests whose rejection a sweep could not write
  \* history
  carried,    \* per request, the owners whose scheduler carried it out, in order
  leftover    \* the requests the newest owner found when it started

disk    == <<pending, ack, stopFile, saved>>
run     == <<phase, seen, stopping>>
watcher == <<at, batch, reply, answered, stopSeen>>
sweeper == <<sweep, swept>>
senders == <<sent, resent, stops>>
faults  == <<stuck, failed, lost>>
history == <<carried, leftover>>
vars == <<disk, run, watcher, killing, sweeper, senders, faults, history>>

TypeOK ==
  /\ pending \subseteq Requests /\ leftover \subseteq Requests
  /\ ack \in [Requests -> Statuses] /\ saved \in [Requests -> Statuses]
  /\ stopFile \in BOOLEAN
  /\ phase \in [Procs -> {"new", "clearing", "running", "ended",
                          "released", "closing", "gone", "killed", "crashed"}]
  /\ seen \in [Procs -> [Requests -> Statuses]]
  /\ stopping \in [Procs -> BOOLEAN] /\ stopSeen \in [Procs -> BOOLEAN]
  /\ killing \in [Procs -> BOOLEAN] /\ swept \in [Procs -> BOOLEAN]
  /\ at \in [Procs -> {"rest", "drain", "asked", "recorded", "saved",
                       "settled", "written"}]
  /\ batch \in [Procs -> SUBSET (Requests \cup {StopJson})]
  /\ \A p \in Procs : at[p] \notin {"rest", "drain"} => batch[p] # {}
  /\ reply \in [Procs -> Statuses]
  /\ answered \in [Procs -> SUBSET Requests] /\ sweep \in [Procs -> SUBSET Requests]
  /\ \A p \in Procs : swept[p] => phase[p] \in {"clearing", "closing"} /\ sweep[p] # {}
  /\ resent \subseteq sent /\ sent \subseteq Requests
  /\ stops \in 0 .. MaxTroubles
  /\ stuck \subseteq Requests \cup {StopJson} /\ failed \subseteq Requests \cup {StopJson}
  /\ lost \subseteq Requests
  /\ carried \in [Requests -> Seq(Procs)]

Init ==
  /\ pending = {} /\ stopFile = FALSE
  /\ ack = [r \in Requests |-> "none"] /\ saved = ack
  /\ phase = [p \in Procs |-> "new"]
  /\ seen = [p \in Procs |-> ack]
  /\ stopping = [p \in Procs |-> FALSE]
  /\ stopSeen = stopping /\ killing = stopping /\ swept = stopping
  /\ at = [p \in Procs |-> "rest"]
  /\ batch = [p \in Procs |-> {}]
  /\ answered = batch /\ sweep = batch
  /\ reply = [p \in Procs |-> "none"]
  /\ sent = {} /\ resent = {} /\ stops = 0 /\ stuck = {} /\ failed = {} /\ lost = {}
  /\ leftover = {}
  /\ carried = [r \in Requests |-> <<>>]

-----------------------------------------------------------------------------
(* Senders. *)

Over == {"gone", "killed", "crashed"}

Alive(p) == phase[p] \notin Over \cup {"new"}

Owned == \E p \in Procs : Alive(p)

MoreTrouble ==
  MaxTroubles > stops + Cardinality(resent)
                + Cardinality(stuck) + Cardinality(failed) + Cardinality(lost)

MayFail(r) == r \notin stuck \cup failed \cup lost /\ MoreTrouble

(* writeControlRequest, after a look at who owns the run. *)
Write(r) ==
  /\ r \notin sent /\ Owned
  /\ sent' = sent \cup {r}
  /\ pending' = pending \cup {r}
  /\ UNCHANGED <<ack, stopFile, saved, run, watcher, killing, sweeper, resent,
                 stops, faults, history>>

(* The sender lost the ack and asks again under the same id. *)
Resend(r) ==
  /\ r \in sent \ (resent \cup pending) /\ Owned /\ MoreTrouble
  /\ resent' = resent \cup {r}
  /\ pending' = pending \cup {r}
  /\ leftover' = leftover \ {r}
  /\ UNCHANGED <<ack, stopFile, saved, run, watcher, killing, sweeper, sent,
                 stops, faults, carried>>

(* cao stop, while an orchestrator is alive. *)
WriteStopFile ==
  /\ Owned /\ MoreTrouble
  /\ stops' = stops + 1
  /\ stopFile' = TRUE
  /\ UNCHANGED <<pending, ack, saved, run, watcher, killing, sweeper, sent,
                 resent, faults, history>>

-----------------------------------------------------------------------------
(* The beginning and the end of an owner. *)

(* What an owner remembers, as it starts and once it is gone. *)
Blank == [r \in Requests |-> "none"]

(* The process ends in one way or another, and its memory with it. *)
Leave(p, how) ==
  /\ phase' = [phase EXCEPT ![p] = how]
  /\ seen' = [seen EXCEPT ![p] = Blank]
  /\ stopping' = [stopping EXCEPT ![p] = FALSE]
  /\ at' = [at EXCEPT ![p] = "rest"]
  /\ batch' = [batch EXCEPT ![p] = {}]
  /\ reply' = [reply EXCEPT ![p] = "none"]
  /\ answered' = [answered EXCEPT ![p] = {}]
  /\ stopSeen' = [stopSeen EXCEPT ![p] = FALSE]
  /\ killing' = [killing EXCEPT ![p] = FALSE]
  /\ sweep' = [sweep EXCEPT ![p] = {}]
  /\ swept' = [swept EXCEPT ![p] = FALSE]

Readable == {r \in pending : KindOf[r] # "unreadable"}

(* Mutant: only stop.json is cleared at either end of a run. *)
OpenSweepForgotten(p, into) ==
  /\ stopFile' = FALSE
  /\ phase' = [phase EXCEPT ![p] = into]
  /\ UNCHANGED <<pending, sweep>>

(* clearStopRequest, and the inbox as clearPendingRequests reads it. *)
OpenSweep(p, into) ==
  /\ stopFile' = FALSE
  /\ pending' = Readable
  /\ sweep' = [sweep EXCEPT ![p] = Readable]
  /\ phase' = [phase EXCEPT ![p] = into]

(* The run is loaded and its lock taken, from an owner that is gone or has  *)
(* released it, and what that owner left is swept out first.                *)
Start(p) ==
  /\ phase[p] = "new"
  /\ \A q \in 1 .. p - 1 : phase[q] \in {"released", "closing"} \cup Over
  /\ seen' = [seen EXCEPT ![p] = saved]
  /\ leftover' = pending
  /\ OpenSweep(p, "clearing")
  /\ UNCHANGED <<ack, saved, stopping, watcher, killing, swept, senders, faults,
                 carried>>

(* The watcher is disposed, and the inbox swept a last time. *)
Close(p) ==
  /\ phase[p] = "released"
  /\ OpenSweep(p, "closing")
  /\ UNCHANGED <<ack, saved, seen, stopping, watcher, killing, swept, senders,
                 faults, history>>

(* The rejection of one leftover request; a write that fails is ignored. *)
RejectLeftover(p) ==
  LET r == Min(sweep[p]) IN
  /\ phase[p] \in {"clearing", "closing"} /\ sweep[p] # {} /\ ~swept[p]
  /\ swept' = [swept EXCEPT ![p] = TRUE]
  /\ \/ ack' = [ack EXCEPT ![r] = "rejected"] /\ UNCHANGED lost
     \/ MayFail(r) /\ lost' = lost \cup {r} /\ UNCHANGED ack
  /\ UNCHANGED <<pending, stopFile, saved, run, watcher, killing, sweep,
                 senders, stuck, failed, history>>

(* deleteRequest, which may find the file locked. *)
Delete(r) ==
  \/ pending' = pending \ {r} /\ UNCHANGED stuck
  \/ /\ r \in pending /\ MayFail(r)
     /\ stuck' = stuck \cup {r}
     /\ UNCHANGED pending

RemoveLeftover(p) ==
  LET r == Min(sweep[p]) IN
  /\ swept[p]
  /\ Delete(r)
  /\ sweep' = [sweep EXCEPT ![p] = @ \ {r}]
  /\ swept' = [swept EXCEPT ![p] = FALSE]
  /\ UNCHANGED <<ack, stopFile, saved, run, watcher, killing, senders, failed,
                 lost, history>>

BeginRun(p) ==
  /\ phase[p] = "clearing" /\ sweep[p] = {}
  /\ phase' = [phase EXCEPT ![p] = "running"]
  /\ UNCHANGED <<disk, seen, stopping, watcher, killing, sweeper, senders,
                 faults, history>>

EndProcess(p) ==
  /\ phase[p] = "closing" /\ sweep[p] = {}
  /\ Leave(p, "gone")
  /\ UNCHANGED <<disk, senders, faults, history>>

Current(p) == Min(batch[p])

(* What the first request of the batch asks for; a second stop.json kills. *)
Kind(p) ==
  IF Current(p) # StopJson THEN KindOf[Current(p)]
  ELSE IF stopSeen[p] THEN "kill" ELSE "stop"

(* The answer to a kill is written before control returns to any timer. *)
SyncAnswer(p) == Kind(p) = "kill"

Answering(p) == at[p] = "settled" /\ SyncAnswer(p)

(* The loop ends between two wakes, when its tasks are done or stopped. *)
Finish(p) ==
  /\ phase[p] = "running"
  /\ at[p] \notin {"asked", "recorded", "saved"} /\ ~Answering(p)
  /\ phase' = [phase EXCEPT ![p] = "ended"]
  /\ UNCHANGED <<disk, seen, stopping, watcher, killing, sweeper, senders,
                 faults, history>>

(* finalize saves the run and gives the lock back, and execute returns.     *)
(* What the run remembers of its requests is not read again.                *)
Release(p) ==
  /\ phase[p] = "ended"
  /\ saved' = seen[p]
  /\ phase' = [phase EXCEPT ![p] = "released"]
  /\ seen' = [seen EXCEPT ![p] = Blank]
  /\ UNCHANGED <<pending, ack, stopFile, stopping, watcher, killing, sweeper,
                 senders, faults, history>>

(* persistInterruptedSync, unless the run has ended, and process.exit. *)
Exit(p) ==
  /\ Leave(p, "killed")
  /\ saved' = IF phase[p] = "running" THEN seen[p] ELSE saved

(* The timer of a kill, or the hard deadline of a shutdown. *)
ForceExit(p) ==
  /\ Alive(p) /\ ~Answering(p)
  /\ \/ killing[p]
     \/ stopSeen[p] /\ phase[p] \in {"running", "ended"}
  /\ Exit(p)
  /\ UNCHANGED <<pending, ack, stopFile, senders, faults, history>>

(* The process dies: of an error, whose handler saves a run that goes on,   *)
(* or without another word.                                                 *)
Crash(p) ==
  /\ Alive(p)
  /\ Leave(p, "crashed")
  /\ \/ UNCHANGED saved
     \/ phase[p] = "running" /\ saved' = seen[p]
  /\ UNCHANGED <<pending, ack, stopFile, senders, faults, history>>

-----------------------------------------------------------------------------
(* The watcher of an owner.  It is disposed when the run is released: what  *)
(* it is in the middle of goes on, and nothing further is taken.            *)

Watching(p) == phase[p] \in {"running", "ended"}

(* readPendingRequests moves away what it cannot read. *)
Tick(p) ==
  /\ Watching(p) /\ at[p] = "rest"
  /\ pending # {} \/ stopFile
  /\ pending' = Readable
  /\ batch' = [batch EXCEPT ![p] = Readable]
  /\ at' = [at EXCEPT ![p] = "drain"]
  /\ UNCHANGED <<ack, stopFile, saved, run, reply, answered, stopSeen, killing,
                 sweeper, senders, faults, history>>

(* A file that could not be deleted when it was answered. *)
Drop(p) ==
  LET r == Current(p) IN
  /\ Watching(p) /\ at[p] = "drain" /\ batch[p] # {}
  /\ r \in answered[p]
  /\ Delete(r)
  /\ batch' = [batch EXCEPT ![p] = @ \ {r}]
  /\ UNCHANGED <<ack, stopFile, saved, run, at, reply, answered, stopSeen,
                 killing, sweeper, senders, failed, lost, history>>

(* Mutant: a request is not looked up among those the run has seen. *)
PriorForgotten(p, r) == "none"

Prior(p, r) == IF r = StopJson THEN "none" ELSE seen[p][r]

(* apply, up to the answer it awaits: submitControl answers a request it    *)
(* has seen with the first answer, and one that comes too late with a       *)
(* rejection; controller.submit sets the timer of a kill on an applied one. *)
Ask(p) ==
  LET r == Current(p)
      prior == Prior(p, r) IN
  /\ Watching(p) /\ at[p] = "drain" /\ batch[p] # {}
  /\ r \notin answered[p]
  /\ IF Kind(p) # "permission" /\ prior = "none" /\ phase[p] = "running"
     THEN /\ at' = [at EXCEPT ![p] = "asked"]
          /\ UNCHANGED <<reply, killing>>
     ELSE LET known == Kind(p) # "permission" /\ prior # "none"
              kill == known /\ prior = "applied" /\ Kind(p) = "kill" IN
          /\ at' = [at EXCEPT ![p] = "settled"]
          /\ reply' = [reply EXCEPT ![p] = IF known THEN prior ELSE "rejected"]
          /\ killing' = [killing EXCEPT ![p] = @ \/ kill]
  /\ UNCHANGED <<disk, run, batch, answered, stopSeen, sweeper,
                 senders, faults, history>>

(* handleControl: the decision is recorded, saved, and then carried out. *)
Decide(p) ==
  LET r == Current(p) IN
  /\ phase[p] = "running" /\ at[p] = "asked"
  /\ \E status \in IF Kind(p) = "command" THEN {"applied", "rejected"} ELSE {"applied"} :
       /\ reply' = [reply EXCEPT ![p] = status]
       /\ seen' = [seen EXCEPT ![p] = IF r = StopJson THEN @ ELSE [@ EXCEPT ![r] = status]]
  /\ at' = [at EXCEPT ![p] = "recorded"]
  /\ UNCHANGED <<disk, phase, stopping, batch, answered, stopSeen, killing,
                 sweeper, senders, faults, history>>

Save(p) ==
  /\ phase[p] = "running" /\ at[p] = "recorded"
  /\ saved' = seen[p]
  /\ at' = [at EXCEPT ![p] = "saved"]
  /\ UNCHANGED <<pending, ack, stopFile, run, batch, reply, answered,
                 stopSeen, killing, sweeper, senders, faults, history>>

CarryOut(p) ==
  LET r == Current(p)
      applied == reply[p] = "applied"
      kill == applied /\ Kind(p) = "kill" IN
  /\ phase[p] = "running" /\ at[p] = "saved"
  /\ stopping' = [stopping EXCEPT ![p] = @ \/ (applied /\ Kind(p) \in {"stop", "kill"})]
  /\ carried' = IF applied /\ r # StopJson THEN [carried EXCEPT ![r] = Append(@, p)] ELSE carried
  /\ killing' = [killing EXCEPT ![p] = @ \/ kill]
  /\ at' = [at EXCEPT ![p] = "settled"]
  /\ UNCHANGED <<disk, phase, seen, batch, reply, answered, stopSeen,
                 sweeper, senders, faults, leftover>>

Acknowledge(p) ==
  ack' = IF Current(p) = StopJson THEN ack ELSE [ack EXCEPT ![Current(p)] = reply[p]]

Remember(p) ==
  answered' = [answered EXCEPT ![p] = @ \cup ({Current(p)} \ {StopJson})]

(* A kill is answered and consumed at once, for the process is about to end. *)
AnswerKill(p) ==
  /\ Alive(p) /\ Answering(p)
  /\ Acknowledge(p) /\ Remember(p) /\ Delete(Current(p))
  /\ at' = [at EXCEPT ![p] = "drain"]
  /\ batch' = [batch EXCEPT ![p] = @ \ {Current(p)}]
  /\ reply' = [reply EXCEPT ![p] = "none"]
  /\ UNCHANGED <<stopFile, saved, run, stopSeen, killing, sweeper,
                 senders, failed, lost, history>>

Answer(p) ==
  /\ Alive(p) /\ at[p] = "settled" /\ ~SyncAnswer(p)
  /\ Acknowledge(p) /\ Remember(p)
  /\ at' = [at EXCEPT ![p] = "written"]
  /\ UNCHANGED <<pending, stopFile, saved, run, batch, reply, stopSeen,
                 killing, sweeper, senders, faults, history>>

(* The write of the ack throws: the tick ends, and the next one asks again. *)
AnswerFails(p) ==
  /\ Alive(p) /\ at[p] = "settled"
  /\ MayFail(Current(p))
  /\ failed' = failed \cup {Current(p)}
  /\ at' = [at EXCEPT ![p] = "rest"]
  /\ batch' = [batch EXCEPT ![p] = {}]
  /\ reply' = [reply EXCEPT ![p] = "none"]
  /\ UNCHANGED <<disk, run, answered, stopSeen, killing, sweeper, senders,
                 stuck, lost, history>>

(* The file goes, and an applied stop begins the shutdown; the second one   *)
(* ends the process on the spot.                                            *)
Consume(p) ==
  LET r == Current(p)
      stop == reply[p] = "applied" /\ Kind(p) = "stop" IN
  /\ Alive(p) /\ at[p] = "written"
  /\ Delete(r)
  /\ IF stop /\ stopSeen[p] THEN Exit(p)
     ELSE /\ at' = [at EXCEPT ![p] = "drain"]
          /\ batch' = [batch EXCEPT ![p] = @ \ {r}]
          /\ reply' = [reply EXCEPT ![p] = "none"]
          /\ stopSeen' = [stopSeen EXCEPT ![p] = @ \/ stop]
          /\ UNCHANGED <<saved, run, answered, killing, sweeper>>
  /\ UNCHANGED <<ack, stopFile, senders, failed, lost, history>>

(* Mutant: stop.json is removed before it is read. *)
TakeStopFileEmpty(p) ==
  /\ Watching(p) /\ at[p] = "drain" /\ batch[p] = {} /\ stopFile
  /\ stopFile' = FALSE
  /\ UNCHANGED <<pending, ack, saved, run, watcher, killing, sweeper, senders,
                 faults, history>>

(* The inbox is drained; stop.json is next, under an id of its own. *)
TakeStopFile(p) ==
  /\ Watching(p) /\ at[p] = "drain" /\ batch[p] = {} /\ stopFile
  /\ stopFile' = FALSE
  /\ batch' = [batch EXCEPT ![p] = {StopJson}]
  /\ UNCHANGED <<pending, ack, saved, run, at, reply, answered, stopSeen,
                 killing, sweeper, senders, faults, history>>

EndTick(p) ==
  /\ Alive(p) /\ at[p] = "drain"
  /\ Watching(p) => batch[p] = {} /\ ~stopFile
  /\ at' = [at EXCEPT ![p] = "rest"]
  /\ batch' = [batch EXCEPT ![p] = {}]
  /\ UNCHANGED <<disk, run, reply, answered, stopSeen, killing, sweeper,
                 senders, faults, history>>

Watch(p) ==
  \/ Tick(p) \/ Drop(p) \/ Ask(p) \/ AnswerKill(p) \/ Answer(p)
  \/ AnswerFails(p) \/ Consume(p) \/ TakeStopFile(p) \/ EndTick(p)

Handle(p) == Decide(p) \/ Save(p) \/ CarryOut(p)

Main(p) == Close(p) \/ RejectLeftover(p) \/ RemoveLeftover(p) \/ BeginRun(p)
           \/ Release(p) \/ EndProcess(p)

Send == WriteStopFile \/ \E r \in Requests : Write(r) \/ Resend(r)

(* Every owner is gone. *)
Rest == (\A p \in Procs : phase[p] \in Over) /\ UNCHANGED vars

Next ==
  \/ Send \/ Rest
  \/ \E p \in Procs : \/ Start(p) \/ Main(p) \/ Finish(p) \/ ForceExit(p)
                      \/ Crash(p) \/ Watch(p) \/ Handle(p)

(* The event loop runs what is ready: the watcher and the loop it waits     *)
(* for, and what starts and ends the run.  A run that is stopped ends.      *)
Fairness ==
  \A p \in Procs : /\ WF_vars(Watch(p) \/ Handle(p))
                   /\ WF_vars(Main(p) \/ (stopping[p] /\ Finish(p)))

Spec == Init /\ [][Next]_vars

FairSpec == Spec /\ Fairness

=============================================================================
