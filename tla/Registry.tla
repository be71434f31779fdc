------------------------------ MODULE Registry ------------------------------
(***************************************************************************)
(* The registry of a user's runs (persistence/registry.ts): one file per   *)
(* run, a pointer and a heartbeat, written by the process that executes    *)
(* the run, collected by whichever process starts one, and read by others. *)
(* The files are independent of each other; this is the one of one run.    *)
(*                                                                         *)
(* Time is the age of what is written, in ticks of the heartbeat; an age   *)
(* past every window is the same as any other.  A machine may be put to    *)
(* sleep, and the heartbeats that fall due meanwhile are late.             *)
(***************************************************************************)
EXTENDS Integers, Sequences

CONSTANTS
    Pids,        \* ids of the processes that execute the run, used again once they are gone
    Reapers,     \* processes that start other runs
    MaxHolds,    \* pauses and continuations of one execution
    Stale,       \* ticks a heartbeat stays fresh (STALE_MS), more than none
    Retain       \* ticks a dead entry is kept (retainDays)

None == "none"
Old  == (IF Stale > Retain THEN Stale ELSE Retain) + 1

VARIABLES
    entry,       \* runs/<key>.json, or Absent
    owner,       \* who holds the run's lock
    phase,       \* what the owner is doing
    emits,       \* this.emit: whether its execution is announced
    held,        \* the run is paused by its operator
    holds,       \* how often that has changed
    chain,       \* announceChain: the entries on their way to the file
    beat,        \* the heartbeat is due
    reaping,     \* where the reap of each process is: "idle", "due" or "doomed"
    last         \* history: the entry asked for last that was not lost

ownerVars == <<owner, phase, emits, held, holds>>
vars == <<entry, ownerVars, chain, beat, reaping, last>>

Absent == [state |-> "absent"]

-----------------------------------------------------------------------------
(* What an entry says, and what a reader makes of it.                      *)

\* emitSetting: the flag, then the environment, then config.json, then off.
EmitSetting(flag, env, stored) ==
    CASE flag # "unset"   -> flag = "on"
      [] env # "unset"    -> env = "on"
      [] OTHER            -> stored = "on"

\* entryForRun: a snapshot of the run in the given state.
EntryForRun(state) == [state |-> state, pid |-> owner, heartbeat |-> 0]

\* The states whose entries may be live: a run that its operator holds is one.
Executing(state) == state \in {"running", "paused"}

EntryLiveness(e) ==
    CASE ~Executing(e.state) -> "ended"
      [] e.heartbeat < Stale /\ e.pid = owner -> "running"
      [] OTHER -> "stale"

\* Mutant: only the clause for ended entries.
IsExpiredEnded(e) == e # Absent /\ EntryLiveness(e) = "ended" /\ e.heartbeat > Retain

\* isExpired: an ended entry by its end, a stale one by its heartbeat.
IsExpired(e) == e # Absent /\ EntryLiveness(e) \in {"ended", "stale"} /\ e.heartbeat > Retain

-----------------------------------------------------------------------------
Init ==
    /\ entry = Absent /\ last = Absent
    /\ owner = None /\ phase = "none" /\ emits = FALSE /\ held = FALSE /\ holds = 0
    /\ chain = <<>> /\ beat = FALSE
    /\ reaping = [p \in Reapers \cup {None} |-> "idle"]

\* announce(): a snapshot is taken at once, the writes are chained.
Announce(state) ==
    IF emits
    THEN chain' = Append(chain, EntryForRun(state)) /\ last' = EntryForRun(state)
    ELSE UNCHANGED <<chain, last>>

HeldState(h) == IF h THEN "paused" ELSE "running"

\* `cao run` or `cao resume`: the lock is taken, the switch is read.
Start ==
    /\ owner = None
    /\ owner' \in Pids
    /\ phase' = "started"
    /\ \E flag, env, stored \in {"on", "off", "unset"} : emits' = EmitSetting(flag, env, stored)
    /\ UNCHANGED <<entry, held, holds, chain, beat, reaping, last>>

\* execute(): the run is on disk as running; it is announced, and the registry is reaped.
Execute ==
    /\ phase = "started"
    /\ phase' = "executing"
    /\ Announce("running")
    /\ reaping' = IF emits THEN [reaping EXCEPT ![None] = "due"] ELSE reaping
    /\ UNCHANGED <<entry, owner, emits, held, holds, beat>>

\* The operator holds the run, or lets it go on: transitionRun announces.
Hold ==
    /\ phase = "executing" /\ holds < MaxHolds
    /\ held' = ~held /\ holds' = holds + 1
    /\ Announce(HeldState(~held))
    /\ UNCHANGED <<entry, owner, phase, emits, beat, reaping>>

\* What the 20 s tick announces.
Beat == Announce(HeldState(held))

Heartbeat ==
    /\ phase = "executing" /\ beat
    /\ beat' = FALSE
    /\ Beat
    /\ UNCHANGED <<entry, ownerVars, reaping>>

\* finalize(): nothing is announced between the last state and the final entry.
Finalize ==
    /\ phase = "executing"
    /\ phase' = "ended"
    /\ Announce("ended")
    /\ beat' = FALSE
    /\ UNCHANGED <<entry, owner, emits, held, holds, reaping>>

\* The process is gone, and what it had not written with it.
Gone ==
    /\ owner' = None /\ phase' = "none" /\ emits' = FALSE /\ held' = FALSE /\ holds' = 0
    /\ chain' = <<>> /\ beat' = FALSE
    /\ reaping' = [reaping EXCEPT ![None] = "idle"]
    /\ last' = IF chain = <<>> THEN last ELSE entry
    /\ UNCHANGED entry

\* The final entry is awaited, then the lock is given back and the process leaves.
Release == phase = "ended" /\ chain = <<>> /\ Gone

\* It dies before that; its lock is found abandoned.
Die == owner # None /\ Gone

\* writeEntry: the entry asked for first reaches the file.
WriteEntry ==
    /\ chain # <<>>
    /\ entry' = Head(chain)
    /\ chain' = Tail(chain)
    /\ UNCHANGED <<ownerVars, beat, reaping, last>>

\* Another run starts on this machine.
ReapStarts ==
    /\ \E p \in Reapers : reaping[p] = "idle" /\ reaping' = [reaping EXCEPT ![p] = "due"]
    /\ UNCHANGED <<entry, ownerVars, chain, beat, last>>

\* reap(): the entries are read, and those found expired are removed after that.
ReapReads(p) ==
    /\ reaping[p] = "due"
    /\ reaping' = [reaping EXCEPT ![p] = IF IsExpired(entry) THEN "doomed" ELSE "idle"]
    /\ UNCHANGED <<entry, ownerVars, chain, beat, last>>

ReapRemoves(p) ==
    /\ reaping[p] = "doomed"
    /\ entry' = Absent
    /\ reaping' = [reaping EXCEPT ![p] = "idle"]
    /\ UNCHANGED <<ownerVars, chain, beat, last>>

Reap == \E p \in DOMAIN reaping : ReapReads(p) \/ ReapRemoves(p)

Aged(e, age) == IF e = Absent THEN e ELSE [e EXCEPT !.heartbeat = age]
Older(e) == IF e = Absent \/ e.heartbeat = Old THEN e ELSE Aged(e, e.heartbeat + 1)

\* A tick passes: what falls due is served before the next one...
Tick ==
    /\ ~beat /\ chain = <<>> /\ phase # "ended"
    /\ entry' = Older(entry) /\ last' = Older(last)
    /\ beat' = (phase = "executing")
    /\ UNCHANGED <<ownerVars, chain, reaping>>

\* ... unless the machine sleeps, and wakes long after (here with at most one
\* entry on its way, a bound).
Sleep ==
    /\ ~beat /\ Len(chain) < 2
    /\ entry' = Aged(entry, Old) /\ last' = Aged(last, Old)
    /\ chain' = [i \in DOMAIN chain |-> Aged(chain[i], Old)]
    /\ beat' = (phase = "executing")
    /\ UNCHANGED <<ownerVars, reaping>>

-----------------------------------------------------------------------------
Next ==
    \/ Start \/ Execute \/ Hold \/ Heartbeat \/ Finalize \/ Release \/ Die
    \/ WriteEntry \/ ReapStarts \/ Reap \/ Tick \/ Sleep

Spec == Init /\ [][Next]_vars

\* The event loops of the processes, and time.  Nobody owes a run, a pause or an end.
FairSpec ==
    /\ Spec
    /\ WF_vars(Execute) /\ WF_vars(Heartbeat) /\ WF_vars(WriteEntry) /\ WF_vars(Release)
    /\ WF_vars(Reap) /\ WF_vars(Tick)

-----------------------------------------------------------------------------
\* What the registry promises those who read it.

\* The entry is a snapshot of the run as it is: once nothing is on its way to the file, it
\* is the one that was asked for last (registry.ts, writeEntry; scheduler.ts, announce).
EntryTrue == chain = <<>> /\ entry # Absent => entry = last

\* A run that is executed and announced is never shown as stale or ended, held or not,
\* unless a heartbeat is due (registry.ts, entryLiveness; scheduler.ts, heartbeat).
AliveShown ==
    phase = "executing" /\ emits /\ chain = <<>> /\ ~beat
      => entry = Absent \/ EntryLiveness(entry) = "running"

\* A run that is executed and announced gets its entry back when another process, which had
\* found the old one expired, has removed the new one (registry.ts, reap, which reads an
\* entry and removes the file later).
Relisted ==
    (phase = "executing" /\ emits /\ entry = Absent) ~> (phase # "executing" \/ entry # Absent)

Reaping == \E p \in DOMAIN reaping : ReapReads(p)

\* The entry of a run that nobody executes any more is not kept for ever, however its last
\* owner went, as long as runs are started on the machine (registry.ts, isExpired, reap).
Collected == []<><<Reaping>>_vars => ~<>[](owner = None /\ entry # Absent)

\* Whoever reads the registry is told what is true of the run, as long as there is
\* something to tell: the four promises together.
RegistryTrue == []EntryTrue /\ []AliveShown /\ Relisted /\ Collected
=============================================================================
