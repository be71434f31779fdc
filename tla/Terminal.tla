------------------------------ MODULE Terminal ------------------------------
(***************************************************************************)
(* One window on one run: the loop of a workspace session                  *)
(* (cli/workspace-session.ts), the dashboard it mounts (createDashboard in *)
(* tui/app.tsx), and the observer that polls a run another process owns    *)
(* (workflow/control/observer.ts).  Several executions may follow each     *)
(* other in one window, and other processes may take the run in between.   *)
(*                                                                         *)
(* The execution itself is not here: it may ask its operator something,    *)
(* withdraw it, and end.  What the panels draw is not here either.         *)
(***************************************************************************)
EXTENDS Integers, Sequences, SequencesExt

CONSTANTS
    MaxExecutions,   \* executions of the run in this window
    MaxOthers,       \* other processes that take the run, one after the other
    MaxAsks          \* questions an execution puts to its operator

ASSUME BoundsAssumption ==
    MaxExecutions \in Nat /\ MaxOthers \in Nat /\ MaxAsks \in Nat

Nobody == 0
Me     == -1
Others == 1 .. MaxOthers

VARIABLES
    lock,        \* who holds the run: Nobody, Me, or one of Others
    loop,        \* where runWorkspaceSession is
    intent,      \* pendingIntent: an intention given while nobody waited for one
    execution,   \* the execution attached last, 0 before the first
    executing,   \* whether its scheduler runs
    interrupts,  \* how often it has been interrupted
    deadline,    \* the executions whose hard deadline is armed
    exitCode,    \* of which execution the exit code is, 0 for a window that only looked
    mounted,     \* the dashboard is on the screen (isOpen)
    minimised,
    plain,       \* the plain renderer writes to the terminal
    finished,    \* the dashboard shows the run as ended
    role,        \* "owner" or "observer", as the dashboard was told last
    surface,     \* its controls go to the owner as requests
    prompt,      \* the quit question is open
    stopSent,    \* the dashboard has asked an owner to stop
    observer,    \* the session listens to an observer
    watched,     \* the owner the observer read last
    reading,     \* what a tick in flight has read; Nothing between ticks
    fetching,    \* becomeObserver waits for its observer
    queue,       \* the questions in front of the operator, oldest first
    shown,       \* the one on screen, 0 for none
    open,        \* the questions whose promise is not settled
    asked,       \* questions asked so far
    takers,      \* other processes that have taken the run so far
    quitting,    \* history: the operator has asked to leave
    told         \* history: the owner that was asked to stop last

loopVars    == <<loop, intent, exitCode, quitting>>
runVars     == <<execution, executing, interrupts, deadline>>
screenVars  == <<mounted, minimised, plain>>
ownership   == <<role, surface>>
watchVars   == <<observer, watched, reading>>
askVars     == <<queue, shown, open, asked>>
othersVars  == <<lock, takers>>
vars == <<loopVars, runVars, screenVars, ownership, watchVars, askVars, othersVars,
          finished, prompt, stopSent, fetching, told>>

Nothing == -2          \* no tick is in flight
Gone == loop \in {"left", "killed"}

-----------------------------------------------------------------------------
(* What the steps are made of.                                             *)

\* The dashboard is in control mode: another process owns the run and there is a
\* surface to reach it by.
Observing == role = "observer" /\ surface

CanResume == finished /\ role = "owner"

\* settle(): the loop takes the intention if it waits for one; otherwise the first
\* one given is kept until it asks.
Settle(i) ==
    /\ IF loop = "asking"
       THEN /\ loop' = IF i = "quit" THEN "leaving" ELSE "preparing"
            /\ intent' = intent
       ELSE /\ intent' = IF intent = "none" THEN i ELSE intent
            /\ loop' = loop
    /\ quitting' = (quitting \/ i = "quit")
    /\ UNCHANGED exitCode

\* Mutant: what was settled before is not looked at.
AskAfresh == loop' = "asking" /\ intent' = "none" /\ UNCHANGED quitting

\* The loop asks for the next intention, and finds one or waits.
AskNext ==
    /\ loop' = CASE intent = "none" -> "asking"
                 [] intent = "quit" -> "leaving"
                 [] OTHER -> "preparing"
    /\ intent' = "none"
    /\ UNCHANGED quitting

\* session.interrupt: the first asks the run to stop and arms the deadline; a run that
\* ended without one has nothing to stop.
Interrupt ==
    /\ ~(execution # 0 /\ interrupts > 0)
    /\ IF executing
       THEN interrupts' = 1 /\ deadline' = deadline \cup {execution}
       ELSE UNCHANGED <<interrupts, deadline>>
    /\ UNCHANGED <<execution, executing>>

\* RunObserver.stop: no tick is in flight, and nobody is watched.
StopWatching == reading' = Nothing /\ watched' = Nothing

StopObserving == observer' = FALSE /\ StopWatching

\* observe(): the one before is stopped, the next starts with a tick.
Observe ==
    /\ observer' = TRUE
    /\ StopWatching

SetOwnership(r, s) == role' = r /\ surface' = s

\* Mutant: only the polling ends.
TakeOverSilently == StopObserving /\ UNCHANGED ownership

\* The run is no other process's any more: nothing to watch, nobody to send requests to.
TakeOver == StopObserving /\ SetOwnership("owner", FALSE)

\* reopen(): from a minimised window back to the workspace.
Reopen ==
    IF mounted THEN UNCHANGED screenVars
    ELSE mounted' = TRUE /\ minimised' = FALSE /\ plain' = FALSE

\* Mutant: the first is taken out, whichever was meant.
WithoutFirst(q, i) == IF q = <<>> THEN q ELSE Tail(q)

\* DashboardShared.remove: by identity, for the question on screen may have been
\* withdrawn already.
Without(q, i) == Remove(q, i)
ShownOf(q) == IF q = <<>> THEN 0 ELSE Head(q)

\* executionEnded() of the dashboard: nobody is left to answer the queue for.
SettleQueue ==
    /\ queue' = <<>>
    /\ open' = open \ {queue[i] : i \in DOMAIN queue}
    /\ shown' = 0
    /\ UNCHANGED asked

-----------------------------------------------------------------------------
(* The loop of runWorkspaceSession and the execution inside it.            *)

\* `cao run`, `cao resume` (the lock is taken before the window opens) or `cao ui`
\* on a run that nobody or another process owns.
Init ==
    /\ \/ lock = Me /\ loop = "starting" /\ takers = 0 /\ role = "owner"
          /\ observer = FALSE /\ mounted = FALSE /\ finished = FALSE
       \/ lock = Nobody /\ loop = "asking" /\ takers = 0 /\ role = "owner"
          /\ observer = FALSE /\ mounted = TRUE /\ finished = TRUE
       \/ MaxOthers > 0 /\ lock = 1 /\ loop = "asking" /\ takers = 1 /\ role = "observer"
          /\ observer = TRUE /\ mounted = TRUE /\ finished = TRUE
    /\ surface = observer /\ watched = Nothing
    /\ reading = Nothing /\ fetching = FALSE
    /\ intent = "none" /\ exitCode = 0 /\ quitting = FALSE
    /\ execution = 0 /\ executing = FALSE /\ interrupts = 0 /\ deadline = {}
    /\ minimised = FALSE /\ plain = FALSE
    /\ prompt = FALSE /\ stopSent = FALSE
    /\ queue = <<>> /\ shown = 0 /\ open = {} /\ asked = 0
    /\ told = Nobody

\* ensureDashboard: the screen is drawn, unless it was put away; then there is the
\* plain output (attachPlain).
EnsureDashboard == mounted' = (mounted \/ ~minimised) /\ plain' = minimised

\* attach(): the execution is this window's to draw and to stop.
Attach ==
    /\ loop = "starting"
    /\ loop' = "executing"
    /\ execution' = execution + 1
    /\ executing' = TRUE /\ interrupts' = 0 /\ UNCHANGED deadline
    /\ TakeOver
    /\ finished' = FALSE
    /\ EnsureDashboard
    /\ UNCHANGED <<intent, exitCode, quitting, minimised, askVars, othersVars,
                   prompt, stopSent, fetching, told>>

\* The scheduler returns, its lock given back; executeOnce disposes of the signal
\* handlers and this execution's deadline, and then sweeps the inbox.
ReleaseRun ==
    /\ loop = "executing"
    /\ loop' = "sweeping"
    /\ lock' = Nobody
    /\ deadline' = deadline \ {execution}
    /\ UNCHANGED <<intent, exitCode, quitting, execution, executing, interrupts,
                   screenVars, ownership, watchVars, askVars, takers, finished,
                   prompt, stopSent, fetching, told>>

\* session.executionEnded, then session.next.
ExecutionEnded ==
    /\ loop = "sweeping"
    /\ executing' = FALSE
    /\ exitCode' = execution
    /\ finished' = TRUE
    /\ SettleQueue
    /\ AskNext
    /\ UNCHANGED <<execution, interrupts, deadline, screenVars, ownership, watchVars,
                   othersVars, prompt, stopSent, fetching, told>>

\* prepareResume: startRuntime takes the lock for the next execution...
Prepared ==
    /\ loop = "preparing" /\ lock = Nobody
    /\ execution < MaxExecutions
    /\ lock' = Me
    /\ loop' = "starting"
    /\ UNCHANGED <<intent, exitCode, quitting, runVars, screenVars, ownership,
                   watchVars, askVars, takers, finished, prompt, stopSent, fetching, told>>

\* ... finds nothing to do, or fails, which is a notice...
NotPrepared ==
    /\ loop = "preparing"
    /\ AskNext
    /\ UNCHANGED <<exitCode, runVars, screenVars, ownership, watchVars, askVars,
                   othersVars, finished, prompt, stopSent, fetching, told>>

\* ... or finds the lock taken, and the window becomes an observer.
BecomeObserver ==
    /\ loop = "preparing" /\ lock \in Others
    /\ AskNext
    /\ SetOwnership("observer", FALSE)
    /\ fetching' = TRUE
    /\ UNCHANGED <<exitCode, runVars, screenVars, watchVars, askVars, othersVars,
                   finished, prompt, stopSent, told>>

\* The observer becomeObserver asked for is there, or could not be opened.
ObserverOpened ==
    /\ fetching /\ ~Gone
    /\ fetching' = FALSE
    /\ Observe \/ UNCHANGED watchVars
    /\ UNCHANGED <<loopVars, runVars, screenVars, ownership, askVars, othersVars,
                   finished, prompt, stopSent, told>>

\* dashboard.finish: what is queued is settled, and the tree is unmounted.
FinishDashboard == SettleQueue /\ mounted' = FALSE

\* session.close, and the process with it.
Leave ==
    /\ loop = "leaving"
    /\ loop' = "left"
    /\ StopObserving
    /\ FinishDashboard
    /\ plain' = FALSE /\ minimised' = minimised
    /\ UNCHANGED <<intent, exitCode, quitting, runVars, ownership, othersVars,
                   finished, prompt, stopSent, fetching, told>>

\* forceExit: a second interrupt, or a deadline that passes.
ForceExit ==
    /\ ~Gone
    /\ \/ deadline # {}
       \/ interrupts > 0 /\ shown = 0 /\ mounted /\ prompt
       \/ interrupts > 0 /\ ((mounted /\ ~Observing) \/ minimised)
    /\ loop' = "killed"
    /\ mounted' = FALSE /\ plain' = FALSE
    /\ UNCHANGED <<intent, exitCode, quitting, runVars, minimised, ownership,
                   watchVars, askVars, othersVars, finished, prompt, stopSent,
                   fetching, told>>

-----------------------------------------------------------------------------
(* The observer: a tick reads who owns the run, then the run, and tells    *)
(* the session.                                                            *)

TickReads ==
    /\ observer /\ reading = Nothing /\ ~Gone
    /\ reading' = lock
    /\ UNCHANGED <<loopVars, runVars, screenVars, ownership, observer, watched,
                   askVars, othersVars, finished, prompt, stopSent, fetching, told>>

\* Owned by another process: the banner names it, and the first time it is new the
\* dashboard is given the surface.
TickSees ==
    /\ observer /\ reading \in Others
    /\ reading' = Nothing
    /\ watched' = reading
    /\ IF reading # watched THEN SetOwnership("observer", TRUE)
       ELSE UNCHANGED ownership
    /\ UNCHANGED <<loopVars, runVars, screenVars, observer, askVars, othersVars,
                   finished, prompt, stopSent, fetching, told>>

\* The owner let go (or it is this process): the watching ends.
TickLosesOwner ==
    /\ observer /\ reading \in {Nobody, Me}
    /\ TakeOver
    /\ UNCHANGED <<loopVars, runVars, screenVars, askVars, othersVars, finished, prompt,
                   stopSent, fetching, told>>

-----------------------------------------------------------------------------
(* The operator.  The workspace has its keys while it is mounted, and only *)
(* Ctrl+C reaches it past a question; a minimised window has four keys.    *)

HasKeys == mounted /\ shown = 0 /\ ~Gone

\* Ctrl+C, in the workspace of this process's run or in a minimised window.
CtrlC ==
    /\ ~Gone /\ ((mounted /\ ~Observing) \/ minimised)
    /\ Interrupt
    /\ UNCHANGED <<loopVars, screenVars, ownership, watchVars, askVars, othersVars,
                   finished, prompt, stopSent, fetching, told>>

\* send: the request of an observer, to the owner that its last tick read.
Send ==
    /\ watched \in Others
    /\ told' = IF stopSent THEN told ELSE watched

\* Ctrl+C in an observer: a stop for the owner that the last tick read, and a kill once
\* a stop has been asked for.  (Before the first tick nothing is advertised, and there is
\* nothing to send.  The other controls of an observer, S, K, P, Z and R, are requests too
\* and change nothing here.)
ObserverCtrlC ==
    /\ ~Gone /\ mounted /\ Observing
    /\ stopSent' = TRUE
    /\ Send
    /\ UNCHANGED <<loopVars, runVars, screenVars, ownership, watchVars, askVars,
                   othersVars, finished, prompt, fetching>>

\* S, R, >, A and X of an ended run.
ResumeKey ==
    /\ HasKeys /\ ~prompt /\ CanResume
    /\ Settle("resume")
    /\ UNCHANGED <<runVars, screenVars, ownership, watchVars, askVars, othersVars,
                   finished, prompt, stopSent, fetching, told>>

\* Q: at once from an ended run or an observer, otherwise after a question.
QuitKey ==
    /\ HasKeys /\ ~prompt
    /\ IF finished \/ Observing
       THEN Settle("quit") /\ UNCHANGED prompt
       ELSE prompt' = TRUE /\ UNCHANGED loopVars
    /\ UNCHANGED <<runVars, screenVars, ownership, watchVars, askVars, othersVars,
                   finished, stopSent, fetching, told>>

\* The three answers to it.
AnswerStay ==
    /\ HasKeys /\ prompt
    /\ prompt' = FALSE
    /\ UNCHANGED <<loopVars, runVars, screenVars, ownership, watchVars, askVars,
                   othersVars, finished, stopSent, fetching, told>>

StopAndQuit ==
    /\ HasKeys /\ prompt
    /\ prompt' = FALSE
    /\ Interrupt
    /\ Settle("quit")
    /\ UNCHANGED <<screenVars, ownership, watchVars, askVars, othersVars, finished,
                   stopSent, fetching, told>>

Minimise ==
    /\ HasKeys /\ prompt
    /\ prompt' = FALSE
    /\ mounted' = FALSE /\ minimised' = TRUE /\ plain' = (execution # 0)
    /\ stopSent' = FALSE
    /\ UNCHANGED <<loopVars, runVars, ownership, watchVars, askVars, othersVars,
                   finished, fetching, told>>

\* D and Q of a minimised window; Q only once nothing executes.
ReopenKey ==
    /\ minimised /\ ~Gone
    /\ Reopen
    /\ UNCHANGED <<loopVars, runVars, ownership, watchVars, askVars, othersVars,
                   finished, prompt, stopSent, fetching, told>>

MinimisedQuit ==
    /\ minimised /\ ~executing /\ ~Gone
    /\ Settle("quit")
    /\ UNCHANGED <<runVars, screenVars, ownership, watchVars, askVars, othersVars,
                   finished, prompt, stopSent, fetching, told>>

\* The operator answers the question on screen.
AnswerAsk ==
    /\ mounted /\ shown # 0 /\ ~Gone
    /\ open' = open \ {shown}
    /\ queue' = Without(queue, shown)
    /\ shown' = ShownOf(queue')
    /\ UNCHANGED <<loopVars, runVars, screenVars, ownership, watchVars, asked,
                   othersVars, finished, prompt, stopSent, fetching, told>>

-----------------------------------------------------------------------------
(* The execution, and the other processes.                                 *)

\* A task asks: the event brings a minimised window back, the question is queued.
Ask ==
    /\ loop = "executing" /\ asked < MaxAsks
    /\ asked' = asked + 1
    /\ open' = open \cup {asked + 1}
    /\ queue' = Append(queue, asked + 1)
    /\ shown' = IF shown = 0 THEN ShownOf(queue') ELSE shown
    /\ Reopen
    /\ UNCHANGED <<loopVars, runVars, ownership, watchVars, othersVars, finished,
                   prompt, stopSent, fetching, told>>

\* The scheduler withdraws a question; the screen still shows it until it is drawn again.
Withdraw ==
    /\ loop = "executing"
    /\ \E i \in open :
        /\ open' = open \ {i}
        /\ queue' = Without(queue, i)
    /\ UNCHANGED <<loopVars, runVars, screenVars, ownership, watchVars, shown, asked,
                   othersVars, finished, prompt, stopSent, fetching, told>>

Redraw ==
    /\ shown # ShownOf(queue) /\ ~Gone
    /\ shown' = ShownOf(queue)
    /\ UNCHANGED <<loopVars, runVars, screenVars, ownership, watchVars, queue, open,
                   asked, othersVars, finished, prompt, stopSent, fetching, told>>

OtherTakes ==
    /\ lock = Nobody /\ takers < MaxOthers
    /\ takers' = takers + 1
    /\ lock' = takers + 1
    /\ UNCHANGED <<loopVars, runVars, screenVars, ownership, watchVars, askVars,
                   finished, prompt, stopSent, fetching, told>>

\* It ends, or dies and is found dead.
OtherLetsGo ==
    /\ lock \in Others
    /\ lock' = Nobody
    /\ UNCHANGED <<loopVars, runVars, screenVars, ownership, watchVars, askVars, takers,
                   finished, prompt, stopSent, fetching, told>>

-----------------------------------------------------------------------------
Loop == Attach \/ ReleaseRun \/ ExecutionEnded \/ Prepared \/ NotPrepared
        \/ BecomeObserver \/ ObserverOpened \/ Leave \/ ForceExit

Tick == TickReads \/ TickSees \/ TickLosesOwner

Operator == CtrlC \/ ObserverCtrlC \/ ResumeKey \/ QuitKey \/ AnswerStay
            \/ StopAndQuit \/ Minimise \/ ReopenKey \/ MinimisedQuit \/ AnswerAsk

Environment == Ask \/ Withdraw \/ Redraw \/ OtherTakes \/ OtherLetsGo

Next == Loop \/ Tick \/ Operator \/ Environment

Spec == Init /\ [][Next]_vars

\* The event loop runs what is ready: the steps of the session, and the 500 ms tick.
\* A run that was interrupted ends (its workers are killed after a deadline); one that
\* was not may go on for ever.  Operators and other processes owe nothing.
Fairness ==
    /\ WF_vars(Tick)
    /\ WF_vars(Attach \/ ExecutionEnded \/ Leave)
    /\ WF_vars(interrupts > 0 /\ ReleaseRun)
    /\ WF_vars(Prepared \/ NotPrepared \/ BecomeObserver)

FairSpec == Spec /\ Fairness
=============================================================================
