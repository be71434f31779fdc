------------------------ MODULE TerminalProperties ------------------------
(***************************************************************************)
(* What a window on a run promises its operator.                           *)
(***************************************************************************)
EXTENDS Terminal

\* The terminal has one writer: the full-screen dashboard and the plain renderer never
\* share it, and a minimised run that executes is still told about by the latter
\* (workspace-session.ts, minimise and reopen; app.tsx, open and close).
OneWriter ==
    /\ ~(mounted /\ (plain \/ minimised))
    /\ minimised /\ execution # 0 /\ ~Gone => plain

\* A question whose asker waits is in the queue that the operator sees, and one that was
\* answered or withdrawn is not; none survives the execution that asked (app.tsx,
\* DashboardShared and executionEnded).
QuestionsKept ==
    /\ open = {queue[i] : i \in DOMAIN queue}
    /\ finished => queue = <<>>

\* While this process executes the run, the keys of its window act on that execution,
\* never on the request inbox of an owner it watched before.
DrivesItsOwn == loop = "executing" => ~Observing

\* What the operator sees, is asked and does with the keys belong together.
ScreenTrue == OneWriter /\ QuestionsKept /\ DrivesItsOwn

\* An observer whose owner has let go stops offering to send it requests, unless another
\* process takes the run first (observer.ts, tick).
LetGoIsSeen ==
    (Observing /\ lock \notin Others) ~> (~Observing \/ lock \in Others \/ Gone)

\* "Stop, then leave" of a running run: the run comes to a halt and the window closes,
\* although nobody waits for the intention when it is given (workspace-session.ts, settle).
StopAndQuitLeaves == (intent = "quit" /\ executing /\ interrupts > 0) ~> Gone

\* What the window waits for, it gets: the end of another's ownership, and its own.
LeavesAndLetsGo == LetGoIsSeen /\ StopAndQuitLeaves

\* Once the operator has asked to leave, no execution begins in this window.  No run checks
\* this: a resume pressed twice leaves the second press to be acted on after the next
\* execution, and hides a later intention to leave.
QuitKept == [][quitting => execution' = execution]_vars

\* A kill goes to an owner that was asked to stop.  No run checks this: the second owner a
\* window watches is sent a kill at once.
KillAfterStop == [][ObserverCtrlC /\ stopSent => told = watched]_vars

\* The deadline of an interrupted execution does not outlive it.  No run checks this: an
\* interrupt after the handlers were disposed of, while the inbox is swept, arms one that
\* nothing clears, and the process leaves with 130 although the run has ended or another
\* execution of it is under way.
DeadlineOfRun == deadline # {} => loop = "executing"
=============================================================================
