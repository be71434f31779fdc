----------------------------- MODULE MCAttempts -----------------------------
(***************************************************************************)
(* An attempt of a task at its agent (Agents), and what is handed from one  *)
(* attempt to the next, and from one run to the next: the record of the     *)
(* task, with the edits and messages in it (Messages), and its worktree     *)
(* (Workspaces).  They do not share state; a behaviour is about one of them,*)
(* and the others wait in their first state.                                *)
(***************************************************************************)
EXTENDS MessagesProperties

CONSTANTS
    Configs, MaxRuns, MaxChanges, MaxTries, MaxMoves,
    Texts, ServerMessages, Requests, Questions, MaxUnread, MaxOverloads, m1, m2, ask1

VARIABLES
    subject,
    config, branches, tree, worktree, run, records, phase, knows, head, count,
    delivered, landed, disturbed, switched,
    part, mode, step, aborted, outcome, proc, out, read, where, verdict, asked, settled,
    queued, awaiting, owed, closed, working, overtaken,
    sent, overloads, delayed, threadOpen, turnReady, turn,
    monitor, channel, waiting, account, windows, authBlocked, cooling, chip

W == INSTANCE Workspaces
A == INSTANCE AgentsProperties WITH Messages <- Texts, phase <- step, heard <- read, said <- account

worktreeVars == <<config, branches, tree, worktree, run, records, phase, knows, head, count,
                  delivered, landed, disturbed, switched>>
agentVars == <<part, mode, step, aborted, outcome, proc, out, read, where, verdict, asked, settled,
               queued, awaiting, owed, closed, working, overtaken,
               sent, overloads, delayed, threadOpen, turnReady, turn,
               monitor, channel, waiting, account, windows, authBlocked, cooling, chip>>

MCOriginal == [prompt |-> 1, agent |-> "claude", budget |-> 0]
MCEdits == {[x \in {"prompt"} |-> 2], [agent |-> "codex"], [agent |-> "claude", budget |-> 1]}

Configured(base, conflict, merge, cleanup, commit, reset) ==
    [base |-> base, branchConflict |-> conflict, mergeBack |-> merge, cleanup |-> cleanup,
     autoCommit |-> commit, resetWorkspace |-> reset]

\* Every value of every setting, and the defaults together.
MCConfigs ==
    {Configured("runStart", "suffix", TRUE, "onSuccess", TRUE, FALSE),
     Configured("headAtStart", "reuse", TRUE, "always", TRUE, TRUE),
     Configured("runStart", "fail", FALSE, "never", FALSE, FALSE),
     Configured("headAtStart", "suffix", TRUE, "never", FALSE, TRUE),
     Configured("runStart", "reuse", FALSE, "onSuccess", TRUE, FALSE)}

ASSUME WorkspacesAssumption ==
    /\ \A c \in Configs : W!IsConfig(c)
    /\ MaxRuns \in Nat \ {0} /\ {MaxChanges, MaxTries, MaxMoves} \subseteq Nat

ASSUME AttemptAssumption ==
    /\ Questions \subseteq Requests /\ MaxUnread \in Nat \ {0} /\ MaxOverloads \in Nat

InitAll ==
    /\ Init /\ W!Init /\ A!Init
    /\ subject \in {"record", "worktree", "agent"}
    /\ subject # "worktree" => config = CHOOSE c \in Configs : TRUE
    /\ subject # "agent" => part = "exec"

NextRecord == subject = "record" /\ UNCHANGED <<subject, worktreeVars, agentVars>> /\ Next
NextWorktree == subject = "worktree" /\ UNCHANGED <<subject, vars, agentVars>> /\ W!Next
NextAgent == subject = "agent" /\ UNCHANGED <<subject, vars, worktreeVars>> /\ A!Next

SpecAll ==
    InitAll /\ [][NextRecord \/ NextWorktree \/ NextAgent]_<<subject, vars, worktreeVars, agentVars>>

\* Nothing that a success committed is lost (Workspaces).
DeliveredIsKept == W!DeliveredIsKept

\* A continued session finds everything it made (Workspaces).
FindsItsWork == W!FindsItsWork

\* The input of a worker stays open for what it holds (AgentsProperties).
StdinHeldOpen == subject = "agent" => A!StdinHeldOpen

\* Messages and requests are answered as what became of them (AgentsProperties).
EverythingAnswered == subject = "agent" => A!EverythingAnswered

\* The outcome of an attempt is what happened to it (AgentsProperties).
OutcomeMapped == subject = "agent" => A!OutcomeMapped
=============================================================================
