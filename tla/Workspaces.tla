----------------------------- MODULE Workspaces -----------------------------
(***************************************************************************)
(* The worktree of one task (workspace/workspace-manager.ts), what git     *)
(* makes of it, and the shared tree that its branch is merged into, over   *)
(* the runs of the workflow, one after the other or resumed in any order:  *)
(* the path of the worktree is that of the task, whichever the run.        *)
(*                                                                         *)
(* A commit is the set of the changes in its history: it is an ancestor of *)
(* those that contain it.                                                  *)
(***************************************************************************)
EXTENDS Integers, FiniteSets, TLC

CONSTANTS
    Configs,       \* configurations: execution.worktree, and retry.resetWorkspace of the task
    MaxRuns,       \* runs of the workflow
    MaxChanges,    \* bound: changes written by anyone
    MaxTries,   \* bound: attempts, of all the runs together
    MaxMoves       \* bound: what the operator does in the repository

\* Every setting of a configuration, and its values.
IsConfig(c) ==
    c \in [base : {"runStart", "headAtStart"}, branchConflict : {"suffix", "reuse", "fail"},
           mergeBack : BOOLEAN, cleanup : {"onSuccess", "always", "never"}, autoCommit : BOOLEAN,
           resetWorkspace : BOOLEAN]

Runs == 1 .. MaxRuns

VARIABLES
    config,      \* the configuration of the runs
    branches,    \* the local branches: the commit each is at
    tree,        \* the shared tree: its branch, whether it has uncommitted changes, or a merge under way
    worktree,    \* the task's worktree: its branch, its uncommitted changes; or NoTree
    run,         \* the run started or resumed last, whether it is executed, how many were started
    records,     \* of each run: its base commit and branch, and the worktree and session of the task's last attempt
    phase,       \* where the attempt under way is
    knows,       \* the changes that its session has made
    head,        \* headSha, as finalize() has it
    count,       \* how many changes, attempts and moves there were
    delivered,   \* history: of each run, the changes its successful attempts left committed
    landed,      \* history: what was merged, where, and where the operator was told that it is
    disturbed,   \* history: runs whose worktree another run, or `cao clean` of one, has touched
    switched     \* history: runs since whose start the operator has switched the shared tree

execVars    == <<config, run, records>>
gitVars     == <<branches, tree, worktree>>
historyVars == <<delivered, landed, disturbed, switched>>
vars == <<execVars, gitVars, phase, knows, head, count, historyVars>>

Main      == <<"main", 0>>
Side      == <<"side", 0>>
Branch(n) == <<"task", n>>       \* orchestrator/<id>, or the same with a suffix
None      == <<"none", 0>>
NoTree    == [on |-> None, dirty |-> {}]

Exists   == worktree # NoTree
Head     == branches[tree.on]
Contents == IF Exists THEN branches[worktree.on] \cup worktree.dirty ELSE {}
Record   == records[run.n]
At(p)    == run.executing /\ phase = p

Moves(branch, commit) == branches' = [branches EXCEPT ![branch] = commit]
One(counter, max) == count[counter] < max /\ count' = [count EXCEPT ![counter] = @ + 1]

\* The directory is given to a run, or taken away: the others find it touched.
Touches == disturbed' = disturbed \cup {r \in Runs \ {run.n} : records[r].branch # None}

Init ==
    /\ config \in Configs
    /\ branches = (Main :> {} @@ Side :> {})
    /\ tree = [on |-> Main, dirty |-> FALSE, merging |-> FALSE]
    /\ worktree = NoTree
    /\ run = [n |-> 0, executing |-> FALSE, started |-> 0]
    /\ records = [r \in Runs |-> [baseCommit |-> {}, into |-> None, branch |-> None, base |-> {}, open |-> FALSE, knows |-> {}]]
    /\ phase = "idle" /\ knows = {} /\ head = {}
    /\ count = [changes |-> 0, attempts |-> 0, moves |-> 0]
    /\ delivered = [r \in Runs |-> {}] /\ landed = {} /\ disturbed = {} /\ switched = {}

-----------------------------------------------------------------------------
(* Runs, and their ends.                                                   *)

\* A new run: prepareRun records the commit it starts from, and its branch.
StartRun ==
    /\ ~run.executing /\ run.started + 1 \in Runs
    /\ LET n == run.started + 1
       IN /\ run' = [n |-> n, executing |-> TRUE, started |-> n]
          /\ records' = [records EXCEPT ![n].baseCommit = Head, ![n].into = tree.on]
    /\ UNCHANGED <<config, gitVars, phase, knows, head, count, historyVars>>

\* A resumed one keeps what it recorded.
ResumeRun ==
    /\ ~run.executing
    /\ \E n \in 1 .. run.started : run' = [run EXCEPT !.n = n, !.executing = TRUE]
    /\ UNCHANGED <<config, records, gitVars, phase, knows, head, count, historyVars>>

\* Between two attempts it ends, or it is given up; while there is one it dies, with the
\* attempt.  Whoever resumes it may continue the session.
RunStops ==
    /\ run.executing
    /\ run' = [run EXCEPT !.executing = FALSE]
    /\ records' = IF phase = "idle" THEN records
                  ELSE [records EXCEPT ![run.n].open = TRUE, ![run.n].knows = knows]
    /\ phase' = "idle" /\ knows' = {} /\ head' = {}
    /\ UNCHANGED <<config, gitVars, count, historyVars>>

-----------------------------------------------------------------------------
(* acquire(): a worktree for an attempt, which continues the session of the *)
(* one before or starts afresh.                                            *)

Attempt(preserve) ==
    /\ At("idle") /\ One("attempts", MaxTries)
    /\ preserve => Record.open

\* The attempt is at work on a branch, from a base.
Works(branch, base, preserve) ==
    /\ phase' = "working"
    /\ knows' = IF preserve THEN Record.knows ELSE {}
    /\ records' = [records EXCEPT ![run.n] = [@ EXCEPT !.branch = branch, !.base = base, !.open = FALSE, !.knows = {}]]

\* The directory is still a worktree: it is used again, reset unless a session continues.
Reset(preserve) == config.resetWorkspace /\ ~preserve

Reuse(preserve) ==
    /\ Attempt(preserve) /\ Record.branch # None /\ Exists
    /\ IF Reset(preserve)
       THEN Moves(worktree.on, Record.base) /\ worktree' = [worktree EXCEPT !.dirty = {}]
       ELSE UNCHANGED <<branches, worktree>>
    /\ Works(Record.branch, Record.base, preserve)
    /\ Touches
    /\ UNCHANGED <<config, tree, run, head, delivered, landed, switched>>

\* It is gone, but the branch is kept.
Readd(preserve) ==
    /\ Attempt(preserve) /\ ~Exists /\ Record.branch \in DOMAIN branches
    /\ worktree' = [on |-> Record.branch, dirty |-> {}]
    /\ Works(Record.branch, Record.base, preserve)
    /\ Touches
    /\ UNCHANGED <<config, branches, tree, run, head, delivered, landed, switched>>

BaseSha == IF config.base = "runStart" THEN Record.baseCommit ELSE Head

\* The branch of a first attempt: the task's own, or whatever the policy makes of a conflict.
FreshBranch ==
    IF Branch(0) \notin DOMAIN branches \/ config.branchConflict = "reuse" THEN Branch(0)
    ELSE CHOOSE b \in {Branch(n) : n \in 1 .. MaxTries} :
           b \notin DOMAIN branches /\ \A n \in 1 .. b[2] - 1 : Branch(n) \in DOMAIN branches

\* Mutant: the branch is made anew, whether or not it is there.
WithFreshForced == (FreshBranch :> BaseSha) @@ branches

\* git worktree add, of the branch that is there or of a new one at the base.
WithFresh == branches @@ (FreshBranch :> BaseSha)

\* A first attempt: what is at the path is from an older run, and is discarded.
Create(preserve) ==
    /\ Attempt(preserve) /\ Record.branch \notin DOMAIN branches
    /\ IF config.branchConflict = "fail" /\ Branch(0) \in DOMAIN branches
       THEN /\ worktree' = NoTree
            /\ UNCHANGED <<branches, phase, knows, records>>
       ELSE \E recorded \in BOOLEAN :
            \* The process may die before the worktree is recorded.
            /\ worktree' = [on |-> FreshBranch, dirty |-> {}]
            /\ branches' = WithFresh
            /\ IF recorded THEN Works(FreshBranch, BaseSha, preserve) ELSE UNCHANGED <<phase, knows, records>>
    /\ Touches
    /\ UNCHANGED <<config, tree, run, head, delivered, landed, switched>>

Acquire == \E preserve \in BOOLEAN : Reuse(preserve) \/ Readd(preserve) \/ Create(preserve)

-----------------------------------------------------------------------------
(* The worker.                                                             *)

WorkerEdits ==
    /\ At("working") /\ Exists /\ One("changes", MaxChanges)
    /\ worktree' = [worktree EXCEPT !.dirty = @ \cup {count'.changes}]
    /\ knows' = knows \cup {count'.changes}
    /\ UNCHANGED <<execVars, branches, tree, phase, head, historyVars>>

Commit == Moves(worktree.on, Contents) /\ worktree' = [worktree EXCEPT !.dirty = {}]

WorkerCommits ==
    /\ At("working") /\ worktree.dirty # {}
    /\ Commit
    /\ UNCHANGED <<execVars, tree, phase, knows, head, count, historyVars>>

-----------------------------------------------------------------------------
(* finalize(), and what follows it.                                        *)

\* The attempt is over: its run may retry it, or continue its session.
Over(open, known) ==
    /\ phase' = "idle" /\ knows' = {} /\ head' = {}
    /\ records' = [records EXCEPT ![run.n].open = open, ![run.n].knows = known]

\* What its session made and committed.
Work == IF Exists THEN knows \cap branches[worktree.on] ELSE {}

\* Mutant: the worktree goes where that of a success would.
TornDownAsAfterSuccess == config.cleanup # "never"

\* It ended without success.  Under `cleanup: always` the worktree goes, with what was not
\* committed.  An attempt that is suspended is no exception: the scheduler finalizes it with
\* the outcome of its worker, which is "cancelled" (SuspendedKeepsWorktree of
\* SchedulerProperties is what the documentation says).
TornDown == config.cleanup = "always"

AttemptFails ==
    /\ At("working")
    /\ IF TornDown THEN worktree' = NoTree ELSE UNCHANGED worktree
    /\ Over(TRUE, knows)
    /\ UNCHANGED <<config, branches, tree, run, count, historyVars>>

\* It succeeded: what is not committed is, if that is wanted and git does it...
AttemptSucceeds ==
    /\ At("working")
    /\ phase' = "merging"
    /\ \/ config.autoCommit /\ worktree.dirty # {} /\ Commit
       \/ UNCHANGED <<branches, worktree>>
    /\ head' = IF Exists THEN branches'[worktree.on] ELSE {0}
    /\ UNCHANGED <<execVars, tree, knows, count, historyVars>>

Delivers == delivered' = [delivered EXCEPT ![run.n] = IF run.n \in disturbed THEN @ ELSE @ \cup Work]

\* task.merged names the base branch of the run; git merges into the branch of the tree.
Lands ==
    landed' = IF run.n \in disturbed THEN landed
              ELSE landed \cup [run : {run.n}, told : {Record.into}, at : {tree.on}, change : Work]

Accepted == phase' = "cleaning"

Own == branches[Record.branch]

\* ... and the branch is merged, under the shared-tree lock, unless there is nothing to merge,
NothingToMerge == head = Record.base \/ Own \subseteq Head

MergeNothing ==
    /\ At("merging") /\ config.mergeBack /\ NothingToMerge
    /\ Accepted /\ Delivers
    /\ UNCHANGED <<execVars, gitVars, knows, head, count, landed, disturbed, switched>>

MergeSkipped ==
    /\ At("merging") /\ ~config.mergeBack
    /\ Accepted /\ Delivers
    /\ UNCHANGED <<execVars, gitVars, knows, head, count, landed, disturbed, switched>>

Clean == ~tree.dirty /\ ~tree.merging

\* The merge itself.
MergeBack ==
    /\ At("merging") /\ config.mergeBack /\ ~NothingToMerge /\ Clean
    /\ Moves(tree.on, Head \cup Own)
    /\ Accepted /\ Delivers /\ Lands
    /\ UNCHANGED <<execVars, tree, worktree, knows, head, count, disturbed, switched>>

\* It is refused in a tree with uncommitted changes, or conflicts and is aborted: a session
\* is to resolve it there, or the task fails.
MergeConflicts ==
    /\ At("merging") /\ config.mergeBack /\ ~NothingToMerge
    /\ \/ phase' = "resolving" /\ UNCHANGED <<knows, head, records>>
       \/ Over(TRUE, knows)
    /\ UNCHANGED <<config, gitVars, run, count, historyVars>>

\* git fails: the success stands, with a warning.
FinalizeThrows ==
    /\ At("merging")
    /\ Delivers /\ Over(FALSE, {})
    /\ UNCHANGED <<config, gitVars, run, count, landed, disturbed, switched>>

\* What the session may do in the shared tree: start the merge, finish the one it finds, give it up.
SessionMerges ==
    /\ At("resolving")
    /\ \/ ~tree.merging /\ tree' = [tree EXCEPT !.merging = TRUE] /\ UNCHANGED branches
       \/ tree' = [tree EXCEPT !.merging = FALSE] /\ Moves(tree.on, Head \cup Own)
       \/ tree.merging /\ tree' = [tree EXCEPT !.merging = FALSE] /\ UNCHANGED branches
    /\ UNCHANGED <<execVars, worktree, phase, knows, head, count, historyVars>>

\* completeMerge() after one that reports success, under the lock.
IsMerged == Own \subseteq Head

CompleteMerge ==
    /\ At("resolving")
    /\ IF ~tree.merging /\ IsMerged
       THEN Accepted /\ Delivers /\ Lands /\ UNCHANGED <<records, tree, knows, head>>
       ELSE /\ tree' = [tree EXCEPT !.merging = FALSE]
            /\ Over(TRUE, knows)
            /\ UNCHANGED <<delivered, landed>>
    /\ UNCHANGED <<config, branches, worktree, run, count, disturbed, switched>>

\* One that fails leaves the tree as it is.
MergeSessionFails ==
    /\ At("resolving")
    /\ Over(TRUE, knows)
    /\ UNCHANGED <<config, gitVars, run, count, historyVars>>

\* The worktree of a success goes, unless it is to stay, or git and the file system refuse.
CleanUp ==
    /\ At("cleaning")
    /\ IF config.cleanup # "never" THEN worktree' \in {NoTree, worktree} ELSE UNCHANGED worktree
    /\ Over(FALSE, {})
    /\ UNCHANGED <<config, branches, tree, run, count, historyVars>>

-----------------------------------------------------------------------------
(* The operator, and other tasks, in the repository.                       *)

Disturb == One("moves", MaxMoves) /\ UNCHANGED <<config, run, phase, knows, head, delivered, landed>>

\* A change is committed in the shared tree, or a merge of the operator's resolved.
OthersCommit ==
    /\ Disturb /\ Clean /\ UNCHANGED switched
    /\ \E c \in MaxChanges + 1 .. MaxChanges + MaxMoves :
         /\ \A b \in DOMAIN branches : c \notin branches[b]
         /\ \A d \in MaxChanges + 1 .. c - 1 : \E b \in DOMAIN branches : d \in branches[b]
         /\ Moves(tree.on, Head \cup {c})
    /\ UNCHANGED <<records, tree, worktree, disturbed>>

OperatorEdits ==
    /\ Disturb /\ UNCHANGED switched
    /\ tree' = [tree EXCEPT !.dirty = ~@]
    /\ UNCHANGED <<records, branches, worktree, disturbed>>

OperatorSwitches ==
    /\ Disturb /\ Clean
    /\ tree' = [tree EXCEPT !.on = IF @ = Main THEN Side ELSE Main]
    /\ switched' = 1 .. run.started
    /\ UNCHANGED <<records, branches, worktree, disturbed>>

\* `cao clean` of a run whose own lock is not held: the directories its attempts name.
OperatorCleans ==
    /\ Disturb /\ Exists /\ UNCHANGED switched
    /\ \E n \in 1 .. run.started :
         /\ ~(run.executing /\ run.n = n) /\ records[n].branch # None
         /\ disturbed' = disturbed \cup {r \in Runs : records[r].branch # None}
    /\ worktree' = NoTree
    /\ UNCHANGED <<records, branches, tree>>

Next ==
    \/ StartRun \/ ResumeRun \/ RunStops \/ Acquire \/ WorkerEdits \/ WorkerCommits
    \/ AttemptFails \/ AttemptSucceeds \/ MergeNothing \/ MergeSkipped \/ MergeBack \/ MergeConflicts
    \/ FinalizeThrows \/ SessionMerges \/ CompleteMerge \/ MergeSessionFails \/ CleanUp
    \/ OthersCommit \/ OperatorEdits \/ OperatorSwitches \/ OperatorCleans

Spec == Init /\ [][Next]_vars

-----------------------------------------------------------------------------
\* What becomes of the changes that the worker of a task makes.

\* What a success left committed is never lost: what was merged stays in the branch it was
\* merged into, which is the one the operator was told of unless the operator has switched
\* the shared tree since the run started; and it is at least in some branch when it is not
\* to be merged or git refused, whatever attempts and runs do with the worktree and its
\* branch afterwards, unless the task is to start over from its base (workspace-manager.ts,
\* acquire, finalize, mergeBack, completeMerge).
DeliveredIsKept ==
    /\ \A l \in landed :
         /\ l.change \in branches[l.at]
         /\ l.run \notin switched => l.change \in branches[l.told]
    /\ ~config.resetWorkspace =>
         \A r \in Runs : delivered[r] \subseteq UNION {branches[b] : b \in DOMAIN branches}

\* "merge with --no-ff into the base branch" (docs/architecture.md): the work is where the
\* operator is told it is.  No run checks this: git merges into the branch that the shared
\* tree is on, whatever the run recorded as its base branch.
MergedWhereTold == \A l \in landed : l.change \in branches[l.told]

\* What its session has committed.
Committed == knows \cap UNION {branches[b] : b \in DOMAIN branches}

\* A session that is continued finds in its worktree everything it made there, committed or
\* not, after a suspension, a crash or a failed merge; under `cleanup: always`, everything it
\* has committed (workspace-manager.ts, acquire and finalize; AcquireOptions.preserve).
FindsItsWork ==
    phase = "working" /\ run.n \notin disturbed =>
        (IF config.cleanup = "always" THEN Committed ELSE knows) \subseteq Contents

\* An attempt works on the branch that its record names, which is the one that is merged.  No
\* run checks this: the check that finds a worktree at the path does not ask for its branch,
\* and a resumed run takes over the worktree that a later run of the workflow left there.
OnItsBranch == phase = "working" /\ Exists => worktree.on = Record.branch

\* What a success left uncommitted is not thrown away.  No run checks this: the worktree is
\* removed all the same when it was not to be committed, or the commit failed.
NothingThrownAway == [][At("cleaning") /\ worktree.dirty # {} => worktree' # NoTree]_vars

\* Cleaning what one run left behind does not touch a worktree in which another works.  No
\* run checks this: only the lock of the run that is named is looked at.
CleaningSparesWork == [][At("working") /\ Exists => worktree' # NoTree \/ phase' # "working"]_vars
=============================================================================
