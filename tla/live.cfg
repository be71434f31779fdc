CONSTANTS
  a = a
  b = b
  c = c
  Tasks = {a, b}
  Topo <- PairTopo
  DependsOn <- PairDeps
  OnFailure <- StopOnFirst
  RunAnyway = {}
  Gates = {}
  Conditional = {}
  Worktree = {a}
  UnsafeShared = FALSE
  MaxConcurrency = 1
  Retries = 1
  TransientAttempts = 0
  ResultNudges = 0
  ResumeSession = FALSE
  StopMode = "wait"
  MergeStrategy = "agent"
  Cleanup = "onSuccess"
  ApprovalHandler = FALSE
  Interactive = FALSE
  Completed = {}
  Only = {}
  From = {}
  Misconfigured = {}
  StartupFails = FALSE
  WorkspaceFails = FALSE
  WorkerOutcomes = {"success", "failed", "fatal"}
  Commands <- RunCommands
  MaxControls = 1
  MaxAttempts = 2
SPECIFICATION FairSpec
PROPERTIES
  RunsEnd
  CommandsAnswered
