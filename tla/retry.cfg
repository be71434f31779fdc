CONSTANTS
  a = a
  b = b
  c = c
  Tasks = {a, b}
  Topo <- PairTopo
  DependsOn <- PairDeps
  OnFailure <- AllContinue
  RunAnyway = {}
  Gates = {}
  Conditional = {}
  Worktree = {}
  UnsafeShared = FALSE
  MaxConcurrency = 1
  Retries = 0
  TransientAttempts = 1
  ResultNudges = 1
  ResumeSession = TRUE
  StopMode = "wait"
  MergeStrategy = "agent"
  Cleanup = "onSuccess"
  ApprovalHandler = FALSE
  Interactive = FALSE
  Completed = {}
  Only = {}
  From = {}
  Misconfigured = {b}
  StartupFails = FALSE
  WorkspaceFails = FALSE
  WorkerOutcomes = {"success", "failed", "api_error", "invalid_result"}
  Commands <- RestartCommands
  MaxControls = 1
  MaxAttempts = 6
SPECIFICATION Spec
INVARIANTS
  RetryBudget
