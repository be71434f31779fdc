CONSTANTS
  a = a
  b = b
  c = c
  Tasks = {a, b, c}
  Topo <- RowTopo
  DependsOn <- RowDeps
  OnFailure <- AllStop
  RunAnyway = {}
  Gates = {}
  Conditional = {}
  Worktree = {a, b, c}
  UnsafeShared = FALSE
  MaxConcurrency = 2
  Retries = 0
  TransientAttempts = 0
  ResultNudges = 0
  ResumeSession = TRUE
  StopMode = "cancel"
  MergeStrategy = "agent"
  Cleanup = "onSuccess"
  ApprovalHandler = FALSE
  Interactive = FALSE
  Completed = {}
  Only = {}
  From = {}
  Misconfigured = {}
  StartupFails = FALSE
  WorkspaceFails = FALSE
  WorkerOutcomes = {"success", "failed", "fatal"}
  Commands <- NoCommands
  MaxControls = 0
  MaxAttempts = 2
SPECIFICATION Spec
INVARIANTS
  WithinLimit
  StopAborts
  SuccessIsMerged
  ReportsMatch
  TreeOwned
