CONSTANTS
  a = a
  b = b
  c = c
  Tasks = {a, b}
  Topo <- ChainTopo
  DependsOn <- ChainDeps
  OnFailure <- AllContinue
  RunAnyway = {}
  Gates = {}
  Conditional = {}
  Worktree = {}
  UnsafeShared = FALSE
  MaxConcurrency = 2
  Retries = 0
  TransientAttempts = 1
  ResultNudges = 0
  ResumeSession = TRUE
  StopMode = "wait"
  MergeStrategy = "agent"
  Cleanup = "onSuccess"
  ApprovalHandler = FALSE
  Interactive = FALSE
  Completed = {}
  Only = {}
  From = {}
  Misconfigured = {}
  StartupFails = FALSE
  WorkspaceFails = FALSE
  WorkerOutcomes = {"success","needs_input","api_error"}
  Commands <- EveryCommand
  MaxControls = 2
  MaxAttempts = 2
SPECIFICATION Spec
INVARIANTS
  PausedIsHeld
  NoStaleWork
  PROPERTIES
  CancelSettles
  HoldStartsNothing
  KeepsContract
