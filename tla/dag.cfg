CONSTANTS
  a = a
  b = b
  c = c
  Tasks = {a, b, c}
  Topo <- JoinTopo
  DependsOn <- JoinDeps
  OnFailure <- SkipOnFirst
  RunAnyway = {}
  Gates = {b}
  Conditional = {c}
  Worktree = {a}
  UnsafeShared = FALSE
  MaxConcurrency = 2
  Retries = 0
  TransientAttempts = 0
  ResultNudges = 0
  ResumeSession = TRUE
  StopMode = "cancel"
  MergeStrategy = "agent"
  Cleanup = "always"
  ApprovalHandler = TRUE
  Interactive = TRUE
  Completed = {a}
  Only = {}
  From = {a, b}
  Misconfigured = {}
  StartupFails = TRUE
  WorkspaceFails = TRUE
  WorkerOutcomes = {"success", "failed", "skipped", "blocked"}
  Commands <- GateCommands
  MaxControls = 1
  MaxAttempts = 2
SPECIFICATION Spec
INVARIANTS
  ActiveHasWork
  EndedIsSettled
PROPERTIES
  LegalTransitions
  DependenciesMet
