SPECIFICATION SpecAll
INVARIANTS AppliedOnce PanelTrue
PROPERTIES NothingLeftBehind WindowTrue
CONSTANTS
  Requests = {2, 3}
  KindOf <- KindByNumber
  MaxOwners = 2
  MaxTroubles = 1
  TaskList <- MCTasks
  States = {"running", "needs_input"}
  MaxText = 1
  MaxSending = 1
  MaxBehind = 1
  Limit = 1
  Rows = 1
  Page = 1
  MaxLines = 2
  MaxReads = 1
  MaxAttempts = 1
