SPECIFICATION SpecBoth
INVARIANTS ScreenTrue
PROPERTIES LeavesAndLetsGo RegistryTrue
CONSTANTS
  MaxExecutions = 2
  MaxOthers = 2
  MaxAsks = 2
  p1 = p1
  p2 = p2
  q = q
  Pids = {p1, p2}
  Reapers = {q}
  MaxHolds = 2
  Stale = 3
  Retain = 4
CHECK_DEADLOCK FALSE
