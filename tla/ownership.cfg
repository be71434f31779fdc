SPECIFICATION Spec
CHECK_DEADLOCK FALSE
CONSTANTS
  a = a
  Nobody = Nobody
  Tasks = {a}
  p = p
  q = q
  Procs = {p, q}
  MaxRuns = 1
  MaxAttempts = 2
  Commands <- ResumeCommands
  MaxUpsets = 1
  MaxAfter = 0
  Endings = {"success"}
INVARIANTS  OneExecutor OneKnownWorker
PROPERTIES ProgressStands
SYMMETRY Owners
