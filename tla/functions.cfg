SPECIFICATION Spec
INVARIANTS ConditionsTrue FilesTrue PlanAgrees BufferTrue
CONSTANTS
  CallIds = {x, y}
  MaxEntries = 3
  CollapseLines = 1
  UndoLimit = 1
  Pastes <- LongPastes
  MaxLines = 4
  MaxColumns = 1
SYMMETRY Symmetry
CHECK_DEADLOCK FALSE
