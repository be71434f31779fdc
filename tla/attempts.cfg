SPECIFICATION SpecAll
INVARIANTS MessageKept HistoryTrue DeliveredIsKept FindsItsWork
           StdinHeldOpen EverythingAnswered OutcomeMapped
CONSTANTS
  Original <- MCOriginal
  Edits <- MCEdits
  Retries = 1
  Transients = 1
  MaxAttempts = 2
  MaxEvents = 2
  EditorWaits = TRUE
  Configs <- MCConfigs
  MaxRuns = 2
  MaxChanges = 2
  MaxTries = 3
  MaxMoves = 1
  m1 = m1
  m2 = m2
  ask1 = ask1
  Texts = {m1, m2}
  ServerMessages = {m1}
  Requests = {ask1}
  Questions = {ask1}
  MaxUnread = 1
  MaxOverloads = 1
CHECK_DEADLOCK FALSE
