SPECIFICATION SpecBoth
PROPERTIES
  InboxHeeded
  AttemptEnds
CONSTANTS
  Ids = {1, 4, 5}
  KindOf <- KindByNumber
  MaxOwners = 1
  MaxTroubles = 2
  m1 = m1
  ask1 = ask1
  Messages = {}
  ServerMessages = {m1}
  Requests = {ask1}
  Questions = {ask1}
  MaxUnread = 1
  MaxOverloads = 0
CHECK_DEADLOCK FALSE
