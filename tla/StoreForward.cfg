\* A client and the own phone; a store of two messages, three heard.
SPECIFICATION Spec
CONSTANTS
  Clients = {c}
  Others = {x}
  Us = us
  Broadcast = all
  records = 2
  historyReturnMax = 3
  Windows = {1, 2}
  MaxTime = 2
  MaxMessages = 3
  MaxRequests = 2
  MaxRestarts = 1
INVARIANT ReplayedOnce
PROPERTIES ReplayWhole BusyEnds
CHECK_DEADLOCK FALSE
