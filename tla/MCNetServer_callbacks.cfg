SPECIFICATION Spec
CONSTANTS
  TotalSessionCnt = 2
  Openers = {acceptor}
  Workers = {w1, w2}
  Callers = {}
  Stoppers = {}
  MaxID = 2
  MaxQueue = 0
  CallbackIDs = "any"
  WaitTimesOut = FALSE
PROPERTIES
  ImplementsCallbacks
