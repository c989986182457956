SPECIFICATION Spec
CONSTANTS
  TotalSessionCnt = 1
  Openers = {acceptor}
  Workers = {w1}
  Callers = {a1}
  Stoppers = {}
  MaxID = 2
  MaxQueue = 1
  CallbackIDs = "none"
  WaitTimesOut = FALSE
INVARIANTS
  NoLostRelease
