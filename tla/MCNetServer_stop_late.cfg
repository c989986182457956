SPECIFICATION Spec
CONSTANTS
  TotalSessionCnt = 1
  Openers = {acceptor}
  Workers = {w1}
  Callers = {s1}
  Stoppers = {s1}
  MaxID = 2
  MaxQueue = 0
  CallbackIDs = "own"
  WaitTimesOut = FALSE
INVARIANTS
  StopServesEverySession
CHECK_DEADLOCK FALSE
