SPECIFICATION FairSpec
CONSTANTS
  TotalSessionCnt = 1
  Openers = {acceptor}
  Workers = {w1}
  Callers = {a1, s1}
  Stoppers = {s1}
  MaxID = 2
  MaxQueue = 0
  CallbackIDs = "own"
  WaitTimesOut = TRUE
INVARIANTS
  FreeMeansLeft
PROPERTIES
  StopReturns
  QuietAfterStop
CHECK_DEADLOCK FALSE
