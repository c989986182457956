SPECIFICATION FairSpec
CONSTANTS
  TotalSessionCnt = 1
  Openers = {c1, c2}
  Workers = {w1}
  Callers = {s1}
  Stoppers = {s1}
  MaxID = 1
  MaxQueue = 0
  CallbackIDs = "own"
  WaitTimesOut = TRUE
INVARIANTS
  TypeOK
  ConnectReturnsOpen
PROPERTIES
  ConnectEnds
  StopReturns
CHECK_DEADLOCK FALSE
