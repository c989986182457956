SPECIFICATION FairSpec
CONSTANTS
  TotalSessionCnt = 1
  Openers = {acceptor}
  Workers = {w1, w2}
  Callers = {}
  Stoppers = {}
  MaxID = 1
  MaxQueue = 1
  CallbackIDs = "own"
  WaitTimesOut = FALSE
INVARIANTS
  NoLostRelease
PROPERTIES
  BrokenLeaves
