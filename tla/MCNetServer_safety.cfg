SPECIFICATION Spec
CONSTANTS
  TotalSessionCnt = 1
  Openers = {acceptor}
  Workers = {w1, w2}
  Callers = {a1}
  Stoppers = {}
  MaxID = 2
  MaxQueue = 1
  CallbackIDs = "none"
  WaitTimesOut = FALSE
INVARIANTS
  TypeOK
  RefCntExact
  OneOwner
  NoUseAfterRelease
  GuardPinsSession
  SerialIO
  SendBufferStable
  PacketsReturned
  CancelNotMissed
  SendNotStranded
SYMMETRY WorkerSymmetry
