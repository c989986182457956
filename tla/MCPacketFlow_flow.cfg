SPECIFICATION Spec
CONSTANTS
  ByteSize = 4
  Xor <- XorTwoBits
  HeaderCode = 2
  EncryptKey = 3
  s1 = s1
  s2 = s2
  Threads = {t1, t2}
  Packets = {p1, p2}
  Sessions = {s1, s2}
  Payloads <- TwoPayloads
  RandomKeys = {2}
  MaxSends <- Sends
  Allocators = {t1}
  NoThread = NoThread
  NoPacket = NoPacket
  NoSession = NoSession
  RecvSize = 8
  HeaderDefault = 2
  MaxPayloadLen = 3
  Peers = {s1}
  Pieces = {2, 7}
INVARIANTS
  RefsExact
  QueuedEncoded
  ReceivedAsSent
PROPERTY EverythingArrives
CHECK_DEADLOCK FALSE
