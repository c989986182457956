SPECIFICATION Spec
CONSTANTS
  timer = timer
  Timer <- timer
  Unset = unset
  Slots <- MCSlots
  SessionIDs <- MCSessionIDs
  Clients <- MCClients
  Spot <- MCSpot
  Messages <- ClientMessages
  LongTexts = {}
  Width = 2
  Height = 1
  MaxBeats = 1
  MaxUser = 2
  MaxConnections = 2
  MaxPackets <- MCMaxPackets
  MaxSignalling = 1
INVARIANTS NeverCrashes WorldConsistent AnsweredInOrder
PROPERTY LeftAreForgotten
CHECK_DEADLOCK FALSE
