SPECIFICATION Spec
CONSTANTS
  t1 = t1
  t2 = t2
  t3 = t3
  Threads = {t1, t2, t3}
  Nodes = {n1, n2, n3}
  Null = Null
  Enqueues <- FifoEnqueues
  Dequeues <- FifoDequeues
  Running = {t2, t3}
INVARIANTS
  SizeExact
  TailInList
  HeldNodeKept
  ItemBeforeTail
PROPERTIES
  ImplementsFifo
  OperationsEnd
CHECK_DEADLOCK FALSE
