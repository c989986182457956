SPECIFICATION Spec
CONSTANTS
  t1 = t1
  t2 = t2
  t3 = t3
  Threads = {t1, t2, t3}
  Nodes = {n1, n2, n3, n4, n5, n6, n7, n8, n9, n10}
  ChunckSize = 2
  Cells = {c1, c2, c3, c4}
  Null = Null
  MemoryAllocSize = 1
  Allocs <- PoolAllocs
  Frees <- PoolFrees
  Later = {t2, t3}
  Lead = 6
  Ending = {t1}
INVARIANTS
  ListsCounted
  NodeOnce
  CountsKeepPromises
  CellOnce
  StackKeepsChunks
PROPERTY ImplementsPool
SYMMETRY Alike
CHECK_DEADLOCK FALSE
