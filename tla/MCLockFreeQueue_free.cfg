SPECIFICATION Spec
CONSTANTS
  t1 = t1
  t2 = t2
  t3 = t3
  Threads = {t1, t2, t3}
  Nodes = {n1, n2, n3, n4}
  Null = Null
  Enqueues <- FreeEnqueues
  Dequeues <- FreeDequeues
  Running = {}
INVARIANT HeldNodeKept
SYMMETRY NodeSymmetry
CONSTRAINT Staggered
CHECK_DEADLOCK FALSE
