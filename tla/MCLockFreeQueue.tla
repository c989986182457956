--------------------------- MODULE MCLockFreeQueue ---------------------------
EXTENDS LockFreeQueue, TLC

CONSTANTS t1, t2, t3

\* Two producers, of which one also consumes, and a consumer; three enqueues
\* for three nodes, so that a node is used again.
FifoEnqueues == (t1 :> 1) @@ (t2 :> 2) @@ (t3 :> 0)
FifoDequeues == (t1 :> 1) @@ (t2 :> 0) @@ (t3 :> 1)

\* Two threads enqueue once while a third goes on.
FreeEnqueues == (t1 :> 1) @@ (t2 :> 1) @@ (t3 :> 3)
FreeDequeues == (t1 :> 0) @@ (t2 :> 0) @@ (t3 :> 3)

NodeSymmetry == Permutations(Nodes)

\* The threads start one after the other.
Staggered == /\ sent[t3] > 0 => sent[t1] = 1
             /\ sent[t2] > 0 => sent[t3] >= 2
=============================================================================
