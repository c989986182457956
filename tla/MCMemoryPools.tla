---------------------------- MODULE MCMemoryPools ----------------------------
EXTENDS MemoryPools, TLC

CONSTANTS t1, t2, t3

\* A chunk is two nodes.  t1 makes three chunks and gives them away; then all
\* three threads take one, and t1 gives one back and takes another.
PoolAllocs == (t1 :> 8) @@ (t2 :> 1) @@ (t3 :> 1)
PoolFrees  == (t1 :> 7) @@ (t2 :> 0) @@ (t3 :> 0)

Alike == Permutations({t2, t3})
=============================================================================
