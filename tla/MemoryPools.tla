----------------------------- MODULE MemoryPools -----------------------------
(***************************************************************************)
(* TLSMemoryPool over LockFreeStack over LockFreeMemoryPool: AllocChunck   *)
(* and FreeChunck as the operations of the lock-free stack of chunks, one  *)
(* access to shared memory at a time.                                      *)
(***************************************************************************)
EXTENDS LockFreeStack, TLSMemoryPool

CONSTANTS
  Allocs,      \* bound: how often each thread calls Alloc
  Frees,       \* bound: how often each thread calls Free
  Later,       \* bound: the threads that begin only when the others
  Lead,        \* bound: have made so many calls of Free
  Ending       \* bound: the threads that end when their calls are made

ASSUME PoolBudgets == Lead \in Nat /\ Allocs \in [Threads -> Nat] /\ Frees \in [Threads -> Nat]
ASSUME PartAssumption == Later \subseteq Threads /\ Ending \subseteq Threads

VARIABLES allocs, frees

cellVars == <<freeVars, localVars, stackVars, val>>
vars == <<poolVars, cellVars, allocs, frees>>

Init ==
  /\ PoolInit
  /\ StackInit
  /\ allocs = [t \in Threads |-> 0]
  /\ frees = [t \in Threads |-> 0]

\* The thread is in no operation of the stack.
Outside(t) == At(t, "idle")

Spend(n, most, t) ==
  /\ n[t] < most[t]
  /\ t \in Later => \A u \in Threads \ Later : frees[u] >= Lead /\ Outside(u)
  /\ n' = [n EXCEPT ![t] = @ + 1]

\* What a thread does by itself.
Alloc(t) ==
  /\ Spend(allocs, Allocs, t)
  /\ AllocOwn(t)
  /\ UNCHANGED <<cellVars, frees>>

BeginPop(t) ==
  /\ Spend(allocs, Allocs, t)
  /\ AllocNeedsChunck(t)
  /\ PopReserve(t)
  /\ UNCHANGED frees

\* The last access of Pop, and what the thread then does with the chunk.
EndPop(t) ==
  /\ FreeCount(t)
  /\ UseChunck(t)
  /\ val' = [val EXCEPT ![t] = NoItem]
  /\ UNCHANGED <<stackVars, allocs, frees>>

\* Which nodes the heap gives makes no difference.
AllocNew(t) ==
  /\ Cardinality(unborn) >= ChunckSize
  /\ NewNodeList(t, CHOOSE s \in FreshLists : TRUE)
  /\ UNCHANGED <<cellVars, allocs, frees>>

\* FreeChunck begins with the chunk that Free has cut off.  The nodes in use are
\* alike, whoever allocated them: which of them is freed makes no difference.
BeginPush(t) ==
  /\ Spend(frees, Frees, t)
  /\ used # {}
  /\ Free(t, CHOOSE n \in used : TRUE)
  /\ IF stage'[t] = "free"
     THEN Goto(t, "aReserve") /\ val' = [val EXCEPT ![t] = hand'[t]]
     ELSE UNCHANGED <<pc, val>>
  /\ UNCHANGED <<freeVars, old, nxt, cell, left, stackVars, allocs>>

End(t) ==
  /\ t \in Ending
  /\ allocs[t] = Allocs[t] /\ frees[t] = Frees[t]
  /\ EndThread(t)
  /\ UNCHANGED <<cellVars, allocs, frees>>

\* The compare-exchange of Push is where the chunk is on the stack ...
Push(t) ==
  /\ PushCas(t)
  /\ IF cell'[t] = Null THEN GiveChunck(t) ELSE UNCHANGED poolVars
  /\ UNCHANGED <<allocs, frees>>

\* ... and that of Pop where it is off it; the thread has what it read there.
Pop(t) ==
  /\ PopCas(t)
  /\ IF cell'[t] = Null
     THEN UNCHANGED poolVars
     ELSE /\ hand' = [hand EXCEPT ![t] = val'[t]]
          /\ chunks' = Tail(chunks)
          /\ stage' = [stage EXCEPT ![t] = "taken"]
          /\ UNCHANGED <<list, FreeNodeCnt, used, unborn, deleted>>
  /\ UNCHANGED <<allocs, frees>>

PopFails(t) ==
  /\ PopUndo(t)
  /\ NoChunck(t)
  /\ UNCHANGED <<allocs, frees>>

Inside(t) ==
  /\ \/ CellPoolStep(t) /\ UNCHANGED <<stackVars, val>>
     \/ PushStep(t) \/ PopStep(t)
  /\ UNCHANGED <<poolVars, allocs, frees>>

\* A thread goes on with the operation that it is in.
Continues(t) == Inside(t) \/ Push(t) \/ Pop(t) \/ PopFails(t) \/ EndPop(t) \/ AllocNew(t)

PoolsNext ==
  \E t \in Threads :
    \/ Outside(t) /\ (Alloc(t) \/ BeginPop(t) \/ BeginPush(t) \/ End(t))
    \/ Continues(t)

Spec == Init /\ [][PoolsNext]_vars

-----------------------------------------------------------------------------
(* Properties *)

\* The stack gives the chunks back as they were pushed, the last one first, to
\* one thread each, and keeps those that were not taken.
StackKeepsChunks == chunks = [k \in 1 .. Len(Stacked) |-> Data[Stacked[k]]]

\* With the lock-free stack in its place, the pool does what it does over a
\* stack that takes one step for each operation.
ImplementsPool == PoolSpec
=============================================================================
