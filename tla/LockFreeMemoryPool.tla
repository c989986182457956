-------------------------- MODULE LockFreeMemoryPool --------------------------
(***************************************************************************)
(* LockFreeMemoryPool: a lock-free stack of free nodes, linked through the *)
(* nodes themselves, that makes MemoryAllocSize new ones when it runs out. *)
(* The nodes it serves here are those of a LockFreeStack, and are called   *)
(* cells to tell them from the nodes of TLSMemoryPool.                     *)
(*                                                                         *)
(* One action is one access to memory that other threads share.  A tag is  *)
(* compared and never ordered: GetTagCnt, which counts in 16 bits, gives   *)
(* some tag that nobody holds, as it does unless 2^16 operations pass      *)
(* while a thread is inside one; it is taken when it is written.  The      *)
(* counters UseNodeCnt and TotalNodeCnt, which no operation reads, are     *)
(* changed together with the access before them.  The bit Flag of a tagged *)
(* pointer travels with the tag and is left out.                           *)
(*                                                                         *)
(* A local that is not read again is set back to its first value.          *)
(*                                                                         *)
(* Operators named ..._bug are no part of the model: each is the operator  *)
(* after it with a plausible programming error.                            *)
(***************************************************************************)
EXTENDS PoolThreads

CONSTANTS
  Cells,            \* bound: the cells that the heap can give
  Null,
  MemoryAllocSize

ASSUME CellAssumption  == IsFiniteSet(Cells) /\ Null \notin Cells
ASSUME AllocAssumption == MemoryAllocSize \in 1 .. Cardinality(Cells)

VARIABLES
  HeadFreeNode, FreeNext,     \* the stack of free cells
  FreeCellCnt, UseCellCnt,    \* FreeNodeCnt and UseNodeCnt of the pool
  made,                       \* the cells that exist; TotalNodeCnt counts them
  pc,                         \* where each thread stands
  old, nxt,                   \* OldTop and OldTop->Next
  cell,                       \* the cell that the thread has
  left                        \* how many cells NewNode is yet to make

freeVars  == <<HeadFreeNode, FreeNext, FreeCellCnt, UseCellCnt, made>>
localVars == <<pc, old, nxt, cell, left>>

Ptr(p, g) == [ptr |-> p, tag |-> g]
NoPtr == Ptr(Null, 0)

\* The tag stays the same.
GetTagCnt_bug(top) == 1

\* A tag that is neither in the word top nor in what a thread has read.
GetTagCnt(top) ==
  CHOOSE g \in 1 .. Cardinality(Threads) + 2 : g \notin {top.tag} \cup {old[t].tag : t \in Threads}

\* The constructor makes the first MemoryAllocSize cells.
FirstCells == CHOOSE s \in [1 .. MemoryAllocSize -> Cells] :
                \A i, j \in 1 .. MemoryAllocSize : s[i] = s[j] => i = j

FreeInit ==
  /\ HeadFreeNode = Ptr(FirstCells[MemoryAllocSize], 1)
  /\ made = {FirstCells[i] : i \in 1 .. MemoryAllocSize}
  /\ FreeNext = [c \in Cells |->
       IF \E i \in 2 .. MemoryAllocSize : c = FirstCells[i]
       THEN FirstCells[(CHOOSE i \in 2 .. MemoryAllocSize : c = FirstCells[i]) - 1] ELSE Null]
  /\ FreeCellCnt = MemoryAllocSize
  /\ UseCellCnt = 0
  /\ pc = [t \in Threads |-> "idle"]
  /\ old = [t \in Threads |-> NoPtr]
  /\ nxt = [t \in Threads |-> Null]
  /\ cell = [t \in Threads |-> Null]
  /\ left = [t \in Threads |-> 0]

At(t, l)   == pc[t] = l
Goto(t, l) == pc' = [pc EXCEPT ![t] = l]
Standing(ls) == {t \in Threads : pc[t] \in ls}

ForgetTop(t) == old' = [old EXCEPT ![t] = NoPtr] /\ nxt' = [nxt EXCEPT ![t] = Null]

\* A compare-exchange looks at the whole word, pointer and tag.
SameTop_bug(top, expected) == top.ptr = expected.ptr
SameTop(top, expected) == top = expected

\* What the count was before its decrement promises nothing.
NothingLeft_bug(cnt) == cnt < 0
NothingLeft(cnt) == cnt <= 0

-----------------------------------------------------------------------------
(* PopFromFreeNode, in the loop of Alloc; Alloc ends at "allocated" *)

AllocReserve(t) ==
  /\ At(t, "aReserve")
  /\ FreeCellCnt' = FreeCellCnt - 1
  /\ Goto(t, IF NothingLeft(FreeCellCnt) THEN "aUndo" ELSE "aTop")
  /\ UNCHANGED <<HeadFreeNode, FreeNext, UseCellCnt, made, old, nxt, cell, left>>

AllocUndo(t) ==
  /\ At(t, "aUndo")
  /\ FreeCellCnt' = FreeCellCnt + 1
  /\ left' = [left EXCEPT ![t] = MemoryAllocSize]
  /\ Goto(t, "aNew")
  /\ UNCHANGED <<HeadFreeNode, FreeNext, UseCellCnt, made, old, nxt, cell>>

\* NewNode: the cell comes from the heap and goes into the pool.
NewNode(t) ==
  /\ At(t, "aNew")
  /\ Cells # made
  /\ LET c == CHOOSE x \in Cells \ made : TRUE
     IN cell' = [cell EXCEPT ![t] = c] /\ made' = made \cup {c}
  /\ Goto(t, "fTop")
  /\ UNCHANGED <<HeadFreeNode, FreeNext, FreeCellCnt, UseCellCnt, old, nxt, left>>

AllocReadTop(t) ==
  /\ At(t, "aTop")
  /\ old' = [old EXCEPT ![t] = HeadFreeNode]
  /\ Goto(t, "aNext")
  /\ UNCHANGED <<freeVars, nxt, cell, left>>

AllocReadNext(t) ==
  /\ At(t, "aNext")
  /\ old[t].ptr # Null
  /\ nxt' = [nxt EXCEPT ![t] = FreeNext[old[t].ptr]]
  /\ Goto(t, "aCas")
  /\ UNCHANGED <<freeVars, old, cell, left>>

AllocCas(t) ==
  /\ At(t, "aCas")
  /\ IF SameTop(HeadFreeNode, old[t])
     THEN /\ HeadFreeNode' = Ptr(nxt[t], GetTagCnt(HeadFreeNode))
          /\ cell' = [cell EXCEPT ![t] = old[t].ptr]
          /\ UseCellCnt' = UseCellCnt + 1
          /\ Goto(t, "allocated")
     ELSE Goto(t, "aTop") /\ UNCHANGED <<HeadFreeNode, cell, UseCellCnt>>
  /\ ForgetTop(t)
  /\ UNCHANGED <<FreeNext, FreeCellCnt, made, left>>

-----------------------------------------------------------------------------
(* PushtoFreeNode, for Free and for NewNode; Free ends at "idle" *)

\* A cell that is on its way into a list is its thread's own: it is linked
\* together with the read of the top that it is linked to.
FreeLink(t) ==
  /\ At(t, "fTop")
  /\ old' = [old EXCEPT ![t] = HeadFreeNode]
  /\ FreeNext' = [FreeNext EXCEPT ![cell[t]] = HeadFreeNode.ptr]
  /\ Goto(t, "fCas")
  /\ UNCHANGED <<HeadFreeNode, FreeCellCnt, UseCellCnt, made, nxt, cell, left>>

FreeCas(t) ==
  /\ At(t, "fCas")
  /\ IF SameTop(HeadFreeNode, old[t])
     THEN /\ HeadFreeNode' = Ptr(cell[t], GetTagCnt(HeadFreeNode))
          /\ cell' = [cell EXCEPT ![t] = Null]
          /\ Goto(t, "fSize")
     ELSE Goto(t, "fTop") /\ UNCHANGED <<HeadFreeNode, cell>>
  /\ ForgetTop(t)
  /\ UNCHANGED <<FreeNext, FreeCellCnt, UseCellCnt, made, left>>

\* NewNode goes on until MemoryAllocSize cells were made; then Alloc tries again.
NewNodeCount(t) ==
  /\ At(t, "fSize")
  /\ left[t] # 0
  /\ FreeCellCnt' = FreeCellCnt + 1
  /\ left' = [left EXCEPT ![t] = @ - 1]
  /\ Goto(t, IF left[t] = 1 THEN "aReserve" ELSE "aNew")
  /\ UNCHANGED <<HeadFreeNode, FreeNext, UseCellCnt, made, old, nxt, cell>>

FreeCount(t) ==
  /\ At(t, "fSize")
  /\ left[t] = 0
  /\ FreeCellCnt' = FreeCellCnt + 1
  /\ UseCellCnt' = UseCellCnt - 1
  /\ Goto(t, "idle")
  /\ UNCHANGED <<HeadFreeNode, FreeNext, made, old, nxt, cell, left>>

CellPoolStep(t) ==
  \/ AllocReserve(t) \/ AllocUndo(t) \/ NewNode(t)
  \/ AllocReadTop(t) \/ AllocReadNext(t) \/ AllocCas(t)
  \/ FreeLink(t) \/ FreeCas(t) \/ NewNodeCount(t)

\* Position k of the list that starts at first and runs through next.
ChainFrom(first, next) ==
  LET f[k \in 0 .. Cardinality(Cells)] ==
        IF k = 0 THEN first ELSE IF f[k - 1] = Null THEN Null ELSE next[f[k - 1]]
  IN f

\* The cells of that list, in their order.
CellsFrom(first, next) ==
  LET chain == ChainFrom(first, next)
      cnt == Cardinality({k \in DOMAIN chain : chain[k] # Null})
  IN [k \in 1 .. cnt |-> chain[k - 1]]

FreeCells == CellsFrom(HeadFreeNode.ptr, FreeNext)

\* FreeNodeCnt never loses count: with the operations under way it gives the
\* cells in the list.  So an Alloc that was promised one finds one.
FreeCellsCounted ==
  FreeCellCnt + Cardinality(Standing({"aUndo", "aTop", "aNext", "aCas", "fSize"})) = Len(FreeCells)
=============================================================================
