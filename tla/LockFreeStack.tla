---------------------------- MODULE LockFreeStack ----------------------------
(***************************************************************************)
(* LockFreeStack: Push links a new cell before the top, Pop takes the top  *)
(* off and gives its cell back to the stack's own LockFreeMemoryPool.  A   *)
(* cell that Pop has read as the top may be taken by another thread, used  *)
(* again and be the top once more; the tag beside the pointer tells.  Pop  *)
(* takes one off Size before it looks at the list, and Push adds one after *)
(* its cell is linked: Pop relies on Size to know that Top is not null.    *)
(*                                                                         *)
(* Operators named ..._bug are no part of the model: each is the operator  *)
(* after it with a plausible programming error.                            *)
(***************************************************************************)
EXTENDS LockFreeMemoryPool

VARIABLES
  Top, Next, Data,
  Size,
  val            \* tData of a Push, returnData of a Pop

\* The null pointer that Pop sets when it fails.
NoItem == <<>>

stackVars == <<Top, Next, Data, Size>>

StackInit ==
  /\ FreeInit
  /\ Top = NoPtr
  /\ Next = [c \in Cells |-> Null]
  /\ Data = [c \in Cells |-> NoItem]
  /\ Size = 0
  /\ val = [t \in Threads |-> NoItem]

-----------------------------------------------------------------------------
(* Push(tData): begins at "aReserve", in Alloc of the cell pool *)

\* The cell is linked once, before the loop, and not to the top read last.
LinkTo_bug(c, top) == Next' = [Next EXCEPT ![c] = IF @ = Null THEN top ELSE @]
LinkTo(c, top) == Next' = [Next EXCEPT ![c] = top]

\* The data and the link are set while nobody else has the cell.
PushLink(t) ==
  /\ \/ /\ At(t, "allocated")
        /\ Data' = [Data EXCEPT ![cell[t]] = val[t]]
     \/ At(t, "pTop") /\ UNCHANGED <<Data>>
  /\ old' = [old EXCEPT ![t] = Top]
  /\ LinkTo(cell[t], Top.ptr)
  /\ Goto(t, "pCas")
  /\ UNCHANGED <<freeVars, Top, Size, nxt, cell, left, val>>

PushCas(t) ==
  /\ At(t, "pCas")
  /\ IF SameTop(Top, old[t])
     THEN /\ Top' = Ptr(cell[t], GetTagCnt(Top))
          /\ cell' = [cell EXCEPT ![t] = Null]
          /\ val' = [val EXCEPT ![t] = NoItem]
          /\ Goto(t, "pSize")
     ELSE Goto(t, "pTop") /\ UNCHANGED <<Top, cell, val>>
  /\ ForgetTop(t)
  /\ UNCHANGED <<freeVars, Next, Data, Size, left>>

PushCount(t) ==
  /\ At(t, "pSize")
  /\ Size' = Size + 1
  /\ Goto(t, "idle")
  /\ UNCHANGED <<freeVars, Top, Next, Data, old, nxt, cell, left, val>>

PushStep(t) == PushLink(t) \/ PushCount(t)

-----------------------------------------------------------------------------
(* Pop(): ends with Free of the cell pool, or fails *)

PopReserve(t) ==
  /\ At(t, "idle")
  /\ Size' = Size - 1
  /\ Goto(t, IF NothingLeft(Size) THEN "oUndo" ELSE "oTop")
  /\ UNCHANGED <<freeVars, Top, Next, Data, old, nxt, cell, left, val>>

\* A Pop that fails does not take its decrement back.
PopUndo_bug(t) ==
  /\ At(t, "oUndo")
  /\ Goto(t, "idle")
  /\ UNCHANGED <<freeVars, stackVars, old, nxt, cell, left, val>>

PopUndo(t) ==
  /\ At(t, "oUndo")
  /\ Size' = Size + 1
  /\ Goto(t, "idle")
  /\ UNCHANGED <<freeVars, Top, Next, Data, old, nxt, cell, left, val>>

PopReadTop(t) ==
  /\ At(t, "oTop")
  /\ old' = [old EXCEPT ![t] = Top]
  /\ Goto(t, "oNext")
  /\ UNCHANGED <<freeVars, stackVars, nxt, cell, left, val>>

PopReadNext(t) ==
  /\ At(t, "oNext")
  /\ old[t].ptr # Null
  /\ nxt' = [nxt EXCEPT ![t] = Next[old[t].ptr]]
  /\ Goto(t, "oCas")
  /\ UNCHANGED <<freeVars, stackVars, old, cell, left, val>>

\* The cell is the thread's own once it is off the list: its data is read and
\* Free begins with the tag for the list of free cells.
PopCas(t) ==
  /\ At(t, "oCas")
  /\ IF SameTop(Top, old[t])
     THEN /\ Top' = Ptr(nxt[t], GetTagCnt(Top))
          /\ cell' = [cell EXCEPT ![t] = old[t].ptr]
          /\ val' = [val EXCEPT ![t] = Data[old[t].ptr]]
          /\ Goto(t, "fTop")
     ELSE Goto(t, "oTop") /\ UNCHANGED <<Top, cell, val>>
  /\ ForgetTop(t)
  /\ UNCHANGED <<HeadFreeNode, FreeNext, FreeCellCnt, UseCellCnt, made, Next, Data, Size, left>>

PopStep(t) == PopReadTop(t) \/ PopReadNext(t)

-----------------------------------------------------------------------------
(* The list as it stands, and what the operations rely on *)

Stacked == CellsFrom(Top.ptr, Next)

\* The counts of both lists, which are changed apart from them, never promise
\* an item that is not there: whoever was promised one reads a Top that is not
\* null, so that Top->Next can be followed.  At rest the cells in the pool and
\* those in use are all there are, which is when its destructor deletes them.
CountsKeepPromises ==
  /\ FreeCellsCounted
  /\ Size + Cardinality(Standing({"oUndo", "oTop", "oNext", "oCas", "pSize"})) = Len(Stacked)
  /\ \A t \in Standing({"aNext", "oNext"}) : old[t].ptr # Null
  /\ Standing({"idle"}) = Threads => Cardinality(made) = FreeCellCnt + UseCellCnt

CellsOf(s) == {s[k] : k \in 1 .. Len(s)}

\* A cell is in one place, however often it went round: in the list of free
\* cells, in the stack or with one thread; neither list runs into a circle.
CellOnce ==
  LET onFree == CellsOf(FreeCells)  onStack == CellsOf(Stacked)
  IN /\ onFree \cap onStack = {}
     /\ \A t \in Threads : cell[t] # Null =>
          /\ cell[t] \notin onFree \cup onStack
          /\ \A u \in Threads \ {t} : cell[u] # cell[t]
     /\ Cardinality(onFree) = Len(FreeCells) /\ Cardinality(onStack) = Len(Stacked)
     /\ made = onFree \cup onStack \cup ({cell[t] : t \in Threads} \ {Null})
=============================================================================
