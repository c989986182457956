---------------------------- MODULE LockFreeQueue ----------------------------
(***************************************************************************)
(* LockFreeQueue: a linked list with a dummy node at its head.  Enqueue    *)
(* links a node behind the tail and then moves Tail; Dequeue moves Head    *)
(* and gives the former dummy back to the node pool.  A node carries a     *)
(* reference count and a delete flag, so that it is given back by whoever  *)
(* drops its last reference after it was dequeued.                         *)
(*                                                                         *)
(* One action is one access to memory that other threads share.  The pool  *)
(* hands out any node that was given back: nodes change their thread in    *)
(* chunks.  It does not construct a node again, so RefCnt and DeleteFlag   *)
(* stay as they were.  The Next field also carries the tag of the node it  *)
(* points to, which every reader discards: it is a node here.  The bit     *)
(* Flag of a tagged pointer is never initialised; it travels with the tag, *)
(* in comparisons of whole words only, and is left out.                    *)
(*                                                                         *)
(* A local that is not read again is set back to its first value.          *)
(*                                                                         *)
(* Operators named ..._bug are no part of the model: each is the operator  *)
(* after it with a plausible programming error.                            *)
(***************************************************************************)
EXTENDS Integers, FiniteSets

CONSTANTS
  Threads,
  Nodes,       \* bound: nodes the pool has
  Null,
  Enqueues,    \* bound: how often each thread enqueues
  Dequeues,    \* bound: how often each thread dequeues or clears
  Running      \* the threads that do not stop in the middle of an operation

ASSUME NodeAssumption   == IsFiniteSet(Nodes) /\ Nodes # {} /\ Null \notin Nodes
ASSUME BudgetAssumption == Enqueues \in [Threads -> Nat] /\ Dequeues \in [Threads -> Nat]
ASSUME RunningAssumption == Running \subseteq Threads /\ IsFiniteSet(Threads)

VARIABLES
  head, tail,   \* Head and Tail: tagged pointers
  Size,
  TagCnt,
  Next, Data, RefCnt, DeleteFlag,   \* the fields of the nodes
  FreeNodes,    \* the nodes in the pool
  pc,           \* where each thread stands
  old,          \* OldTail of its Enqueue, CurHead of its Dequeue
  cur,          \* CurTail of its Dequeue
  node,         \* NewNode of its Enqueue until that is linked
  nxt,          \* the pointer in its Next
  tag,          \* the tag in its NewNode or Next
  val,          \* tData while Dequeue runs
  taken,        \* the item that its last Dequeue returned
  sent, got     \* operations begun

nodeVars   == <<Next, Data, RefCnt, DeleteFlag, FreeNodes>>
localVars  == <<old, cur, node, nxt, tag, val>>
budgetVars == <<sent, got>>
vars == <<head, tail, Size, TagCnt, nodeVars, pc, localVars, taken, budgetVars>>

NoItem == <<>>
Ptr(p, g) == [ptr |-> p, tag |-> g]
NoPtr == Ptr(Null, 0)

\* The constructor takes a node, whichever, for the dummy; its tag is 0.
Dummy == CHOOSE n \in Nodes : TRUE

Init ==
  /\ head = Ptr(Dummy, 0)
  /\ tail = head
  /\ Size = 0
  /\ TagCnt = 0
  /\ Next = [n \in Nodes |-> Null]
  /\ Data = [n \in Nodes |-> NoItem]
  /\ RefCnt = [n \in Nodes |-> IF n = Dummy THEN 1 ELSE 0]
  /\ DeleteFlag = [n \in Nodes |-> 0]
  /\ FreeNodes = Nodes \ {Dummy}
  /\ pc = [t \in Threads |-> "idle"]
  /\ old = [t \in Threads |-> NoPtr]
  /\ cur = [t \in Threads |-> NoPtr]
  /\ node = [t \in Threads |-> Null]
  /\ nxt = [t \in Threads |-> Null]
  /\ tag = [t \in Threads |-> 0]
  /\ val = [t \in Threads |-> NoItem]
  /\ taken = [t \in Threads |-> NoItem]
  /\ sent = [t \in Threads |-> 0]
  /\ got = [t \in Threads |-> 0]

At(t, l)    == pc[t] = l
Goto(t, l)  == pc' = [pc EXCEPT ![t] = l]
GetTagCnt   == (TagCnt + 1) % 2^16

\* A thread that is done forgets its locals.
Done(t) ==
  /\ Goto(t, "idle")
  /\ old' = [old EXCEPT ![t] = NoPtr]
  /\ cur' = [cur EXCEPT ![t] = NoPtr]
  /\ nxt' = [nxt EXCEPT ![t] = Null]
  /\ tag' = [tag EXCEPT ![t] = 0]
  /\ val' = [val EXCEPT ![t] = NoItem]
  /\ UNCHANGED node

IncrementRef(n) == RefCnt' = [RefCnt EXCEPT ![n] = @ + 1]
DecrementRef(n) == RefCnt' = [RefCnt EXCEPT ![n] = @ - 1]

\* DecrementRef returns 0.
IsLastRef_bug(n) == TRUE
IsLastRef(n) == RefCnt[n] = 1

\* Tail.CAS(new, expected)
TailCas_bug(expected, new) == tail' = new
TailCas(expected, new) == tail' = IF tail = expected THEN new ELSE tail

\* What Size was before its decrement promises no item.
NothingLeft_bug == Size < 0
NothingLeft == Size <= 0

\* Exchange the delete flag for 0; whoever finds it set frees the node.
ExchangeDeleteFlag(n) ==
  /\ DeleteFlag' = [DeleteFlag EXCEPT ![n] = 0]
  /\ FreeNodes' = IF DeleteFlag[n] = 1 THEN FreeNodes \cup {n} ELSE FreeNodes
  /\ UNCHANGED <<Next, Data, RefCnt>>

-----------------------------------------------------------------------------
(* Enqueue(data) *)

\* The node is its thread's own until it is linked: preparing it is one step.
EnqueueAlloc(t) ==
  /\ At(t, "idle")
  /\ sent[t] < Enqueues[t]
  /\ \E n \in FreeNodes :
       /\ FreeNodes' = FreeNodes \ {n}
       /\ Data' = [Data EXCEPT ![n] = <<t, sent[t] + 1>>]
       /\ Next' = [Next EXCEPT ![n] = Null]
       /\ IncrementRef(n)
       /\ node' = [node EXCEPT ![t] = n]
  /\ TagCnt' = GetTagCnt
  /\ tag' = [tag EXCEPT ![t] = GetTagCnt]
  /\ sent' = [sent EXCEPT ![t] = @ + 1]
  /\ Goto(t, "eTail")
  /\ UNCHANGED <<head, tail, Size, DeleteFlag, old, cur, nxt, val, taken, got>>

EnqueueReadTail(t) ==
  /\ At(t, "eTail")
  /\ old' = [old EXCEPT ![t] = tail]
  /\ Goto(t, "eHold")
  /\ UNCHANGED <<head, tail, Size, TagCnt, nodeVars, cur, node, nxt, tag, val, taken, budgetVars>>

EnqueueHold(t) ==
  /\ At(t, "eHold")
  /\ IncrementRef(old[t].ptr)
  /\ Goto(t, "eAgain")
  /\ UNCHANGED <<head, tail, Size, TagCnt, Next, Data, DeleteFlag, FreeNodes, localVars, taken, budgetVars>>

\* Next = Tail->Next reads Tail once more ...
EnqueueReadAgain(t) ==
  /\ At(t, "eAgain")
  /\ nxt' = [nxt EXCEPT ![t] = tail.ptr]
  /\ Goto(t, "eNext")
  /\ UNCHANGED <<head, tail, Size, TagCnt, nodeVars, old, cur, node, tag, val, taken, budgetVars>>

\* ... and then that node's field.
EnqueueReadNext(t) ==
  /\ At(t, "eNext")
  /\ nxt' = [nxt EXCEPT ![t] = Next[@]]
  /\ Goto(t, "eCheck")
  /\ UNCHANGED <<head, tail, Size, TagCnt, nodeVars, old, cur, node, tag, val, taken, budgetVars>>

\* OldTail == Tail compares pointer and tag.
EnqueueCheck(t) ==
  /\ At(t, "eCheck")
  /\ IF old[t] = tail
     THEN Goto(t, IF nxt[t] = Null THEN "eLink" ELSE "eHelp") /\ UNCHANGED nxt
     ELSE Goto(t, "eDrop") /\ nxt' = [nxt EXCEPT ![t] = Null]
  /\ UNCHANGED <<head, tail, Size, TagCnt, nodeVars, old, cur, node, tag, val, taken, budgetVars>>

\* A store in place of the compare-exchange.
EnqueueLink_bug(t) ==
  /\ At(t, "eLink")
  /\ Next' = [Next EXCEPT ![old[t].ptr] = node[t]]
  /\ nxt' = [nxt EXCEPT ![t] = node[t]]
  /\ node' = [node EXCEPT ![t] = Null]
  /\ Goto(t, "eSwing")
  /\ UNCHANGED <<head, tail, Size, TagCnt, Data, RefCnt, DeleteFlag, FreeNodes, old, cur, tag, val, taken, budgetVars>>

\* CAS_Next: the new node is linked if nothing was linked there before.
EnqueueLink(t) ==
  /\ At(t, "eLink")
  /\ IF Next[old[t].ptr] = Null
     THEN /\ Next' = [Next EXCEPT ![old[t].ptr] = node[t]]
          /\ nxt' = [nxt EXCEPT ![t] = node[t]]
          /\ node' = [node EXCEPT ![t] = Null]
          /\ Goto(t, "eSwing")
     ELSE Goto(t, "eDrop") /\ UNCHANGED <<Next, nxt, node>>
  /\ UNCHANGED <<head, tail, Size, TagCnt, Data, RefCnt, DeleteFlag, FreeNodes, old, cur, tag, val, taken, budgetVars>>

EnqueueSwing(t) ==
  /\ At(t, "eSwing")
  /\ TailCas(old[t], Ptr(nxt[t], tag[t]))
  /\ nxt' = [nxt EXCEPT ![t] = Null]
  /\ Goto(t, "eDrop")
  /\ UNCHANGED <<head, Size, TagCnt, nodeVars, old, cur, node, tag, val, taken, budgetVars>>

\* Tail stays behind.
EnqueueHelp_bug(t) ==
  /\ At(t, "eHelp")
  /\ nxt' = [nxt EXCEPT ![t] = Null]
  /\ Goto(t, "eDrop")
  /\ UNCHANGED <<head, tail, Size, TagCnt, nodeVars, old, cur, node, tag, val, taken, budgetVars>>

\* Another thread's node is linked: Tail is moved for it, with tag 0.
EnqueueHelp(t) ==
  /\ At(t, "eHelp")
  /\ TailCas(old[t], Ptr(nxt[t], 0))
  /\ nxt' = [nxt EXCEPT ![t] = Null]
  /\ Goto(t, "eDrop")
  /\ UNCHANGED <<head, Size, TagCnt, nodeVars, old, cur, node, tag, val, taken, budgetVars>>

\* OldTail is let go; the loop ends once the own node is linked.
LetGo(t) ==
  /\ old' = [old EXCEPT ![t] = NoPtr]
  /\ Goto(t, IF node[t] = Null THEN "eSize" ELSE "eTail")

EnqueueDrop(t) ==
  /\ At(t, "eDrop")
  /\ DecrementRef(old[t].ptr)
  /\ IF IsLastRef(old[t].ptr) THEN Goto(t, "eFree") /\ UNCHANGED old ELSE LetGo(t)
  /\ UNCHANGED <<head, tail, Size, TagCnt, Next, Data, DeleteFlag, FreeNodes, cur, node, nxt, tag, val, taken, budgetVars>>

EnqueueFree(t) ==
  /\ At(t, "eFree")
  /\ ExchangeDeleteFlag(old[t].ptr)
  /\ LetGo(t)
  /\ UNCHANGED <<head, tail, Size, TagCnt, cur, node, nxt, tag, val, taken, budgetVars>>

EnqueueSize(t) ==
  /\ At(t, "eSize")
  /\ Size' = Size + 1
  /\ Done(t)
  /\ UNCHANGED <<head, tail, TagCnt, nodeVars, taken, budgetVars>>

-----------------------------------------------------------------------------
(* Dequeue(tData) *)

DequeueReserve(t) ==
  /\ At(t, "idle")
  /\ got[t] < Dequeues[t]
  /\ got' = [got EXCEPT ![t] = @ + 1]
  /\ Size' = Size - 1
  /\ IF NothingLeft
     THEN Goto(t, "dUndo") /\ UNCHANGED <<TagCnt, tag>>
     ELSE /\ TagCnt' = GetTagCnt
          /\ tag' = [tag EXCEPT ![t] = GetTagCnt]
          /\ Goto(t, "dHead")
  /\ UNCHANGED <<head, tail, nodeVars, old, cur, node, nxt, val, taken, sent>>

\* The decrement is not taken back.
DequeueUndo_bug(t) ==
  /\ At(t, "dUndo")
  /\ Done(t)
  /\ UNCHANGED <<head, tail, Size, TagCnt, nodeVars, taken, budgetVars>>

DequeueUndo(t) ==
  /\ At(t, "dUndo")
  /\ Size' = Size + 1
  /\ Done(t)
  /\ UNCHANGED <<head, tail, TagCnt, nodeVars, taken, budgetVars>>

DequeueReadHead(t) ==
  /\ At(t, "dHead")
  /\ old' = [old EXCEPT ![t] = head]
  /\ Goto(t, "dTail")
  /\ UNCHANGED <<head, tail, Size, TagCnt, nodeVars, cur, node, nxt, tag, val, taken, budgetVars>>

DequeueReadTail(t) ==
  /\ At(t, "dTail")
  /\ cur' = [cur EXCEPT ![t] = tail]
  /\ Goto(t, "dNext")
  /\ UNCHANGED <<head, tail, Size, TagCnt, nodeVars, old, node, nxt, tag, val, taken, budgetVars>>

DequeueReadNext(t) ==
  /\ At(t, "dNext")
  /\ nxt' = [nxt EXCEPT ![t] = Next[old[t].ptr]]
  /\ Goto(t, "dCheck")
  /\ UNCHANGED <<head, tail, Size, TagCnt, nodeVars, old, cur, node, tag, val, taken, budgetVars>>

\* The loop starts again with new values for CurHead, CurTail and Next.
Again(t) ==
  /\ Goto(t, "dHead")
  /\ old' = [old EXCEPT ![t] = NoPtr]
  /\ cur' = [cur EXCEPT ![t] = NoPtr]
  /\ nxt' = [nxt EXCEPT ![t] = Null]

\* A Dequeue that finds Head at Tail moves Tail on for the Enqueue that is late
\* with it; the size says that this does not happen (ItemBeforeTail).
DequeueCheck(t) ==
  /\ At(t, "dCheck")
  /\ IF old[t] = head /\ old[t].ptr # cur[t].ptr
     THEN Goto(t, "dData") /\ UNCHANGED <<old, cur, nxt>>
     ELSE Again(t)
  /\ IF old[t] = head /\ old[t].ptr = cur[t].ptr
     THEN TailCas(cur[t], Ptr(nxt[t], tag[t]))
     ELSE UNCHANGED tail
  /\ UNCHANGED <<head, Size, TagCnt, nodeVars, node, tag, val, taken, budgetVars>>

DequeueData(t) ==
  /\ At(t, "dData")
  /\ nxt[t] # Null
  /\ val' = [val EXCEPT ![t] = Data[nxt[t]]]
  /\ Goto(t, "dCas")
  /\ UNCHANGED <<head, tail, Size, TagCnt, nodeVars, old, cur, node, nxt, tag, taken, budgetVars>>

\* The item that was read counts only if Head is still what it was.
DequeueCas(t) ==
  /\ At(t, "dCas")
  /\ val' = [val EXCEPT ![t] = NoItem]
  /\ IF head = old[t]
     THEN /\ head' = Ptr(nxt[t], tag[t])
          /\ taken' = [taken EXCEPT ![t] = val[t]]
          /\ Goto(t, "dFlag")
          /\ UNCHANGED <<old, cur, nxt>>
     ELSE Again(t) /\ UNCHANGED <<head, taken>>
  /\ UNCHANGED <<tail, Size, TagCnt, nodeVars, node, tag, budgetVars>>

DequeueFlag(t) ==
  /\ At(t, "dFlag")
  /\ DeleteFlag' = [DeleteFlag EXCEPT ![old[t].ptr] = 1]
  /\ Goto(t, "dDrop")
  /\ UNCHANGED <<head, tail, Size, TagCnt, Next, Data, RefCnt, FreeNodes, localVars, taken, budgetVars>>

DequeueDrop(t) ==
  /\ At(t, "dDrop")
  /\ DecrementRef(old[t].ptr)
  /\ IF IsLastRef(old[t].ptr) THEN Goto(t, "dFree") /\ UNCHANGED localVars ELSE Done(t)
  /\ UNCHANGED <<head, tail, Size, TagCnt, Next, Data, DeleteFlag, FreeNodes, taken, budgetVars>>

DequeueFree(t) ==
  /\ At(t, "dFree")
  /\ ExchangeDeleteFlag(old[t].ptr)
  /\ Done(t)
  /\ UNCHANGED <<head, tail, Size, TagCnt, taken, budgetVars>>

-----------------------------------------------------------------------------
(* The list as it stands *)

\* Position k behind Head, Null beyond the end.
Chain ==
  LET f[k \in 0 .. Cardinality(Nodes)] ==
        IF k = 0 THEN head.ptr ELSE IF f[k - 1] = Null THEN Null ELSE Next[f[k - 1]]
  IN f

Linked == {k \in 1 .. Cardinality(Nodes) : Chain[k] # Null}
Contents == [k \in 1 .. Cardinality(Linked) |-> Data[Chain[k]]]

\* Clear is not made for use beside other calls: InitSession calls it for a slot
\* that nobody else has.  Size then is the number of nodes behind Head, and Head
\* ends at the last of them, with tag 0.
Clear(t) ==
  /\ \A u \in Threads : At(u, "idle")
  /\ got[t] < Dequeues[t]
  /\ got' = [got EXCEPT ![t] = @ + 1]
  /\ LET dropped == {Chain[k] : k \in 0 .. Size - 1}
     IN /\ head' = IF Size = 0 THEN head ELSE Ptr(Chain[Size], 0)
        /\ RefCnt' = [n \in Nodes |-> IF n \in dropped THEN 0 ELSE RefCnt[n]]
        /\ FreeNodes' = FreeNodes \cup dropped
  /\ Size' = 0
  /\ UNCHANGED <<tail, TagCnt, Next, Data, DeleteFlag, pc, localVars, taken, sent>>

-----------------------------------------------------------------------------
Enqueue(t) ==
  \/ EnqueueAlloc(t) \/ EnqueueReadTail(t) \/ EnqueueHold(t)
  \/ EnqueueReadAgain(t) \/ EnqueueReadNext(t) \/ EnqueueCheck(t) \/ EnqueueLink(t)
  \/ EnqueueSwing(t) \/ EnqueueHelp(t) \/ EnqueueDrop(t) \/ EnqueueFree(t) \/ EnqueueSize(t)

Dequeue(t) ==
  \/ DequeueReserve(t) \/ DequeueUndo(t) \/ DequeueReadHead(t) \/ DequeueReadTail(t)
  \/ DequeueReadNext(t) \/ DequeueCheck(t) \/ DequeueData(t)
  \/ DequeueCas(t) \/ DequeueFlag(t) \/ DequeueDrop(t) \/ DequeueFree(t)

QueueNext == \E t \in Threads : Enqueue(t) \/ Dequeue(t) \/ Clear(t)

\* A running thread goes on with the operation that it is in.
Continues(t) == ~At(t, "idle") /\ (Enqueue(t) \/ Dequeue(t))

Spec == Init /\ [][QueueNext]_vars /\ \A t \in Running : WF_vars(Continues(t))

-----------------------------------------------------------------------------
(* Properties *)

Standing(ls) == {t \in Threads : pc[t] \in ls}

\* Dequeues that took one off Size and have not taken an item for it.
Reserved == Standing({"dUndo", "dHead", "dTail", "dNext", "dCheck", "dData", "dCas"})

\* Enqueues whose item is linked and not yet in Size.
Uncounted == {t \in Threads : node[t] = Null /\ pc[t] \in {"eSwing", "eDrop", "eFree", "eSize"}}

\* Size, which every Dequeue trusts and which is changed apart from the list,
\* never loses count: with the operations under way it gives the items linked.
SizeExact == Size + Cardinality(Reserved) + Cardinality(Uncounted) = Cardinality(Linked)

\* However late a thread is with its compare-exchange of Tail, Tail points to a
\* node that can be reached from Head: it never goes back to one that was taken out.
TailInList == \E k \in 0 .. Cardinality(Nodes) : Chain[k] # Null /\ Chain[k] = tail.ptr

\* "A node that is referenced is not freed": the node to which an Enqueue is about
\* to link its own, having found it to be the tail, is not in the pool.
HeldNodeKept == \A t \in Standing({"eLink", "eHelp", "eSwing"}) : old[t].ptr \notin FreeNodes

\* A Dequeue that holds the current Head finds an item behind it and Tail further
\* on: Next is not null when Next->Data is read, and Tail never needs its help.
ItemBeforeTail ==
  \A t \in Standing({"dCheck"}) : old[t] = head => old[t].ptr # cur[t].ptr /\ nxt[t] # Null

\* What the call that a thread is in has yet to do to the list.
Stage(t) ==
  CASE At(t, "idle")  -> "nothing"
    [] t \in Reserved -> "dequeue"
    [] t \in Uncounted \cup Standing({"dFlag", "dDrop", "dFree"}) -> "return"
    [] OTHER -> "enqueue"

Stages == [t \in Threads |-> Stage(t)]

Fifo == INSTANCE FifoQueue WITH items <- Contents, doing <- Stages, Nothing <- NoItem,
                                Items <- UNION {{t} \X (1 .. Enqueues[t]) : t \in Threads}

\* The list behaves as a queue: linking a node is the enqueue, moving Head is the
\* dequeue, and the thread that moves it returns the item that was first.  Every
\* Enqueue links once before it returns and no Dequeue takes two; only Clear drops
\* the list, when no other call is under way.
ImplementsFifo == Fifo!Spec

\* Nobody waits for a thread that stops: the operations of the running threads
\* end although the others may stop anywhere, also between the two compare-exchanges.
OperationsEnd == \A t \in Running : ~At(t, "idle") ~> At(t, "idle")
=============================================================================
