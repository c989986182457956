---------------------------- MODULE TLSMemoryPool ----------------------------
(***************************************************************************)
(* TLSMemoryPool: every thread keeps a list of free nodes of its own       *)
(* (TLSNodeMemoryPool) and trades chunks of ChunckSize nodes with the      *)
(* others over one shared stack (TLSChunkMemoryPool).  A thread whose list *)
(* is empty takes a chunk from the stack or makes ChunckSize new nodes; a  *)
(* thread whose list reaches ChunckSize gives the first ChunckSize nodes   *)
(* away.  A node may be freed on another thread than it came from.         *)
(*                                                                         *)
(* This module takes the stack of chunks as it should be: an operation on  *)
(* it is one step.  MemoryPools puts the lock-free stack in its place.     *)
(*                                                                         *)
(* A list is the sequence of nodes that its Next fields run through from   *)
(* its first node, to the null pointer.  A chunk is known by its first     *)
(* node, so it is all that can be reached from it: it has ChunckSize nodes *)
(* only because nothing follows them in the list it is cut from.           *)
(* The sizes that the pools report, which no operation reads, are left     *)
(* out.                                                                    *)
(*                                                                         *)
(* Operators named ..._bug are no part of the model: each is the operator  *)
(* after it with a plausible programming error.                            *)
(***************************************************************************)
EXTENDS PoolThreads

CONSTANTS
  Nodes,        \* bound: the nodes that the heap can give
  ChunckSize

ASSUME NodesAssumption  == IsFiniteSet(Nodes)
ASSUME ChunckAssumption == ChunckSize \in Nat \ {0}

VARIABLES
  list,         \* each thread's list, from its Head on
  FreeNodeCnt,  \* each thread's count of it
  hand,         \* the chunk a thread has taken or is about to give away
  stage,        \* what each thread is doing with a chunk
  chunks,       \* ChunckStack
  used,         \* the nodes that the program has
  unborn,       \* the nodes not made yet
  deleted       \* the nodes that went with their thread

poolVars == <<list, FreeNodeCnt, hand, stage, chunks, used, unborn, deleted>>

PoolInit ==
  /\ list = [t \in Threads |-> <<>>]
  /\ FreeNodeCnt = [t \in Threads |-> 0]
  /\ hand = [t \in Threads |-> <<>>]
  /\ stage = [t \in Threads |-> "idle"]
  /\ chunks = <<>>
  /\ used = {}
  /\ unborn = Nodes
  /\ deleted = {}

NodesIn(s) == {s[i] : i \in 1 .. Len(s)}

\* The first node of the list goes to the program.
TakeFirst(t, s, cnt) ==
  /\ used' = used \cup {Head(s)}
  /\ list' = [list EXCEPT ![t] = Tail(s)]
  /\ FreeNodeCnt' = [FreeNodeCnt EXCEPT ![t] = cnt - 1]

AllocOwn(t) ==
  /\ stage[t] = "idle"
  /\ FreeNodeCnt[t] # 0
  /\ TakeFirst(t, list[t], FreeNodeCnt[t])
  /\ UNCHANGED <<hand, stage, chunks, unborn, deleted>>

AllocNeedsChunck(t) ==
  /\ stage[t] = "idle"
  /\ FreeNodeCnt[t] = 0
  /\ stage' = [stage EXCEPT ![t] = "alloc"]
  /\ UNCHANGED <<list, FreeNodeCnt, hand, chunks, used, unborn, deleted>>

\* ChunckStack.Pop succeeds.
TakeChunck(t) ==
  /\ stage[t] = "alloc"
  /\ chunks # <<>>
  /\ hand' = [hand EXCEPT ![t] = Head(chunks)]
  /\ chunks' = Tail(chunks)
  /\ stage' = [stage EXCEPT ![t] = "taken"]
  /\ UNCHANGED <<list, FreeNodeCnt, used, unborn, deleted>>

\* It may also fail, even beside a chunk that another thread is about to take.
NoChunck(t) ==
  /\ stage[t] = "alloc"
  /\ stage' = [stage EXCEPT ![t] = "none"]
  /\ UNCHANGED <<list, FreeNodeCnt, hand, chunks, used, unborn, deleted>>

UseChunck(t) ==
  /\ stage[t] = "taken"
  /\ TakeFirst(t, hand[t], FreeNodeCnt[t] + ChunckSize)
  /\ hand' = [hand EXCEPT ![t] = <<>>]
  /\ stage' = [stage EXCEPT ![t] = "idle"]
  /\ UNCHANGED <<chunks, unborn, deleted>>

\* Rows of ChunckSize new nodes.
FreshLists == {s \in [1 .. ChunckSize -> unborn] : \A i, j \in 1 .. ChunckSize : s[i] = s[j] => i = j}

\* NewNodeList sets the new nodes before whatever Head pointed to, which was set
\* to the null pointer that AllocChunck returned.
NewNodeList(t, s) ==
  /\ stage[t] = "none"
  /\ TakeFirst(t, s, FreeNodeCnt[t] + ChunckSize)
  /\ unborn' = unborn \ NodesIn(s)
  /\ stage' = [stage EXCEPT ![t] = "idle"]
  /\ UNCHANGED <<hand, chunks, deleted>>

\* The list may grow one longer than a chunk.
Full_bug(cnt) == cnt > ChunckSize
Full(cnt) == cnt >= ChunckSize

\* What Head points to after ChunckSize steps; one step too few.
BehindChunck_bug(s) == SubSeq(s, ChunckSize, Len(s))
BehindChunck(s) == SubSeq(s, ChunckSize + 1, Len(s))

\* The node becomes the first of the list; a full chunk is cut off behind it.
Free(t, n) ==
  LET all == <<n>> \o list[t]
      cnt == FreeNodeCnt[t] + 1
  IN /\ stage[t] = "idle"
     /\ n \in used
     /\ used' = used \ {n}
     /\ IF Full(cnt)
        THEN /\ hand' = [hand EXCEPT ![t] = all]
             /\ list' = [list EXCEPT ![t] = BehindChunck(all)]
             /\ FreeNodeCnt' = [FreeNodeCnt EXCEPT ![t] = cnt - ChunckSize]
             /\ stage' = [stage EXCEPT ![t] = "free"]
        ELSE /\ list' = [list EXCEPT ![t] = all]
             /\ FreeNodeCnt' = [FreeNodeCnt EXCEPT ![t] = cnt]
             /\ UNCHANGED <<hand, stage>>
     /\ UNCHANGED <<chunks, unborn, deleted>>

\* ChunckStack.Push
GiveChunck(t) ==
  /\ stage[t] = "free"
  /\ chunks' = <<hand[t]>> \o chunks
  /\ hand' = [hand EXCEPT ![t] = <<>>]
  /\ stage' = [stage EXCEPT ![t] = "idle"]
  /\ UNCHANGED <<list, FreeNodeCnt, used, unborn, deleted>>

\* The thread ends: the destructor of its pool deletes what follows from Head.
EndThread(t) ==
  /\ stage[t] = "idle"
  /\ deleted' = deleted \cup NodesIn(list[t])
  /\ list' = [list EXCEPT ![t] = <<>>]
  /\ FreeNodeCnt' = [FreeNodeCnt EXCEPT ![t] = 0]
  /\ stage' = [stage EXCEPT ![t] = "ended"]
  /\ UNCHANGED <<hand, chunks, used, unborn>>

PoolStep(t) ==
  \/ AllocOwn(t) \/ AllocNeedsChunck(t) \/ TakeChunck(t) \/ NoChunck(t)
  \/ UseChunck(t) \/ (\E s \in FreshLists : NewNodeList(t, s))
  \/ (\E n \in used : Free(t, n)) \/ GiveChunck(t) \/ EndThread(t)

PoolNext == \E t \in Threads : PoolStep(t)

PoolSpec == PoolInit /\ [][PoolNext]_poolVars

-----------------------------------------------------------------------------
(* Properties *)

Stages == {"idle", "alloc", "taken", "none", "free", "ended"}

\* The fields of the pools have their types; a thread has a chunk in its hand
\* exactly while it takes or gives one.
PoolTypeOK ==
  /\ list \in [Threads -> Seq(Nodes)] /\ hand \in [Threads -> Seq(Nodes)]
  /\ FreeNodeCnt \in [Threads -> Int]
  /\ stage \in [Threads -> Stages]
  /\ chunks \in Seq(Seq(Nodes))
  /\ used \subseteq Nodes /\ unborn \subseteq Nodes /\ deleted \subseteq Nodes
  /\ \A t \in Threads : hand[t] # <<>> <=> stage[t] \in {"taken", "free"}

\* FreeNodeCnt, which Alloc trusts before it follows Head, is the length of the
\* list, and a chunk that changes its thread has exactly the ChunckSize nodes
\* that the thread which takes it adds to its count, with nothing after them.
ListsCounted ==
  /\ \A t \in Threads : Len(list[t]) = FreeNodeCnt[t] /\ FreeNodeCnt[t] < ChunckSize
  /\ \A t \in Threads : hand[t] # <<>> => Len(hand[t]) = ChunckSize
  /\ \A k \in 1 .. Len(chunks) : Len(chunks[k]) = ChunckSize

NoRepeat(s) == \A i, j \in 1 .. Len(s) : s[i] = s[j] => i = j
Apart(s, u) == NodesIn(s) \cap NodesIn(u) = {}
Owned(s) == NodesIn(s) \cap (used \cup unborn \cup deleted) = {}

\* No node is in two places: what the program was given is in no list and in no
\* chunk, no two lists or chunks share a node whichever threads they passed
\* through, and what a thread deletes when it ends nobody else can reach.
NodeOnce ==
  /\ \A t \in Threads :
       /\ NoRepeat(list[t]) /\ NoRepeat(hand[t]) /\ Owned(list[t]) /\ Owned(hand[t])
       /\ Apart(list[t], hand[t])
       /\ \A k \in 1 .. Len(chunks) : Apart(list[t], chunks[k]) /\ Apart(hand[t], chunks[k])
  /\ \A t, u \in Threads :
       t # u => Apart(list[t], list[u]) /\ Apart(list[t], hand[u]) /\ Apart(hand[t], hand[u])
  /\ \A k, l \in 1 .. Len(chunks) : k # l => Apart(chunks[k], chunks[l])
  /\ \A k \in 1 .. Len(chunks) : NoRepeat(chunks[k]) /\ Owned(chunks[k])
  /\ used \cap unborn = {} /\ used \cap deleted = {} /\ unborn \cap deleted = {}
=============================================================================
