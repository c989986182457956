--------------------------- MODULE MemoryPoolsProofs ---------------------------
(***************************************************************************)
(* The theorems about the memory pools, for any number of threads, cells   *)
(* and nodes and chunks of any size.  First those about TLSMemoryPool: the *)
(* counts that Alloc trusts are right, and no node is in two places.  What *)
(* they need beside each other is EmptyBesideChunck: a thread that takes a *)
(* chunk or gives one away has an empty list.  So a chunk that is cut off  *)
(* takes the whole list with it, and one that is taken becomes it.         *)
(*                                                                         *)
(* Then those about the pools over the lock-free stack, which implement    *)
(* TLSMemoryPool.                                                          *)
(***************************************************************************)
EXTENDS MemoryPools, FiniteSetTheorems, WellFoundedInduction, TLAPS

-----------------------------------------------------------------------------
(* The thread-local pools *)

\* A thread's list is only in use between the operations that move a chunk.
EmptyBesideChunck == \A t \in Threads : stage[t] # "idle" => FreeNodeCnt[t] = 0

PoolInvariant == PoolTypeOK /\ ListsCounted /\ NodeOnce /\ EmptyBesideChunck

-----------------------------------------------------------------------------
(* Nodes of lists *)

\* A chunk without nodes.
LEMMA EmptyList == NodesIn(<<>>) = {} /\ NoRepeat(<<>>) /\ Len(<<>>) = 0
  BY DEF NodesIn, NoRepeat

\* Alloc: the rest of a list has its nodes but the first.
LEMMA TailList ==
  ASSUME NEW s \in Seq(Nodes), s # <<>>, NoRepeat(s)
  PROVE  /\ Head(s) \in NodesIn(s) /\ Head(s) \in Nodes
         /\ Tail(s) \in Seq(Nodes) /\ Len(Tail(s)) = Len(s) - 1
         /\ NoRepeat(Tail(s))
         /\ NodesIn(Tail(s)) = NodesIn(s) \ {Head(s)}
<1>1. Len(s) \in Nat /\ Len(s) >= 1 /\ Head(s) = s[1] /\ 1 \in 1 .. Len(s)
  OBVIOUS
<1>2. Tail(s) \in Seq(Nodes) /\ Len(Tail(s)) = Len(s) - 1
  OBVIOUS
<1>3. \A i \in 1 .. Len(Tail(s)) : i + 1 \in 1 .. Len(s) /\ i + 1 # 1 /\ Tail(s)[i] = s[i + 1]
  BY <1>1, <1>2
<1>4. \A i \in 1 .. Len(s) : i # 1 => i - 1 \in 1 .. Len(Tail(s)) /\ Tail(s)[i - 1] = s[i]
  BY <1>1, <1>2
<1>5. NoRepeat(Tail(s))
  BY <1>2, <1>3 DEF NoRepeat
<1>6. \A i \in 1 .. Len(s) : i # 1 => s[i] # s[1]
  BY <1>1 DEF NoRepeat
<1>7. NodesIn(Tail(s)) = NodesIn(s) \ {Head(s)}
  BY <1>1, <1>3, <1>4, <1>6 DEF NodesIn
<1> QED BY <1>1, <1>2, <1>5, <1>7 DEF NodesIn

\* Free: the node comes before the list.
LEMMA LongerList ==
  ASSUME NEW s \in Seq(Nodes), NEW n \in Nodes, NoRepeat(s), n \notin NodesIn(s)
  PROVE  /\ <<n>> \o s \in Seq(Nodes) /\ Len(<<n>> \o s) = Len(s) + 1
         /\ NoRepeat(<<n>> \o s)
         /\ NodesIn(<<n>> \o s) = {n} \cup NodesIn(s)
<1> DEFINE all == <<n>> \o s
<1>1. all \in Seq(Nodes) /\ Len(all) = Len(s) + 1 /\ all[1] = n /\ Len(s) \in Nat
  OBVIOUS
<1>2. \A i \in 1 .. Len(s) : i + 1 \in 1 .. Len(all) /\ all[i + 1] = s[i]
  OBVIOUS
<1>3. \A i \in 1 .. Len(all) : i # 1 => i - 1 \in 1 .. Len(s) /\ all[i] = s[i - 1]
  OBVIOUS
<1>4. \A i \in 1 .. Len(all) : i # 1 => all[i] # n
  BY <1>3 DEF NodesIn
<1> HIDE DEF all
<1>5. NodesIn(all) = {n} \cup NodesIn(s)
  BY <1>1, <1>2, <1>3 DEF NodesIn
<1>6. NoRepeat(all)
  <2> SUFFICES ASSUME NEW i \in 1 .. Len(all), NEW j \in 1 .. Len(all), all[i] = all[j] PROVE i = j
    BY DEF NoRepeat
  <2>1. CASE i = 1 \/ j = 1
    BY <1>1, <1>4, <2>1
  <2>2. CASE i # 1 /\ j # 1
    <3>1. i - 1 = j - 1
      BY <1>3, <2>2 DEF NoRepeat
    <3> QED BY <3>1
  <2> QED BY <2>1, <2>2
<1> QED BY <1>1, <1>5, <1>6 DEF all

\* Nothing is behind a chunk that is all there is.
LEMMA NothingBehind ==
  ASSUME NEW s \in Seq(Nodes), Len(s) = ChunckSize
  PROVE  BehindChunck(s) = <<>>
  BY ChunckAssumption DEF BehindChunck

\* New nodes.
LEMMA FreshList ==
  ASSUME unborn \subseteq Nodes, NEW s \in FreshLists
  PROVE  /\ s \in Seq(Nodes) /\ Len(s) = ChunckSize
         /\ NoRepeat(s) /\ NodesIn(s) \subseteq unborn
  BY ChunckAssumption DEF FreshLists, NoRepeat, NodesIn

-----------------------------------------------------------------------------
(* Steps *)

\* The first node of a list s that has cnt nodes becomes the program's.
LEMMA TakenFirst ==
  ASSUME PoolTypeOK, NEW t \in Threads, NEW s \in Seq(Nodes), NEW cnt \in Int,
         s # <<>>, NoRepeat(s), Len(s) = cnt, TakeFirst(t, s, cnt)
  PROVE  /\ list' = [list EXCEPT ![t] = Tail(s)]
         /\ Head(s) \in Nodes /\ Head(s) \in NodesIn(s) /\ used' = used \cup {Head(s)}
         /\ list' \in [Threads -> Seq(Nodes)] /\ FreeNodeCnt' \in [Threads -> Int]
         /\ Len(list'[t]) = cnt - 1 /\ FreeNodeCnt'[t] = cnt - 1
         /\ NoRepeat(list'[t])
         /\ NodesIn(list'[t]) = NodesIn(s) \ {Head(s)}
         /\ \A u \in Threads : u # t => list'[u] = list[u] /\ FreeNodeCnt'[u] = FreeNodeCnt[u]
  BY TailList DEF TakeFirst, PoolTypeOK

\* What a thread can reach, and what it may exchange that for without the others.
Reach(t) == NodesIn(list[t]) \cup NodesIn(hand[t]) \cup used \cup unborn \cup deleted

\* A thread that moves nodes about within its reach, none into two places.
LEMMA MovedWithin ==
  ASSUME NodeOnce, NEW t \in Threads, chunks' = chunks,
         \A u \in Threads : u # t => list'[u] = list[u] /\ hand'[u] = hand[u],
         Reach(t)' \subseteq Reach(t),
         NoRepeat(list'[t]), NoRepeat(hand'[t]), Apart(list'[t], hand'[t]),
         Owned(list[t])', Owned(hand[t])',
         used' \cap unborn' = {}, used' \cap deleted' = {}, unborn' \cap deleted' = {}
  PROVE  NodeOnce'
<1>1. ASSUME NEW u \in Threads, u # t
      PROVE  /\ NodesIn(list[u]) \cap Reach(t) = {} /\ NodesIn(hand[u]) \cap Reach(t) = {}
             /\ NodesIn(list[u]) \cap Reach(t)' = {} /\ NodesIn(hand[u]) \cap Reach(t)' = {}
  <2>1. /\ Apart(list[t], list[u]) /\ Apart(list[t], hand[u]) /\ Apart(list[u], hand[t]) /\ Apart(hand[t], hand[u])
        /\ Owned(list[u]) /\ Owned(hand[u])
    BY <1>1 DEF NodeOnce
  <2>2. NodesIn(list[u]) \cap Reach(t) = {} /\ NodesIn(hand[u]) \cap Reach(t) = {}
    BY ONLY <2>1 DEF Apart, Owned, Reach
  <2> QED BY <2>2
<1>2. ASSUME NEW k \in 1 .. Len(chunks)
      PROVE  NodesIn(chunks[k]) \cap Reach(t) = {} /\ NodesIn(chunks[k]) \cap Reach(t)' = {}
  <2>1. Apart(list[t], chunks[k]) /\ Apart(hand[t], chunks[k]) /\ Owned(chunks[k])
    BY <1>2 DEF NodeOnce
  <2>2. NodesIn(chunks[k]) \cap Reach(t) = {}
    BY ONLY <2>1 DEF Apart, Owned, Reach
  <2> QED BY <2>2
<1>3. /\ NodesIn(list'[t]) \subseteq Reach(t)' /\ NodesIn(hand'[t]) \subseteq Reach(t)'
      /\ used' \cup unborn' \cup deleted' \subseteq Reach(t)'
  BY DEF Reach
<1> DEFINE R == Reach(t)'
<1> HIDE DEF R
<1>4. ASSUME NEW u \in Threads
      PROVE  /\ NoRepeat(list'[u]) /\ NoRepeat(hand'[u]) /\ Apart(list'[u], hand'[u])
             /\ Owned(list[u])' /\ Owned(hand[u])'
  <2>1. CASE u = t
    BY <2>1
  <2>2. CASE u # t
    <3>1. NodesIn(list[u]) \cap R = {} /\ NodesIn(hand[u]) \cap R = {}
      BY <1>1, <2>2 DEF R
    <3>2. Owned(list[u])' /\ Owned(hand[u])'
      BY <1>3, <2>2, <3>1 DEF Owned, R
    <3> QED BY <2>2, <3>2 DEF NodeOnce
  <2> QED BY <2>1, <2>2
<1>5. ASSUME NEW u \in Threads, NEW k \in 1 .. Len(chunks)
      PROVE  Apart(list'[u], chunks[k]) /\ Apart(hand'[u], chunks[k])
  <2>1. CASE u = t
    BY <1>2, <1>3, <2>1 DEF Apart
  <2>2. CASE u # t
    BY <2>2 DEF NodeOnce
  <2> QED BY <2>1, <2>2
<1>6. ASSUME NEW u \in Threads, NEW v \in Threads, u # v
      PROVE  Apart(list'[u], list'[v]) /\ Apart(list'[u], hand'[v]) /\ Apart(hand'[u], hand'[v])
  <2>1. CASE u = t
    BY <1>1, <1>3, <1>6, <2>1 DEF Apart
  <2>2. CASE v = t
    BY <1>1, <1>3, <1>6, <2>2 DEF Apart
  <2>3. CASE u # t /\ v # t
    BY <1>6, <2>3 DEF NodeOnce
  <2> QED BY <2>1, <2>2, <2>3
<1>7. ASSUME NEW k \in 1 .. Len(chunks) PROVE NoRepeat(chunks[k]) /\ Owned(chunks[k])'
  BY <1>2, <1>3 DEF NodeOnce, Owned
<1>8. \A k, l \in 1 .. Len(chunks) : k # l => Apart(chunks[k], chunks[l])
  BY DEF NodeOnce
<1> QED BY <1>4, <1>5, <1>6, <1>7, <1>8 DEF NodeOnce

\* One thread's part of the pool changes and keeps its type.
LEMMA TypesKept ==
  ASSUME PoolTypeOK, NEW t \in Threads,
         list' \in [Threads -> Seq(Nodes)], hand' \in [Threads -> Seq(Nodes)],
         FreeNodeCnt' \in [Threads -> Int], stage' \in [Threads -> Stages],
         chunks' \in Seq(Seq(Nodes)),
         used' \subseteq Nodes, unborn' \subseteq Nodes, deleted' \subseteq Nodes,
         \A u \in Threads : u # t => hand'[u] = hand[u] /\ stage'[u] = stage[u],
         hand'[t] # <<>> <=> stage'[t] \in {"taken", "free"}
  PROVE  PoolTypeOK'
  BY DEF PoolTypeOK

\* One thread's part of the pool changes and is counted right.
LEMMA CountsKept ==
  ASSUME ListsCounted, NEW t \in Threads,
         \A u \in Threads : u # t => /\ list'[u] = list[u] /\ FreeNodeCnt'[u] = FreeNodeCnt[u]
                                     /\ hand'[u] = hand[u],
         Len(list'[t]) = FreeNodeCnt'[t], FreeNodeCnt'[t] < ChunckSize,
         hand'[t] # <<>> => Len(hand'[t]) = ChunckSize,
         \A k \in 1 .. Len(chunks') : Len(chunks'[k]) = ChunckSize
  PROVE  ListsCounted'
  BY DEF ListsCounted

\* An Alloc from the thread's own chunk.
LEMMA AllocOwnKeeps ==
  ASSUME PoolInvariant, NEW t \in Threads, AllocOwn(t)
  PROVE  PoolInvariant'
<1> DEFINE n == Head(list[t])
<1>1. list[t] \in Seq(Nodes) /\ Len(list[t]) = FreeNodeCnt[t] /\ list[t] # <<>> /\ NoRepeat(list[t])
  BY EmptyList DEF PoolInvariant, PoolTypeOK, ListsCounted, NodeOnce, AllocOwn
<1>2. /\ n \in Nodes /\ n \in NodesIn(list[t]) /\ used' = used \cup {n}
      /\ list' \in [Threads -> Seq(Nodes)] /\ FreeNodeCnt' \in [Threads -> Int]
      /\ Len(list'[t]) = FreeNodeCnt[t] - 1 /\ FreeNodeCnt'[t] = FreeNodeCnt[t] - 1
      /\ NoRepeat(list'[t])
      /\ NodesIn(list'[t]) = NodesIn(list[t]) \ {n}
      /\ \A u \in Threads : u # t => list'[u] = list[u] /\ FreeNodeCnt'[u] = FreeNodeCnt[u]
  BY <1>1, TakenFirst DEF AllocOwn, PoolInvariant, PoolTypeOK
<1>3. UNCHANGED <<hand, stage, chunks, unborn, deleted>> /\ stage[t] = "idle"
  BY DEF AllocOwn
<1> HIDE DEF n
<1>4. PoolTypeOK'
  <2>1. /\ hand \in [Threads -> Seq(Nodes)] /\ stage \in [Threads -> Stages] /\ chunks \in Seq(Seq(Nodes))
        /\ used \subseteq Nodes /\ unborn \subseteq Nodes /\ deleted \subseteq Nodes
        /\ hand[t] # <<>> <=> stage[t] \in {"taken", "free"}
    BY DEF PoolInvariant, PoolTypeOK
  <2> QED BY <1>2, <1>3, <2>1, TypesKept DEF PoolInvariant
<1>5. ListsCounted'
  <2>1. /\ ListsCounted /\ FreeNodeCnt[t] < ChunckSize /\ FreeNodeCnt[t] \in Int
        /\ hand[t] # <<>> => Len(hand[t]) = ChunckSize
        /\ \A k \in 1 .. Len(chunks) : Len(chunks[k]) = ChunckSize
    BY DEF PoolInvariant, PoolTypeOK, ListsCounted
  <2>2. FreeNodeCnt[t] - 1 < ChunckSize
    BY <2>1, ChunckAssumption
  <2> QED BY <1>2, <1>3, <2>1, <2>2, CountsKept
<1>6. NodeOnce'
  <2>1. /\ NodeOnce /\ NoRepeat(hand[t]) /\ Apart(list[t], hand[t]) /\ Owned(list[t]) /\ Owned(hand[t])
        /\ used \cap unborn = {} /\ used \cap deleted = {} /\ unborn \cap deleted = {}
    BY DEF PoolInvariant, NodeOnce
  <2>2. Reach(t)' \subseteq Reach(t)
    BY <1>2, <1>3 DEF Reach
  <2>3. Apart(list'[t], hand'[t]) /\ Owned(list[t])' /\ Owned(hand[t])'
    BY <1>2, <1>3, <2>1 DEF Apart, Owned
  <2>4. used' \cap unborn' = {} /\ used' \cap deleted' = {}
    BY <1>2, <1>3, <2>1 DEF Owned
  <2> QED BY <1>2, <1>3, <2>1, <2>2, <2>3, <2>4, MovedWithin
<1>7. EmptyBesideChunck'
  BY <1>2, <1>3 DEF PoolInvariant, EmptyBesideChunck
<1> QED BY <1>4, <1>5, <1>6, <1>7 DEF PoolInvariant

\* An Alloc that finds the own chunk empty asks for another.
LEMMA AllocNeedsChunckKeeps ==
  ASSUME PoolInvariant, NEW t \in Threads, AllocNeedsChunck(t) \/ NoChunck(t)
  PROVE  PoolInvariant'
<1>1. /\ UNCHANGED <<list, FreeNodeCnt, hand, chunks, used, unborn, deleted>>
      /\ stage' \in [Threads -> Stages] /\ FreeNodeCnt[t] = 0
      /\ stage[t] \in {"idle", "alloc"} /\ stage'[t] \in {"alloc", "none"}
      /\ \A u \in Threads : u # t => stage'[u] = stage[u]
  BY DEF AllocNeedsChunck, NoChunck, PoolInvariant, PoolTypeOK, EmptyBesideChunck, Stages
<1>2. PoolTypeOK'
  BY <1>1 DEF PoolInvariant, PoolTypeOK
<1>3. ListsCounted' /\ NodeOnce'
  BY <1>1 DEF PoolInvariant, ListsCounted, NodeOnce, Owned
<1>4. EmptyBesideChunck'
  BY <1>1 DEF PoolInvariant, EmptyBesideChunck
<1> QED BY <1>2, <1>3, <1>4 DEF PoolInvariant

\* A chunk is taken off the shared stack.
LEMMA TakeChunckKeeps ==
  ASSUME PoolInvariant, NEW t \in Threads, TakeChunck(t)
  PROVE  PoolInvariant'
<1>1. /\ chunks \in Seq(Seq(Nodes)) /\ chunks # <<>> /\ stage[t] = "alloc"
      /\ hand \in [Threads -> Seq(Nodes)] /\ stage \in [Threads -> Stages]
  BY DEF PoolInvariant, PoolTypeOK, TakeChunck
<1>2. /\ 1 \in 1 .. Len(chunks) /\ Head(chunks) = chunks[1] /\ chunks[1] \in Seq(Nodes)
      /\ Tail(chunks) \in Seq(Seq(Nodes))
      /\ \A k \in 1 .. Len(Tail(chunks)) :
           k + 1 \in 1 .. Len(chunks) /\ k + 1 # 1 /\ Tail(chunks)[k] = chunks[k + 1]
  BY <1>1
<1>3. /\ UNCHANGED <<list, FreeNodeCnt, used, unborn, deleted>>
      /\ hand'[t] = chunks[1] /\ stage'[t] = "taken" /\ chunks' = Tail(chunks)
      /\ hand' \in [Threads -> Seq(Nodes)] /\ stage' \in [Threads -> Stages]
      /\ \A u \in Threads : u # t => hand'[u] = hand[u] /\ stage'[u] = stage[u]
  BY <1>1, <1>2 DEF TakeChunck, Stages
<1>4. Len(chunks[1]) = ChunckSize /\ chunks[1] # <<>>
  BY <1>2, ChunckAssumption DEF PoolInvariant, ListsCounted
<1>5. PoolTypeOK'
  <2>1. /\ list \in [Threads -> Seq(Nodes)] /\ FreeNodeCnt \in [Threads -> Int]
        /\ used \subseteq Nodes /\ unborn \subseteq Nodes /\ deleted \subseteq Nodes
    BY DEF PoolInvariant, PoolTypeOK
  <2> QED BY <1>2, <1>3, <1>4, <2>1, TypesKept DEF PoolInvariant
<1>6. ListsCounted'
  <2>1. /\ ListsCounted /\ Len(list[t]) = FreeNodeCnt[t] /\ FreeNodeCnt[t] < ChunckSize
        /\ \A k \in 1 .. Len(chunks) : Len(chunks[k]) = ChunckSize
    BY DEF PoolInvariant, ListsCounted
  <2> QED BY <1>2, <1>3, <1>4, <2>1, CountsKept
<1>7. NodeOnce'
  <2>1. \A k \in 1 .. Len(chunks') : \E m \in 1 .. Len(chunks) : m = k + 1 /\ m # 1 /\ chunks'[k] = chunks[m]
    BY <1>2, <1>3
  <2>2. ASSUME NEW k \in 1 .. Len(chunks'), NEW l \in 1 .. Len(chunks'), k # l PROVE k + 1 # l + 1
    BY <2>2
  <2>3. \A k, l \in 1 .. Len(chunks') : k # l => Apart(chunks'[k], chunks'[l])
    BY <2>1, <2>2 DEF PoolInvariant, NodeOnce
  <2>4. /\ \A k \in 1 .. Len(chunks') : NoRepeat(chunks'[k]) /\ Owned(chunks'[k]) /\ Apart(chunks[1], chunks'[k])
        /\ \A u \in Threads : \A k \in 1 .. Len(chunks') : Apart(list[u], chunks'[k]) /\ Apart(hand[u], chunks'[k])
    BY <1>2, <2>1 DEF PoolInvariant, NodeOnce
  <2>5. /\ NoRepeat(chunks[1]) /\ Owned(chunks[1])
        /\ \A u \in Threads : Apart(list[u], chunks[1]) /\ Apart(hand[u], chunks[1])
    BY <1>2 DEF PoolInvariant, NodeOnce
  <2>6. \A u \in Threads : Owned(list[u])' /\ Owned(hand[u])'
    <3>1. ASSUME NEW u \in Threads
          PROVE  Owned(list[u]) /\ Owned(hand[u]) /\ (hand'[u] = hand[u] \/ hand'[u] = chunks[1])
      BY <1>3 DEF PoolInvariant, NodeOnce
    <3> QED BY <1>3, <2>5, <3>1 DEF Owned
  <2>7. \A k \in 1 .. Len(chunks') : Owned(chunks[k])'
    BY <1>3, <2>4 DEF Owned
  <2>8. ASSUME NEW u \in Threads
        PROVE  /\ NoRepeat(list'[u]) /\ NoRepeat(hand'[u]) /\ Apart(list'[u], hand'[u])
               /\ \A k \in 1 .. Len(chunks') : Apart(list'[u], chunks'[k]) /\ Apart(hand'[u], chunks'[k])
    <3>1. CASE u = t
      BY <1>3, <2>4, <2>5, <3>1 DEF PoolInvariant, NodeOnce
    <3>2. CASE u # t
      BY <1>3, <2>4, <3>2 DEF PoolInvariant, NodeOnce
    <3> QED BY <3>1, <3>2
  <2>9. ASSUME NEW u \in Threads, NEW v \in Threads, u # v
        PROVE  Apart(list'[u], list'[v]) /\ Apart(list'[u], hand'[v]) /\ Apart(hand'[u], hand'[v])
    <3>1. Apart(list[u], list[v]) /\ Apart(list[u], hand[v]) /\ Apart(hand[u], hand[v])
      BY <2>9 DEF PoolInvariant, NodeOnce
    <3>2. Apart(chunks[1], hand[v]) /\ Apart(hand[u], chunks[1]) /\ Apart(list[u], chunks[1])
      BY <2>5 DEF Apart
    <3>3. CASE u = t
      BY <1>3, <2>9, <3>1, <3>2, <3>3
    <3>4. CASE v = t
      BY <1>3, <2>9, <3>1, <3>2, <3>4
    <3>5. CASE u # t /\ v # t
      BY <1>3, <3>1, <3>5
    <3> QED BY <3>3, <3>4, <3>5
  <2> QED BY <1>3, <2>3, <2>4, <2>6, <2>7, <2>8, <2>9 DEF PoolInvariant, NodeOnce
<1>8. EmptyBesideChunck'
  BY <1>1, <1>3 DEF PoolInvariant, EmptyBesideChunck
<1> QED BY <1>5, <1>6, <1>7, <1>8 DEF PoolInvariant

\* The chunk taken becomes the thread's own.
LEMMA UseChunckKeeps ==
  ASSUME PoolInvariant, NEW t \in Threads, UseChunck(t)
  PROVE  PoolInvariant'
<1> DEFINE n == Head(hand[t])
<1>1. /\ stage[t] = "taken" /\ FreeNodeCnt[t] = 0 /\ NodesIn(list[t]) = {}
      /\ hand \in [Threads -> Seq(Nodes)] /\ stage \in [Threads -> Stages]
      /\ hand[t] \in Seq(Nodes) /\ hand[t] # <<>> /\ NoRepeat(hand[t]) /\ Len(hand[t]) = 0 + ChunckSize
  <2>1. FreeNodeCnt[t] = 0 /\ list[t] \in Seq(Nodes) /\ Len(list[t]) = 0
    BY DEF PoolInvariant, PoolTypeOK, ListsCounted, EmptyBesideChunck, UseChunck
  <2>2. list[t] = <<>>
    BY <2>1
  <2> QED BY <2>1, <2>2, EmptyList, ChunckAssumption
         DEF PoolInvariant, PoolTypeOK, ListsCounted, NodeOnce, UseChunck
<1>2. /\ n \in Nodes /\ n \in NodesIn(hand[t]) /\ used' = used \cup {n}
      /\ list' \in [Threads -> Seq(Nodes)] /\ FreeNodeCnt' \in [Threads -> Int]
      /\ Len(list'[t]) = ChunckSize - 1 /\ FreeNodeCnt'[t] = ChunckSize - 1
      /\ NoRepeat(list'[t])
      /\ NodesIn(list'[t]) = NodesIn(hand[t]) \ {n}
      /\ \A u \in Threads : u # t => list'[u] = list[u] /\ FreeNodeCnt'[u] = FreeNodeCnt[u]
  <2>1. TakeFirst(t, hand[t], 0 + ChunckSize) /\ 0 + ChunckSize = ChunckSize /\ ChunckSize \in Int
    BY <1>1, ChunckAssumption DEF UseChunck
  <2> QED BY <1>1, <2>1, TakenFirst DEF PoolInvariant
<1>3. /\ UNCHANGED <<chunks, unborn, deleted>>
      /\ hand'[t] = <<>> /\ NodesIn(hand'[t]) = {} /\ NoRepeat(hand'[t]) /\ stage'[t] = "idle"
      /\ hand' \in [Threads -> Seq(Nodes)] /\ stage' \in [Threads -> Stages]
      /\ \A u \in Threads : u # t => hand'[u] = hand[u] /\ stage'[u] = stage[u]
  BY <1>1, EmptyList DEF UseChunck, Stages
<1> HIDE DEF n
<1>4. PoolTypeOK'
  <2>1. /\ chunks \in Seq(Seq(Nodes))
        /\ used \subseteq Nodes /\ unborn \subseteq Nodes /\ deleted \subseteq Nodes
    BY DEF PoolInvariant, PoolTypeOK
  <2> QED BY <1>2, <1>3, <2>1, TypesKept DEF PoolInvariant
<1>5. ListsCounted'
  <2>1. /\ ListsCounted /\ ChunckSize - 1 < ChunckSize
        /\ hand[t] # <<>> => Len(hand[t]) = ChunckSize
        /\ \A k \in 1 .. Len(chunks) : Len(chunks[k]) = ChunckSize
    BY ChunckAssumption DEF PoolInvariant, ListsCounted
  <2> QED BY <1>2, <1>3, <2>1, CountsKept
<1>6. NodeOnce'
  <2>1. /\ NodeOnce /\ Owned(hand[t])
        /\ used \cap unborn = {} /\ used \cap deleted = {} /\ unborn \cap deleted = {}
    BY DEF PoolInvariant, NodeOnce
  <2>2. Reach(t)' \subseteq Reach(t)
    BY <1>2, <1>3 DEF Reach
  <2>3. Apart(list'[t], hand'[t]) /\ Owned(list[t])' /\ Owned(hand[t])'
    BY <1>2, <1>3, <2>1 DEF Apart, Owned
  <2>4. used' \cap unborn' = {} /\ used' \cap deleted' = {}
    BY <1>2, <1>3, <2>1 DEF Owned
  <2> QED BY <1>2, <1>3, <2>1, <2>2, <2>3, <2>4, MovedWithin
<1>7. EmptyBesideChunck'
  BY <1>2, <1>3 DEF PoolInvariant, EmptyBesideChunck
<1> QED BY <1>4, <1>5, <1>6, <1>7 DEF PoolInvariant

\* New nodes are made when the shared stack has no chunk.
LEMMA NewNodeListKeeps ==
  ASSUME PoolInvariant, NEW t \in Threads, NEW s \in FreshLists, NewNodeList(t, s)
  PROVE  PoolInvariant'
<1> DEFINE n == Head(s)
<1>1. /\ stage[t] = "none" /\ FreeNodeCnt[t] = 0 /\ NodesIn(list[t]) = {} /\ hand[t] = <<>>
      /\ stage \in [Threads -> Stages]
      /\ s \in Seq(Nodes) /\ s # <<>> /\ NoRepeat(s) /\ Len(s) = 0 + ChunckSize /\ NodesIn(s) \subseteq unborn
  <2>1. /\ FreeNodeCnt[t] = 0 /\ list[t] \in Seq(Nodes) /\ Len(list[t]) = 0
        /\ stage[t] = "none" /\ hand[t] = <<>> /\ stage \in [Threads -> Stages] /\ unborn \subseteq Nodes
    BY DEF PoolInvariant, PoolTypeOK, ListsCounted, EmptyBesideChunck, NewNodeList
  <2>2. list[t] = <<>>
    BY <2>1
  <2> QED BY <2>1, <2>2, EmptyList, FreshList, ChunckAssumption
<1>2. /\ n \in Nodes /\ n \in NodesIn(s) /\ used' = used \cup {n}
      /\ list' \in [Threads -> Seq(Nodes)] /\ FreeNodeCnt' \in [Threads -> Int]
      /\ Len(list'[t]) = ChunckSize - 1 /\ FreeNodeCnt'[t] = ChunckSize - 1
      /\ NoRepeat(list'[t])
      /\ NodesIn(list'[t]) = NodesIn(s) \ {n}
      /\ \A u \in Threads : u # t => list'[u] = list[u] /\ FreeNodeCnt'[u] = FreeNodeCnt[u]
  <2>1. TakeFirst(t, s, 0 + ChunckSize) /\ 0 + ChunckSize = ChunckSize /\ ChunckSize \in Int
    BY <1>1, ChunckAssumption DEF NewNodeList
  <2> QED BY <1>1, <2>1, TakenFirst DEF PoolInvariant
<1>3. /\ UNCHANGED <<hand, chunks, deleted>> /\ unborn' = unborn \ NodesIn(s)
      /\ stage'[t] = "idle" /\ stage' \in [Threads -> Stages]
      /\ \A u \in Threads : u # t => stage'[u] = stage[u]
  BY <1>1 DEF NewNodeList, Stages
<1> HIDE DEF n
<1>4. PoolTypeOK'
  <2>1. /\ chunks \in Seq(Seq(Nodes)) /\ hand \in [Threads -> Seq(Nodes)]
        /\ used \subseteq Nodes /\ unborn \subseteq Nodes /\ deleted \subseteq Nodes
    BY DEF PoolInvariant, PoolTypeOK
  <2> QED BY <1>1, <1>2, <1>3, <2>1, TypesKept DEF PoolInvariant
<1>5. ListsCounted'
  <2>1. /\ ListsCounted /\ ChunckSize - 1 < ChunckSize
        /\ hand[t] # <<>> => Len(hand[t]) = ChunckSize
        /\ \A k \in 1 .. Len(chunks) : Len(chunks[k]) = ChunckSize
    BY ChunckAssumption DEF PoolInvariant, ListsCounted
  <2> QED BY <1>2, <1>3, <2>1, CountsKept
<1>6. NodeOnce'
  <2>1. /\ NodeOnce /\ NodesIn(hand[t]) = {} /\ NoRepeat(hand[t])
        /\ used \cap unborn = {} /\ used \cap deleted = {} /\ unborn \cap deleted = {}
    BY <1>1, EmptyList DEF PoolInvariant, NodeOnce
  <2>2. Reach(t)' \subseteq Reach(t)
    BY <1>1, <1>2, <1>3 DEF Reach
  <2>3. Apart(list'[t], hand'[t]) /\ Owned(list[t])' /\ Owned(hand[t])'
    BY <1>1, <1>2, <1>3, <2>1 DEF Apart, Owned
  <2>4. used' \cap unborn' = {} /\ used' \cap deleted' = {} /\ unborn' \cap deleted' = {}
    BY <1>1, <1>2, <1>3, <2>1
  <2> QED BY <1>2, <1>3, <2>1, <2>2, <2>3, <2>4, MovedWithin
<1>7. EmptyBesideChunck'
  BY <1>2, <1>3 DEF PoolInvariant, EmptyBesideChunck
<1> QED BY <1>4, <1>5, <1>6, <1>7 DEF PoolInvariant

\* The node to be freed may complete a chunk, which leaves nothing in the list.
LEMMA FreeKeeps ==
  ASSUME PoolInvariant, NEW t \in Threads, NEW n \in used, Free(t, n)
  PROVE  PoolInvariant'
<1> DEFINE all == <<n>> \o list[t]
<1> DEFINE cnt == FreeNodeCnt[t] + 1
<1>1. /\ stage[t] = "idle" /\ hand[t] = <<>>
      /\ list \in [Threads -> Seq(Nodes)] /\ hand \in [Threads -> Seq(Nodes)]
      /\ FreeNodeCnt \in [Threads -> Int] /\ stage \in [Threads -> Stages]
      /\ chunks \in Seq(Seq(Nodes)) /\ used \subseteq Nodes /\ unborn \subseteq Nodes /\ deleted \subseteq Nodes
      /\ list[t] \in Seq(Nodes) /\ FreeNodeCnt[t] \in Int /\ n \in Nodes
  BY DEF PoolInvariant, PoolTypeOK, Free
<1>2. /\ ListsCounted /\ Len(list[t]) = FreeNodeCnt[t] /\ FreeNodeCnt[t] < ChunckSize
      /\ \A k \in 1 .. Len(chunks) : Len(chunks[k]) = ChunckSize
  BY DEF PoolInvariant, ListsCounted
<1>3. /\ NodeOnce /\ NoRepeat(list[t]) /\ Owned(list[t])
      /\ used \cap unborn = {} /\ used \cap deleted = {} /\ unborn \cap deleted = {}
  BY DEF PoolInvariant, NodeOnce
<1>4. /\ all \in Seq(Nodes) /\ Len(all) = cnt /\ NoRepeat(all)
      /\ NodesIn(all) = {n} \cup NodesIn(list[t])
  <2>1. n \notin NodesIn(list[t])
    BY <1>3 DEF Owned
  <2> QED BY <1>1, <1>2, <1>3, <2>1, LongerList
<1>5. cnt <= ChunckSize /\ (Full(cnt) => cnt = ChunckSize) /\ (~Full(cnt) => cnt < ChunckSize)
  <2>1. cnt \in Int /\ ChunckSize \in Int /\ cnt < ChunckSize + 1
    BY <1>1, <1>2, ChunckAssumption
  <2> QED BY ONLY <2>1 DEF Full
<1>6. used' = used \ {n} /\ UNCHANGED <<chunks, unborn, deleted>>
  BY DEF Free
<1>7. CASE Full(cnt)
  <2>1. /\ hand' = [hand EXCEPT ![t] = all] /\ list' = [list EXCEPT ![t] = BehindChunck(all)]
        /\ FreeNodeCnt' = [FreeNodeCnt EXCEPT ![t] = cnt - ChunckSize]
        /\ stage' = [stage EXCEPT ![t] = "free"]
    BY <1>7 DEF Free
  <2> HIDE DEF all
  <2>2. BehindChunck(all) = <<>> /\ all # <<>> /\ cnt - ChunckSize = 0 /\ <<>> \in Seq(Nodes)
    <3>1. Len(all) = ChunckSize
      BY <1>4, <1>5, <1>7
    <3>2. cnt - ChunckSize = 0
      BY <1>5, <1>7, ChunckAssumption
    <3>3. all # <<>>
      BY <3>1, EmptyList, ChunckAssumption
    <3> QED BY <1>4, <3>1, <3>2, <3>3, NothingBehind
  <2> HIDE DEF cnt
  <2>3. /\ hand'[t] = all /\ list'[t] = <<>> /\ FreeNodeCnt'[t] = 0 /\ stage'[t] = "free"
        /\ hand' \in [Threads -> Seq(Nodes)] /\ list' \in [Threads -> Seq(Nodes)]
        /\ FreeNodeCnt' \in [Threads -> Int] /\ stage' \in [Threads -> Stages]
        /\ \A u \in Threads : u # t => /\ list'[u] = list[u] /\ FreeNodeCnt'[u] = FreeNodeCnt[u]
                                       /\ hand'[u] = hand[u] /\ stage'[u] = stage[u]
    BY <1>1, <1>4, <2>1, <2>2 DEF Stages
  <2>4. PoolTypeOK'
    <3>1. used' \subseteq Nodes
      BY <1>1, <1>6
    <3> QED BY <1>1, <1>6, <2>2, <2>3, <3>1, TypesKept DEF PoolInvariant
  <2>5. ListsCounted'
    <3>1. Len(list'[t]) = 0 /\ 0 < ChunckSize /\ Len(hand'[t]) = ChunckSize
      BY <1>4, <1>5, <1>7, <2>3, EmptyList, ChunckAssumption
    <3> QED BY <1>2, <1>6, <2>3, <3>1, CountsKept
  <2>6. NodeOnce'
    <3>1. NodesIn(list'[t]) = {} /\ NoRepeat(list'[t]) /\ NodesIn(hand'[t]) = {n} \cup NodesIn(list[t]) /\ NoRepeat(hand'[t])
      BY <1>4, <2>3, EmptyList
    <3>2. Reach(t)' \subseteq Reach(t)
      BY <1>6, <3>1 DEF Reach
    <3>3. Apart(list'[t], hand'[t]) /\ Owned(list[t])' /\ Owned(hand[t])'
      BY <1>3, <1>6, <3>1 DEF Apart, Owned
    <3>4. used' \cap unborn' = {} /\ used' \cap deleted' = {} /\ unborn' \cap deleted' = {}
      BY <1>3, <1>6
    <3> QED BY <1>3, <1>6, <2>3, <3>1, <3>2, <3>3, <3>4, MovedWithin
  <2>7. EmptyBesideChunck'
    BY <2>3 DEF PoolInvariant, EmptyBesideChunck
  <2> QED BY <2>4, <2>5, <2>6, <2>7 DEF PoolInvariant
<1>8. CASE ~Full(cnt)
  <2>1. /\ list' = [list EXCEPT ![t] = all] /\ FreeNodeCnt' = [FreeNodeCnt EXCEPT ![t] = cnt]
        /\ UNCHANGED <<hand, stage>>
    BY <1>8 DEF Free
  <2>2. cnt \in Int
    BY <1>1
  <2> HIDE DEF all, cnt
  <2>3. /\ list'[t] = all /\ FreeNodeCnt'[t] = cnt
        /\ list' \in [Threads -> Seq(Nodes)] /\ FreeNodeCnt' \in [Threads -> Int]
        /\ \A u \in Threads : u # t => list'[u] = list[u] /\ FreeNodeCnt'[u] = FreeNodeCnt[u]
    BY <1>1, <1>4, <2>1, <2>2
  <2>4. PoolTypeOK'
    <3>1. used' \subseteq Nodes /\ (hand[t] # <<>> <=> stage[t] \in {"taken", "free"})
      BY <1>1, <1>6
    <3> QED BY <1>1, <1>6, <2>1, <2>3, <3>1, TypesKept DEF PoolInvariant
  <2>5. ListsCounted'
    BY <1>1, <1>2, <1>4, <1>5, <1>6, <1>8, <2>1, <2>3, CountsKept
  <2>6. NodeOnce'
    <3>1. NodesIn(list'[t]) = {n} \cup NodesIn(list[t]) /\ NoRepeat(list'[t]) /\ NodesIn(hand'[t]) = {} /\ NoRepeat(hand'[t])
      BY <1>1, <1>4, <2>1, <2>3, EmptyList
    <3>2. Reach(t)' \subseteq Reach(t)
      BY <1>6, <3>1 DEF Reach
    <3>3. Apart(list'[t], hand'[t]) /\ Owned(list[t])' /\ Owned(hand[t])'
      BY <1>3, <1>6, <3>1 DEF Apart, Owned
    <3>4. used' \cap unborn' = {} /\ used' \cap deleted' = {} /\ unborn' \cap deleted' = {}
      BY <1>3, <1>6
    <3> QED BY <1>3, <1>6, <2>1, <2>3, <3>1, <3>2, <3>3, <3>4, MovedWithin
  <2>7. EmptyBesideChunck'
    BY <1>1, <2>1, <2>3 DEF PoolInvariant, EmptyBesideChunck
  <2> QED BY <2>4, <2>5, <2>6, <2>7 DEF PoolInvariant
<1> QED BY <1>7, <1>8

\* A full chunk goes to the shared stack.
LEMMA GiveChunckKeeps ==
  ASSUME PoolInvariant, NEW t \in Threads, GiveChunck(t)
  PROVE  PoolInvariant'
<1>1. /\ stage[t] = "free" /\ hand \in [Threads -> Seq(Nodes)] /\ stage \in [Threads -> Stages]
      /\ chunks \in Seq(Seq(Nodes)) /\ hand[t] \in Seq(Nodes) /\ hand[t] # <<>>
  BY DEF PoolInvariant, PoolTypeOK, GiveChunck
<1> DEFINE c == hand[t]
<1>2. /\ chunks' \in Seq(Seq(Nodes)) /\ 1 \in 1 .. Len(chunks') /\ chunks'[1] = c
      /\ \A k \in 1 .. Len(chunks') : k # 1 => k - 1 \in 1 .. Len(chunks) /\ chunks'[k] = chunks[k - 1]
  <2>1. chunks' = <<hand[t]>> \o chunks
    BY DEF GiveChunck
  <2> QED BY <1>1, <2>1
<1>3. /\ UNCHANGED <<list, FreeNodeCnt, used, unborn, deleted>>
      /\ hand'[t] = <<>> /\ stage'[t] = "idle"
      /\ hand' \in [Threads -> Seq(Nodes)] /\ stage' \in [Threads -> Stages]
      /\ \A u \in Threads : u # t => hand'[u] = hand[u] /\ stage'[u] = stage[u]
  BY <1>1 DEF GiveChunck, Stages
<1>4. NodesIn(hand'[t]) = {} /\ NoRepeat(hand'[t]) /\ Len(c) = ChunckSize
  BY <1>1, <1>3, EmptyList DEF PoolInvariant, ListsCounted
<1>5. PoolTypeOK'
  <2>1. /\ list \in [Threads -> Seq(Nodes)] /\ FreeNodeCnt \in [Threads -> Int]
        /\ used \subseteq Nodes /\ unborn \subseteq Nodes /\ deleted \subseteq Nodes
    BY DEF PoolInvariant, PoolTypeOK
  <2> QED BY <1>2, <1>3, <2>1, TypesKept DEF PoolInvariant
<1>6. ListsCounted'
  <2>1. /\ ListsCounted /\ Len(list[t]) = FreeNodeCnt[t] /\ FreeNodeCnt[t] < ChunckSize
        /\ \A k \in 1 .. Len(chunks) : Len(chunks[k]) = ChunckSize
    BY DEF PoolInvariant, ListsCounted
  <2>2. ASSUME NEW k \in 1 .. Len(chunks') PROVE Len(chunks'[k]) = ChunckSize
    <3>1. CASE k = 1
      BY <1>2, <1>4, <3>1
    <3>2. CASE k # 1
      BY <1>2, <2>1, <3>2
    <3> QED BY <3>1, <3>2
  <2> QED BY <1>3, <2>1, <2>2, CountsKept
<1>7. NodeOnce'
  <2> DEFINE D == 1 .. Len(chunks')
  <2>1. \A k \in D : k # 1 => \E m \in 1 .. Len(chunks) : m = k - 1 /\ chunks'[k] = chunks[m]
    BY <1>2
  <2>2. ASSUME NEW k \in D, NEW l \in D, k # l PROVE k - 1 # l - 1
    BY <2>2
  <2>3. /\ NoRepeat(c) /\ Owned(c)
        /\ \A u \in Threads : Apart(list[u], c) /\ (u # t => Apart(hand[u], c) /\ Apart(c, hand[u]))
        /\ \A m \in 1 .. Len(chunks) : Apart(c, chunks[m]) /\ Apart(chunks[m], c)
    BY DEF PoolInvariant, NodeOnce, Apart
  <2> HIDE DEF c, D
  <2>4. \A k \in D : k # 1 => NoRepeat(chunks'[k]) /\ Owned(chunks'[k]) /\ Apart(c, chunks'[k]) /\ Apart(chunks'[k], c)
    BY <2>1, <2>3 DEF PoolInvariant, NodeOnce
  <2>5. \A u \in Threads : \A k \in D : k # 1 => Apart(list[u], chunks'[k]) /\ Apart(hand[u], chunks'[k])
    BY <2>1 DEF PoolInvariant, NodeOnce
  <2>6. \A k, l \in D : k # l /\ k # 1 /\ l # 1 => Apart(chunks'[k], chunks'[l])
    BY <2>1, <2>2 DEF PoolInvariant, NodeOnce
  <2>7. \A k, l \in D : k # l => Apart(chunks'[k], chunks'[l])
    BY <1>2, <2>4, <2>6
  <2>8. \A k \in D : NoRepeat(chunks'[k]) /\ Owned(chunks[k])'
    BY <1>2, <1>3, <2>3, <2>4 DEF Owned
  <2>9. ASSUME NEW u \in Threads
        PROVE  /\ NoRepeat(list'[u]) /\ NoRepeat(hand'[u]) /\ Apart(list'[u], hand'[u])
               /\ Owned(list[u])' /\ Owned(hand[u])'
    <3>1. NoRepeat(list[u]) /\ NoRepeat(hand[u]) /\ Apart(list[u], hand[u]) /\ Owned(list[u]) /\ Owned(hand[u])
      BY DEF PoolInvariant, NodeOnce
    <3>2. CASE u = t
      BY <1>3, <1>4, <3>1, <3>2 DEF Apart, Owned
    <3>3. CASE u # t
      BY <1>3, <3>1, <3>3 DEF Owned
    <3> QED BY <3>2, <3>3
  <2>10. ASSUME NEW u \in Threads, NEW k \in D
         PROVE  Apart(list'[u], chunks'[k]) /\ Apart(hand'[u], chunks'[k])
    <3>1. CASE u = t
      <4>1. Apart(hand'[u], chunks'[k])
        BY <1>4, <3>1 DEF Apart
      <4> QED BY <1>2, <1>3, <2>3, <2>5, <4>1
    <3>2. CASE u # t
      BY <1>2, <1>3, <2>3, <2>5, <3>2
    <3> QED BY <3>1, <3>2
  <2>11. ASSUME NEW u \in Threads, NEW v \in Threads, u # v
         PROVE  Apart(list'[u], list'[v]) /\ Apart(list'[u], hand'[v]) /\ Apart(hand'[u], hand'[v])
    <3>1. Apart(list[u], list[v]) /\ Apart(list[u], hand[v]) /\ Apart(hand[u], hand[v])
      BY <2>11 DEF PoolInvariant, NodeOnce
    <3>2. \A w \in Threads : hand'[w] = hand[w] \/ NodesIn(hand'[w]) = {}
      BY <1>3, <1>4
    <3> QED BY <1>3, <3>1, <3>2 DEF Apart
  <2> QED BY <1>3, <2>7, <2>8, <2>9, <2>10, <2>11 DEF PoolInvariant, NodeOnce, D
<1>8. EmptyBesideChunck'
  BY <1>1, <1>3 DEF PoolInvariant, EmptyBesideChunck
<1> QED BY <1>5, <1>6, <1>7, <1>8 DEF PoolInvariant

\* A thread that ends deletes the nodes of its own list.
LEMMA EndThreadKeeps ==
  ASSUME PoolInvariant, NEW t \in Threads, EndThread(t)
  PROVE  PoolInvariant'
<1>1. /\ stage[t] = "idle" /\ hand[t] = <<>> /\ list[t] \in Seq(Nodes) /\ <<>> \in Seq(Nodes)
      /\ list \in [Threads -> Seq(Nodes)] /\ hand \in [Threads -> Seq(Nodes)]
      /\ FreeNodeCnt \in [Threads -> Int] /\ stage \in [Threads -> Stages]
      /\ chunks \in Seq(Seq(Nodes)) /\ used \subseteq Nodes /\ unborn \subseteq Nodes /\ deleted \subseteq Nodes
  BY DEF PoolInvariant, PoolTypeOK, EndThread
<1>2. /\ UNCHANGED <<hand, chunks, used, unborn>> /\ deleted' = deleted \cup NodesIn(list[t])
      /\ list'[t] = <<>> /\ FreeNodeCnt'[t] = 0 /\ stage'[t] = "ended"
      /\ list' \in [Threads -> Seq(Nodes)] /\ FreeNodeCnt' \in [Threads -> Int] /\ stage' \in [Threads -> Stages]
      /\ \A u \in Threads : u # t => /\ list'[u] = list[u] /\ FreeNodeCnt'[u] = FreeNodeCnt[u]
                                     /\ stage'[u] = stage[u]
  BY <1>1 DEF EndThread, Stages
<1>3. PoolTypeOK'
  <2>1. deleted' \subseteq Nodes
    BY <1>1, <1>2 DEF NodesIn
  <2> QED BY <1>1, <1>2, <2>1, TypesKept DEF PoolInvariant
<1>4. ListsCounted'
  <2>1. /\ ListsCounted /\ 0 < ChunckSize
        /\ \A k \in 1 .. Len(chunks) : Len(chunks[k]) = ChunckSize
    BY ChunckAssumption DEF PoolInvariant, ListsCounted
  <2> QED BY <1>1, <1>2, <2>1, EmptyList, CountsKept
<1>5. NodeOnce'
  <2>1. /\ NodeOnce /\ Owned(list[t])
        /\ used \cap unborn = {} /\ used \cap deleted = {} /\ unborn \cap deleted = {}
    BY DEF PoolInvariant, NodeOnce
  <2>2. NodesIn(list'[t]) = {} /\ NoRepeat(list'[t]) /\ NodesIn(hand'[t]) = {} /\ NoRepeat(hand'[t])
    BY <1>1, <1>2, EmptyList
  <2>3. Reach(t)' \subseteq Reach(t)
    BY <1>2, <2>2 DEF Reach
  <2>4. Apart(list'[t], hand'[t]) /\ Owned(list[t])' /\ Owned(hand[t])'
    BY <2>2 DEF Apart, Owned
  <2>5. used' \cap unborn' = {} /\ used' \cap deleted' = {} /\ unborn' \cap deleted' = {}
    BY <1>2, <2>1 DEF Owned
  <2> QED BY <1>2, <2>1, <2>2, <2>3, <2>4, <2>5, MovedWithin
<1>6. EmptyBesideChunck'
  BY <1>2 DEF PoolInvariant, EmptyBesideChunck
<1> QED BY <1>3, <1>4, <1>5, <1>6 DEF PoolInvariant

-----------------------------------------------------------------------------
(* Theorems *)

\* At first there are no nodes.
LEMMA InitPoolInvariant == PoolInit => PoolInvariant
<1> SUFFICES ASSUME PoolInit PROVE PoolInvariant
  OBVIOUS
<1>1. PoolTypeOK
  BY DEF PoolInit, PoolTypeOK, Stages
<1>2. ListsCounted
  BY EmptyList, ChunckAssumption DEF PoolInit, ListsCounted
<1>3. NodeOnce
  BY EmptyList DEF PoolInit, NodeOnce, Apart, Owned
<1>4. EmptyBesideChunck
  BY DEF PoolInit, EmptyBesideChunck
<1> QED BY <1>1, <1>2, <1>3, <1>4 DEF PoolInvariant

\* Every step of the pool keeps its invariant.
LEMMA KeepsPoolInvariant == PoolInvariant /\ [PoolNext]_poolVars => PoolInvariant'
<1>1. ASSUME PoolInvariant, NEW t \in Threads, PoolStep(t) PROVE PoolInvariant'
  BY <1>1, AllocOwnKeeps, AllocNeedsChunckKeeps, TakeChunckKeeps, UseChunckKeeps,
     NewNodeListKeeps, FreeKeeps, GiveChunckKeeps, EndThreadKeeps DEF PoolStep
<1>2. ASSUME PoolInvariant, UNCHANGED poolVars PROVE PoolInvariant'
  BY <1>2 DEF poolVars, PoolInvariant, PoolTypeOK, ListsCounted, NodeOnce, Owned, EmptyBesideChunck
<1> QED BY <1>1, <1>2 DEF PoolNext

\* The inductive invariant holds.
THEOREM PoolInvariantHolds == PoolSpec => []PoolInvariant
  BY InitPoolInvariant, KeepsPoolInvariant, PTL DEF PoolSpec

\* Alloc follows Head only while there are nodes, and a chunk is worth ChunckSize
\* nodes to whoever takes it: the counts are right on every thread at every time.
THEOREM CountsCorrect == PoolSpec => []ListsCounted
<1>1. PoolInvariant => ListsCounted
  BY DEF PoolInvariant
<1> QED BY <1>1, PoolInvariantHolds, PTL

\* No node is given to the program twice, or is in a list or a chunk beside another
\* or while the program has it, whichever threads allocate and free it and whichever
\* threads end.
THEOREM NodesApart == PoolSpec => []NodeOnce
<1>1. PoolInvariant => NodeOnce
  BY DEF PoolInvariant
<1> QED BY <1>1, PoolInvariantHolds, PTL

-----------------------------------------------------------------------------
(* Lists that are linked through cells *)

\* The links lead from the first cell through s to the null pointer.
IsList(s, first, next) ==
  /\ s \in Seq(Cells)
  /\ first = IF s = <<>> THEN Null ELSE s[1]
  /\ \A k \in 1 .. Len(s) : next[s[k]] = IF k = Len(s) THEN Null ELSE s[k + 1]
  /\ NoRepeat(s)

\* A number that is less than another is related to it.
LEMMA LeastOf ==
  ASSUME NEW T \in SUBSET Nat, NEW R, \E x \in T : \A y \in T : ~ (<<y, x>> \in R),
         \A x, y \in Nat : y < x => <<y, x>> \in R
  PROVE  \E x \in T : \A y \in T : x <= y
<1>1. PICK x \in T : \A y \in T : ~ (<<y, x>> \in R)
  OBVIOUS
<1>2. \A y \in T : ~ (y < x)
  BY <1>1
<1> QED BY <1>2

\* The least-number principle, for sets.
LEMMA Least ==
  ASSUME NEW T \in SUBSET Nat, T # {}
  PROVE  \E x \in T : \A y \in T : x <= y
<1>1. \E x \in T : \A y \in T : ~ (<<y, x>> \in OpToRel(<, Nat))
  BY NatLessThanWellFounded, WFMin, Zenon
<1>2. \A x, y \in Nat : y < x => <<y, x>> \in OpToRel(<, Nat)
  BY Zenon DEF OpToRel
<1> QED BY <1>1, <1>2, LeastOf, Zenon

\* How many numbers there are from 1, or from 0, on.
LEMMA Interval ==
  ASSUME NEW n \in Nat
  PROVE  IsFiniteSet(1 .. n) /\ Cardinality(1 .. n) = n /\ Cardinality(0 .. n - 1) = n
<1>1. 0 \in Int /\ 1 \in Int /\ n \in Int /\ n - 1 \in Int
  OBVIOUS
<1>2. /\ Cardinality(1 .. n) = IF 1 > n THEN 0 ELSE n - 1 + 1
      /\ Cardinality(0 .. n - 1) = IF 0 > n - 1 THEN 0 ELSE (n - 1) - 0 + 1
  BY <1>1, FS_Interval, Zenon
<1>3. IsFiniteSet(1 .. n)
  BY FS_Interval
<1> QED BY <1>2, <1>3

\* A list without repetition is no longer than there are cells.
LEMMA ListLength ==
  ASSUME NEW s \in Seq(Cells), NoRepeat(s)
  PROVE  /\ Cardinality(Cells) \in Nat /\ Len(s) \in Nat /\ Len(s) <= Cardinality(Cells)
         /\ IsFiniteSet(CellsOf(s)) /\ Cardinality(CellsOf(s)) = Len(s)
<1>1. Cardinality(Cells) \in Nat /\ Len(s) \in Nat
  BY CellAssumption, FS_CardinalityType
<1>2. CellsOf(s) \subseteq Cells
  BY DEF CellsOf
<1>3. IsFiniteSet(CellsOf(s)) /\ Cardinality(CellsOf(s)) <= Cardinality(Cells)
  BY <1>2, CellAssumption, FS_Subset
<1>4. [k \in 1 .. Len(s) |-> s[k]] \in Bijection(1 .. Len(s), CellsOf(s))
  BY DEF Bijection, Injection, Surjection, IsInjective, CellsOf, NoRepeat
<1>5. IsFiniteSet(1 .. Len(s)) /\ Cardinality(1 .. Len(s)) = Len(s)
  BY <1>1, Interval
<1>6. Cardinality(CellsOf(s)) = Len(s)
  BY <1>4, <1>5, FS_Bijection DEF ExistsBijection
<1> QED BY <1>1, <1>3, <1>6

\* CellsFrom finds the list.
LEMMA CellsFromList ==
  ASSUME NEW s, NEW first, NEW next, IsList(s, first, next)
  PROVE  CellsFrom(first, next) = s
<1> DEFINE N == Cardinality(Cells)
           chain == ChainFrom(first, next)
           g == [k \in 0 .. N |-> IF k < Len(s) THEN s[k + 1] ELSE Null]
<1>1. s \in Seq(Cells) /\ NoRepeat(s) /\ N \in Nat /\ Len(s) \in Nat /\ Len(s) <= N
  BY ListLength DEF IsList
<1>2. \A k \in 1 .. Len(s) : s[k] # Null
  BY <1>1, CellAssumption
<1> HIDE DEF N
<1>3. ASSUME NEW k \in 0 .. N
      PROVE  g[k] = IF k = 0 THEN first ELSE IF g[k - 1] = Null THEN Null ELSE next[g[k - 1]]
  <2>1. CASE k = 0
    BY <1>1, <2>1 DEF IsList
  <2>2. CASE k # 0 /\ k <= Len(s)
    <3>1. k - 1 \in 0 .. N /\ g[k - 1] = s[k] /\ k \in 1 .. Len(s)
      BY <1>1, <2>2
    <3>2. next[s[k]] = IF k = Len(s) THEN Null ELSE s[k + 1]
      BY <3>1 DEF IsList
    <3> QED BY <1>1, <1>2, <2>2, <3>1, <3>2
  <2>3. CASE k > Len(s)
    <3>1. k - 1 \in 0 .. N /\ g[k - 1] = Null /\ g[k] = Null /\ k # 0
      BY <1>1, <2>3
    <3> QED BY <3>1
  <2> QED BY <1>1, <2>1, <2>2, <2>3
<1>4. g = [k \in 0 .. N |-> IF k = 0 THEN first ELSE IF g[k - 1] = Null THEN Null ELSE next[g[k - 1]]]
  BY <1>3
<1>5. chain = [k \in 0 .. N |-> IF k = 0 THEN first ELSE IF chain[k - 1] = Null THEN Null ELSE next[chain[k - 1]]]
  <2> DEFINE f == CHOOSE h : h = [k \in 0 .. N |-> IF k = 0 THEN first ELSE IF h[k - 1] = Null THEN Null ELSE next[h[k - 1]]]
  <2> HIDE DEF g
  <2>1. f = [k \in 0 .. N |-> IF k = 0 THEN first ELSE IF f[k - 1] = Null THEN Null ELSE next[f[k - 1]]]
    BY <1>4, Zenon
  <2>2. chain = f
    BY Zenon DEF ChainFrom, N
  <2> QED BY <2>1, <2>2, Zenon
<1>6. DOMAIN chain = 0 .. N
  BY <1>5
<1>7. \A k \in 0 .. N : chain[k] = g[k]
  <2>1. \A k \in 0 .. N : chain[k] = IF k = 0 THEN first ELSE IF chain[k - 1] = Null THEN Null ELSE next[chain[k - 1]]
    <3> HIDE DEF chain
    <3> QED BY <1>5
  <2>2. \A k \in 0 .. N : g[k] = IF k = 0 THEN first ELSE IF g[k - 1] = Null THEN Null ELSE next[g[k - 1]]
    BY <1>3
  <2>3. N \in Nat
    BY <1>1
  <2> HIDE DEF chain, g
  <2> DEFINE Differ == {k \in 0 .. N : chain[k] # g[k]}
  <2> SUFFICES ASSUME Differ # {} PROVE FALSE
    OBVIOUS
  <2>4. PICK k \in Differ : \A j \in Differ : k <= j
    <3>1. Differ \in SUBSET Nat
      BY <2>3
    <3> HIDE DEF Differ
    <3> QED BY <3>1, Least
  <2>5. k \in 0 .. N /\ k # 0 /\ chain[k] # g[k]
    BY <2>1, <2>2, <2>3, <2>4
  <2>6. k - 1 \in 0 .. N /\ k - 1 \notin Differ
    BY <2>3, <2>4, <2>5
  <2>7. chain[k - 1] = g[k - 1]
    BY <2>6
  <2> QED BY <2>1, <2>2, <2>5, <2>7
<1> HIDE DEF chain
<1>8. {k \in DOMAIN chain : chain[k] # Null} = 0 .. Len(s) - 1
  BY <1>1, <1>2, <1>6, <1>7
<1>9. Cardinality(0 .. Len(s) - 1) = Len(s)
  BY <1>1, Interval
<1>10. CellsFrom(first, next) = [k \in 1 .. Len(s) |-> chain[k - 1]]
  BY <1>8, <1>9 DEF CellsFrom, chain
<1>11. \A k \in 1 .. Len(s) : chain[k - 1] = s[k]
  BY <1>1, <1>7
<1> QED BY <1>1, <1>10, <1>11

\* A cell that is linked before the list becomes its first.
LEMMA PushList ==
  ASSUME NEW s, NEW first, NEW next, NEW c \in Cells, IsList(s, first, next),
         c \notin CellsOf(s), next[c] = first
  PROVE  IsList(<<c>> \o s, c, next) /\ CellsOf(<<c>> \o s) = {c} \cup CellsOf(s)
<1> DEFINE all == <<c>> \o s
<1>1. all \in Seq(Cells) /\ Len(all) = Len(s) + 1 /\ all[1] = c /\ Len(s) \in Nat /\ all # <<>> /\ s \in Seq(Cells)
  BY DEF IsList
<1>2. \A i \in 1 .. Len(s) : i + 1 \in 1 .. Len(all) /\ all[i + 1] = s[i]
  BY <1>1
<1>3. \A i \in 1 .. Len(all) : i # 1 => i - 1 \in 1 .. Len(s) /\ all[i] = s[i - 1] /\ all[i] # c
  <2>1. \A i \in 1 .. Len(all) : i # 1 => i - 1 \in 1 .. Len(s) /\ all[i] = s[i - 1]
    BY <1>1
  <2> QED BY <2>1 DEF CellsOf
<1> HIDE DEF all
<1>4. NoRepeat(all)
  <2> SUFFICES ASSUME NEW i \in 1 .. Len(all), NEW j \in 1 .. Len(all), all[i] = all[j]
               PROVE  i = j
    BY DEF NoRepeat
  <2>1. CASE i = 1 \/ j = 1
    BY <1>1, <1>3, <2>1
  <2>2. CASE i # 1 /\ j # 1
    <3>1. i - 1 = j - 1
      BY <1>3, <2>2 DEF IsList, NoRepeat
    <3> QED BY <1>1, <3>1
  <2> QED BY <2>1, <2>2
<1>5. ASSUME NEW k \in 1 .. Len(all)
      PROVE  next[all[k]] = IF k = Len(all) THEN Null ELSE all[k + 1]
  <2>1. CASE k = 1
    <3>1. CASE s = <<>>
      BY <1>1, <2>1, <3>1 DEF IsList
    <3>2. CASE s # <<>>
      <4>1. Len(s) >= 1
        BY <1>1, <3>2
      <4> QED BY <1>1, <1>2, <2>1, <3>2, <4>1 DEF IsList
    <3> QED BY <3>1, <3>2
  <2>2. CASE k # 1
    <3>1. k - 1 \in 1 .. Len(s) /\ all[k] = s[k - 1]
      BY <1>3, <2>2
    <3>2. next[s[k - 1]] = IF k - 1 = Len(s) THEN Null ELSE s[(k - 1) + 1]
      BY <3>1 DEF IsList
    <3>3. k # Len(all) => k \in 1 .. Len(s) /\ all[k + 1] = s[k]
      BY <1>1, <1>2
    <3> QED BY <1>1, <3>1, <3>2, <3>3
  <2> QED BY <2>1, <2>2
<1>6. CellsOf(all) = {c} \cup CellsOf(s)
  <2>1. \A x \in CellsOf(all) : x = c \/ x \in CellsOf(s)
    BY <1>1, <1>3 DEF CellsOf
  <2>2. c \in CellsOf(all) /\ \A x \in CellsOf(s) : x \in CellsOf(all)
    BY <1>1, <1>2 DEF CellsOf
  <2> QED BY <2>1, <2>2
<1>7. IsList(all, c, next)
  BY <1>1, <1>4, <1>5 DEF IsList
<1> QED BY <1>6, <1>7 DEF all

\* The first cell of a list is taken off it.
LEMMA PopList ==
  ASSUME NEW s, NEW first, NEW next, IsList(s, first, next), first # Null
  PROVE  /\ s # <<>> /\ Len(s) >= 1 /\ first = s[1] /\ first \in Cells /\ first \in CellsOf(s)
         /\ IsList(Tail(s), next[first], next) /\ Len(Tail(s)) = Len(s) - 1
         /\ CellsOf(Tail(s)) = CellsOf(s) \ {first}
<1> DEFINE rest == Tail(s)
<1>1. s # <<>> /\ s \in Seq(Cells) /\ Len(s) \in Nat /\ Len(s) >= 1 /\ first = s[1] /\ 1 \in 1 .. Len(s)
  BY DEF IsList
<1>2. rest \in Seq(Cells) /\ Len(rest) = Len(s) - 1
  BY <1>1
<1>3. \A i \in 1 .. Len(rest) : i + 1 \in 1 .. Len(s) /\ i + 1 # 1 /\ rest[i] = s[i + 1]
  BY <1>1, <1>2
<1>4. \A i \in 1 .. Len(s) : i # 1 => i - 1 \in 1 .. Len(rest) /\ rest[i - 1] = s[i]
  BY <1>1, <1>2
<1> HIDE DEF rest
<1>5. NoRepeat(rest)
  <2> SUFFICES ASSUME NEW i \in 1 .. Len(rest), NEW j \in 1 .. Len(rest), rest[i] = rest[j]
               PROVE  i = j
    BY DEF NoRepeat
  <2>1. i + 1 = j + 1
    BY <1>3 DEF IsList, NoRepeat
  <2> QED BY <1>2, <2>1
<1>6. CellsOf(rest) = CellsOf(s) \ {first}
  <2>1. \A i \in 1 .. Len(rest) : rest[i] # first
    BY <1>1, <1>3 DEF IsList, NoRepeat
  <2>2. \A x \in CellsOf(rest) : x \in CellsOf(s) /\ x # first
    BY <1>3, <2>1 DEF CellsOf
  <2>3. \A x \in CellsOf(s) : x # first => x \in CellsOf(rest)
    BY <1>1, <1>4 DEF CellsOf
  <2> QED BY <2>2, <2>3
<1>7. ASSUME NEW k \in 1 .. Len(rest)
      PROVE  next[rest[k]] = IF k = Len(rest) THEN Null ELSE rest[k + 1]
  <2>1. k + 1 \in 1 .. Len(s) /\ rest[k] = s[k + 1]
    BY <1>3
  <2>2. next[s[k + 1]] = IF k + 1 = Len(s) THEN Null ELSE s[(k + 1) + 1]
    BY <2>1 DEF IsList
  <2>3. k # Len(rest) => k + 1 \in 1 .. Len(rest) /\ rest[k + 1] = s[(k + 1) + 1]
    BY <1>2, <1>3
  <2> QED BY <1>1, <1>2, <2>1, <2>2, <2>3
<1>8. next[first] = IF rest = <<>> THEN Null ELSE rest[1]
  <2>1. next[first] = IF 1 = Len(s) THEN Null ELSE s[1 + 1]
    BY <1>1 DEF IsList
  <2>2. CASE Len(s) = 1
    BY <1>2, <2>1, <2>2
  <2>3. CASE Len(s) # 1
    <3>1. Len(rest) >= 1 /\ 1 \in 1 .. Len(rest)
      BY <1>1, <1>2, <2>3
    <3>2. rest[1] = s[1 + 1]
      BY <1>3, <3>1
    <3> QED BY <2>1, <2>3, <3>1, <3>2
  <2> QED BY <2>2, <2>3
<1>9. IsList(rest, next[first], next)
  BY <1>2, <1>5, <1>7, <1>8 DEF IsList
<1>10. first \in Cells /\ first \in CellsOf(s)
  BY <1>1 DEF CellsOf
<1> QED BY <1>1, <1>2, <1>6, <1>9, <1>10 DEF rest

\* Links of other cells are none of the list's.
LEMMA FrameList ==
  ASSUME NEW s, NEW first, NEW next, NEW next2, IsList(s, first, next),
         \A c \in CellsOf(s) : next2[c] = next[c]
  PROVE  IsList(s, first, next2)
<1>1. \A k \in 1 .. Len(s) : next2[s[k]] = next[s[k]]
  BY DEF CellsOf
<1> QED BY <1>1 DEF IsList

\* The cells of a list are cells.
LEMMA CellsOfList ==
  ASSUME NEW s, NEW first, NEW next, IsList(s, first, next)
  PROVE  CellsOf(s) \subseteq Cells /\ Null \notin CellsOf(s) /\ Len(s) \in Nat /\ (first = Null => s = <<>>)
  BY CellAssumption DEF CellsOf, IsList

-----------------------------------------------------------------------------
(* Counts and tags *)

\* A set of threads loses or gains one.
LEMMA CountMove ==
  ASSUME NEW A \in SUBSET Threads, NEW B \in SUBSET Threads, NEW t \in Threads,
         \A u \in Threads : u # t => (u \in A <=> u \in B)
  PROVE  /\ Cardinality(A) \in Nat /\ Cardinality(B) \in Nat
         /\ Cardinality(B) = Cardinality(A) + (IF t \in B THEN 1 ELSE 0) - (IF t \in A THEN 1 ELSE 0)
         /\ t \in A => Cardinality(A) >= 1
<1>1. IsFiniteSet(A) /\ IsFiniteSet(B)
  BY ThreadAssumption, FS_Subset
<1>2. Cardinality(A) \in Nat /\ Cardinality(B) \in Nat
  BY <1>1, FS_CardinalityType
<1>3. CASE t \in A /\ t \in B
  <2>1. A = B
    BY <1>3
  <2>2. A # {}
    BY <1>3
  <2>3. Cardinality(A) # 0
    BY <1>1, <2>2, FS_EmptySet
  <2> QED BY <1>2, <1>3, <2>1, <2>3
<1>4. CASE t \notin A /\ t \notin B
  <2>1. A = B
    BY <1>4
  <2> QED BY <1>2, <1>4, <2>1
<1>5. CASE t \in A /\ t \notin B
  <2>1. A = B \cup {t}
    BY <1>5
  <2>2. Cardinality(A) = Cardinality(B) + 1
    BY <1>1, <1>5, <2>1, FS_AddElement
  <2> QED BY <1>2, <1>5, <2>2
<1>6. CASE t \notin A /\ t \in B
  <2>1. B = A \cup {t}
    BY <1>6
  <2>2. Cardinality(B) = Cardinality(A) + 1
    BY <1>1, <1>6, <2>1, FS_AddElement
  <2> QED BY <1>2, <1>6, <2>2
<1> QED BY <1>3, <1>4, <1>5, <1>6

\* GetTagCnt finds a tag that neither the word nor any thread has.
LEMMA FreshTag ==
  ASSUME NEW top
  PROVE  /\ GetTagCnt(top) \in Nat
         /\ GetTagCnt(top) # top.tag
         /\ \A t \in Threads : GetTagCnt(top) # old[t].tag
<1> DEFINE n == Cardinality(Threads)
           held == {old[t].tag : t \in Threads}
           tags == 1 .. n + 2
<1>1. n \in Nat /\ IsFiniteSet(held) /\ Cardinality(held) <= n
  <2>1. n \in Nat
    BY ThreadAssumption, FS_CardinalityType
  <2> DEFINE f == [t \in Threads |-> old[t].tag]
  <2>2. f \in Surjection(Threads, held)
    BY DEF Surjection
  <2> HIDE DEF f
  <2>3. IsFiniteSet(held) /\ Cardinality(held) <= Cardinality(Threads)
    BY <2>2, ThreadAssumption, FS_Surjection
  <2> QED BY <2>1, <2>3
<1>2. IsFiniteSet({top.tag} \cup held) /\ Cardinality({top.tag} \cup held) <= n + 1
  <2>1. held \cup {top.tag} = {top.tag} \cup held /\ Cardinality(held) \in Nat
    BY <1>1, FS_CardinalityType
  <2>2. IsFiniteSet(held \cup {top.tag}) /\ Cardinality(held \cup {top.tag}) = IF top.tag \in held THEN Cardinality(held) ELSE Cardinality(held) + 1
    BY <1>1, FS_AddElement
  <2> HIDE DEF held, n
  <2>3. Cardinality(held \cup {top.tag}) <= n + 1
    BY <1>1, <2>1, <2>2
  <2> QED BY <2>1, <2>2, <2>3, Zenon
<1>3. IsFiniteSet(tags) /\ Cardinality(tags) = n + 2
  <2>1. n + 2 \in Nat
    BY <1>1
  <2> QED BY <2>1, Interval, Zenon
<1>4. \E g \in tags : g \notin {top.tag} \cup held
  <2> SUFFICES ASSUME tags \subseteq {top.tag} \cup held PROVE FALSE
    OBVIOUS
  <2>1. Cardinality(tags) <= Cardinality({top.tag} \cup held)
    BY <1>2, FS_Subset
  <2>2. Cardinality({top.tag} \cup held) \in Nat
    BY <1>2, FS_CardinalityType
  <2> HIDE DEF held, n, tags
  <2> QED BY <1>1, <1>2, <1>3, <2>1, <2>2
<1>5. GetTagCnt(top) \in tags /\ GetTagCnt(top) \notin {top.tag} \cup held
  BY <1>4, Zenon DEF GetTagCnt
<1>6. tags \subseteq Nat
  OBVIOUS
<1> QED BY <1>5, <1>6

\* A set of n things can be numbered from 1 on, and so can as many as are wanted of them.
LEMMA Numbering ==
  ASSUME NEW S, IsFiniteSet(S), NEW n \in Nat, n <= Cardinality(S)
  PROVE  \E s \in [1 .. n -> S] : \A i, j \in 1 .. n : s[i] = s[j] => i = j
<1>1. Cardinality(S) \in Nat
  BY FS_CardinalityType
<1>2. PICK f : f \in Bijection(1 .. Cardinality(S), S)
  BY FS_CardinalityType DEF ExistsBijection
<1> DEFINE s == [i \in 1 .. n |-> f[i]]
<1>3. 1 .. n \subseteq 1 .. Cardinality(S)
  BY <1>1
<1>4. s \in [1 .. n -> S] /\ \A i, j \in 1 .. n : s[i] = s[j] => i = j
  BY <1>2, <1>3 DEF Bijection, Injection, Surjection, IsInjective
<1> QED BY <1>4

-----------------------------------------------------------------------------
(* The inductive invariant *)

Links == Cells \cup {Null}
Words == [ptr : Links, tag : Nat]
Places == {"idle", "aReserve", "aUndo", "aNew", "aTop", "aNext", "aCas", "allocated", "fTop", "fCas",
           "fSize", "pTop", "pCas", "pSize", "oUndo", "oTop", "oNext", "oCas"}

\* The fields and the locals have their types.
CellTypeOK ==
  /\ HeadFreeNode \in Words /\ FreeNext \in [Cells -> Links]
  /\ Top \in Words /\ Next \in [Cells -> Links] /\ Data \in [Cells -> Seq(Nodes)]
  /\ FreeCellCnt \in Int /\ UseCellCnt \in Int /\ Size \in Int
  /\ made \subseteq Cells
  /\ pc \in [Threads -> Places]
  /\ old \in [Threads -> Words] /\ nxt \in [Threads -> Links] /\ cell \in [Threads -> Links]
  /\ left \in [Threads -> Nat] /\ val \in [Threads -> Seq(Nodes)]

\* Where a thread has a cell, where it makes new ones, where it looks at a cell that
\* is not its own, and what it does in the pool meanwhile.
Holding == {"fTop", "fCas", "allocated", "pTop", "pCas"}

PlaceOK(t) ==
  /\ cell[t] # Null <=> pc[t] \in Holding
  /\ left[t] # 0 => pc[t] \in {"aNew", "fTop", "fCas", "fSize"}
  /\ pc[t] = "aNew" => left[t] # 0
  /\ pc[t] \in {"aNext", "aCas", "oNext", "oCas"} => old[t].ptr # Null
  /\ pc[t] \in {"oTop", "oNext", "oCas"} => stage[t] = "alloc"
  /\ stage[t] = "free" => val[t] = hand[t]

PlacesOK == \A t \in Threads : PlaceOK(t)

\* What a thread has read is still so if the word that it will compare is.
ReadOK(t) ==
  /\ pc[t] = "aCas" /\ old[t] = HeadFreeNode => nxt[t] = FreeNext[old[t].ptr]
  /\ pc[t] = "oCas" /\ old[t] = Top => nxt[t] = Next[old[t].ptr]
  /\ pc[t] = "fCas" => FreeNext[cell[t]] = old[t].ptr
  /\ pc[t] = "pCas" => Next[cell[t]] = old[t].ptr
  /\ pc[t] \in {"pTop", "pCas"} => Data[cell[t]] = val[t]

ReadsOK == \A t \in Threads : ReadOK(t)

\* Both lists are lists.
ListsOK ==
  /\ IsList(FreeCells, HeadFreeNode.ptr, FreeNext)
  /\ IsList(Stacked, Top.ptr, Next)

\* A cell is in one of the sets F and S or with one of the threads, which have the
\* cells c; all that there are, are in m.
InOnePlace(F, S, c, m) ==
  /\ F \cap S = {}
  /\ \A t \in Threads : c[t] # Null =>
       /\ c[t] \notin F \cup S
       /\ \A u \in Threads \ {t} : c[u] # c[t]
  /\ m = F \cup S \cup ({c[t] : t \in Threads} \ {Null})

CellsApart == InOnePlace(CellsOf(FreeCells), CellsOf(Stacked), cell, made)

\* The threads that were promised a cell or an item or have put one into a list and
\* not counted it, those that take a decrement back, and those that have a cell
\* which counts as used but is not in the stack.
PromisedCell == Standing({"aUndo", "aTop", "aNext", "aCas", "fSize"})
PromisedItem == Standing({"oUndo", "oTop", "oNext", "oCas", "pSize"})
CellUndo == Standing({"aUndo"})
ItemUndo == Standing({"oUndo"})
Using == {t \in Threads : left[t] = 0 /\ pc[t] \in Holding \cup {"fSize"}}

CountsOK ==
  /\ FreeCellCnt + Cardinality(PromisedCell) = Len(FreeCells)
  /\ Size + Cardinality(PromisedItem) = Len(Stacked)
  /\ FreeCellCnt + Cardinality(CellUndo) >= 0
  /\ Size + Cardinality(ItemUndo) >= 0
  /\ UseCellCnt = Len(Stacked) + Cardinality(Using)

CellInvariant == CellTypeOK /\ PlacesOK /\ ReadsOK /\ ListsOK /\ CellsApart /\ CountsOK
PoolsInvariant == CellInvariant /\ StackKeepsChunks /\ PoolInvariant

-----------------------------------------------------------------------------
(* Steps that leave the lists alone *)

\* The other threads' locals.
Same(u) == /\ pc'[u] = pc[u] /\ old'[u] = old[u] /\ nxt'[u] = nxt[u] /\ cell'[u] = cell[u] /\ left'[u] = left[u]
           /\ val'[u] = val[u] /\ hand'[u] = hand[u] /\ stage'[u] = stage[u]
Others(t) == \A u \in Threads : u # t => Same(u)

\* How a step of one thread changes the counts of threads.
LEMMA CountsMove ==
  ASSUME NEW t \in Threads, Others(t)
  PROVE  /\ Cardinality(PromisedCell) \in Nat /\ Cardinality(PromisedItem) \in Nat
         /\ Cardinality(CellUndo) \in Nat /\ Cardinality(ItemUndo) \in Nat /\ Cardinality(Using) \in Nat
         /\ Cardinality(PromisedCell') = Cardinality(PromisedCell) + (IF t \in PromisedCell' THEN 1 ELSE 0) - (IF t \in PromisedCell THEN 1 ELSE 0)
         /\ Cardinality(PromisedItem') = Cardinality(PromisedItem) + (IF t \in PromisedItem' THEN 1 ELSE 0) - (IF t \in PromisedItem THEN 1 ELSE 0)
         /\ Cardinality(CellUndo') = Cardinality(CellUndo) + (IF t \in CellUndo' THEN 1 ELSE 0) - (IF t \in CellUndo THEN 1 ELSE 0)
         /\ Cardinality(ItemUndo') = Cardinality(ItemUndo) + (IF t \in ItemUndo' THEN 1 ELSE 0) - (IF t \in ItemUndo THEN 1 ELSE 0)
         /\ Cardinality(Using') = Cardinality(Using) + (IF t \in Using' THEN 1 ELSE 0) - (IF t \in Using THEN 1 ELSE 0)
<1>1. /\ PromisedCell \subseteq Threads /\ PromisedCell' \subseteq Threads
      /\ \A u \in Threads : u # t => (u \in PromisedCell <=> u \in PromisedCell')
  BY DEF PromisedCell, Standing, Others, Same
<1>2. /\ PromisedItem \subseteq Threads /\ PromisedItem' \subseteq Threads
      /\ \A u \in Threads : u # t => (u \in PromisedItem <=> u \in PromisedItem')
  BY DEF PromisedItem, Standing, Others, Same
<1>3. /\ CellUndo \subseteq Threads /\ CellUndo' \subseteq Threads
      /\ \A u \in Threads : u # t => (u \in CellUndo <=> u \in CellUndo')
  BY DEF CellUndo, Standing, Others, Same
<1>4. /\ ItemUndo \subseteq Threads /\ ItemUndo' \subseteq Threads
      /\ \A u \in Threads : u # t => (u \in ItemUndo <=> u \in ItemUndo')
  BY DEF ItemUndo, Standing, Others, Same
<1>5. /\ Using \subseteq Threads /\ Using' \subseteq Threads
      /\ \A u \in Threads : u # t => (u \in Using <=> u \in Using')
  BY DEF Using, Others, Same
<1>6. /\ Cardinality(PromisedCell) \in Nat
      /\ Cardinality(PromisedCell') = Cardinality(PromisedCell) + (IF t \in PromisedCell' THEN 1 ELSE 0) - (IF t \in PromisedCell THEN 1 ELSE 0)
  BY <1>1, CountMove, Zenon
<1>7. /\ Cardinality(PromisedItem) \in Nat
      /\ Cardinality(PromisedItem') = Cardinality(PromisedItem) + (IF t \in PromisedItem' THEN 1 ELSE 0) - (IF t \in PromisedItem THEN 1 ELSE 0)
  BY <1>2, CountMove, Zenon
<1>8. /\ Cardinality(CellUndo) \in Nat
      /\ Cardinality(CellUndo') = Cardinality(CellUndo) + (IF t \in CellUndo' THEN 1 ELSE 0) - (IF t \in CellUndo THEN 1 ELSE 0)
  BY <1>3, CountMove, Zenon
<1>9. /\ Cardinality(ItemUndo) \in Nat
      /\ Cardinality(ItemUndo') = Cardinality(ItemUndo) + (IF t \in ItemUndo' THEN 1 ELSE 0) - (IF t \in ItemUndo THEN 1 ELSE 0)
  BY <1>4, CountMove, Zenon
<1>10. /\ Cardinality(Using) \in Nat
       /\ Cardinality(Using') = Cardinality(Using) + (IF t \in Using' THEN 1 ELSE 0) - (IF t \in Using THEN 1 ELSE 0)
  BY <1>5, CountMove, Zenon
<1> QED BY <1>6, <1>7, <1>8, <1>9, <1>10

\* Neither list changes, and no cell is taken or given.
Quiet(t) ==
  /\ UNCHANGED <<HeadFreeNode, FreeNext, Top, Next, Data, cell, made>>
  /\ Others(t)

\* A step of that kind needs only be looked at where it changes something.
LEMMA QuietKeeps ==
  ASSUME CellInvariant, NEW t \in Threads, Quiet(t), CellTypeOK', PlaceOK(t)', ReadOK(t)', CountsOK'
  PROVE  CellInvariant'
<1>1. FreeCells' = FreeCells /\ Stacked' = Stacked
  BY DEF Quiet, FreeCells, Stacked
<1>2. ListsOK' /\ CellsApart'
  <2>1. UNCHANGED <<HeadFreeNode, FreeNext, Top, Next, cell, made>>
    BY DEF Quiet
  <2>2. ListsOK'
    BY <1>1, <2>1 DEF CellInvariant, ListsOK
  <2>3. CellsApart'
    BY <1>1, <2>1 DEF CellInvariant, CellsApart
  <2> QED BY <2>2, <2>3
<1>3. ASSUME NEW u \in Threads PROVE PlaceOK(u)' /\ ReadOK(u)'
  <2>1. CASE u = t
    BY <2>1
  <2>2. CASE u # t
    BY <2>2 DEF CellInvariant, PlacesOK, ReadsOK, PlaceOK, ReadOK, Quiet, Others, Same
  <2> QED BY <2>1, <2>2
<1> QED BY <1>2, <1>3 DEF CellInvariant, PlacesOK, ReadsOK

\* Where a thread is counted.
HasCell(l) == IF l \in {"aUndo", "aTop", "aNext", "aCas", "fSize"} THEN 1 ELSE 0
HasItem(l) == IF l \in {"oUndo", "oTop", "oNext", "oCas", "pSize"} THEN 1 ELSE 0
Uses(l, n) == IF n = 0 /\ l \in Holding \cup {"fSize"} THEN 1 ELSE 0
IsAt(l, m) == IF l = m THEN 1 ELSE 0

\* What a step takes from a count or adds to a list, it adds as one of the threads
\* that are counted with it.
LEMMA CountsStay ==
  ASSUME CellInvariant, NEW t \in Threads, Others(t), CellTypeOK', ListsOK',
         (FreeCellCnt' + HasCell(pc'[t])) - Len(FreeCells') = (FreeCellCnt + HasCell(pc[t])) - Len(FreeCells),
         (Size' + HasItem(pc'[t])) - Len(Stacked') = (Size + HasItem(pc[t])) - Len(Stacked),
         UseCellCnt' - Uses(pc'[t], left'[t]) - Len(Stacked') = UseCellCnt - Uses(pc[t], left[t]) - Len(Stacked),
         \/ FreeCellCnt' >= 0
         \/ FreeCellCnt' + IsAt(pc'[t], "aUndo") >= FreeCellCnt + IsAt(pc[t], "aUndo"),
         \/ Size' >= 0
         \/ Size' + IsAt(pc'[t], "oUndo") >= Size + IsAt(pc[t], "oUndo")
  PROVE  CountsOK'
<1> DEFINE
      c == FreeCellCnt   c2 == FreeCellCnt'   s == Size   s2 == Size'   u == UseCellCnt   u2 == UseCellCnt'
      f == Len(FreeCells)   f2 == Len(FreeCells')   d == Len(Stacked)   d2 == Len(Stacked')
      hc == HasCell(pc[t])   hc2 == HasCell(pc'[t])   hi == HasItem(pc[t])   hi2 == HasItem(pc'[t])
      hu == Uses(pc[t], left[t])   hu2 == Uses(pc'[t], left'[t])
      ac == IsAt(pc[t], "aUndo")   ac2 == IsAt(pc'[t], "aUndo")
      ai == IsAt(pc[t], "oUndo")   ai2 == IsAt(pc'[t], "oUndo")
      pc1 == Cardinality(PromisedCell)   pc2 == Cardinality(PromisedCell')
      pi1 == Cardinality(PromisedItem)   pi2 == Cardinality(PromisedItem')
      uc1 == Cardinality(CellUndo)   uc2 == Cardinality(CellUndo')
      ui1 == Cardinality(ItemUndo)   ui2 == Cardinality(ItemUndo')
      us1 == Cardinality(Using)   us2 == Cardinality(Using')
<1>1. f \in Nat /\ f2 \in Nat /\ d \in Nat /\ d2 \in Nat
  BY CellsOfList DEF CellInvariant, ListsOK
<1>2. /\ (t \in PromisedCell <=> pc[t] \in {"aUndo", "aTop", "aNext", "aCas", "fSize"})
      /\ (t \in PromisedCell' <=> pc'[t] \in {"aUndo", "aTop", "aNext", "aCas", "fSize"})
      /\ (t \in PromisedItem <=> pc[t] \in {"oUndo", "oTop", "oNext", "oCas", "pSize"})
      /\ (t \in PromisedItem' <=> pc'[t] \in {"oUndo", "oTop", "oNext", "oCas", "pSize"})
      /\ (t \in CellUndo <=> pc[t] = "aUndo") /\ (t \in CellUndo' <=> pc'[t] = "aUndo")
      /\ (t \in ItemUndo <=> pc[t] = "oUndo") /\ (t \in ItemUndo' <=> pc'[t] = "oUndo")
      /\ (t \in Using <=> left[t] = 0 /\ pc[t] \in Holding \cup {"fSize"})
      /\ (t \in Using' <=> left'[t] = 0 /\ pc'[t] \in Holding \cup {"fSize"})
  BY DEF PromisedCell, PromisedItem, CellUndo, ItemUndo, Standing, Using
<1>3. /\ pc1 \in Nat /\ pi1 \in Nat /\ uc1 \in Nat /\ ui1 \in Nat /\ us1 \in Nat
      /\ pc2 = pc1 + hc2 - hc /\ pi2 = pi1 + hi2 - hi
      /\ uc2 = uc1 + ac2 - ac /\ ui2 = ui1 + ai2 - ai /\ us2 = us1 + hu2 - hu
  BY <1>2, CountsMove DEF HasCell, HasItem, Uses, IsAt
<1>4. /\ hc \in {0, 1} /\ hc2 \in {0, 1} /\ hi \in {0, 1} /\ hi2 \in {0, 1} /\ hu \in {0, 1} /\ hu2 \in {0, 1}
      /\ ac \in {0, 1} /\ ac2 \in {0, 1} /\ ai \in {0, 1} /\ ai2 \in {0, 1}
  BY DEF HasCell, HasItem, Uses, IsAt
<1>5. uc2 \in Nat /\ ui2 \in Nat
  <2>1. CellUndo' \in SUBSET Threads /\ ItemUndo' \in SUBSET Threads
    BY DEF CellUndo, ItemUndo, Standing
  <2> QED BY <2>1, ThreadAssumption, FS_Subset, FS_CardinalityType
<1>6. c \in Int /\ c2 \in Int /\ s \in Int /\ s2 \in Int /\ u \in Int /\ u2 \in Int
  BY DEF CellInvariant, CellTypeOK
<1>7. c + pc1 = f /\ s + pi1 = d /\ c + uc1 >= 0 /\ s + ui1 >= 0 /\ u = d + us1
  BY DEF CellInvariant, CountsOK
<1>8. (c2 + hc2) - f2 = (c + hc) - f /\ (s2 + hi2) - d2 = (s + hi) - d /\ u2 - hu2 - d2 = u - hu - d
  OBVIOUS
<1>9. (c2 >= 0 \/ c2 + ac2 >= c + ac) /\ (s2 >= 0 \/ s2 + ai2 >= s + ai)
  OBVIOUS
<1> HIDE DEF c, c2, s, s2, u, u2, f, f2, d, d2, hc, hc2, hi, hi2, hu, hu2, ac, ac2, ai, ai2,
             pc1, pc2, pi1, pi2, uc1, uc2, ui1, ui2, us1, us2
<1>10. c2 + pc2 = f2 /\ s2 + pi2 = d2 /\ u2 = d2 + us2
  BY <1>1, <1>3, <1>4, <1>6, <1>7, <1>8
<1>11. c2 + uc2 >= 0 /\ s2 + ui2 >= 0
  BY <1>3, <1>4, <1>5, <1>6, <1>7, <1>9
<1>12. FreeCellCnt' + Cardinality(PromisedCell') = Len(FreeCells') /\ FreeCellCnt' + Cardinality(CellUndo') >= 0
  BY <1>10, <1>11 DEF c2, pc2, f2, uc2
<1>13. Size' + Cardinality(PromisedItem') = Len(Stacked') /\ Size' + Cardinality(ItemUndo') >= 0
  BY <1>10, <1>11 DEF s2, pi2, d2, ui2
<1>14. UseCellCnt' = Len(Stacked') + Cardinality(Using')
  BY <1>10 DEF u2, d2, us2
<1> QED BY <1>12, <1>13, <1>14 DEF CountsOK

\* The same for the steps that leave the lists alone.
LEMMA QuietCounts ==
  ASSUME CellInvariant, NEW t \in Threads, Quiet(t), CellTypeOK',
         FreeCellCnt' + HasCell(pc'[t]) = FreeCellCnt + HasCell(pc[t]),
         Size' + HasItem(pc'[t]) = Size + HasItem(pc[t]),
         UseCellCnt' - Uses(pc'[t], left'[t]) = UseCellCnt - Uses(pc[t], left[t]),
         \/ FreeCellCnt' >= 0
         \/ FreeCellCnt' + IsAt(pc'[t], "aUndo") >= FreeCellCnt + IsAt(pc[t], "aUndo"),
         \/ Size' >= 0
         \/ Size' + IsAt(pc'[t], "oUndo") >= Size + IsAt(pc[t], "oUndo")
  PROVE  CountsOK'
<1>1. FreeCells' = FreeCells /\ Stacked' = Stacked
  BY DEF Quiet, FreeCells, Stacked
<1>2. ListsOK' /\ Others(t)
  BY <1>1 DEF Quiet, CellInvariant, ListsOK
<1>3. (FreeCellCnt' + HasCell(pc'[t])) - Len(FreeCells') = (FreeCellCnt + HasCell(pc[t])) - Len(FreeCells)
  BY <1>1, Zenon
<1>4. (Size' + HasItem(pc'[t])) - Len(Stacked') = (Size + HasItem(pc[t])) - Len(Stacked)
  BY <1>1, Zenon
<1>5. UseCellCnt' - Uses(pc'[t], left'[t]) - Len(Stacked') = UseCellCnt - Uses(pc[t], left[t]) - Len(Stacked)
  BY <1>1, Zenon
<1> QED BY <1>2, <1>3, <1>4, <1>5, CountsStay, Zenon

\* The thread is inside an operation on a stack of cells.
Calm == UNCHANGED <<poolVars, val>>

\* Who was promised a cell finds one in the list.
LEMMA CellFound ==
  ASSUME CellInvariant, NEW t \in Threads, pc[t] \in {"aTop", "aNext", "aCas"}
  PROVE  HeadFreeNode.ptr # Null /\ HeadFreeNode.ptr \in Cells
<1>1. t \in PromisedCell /\ t \notin CellUndo /\ CellUndo \subseteq PromisedCell /\ PromisedCell \subseteq Threads
  BY DEF PromisedCell, CellUndo, Standing
<1>2. IsFiniteSet(PromisedCell) /\ IsFiniteSet(CellUndo)
  BY <1>1, ThreadAssumption, FS_Subset
<1>3. Cardinality(PromisedCell) \in Nat /\ Cardinality(CellUndo) \in Nat
  BY <1>2, FS_CardinalityType
<1>4. Cardinality(CellUndo) <= Cardinality(PromisedCell)
  BY <1>1, <1>2, FS_Subset
<1>5. Cardinality(CellUndo) # Cardinality(PromisedCell)
  BY <1>1, <1>2, FS_Subset
<1>6. FreeCellCnt \in Int /\ FreeCellCnt + Cardinality(PromisedCell) = Len(FreeCells) /\ FreeCellCnt + Cardinality(CellUndo) >= 0
  BY DEF CellInvariant, CellTypeOK, CountsOK
<1>7. Len(FreeCells) # 0
  BY <1>3, <1>4, <1>5, <1>6
<1> QED BY <1>7, CellsOfList DEF CellInvariant, ListsOK, CellTypeOK, Words, Links

\* Who was promised an item finds one on the stack.
LEMMA ItemFound ==
  ASSUME CellInvariant, NEW t \in Threads, pc[t] \in {"oTop", "oNext", "oCas"}
  PROVE  Top.ptr # Null /\ Top.ptr \in Cells
<1>1. t \in PromisedItem /\ t \notin ItemUndo /\ ItemUndo \subseteq PromisedItem /\ PromisedItem \subseteq Threads
  BY DEF PromisedItem, ItemUndo, Standing
<1>2. IsFiniteSet(PromisedItem) /\ IsFiniteSet(ItemUndo)
  BY <1>1, ThreadAssumption, FS_Subset
<1>3. Cardinality(PromisedItem) \in Nat /\ Cardinality(ItemUndo) \in Nat
  BY <1>2, FS_CardinalityType
<1>4. Cardinality(ItemUndo) <= Cardinality(PromisedItem)
  BY <1>1, <1>2, FS_Subset
<1>5. Cardinality(ItemUndo) # Cardinality(PromisedItem)
  BY <1>1, <1>2, FS_Subset
<1>6. Size \in Int /\ Size + Cardinality(PromisedItem) = Len(Stacked) /\ Size + Cardinality(ItemUndo) >= 0
  BY DEF CellInvariant, CellTypeOK, CountsOK
<1>7. Len(Stacked) # 0
  BY <1>3, <1>4, <1>5, <1>6
<1> QED BY <1>7, CellsOfList DEF CellInvariant, ListsOK, CellTypeOK, Words, Links

\* The first steps of Alloc of the cell pool, and those that read.
LEMMA AllocReserveKeeps ==
  ASSUME CellInvariant, NEW t \in Threads, AllocReserve(t), Calm, UNCHANGED stackVars
  PROVE  CellInvariant'
<1>1. /\ pc[t] = "aReserve" /\ pc'[t] = IF FreeCellCnt <= 0 THEN "aUndo" ELSE "aTop"
      /\ left[t] = 0 /\ left'[t] = 0 /\ FreeCellCnt' = FreeCellCnt - 1 /\ FreeCellCnt \in Int
      /\ Size' = Size /\ UseCellCnt' = UseCellCnt /\ Size \in Int /\ UseCellCnt \in Int
  BY DEF AllocReserve, At, Goto, NothingLeft, stackVars, CellInvariant, CellTypeOK, PlacesOK, PlaceOK
<1>2. Quiet(t)
  BY DEF Quiet, Others, Same, AllocReserve, Goto, Calm, stackVars, poolVars, CellInvariant, CellTypeOK
<1>3. CellTypeOK'
  BY <1>1 DEF AllocReserve, Goto, NothingLeft, Calm, stackVars, CellInvariant, CellTypeOK, Places
<1>4. PlaceOK(t)' /\ ReadOK(t)'
  BY <1>1 DEF PlaceOK, ReadOK, AllocReserve, Calm, stackVars, poolVars, CellInvariant, PlacesOK, Holding
<1>5. CountsOK'
  BY <1>1, <1>2, <1>3, QuietCounts DEF HasCell, HasItem, Uses, IsAt, Holding
<1> QED BY <1>2, <1>3, <1>4, <1>5, QuietKeeps

\* Alloc takes its decrement back and is to make new cells.
LEMMA AllocUndoKeeps ==
  ASSUME CellInvariant, NEW t \in Threads, AllocUndo(t), Calm, UNCHANGED stackVars
  PROVE  CellInvariant'
<1>1. /\ pc[t] = "aUndo" /\ pc'[t] = "aNew"
      /\ MemoryAllocSize \in Nat \ {0} /\ left'[t] = MemoryAllocSize /\ FreeCellCnt' = FreeCellCnt + 1
      /\ Size' = Size /\ UseCellCnt' = UseCellCnt
      /\ Size \in Int /\ UseCellCnt \in Int /\ FreeCellCnt \in Int
  BY AllocAssumption, CellAssumption, FS_CardinalityType DEF AllocUndo, Goto, ForgetTop, stackVars, poolVars, cellVars, freeVars, localVars, Calm, At, NothingLeft, CellInvariant, CellTypeOK, PlacesOK, PlaceOK, Holding
<1>2. Quiet(t)
  BY DEF Quiet, Others, Same, AllocUndo, Goto, ForgetTop, stackVars, poolVars, cellVars, freeVars, localVars, Calm, CellInvariant, CellTypeOK
<1>3. CellTypeOK'
  BY <1>1 DEF AllocUndo, Goto, ForgetTop, stackVars, poolVars, cellVars, freeVars, localVars, Calm, NothingLeft, CellInvariant, CellTypeOK, Places, Links, Words, Ptr, NoPtr
<1>4. PlaceOK(t)' /\ ReadOK(t)'
  BY <1>1 DEF PlaceOK, ReadOK, AllocUndo, Goto, ForgetTop, stackVars, poolVars, cellVars, freeVars, localVars, Calm, CellInvariant, CellTypeOK, PlacesOK, ReadsOK, Holding
<1>5. CountsOK'
  BY <1>1, <1>2, <1>3, QuietCounts DEF HasCell, HasItem, Uses, IsAt, Holding
<1> QED BY <1>2, <1>3, <1>4, <1>5, QuietKeeps

\* Alloc reads the first free cell.
LEMMA AllocReadTopKeeps ==
  ASSUME CellInvariant, NEW t \in Threads, AllocReadTop(t), Calm, UNCHANGED stackVars
  PROVE  CellInvariant'
<1>1. /\ pc[t] = "aTop" /\ pc'[t] = "aNext" /\ left[t] = 0 /\ left'[t] = 0 /\ old'[t] = HeadFreeNode
      /\ cell'[t] = cell[t] /\ cell[t] = Null /\ HeadFreeNode.ptr # Null
      /\ Size' = Size /\ UseCellCnt' = UseCellCnt /\ FreeCellCnt' = FreeCellCnt
      /\ Size \in Int /\ UseCellCnt \in Int /\ FreeCellCnt \in Int
  BY CellFound DEF AllocReadTop, Goto, ForgetTop, stackVars, poolVars, cellVars, freeVars, localVars, Calm, At, NothingLeft, CellInvariant, CellTypeOK, PlacesOK, PlaceOK, Holding
<1>2. Quiet(t)
  BY DEF Quiet, Others, Same, AllocReadTop, Goto, ForgetTop, stackVars, poolVars, cellVars, freeVars, localVars, Calm, CellInvariant, CellTypeOK
<1>3. CellTypeOK'
  BY <1>1 DEF AllocReadTop, Goto, ForgetTop, stackVars, poolVars, cellVars, freeVars, localVars, Calm, NothingLeft, CellInvariant, CellTypeOK, Places, Links, Words, Ptr, NoPtr
<1>4. PlaceOK(t)' /\ ReadOK(t)'
  BY <1>1 DEF PlaceOK, ReadOK, AllocReadTop, Goto, ForgetTop, stackVars, poolVars, cellVars, freeVars, localVars, Calm, CellInvariant, CellTypeOK, PlacesOK, ReadsOK, Holding
<1>5. CountsOK'
  BY <1>1, <1>2, <1>3, QuietCounts DEF HasCell, HasItem, Uses, IsAt, Holding
<1> QED BY <1>2, <1>3, <1>4, <1>5, QuietKeeps

\* Alloc reads the cell behind it.
LEMMA AllocReadNextKeeps ==
  ASSUME CellInvariant, NEW t \in Threads, AllocReadNext(t), Calm, UNCHANGED stackVars
  PROVE  CellInvariant'
<1>1. /\ pc[t] = "aNext" /\ pc'[t] = "aCas" /\ left[t] = 0 /\ left'[t] = 0 /\ old'[t] = old[t] /\ old[t].ptr # Null
      /\ cell'[t] = cell[t] /\ cell[t] = Null /\ old[t].ptr \in Cells /\ nxt'[t] = FreeNext[old[t].ptr]
      /\ Size' = Size /\ UseCellCnt' = UseCellCnt /\ FreeCellCnt' = FreeCellCnt
      /\ Size \in Int /\ UseCellCnt \in Int /\ FreeCellCnt \in Int
  BY DEF AllocReadNext, Words, Links, Goto, ForgetTop, stackVars, poolVars, cellVars, freeVars, localVars, Calm, At, NothingLeft, CellInvariant, CellTypeOK, PlacesOK, PlaceOK, Holding
<1>2. Quiet(t)
  BY DEF Quiet, Others, Same, AllocReadNext, Words, Links, Goto, ForgetTop, stackVars, poolVars, cellVars, freeVars, localVars, Calm, CellInvariant, CellTypeOK
<1>3. CellTypeOK'
  BY <1>1 DEF AllocReadNext, Words, Links, Goto, ForgetTop, stackVars, poolVars, cellVars, freeVars, localVars, Calm, NothingLeft, CellInvariant, CellTypeOK, Places, Links, Words, Ptr, NoPtr
<1>4. PlaceOK(t)' /\ ReadOK(t)'
  BY <1>1 DEF PlaceOK, ReadOK, AllocReadNext, Words, Links, Goto, ForgetTop, stackVars, poolVars, cellVars, freeVars, localVars, Calm, CellInvariant, CellTypeOK, PlacesOK, ReadsOK, Holding
<1>5. CountsOK'
  BY <1>1, <1>2, <1>3, QuietCounts DEF HasCell, HasItem, Uses, IsAt, Holding
<1> QED BY <1>2, <1>3, <1>4, <1>5, QuietKeeps

\* A new cell is counted.
LEMMA NewNodeCountKeeps ==
  ASSUME CellInvariant, NEW t \in Threads, NewNodeCount(t), Calm, UNCHANGED stackVars
  PROVE  CellInvariant'
<1>1. /\ pc[t] = "fSize" /\ pc'[t] = IF left[t] = 1 THEN "aReserve" ELSE "aNew"
      /\ left[t] \in Nat \ {0} /\ left'[t] = left[t] - 1
      /\ cell'[t] = cell[t] /\ cell[t] = Null /\ FreeCellCnt' = FreeCellCnt + 1
      /\ Size' = Size /\ UseCellCnt' = UseCellCnt
      /\ Size \in Int /\ UseCellCnt \in Int /\ FreeCellCnt \in Int
  BY DEF NewNodeCount, Goto, ForgetTop, stackVars, poolVars, cellVars, freeVars, localVars, Calm, At, NothingLeft, CellInvariant, CellTypeOK, PlacesOK, PlaceOK, Holding
<1>2. Quiet(t)
  BY DEF Quiet, Others, Same, NewNodeCount, Goto, ForgetTop, stackVars, poolVars, cellVars, freeVars, localVars, Calm, CellInvariant, CellTypeOK
<1>3. CellTypeOK'
  BY <1>1 DEF NewNodeCount, Goto, ForgetTop, stackVars, poolVars, cellVars, freeVars, localVars, Calm, NothingLeft, CellInvariant, CellTypeOK, Places, Links, Words, Ptr, NoPtr
<1>4. PlaceOK(t)' /\ ReadOK(t)'
  BY <1>1 DEF PlaceOK, ReadOK, NewNodeCount, Goto, ForgetTop, stackVars, poolVars, cellVars, freeVars, localVars, Calm, CellInvariant, CellTypeOK, PlacesOK, ReadsOK, Holding
<1>5. CountsOK'
  BY <1>1, <1>2, <1>3, QuietCounts DEF HasCell, HasItem, Uses, IsAt, Holding
<1> QED BY <1>2, <1>3, <1>4, <1>5, QuietKeeps

\* A Push is counted.
LEMMA PushCountKeeps ==
  ASSUME CellInvariant, NEW t \in Threads, PushCount(t), Calm
  PROVE  CellInvariant'
<1>1. /\ pc[t] = "pSize" /\ pc'[t] = "idle" /\ left[t] = 0 /\ left'[t] = 0
      /\ cell'[t] = cell[t] /\ cell[t] = Null /\ Size' = Size + 1
      /\ FreeCellCnt' = FreeCellCnt /\ UseCellCnt' = UseCellCnt
      /\ Size \in Int /\ UseCellCnt \in Int /\ FreeCellCnt \in Int
  BY DEF PushCount, Goto, ForgetTop, stackVars, poolVars, cellVars, freeVars, localVars, Calm, At, NothingLeft, CellInvariant, CellTypeOK, PlacesOK, PlaceOK, Holding
<1>2. Quiet(t)
  BY DEF Quiet, Others, Same, PushCount, Goto, ForgetTop, stackVars, poolVars, cellVars, freeVars, localVars, Calm, CellInvariant, CellTypeOK
<1>3. CellTypeOK'
  BY <1>1 DEF PushCount, Goto, ForgetTop, stackVars, poolVars, cellVars, freeVars, localVars, Calm, NothingLeft, CellInvariant, CellTypeOK, Places, Links, Words, Ptr, NoPtr
<1>4. PlaceOK(t)' /\ ReadOK(t)'
  BY <1>1 DEF PlaceOK, ReadOK, PushCount, Goto, ForgetTop, stackVars, poolVars, cellVars, freeVars, localVars, Calm, CellInvariant, CellTypeOK, PlacesOK, ReadsOK, Holding
<1>5. CountsOK'
  BY <1>1, <1>2, <1>3, QuietCounts DEF HasCell, HasItem, Uses, IsAt, Holding
<1> QED BY <1>2, <1>3, <1>4, <1>5, QuietKeeps

\* Pop reads the top.
LEMMA PopReadTopKeeps ==
  ASSUME CellInvariant, NEW t \in Threads, PopReadTop(t), Calm
  PROVE  CellInvariant'
<1>1. /\ pc[t] = "oTop" /\ pc'[t] = "oNext" /\ left[t] = 0 /\ left'[t] = 0 /\ old'[t] = Top /\ stage'[t] = "alloc"
      /\ cell'[t] = cell[t] /\ cell[t] = Null /\ Top.ptr # Null
      /\ Size' = Size /\ UseCellCnt' = UseCellCnt /\ FreeCellCnt' = FreeCellCnt
      /\ Size \in Int /\ UseCellCnt \in Int /\ FreeCellCnt \in Int
  BY ItemFound DEF PopReadTop, Goto, ForgetTop, stackVars, poolVars, cellVars, freeVars, localVars, Calm, At, NothingLeft, CellInvariant, CellTypeOK, PlacesOK, PlaceOK, Holding
<1>2. Quiet(t)
  BY DEF Quiet, Others, Same, PopReadTop, Goto, ForgetTop, stackVars, poolVars, cellVars, freeVars, localVars, Calm, CellInvariant, CellTypeOK
<1>3. CellTypeOK'
  BY <1>1 DEF PopReadTop, Goto, ForgetTop, stackVars, poolVars, cellVars, freeVars, localVars, Calm, NothingLeft, CellInvariant, CellTypeOK, Places, Links, Words, Ptr, NoPtr
<1>4. PlaceOK(t)' /\ ReadOK(t)'
  BY <1>1 DEF PlaceOK, ReadOK, PopReadTop, Goto, ForgetTop, stackVars, poolVars, cellVars, freeVars, localVars, Calm, CellInvariant, CellTypeOK, PlacesOK, ReadsOK, Holding
<1>5. CountsOK'
  BY <1>1, <1>2, <1>3, QuietCounts DEF HasCell, HasItem, Uses, IsAt, Holding
<1> QED BY <1>2, <1>3, <1>4, <1>5, QuietKeeps

\* Pop reads the cell below it.
LEMMA PopReadNextKeeps ==
  ASSUME CellInvariant, NEW t \in Threads, PopReadNext(t), Calm
  PROVE  CellInvariant'
<1>1. /\ pc[t] = "oNext" /\ pc'[t] = "oCas" /\ left[t] = 0 /\ left'[t] = 0 /\ old'[t] = old[t] /\ old[t].ptr # Null /\ stage'[t] = "alloc"
      /\ cell'[t] = cell[t] /\ cell[t] = Null /\ old[t].ptr \in Cells /\ nxt'[t] = Next[old[t].ptr]
      /\ Size' = Size /\ UseCellCnt' = UseCellCnt /\ FreeCellCnt' = FreeCellCnt
      /\ Size \in Int /\ UseCellCnt \in Int /\ FreeCellCnt \in Int
  BY DEF PopReadNext, Words, Links, Goto, ForgetTop, stackVars, poolVars, cellVars, freeVars, localVars, Calm, At, NothingLeft, CellInvariant, CellTypeOK, PlacesOK, PlaceOK, Holding
<1>2. Quiet(t)
  BY DEF Quiet, Others, Same, PopReadNext, Words, Links, Goto, ForgetTop, stackVars, poolVars, cellVars, freeVars, localVars, Calm, CellInvariant, CellTypeOK
<1>3. CellTypeOK'
  BY <1>1 DEF PopReadNext, Words, Links, Goto, ForgetTop, stackVars, poolVars, cellVars, freeVars, localVars, Calm, NothingLeft, CellInvariant, CellTypeOK, Places, Links, Words, Ptr, NoPtr
<1>4. PlaceOK(t)' /\ ReadOK(t)'
  BY <1>1 DEF PlaceOK, ReadOK, PopReadNext, Words, Links, Goto, ForgetTop, stackVars, poolVars, cellVars, freeVars, localVars, Calm, CellInvariant, CellTypeOK, PlacesOK, ReadsOK, Holding
<1>5. CountsOK'
  BY <1>1, <1>2, <1>3, QuietCounts DEF HasCell, HasItem, Uses, IsAt, Holding
<1> QED BY <1>2, <1>3, <1>4, <1>5, QuietKeeps

\* Another thread was faster: Alloc tries again.
LEMMA AllocCasFailsKeeps ==
  ASSUME CellInvariant, NEW t \in Threads, AllocCas(t), HeadFreeNode # old[t], Calm, UNCHANGED stackVars
  PROVE  CellInvariant'
<1>1. /\ pc[t] = "aCas" /\ pc'[t] = "aTop" /\ left'[t] = left[t] /\ left[t] = 0
      /\ cell'[t] = cell[t] /\ cell[t] = Null
      /\ Size' = Size /\ UseCellCnt' = UseCellCnt /\ FreeCellCnt' = FreeCellCnt
      /\ Size \in Int /\ UseCellCnt \in Int /\ FreeCellCnt \in Int
  BY DEF AllocCas, SameTop, Goto, ForgetTop, stackVars, poolVars, cellVars, freeVars, localVars, Calm, At, NothingLeft, CellInvariant, CellTypeOK, PlacesOK, PlaceOK, Holding
<1>2. Quiet(t)
  BY DEF Quiet, Others, Same, AllocCas, SameTop, Goto, ForgetTop, stackVars, poolVars, cellVars, freeVars, localVars, Calm, CellInvariant, CellTypeOK
<1>3. CellTypeOK'
  BY <1>1 DEF AllocCas, SameTop, Goto, ForgetTop, stackVars, poolVars, cellVars, freeVars, localVars, Calm, NothingLeft, CellInvariant, CellTypeOK, Places, Links, Words, Ptr, NoPtr
<1>4. PlaceOK(t)' /\ ReadOK(t)'
  BY <1>1 DEF PlaceOK, ReadOK, AllocCas, SameTop, Goto, ForgetTop, stackVars, poolVars, cellVars, freeVars, localVars, Calm, CellInvariant, CellTypeOK, PlacesOK, ReadsOK, Holding
<1>5. CountsOK'
  BY <1>1, <1>2, <1>3, QuietCounts DEF HasCell, HasItem, Uses, IsAt, Holding
<1> QED BY <1>2, <1>3, <1>4, <1>5, QuietKeeps

\* Free tries again.
LEMMA FreeCasFailsKeeps ==
  ASSUME CellInvariant, NEW t \in Threads, FreeCas(t), HeadFreeNode # old[t], Calm, UNCHANGED stackVars
  PROVE  CellInvariant'
<1>1. /\ pc[t] = "fCas" /\ pc'[t] = "fTop" /\ left'[t] = left[t]
      /\ cell'[t] = cell[t] /\ cell[t] # Null
      /\ Size' = Size /\ UseCellCnt' = UseCellCnt /\ FreeCellCnt' = FreeCellCnt
      /\ Size \in Int /\ UseCellCnt \in Int /\ FreeCellCnt \in Int
  BY DEF FreeCas, SameTop, Goto, ForgetTop, stackVars, poolVars, cellVars, freeVars, localVars, Calm, At, NothingLeft, CellInvariant, CellTypeOK, PlacesOK, PlaceOK, Holding
<1>2. Quiet(t)
  BY DEF Quiet, Others, Same, FreeCas, SameTop, Goto, ForgetTop, stackVars, poolVars, cellVars, freeVars, localVars, Calm, CellInvariant, CellTypeOK
<1>3. CellTypeOK'
  BY <1>1 DEF FreeCas, SameTop, Goto, ForgetTop, stackVars, poolVars, cellVars, freeVars, localVars, Calm, NothingLeft, CellInvariant, CellTypeOK, Places, Links, Words, Ptr, NoPtr
<1>4. PlaceOK(t)' /\ ReadOK(t)'
  BY <1>1 DEF PlaceOK, ReadOK, FreeCas, SameTop, Goto, ForgetTop, stackVars, poolVars, cellVars, freeVars, localVars, Calm, CellInvariant, CellTypeOK, PlacesOK, ReadsOK, Holding
<1>5. CountsOK'
  BY <1>1, <1>2, <1>3, QuietCounts DEF HasCell, HasItem, Uses, IsAt, Holding
<1> QED BY <1>2, <1>3, <1>4, <1>5, QuietKeeps

\* Push tries again.
LEMMA PushCasFailsKeeps ==
  ASSUME CellInvariant, NEW t \in Threads, PushCas(t), Top # old[t], Calm
  PROVE  CellInvariant'
<1>1. /\ pc[t] = "pCas" /\ pc'[t] = "pTop" /\ left'[t] = left[t] /\ left[t] = 0
      /\ cell'[t] = cell[t] /\ cell[t] # Null
      /\ Size' = Size /\ UseCellCnt' = UseCellCnt /\ FreeCellCnt' = FreeCellCnt
      /\ Size \in Int /\ UseCellCnt \in Int /\ FreeCellCnt \in Int
  BY DEF PushCas, SameTop, Goto, ForgetTop, stackVars, poolVars, cellVars, freeVars, localVars, Calm, At, NothingLeft, CellInvariant, CellTypeOK, PlacesOK, PlaceOK, Holding
<1>2. Quiet(t)
  BY DEF Quiet, Others, Same, PushCas, SameTop, Goto, ForgetTop, stackVars, poolVars, cellVars, freeVars, localVars, Calm, CellInvariant, CellTypeOK
<1>3. CellTypeOK'
  BY <1>1 DEF PushCas, SameTop, Goto, ForgetTop, stackVars, poolVars, cellVars, freeVars, localVars, Calm, NothingLeft, CellInvariant, CellTypeOK, Places, Links, Words, Ptr, NoPtr
<1>4. PlaceOK(t)' /\ ReadOK(t)'
  BY <1>1 DEF PlaceOK, ReadOK, PushCas, SameTop, Goto, ForgetTop, stackVars, poolVars, cellVars, freeVars, localVars, Calm, CellInvariant, CellTypeOK, PlacesOK, ReadsOK, Holding
<1>5. CountsOK'
  BY <1>1, <1>2, <1>3, QuietCounts DEF HasCell, HasItem, Uses, IsAt, Holding
<1> QED BY <1>2, <1>3, <1>4, <1>5, QuietKeeps

\* Pop tries again.
LEMMA PopCasFailsKeeps ==
  ASSUME CellInvariant, NEW t \in Threads, PopCas(t), Top # old[t], Calm
  PROVE  CellInvariant'
<1>1. /\ pc[t] = "oCas" /\ pc'[t] = "oTop" /\ left'[t] = left[t] /\ left[t] = 0
      /\ cell'[t] = cell[t] /\ cell[t] = Null
      /\ Size' = Size /\ UseCellCnt' = UseCellCnt /\ FreeCellCnt' = FreeCellCnt
      /\ Size \in Int /\ UseCellCnt \in Int /\ FreeCellCnt \in Int
  BY DEF PopCas, SameTop, Goto, ForgetTop, stackVars, poolVars, cellVars, freeVars, localVars, Calm, At, NothingLeft, CellInvariant, CellTypeOK, PlacesOK, PlaceOK, Holding
<1>2. Quiet(t)
  BY DEF Quiet, Others, Same, PopCas, SameTop, Goto, ForgetTop, stackVars, poolVars, cellVars, freeVars, localVars, Calm, CellInvariant, CellTypeOK
<1>3. CellTypeOK'
  BY <1>1 DEF PopCas, SameTop, Goto, ForgetTop, stackVars, poolVars, cellVars, freeVars, localVars, Calm, NothingLeft, CellInvariant, CellTypeOK, Places, Links, Words, Ptr, NoPtr
<1>4. PlaceOK(t)' /\ ReadOK(t)'
  BY <1>1 DEF PlaceOK, ReadOK, PopCas, SameTop, Goto, ForgetTop, stackVars, poolVars, cellVars, freeVars, localVars, Calm, CellInvariant, CellTypeOK, PlacesOK, ReadsOK, Holding
<1>5. CountsOK'
  BY <1>1, <1>2, <1>3, QuietCounts DEF HasCell, HasItem, Uses, IsAt, Holding
<1> QED BY <1>2, <1>3, <1>4, <1>5, QuietKeeps

\* The cell is counted, and the thread uses its chunk.
LEMMA EndPopKeeps ==
  ASSUME CellInvariant, NEW t \in Threads, EndPop(t), PoolTypeOK, PoolTypeOK'
  PROVE  CellInvariant'
<1>1. /\ pc[t] = "fSize" /\ pc'[t] = "idle" /\ left[t] = 0 /\ left'[t] = 0
      /\ cell'[t] = cell[t] /\ cell[t] = Null /\ FreeCellCnt' = FreeCellCnt + 1 /\ UseCellCnt' = UseCellCnt - 1
      /\ stage'[t] = "idle" /\ Size' = Size
      /\ Size \in Int /\ UseCellCnt \in Int /\ FreeCellCnt \in Int
  BY DEF EndPop, FreeCount, UseChunck, NoItem, Goto, ForgetTop, stackVars, poolVars, cellVars, freeVars, localVars, PoolTypeOK, At, NothingLeft, CellInvariant, CellTypeOK, PlacesOK, PlaceOK, Holding
<1>2. Quiet(t)
  BY DEF Quiet, Others, Same, EndPop, FreeCount, UseChunck, NoItem, Goto, ForgetTop, stackVars, poolVars, cellVars, freeVars, localVars, PoolTypeOK, CellInvariant, CellTypeOK
<1>3. CellTypeOK'
  BY <1>1 DEF EndPop, FreeCount, UseChunck, NoItem, Goto, ForgetTop, stackVars, poolVars, cellVars, freeVars, localVars, PoolTypeOK, NothingLeft, CellInvariant, CellTypeOK, Places, Links, Words, Ptr, NoPtr
<1>4. PlaceOK(t)' /\ ReadOK(t)'
  BY <1>1 DEF PlaceOK, ReadOK, EndPop, FreeCount, UseChunck, NoItem, Goto, ForgetTop, stackVars, poolVars, cellVars, freeVars, localVars, PoolTypeOK, CellInvariant, CellTypeOK, PlacesOK, ReadsOK, Holding
<1>5. CountsOK'
  BY <1>1, <1>2, <1>3, QuietCounts DEF HasCell, HasItem, Uses, IsAt, Holding
<1> QED BY <1>2, <1>3, <1>4, <1>5, QuietKeeps

\* Pop takes one off Size.
LEMMA BeginPopKeeps ==
  ASSUME CellInvariant, NEW t \in Threads, BeginPop(t), PoolTypeOK, PoolTypeOK'
  PROVE  CellInvariant'
<1>1. /\ pc[t] = "idle" /\ pc'[t] = IF Size <= 0 THEN "oUndo" ELSE "oTop"
      /\ left[t] = 0 /\ left'[t] = 0 /\ Size' = Size - 1
      /\ cell'[t] = cell[t] /\ cell[t] = Null /\ stage'[t] = "alloc"
      /\ FreeCellCnt' = FreeCellCnt /\ UseCellCnt' = UseCellCnt
      /\ Size \in Int /\ UseCellCnt \in Int /\ FreeCellCnt \in Int
  BY DEF BeginPop, PopReserve, AllocNeedsChunck, Goto, ForgetTop, stackVars, poolVars, cellVars, freeVars, localVars, PoolTypeOK, At, NothingLeft, CellInvariant, CellTypeOK, PlacesOK, PlaceOK, Holding
<1>2. Quiet(t)
  BY DEF Quiet, Others, Same, BeginPop, PopReserve, AllocNeedsChunck, Goto, ForgetTop, stackVars, poolVars, cellVars, freeVars, localVars, PoolTypeOK, CellInvariant, CellTypeOK
<1>3. CellTypeOK'
  BY <1>1 DEF BeginPop, PopReserve, AllocNeedsChunck, Goto, ForgetTop, stackVars, poolVars, cellVars, freeVars, localVars, PoolTypeOK, NothingLeft, CellInvariant, CellTypeOK, Places, Links, Words, Ptr, NoPtr
<1>4. PlaceOK(t)' /\ ReadOK(t)'
  BY <1>1 DEF PlaceOK, ReadOK, BeginPop, PopReserve, AllocNeedsChunck, Goto, ForgetTop, stackVars, poolVars, cellVars, freeVars, localVars, PoolTypeOK, CellInvariant, CellTypeOK, PlacesOK, ReadsOK, Holding
<1>5. CountsOK'
  BY <1>1, <1>2, <1>3, QuietCounts DEF HasCell, HasItem, Uses, IsAt, Holding
<1> QED BY <1>2, <1>3, <1>4, <1>5, QuietKeeps

\* Pop takes its decrement back.
LEMMA PopFailsKeeps ==
  ASSUME CellInvariant, NEW t \in Threads, PopFails(t), PoolTypeOK, PoolTypeOK'
  PROVE  CellInvariant'
<1>1. /\ pc[t] = "oUndo" /\ pc'[t] = "idle"
      /\ left[t] = 0 /\ left'[t] = 0 /\ Size' = Size + 1
      /\ cell'[t] = cell[t] /\ cell[t] = Null /\ stage'[t] = "none"
      /\ FreeCellCnt' = FreeCellCnt /\ UseCellCnt' = UseCellCnt
      /\ Size \in Int /\ UseCellCnt \in Int /\ FreeCellCnt \in Int
  BY DEF PopFails, PopUndo, NoChunck, Goto, ForgetTop, stackVars, poolVars, cellVars, freeVars, localVars, PoolTypeOK, At, NothingLeft, CellInvariant, CellTypeOK, PlacesOK, PlaceOK, Holding
<1>2. Quiet(t)
  BY DEF Quiet, Others, Same, PopFails, PopUndo, NoChunck, Goto, ForgetTop, stackVars, poolVars, cellVars, freeVars, localVars, PoolTypeOK, CellInvariant, CellTypeOK
<1>3. CellTypeOK'
  BY <1>1 DEF PopFails, PopUndo, NoChunck, Goto, ForgetTop, stackVars, poolVars, cellVars, freeVars, localVars, PoolTypeOK, NothingLeft, CellInvariant, CellTypeOK, Places, Links, Words, Ptr, NoPtr
<1>4. PlaceOK(t)' /\ ReadOK(t)'
  BY <1>1 DEF PlaceOK, ReadOK, PopFails, PopUndo, NoChunck, Goto, ForgetTop, stackVars, poolVars, cellVars, freeVars, localVars, PoolTypeOK, CellInvariant, CellTypeOK, PlacesOK, ReadsOK, Holding
<1>5. CountsOK'
  BY <1>1, <1>2, <1>3, QuietCounts DEF HasCell, HasItem, Uses, IsAt, Holding
<1> QED BY <1>2, <1>3, <1>4, <1>5, QuietKeeps

\* An Alloc from the thread's own list.
LEMMA AllocKeeps ==
  ASSUME CellInvariant, NEW t \in Threads, Outside(t), Alloc(t), PoolTypeOK, PoolTypeOK'
  PROVE  CellInvariant'
<1>1. /\ pc'[t] = pc[t] /\ left'[t] = left[t] /\ pc[t] \notin {"oTop", "oNext", "oCas"}
      /\ stage'[t] # "free"
      /\ Size' = Size /\ UseCellCnt' = UseCellCnt /\ FreeCellCnt' = FreeCellCnt
      /\ Size \in Int /\ UseCellCnt \in Int /\ FreeCellCnt \in Int
  BY DEF Outside, Alloc, AllocOwn, Goto, ForgetTop, stackVars, poolVars, cellVars, freeVars, localVars, PoolTypeOK, At, NothingLeft, CellInvariant, CellTypeOK, PlacesOK, PlaceOK, Holding
<1>2. Quiet(t)
  BY DEF Quiet, Others, Same, Outside, Alloc, AllocOwn, Goto, ForgetTop, stackVars, poolVars, cellVars, freeVars, localVars, PoolTypeOK, CellInvariant, CellTypeOK
<1>3. CellTypeOK'
  BY <1>1 DEF Outside, Alloc, AllocOwn, Goto, ForgetTop, stackVars, poolVars, cellVars, freeVars, localVars, PoolTypeOK, NothingLeft, CellInvariant, CellTypeOK, Places, Links, Words, Ptr, NoPtr
<1>4. PlaceOK(t)' /\ ReadOK(t)'
  BY <1>1 DEF PlaceOK, ReadOK, Outside, Alloc, AllocOwn, Goto, ForgetTop, stackVars, poolVars, cellVars, freeVars, localVars, PoolTypeOK, CellInvariant, CellTypeOK, PlacesOK, ReadsOK, Holding
<1>5. CountsOK'
  BY <1>1, <1>2, <1>3, QuietCounts DEF HasCell, HasItem, Uses, IsAt, Holding
<1> QED BY <1>2, <1>3, <1>4, <1>5, QuietKeeps

\* An Alloc of new nodes.
LEMMA AllocNewKeeps ==
  ASSUME CellInvariant, NEW t \in Threads, AllocNew(t), PoolTypeOK, PoolTypeOK'
  PROVE  CellInvariant'
<1>1. /\ pc'[t] = pc[t] /\ left'[t] = left[t] /\ pc[t] \notin {"oTop", "oNext", "oCas"}
      /\ stage'[t] # "free"
      /\ Size' = Size /\ UseCellCnt' = UseCellCnt /\ FreeCellCnt' = FreeCellCnt
      /\ Size \in Int /\ UseCellCnt \in Int /\ FreeCellCnt \in Int
  BY DEF AllocNew, NewNodeList, Goto, ForgetTop, stackVars, poolVars, cellVars, freeVars, localVars, PoolTypeOK, At, NothingLeft, CellInvariant, CellTypeOK, PlacesOK, PlaceOK, Holding
<1>2. Quiet(t)
  BY DEF Quiet, Others, Same, AllocNew, NewNodeList, Goto, ForgetTop, stackVars, poolVars, cellVars, freeVars, localVars, PoolTypeOK, CellInvariant, CellTypeOK
<1>3. CellTypeOK'
  BY <1>1 DEF AllocNew, NewNodeList, Goto, ForgetTop, stackVars, poolVars, cellVars, freeVars, localVars, PoolTypeOK, NothingLeft, CellInvariant, CellTypeOK, Places, Links, Words, Ptr, NoPtr
<1>4. PlaceOK(t)' /\ ReadOK(t)'
  BY <1>1 DEF PlaceOK, ReadOK, AllocNew, NewNodeList, Goto, ForgetTop, stackVars, poolVars, cellVars, freeVars, localVars, PoolTypeOK, CellInvariant, CellTypeOK, PlacesOK, ReadsOK, Holding
<1>5. CountsOK'
  BY <1>1, <1>2, <1>3, QuietCounts DEF HasCell, HasItem, Uses, IsAt, Holding
<1> QED BY <1>2, <1>3, <1>4, <1>5, QuietKeeps

\* A thread ends.
LEMMA EndKeeps ==
  ASSUME CellInvariant, NEW t \in Threads, Outside(t), End(t), PoolTypeOK, PoolTypeOK'
  PROVE  CellInvariant'
<1>1. /\ pc'[t] = pc[t] /\ left'[t] = left[t] /\ pc[t] \notin {"oTop", "oNext", "oCas"}
      /\ stage'[t] # "free"
      /\ Size' = Size /\ UseCellCnt' = UseCellCnt /\ FreeCellCnt' = FreeCellCnt
      /\ Size \in Int /\ UseCellCnt \in Int /\ FreeCellCnt \in Int
  BY DEF Outside, End, EndThread, Goto, ForgetTop, stackVars, poolVars, cellVars, freeVars, localVars, PoolTypeOK, At, NothingLeft, CellInvariant, CellTypeOK, PlacesOK, PlaceOK, Holding
<1>2. Quiet(t)
  BY DEF Quiet, Others, Same, Outside, End, EndThread, Goto, ForgetTop, stackVars, poolVars, cellVars, freeVars, localVars, PoolTypeOK, CellInvariant, CellTypeOK
<1>3. CellTypeOK'
  BY <1>1 DEF Outside, End, EndThread, Goto, ForgetTop, stackVars, poolVars, cellVars, freeVars, localVars, PoolTypeOK, NothingLeft, CellInvariant, CellTypeOK, Places, Links, Words, Ptr, NoPtr
<1>4. PlaceOK(t)' /\ ReadOK(t)'
  BY <1>1 DEF PlaceOK, ReadOK, Outside, End, EndThread, Goto, ForgetTop, stackVars, poolVars, cellVars, freeVars, localVars, PoolTypeOK, CellInvariant, CellTypeOK, PlacesOK, ReadsOK, Holding
<1>5. CountsOK'
  BY <1>1, <1>2, <1>3, QuietCounts DEF HasCell, HasItem, Uses, IsAt, Holding
<1> QED BY <1>2, <1>3, <1>4, <1>5, QuietKeeps

\* A Free, which may be where a Push begins.
LEMMA BeginPushKeeps ==
  ASSUME CellInvariant, NEW t \in Threads, Outside(t), BeginPush(t), PoolTypeOK, PoolTypeOK'
  PROVE  CellInvariant'
<1>1. /\ UNCHANGED <<freeVars, stackVars, old, nxt, cell, left>> /\ stage[t] = "idle"
      /\ \/ stage'[t] = "free" /\ pc' = [pc EXCEPT ![t] = "aReserve"] /\ val' = [val EXCEPT ![t] = hand'[t]]
         \/ stage'[t] # "free" /\ pc' = pc /\ val' = val
      /\ \A u \in Threads : u # t => hand'[u] = hand[u] /\ stage'[u] = stage[u]
  <2>1. Free(t, CHOOSE n \in used : TRUE)
    BY DEF BeginPush
  <2>2. \A u \in Threads : u # t => hand'[u] = hand[u] /\ stage'[u] = stage[u]
    BY <2>1 DEF Free, PoolTypeOK
  <2>3. stage[t] = "idle"
    BY <2>1 DEF Free
  <2> QED BY <2>2, <2>3, Zenon DEF BeginPush, Goto
<1>2. /\ pc[t] = "idle" /\ left'[t] = left[t] /\ left[t] = 0 /\ cell'[t] = cell[t] /\ cell[t] = Null
      /\ hand' \in [Threads -> Seq(Nodes)] /\ val \in [Threads -> Seq(Nodes)] /\ pc \in [Threads -> Places]
      /\ Size' = Size /\ UseCellCnt' = UseCellCnt /\ FreeCellCnt' = FreeCellCnt
      /\ Size \in Int /\ UseCellCnt \in Int /\ FreeCellCnt \in Int
  BY <1>1 DEF Outside, At, stackVars, freeVars, PoolTypeOK, CellInvariant, CellTypeOK, PlacesOK, PlaceOK, Holding
<1>3. /\ pc' \in [Threads -> Places] /\ val' \in [Threads -> Seq(Nodes)]
      /\ pc'[t] \in {"idle", "aReserve"} /\ (stage'[t] = "free" => val'[t] = hand'[t])
  BY <1>1, <1>2 DEF Places
<1>4. Quiet(t)
  BY <1>1 DEF Quiet, Others, Same, stackVars, freeVars, CellInvariant, CellTypeOK
<1>5. CellTypeOK'
  BY <1>1, <1>3 DEF stackVars, freeVars, CellInvariant, CellTypeOK
<1>6. PlaceOK(t)' /\ ReadOK(t)'
  <2>1. /\ left'[t] = 0 /\ cell'[t] = Null /\ pc'[t] \in {"idle", "aReserve"} /\ (stage'[t] = "free" => val'[t] = hand'[t])
    BY <1>2, <1>3
  <2> QED BY <2>1 DEF PlaceOK, ReadOK, Holding
<1>7. CountsOK'
  <2>1. /\ HasCell(pc'[t]) = 0 /\ HasCell(pc[t]) = 0 /\ HasItem(pc'[t]) = 0 /\ HasItem(pc[t]) = 0
        /\ Uses(pc'[t], left'[t]) = 0 /\ Uses(pc[t], left[t]) = 0
        /\ IsAt(pc'[t], "aUndo") = 0 /\ IsAt(pc[t], "aUndo") = 0 /\ IsAt(pc'[t], "oUndo") = 0 /\ IsAt(pc[t], "oUndo") = 0
    BY <1>2, <1>3 DEF HasCell, HasItem, Uses, IsAt, Holding
  <2>2. /\ FreeCellCnt' + HasCell(pc'[t]) = FreeCellCnt + HasCell(pc[t])
        /\ Size' + HasItem(pc'[t]) = Size + HasItem(pc[t])
        /\ UseCellCnt' - Uses(pc'[t], left'[t]) = UseCellCnt - Uses(pc[t], left[t])
    BY <1>2, <2>1, Zenon
  <2>3. /\ FreeCellCnt' + IsAt(pc'[t], "aUndo") >= FreeCellCnt + IsAt(pc[t], "aUndo")
        /\ Size' + IsAt(pc'[t], "oUndo") >= Size + IsAt(pc[t], "oUndo")
    BY <1>2, <2>1
  <2> QED BY <1>4, <1>5, <2>2, <2>3, QuietCounts, Zenon
<1> QED BY <1>4, <1>5, <1>6, <1>7, QuietKeeps

-----------------------------------------------------------------------------
(* Cells change places *)

\* The sets are alike.
LEMMA PlacesAlike ==
  ASSUME NEW F, NEW S, NEW c, NEW m, InOnePlace(F, S, c, m)
  PROVE  InOnePlace(S, F, c, m)
  BY DEF InOnePlace

\* A thread takes a cell.
LEMMA TakeCell ==
  ASSUME NEW F, NEW S, NEW c \in [Threads -> Links], NEW m, InOnePlace(F, S, c, m),
         NEW t \in Threads, c[t] = Null, NEW p \in F, p # Null
  PROVE  InOnePlace(F \ {p}, S, [c EXCEPT ![t] = p], m)
<1> DEFINE d == [c EXCEPT ![t] = p]
<1>1. d[t] = p /\ \A u \in Threads : u # t => d[u] = c[u]
  OBVIOUS
<1> HIDE DEF d
<1>2. (F \ {p}) \cap S = {} /\ p \notin S
  BY DEF InOnePlace
<1>3. ASSUME NEW v \in Threads, d[v] # Null
      PROVE  d[v] \notin (F \ {p}) \cup S /\ \A u \in Threads \ {v} : d[u] # d[v]
  <2>1. \A u \in Threads : u # t /\ c[u] # Null => c[u] # p
    BY DEF InOnePlace
  <2>2. CASE v = t
    BY <1>1, <1>2, <2>1, <2>2
  <2>3. CASE v # t
    BY <1>1, <1>3, <2>1, <2>3 DEF InOnePlace
  <2> QED BY <2>2, <2>3
<1>4. m = (F \ {p}) \cup S \cup ({d[u] : u \in Threads} \ {Null})
  <2>1. \A x : x \in {d[u] : u \in Threads} \ {Null} <=> x = p \/ x \in {c[u] : u \in Threads} \ {Null}
    BY <1>1
  <2> QED BY <2>1 DEF InOnePlace
<1> QED BY <1>2, <1>3, <1>4 DEF InOnePlace, d

\* A thread gives its cell away.
LEMMA GiveCell ==
  ASSUME NEW F, NEW S, NEW c \in [Threads -> Links], NEW m, InOnePlace(F, S, c, m),
         NEW t \in Threads, c[t] # Null
  PROVE  InOnePlace({c[t]} \cup F, S, [c EXCEPT ![t] = Null], m)
<1> DEFINE d == [c EXCEPT ![t] = Null]
<1>1. d[t] = Null /\ \A u \in Threads : u # t => d[u] = c[u]
  BY DEF Links
<1> HIDE DEF d
<1>2. ({c[t]} \cup F) \cap S = {}
  BY DEF InOnePlace
<1>3. ASSUME NEW v \in Threads, d[v] # Null
      PROVE  d[v] \notin ({c[t]} \cup F) \cup S /\ \A u \in Threads \ {v} : d[u] # d[v]
  <2>1. v # t /\ d[v] = c[v]
    BY <1>1, <1>3
  <2> QED BY <1>1, <1>3, <2>1 DEF InOnePlace
<1>4. m = ({c[t]} \cup F) \cup S \cup ({d[u] : u \in Threads} \ {Null})
  <2>1. \A x : x = c[t] \/ x \in {d[u] : u \in Threads} \ {Null} <=> x \in {c[u] : u \in Threads} \ {Null}
    BY <1>1
  <2> QED BY <2>1 DEF InOnePlace
<1> QED BY <1>2, <1>3, <1>4 DEF InOnePlace, d

\* A thread makes a cell.
LEMMA MakeCell ==
  ASSUME NEW F, NEW S, NEW c \in [Threads -> Links], NEW m, InOnePlace(F, S, c, m),
         NEW t \in Threads, c[t] = Null, NEW p, p \notin m, p # Null
  PROVE  InOnePlace(F, S, [c EXCEPT ![t] = p], m \cup {p})
<1> DEFINE d == [c EXCEPT ![t] = p]
<1>1. d[t] = p /\ \A u \in Threads : u # t => d[u] = c[u]
  OBVIOUS
<1> HIDE DEF d
<1>2. F \cap S = {} /\ p \notin F \cup S /\ \A u \in Threads : c[u] # p
  BY DEF InOnePlace
<1>3. ASSUME NEW v \in Threads, d[v] # Null
      PROVE  d[v] \notin F \cup S /\ \A u \in Threads \ {v} : d[u] # d[v]
  <2>1. CASE v = t
    BY <1>1, <1>2, <2>1
  <2>2. CASE v # t
    BY <1>1, <1>2, <1>3, <2>2 DEF InOnePlace
  <2> QED BY <2>1, <2>2
<1>4. m \cup {p} = F \cup S \cup ({d[u] : u \in Threads} \ {Null})
  <2>1. \A x : x \in {d[u] : u \in Threads} \ {Null} <=> x = p \/ x \in {c[u] : u \in Threads} \ {Null}
    BY <1>1
  <2> QED BY <2>1 DEF InOnePlace
<1> QED BY <1>2, <1>3, <1>4 DEF InOnePlace, d

-----------------------------------------------------------------------------
(* Steps on the lists *)

\* A thread sets the link of its own cell, for the list of free cells.
LEMMA FreeLinkKeeps ==
  ASSUME CellInvariant, NEW t \in Threads, FreeLink(t), Calm, UNCHANGED stackVars
  PROVE  CellInvariant'
<1>1. /\ pc[t] = "fTop" /\ pc'[t] = "fCas" /\ left'[t] = left[t] /\ cell' = cell /\ made' = made
      /\ cell[t] # Null /\ cell[t] \in Cells /\ old'[t] = HeadFreeNode
      /\ UNCHANGED <<HeadFreeNode, Top, Next, Data>>
      /\ Size' = Size /\ UseCellCnt' = UseCellCnt /\ FreeCellCnt' = FreeCellCnt
  BY DEF FreeLink, Calm, At, Goto, stackVars, CellInvariant, CellTypeOK, PlacesOK, PlaceOK, Holding, Links
<1>2. Others(t)
  BY DEF Others, Same, FreeLink, Goto, Calm, stackVars, poolVars, CellInvariant, CellTypeOK
<1>3. CellTypeOK'
  BY <1>1 DEF FreeLink, Goto, Calm, stackVars, CellInvariant, CellTypeOK, Places, Links, Words
<1>4. FreeNext'[cell[t]] = HeadFreeNode.ptr /\ \A c \in Cells : c # cell[t] => FreeNext'[c] = FreeNext[c]
  BY <1>1 DEF FreeLink, CellInvariant, CellTypeOK
<1>5. cell[t] \notin CellsOf(FreeCells) /\ \A u \in Threads \ {t} : cell[u] # cell[t]
  BY <1>1 DEF CellInvariant, CellsApart, InOnePlace
<1>6. CellsOf(FreeCells) \subseteq Cells /\ IsList(FreeCells, HeadFreeNode.ptr, FreeNext)
  BY CellsOfList DEF CellInvariant, ListsOK
<1>7. IsList(FreeCells, HeadFreeNode.ptr, FreeNext')
  BY <1>4, <1>5, <1>6, FrameList
<1>8. FreeCells' = FreeCells
  BY <1>1, <1>7, CellsFromList DEF FreeCells
<1>9. Stacked' = Stacked
  BY <1>1 DEF Stacked
<1>10. ListsOK'
  BY <1>1, <1>7, <1>8, <1>9 DEF ListsOK, CellInvariant
<1>11. CellsApart'
  BY <1>1, <1>8, <1>9 DEF CellsApart, CellInvariant
<1>12. ASSUME NEW u \in Threads PROVE PlaceOK(u)'
  <2>1. CASE u = t
    BY <1>1, <2>1 DEF PlaceOK, Calm, poolVars, CellInvariant, PlacesOK, Holding
  <2>2. CASE u # t
    BY <1>2, <2>2 DEF PlaceOK, Others, Same, CellInvariant, PlacesOK
  <2> QED BY <2>1, <2>2
<1>13. ASSUME NEW u \in Threads PROVE ReadOK(u)'
  <2>1. CASE u = t
    BY <1>1, <1>4, <2>1 DEF ReadOK
  <2>2. CASE u # t
    <3>1. /\ Same(u) /\ ReadOK(u) /\ PlaceOK(u) /\ cell[u] # cell[t] /\ cell[u] \in Links /\ old[u] \in Words
      BY <1>2, <1>5, <2>2 DEF Others, CellInvariant, ReadsOK, PlacesOK, CellTypeOK
    <3>2. pc[u] = "aCas" /\ old[u] = HeadFreeNode => FreeNext'[old[u].ptr] = FreeNext[old[u].ptr]
      <4> SUFFICES ASSUME pc[u] = "aCas", old[u] = HeadFreeNode PROVE FreeNext'[old[u].ptr] = FreeNext[old[u].ptr]
        OBVIOUS
      <4>1. HeadFreeNode.ptr # Null
        BY <3>1 DEF PlaceOK
      <4>2. HeadFreeNode.ptr \in CellsOf(FreeCells) /\ HeadFreeNode.ptr \in Cells
        BY <1>6, <4>1, PopList
      <4> QED BY <1>4, <1>5, <4>2
    <3>3. pc[u] = "fCas" => FreeNext'[cell[u]] = FreeNext[cell[u]]
      BY <1>4, <3>1 DEF PlaceOK, Holding, Links
    <3> QED BY <1>1, <3>1, <3>2, <3>3 DEF ReadOK, Same
  <2> QED BY <2>1, <2>2
<1>14. CountsOK'
  <2>1. /\ HasCell(pc'[t]) = HasCell(pc[t]) /\ HasItem(pc'[t]) = HasItem(pc[t])
        /\ Uses(pc'[t], left'[t]) = Uses(pc[t], left[t])
        /\ IsAt(pc'[t], "aUndo") = IsAt(pc[t], "aUndo") /\ IsAt(pc'[t], "oUndo") = IsAt(pc[t], "oUndo")
    BY <1>1 DEF HasCell, HasItem, Uses, IsAt, Holding
  <2>2. /\ FreeCellCnt' + IsAt(pc'[t], "aUndo") >= FreeCellCnt + IsAt(pc[t], "aUndo")
        /\ Size' + IsAt(pc'[t], "oUndo") >= Size + IsAt(pc[t], "oUndo")
    BY <1>1, <2>1 DEF IsAt, CellInvariant, CellTypeOK
  <2>3. /\ (FreeCellCnt' + HasCell(pc'[t])) - Len(FreeCells') = (FreeCellCnt + HasCell(pc[t])) - Len(FreeCells)
        /\ (Size' + HasItem(pc'[t])) - Len(Stacked') = (Size + HasItem(pc[t])) - Len(Stacked)
        /\ UseCellCnt' - Uses(pc'[t], left'[t]) - Len(Stacked') = UseCellCnt - Uses(pc[t], left[t]) - Len(Stacked)
    BY <1>1, <1>8, <1>9, <2>1, Zenon
  <2> QED BY <1>2, <1>3, <1>10, <2>2, <2>3, CountsStay, Zenon
<1> QED BY <1>3, <1>10, <1>11, <1>12, <1>13, <1>14 DEF CellInvariant, PlacesOK, ReadsOK

\* A thread sets the data and the link of its own cell, for the stack.
LEMMA PushLinkKeeps ==
  ASSUME CellInvariant, NEW t \in Threads, PushLink(t), Calm
  PROVE  CellInvariant' /\ Stacked' = Stacked /\ \A c \in CellsOf(Stacked) : Data'[c] = Data[c]
<1>1. /\ pc[t] \in {"allocated", "pTop"} /\ pc'[t] = "pCas" /\ left'[t] = left[t] /\ cell' = cell /\ made' = made
      /\ left[t] = 0 /\ cell[t] # Null /\ cell[t] \in Cells /\ old'[t] = Top /\ val' = val
      /\ UNCHANGED <<HeadFreeNode, FreeNext, Top>>
      /\ Size' = Size /\ UseCellCnt' = UseCellCnt /\ FreeCellCnt' = FreeCellCnt
  BY DEF PushLink, freeVars, Calm, At, Goto, CellInvariant, CellTypeOK, PlacesOK, PlaceOK, Holding, Links
<1>2. Others(t)
  BY DEF Others, Same, PushLink, Goto, Calm, poolVars, CellInvariant, CellTypeOK
<1>3. Next' = [Next EXCEPT ![cell[t]] = Top.ptr] /\ Data' \in [Cells -> Seq(Nodes)]
  BY DEF PushLink, LinkTo, CellInvariant, CellTypeOK
<1>4. CellTypeOK'
  BY <1>1, <1>3 DEF PushLink, freeVars, Goto, Calm, CellInvariant, CellTypeOK, Places, Links, Words
<1>5. /\ Next'[cell[t]] = Top.ptr /\ \A c \in Cells : c # cell[t] => Next'[c] = Next[c] /\ Data'[c] = Data[c]
      /\ Data'[cell[t]] = val[t]
  BY <1>1, <1>3 DEF PushLink, At, CellInvariant, CellTypeOK, ReadsOK, ReadOK
<1>6. cell[t] \notin CellsOf(Stacked) /\ \A u \in Threads \ {t} : cell[u] # cell[t]
  BY <1>1 DEF CellInvariant, CellsApart, InOnePlace
<1>7. CellsOf(Stacked) \subseteq Cells /\ IsList(Stacked, Top.ptr, Next)
  BY CellsOfList DEF CellInvariant, ListsOK
<1>8. IsList(Stacked, Top.ptr, Next')
  BY <1>5, <1>6, <1>7, FrameList
<1>9. Stacked' = Stacked
  BY <1>1, <1>8, CellsFromList DEF Stacked
<1>10. FreeCells' = FreeCells
  BY <1>1 DEF FreeCells
<1>11. ListsOK'
  BY <1>1, <1>8, <1>9, <1>10 DEF ListsOK, CellInvariant
<1>12. CellsApart'
  BY <1>1, <1>9, <1>10 DEF CellsApart, CellInvariant
<1>13. ASSUME NEW u \in Threads PROVE PlaceOK(u)'
  <2>1. CASE u = t
    BY <1>1, <2>1 DEF PlaceOK, Calm, poolVars, CellInvariant, PlacesOK, Holding
  <2>2. CASE u # t
    BY <1>2, <2>2 DEF PlaceOK, Others, Same, CellInvariant, PlacesOK
  <2> QED BY <2>1, <2>2
<1>14. ASSUME NEW u \in Threads PROVE ReadOK(u)'
  <2>1. CASE u = t
    BY <1>1, <1>5, <2>1 DEF ReadOK
  <2>2. CASE u # t
    <3>1. /\ Same(u) /\ ReadOK(u) /\ PlaceOK(u) /\ cell[u] # cell[t] /\ cell[u] \in Links /\ old[u] \in Words
      BY <1>2, <1>6, <2>2 DEF Others, CellInvariant, ReadsOK, PlacesOK, CellTypeOK
    <3>2. pc[u] = "oCas" /\ old[u] = Top => Next'[old[u].ptr] = Next[old[u].ptr]
      <4> SUFFICES ASSUME pc[u] = "oCas", old[u] = Top PROVE Next'[old[u].ptr] = Next[old[u].ptr]
        OBVIOUS
      <4>1. Top.ptr # Null
        BY <3>1 DEF PlaceOK
      <4>2. Top.ptr \in CellsOf(Stacked) /\ Top.ptr \in Cells
        BY <1>7, <4>1, PopList
      <4> QED BY <1>5, <1>6, <4>2
    <3>3. pc[u] \in {"pTop", "pCas"} => Next'[cell[u]] = Next[cell[u]] /\ Data'[cell[u]] = Data[cell[u]]
      BY <1>5, <3>1 DEF PlaceOK, Holding, Links
    <3> QED BY <1>1, <3>1, <3>2, <3>3 DEF ReadOK, Same
  <2> QED BY <2>1, <2>2
<1>15. CountsOK'
  <2>1. /\ HasCell(pc'[t]) = HasCell(pc[t]) /\ HasItem(pc'[t]) = HasItem(pc[t])
        /\ Uses(pc'[t], left'[t]) = Uses(pc[t], left[t])
        /\ IsAt(pc'[t], "aUndo") = IsAt(pc[t], "aUndo") /\ IsAt(pc'[t], "oUndo") = IsAt(pc[t], "oUndo")
    BY <1>1 DEF HasCell, HasItem, Uses, IsAt, Holding
  <2>2. /\ FreeCellCnt' + IsAt(pc'[t], "aUndo") >= FreeCellCnt + IsAt(pc[t], "aUndo")
        /\ Size' + IsAt(pc'[t], "oUndo") >= Size + IsAt(pc[t], "oUndo")
    BY <1>1, <2>1 DEF IsAt, CellInvariant, CellTypeOK
  <2>3. /\ (FreeCellCnt' + HasCell(pc'[t])) - Len(FreeCells') = (FreeCellCnt + HasCell(pc[t])) - Len(FreeCells)
        /\ (Size' + HasItem(pc'[t])) - Len(Stacked') = (Size + HasItem(pc[t])) - Len(Stacked)
        /\ UseCellCnt' - Uses(pc'[t], left'[t]) - Len(Stacked') = UseCellCnt - Uses(pc[t], left[t]) - Len(Stacked)
    BY <1>1, <1>9, <1>10, <2>1, Zenon
  <2> QED BY <1>2, <1>4, <1>11, <2>2, <2>3, CountsStay, Zenon
<1> QED BY <1>4, <1>5, <1>6, <1>7, <1>9, <1>11, <1>12, <1>13, <1>14, <1>15 DEF CellInvariant, PlacesOK, ReadsOK

\* NewNode makes a cell.
LEMMA NewNodeKeeps ==
  ASSUME CellInvariant, NEW t \in Threads, NewNode(t), Calm, UNCHANGED stackVars
  PROVE  CellInvariant'
<1> DEFINE c == CHOOSE x \in Cells \ made : TRUE
<1>1. c \in Cells /\ c \notin made /\ c # Null
  <2>1. \E x : x \in Cells \ made
    BY DEF NewNode, CellInvariant, CellTypeOK
  <2>2. c \in Cells \ made
    BY <2>1, Zenon
  <2> QED BY <2>2, CellAssumption
<1>2. cell' = [cell EXCEPT ![t] = c] /\ made' = made \cup {c}
  BY Zenon DEF NewNode
<1> HIDE DEF c
<1>3. /\ pc[t] = "aNew" /\ pc'[t] = "fTop" /\ left' = left /\ left[t] # 0 /\ cell[t] = Null
      /\ cell \in [Threads -> Links] /\ cell'[t] = c
      /\ UNCHANGED <<HeadFreeNode, FreeNext, Top, Next, Data, val>>
      /\ Size' = Size /\ UseCellCnt' = UseCellCnt /\ FreeCellCnt' = FreeCellCnt
  BY <1>2 DEF NewNode, Calm, At, Goto, stackVars, CellInvariant, CellTypeOK, PlacesOK, PlaceOK, Holding
<1>4. Others(t)
  BY <1>2 DEF Others, Same, NewNode, Goto, Calm, stackVars, poolVars, CellInvariant, CellTypeOK
<1>5. CellTypeOK'
  <2>1. pc' \in [Threads -> Places] /\ cell' \in [Threads -> Links] /\ made' \subseteq Cells
    BY <1>1, <1>2 DEF NewNode, Goto, CellInvariant, CellTypeOK, Places, Links
  <2> QED BY <1>3, <2>1 DEF NewNode, Calm, stackVars, CellInvariant, CellTypeOK
<1>6. FreeCells' = FreeCells /\ Stacked' = Stacked
  BY <1>3 DEF FreeCells, Stacked
<1>7. ListsOK'
  BY <1>3, <1>6 DEF ListsOK, CellInvariant
<1>8. CellsApart'
  <2>1. InOnePlace(CellsOf(FreeCells), CellsOf(Stacked), cell, made)
    BY DEF CellInvariant, CellsApart
  <2>2. InOnePlace(CellsOf(FreeCells), CellsOf(Stacked), cell', made')
    BY <1>1, <1>2, <1>3, <2>1, MakeCell
  <2> QED BY <1>6, <2>2, Zenon DEF CellsApart
<1>9. ASSUME NEW u \in Threads PROVE PlaceOK(u)' /\ ReadOK(u)'
  <2>1. CASE u = t
    BY <1>1, <1>3, <2>1 DEF PlaceOK, ReadOK, Calm, poolVars, CellInvariant, PlacesOK, Holding
  <2>2. CASE u # t
    BY <1>3, <1>4, <2>2 DEF PlaceOK, ReadOK, Others, Same, CellInvariant, PlacesOK, ReadsOK
  <2> QED BY <2>1, <2>2
<1>10. CountsOK'
  <2>1. /\ HasCell(pc'[t]) = HasCell(pc[t]) /\ HasItem(pc'[t]) = HasItem(pc[t])
        /\ Uses(pc'[t], left'[t]) = Uses(pc[t], left[t])
        /\ IsAt(pc'[t], "aUndo") = IsAt(pc[t], "aUndo") /\ IsAt(pc'[t], "oUndo") = IsAt(pc[t], "oUndo")
    BY <1>3 DEF HasCell, HasItem, Uses, IsAt, Holding
  <2>2. /\ FreeCellCnt' + IsAt(pc'[t], "aUndo") >= FreeCellCnt + IsAt(pc[t], "aUndo")
        /\ Size' + IsAt(pc'[t], "oUndo") >= Size + IsAt(pc[t], "oUndo")
    BY <1>3, <2>1 DEF IsAt, CellInvariant, CellTypeOK
  <2>3. /\ (FreeCellCnt' + HasCell(pc'[t])) - Len(FreeCells') = (FreeCellCnt + HasCell(pc[t])) - Len(FreeCells)
        /\ (Size' + HasItem(pc'[t])) - Len(Stacked') = (Size + HasItem(pc[t])) - Len(Stacked)
        /\ UseCellCnt' - Uses(pc'[t], left'[t]) - Len(Stacked') = UseCellCnt - Uses(pc[t], left[t]) - Len(Stacked)
    BY <1>3, <1>6, <2>1, Zenon
  <2> QED BY <1>4, <1>5, <1>7, <2>2, <2>3, CountsStay, Zenon
<1> QED BY <1>5, <1>7, <1>8, <1>9, <1>10 DEF CellInvariant, PlacesOK, ReadsOK

\* Alloc takes the first free cell.
LEMMA AllocCasKeeps ==
  ASSUME CellInvariant, NEW t \in Threads, AllocCas(t), HeadFreeNode = old[t], Calm, UNCHANGED stackVars
  PROVE  CellInvariant'
<1> DEFINE p == old[t].ptr
<1>1. /\ pc[t] = "aCas" /\ pc' = [pc EXCEPT ![t] = "allocated"] /\ left' = left /\ left[t] = 0 /\ cell[t] = Null
      /\ cell \in [Threads -> Links] /\ cell' = [cell EXCEPT ![t] = p] /\ made' = made
      /\ HeadFreeNode' = Ptr(nxt[t], GetTagCnt(HeadFreeNode)) /\ nxt[t] = FreeNext[p] /\ p = HeadFreeNode.ptr /\ p # Null
      /\ old' = [old EXCEPT ![t] = NoPtr] /\ nxt' = [nxt EXCEPT ![t] = Null]
      /\ UNCHANGED <<FreeNext, Top, Next, Data, val>>
      /\ Size' = Size /\ UseCellCnt' = UseCellCnt + 1 /\ FreeCellCnt' = FreeCellCnt
      /\ Size \in Int /\ UseCellCnt \in Int /\ FreeCellCnt \in Int
  BY DEF AllocCas, SameTop, ForgetTop, Calm, At, Goto, stackVars, CellInvariant, CellTypeOK, PlacesOK, PlaceOK, ReadsOK, ReadOK, Holding
<1> HIDE DEF p
<1>2. Others(t)
  BY <1>1 DEF Others, Same, Calm, poolVars, CellInvariant, CellTypeOK
<1>3. IsList(FreeCells, HeadFreeNode.ptr, FreeNext) /\ IsList(Stacked, Top.ptr, Next)
  BY DEF CellInvariant, ListsOK
<1>4. /\ p \in Cells /\ p \in CellsOf(FreeCells) /\ Len(FreeCells) \in Nat
      /\ IsList(Tail(FreeCells), nxt[t], FreeNext) /\ Len(Tail(FreeCells)) = Len(FreeCells) - 1
      /\ CellsOf(Tail(FreeCells)) = CellsOf(FreeCells) \ {p}
  BY <1>1, <1>3, PopList, CellsOfList
<1>5. HeadFreeNode'.ptr = nxt[t] /\ HeadFreeNode'.tag = GetTagCnt(HeadFreeNode)
  BY <1>1 DEF Ptr
<1>6. FreeCells' = Tail(FreeCells)
  BY <1>1, <1>4, <1>5, CellsFromList DEF FreeCells
<1>7. Stacked' = Stacked
  BY <1>1 DEF Stacked
<1>8. ListsOK'
  BY <1>1, <1>3, <1>4, <1>5, <1>6, <1>7 DEF ListsOK
<1>9. CellTypeOK'
  <2>1. GetTagCnt(HeadFreeNode) \in Nat
    BY FreshTag
  <2>2. HeadFreeNode' \in Words
    BY <1>1, <2>1 DEF Words, Ptr, CellInvariant, CellTypeOK
  <2>3. pc' \in [Threads -> Places] /\ cell' \in [Threads -> Links]
    BY <1>1, <1>4 DEF CellInvariant, CellTypeOK, Places, Links
  <2>4. old' \in [Threads -> Words] /\ nxt' \in [Threads -> Links]
    BY <1>1 DEF CellInvariant, CellTypeOK, Words, NoPtr, Ptr, Links
  <2> QED BY <1>1, <2>2, <2>3, <2>4 DEF CellInvariant, CellTypeOK
<1>10. CellsApart'
  <2>1. InOnePlace(CellsOf(FreeCells), CellsOf(Stacked), cell, made)
    BY DEF CellInvariant, CellsApart
  <2>2. InOnePlace(CellsOf(FreeCells) \ {p}, CellsOf(Stacked), cell', made)
    BY <1>1, <1>4, <2>1, TakeCell
  <2> QED BY <1>1, <1>4, <1>6, <1>7, <2>2, Zenon DEF CellsApart
<1>11. ASSUME NEW u \in Threads PROVE PlaceOK(u)' /\ ReadOK(u)'
  <2>1. CASE u = t
    <3>1. pc'[t] = "allocated" /\ cell'[t] # Null
      BY <1>1 DEF CellInvariant, CellTypeOK
    <3> QED BY <1>1, <2>1, <3>1 DEF PlaceOK, ReadOK, Calm, poolVars, CellInvariant, PlacesOK, Holding
  <2>2. CASE u # t
    <3>1. old[u] # HeadFreeNode'
      BY <1>5, FreshTag
    <3> QED BY <1>1, <1>2, <2>2, <3>1 DEF PlaceOK, ReadOK, Others, Same, CellInvariant, PlacesOK, ReadsOK
  <2> QED BY <2>1, <2>2
<1>12. CountsOK'
  <2>1. /\ HasCell(pc'[t]) = 0 /\ HasCell(pc[t]) = 1 /\ HasItem(pc'[t]) = 0 /\ HasItem(pc[t]) = 0
        /\ Uses(pc'[t], left'[t]) = 1 /\ Uses(pc[t], left[t]) = 0
        /\ IsAt(pc'[t], "aUndo") = 0 /\ IsAt(pc[t], "aUndo") = 0 /\ IsAt(pc'[t], "oUndo") = 0 /\ IsAt(pc[t], "oUndo") = 0
    <3>1. pc'[t] = "allocated"
      BY <1>1 DEF CellInvariant, CellTypeOK
    <3> QED BY <1>1, <3>1 DEF HasCell, HasItem, Uses, IsAt, Holding
  <2>2. Len(FreeCells') = Len(FreeCells) - 1 /\ Len(Stacked') = Len(Stacked) /\ Len(Stacked) \in Nat
    BY <1>3, <1>4, <1>6, <1>7, CellsOfList
  <2>3. /\ FreeCellCnt' + IsAt(pc'[t], "aUndo") >= FreeCellCnt + IsAt(pc[t], "aUndo")
        /\ Size' + IsAt(pc'[t], "oUndo") >= Size + IsAt(pc[t], "oUndo")
    BY <1>1, <2>1
  <2>4. /\ (FreeCellCnt' + HasCell(pc'[t])) - Len(FreeCells') = (FreeCellCnt + HasCell(pc[t])) - Len(FreeCells)
        /\ (Size' + HasItem(pc'[t])) - Len(Stacked') = (Size + HasItem(pc[t])) - Len(Stacked)
        /\ UseCellCnt' - Uses(pc'[t], left'[t]) - Len(Stacked') = UseCellCnt - Uses(pc[t], left[t]) - Len(Stacked)
    BY <1>1, <1>4, <2>1, <2>2
  <2> QED BY <1>2, <1>8, <1>9, <2>3, <2>4, CountsStay, Zenon
<1> QED BY <1>8, <1>9, <1>10, <1>11, <1>12 DEF CellInvariant, PlacesOK, ReadsOK

\* A cell becomes the first free one.
LEMMA FreeCasKeeps ==
  ASSUME CellInvariant, NEW t \in Threads, FreeCas(t), HeadFreeNode = old[t], Calm, UNCHANGED stackVars
  PROVE  CellInvariant'
<1> DEFINE p == cell[t]
<1>1. /\ pc[t] = "fCas" /\ pc' = [pc EXCEPT ![t] = "fSize"] /\ left' = left /\ p # Null /\ p \in Cells
      /\ cell \in [Threads -> Links] /\ cell' = [cell EXCEPT ![t] = Null] /\ made' = made
      /\ HeadFreeNode' = Ptr(p, GetTagCnt(HeadFreeNode)) /\ FreeNext[p] = HeadFreeNode.ptr
      /\ old' = [old EXCEPT ![t] = NoPtr] /\ nxt' = [nxt EXCEPT ![t] = Null]
      /\ UNCHANGED <<FreeNext, Top, Next, Data, val>>
      /\ Size' = Size /\ UseCellCnt' = UseCellCnt /\ FreeCellCnt' = FreeCellCnt
      /\ Size \in Int /\ UseCellCnt \in Int /\ FreeCellCnt \in Int
  BY DEF FreeCas, SameTop, ForgetTop, Calm, At, Goto, stackVars, CellInvariant, CellTypeOK, PlacesOK, PlaceOK, ReadsOK, ReadOK, Holding, Links
<1>2. Others(t)
  BY <1>1 DEF Others, Same, Calm, poolVars, CellInvariant, CellTypeOK
<1>3. IsList(FreeCells, HeadFreeNode.ptr, FreeNext) /\ IsList(Stacked, Top.ptr, Next) /\ p \notin CellsOf(FreeCells)
  BY <1>1 DEF CellInvariant, ListsOK, CellsApart, InOnePlace
<1>4. /\ IsList(<<p>> \o FreeCells, p, FreeNext)
      /\ CellsOf(<<p>> \o FreeCells) = {p} \cup CellsOf(FreeCells)
  BY <1>1, <1>3, PushList
<1>5. HeadFreeNode'.ptr = p /\ HeadFreeNode'.tag = GetTagCnt(HeadFreeNode)
  BY <1>1 DEF Ptr
<1>6. FreeCells' = <<p>> \o FreeCells
  BY <1>1, <1>4, <1>5, CellsFromList DEF FreeCells
<1>7. Stacked' = Stacked
  BY <1>1 DEF Stacked
<1>8. ListsOK'
  BY <1>1, <1>3, <1>4, <1>5, <1>6, <1>7 DEF ListsOK
<1>9. CellTypeOK'
  <2>1. GetTagCnt(HeadFreeNode) \in Nat
    BY FreshTag
  <2>2. HeadFreeNode' \in Words
    BY <1>1, <2>1 DEF Words, Ptr, Links
  <2>3. pc' \in [Threads -> Places] /\ cell' \in [Threads -> Links]
    BY <1>1 DEF CellInvariant, CellTypeOK, Places, Links
  <2>4. old' \in [Threads -> Words] /\ nxt' \in [Threads -> Links]
    BY <1>1 DEF CellInvariant, CellTypeOK, Words, NoPtr, Ptr, Links
  <2> QED BY <1>1, <2>2, <2>3, <2>4 DEF CellInvariant, CellTypeOK
<1>10. CellsApart'
  <2>1. InOnePlace(CellsOf(FreeCells), CellsOf(Stacked), cell, made)
    BY DEF CellInvariant, CellsApart
  <2>2. InOnePlace({p} \cup CellsOf(FreeCells), CellsOf(Stacked), cell', made)
    BY <1>1, <2>1, GiveCell
  <2> QED BY <1>1, <1>4, <1>6, <1>7, <2>2, Zenon DEF CellsApart
<1>11. pc'[t] = "fSize" /\ cell'[t] = Null
  BY <1>1 DEF CellInvariant, CellTypeOK
<1>12. ASSUME NEW u \in Threads PROVE PlaceOK(u)' /\ ReadOK(u)'
  <2>1. CASE u = t
    BY <1>1, <1>11, <2>1 DEF PlaceOK, ReadOK, Calm, poolVars, CellInvariant, PlacesOK, Holding
  <2>2. CASE u # t
    <3>1. old[u] # HeadFreeNode'
      BY <1>5, FreshTag
    <3> QED BY <1>1, <1>2, <2>2, <3>1 DEF PlaceOK, ReadOK, Others, Same, CellInvariant, PlacesOK, ReadsOK
  <2> QED BY <2>1, <2>2
<1>13. CountsOK'
  <2>1. /\ HasCell(pc'[t]) = 1 /\ HasCell(pc[t]) = 0 /\ HasItem(pc'[t]) = 0 /\ HasItem(pc[t]) = 0
        /\ Uses(pc'[t], left'[t]) = Uses(pc[t], left[t])
        /\ IsAt(pc'[t], "aUndo") = 0 /\ IsAt(pc[t], "aUndo") = 0 /\ IsAt(pc'[t], "oUndo") = 0 /\ IsAt(pc[t], "oUndo") = 0
    BY <1>1, <1>11 DEF HasCell, HasItem, Uses, IsAt, Holding
  <2>2. Len(FreeCells') = Len(FreeCells) + 1 /\ Len(FreeCells) \in Nat
    BY <1>1, <1>3, <1>6 DEF IsList
  <2>3. /\ FreeCellCnt' + IsAt(pc'[t], "aUndo") >= FreeCellCnt + IsAt(pc[t], "aUndo")
        /\ Size' + IsAt(pc'[t], "oUndo") >= Size + IsAt(pc[t], "oUndo")
    BY <1>1, <2>1
  <2>4. (FreeCellCnt' + HasCell(pc'[t])) - Len(FreeCells') = (FreeCellCnt + HasCell(pc[t])) - Len(FreeCells)
    BY <1>1, <2>1, <2>2
  <2>5. /\ (Size' + HasItem(pc'[t])) - Len(Stacked') = (Size + HasItem(pc[t])) - Len(Stacked)
        /\ UseCellCnt' - Uses(pc'[t], left'[t]) - Len(Stacked') = UseCellCnt - Uses(pc[t], left[t]) - Len(Stacked)
    BY <1>1, <1>7, <2>1, Zenon
  <2> QED BY <1>2, <1>8, <1>9, <2>3, <2>4, <2>5, CountsStay, Zenon
<1> QED BY <1>8, <1>9, <1>10, <1>12, <1>13 DEF CellInvariant, PlacesOK, ReadsOK

\* A chunk becomes the top of the stack.
LEMMA PushCasKeeps ==
  ASSUME CellInvariant, NEW t \in Threads, Push(t), Top = old[t], PoolTypeOK
  PROVE  /\ CellInvariant'
         /\ GiveChunck(t) /\ cell[t] \in Cells /\ Data' = Data /\ Stacked' = <<cell[t]>> \o Stacked /\ Data[cell[t]] = hand[t]
<1> DEFINE p == cell[t]
<1>1. /\ pc[t] = "pCas" /\ pc' = [pc EXCEPT ![t] = "pSize"] /\ left' = left /\ left[t] = 0 /\ p # Null /\ p \in Cells
      /\ cell \in [Threads -> Links] /\ cell' = [cell EXCEPT ![t] = Null] /\ made' = made
      /\ Top' = Ptr(p, GetTagCnt(Top)) /\ Next[p] = Top.ptr /\ Data[p] = val[t]
      /\ old' = [old EXCEPT ![t] = NoPtr] /\ nxt' = [nxt EXCEPT ![t] = Null] /\ val' = [val EXCEPT ![t] = <<>>]
      /\ UNCHANGED <<HeadFreeNode, FreeNext, Next, Data>>
      /\ Size' = Size /\ UseCellCnt' = UseCellCnt /\ FreeCellCnt' = FreeCellCnt
      /\ Size \in Int /\ UseCellCnt \in Int /\ FreeCellCnt \in Int
  <2>1. PushCas(t)
    BY DEF Push
  <2>2. pc[t] = "pCas" /\ PlaceOK(t) /\ ReadOK(t) /\ CellTypeOK
    BY <2>1 DEF PushCas, At, CellInvariant, PlacesOK, ReadsOK
  <2>3. /\ left[t] = 0 /\ p # Null /\ p \in Cells /\ cell \in [Threads -> Links] /\ Next[p] = Top.ptr /\ Data[p] = val[t]
        /\ Size \in Int /\ UseCellCnt \in Int /\ FreeCellCnt \in Int
    BY <2>2 DEF CellTypeOK, PlaceOK, ReadOK, Holding, Links
  <2> QED BY <2>1, <2>2, <2>3 DEF PushCas, SameTop, ForgetTop, Goto, freeVars, NoItem
<1>2. GiveChunck(t)
  <2>1. cell'[t] = Null
    BY <1>1
  <2> QED BY <2>1 DEF Push
<1>3. /\ hand' = [hand EXCEPT ![t] = <<>>] /\ stage' = [stage EXCEPT ![t] = "idle"] /\ stage[t] = "free"
      /\ hand \in [Threads -> Seq(Nodes)] /\ stage \in [Threads -> Stages]
  BY <1>2 DEF GiveChunck, PoolTypeOK
<1>4. Others(t)
  BY <1>1, <1>3 DEF Others, Same, CellInvariant, CellTypeOK
<1>5. IsList(FreeCells, HeadFreeNode.ptr, FreeNext) /\ IsList(Stacked, Top.ptr, Next) /\ p \notin CellsOf(Stacked)
  BY <1>1 DEF CellInvariant, ListsOK, CellsApart, InOnePlace
<1>6. /\ IsList(<<p>> \o Stacked, p, Next)
      /\ CellsOf(<<p>> \o Stacked) = {p} \cup CellsOf(Stacked)
  BY <1>1, <1>5, PushList
<1>7. Top'.ptr = p /\ Top'.tag = GetTagCnt(Top)
  BY <1>1 DEF Ptr
<1>8. Stacked' = <<p>> \o Stacked
  BY <1>1, <1>6, <1>7, CellsFromList DEF Stacked
<1>9. FreeCells' = FreeCells
  BY <1>1 DEF FreeCells
<1>10. ListsOK'
  BY <1>1, <1>5, <1>6, <1>7, <1>8, <1>9 DEF ListsOK
<1>11. CellTypeOK'
  <2>1. GetTagCnt(Top) \in Nat
    BY FreshTag
  <2>2. Top' \in Words
    BY <1>1, <2>1 DEF Words, Ptr, Links
  <2>3. pc' \in [Threads -> Places] /\ cell' \in [Threads -> Links] /\ val' \in [Threads -> Seq(Nodes)]
    BY <1>1 DEF CellInvariant, CellTypeOK, Places, Links
  <2>4. old' \in [Threads -> Words] /\ nxt' \in [Threads -> Links]
    BY <1>1 DEF CellInvariant, CellTypeOK, Words, NoPtr, Ptr, Links
  <2> QED BY <1>1, <2>2, <2>3, <2>4 DEF CellInvariant, CellTypeOK
<1>12. CellsApart'
  <2>1. InOnePlace(CellsOf(Stacked), CellsOf(FreeCells), cell, made)
    BY PlacesAlike DEF CellInvariant, CellsApart
  <2>2. InOnePlace({p} \cup CellsOf(Stacked), CellsOf(FreeCells), cell', made)
    BY <1>1, <2>1, GiveCell
  <2>3. InOnePlace(CellsOf(FreeCells), {p} \cup CellsOf(Stacked), cell', made)
    BY <2>2, PlacesAlike
  <2> QED BY <1>1, <1>6, <1>8, <1>9, <2>3, Zenon DEF CellsApart
<1>13. pc'[t] = "pSize" /\ cell'[t] = Null /\ stage'[t] = "idle"
  BY <1>1, <1>3 DEF CellInvariant, CellTypeOK
<1>14. ASSUME NEW u \in Threads PROVE PlaceOK(u)' /\ ReadOK(u)'
  <2>1. CASE u = t
    BY <1>1, <1>13, <2>1 DEF PlaceOK, ReadOK, CellInvariant, PlacesOK, Holding
  <2>2. CASE u # t
    <3>1. old[u] # Top'
      BY <1>7, FreshTag
    <3> QED BY <1>1, <1>4, <2>2, <3>1 DEF PlaceOK, ReadOK, Others, Same, CellInvariant, PlacesOK, ReadsOK
  <2> QED BY <2>1, <2>2
<1>15. CountsOK'
  <2>1. /\ HasCell(pc'[t]) = 0 /\ HasCell(pc[t]) = 0 /\ HasItem(pc'[t]) = 1 /\ HasItem(pc[t]) = 0
        /\ Uses(pc'[t], left'[t]) = 0 /\ Uses(pc[t], left[t]) = 1
        /\ IsAt(pc'[t], "aUndo") = 0 /\ IsAt(pc[t], "aUndo") = 0 /\ IsAt(pc'[t], "oUndo") = 0 /\ IsAt(pc[t], "oUndo") = 0
    BY <1>1, <1>13 DEF HasCell, HasItem, Uses, IsAt, Holding
  <2>2. Len(Stacked') = Len(Stacked) + 1 /\ Len(Stacked) \in Nat
    BY <1>1, <1>5, <1>8 DEF IsList
  <2>3. /\ FreeCellCnt' + IsAt(pc'[t], "aUndo") >= FreeCellCnt + IsAt(pc[t], "aUndo")
        /\ Size' + IsAt(pc'[t], "oUndo") >= Size + IsAt(pc[t], "oUndo")
    BY <1>1, <2>1
  <2>4. /\ (Size' + HasItem(pc'[t])) - Len(Stacked') = (Size + HasItem(pc[t])) - Len(Stacked)
        /\ UseCellCnt' - Uses(pc'[t], left'[t]) - Len(Stacked') = UseCellCnt - Uses(pc[t], left[t]) - Len(Stacked)
    BY <1>1, <2>1, <2>2
  <2>5. (FreeCellCnt' + HasCell(pc'[t])) - Len(FreeCells') = (FreeCellCnt + HasCell(pc[t])) - Len(FreeCells)
    BY <1>1, <1>9, <2>1, Zenon
  <2> QED BY <1>4, <1>10, <1>11, <2>3, <2>4, <2>5, CountsStay, Zenon
<1>16. CellInvariant'
  BY <1>10, <1>11, <1>12, <1>14, <1>15 DEF CellInvariant, PlacesOK, ReadsOK
<1>17. Data[p] = hand[t]
  BY <1>1, <1>3 DEF CellInvariant, PlacesOK, PlaceOK
<1> QED BY <1>1, <1>2, <1>8, <1>16, <1>17

\* The top of the stack is a thread's own.
LEMMA PopCasKeeps ==
  ASSUME CellInvariant, NEW t \in Threads, Pop(t), Top = old[t], PoolTypeOK
  PROVE  /\ CellInvariant'
         /\ Data' = Data /\ Stacked # <<>> /\ Stacked' = Tail(Stacked)
         /\ stage[t] = "alloc" /\ hand' = [hand EXCEPT ![t] = Data[Stacked[1]]]
         /\ chunks' = Tail(chunks) /\ stage' = [stage EXCEPT ![t] = "taken"]
         /\ UNCHANGED <<list, FreeNodeCnt, used, unborn, deleted>>
<1> DEFINE p == old[t].ptr
<1>1. /\ pc[t] = "oCas" /\ pc' = [pc EXCEPT ![t] = "fTop"] /\ left' = left /\ left[t] = 0 /\ cell[t] = Null
      /\ cell \in [Threads -> Links] /\ cell' = [cell EXCEPT ![t] = p] /\ made' = made
      /\ Top' = Ptr(nxt[t], GetTagCnt(Top)) /\ nxt[t] = Next[p] /\ p = Top.ptr /\ p # Null
      /\ old' = [old EXCEPT ![t] = NoPtr] /\ nxt' = [nxt EXCEPT ![t] = Null] /\ val' = [val EXCEPT ![t] = Data[p]]
      /\ UNCHANGED <<HeadFreeNode, FreeNext, Next, Data>> /\ stage[t] = "alloc"
      /\ Size' = Size /\ UseCellCnt' = UseCellCnt /\ FreeCellCnt' = FreeCellCnt
      /\ Size \in Int /\ UseCellCnt \in Int /\ FreeCellCnt \in Int
  BY DEF Pop, PopCas, SameTop, ForgetTop, At, Goto, CellInvariant, CellTypeOK, PlacesOK, PlaceOK, ReadsOK, ReadOK, Holding
<1> HIDE DEF p
<1>2. IsList(FreeCells, HeadFreeNode.ptr, FreeNext) /\ IsList(Stacked, Top.ptr, Next)
  BY DEF CellInvariant, ListsOK
<1>3. /\ p \in Cells /\ p \in CellsOf(Stacked) /\ Len(Stacked) \in Nat /\ Stacked # <<>> /\ p = Stacked[1]
      /\ IsList(Tail(Stacked), nxt[t], Next) /\ Len(Tail(Stacked)) = Len(Stacked) - 1
      /\ CellsOf(Tail(Stacked)) = CellsOf(Stacked) \ {p}
  BY <1>1, <1>2, PopList, CellsOfList
<1>4. /\ hand' = [hand EXCEPT ![t] = Data[p]] /\ chunks' = Tail(chunks) /\ stage' = [stage EXCEPT ![t] = "taken"]
      /\ UNCHANGED <<list, FreeNodeCnt, used, unborn, deleted>>
  <2>1. cell'[t] # Null /\ val'[t] = Data[p]
    BY <1>1 DEF CellInvariant, CellTypeOK
  <2> QED BY <2>1 DEF Pop
<1>5. Others(t)
  BY <1>1, <1>4 DEF Others, Same, CellInvariant, CellTypeOK, PoolTypeOK
<1>6. Top'.ptr = nxt[t] /\ Top'.tag = GetTagCnt(Top)
  BY <1>1 DEF Ptr
<1>7. Stacked' = Tail(Stacked)
  BY <1>1, <1>3, <1>6, CellsFromList DEF Stacked
<1>8. FreeCells' = FreeCells
  BY <1>1 DEF FreeCells
<1>9. ListsOK'
  BY <1>1, <1>2, <1>3, <1>6, <1>7, <1>8 DEF ListsOK
<1>10. CellTypeOK'
  <2>1. GetTagCnt(Top) \in Nat
    BY FreshTag
  <2>2. Top' \in Words
    BY <1>1, <2>1 DEF Words, Ptr, CellInvariant, CellTypeOK
  <2>3. pc' \in [Threads -> Places] /\ cell' \in [Threads -> Links] /\ val' \in [Threads -> Seq(Nodes)]
    BY <1>1, <1>3 DEF CellInvariant, CellTypeOK, Places, Links
  <2>4. old' \in [Threads -> Words] /\ nxt' \in [Threads -> Links]
    BY <1>1 DEF CellInvariant, CellTypeOK, Words, NoPtr, Ptr, Links
  <2> QED BY <1>1, <2>2, <2>3, <2>4 DEF CellInvariant, CellTypeOK
<1>11. CellsApart'
  <2>1. InOnePlace(CellsOf(Stacked), CellsOf(FreeCells), cell, made)
    BY PlacesAlike DEF CellInvariant, CellsApart
  <2>2. InOnePlace(CellsOf(Stacked) \ {p}, CellsOf(FreeCells), cell', made)
    BY <1>1, <1>3, <2>1, TakeCell
  <2>3. InOnePlace(CellsOf(FreeCells), CellsOf(Stacked) \ {p}, cell', made)
    BY <2>2, PlacesAlike
  <2> QED BY <1>1, <1>3, <1>7, <1>8, <2>3, Zenon DEF CellsApart
<1>12. pc'[t] = "fTop" /\ cell'[t] # Null /\ stage'[t] = "taken"
  BY <1>1, <1>4 DEF CellInvariant, CellTypeOK, PoolTypeOK
<1>13. ASSUME NEW u \in Threads PROVE PlaceOK(u)' /\ ReadOK(u)'
  <2>1. CASE u = t
    BY <1>1, <1>12, <2>1 DEF PlaceOK, ReadOK, CellInvariant, PlacesOK, Holding
  <2>2. CASE u # t
    <3>1. old[u] # Top'
      BY <1>6, FreshTag
    <3> QED BY <1>1, <1>5, <2>2, <3>1 DEF PlaceOK, ReadOK, Others, Same, CellInvariant, PlacesOK, ReadsOK
  <2> QED BY <2>1, <2>2
<1>14. CountsOK'
  <2>1. /\ HasCell(pc'[t]) = 0 /\ HasCell(pc[t]) = 0 /\ HasItem(pc'[t]) = 0 /\ HasItem(pc[t]) = 1
        /\ Uses(pc'[t], left'[t]) = 1 /\ Uses(pc[t], left[t]) = 0
        /\ IsAt(pc'[t], "aUndo") = 0 /\ IsAt(pc[t], "aUndo") = 0 /\ IsAt(pc'[t], "oUndo") = 0 /\ IsAt(pc[t], "oUndo") = 0
    BY <1>1, <1>12 DEF HasCell, HasItem, Uses, IsAt, Holding
  <2>2. Len(Stacked') = Len(Stacked) - 1
    BY <1>3, <1>7
  <2>3. /\ FreeCellCnt' + IsAt(pc'[t], "aUndo") >= FreeCellCnt + IsAt(pc[t], "aUndo")
        /\ Size' + IsAt(pc'[t], "oUndo") >= Size + IsAt(pc[t], "oUndo")
    BY <1>1, <2>1
  <2>4. /\ (Size' + HasItem(pc'[t])) - Len(Stacked') = (Size + HasItem(pc[t])) - Len(Stacked)
        /\ UseCellCnt' - Uses(pc'[t], left'[t]) - Len(Stacked') = UseCellCnt - Uses(pc[t], left[t]) - Len(Stacked)
    BY <1>1, <1>3, <2>1, <2>2
  <2>5. (FreeCellCnt' + HasCell(pc'[t])) - Len(FreeCells') = (FreeCellCnt + HasCell(pc[t])) - Len(FreeCells)
    BY <1>1, <1>8, <2>1, Zenon
  <2> QED BY <1>5, <1>9, <1>10, <2>3, <2>4, <2>5, CountsStay, Zenon
<1>15. CellInvariant'
  BY <1>9, <1>10, <1>11, <1>13, <1>14 DEF CellInvariant, PlacesOK, ReadsOK
<1> QED BY <1>1, <1>3, <1>4, <1>7, <1>15

-----------------------------------------------------------------------------
(* The chunks, and the pool over a stack whose operations are one step *)

\* What is in the cells of a list.
ItemsOf(s, data) == [k \in 1 .. Len(s) |-> data[s[k]]]

\* A chunk is pushed.
LEMMA ChunckPushed ==
  ASSUME NEW s \in Seq(Cells), NEW c \in Cells, NEW data
  PROVE  <<data[c]>> \o ItemsOf(s, data) = ItemsOf(<<c>> \o s, data)
<1> DEFINE ch == ItemsOf(s, data)
           h == data[c]
<1>0. ch = [k \in 1 .. Len(s) |-> data[s[k]]]
  BY DEF ItemsOf
<1> HIDE DEF ch
<1>1. Len(s) \in Nat /\ Len(ch) = Len(s) /\ DOMAIN ch = 1 .. Len(s)
  <2>1. ch \in Seq({data[x] : x \in Cells}) /\ Len(s) \in Nat /\ DOMAIN ch = 1 .. Len(s)
    BY <1>0
  <2> QED BY <2>1
<1> DEFINE V == {data[x] : x \in Cells} \cup {h}
<1>2. ch \in Seq(V) /\ h \in V
  BY <1>0
<1> HIDE DEF V, h
<1>3. <<h>> \o ch \in Seq(V) /\ Len(<<h>> \o ch) = Len(s) + 1
  BY <1>1, <1>2
<1>4. <<c>> \o s \in Seq(Cells) /\ Len(<<c>> \o s) = Len(s) + 1
  BY <1>1
<1>5. \A k \in 1 .. Len(s) + 1 : (<<h>> \o ch)[k] = IF k = 1 THEN h ELSE ch[k - 1]
  BY <1>1, <1>2
<1>6. \A k \in 1 .. Len(s) + 1 : (<<c>> \o s)[k] = IF k = 1 THEN c ELSE s[k - 1]
  BY <1>1
<1>7. \A k \in 1 .. Len(s) + 1 : (<<h>> \o ch)[k] = data[(<<c>> \o s)[k]]
  <2> TAKE k \in 1 .. Len(s) + 1
  <2>1. CASE k = 1
    BY <1>0, <1>5, <1>6, <2>1 DEF h
  <2>2. CASE k # 1
    <3>1. k - 1 \in 1 .. Len(s)
      BY <1>1, <2>2
    <3> QED BY <1>0, <1>5, <1>6, <2>2, <3>1
  <2> QED BY <2>1, <2>2
<1> QED BY <1>3, <1>4, <1>7 DEF ItemsOf, ch, h

\* A chunk is popped.
LEMMA ChunckPopped ==
  ASSUME NEW s \in Seq(Cells), NEW data, NEW ch, s # <<>>, ch = ItemsOf(s, data)
  PROVE  ch # <<>> /\ Head(ch) = data[s[1]] /\ Tail(ch) = ItemsOf(Tail(s), data)
<1>0. ch = [k \in 1 .. Len(s) |-> data[s[k]]]
  BY DEF ItemsOf
<1> DEFINE V == {data[x] : x \in Cells}
<1>1. Len(s) \in Nat /\ Len(s) >= 1 /\ ch \in Seq(V) /\ DOMAIN ch = 1 .. Len(s)
  BY <1>0
<1> HIDE DEF V
<1>2. Len(ch) = Len(s) /\ ch # <<>> /\ Head(ch) = ch[1]
  BY <1>1
<1>3. ch[1] = data[s[1]]
  BY <1>0, <1>1
<1>4. Tail(s) \in Seq(Cells) /\ Len(Tail(s)) = Len(s) - 1 /\ \A k \in 1 .. Len(s) - 1 : Tail(s)[k] = s[k + 1]
  BY <1>1
<1>5. Tail(ch) \in Seq(V) /\ Len(Tail(ch)) = Len(s) - 1 /\ \A k \in 1 .. Len(s) - 1 : Tail(ch)[k] = ch[k + 1]
  BY <1>1, <1>2
<1>6. \A k \in 1 .. Len(s) - 1 : Tail(ch)[k] = data[Tail(s)[k]]
  <2> TAKE k \in 1 .. Len(s) - 1
  <2>1. k + 1 \in 1 .. Len(s)
    BY <1>1
  <2> QED BY <1>0, <1>4, <1>5, <2>1
<1> QED BY <1>2, <1>3, <1>4, <1>5, <1>6 DEF ItemsOf

\* The chunks are what is in the stack.
LEMMA ChuncksAreItems == StackKeepsChunks <=> chunks = ItemsOf(Stacked, Data)
  BY DEF StackKeepsChunks, ItemsOf

\* The steps of a thread.
ThreadStep(t) ==
  \/ Outside(t) /\ (Alloc(t) \/ BeginPop(t) \/ BeginPush(t) \/ End(t))
  \/ Continues(t)

\* Each of them is one step of the pool or none.
LEMMA StepOfPool ==
  ASSUME CellInvariant, StackKeepsChunks, PoolTypeOK, NEW t \in Threads, ThreadStep(t)
  PROVE  PoolStep(t) \/ UNCHANGED poolVars
<1>1. CASE Alloc(t) \/ BeginPop(t) \/ End(t) \/ PopFails(t) \/ EndPop(t)
  BY <1>1 DEF Alloc, BeginPop, End, PopFails, EndPop, PoolStep
<1>2. CASE BeginPush(t)
  <2>1. (CHOOSE n \in used : TRUE) \in used
    BY <1>2 DEF BeginPush
  <2> QED BY <1>2, <2>1 DEF BeginPush, PoolStep
<1>3. CASE AllocNew(t)
  <2>1. IsFiniteSet(unborn) /\ ChunckSize \in Nat /\ ChunckSize <= Cardinality(unborn)
    <3>1. IsFiniteSet(unborn)
      BY NodesAssumption, FS_Subset DEF PoolTypeOK
    <3>2. Cardinality(unborn) >= ChunckSize
      BY <1>3 DEF AllocNew
    <3>3. Cardinality(unborn) \in Nat
      BY <3>1, FS_CardinalityType
    <3> QED BY <3>1, <3>2, <3>3, ChunckAssumption
  <2>2. \E s : s \in FreshLists
    BY <2>1, Numbering DEF FreshLists
  <2>3. (CHOOSE s \in FreshLists : TRUE) \in FreshLists
    BY <2>2, Zenon
  <2> QED BY <1>3, <2>3 DEF AllocNew, PoolStep
<1>4. CASE Inside(t)
  BY <1>4 DEF Inside
<1>5. CASE Push(t)
  <2>1. CASE cell'[t] = Null
    BY <1>5, <2>1 DEF Push, PoolStep
  <2>2. CASE cell'[t] # Null
    BY <1>5, <2>2 DEF Push
  <2> QED BY <2>1, <2>2
<1>6. CASE Pop(t)
  <2>1. CASE Top = old[t]
    <3>1. /\ Stacked # <<>> /\ stage[t] = "alloc" /\ hand' = [hand EXCEPT ![t] = Data[Stacked[1]]]
          /\ chunks' = Tail(chunks) /\ stage' = [stage EXCEPT ![t] = "taken"]
          /\ UNCHANGED <<list, FreeNodeCnt, used, unborn, deleted>>
      BY <1>6, <2>1, PopCasKeeps
    <3>2. Stacked \in Seq(Cells)
      BY DEF CellInvariant, ListsOK, IsList
    <3>3. chunks # <<>> /\ Head(chunks) = Data[Stacked[1]]
      BY <3>1, <3>2, ChunckPopped, ChuncksAreItems
    <3>4. TakeChunck(t)
      BY <3>1, <3>3 DEF TakeChunck
    <3> QED BY <3>4 DEF PoolStep
  <2>2. CASE Top # old[t]
    <3>1. cell[t] = Null /\ cell' = cell
      BY <1>6, <2>2 DEF Pop, PopCas, SameTop, At, CellInvariant, PlacesOK, PlaceOK, Holding
    <3> QED BY <1>6, <3>1 DEF Pop
  <2> QED BY <2>1, <2>2
<1> QED BY <1>1, <1>2, <1>3, <1>4, <1>5, <1>6 DEF ThreadStep, Continues

\* Nothing that the chunks are read from changes.
LEMMA ChuncksStay ==
  ASSUME StackKeepsChunks, Stacked' = Stacked, chunks' = chunks, \A c \in CellsOf(Stacked) : Data'[c] = Data[c]
  PROVE  StackKeepsChunks'
<1>1. \A k \in 1 .. Len(Stacked) : Data'[Stacked[k]] = Data[Stacked[k]]
  BY DEF CellsOf
<1> QED BY <1>1 DEF StackKeepsChunks

\* A thread's step keeps the invariant.
LEMMA StepKeeps ==
  ASSUME CellInvariant, StackKeepsChunks, PoolTypeOK, PoolTypeOK', NEW t \in Threads, ThreadStep(t)
  PROVE  CellInvariant' /\ StackKeepsChunks'
<1>0. ASSUME UNCHANGED <<Top, Next, Data, chunks>> PROVE StackKeepsChunks'
  <2>1. Stacked' = Stacked
    BY <1>0 DEF Stacked
  <2> QED BY <1>0, <2>1, ChuncksStay
<1>1. CASE Outside(t) /\ Alloc(t)
  BY <1>0, <1>1, AllocKeeps DEF Alloc, AllocOwn, cellVars, stackVars
<1>2. CASE Outside(t) /\ BeginPop(t)
  BY <1>0, <1>2, BeginPopKeeps DEF BeginPop, PopReserve, AllocNeedsChunck
<1>3. CASE Outside(t) /\ BeginPush(t)
  <2>1. chunks' = chunks
    <3>1. Free(t, CHOOSE n \in used : TRUE)
      BY <1>3 DEF BeginPush
    <3> QED BY <3>1 DEF Free
  <2> QED BY <1>0, <1>3, <2>1, BeginPushKeeps DEF BeginPush, stackVars
<1>4. CASE Outside(t) /\ End(t)
  BY <1>0, <1>4, EndKeeps DEF End, EndThread, cellVars, stackVars
<1>5. CASE Inside(t)
  <2>1. UNCHANGED poolVars
    BY <1>5 DEF Inside
  <2>2. CASE CellPoolStep(t) /\ UNCHANGED <<stackVars, val>>
    <3>1. Calm /\ UNCHANGED stackVars
      BY <2>1, <2>2 DEF Calm
    <3>2. CellInvariant'
      <4>1. CASE AllocReserve(t) \/ AllocUndo(t) \/ NewNode(t) \/ AllocReadTop(t) \/ AllocReadNext(t)
        BY <3>1, <4>1, AllocReserveKeeps, AllocUndoKeeps, NewNodeKeeps, AllocReadTopKeeps, AllocReadNextKeeps
      <4>2. CASE AllocCas(t)
        BY <3>1, <4>2, AllocCasKeeps, AllocCasFailsKeeps
      <4>3. CASE FreeLink(t) \/ FreeCas(t) \/ NewNodeCount(t)
        BY <3>1, <4>3, FreeLinkKeeps, FreeCasKeeps, FreeCasFailsKeeps, NewNodeCountKeeps
      <4> QED BY <2>2, <4>1, <4>2, <4>3 DEF CellPoolStep
    <3> QED BY <1>0, <2>1, <3>1, <3>2 DEF stackVars, poolVars
  <2>3. CASE PushLink(t)
    <3>1. Calm
      BY <2>1, <2>3 DEF Calm, PushLink
    <3>2. CellInvariant' /\ Stacked' = Stacked /\ \A c \in CellsOf(Stacked) : Data'[c] = Data[c]
      BY <2>3, <3>1, PushLinkKeeps
    <3>3. chunks' = chunks
      BY <2>1 DEF poolVars
    <3> QED BY <3>2, <3>3, ChuncksStay
  <2>4. CASE PushCount(t)
    BY <1>0, <2>1, <2>4, PushCountKeeps DEF PushCount, Calm, poolVars
  <2>5. CASE PopStep(t)
    BY <1>0, <2>1, <2>5, PopReadTopKeeps, PopReadNextKeeps DEF PopStep, PopReadTop, PopReadNext, Calm, poolVars, stackVars
  <2> QED BY <1>5, <2>2, <2>3, <2>4, <2>5 DEF Inside, PushStep
<1>6. CASE Push(t)
  <2>1. CASE Top = old[t]
    <3>1. /\ CellInvariant' /\ GiveChunck(t) /\ cell[t] \in Cells /\ Data' = Data
          /\ Stacked' = <<cell[t]>> \o Stacked /\ Data[cell[t]] = hand[t]
      BY <1>6, <2>1, PushCasKeeps
    <3>2. chunks' = <<hand[t]>> \o chunks
      BY <3>1 DEF GiveChunck
    <3>3. Stacked \in Seq(Cells)
      BY DEF CellInvariant, ListsOK, IsList
    <3>4. <<hand[t]>> \o chunks = ItemsOf(<<cell[t]>> \o Stacked, Data)
      <4>1. chunks = ItemsOf(Stacked, Data) /\ cell[t] \in Cells /\ Data[cell[t]] = hand[t]
        BY <3>1, ChuncksAreItems
      <4>2. <<Data[cell[t]]>> \o ItemsOf(Stacked, Data) = ItemsOf(<<cell[t]>> \o Stacked, Data)
        BY <3>3, <4>1, ChunckPushed, Zenon
      <4> QED BY <4>1, <4>2, Zenon
    <3> QED BY <3>1, <3>2, <3>4 DEF StackKeepsChunks, ItemsOf
  <2>2. CASE Top # old[t]
    <3>1. PushCas(t) /\ cell[t] # Null /\ cell' = cell
      <4>1. PushCas(t)
        BY <1>6 DEF Push
      <4>2. pc[t] = "pCas" /\ cell' = cell
        BY <2>2, <4>1 DEF PushCas, SameTop, At
      <4> QED BY <4>1, <4>2 DEF CellInvariant, PlacesOK, PlaceOK, Holding
    <3>2. UNCHANGED poolVars
      BY <1>6, <3>1 DEF Push
    <3>3. Calm
      BY <2>2, <3>1, <3>2 DEF Calm, PushCas, SameTop
    <3>4. UNCHANGED <<Top, Next, Data, chunks>>
      BY <2>2, <3>1, <3>2 DEF PushCas, SameTop, poolVars
    <3> QED BY <1>0, <2>2, <3>1, <3>3, <3>4, PushCasFailsKeeps
  <2> QED BY <2>1, <2>2
<1>7. CASE Pop(t)
  <2>1. CASE Top = old[t]
    <3>1. CellInvariant' /\ Data' = Data /\ Stacked # <<>> /\ Stacked' = Tail(Stacked) /\ chunks' = Tail(chunks)
      BY <1>7, <2>1, PopCasKeeps
    <3>2. Stacked \in Seq(Cells)
      BY DEF CellInvariant, ListsOK, IsList
    <3>3. Tail(chunks) = ItemsOf(Tail(Stacked), Data)
      BY <3>1, <3>2, ChunckPopped, ChuncksAreItems
    <3> QED BY <3>1, <3>3 DEF StackKeepsChunks, ItemsOf
  <2>2. CASE Top # old[t]
    <3>1. PopCas(t) /\ cell[t] = Null /\ cell' = cell
      BY <1>7, <2>2 DEF Pop, PopCas, SameTop, At, CellInvariant, PlacesOK, PlaceOK, Holding
    <3>2. UNCHANGED poolVars
      BY <1>7, <3>1 DEF Pop
    <3>3. Calm
      BY <2>2, <3>1, <3>2 DEF Calm, PopCas, SameTop
    <3>4. UNCHANGED <<Top, Next, Data, chunks>>
      BY <2>2, <3>1, <3>2 DEF PopCas, SameTop, poolVars
    <3> QED BY <1>0, <2>2, <3>1, <3>3, <3>4, PopCasFailsKeeps
  <2> QED BY <2>1, <2>2
<1>8. CASE PopFails(t)
  BY <1>0, <1>8, PopFailsKeeps DEF PopFails, PopUndo, NoChunck
<1>9. CASE EndPop(t)
  BY <1>0, <1>9, EndPopKeeps DEF EndPop, UseChunck, stackVars
<1>10. CASE AllocNew(t)
  BY <1>0, <1>10, AllocNewKeeps DEF AllocNew, NewNodeList, cellVars, stackVars
<1> QED BY <1>1, <1>2, <1>3, <1>4, <1>5, <1>6, <1>7, <1>8, <1>9, <1>10 DEF ThreadStep, Continues

-----------------------------------------------------------------------------
(* The first state *)

\* The first cells are different ones.
LEMMA FirstCellsDiffer ==
  /\ MemoryAllocSize \in Nat \ {0}
  /\ FirstCells \in [1 .. MemoryAllocSize -> Cells]
  /\ \A i, j \in 1 .. MemoryAllocSize : FirstCells[i] = FirstCells[j] => i = j
<1>1. Cardinality(Cells) \in Nat
  BY CellAssumption, FS_CardinalityType
<1>2. MemoryAllocSize \in Nat \ {0} /\ MemoryAllocSize <= Cardinality(Cells)
  BY <1>1, AllocAssumption
<1>3. \E s \in [1 .. MemoryAllocSize -> Cells] : \A i, j \in 1 .. MemoryAllocSize : s[i] = s[j] => i = j
  BY <1>2, CellAssumption, Numbering, Zenon
<1> QED BY <1>2, <1>3, Zenon DEF FirstCells

\* The first cells, the last one made before the others.
FirstList == [k \in 1 .. MemoryAllocSize |-> FirstCells[(MemoryAllocSize + 1) - k]]

\* They are the list of free cells at the beginning.
LEMMA FirstListIsList ==
  ASSUME FreeInit
  PROVE  /\ IsList(FirstList, HeadFreeNode.ptr, FreeNext) /\ CellsOf(FirstList) = made
         /\ Len(FirstList) = MemoryAllocSize /\ HeadFreeNode \in Words /\ FreeNext \in [Cells -> Links]
         /\ made \subseteq Cells
<1> DEFINE M == MemoryAllocSize
<1>1. /\ M \in Nat \ {0} /\ FirstCells \in [1 .. M -> Cells]
      /\ \A i, j \in 1 .. M : FirstCells[i] = FirstCells[j] => i = j
  BY FirstCellsDiffer
<1>2. HeadFreeNode = Ptr(FirstCells[M], 1) /\ made = {FirstCells[i] : i \in 1 .. M}
  BY DEF FreeInit
<1>3. FreeNext = [c \in Cells |-> IF \E i \in 2 .. M : c = FirstCells[i]
                                  THEN FirstCells[(CHOOSE i \in 2 .. M : c = FirstCells[i]) - 1] ELSE Null]
  BY Zenon DEF FreeInit
<1> HIDE DEF M
<1>4. \A i \in 2 .. M : FreeNext[FirstCells[i]] = FirstCells[i - 1]
  <2>1. TAKE i \in 2 .. M
  <2>2. FirstCells[i] \in Cells /\ i \in 1 .. M
    BY <1>1
  <2>3. FreeNext[FirstCells[i]] = FirstCells[(CHOOSE j \in 2 .. M : FirstCells[i] = FirstCells[j]) - 1]
    BY <1>3, <2>2
  <2>4. /\ (CHOOSE j \in 2 .. M : FirstCells[i] = FirstCells[j]) \in 2 .. M
        /\ FirstCells[i] = FirstCells[CHOOSE j \in 2 .. M : FirstCells[i] = FirstCells[j]]
    BY Zenon
  <2> DEFINE j == CHOOSE j \in 2 .. M : FirstCells[i] = FirstCells[j]
  <2>5. j \in 2 .. M /\ FirstCells[i] = FirstCells[j] /\ FreeNext[FirstCells[i]] = FirstCells[j - 1]
    BY <2>3, <2>4
  <2> HIDE DEF j
  <2>6. j \in 1 .. M
    BY <1>1, <2>5
  <2>7. j = i
    BY <1>1, <2>2, <2>5, <2>6
  <2> QED BY <2>5, <2>7
<1>5. FreeNext[FirstCells[1]] = Null
  <2>1. FirstCells[1] \in Cells /\ \A i \in 2 .. M : FirstCells[1] # FirstCells[i]
    BY <1>1
  <2> QED BY <1>3, <2>1
<1>6. FirstList = [k \in 1 .. M |-> FirstCells[(M + 1) - k]]
  BY DEF FirstList, M
<1>7. Len(FirstList) = M /\ FirstList \in Seq(Cells) /\ \A k \in 1 .. M : FirstList[k] = FirstCells[(M + 1) - k]
  BY <1>1, <1>6
<1>8. HeadFreeNode.ptr = FirstList[1] /\ HeadFreeNode.ptr \in Cells /\ HeadFreeNode.tag = 1
  BY <1>1, <1>2, <1>7 DEF Ptr
<1>9. \A k \in 1 .. M : FreeNext[FirstList[k]] = IF k = M THEN Null ELSE FirstList[k + 1]
  <2>1. TAKE k \in 1 .. M
  <2>2. CASE k = M
    BY <1>1, <1>5, <1>7, <2>2
  <2>3. CASE k # M
    <3>1. (M + 1) - k \in 2 .. M /\ ((M + 1) - k) - 1 = (M + 1) - (k + 1) /\ k + 1 \in 1 .. M
      BY <1>1, <2>3
    <3>2. FirstList[k + 1] = FirstCells[(M + 1) - (k + 1)]
      BY <1>7, <3>1
    <3>3. FreeNext[FirstCells[(M + 1) - k]] = FirstCells[((M + 1) - k) - 1]
      BY <1>4, <3>1
    <3> QED BY <1>7, <2>3, <3>1, <3>2, <3>3
  <2> QED BY <2>2, <2>3
<1>10. NoRepeat(FirstList)
  <2> SUFFICES ASSUME NEW i \in 1 .. M, NEW j \in 1 .. M, FirstList[i] = FirstList[j] PROVE i = j
    BY <1>7 DEF NoRepeat
  <2>1. (M + 1) - i \in 1 .. M /\ (M + 1) - j \in 1 .. M
    BY <1>1
  <2>2. (M + 1) - i = (M + 1) - j
    BY <1>1, <1>7, <2>1
  <2> QED BY <1>1, <2>2
<1>11. CellsOf(FirstList) = made
  <2>1. \A k \in 1 .. M : (M + 1) - k \in 1 .. M /\ (M + 1) - ((M + 1) - k) = k
    BY <1>1
  <2>2. ASSUME NEW i \in 1 .. M PROVE FirstCells[i] \in CellsOf(FirstList)
    <3>1. FirstList[(M + 1) - i] = FirstCells[i]
      BY <1>7, <2>1
    <3> QED BY <1>7, <2>1, <3>1 DEF CellsOf
  <2>3. CellsOf(FirstList) = {FirstList[k] : k \in 1 .. M}
    BY <1>7 DEF CellsOf
  <2>4. ASSUME NEW k \in 1 .. M PROVE FirstList[k] \in made
    BY <1>2, <1>7, <2>1
  <2>5. CellsOf(FirstList) \subseteq made
    BY <2>3, <2>4, Zenon
  <2>6. made \subseteq CellsOf(FirstList)
    BY <1>2, <2>2, Zenon
  <2> QED BY <2>5, <2>6
<1>12. FirstList # <<>>
  BY <1>1, <1>7
<1>13. IsList(FirstList, HeadFreeNode.ptr, FreeNext)
  BY <1>7, <1>8, <1>9, <1>10, <1>12 DEF IsList
<1>14. HeadFreeNode \in Words
  BY <1>2, <1>8 DEF Words, Ptr, Links
<1>15. FreeNext \in [Cells -> Links]
  <2>1. \A c \in Cells : FreeNext[c] \in Links
    <3>1. TAKE c \in Cells
    <3>2. CASE \E i \in 2 .. M : c = FirstCells[i]
      <4>1. PICK i \in 2 .. M : c = FirstCells[i]
        BY <3>2
      <4>2. i - 1 \in 1 .. M
        BY <1>1
      <4> QED BY <1>1, <1>4, <4>1, <4>2 DEF Links
    <3>3. CASE ~ \E i \in 2 .. M : c = FirstCells[i]
      BY <1>3, <3>3 DEF Links
    <3> QED BY <3>2, <3>3
  <2>2. FreeNext = [c \in Cells |-> FreeNext[c]]
    BY <1>3, Zenon
  <2> QED BY <2>1, <2>2
<1>16. made \subseteq Cells
  BY <1>1, <1>2
<1> QED BY <1>7, <1>11, <1>13, <1>14, <1>15, <1>16 DEF M

\* The stack is empty, and no thread is in an operation.
LEMMA InitCellInvariant == Init => CellInvariant /\ StackKeepsChunks
<1> SUFFICES ASSUME Init PROVE CellInvariant /\ StackKeepsChunks
  OBVIOUS
<1>1. /\ FreeInit /\ Top = NoPtr /\ Next = [c \in Cells |-> Null] /\ Data = [c \in Cells |-> NoItem]
      /\ Size = 0 /\ val = [t \in Threads |-> NoItem]
  BY DEF Init, StackInit
<1>2. /\ FreeCellCnt = MemoryAllocSize /\ UseCellCnt = 0 /\ pc = [t \in Threads |-> "idle"]
      /\ old = [t \in Threads |-> NoPtr] /\ nxt = [t \in Threads |-> Null]
      /\ cell = [t \in Threads |-> Null] /\ left = [t \in Threads |-> 0]
  BY <1>1 DEF FreeInit
<1>3. MemoryAllocSize \in Nat \ {0}
  BY FirstCellsDiffer
<1>4. /\ IsList(FirstList, HeadFreeNode.ptr, FreeNext) /\ CellsOf(FirstList) = made
      /\ Len(FirstList) = MemoryAllocSize /\ HeadFreeNode \in Words /\ FreeNext \in [Cells -> Links]
      /\ made \subseteq Cells
  BY <1>1, FirstListIsList
<1>5. IsList(<<>>, Top.ptr, Next)
  BY <1>1 DEF IsList, NoRepeat, NoPtr, Ptr
<1>6. FreeCells = FirstList /\ Stacked = <<>>
  BY <1>4, <1>5, CellsFromList, Zenon DEF FreeCells, Stacked
<1>7. CellsOf(<<>>) = {} /\ Len(<<>>) = 0
  BY DEF CellsOf
<1>8. NoPtr \in Words /\ NoItem \in Seq(Nodes) /\ Null \in Links /\ "idle" \in Places
  BY DEF NoPtr, Ptr, Words, Links, NoItem, Places
<1>9. CellTypeOK
  BY <1>1, <1>2, <1>3, <1>4, <1>8 DEF CellTypeOK
<1>10. PlacesOK
  <2>1. \A t \in Threads : stage[t] = "idle"
    BY DEF Init, PoolInit
  <2> QED BY <1>2, <2>1 DEF PlacesOK, PlaceOK, Holding
<1>11. ReadsOK
  BY <1>2 DEF ReadsOK, ReadOK
<1>12. ListsOK
  BY <1>4, <1>5, <1>6 DEF ListsOK
<1>13. CellsApart
  <2>1. {cell[t] : t \in Threads} \ {Null} = {} /\ \A t \in Threads : cell[t] = Null
    BY <1>2
  <2> QED BY <1>4, <1>6, <1>7, <2>1 DEF CellsApart, InOnePlace
<1>14. CountsOK
  <2>1. PromisedCell = {} /\ PromisedItem = {} /\ CellUndo = {} /\ ItemUndo = {} /\ Using = {}
    BY <1>2 DEF PromisedCell, PromisedItem, CellUndo, ItemUndo, Using, Standing, Holding
  <2>2. Cardinality({}) = 0
    BY FS_EmptySet
  <2> QED BY <1>1, <1>2, <1>3, <1>4, <1>6, <1>7, <2>1, <2>2 DEF CountsOK
<1>15. StackKeepsChunks
  BY <1>6, <1>7 DEF StackKeepsChunks, Init, PoolInit
<1> QED BY <1>9, <1>10, <1>11, <1>12, <1>13, <1>14, <1>15 DEF CellInvariant

-----------------------------------------------------------------------------
(* The theorems *)

\* A step of the pools over the stack is a step of the pool or none.
LEMMA NextOfPool == PoolsInvariant /\ [PoolsNext]_vars => [PoolNext]_poolVars
<1> SUFFICES ASSUME PoolsInvariant, [PoolsNext]_vars PROVE [PoolNext]_poolVars
  OBVIOUS
<1>1. CASE UNCHANGED vars
  BY <1>1 DEF vars
<1>2. CASE PoolsNext
  <2>1. PICK t \in Threads : ThreadStep(t)
    BY <1>2, Zenon DEF PoolsNext, ThreadStep
  <2>2. PoolTypeOK
    BY DEF PoolsInvariant, PoolInvariant
  <2> QED BY <2>1, <2>2, StepOfPool DEF PoolsInvariant, PoolNext
<1> QED BY <1>1, <1>2

\* The invariant is inductive.
LEMMA KeepsPoolsInvariant == PoolsInvariant /\ [PoolsNext]_vars => PoolsInvariant'
<1> SUFFICES ASSUME PoolsInvariant, [PoolsNext]_vars PROVE PoolsInvariant'
  OBVIOUS
<1>1. PoolInvariant' /\ PoolTypeOK /\ PoolTypeOK'
  <2>1. PoolInvariant'
    BY NextOfPool, KeepsPoolInvariant DEF PoolsInvariant
  <2> QED BY <2>1 DEF PoolsInvariant, PoolInvariant
<1>2. CASE UNCHANGED vars
  <2>1. UNCHANGED <<poolVars, freeVars, localVars, stackVars, val>>
    BY <1>2 DEF vars, cellVars
  <2>2. CellInvariant'
    BY <2>1 DEF PoolsInvariant, CellInvariant, CellTypeOK, PlacesOK, PlaceOK, ReadsOK, ReadOK, ListsOK, CellsApart,
                CountsOK, FreeCells, Stacked, PromisedCell, PromisedItem, CellUndo, ItemUndo, Using, Standing,
                freeVars, localVars, stackVars, poolVars
  <2>3. StackKeepsChunks'
    BY <2>1 DEF PoolsInvariant, StackKeepsChunks, Stacked, freeVars, stackVars, poolVars
  <2> QED BY <1>1, <2>2, <2>3 DEF PoolsInvariant
<1>3. CASE PoolsNext
  <2>1. PICK t \in Threads : ThreadStep(t)
    BY <1>3, Zenon DEF PoolsNext, ThreadStep
  <2>2. CellInvariant' /\ StackKeepsChunks'
    BY <1>1, <2>1, StepKeeps DEF PoolsInvariant
  <2> QED BY <1>1, <2>2 DEF PoolsInvariant
<1> QED BY <1>2, <1>3

\* Both lock-free lists are lists, what a thread has read is still so if its
\* compare-exchange succeeds, every cell is in one place, the counts promise no more
\* than there is, and the chunks on the stack are those that were pushed.
THEOREM PoolsInvariantHolds == Spec => []PoolsInvariant
<1>1. Init => PoolsInvariant
  BY InitCellInvariant, InitPoolInvariant DEF Init, PoolsInvariant
<1>2. PoolsInvariant /\ [PoolsNext]_vars => PoolsInvariant'
  BY KeepsPoolsInvariant
<1> QED BY <1>1, <1>2, PTL DEF Spec

\* The counts of the free cells and of the items on the stack, which are changed
\* apart from the lists, promise no more than the lists have, whoever is promised a
\* cell finds one, and at rest the cells in use and the free ones are all there are.
THEOREM PromisesKept == Spec => []CountsKeepPromises
<1>1. PoolsInvariant => CountsKeepPromises
  <2> SUFFICES ASSUME CellInvariant PROVE CountsKeepPromises
    BY DEF PoolsInvariant
  <2>1. /\ FreeCellsCounted
        /\ Size + Cardinality(Standing({"oUndo", "oTop", "oNext", "oCas", "pSize"})) = Len(Stacked)
    BY DEF CellInvariant, CountsOK, FreeCellsCounted, PromisedCell, PromisedItem
  <2>2. \A t \in Standing({"aNext", "oNext"}) : old[t].ptr # Null
    BY DEF CellInvariant, PlacesOK, PlaceOK, Standing
  <2>3. ASSUME Standing({"idle"}) = Threads PROVE Cardinality(made) = FreeCellCnt + UseCellCnt
    <3>1. \A t \in Threads : pc[t] = "idle"
      BY <2>3 DEF Standing
    <3>2. \A t \in Threads : cell[t] = Null
      BY <3>1 DEF CellInvariant, PlacesOK, PlaceOK, Holding
    <3>3. PromisedCell = {} /\ Using = {}
      BY <3>1 DEF PromisedCell, Using, Standing, Holding
    <3>4. FreeCellCnt = Len(FreeCells) /\ UseCellCnt = Len(Stacked)
      <4>1. FreeCellCnt \in Int /\ UseCellCnt \in Int
        BY DEF CellInvariant, CellTypeOK
      <4>2. Len(FreeCells) \in Nat /\ Len(Stacked) \in Nat
        BY CellsOfList, Zenon DEF CellInvariant, ListsOK
      <4>3. Cardinality({}) = 0
        BY FS_EmptySet
      <4> QED BY <3>3, <4>1, <4>2, <4>3 DEF CellInvariant, CountsOK
    <3>5. made = CellsOf(FreeCells) \cup CellsOf(Stacked) /\ CellsOf(FreeCells) \cap CellsOf(Stacked) = {}
      <4>1. {cell[t] : t \in Threads} \ {Null} = {}
        BY <3>2
      <4> QED BY <4>1 DEF CellInvariant, CellsApart, InOnePlace
    <3>6. /\ IsFiniteSet(CellsOf(FreeCells)) /\ Cardinality(CellsOf(FreeCells)) = Len(FreeCells)
          /\ IsFiniteSet(CellsOf(Stacked)) /\ Cardinality(CellsOf(Stacked)) = Len(Stacked)
          /\ Len(FreeCells) \in Nat /\ Len(Stacked) \in Nat
      BY ListLength DEF CellInvariant, ListsOK, IsList
    <3>7. Cardinality(made) = Cardinality(CellsOf(FreeCells)) + Cardinality(CellsOf(Stacked)) - Cardinality({})
      <4>1. Cardinality(CellsOf(FreeCells) \cup CellsOf(Stacked))
              = Cardinality(CellsOf(FreeCells)) + Cardinality(CellsOf(Stacked))
                - Cardinality(CellsOf(FreeCells) \cap CellsOf(Stacked))
        BY <3>6, FS_Union, Zenon
      <4> QED BY <3>5, <4>1, Zenon
    <3>8. Cardinality({}) = 0
      BY FS_EmptySet
    <3> DEFINE m == Cardinality(made)
               f == Cardinality(CellsOf(FreeCells))
               s == Cardinality(CellsOf(Stacked))
               e == Cardinality({})
    <3>9. m = f + s - e /\ f = Len(FreeCells) /\ s = Len(Stacked) /\ e = 0
      BY <3>6, <3>7, <3>8
    <3> HIDE DEF m, f, s, e
    <3>10. m = FreeCellCnt + UseCellCnt
      BY <3>4, <3>6, <3>9
    <3> QED BY <3>10 DEF m
  <2> QED BY <2>1, <2>2, <2>3 DEF CountsKeepPromises
<1> QED BY <1>1, PoolsInvariantHolds, PTL

\* A cell is in one of the two lists or with one thread, however often it was taken
\* from the pool and given back while others still compare with its address.
THEOREM CellsOnce == Spec => []CellOnce
<1>1. PoolsInvariant => CellOnce
  <2> SUFFICES ASSUME CellInvariant PROVE CellOnce
    BY DEF PoolsInvariant
  <2>1. /\ Cardinality(CellsOf(FreeCells)) = Len(FreeCells)
        /\ Cardinality(CellsOf(Stacked)) = Len(Stacked)
    BY ListLength DEF CellInvariant, ListsOK, IsList
  <2> QED BY <2>1 DEF CellInvariant, CellsApart, InOnePlace, CellOnce
<1> QED BY <1>1, PoolsInvariantHolds, PTL

\* The lock-free stack gives the chunks back last in, first out, each to one thread.
THEOREM ChuncksKept == Spec => []StackKeepsChunks
<1>1. PoolsInvariant => StackKeepsChunks
  BY DEF PoolsInvariant
<1> QED BY <1>1, PoolsInvariantHolds, PTL

\* The pool over the lock-free stack, one access to shared memory at a time, does
\* what the pool over a stack of atomic operations does.
THEOREM PoolImplemented == Spec => ImplementsPool
<1>1. Init => PoolInit
  BY DEF Init
<1>2. PoolsInvariant /\ [PoolsNext]_vars => [PoolNext]_poolVars
  BY NextOfPool
<1> QED BY <1>1, <1>2, PoolsInvariantHolds, PTL DEF Spec, ImplementsPool, PoolSpec

\* The count that Alloc trusts is right over the lock-free stack, too.
THEOREM ListsCountedOverStack == Spec => []ListsCounted
<1> QED BY PoolImplemented, CountsCorrect, PTL DEF ImplementsPool

\* No node is in two places, over the lock-free stack, too.
THEOREM NodeOnceOverStack == Spec => []NodeOnce
<1> QED BY PoolImplemented, NodesApart, PTL DEF ImplementsPool
==============================================================================
