------------------------- MODULE LockFreeQueueProofs -------------------------
(***************************************************************************)
(* The theorems about LockFreeQueue with one thread that enqueues and any  *)
(* number that dequeue, which is how ChatServer uses its send queues: its  *)
(* content thread alone calls SendPacket.  With three threads in Enqueue a *)
(* referenced node can be freed.                                           *)
(*                                                                         *)
(* Assumed as well is FreshTag: a Dequeue draws a tag that no other one    *)
(* still compares with.                                                    *)
(***************************************************************************)
EXTENDS LockFreeQueue, Sequences, SequenceTheorems, FiniteSetTheorems, WellFoundedInduction, TLAPS

-----------------------------------------------------------------------------
(* One thread enqueues, any number dequeue *)

Locations == Nodes \cup {Null}
AllItems == UNION {{t} \X (1 .. Enqueues[t]) : t \in Threads}

\* Where an Enqueue is before and after its node is linked, and where it holds a
\* reference to the tail that it read.
Preparing == {"eTail", "eHold", "eAgain", "eNext", "eCheck", "eLink"}
Finishing == {"eSwing", "eDrop", "eFree", "eSize"}
Holding   == {"eAgain", "eNext", "eCheck", "eLink", "eSwing", "eDrop"}

\* Where a Dequeue works for an item, has read Head, has a node that it took out, and
\* where one is freed.
Active   == {"dHead", "dTail", "dNext", "dCheck", "dData", "dCas"}
Reading  == Active \ {"dHead"}
Removing == {"dFlag", "dDrop"}
Freeing  == {"dFree", "eFree"}
Labels == {"idle", "dUndo"} \cup Preparing \cup Finishing \cup Active \cup Removing \cup Freeing

TypeOK ==
  /\ head \in [ptr : Nodes, tag : Nat] /\ tail \in [ptr : Nodes, tag : Nat]
  /\ Size \in Int /\ TagCnt \in Nat
  /\ Next \in [Nodes -> Locations]
  /\ RefCnt \in [Nodes -> Int] /\ DeleteFlag \in [Nodes -> Int] /\ FreeNodes \subseteq Nodes
  /\ pc \in [Threads -> Labels]
  /\ old \in [Threads -> [ptr : Locations, tag : Nat]] /\ cur \in [Threads -> [ptr : Locations, tag : Nat]]
  /\ node \in [Threads -> Locations] /\ nxt \in [Threads -> Locations] /\ tag \in [Threads -> Nat]
  /\ sent \in [Threads -> Nat]
  /\ DOMAIN Data = Nodes /\ DOMAIN val = Threads /\ DOMAIN taken = Threads /\ DOMAIN got = Threads

\* The list is f[a], f[a + 1], ..., f[b].
ListOK(f, a, b) ==
  /\ a \in Nat /\ b \in Nat /\ a <= b
  /\ f[a] = head.ptr
  /\ \A i \in a .. b : f[i] \in Nodes
  /\ \A i \in a .. b - 1 : Next[f[i]] = f[i + 1]
  /\ Next[f[b]] = Null
  /\ \A i, j \in a .. b : f[i] = f[j] => i = j
  /\ \A i \in a + 1 .. b : Data[f[i]] \in AllItems

\* Tail is the last node, or the last but one while an Enqueue has linked its node and
\* has not yet moved Tail.
ProducerOK(f, a, b) ==
  /\ \A t \in Threads :
       /\ pc[t] \in Preparing \cup Finishing => Enqueues[t] > 0
       /\ pc[t] \in Preparing <=> node[t] # Null
       /\ node[t] # Null => /\ Next[node[t]] = Null /\ Data[node[t]] \in AllItems
                            /\ \A i \in a .. b : f[i] # node[t]
       /\ pc[t] \in Holding \cup {"eHold"} /\ pc[t] # "eDrop" => old[t] = tail
       /\ pc[t] = "eNext" => nxt[t] = tail.ptr
       /\ pc[t] = "eCheck" => nxt[t] = Null
       /\ pc[t] = "eSwing" => nxt[t] = f[b] /\ a < b /\ tail.ptr = f[b - 1]
       /\ sent[t] <= Enqueues[t]
  /\ Standing({"eSwing"}) = {} => tail.ptr = f[b]

\* Who counts as a reference to node n: the list, the Enqueue that made it or the Dequeue
\* that took it out are one, the Enqueue that holds it is another.
Owned(f, a, b, n) ==
  \/ \E i \in a .. b : f[i] = n
  \/ \E t \in Threads : node[t] = n
  \/ \E t \in Threads : pc[t] \in Removing /\ old[t].ptr = n
Held(n)   == \E t \in Threads : pc[t] \in Holding /\ old[t].ptr = n
Doomed(n) == \E t \in Threads : pc[t] \in Freeing /\ old[t].ptr = n
Flagged(n) == \E t \in Threads : pc[t] = "dDrop" /\ old[t].ptr = n

RefsOK(f, a, b) ==
  /\ \A n \in Nodes :
       /\ RefCnt[n] = (IF Owned(f, a, b, n) THEN 1 ELSE 0) + (IF Held(n) THEN 1 ELSE 0)
       /\ DeleteFlag[n] = IF Flagged(n) \/ Doomed(n) \/ (Held(n) /\ ~Owned(f, a, b, n)) THEN 1 ELSE 0
       /\ n \in FreeNodes => ~Owned(f, a, b, n) /\ ~Held(n) /\ ~Doomed(n)
       /\ Doomed(n) => ~Owned(f, a, b, n) /\ ~Held(n)
  /\ \A t \in Threads : pc[t] \in Removing \cup Freeing \cup Holding => old[t].ptr \in Nodes
  /\ \A t \in Threads : pc[t] \in Removing \cup Freeing =>
       /\ \A i \in a .. b : f[i] # old[t].ptr
       /\ \A u \in Threads : node[u] # old[t].ptr
       /\ \A u \in Threads \ {t} : pc[u] \in Removing \cup Freeing => old[u].ptr # old[t].ptr

\* What a Dequeue has read is so as long as Head is what it read: its tag is in no other use.
DequeuersOK(f, a, b) ==
  /\ \A t \in Threads : pc[t] \in Active =>
       /\ tag[t] # head.tag
       /\ \A u \in Threads : pc[u] \in Active /\ u # t => tag[t] # tag[u]
       /\ \A u \in Threads : pc[u] \in Reading => tag[t] # old[u].tag
       /\ pc[t] \in Reading => old[t].ptr \in Nodes
       /\ pc[t] \in {"dNext", "dCheck", "dData", "dCas"} /\ old[t] = head => cur[t].ptr # head.ptr
       /\ pc[t] \in {"dCheck", "dData", "dCas"} /\ old[t] = head => nxt[t] = f[a + 1]
       /\ pc[t] = "dCas" /\ old[t] = head => val[t] = Data[f[a + 1]]

SizeOK(a, b) ==
  /\ Size + Cardinality(Reserved) + Cardinality(Uncounted) = b - a
  /\ Size + Cardinality(Standing({"dUndo"})) >= 0

QueueOK(f, a, b) ==
  /\ ListOK(f, a, b)
  /\ ProducerOK(f, a, b)
  /\ RefsOK(f, a, b)
  /\ DequeuersOK(f, a, b)
  /\ SizeOK(a, b)

\* No Dequeue is handed a tag that is still in use: no operation sleeps while the 16 bits
\* of TagCnt go round.
FreshTag ==
  \A t \in Threads : pc[t] = "idle" /\ pc'[t] = "dHead" =>
    /\ tag'[t] # head.tag
    /\ \A u \in Threads : /\ pc[u] \in Active => tag'[t] # tag[u]
                          /\ pc[u] \in Reading => tag'[t] # old[u].tag

\* The step links a node, or takes one out.
Links(t) == pc[t] = "eLink" /\ pc'[t] = "eSwing"
Takes(t) == pc[t] = "dCas" /\ pc'[t] = "dFlag"

OneProducer == \A t, u \in Threads : Enqueues[t] > 0 /\ Enqueues[u] > 0 => t = u

-----------------------------------------------------------------------------
(* The list as Chain finds it *)

\* A set of numbers has a least one.
LEMMA Least ==
  ASSUME NEW T \in SUBSET Nat, T # {}
  PROVE  \E x \in T : \A y \in T : x <= y
<1>1. PICK x \in T : \A y \in T : ~ (<<y, x>> \in OpToRel(<, Nat))
  BY NatLessThanWellFounded, WFMin, Zenon
<1>2. \A y \in T : y < x => <<y, x>> \in OpToRel(<, Nat)
  BY Zenon DEF OpToRel
<1>3. \A y \in T : ~ (y < x)
  BY <1>1, <1>2
<1> QED BY <1>3

\* The list has no more nodes than there are.
LEMMA ListLength ==
  ASSUME NEW f, NEW a, NEW b, ListOK(f, a, b)
  PROVE  Cardinality(Nodes) \in Nat /\ b - a \in Nat /\ b - a < Cardinality(Nodes)
<1>1. a \in Nat /\ b \in Nat /\ a <= b /\ Cardinality(Nodes) \in Nat
  BY NodeAssumption, FS_CardinalityType DEF ListOK
<1> DEFINE g == [i \in a .. b |-> f[i]]
<1>2. g \in Injection(a .. b, Nodes)
  BY DEF ListOK, Injection, IsInjective
<1>3. Cardinality(a .. b) <= Cardinality(Nodes)
  BY <1>2, NodeAssumption, FS_Injection
<1>4. Cardinality(a .. b) = b - a + 1
  BY <1>1, FS_Interval
<1> QED BY <1>1, <1>3, <1>4

\* Chain finds the list.
LEMMA ChainIsList ==
  ASSUME NEW s, NEW a, NEW b, ListOK(s, a, b)
  PROVE  /\ \A k \in 0 .. Cardinality(Nodes) : Chain[k] = IF k <= b - a THEN s[a + k] ELSE Null
         /\ Linked = 1 .. b - a /\ Cardinality(Linked) = b - a
         /\ Contents = [k \in 1 .. b - a |-> Data[s[a + k]]]
<1> DEFINE N == Cardinality(Nodes)
           g == [k \in 0 .. N |-> IF k <= b - a THEN s[a + k] ELSE Null]
<1>1. N \in Nat /\ b - a \in Nat /\ b - a < N /\ a \in Nat /\ b \in Nat /\ a <= b
  BY ListLength DEF ListOK
<1>2. \A i \in a .. b : s[i] # Null
  BY NodeAssumption DEF ListOK
<1>3. /\ s[a] = head.ptr /\ Next[s[b]] = Null
      /\ \A i \in a .. b - 1 : Next[s[i]] = s[i + 1]
  BY DEF ListOK
<1> HIDE DEF N
<1>4. ASSUME NEW k \in 0 .. N
      PROVE  g[k] = IF k = 0 THEN head.ptr ELSE IF g[k - 1] = Null THEN Null ELSE Next[g[k - 1]]
  <2>1. CASE k = 0
    BY <1>1, <1>3, <2>1
  <2>2. CASE k # 0 /\ k <= b - a
    <3>1. k - 1 \in 0 .. N /\ a + (k - 1) \in a .. b - 1 /\ (a + (k - 1)) + 1 = a + k /\ k - 1 <= b - a
      BY <1>1, <2>2
    <3>2. g[k - 1] = s[a + (k - 1)] /\ g[k] = s[a + k]
      BY <2>2, <3>1
    <3>3. g[k - 1] # Null
      BY <1>1, <1>2, <3>1, <3>2
    <3>4. Next[s[a + (k - 1)]] = s[a + k]
      BY <1>3, <3>1
    <3> QED BY <2>2, <3>2, <3>3, <3>4
  <2>3. CASE k = (b - a) + 1
    <3>1. k - 1 \in 0 .. N /\ a + (k - 1) = b /\ k - 1 <= b - a /\ ~ (k <= b - a) /\ k # 0
      BY <1>1, <2>3
    <3>2. g[k - 1] = s[b] /\ g[k] = Null
      BY <3>1
    <3> QED BY <1>1, <1>3, <3>1, <3>2
  <2>4. CASE k > (b - a) + 1
    <3>1. k - 1 \in 0 .. N /\ ~ (k - 1 <= b - a) /\ ~ (k <= b - a) /\ k # 0
      BY <1>1, <2>4
    <3>2. g[k - 1] = Null /\ g[k] = Null
      BY <3>1
    <3> QED BY <3>1, <3>2
  <2> QED BY <1>1, <2>1, <2>2, <2>3, <2>4
<1>5. g = [k \in 0 .. N |-> IF k = 0 THEN head.ptr ELSE IF g[k - 1] = Null THEN Null ELSE Next[g[k - 1]]]
  BY <1>4
<1>0. PICK chain : chain = Chain
  OBVIOUS
<1>6. chain = [k \in 0 .. N |-> IF k = 0 THEN head.ptr ELSE IF chain[k - 1] = Null THEN Null ELSE Next[chain[k - 1]]]
  <2> DEFINE c == CHOOSE h : h = [k \in 0 .. N |-> IF k = 0 THEN head.ptr ELSE IF h[k - 1] = Null THEN Null ELSE Next[h[k - 1]]]
  <2> HIDE DEF g
  <2>1. c = [k \in 0 .. N |-> IF k = 0 THEN head.ptr ELSE IF c[k - 1] = Null THEN Null ELSE Next[c[k - 1]]]
    BY <1>5, Zenon
  <2>2. chain = c
    BY <1>0, Zenon DEF Chain, N
  <2> HIDE DEF c
  <2> QED BY <2>1, <2>2, Zenon
<1>7. \A k \in 0 .. N : chain[k] = g[k]
  <2>1. \A k \in 0 .. N : chain[k] = IF k = 0 THEN head.ptr ELSE IF chain[k - 1] = Null THEN Null ELSE Next[chain[k - 1]]
    BY <1>6
  <2>2. \A k \in 0 .. N : g[k] = IF k = 0 THEN head.ptr ELSE IF g[k - 1] = Null THEN Null ELSE Next[g[k - 1]]
    BY <1>4
  <2>3. N \in Nat
    BY <1>1
  <2> HIDE DEF g
  <2> DEFINE Differ == {k \in 0 .. N : chain[k] # g[k]}
  <2> SUFFICES ASSUME Differ # {} PROVE FALSE
    OBVIOUS
  <2>4. PICK k \in Differ : \A j \in Differ : k <= j
    <3>1. Differ \in SUBSET Nat
      BY <2>3
    <3> HIDE DEF Differ
    <3> QED BY <3>1, Least
  <2>5. k \in 0 .. N /\ k # 0 /\ chain[k] # g[k]
    BY <2>1, <2>2, <2>3, <2>4
  <2>6. k - 1 \in 0 .. N /\ k - 1 \notin Differ
    BY <2>3, <2>4, <2>5
  <2>7. chain[k - 1] = g[k - 1]
    BY <2>6
  <2> QED BY <2>1, <2>2, <2>5, <2>7
<1>8. \A k \in 0 .. N : chain[k] = IF k <= b - a THEN s[a + k] ELSE Null
  BY <1>7
<1>9. \A k \in 1 .. b - a : k \in 1 .. N /\ k \in 0 .. N /\ a + k \in a .. b
  BY <1>1
<1>10. Linked = 1 .. b - a
  <2>1. \A k \in 1 .. N : chain[k] # Null => k \in 1 .. b - a
    BY <1>1, <1>8
  <2>2. \A k \in 1 .. b - a : chain[k] = s[a + k]
    BY <1>8, <1>9
  <2>3. \A k \in 1 .. b - a : chain[k] # Null
    BY <1>2, <1>9, <2>2
  <2> QED BY <1>0, <1>9, <2>1, <2>3 DEF Linked, N
<1>11. Cardinality(1 .. b - a) = b - a
  <2>1. 1 \in Int /\ b - a \in Int
    BY <1>1
  <2>2. Cardinality(1 .. b - a) = IF 1 > b - a THEN 0 ELSE (b - a) - 1 + 1
    BY <2>1, FS_Interval, Zenon
  <2> QED BY <1>1, <2>2
<1>12. Contents = [k \in 1 .. b - a |-> Data[s[a + k]]]
  <2>1. Contents = [k \in 1 .. b - a |-> Data[chain[k]]]
    BY <1>0, <1>10, <1>11 DEF Contents
  <2>2. \A k \in 1 .. b - a : chain[k] = s[a + k]
    BY <1>8, <1>9
  <2> QED BY <2>1, <2>2
<1> QED BY <1>0, <1>8, <1>10, <1>11, <1>12 DEF N

-----------------------------------------------------------------------------
(* How many operations are under way *)

\* A set that changes by at most one element.
LEMMA MoveOne ==
  ASSUME NEW S, NEW T, NEW t, IsFiniteSet(S), T \ {t} = S \ {t}
  PROVE  /\ Cardinality(S) \in Nat /\ Cardinality(T) \in Nat
         /\ Cardinality(T) = Cardinality(S) + (IF t \in T THEN 1 ELSE 0) - (IF t \in S THEN 1 ELSE 0)
<1>1. IsFiniteSet(S \ {t}) /\ Cardinality(S \ {t}) = Cardinality(S) - (IF t \in S THEN 1 ELSE 0)
  <2>1. Cardinality(S) \in Nat
    BY FS_CardinalityType
  <2> QED BY <2>1, FS_RemoveElement
<1>2. T = IF t \in T THEN (S \ {t}) \cup {t} ELSE S \ {t}
  OBVIOUS
<1>3. Cardinality(T) = Cardinality(S \ {t}) + (IF t \in T THEN 1 ELSE 0)
  <2>1. Cardinality((S \ {t}) \cup {t}) = Cardinality(S \ {t}) + 1
    BY <1>1, FS_AddElement
  <2>2. Cardinality(S \ {t}) \in Nat
    BY <1>1, FS_CardinalityType
  <2>3. CASE t \in T
    <3>1. T = (S \ {t}) \cup {t}
      BY <1>2, <2>3
    <3> QED BY <2>1, <2>3, <3>1
  <2>4. CASE t \notin T
    <3>1. T = S \ {t}
      BY <1>2, <2>4
    <3> QED BY <2>2, <2>4, <3>1
  <2> QED BY <2>3, <2>4
<1>4. Cardinality(S) \in Nat /\ Cardinality(S \ {t}) \in Nat
  BY <1>1, FS_CardinalityType
<1> QED BY <1>1, <1>3, <1>4

Undoing == Standing({"dUndo"})
Working == Standing(Active)

\* There are finitely many of them, and those that will find an item are apart from those that
\* take their decrement back.
LEMMA FinitelyMany ==
  /\ IsFiniteSet(Reserved) /\ IsFiniteSet(Uncounted) /\ IsFiniteSet(Undoing) /\ IsFiniteSet(Working)
  /\ Cardinality(Reserved) \in Nat /\ Cardinality(Uncounted) \in Nat
  /\ Cardinality(Undoing) \in Nat /\ Cardinality(Working) \in Nat
  /\ Cardinality(Reserved) = Cardinality(Undoing) + Cardinality(Working)
<1>1. /\ Reserved \in SUBSET Threads /\ Uncounted \in SUBSET Threads
      /\ Undoing \in SUBSET Threads /\ Working \in SUBSET Threads
  BY DEF Reserved, Uncounted, Undoing, Working, Standing
<1>2. IsFiniteSet(Reserved) /\ IsFiniteSet(Uncounted) /\ IsFiniteSet(Undoing) /\ IsFiniteSet(Working)
  BY <1>1, RunningAssumption, FS_Subset
<1>3. /\ Cardinality(Reserved) \in Nat /\ Cardinality(Uncounted) \in Nat
      /\ Cardinality(Undoing) \in Nat /\ Cardinality(Working) \in Nat
  BY <1>2, FS_CardinalityType
<1>4. Reserved = Undoing \cup Working /\ Undoing \cap Working = {}
  BY DEF Reserved, Undoing, Working, Standing, Active
<1>5. Cardinality(Undoing \cup Working) = Cardinality(Undoing) + Cardinality(Working) - Cardinality(Undoing \cap Working)
  BY <1>2, FS_Union
<1>6. Cardinality({}) = 0
  BY FS_EmptySet
<1>7. Cardinality(Reserved) = Cardinality(Undoing) + Cardinality(Working)
  <2>1. Cardinality(Reserved) = Cardinality(Undoing) + Cardinality(Working) - 0
    BY <1>4, <1>5, <1>6, Zenon
  <2> QED BY <1>3, <2>1
<1> QED BY <1>2, <1>3, <1>7

\* How the counts change when one thread moves.
LEMMA Counts ==
  ASSUME NEW t \in Threads, \A u \in Threads : u # t => pc'[u] = pc[u] /\ node'[u] = node[u]
  PROVE  /\ Cardinality(Reserved)' = Cardinality(Reserved)
              + (IF pc'[t] \in Active \cup {"dUndo"} THEN 1 ELSE 0) - (IF pc[t] \in Active \cup {"dUndo"} THEN 1 ELSE 0)
         /\ Cardinality(Uncounted)' = Cardinality(Uncounted)
              + (IF pc'[t] \in Finishing /\ node'[t] = Null THEN 1 ELSE 0) - (IF pc[t] \in Finishing /\ node[t] = Null THEN 1 ELSE 0)
         /\ Cardinality(Undoing)' = Cardinality(Undoing)
              + (IF pc'[t] = "dUndo" THEN 1 ELSE 0) - (IF pc[t] = "dUndo" THEN 1 ELSE 0)
<1>1. IsFiniteSet(Reserved) /\ IsFiniteSet(Uncounted) /\ IsFiniteSet(Undoing)
  BY FinitelyMany
<1>2. /\ Reserved' \ {t} = Reserved \ {t} /\ (t \in Reserved <=> pc[t] \in Active \cup {"dUndo"})
      /\ (t \in Reserved' <=> pc'[t] \in Active \cup {"dUndo"})
  BY DEF Reserved, Standing, Active
<1>3. /\ Uncounted' \ {t} = Uncounted \ {t} /\ (t \in Uncounted <=> pc[t] \in Finishing /\ node[t] = Null)
      /\ (t \in Uncounted' <=> pc'[t] \in Finishing /\ node'[t] = Null)
  BY DEF Uncounted, Finishing
<1>4. /\ Undoing' \ {t} = Undoing \ {t} /\ (t \in Undoing <=> pc[t] = "dUndo") /\ (t \in Undoing' <=> pc'[t] = "dUndo")
  BY DEF Undoing, Standing
<1>5. Cardinality(Reserved)' = Cardinality(Reserved) + (IF t \in Reserved' THEN 1 ELSE 0) - (IF t \in Reserved THEN 1 ELSE 0)
  BY <1>1, <1>2, MoveOne
<1>6. Cardinality(Uncounted)' = Cardinality(Uncounted) + (IF t \in Uncounted' THEN 1 ELSE 0) - (IF t \in Uncounted THEN 1 ELSE 0)
  BY <1>1, <1>3, MoveOne
<1>7. Cardinality(Undoing)' = Cardinality(Undoing) + (IF t \in Undoing' THEN 1 ELSE 0) - (IF t \in Undoing THEN 1 ELSE 0)
  BY <1>1, <1>4, MoveOne
<1> QED BY <1>2, <1>3, <1>4, <1>5, <1>6, <1>7

\* A Dequeue that is promised an item finds it in the list, before that of an Enqueue not yet counted.
LEMMA ActiveHasItem ==
  ASSUME Size \in Int, NEW a \in Nat, NEW b \in Nat, SizeOK(a, b), NEW t \in Threads, pc[t] \in Active
  PROVE  a < b /\ \A u \in Threads : pc[u] \in Finishing /\ node[u] = Null => a + 1 < b
<1>1. t \in Working
  BY DEF Working, Standing
<1>2. Cardinality(Working) >= 1
  <2>1. Cardinality(Working) # 0
    BY <1>1, FinitelyMany, FS_EmptySet
  <2> QED BY <2>1, FinitelyMany
<1>3. ASSUME NEW u \in Threads, pc[u] \in Finishing /\ node[u] = Null PROVE Cardinality(Uncounted) >= 1
  <2>1. u \in Uncounted
    BY <1>3 DEF Uncounted, Finishing
  <2>2. Cardinality(Uncounted) # 0
    BY <2>1, FinitelyMany, FS_EmptySet
  <2> QED BY <2>2, FinitelyMany
<1>4. /\ Size + Cardinality(Reserved) + Cardinality(Uncounted) = b - a
      /\ Size + Cardinality(Undoing) >= 0
  BY DEF SizeOK, Undoing
<1>5. b - a >= 1 + Cardinality(Uncounted)
  <2> DEFINE R == Cardinality(Reserved)
             U == Cardinality(Uncounted)
             D == Cardinality(Undoing)
             W == Cardinality(Working)
  <2>1. R \in Nat /\ U \in Nat /\ D \in Nat /\ W \in Nat /\ R = D + W /\ W >= 1
    BY <1>2, FinitelyMany
  <2>2. Size + R + U = b - a /\ Size + D >= 0
    BY <1>4
  <2> HIDE DEF R, U, D, W
  <2>3. b - a >= 1 + U
    BY <2>1, <2>2
  <2> QED BY <2>3 DEF U
<1> QED BY <1>3, <1>5, FinitelyMany

-----------------------------------------------------------------------------
(* What the invariant says about one thread *)

\* The thread that enqueues is the only one.
LEMMA AloneAtWork ==
  ASSUME OneProducer, NEW f, NEW a, NEW b, ProducerOK(f, a, b), NEW t \in Threads, NEW u \in Threads,
         pc[t] \in Preparing \cup Finishing, pc[u] \in Preparing \cup Finishing
  PROVE  t = u
BY DEF OneProducer, ProducerOK

\* Where Tail is.
LEMMA WhereTailIs ==
  ASSUME OneProducer, NEW f, NEW a, NEW b, ListOK(f, a, b), ProducerOK(f, a, b)
  PROVE  /\ tail.ptr = f[b] \/ (a < b /\ tail.ptr = f[b - 1] /\ \E t \in Threads : pc[t] = "eSwing" /\ node[t] = Null)
         /\ \A t \in Threads : pc[t] \in Preparing \cup Finishing /\ pc[t] # "eSwing" => tail.ptr = f[b]
<1>1. CASE Standing({"eSwing"}) = {}
  BY <1>1 DEF ProducerOK
<1>2. CASE Standing({"eSwing"}) # {}
  <2>1. PICK t \in Threads : pc[t] = "eSwing"
    BY <1>2 DEF Standing
  <2>2. a < b /\ tail.ptr = f[b - 1] /\ node[t] = Null
    BY <2>1 DEF ProducerOK, Preparing
  <2>3. \A u \in Threads : pc[u] \in Preparing \cup Finishing => u = t
    BY <2>1, AloneAtWork DEF Finishing
  <2> QED BY <2>1, <2>2, <2>3
<1> QED BY <1>1, <1>2

\* Tail is behind Head for whoever is to take an item out.
LEMMA TailBehindHead ==
  ASSUME OneProducer, TypeOK, NEW f, NEW a, NEW b, QueueOK(f, a, b), NEW t \in Threads, pc[t] \in Active
  PROVE  /\ a < b /\ a + 1 \in a + 1 .. b /\ a + 1 \in a .. b /\ a \in a .. b - 1 /\ Next[head.ptr] = f[a + 1]
         /\ tail.ptr # head.ptr
         /\ \A u \in Threads : pc[u] = "eSwing" => a + 1 < b
<1>1. /\ ListOK(f, a, b) /\ ProducerOK(f, a, b) /\ SizeOK(a, b) /\ a \in Nat /\ b \in Nat /\ Size \in Int
      /\ f[a] = head.ptr /\ \A i, j \in a .. b : f[i] = f[j] => i = j
      /\ \A i \in a .. b - 1 : Next[f[i]] = f[i + 1]
  BY DEF QueueOK, ListOK, TypeOK
<1>2. a < b /\ \A u \in Threads : pc[u] \in Finishing /\ node[u] = Null => a + 1 < b
  BY <1>1, ActiveHasItem
<1>3. \A u \in Threads : pc[u] = "eSwing" => pc[u] \in Finishing /\ node[u] = Null
  BY <1>1 DEF ProducerOK, Finishing, Preparing
<1>4. /\ a + 1 \in a + 1 .. b /\ a + 1 \in a .. b /\ a \in a .. b - 1 /\ a \in a .. b /\ b \in a .. b /\ b - 1 \in a .. b
      /\ a # b
  BY <1>1, <1>2
<1>5. Next[head.ptr] = f[a + 1]
  BY <1>1, <1>4
<1>6. tail.ptr # head.ptr
  <2>1. CASE tail.ptr = f[b]
    BY <1>1, <1>4, <2>1
  <2>2. CASE tail.ptr = f[b - 1] /\ \E u \in Threads : pc[u] = "eSwing"
    <3>1. b - 1 # a
      BY <1>1, <1>2, <1>3, <2>2
    <3> QED BY <1>1, <1>4, <2>2, <3>1
  <2> QED BY <1>1, <2>1, <2>2, WhereTailIs
<1> QED BY <1>2, <1>3, <1>4, <1>5, <1>6

-----------------------------------------------------------------------------
(* What a step leaves as it was *)

\* Neither the list nor its items change.
LEMMA ListFrame ==
  ASSUME NEW f, NEW a, NEW b, ListOK(f, a, b), head' = head,
         \A i \in a .. b : Next'[f[i]] = Next[f[i]] /\ Data'[f[i]] = Data[f[i]]
  PROVE  ListOK(f, a, b)'
<1>1. /\ a \in Nat /\ b \in Nat /\ a <= b
      /\ f[a] = head'.ptr
      /\ \A i \in a .. b : f[i] \in Nodes
      /\ \A i \in a .. b - 1 : Next[f[i]] = f[i + 1]
      /\ Next[f[b]] = Null
      /\ \A i, j \in a .. b : f[i] = f[j] => i = j
      /\ \A i \in a + 1 .. b : Data[f[i]] \in AllItems
  BY DEF ListOK
<1>2. \A i \in a .. b - 1 : i \in a .. b /\ Next'[f[i]] = f[i + 1]
  BY <1>1
<1>3. \A i \in a + 1 .. b : i \in a .. b /\ Data'[f[i]] \in AllItems
  BY <1>1
<1>4. Next'[f[b]] = Null
  BY <1>1
<1> QED BY <1>1, <1>2, <1>3, <1>4 DEF ListOK

\* Steps of a thread that does not enqueue.
LEMMA ProducerFrame ==
  ASSUME NEW f, NEW a, NEW b, ProducerOK(f, a, b), UNCHANGED <<tail, Next, Data, node, sent>>,
         \A t \in Threads : \/ pc'[t] = pc[t] /\ old'[t] = old[t] /\ nxt'[t] = nxt[t]
                            \/ /\ pc[t] \notin Preparing \cup Finishing
                               /\ pc'[t] \notin Preparing \cup Finishing
  PROVE  ProducerOK(f, a, b)'
<1>1. ASSUME NEW t \in Threads
      PROVE  /\ pc'[t] \in Preparing \cup Finishing => Enqueues[t] > 0
             /\ pc'[t] \in Preparing <=> node'[t] # Null
             /\ node'[t] # Null => /\ Next'[node'[t]] = Null /\ Data'[node'[t]] \in AllItems
                                  /\ \A i \in a .. b : f[i] # node'[t]
             /\ pc'[t] \in Holding \cup {"eHold"} /\ pc'[t] # "eDrop" => old'[t] = tail'
             /\ pc'[t] = "eNext" => nxt'[t] = tail'.ptr
             /\ pc'[t] = "eCheck" => nxt'[t] = Null
             /\ pc'[t] = "eSwing" => nxt'[t] = f[b] /\ a < b /\ tail'.ptr = f[b - 1]
             /\ sent'[t] <= Enqueues[t]
  <2>1. CASE pc'[t] = pc[t] /\ old'[t] = old[t] /\ nxt'[t] = nxt[t]
    BY <2>1 DEF ProducerOK
  <2>2. CASE /\ pc[t] \notin Preparing \cup Finishing
             /\ pc'[t] \notin Preparing \cup Finishing
    BY <2>2 DEF ProducerOK, Preparing, Finishing, Holding
  <2> QED BY <2>1, <2>2
<1>2. Standing({"eSwing"})' = {} => tail'.ptr = f[b]
  <2>1. Standing({"eSwing"})' = Standing({"eSwing"})
    BY DEF Standing, Finishing
  <2> QED BY <2>1 DEF ProducerOK
<1> QED BY <1>1, <1>2 DEF ProducerOK

\* Nobody comes to hold or to own a node, nor lets one go.
LEMMA RefsFrame ==
  ASSUME NEW f, NEW a, NEW b, RefsOK(f, a, b), UNCHANGED <<RefCnt, DeleteFlag, FreeNodes, node>>,
         \A t \in Threads : \/ pc'[t] = pc[t] /\ old'[t] = old[t]
                            \/ pc[t] \in Holding /\ pc'[t] \in Holding /\ old'[t] = old[t]
                            \/ /\ pc[t] \notin Holding \cup Removing \cup Freeing
                               /\ pc'[t] \notin Holding \cup Removing \cup Freeing
  PROVE  RefsOK(f, a, b)'
<1>1. \A t \in Threads :
        /\ pc'[t] \in Holding <=> pc[t] \in Holding
        /\ pc'[t] \in Removing <=> pc[t] \in Removing
        /\ pc'[t] \in Freeing <=> pc[t] \in Freeing
        /\ pc'[t] = "dDrop" <=> pc[t] = "dDrop"
        /\ pc'[t] \in Holding \cup Removing \cup Freeing => old'[t] = old[t]
  BY DEF Holding, Removing, Freeing
<1>2. \A n : /\ Owned(f, a, b, n)' <=> Owned(f, a, b, n)
             /\ Held(n)' <=> Held(n)
             /\ Doomed(n)' <=> Doomed(n)
             /\ Flagged(n)' <=> Flagged(n)
  <2>1. \A t \in Threads : pc'[t] = "dDrop" => pc'[t] \in Removing
    BY DEF Removing
  <2> QED BY <1>1, <2>1 DEF Owned, Held, Doomed, Flagged
<1>3. \A n \in Nodes :
        /\ RefCnt'[n] = (IF Owned(f, a, b, n)' THEN 1 ELSE 0) + (IF Held(n)' THEN 1 ELSE 0)
        /\ DeleteFlag'[n] = IF Flagged(n)' \/ Doomed(n)' \/ (Held(n)' /\ ~Owned(f, a, b, n)') THEN 1 ELSE 0
        /\ n \in FreeNodes' => ~Owned(f, a, b, n)' /\ ~Held(n)' /\ ~Doomed(n)'
        /\ Doomed(n)' => ~Owned(f, a, b, n)' /\ ~Held(n)'
  BY <1>2 DEF RefsOK
<1>4. /\ \A t \in Threads : pc'[t] \in Removing \cup Freeing \cup Holding => old'[t].ptr \in Nodes
      /\ \A t \in Threads : pc'[t] \in Removing \cup Freeing =>
           /\ \A i \in a .. b : f[i] # old'[t].ptr
           /\ \A u \in Threads : node'[u] # old'[t].ptr
           /\ \A u \in Threads \ {t} : pc'[u] \in Removing \cup Freeing => old'[u].ptr # old'[t].ptr
  BY <1>1 DEF RefsOK
<1> QED BY <1>3, <1>4 DEF RefsOK

\* No Dequeue reads or takes anything.
LEMMA DequeuersFrame ==
  ASSUME NEW f, NEW g, NEW a, NEW b, NEW c, DequeuersOK(f, a, b), head' = head,
         \A t \in Threads : \/ /\ pc'[t] = pc[t] /\ old'[t] = old[t] /\ cur'[t] = cur[t]
                               /\ nxt'[t] = nxt[t] /\ tag'[t] = tag[t] /\ val'[t] = val[t]
                            \/ pc[t] \notin Active /\ pc'[t] \notin Active,
         (\E t \in Threads : pc[t] \in Active) => g[a + 1] = f[a + 1] /\ Data'[f[a + 1]] = Data[f[a + 1]]
  PROVE  DequeuersOK(g, a, c)'
<1>1. ASSUME NEW t \in Threads, pc'[t] \in Active
      PROVE  /\ tag'[t] # head'.tag
             /\ \A u \in Threads : pc'[u] \in Active /\ u # t => tag'[t] # tag'[u]
             /\ \A u \in Threads : pc'[u] \in Reading => tag'[t] # old'[u].tag
             /\ pc'[t] \in Reading => old'[t].ptr \in Nodes
             /\ pc'[t] \in {"dNext", "dCheck", "dData", "dCas"} /\ old'[t] = head' => cur'[t].ptr # head'.ptr
             /\ pc'[t] \in {"dCheck", "dData", "dCas"} /\ old'[t] = head' => nxt'[t] = g[a + 1]
             /\ pc'[t] = "dCas" /\ old'[t] = head' => val'[t] = Data'[g[a + 1]]
  <2>1. /\ pc'[t] = pc[t] /\ old'[t] = old[t] /\ cur'[t] = cur[t]
        /\ nxt'[t] = nxt[t] /\ tag'[t] = tag[t] /\ val'[t] = val[t]
    BY <1>1
  <2>2. \A u \in Threads : pc'[u] \in Active => pc[u] \in Active /\ tag'[u] = tag[u]
    OBVIOUS
  <2>3. \A u \in Threads : pc'[u] \in Reading => pc[u] \in Reading /\ old'[u] = old[u]
    BY DEF Reading
  <2>4. g[a + 1] = f[a + 1] /\ Data'[f[a + 1]] = Data[f[a + 1]]
    BY <1>1, <2>1
  <2> QED BY <1>1, <2>1, <2>2, <2>3, <2>4 DEF DequeuersOK
<1> QED BY <1>1 DEF DequeuersOK

-----------------------------------------------------------------------------
(* The steps of a Dequeue that change no node *)

\* A thread that neither enqueues nor has a node that it took out moves on.
LEMMA DequeueMoves ==
  ASSUME NEW f, NEW a, NEW b, QueueOK(f, a, b), NEW t \in Threads,
         UNCHANGED <<head, tail, Next, Data, RefCnt, DeleteFlag, FreeNodes, node, sent>>,
         pc[t] \notin Preparing \cup Finishing \cup Removing \cup Freeing,
         pc'[t] \notin Preparing \cup Finishing \cup Removing \cup Freeing,
         \A u \in Threads : u # t => pc'[u] = pc[u] /\ old'[u] = old[u] /\ nxt'[u] = nxt[u]
  PROVE  ListOK(f, a, b)' /\ ProducerOK(f, a, b)' /\ RefsOK(f, a, b)'
<1>1. ListOK(f, a, b)'
  BY ListFrame DEF QueueOK
<1>2. ProducerOK(f, a, b)'
  BY ProducerFrame DEF QueueOK
<1>3. pc[t] \notin Holding /\ pc'[t] \notin Holding
  BY DEF Holding, Preparing, Finishing
<1>4. RefsOK(f, a, b)'
  BY <1>3, RefsFrame DEF QueueOK
<1> QED BY <1>1, <1>2, <1>4

\* The counts stay what they are when nobody begins or ends a part of an operation that they count.
LEMMA SizeFrame ==
  ASSUME NEW a, NEW b, SizeOK(a, b), Size' = Size, NEW t \in Threads,
         \A u \in Threads : u # t => pc'[u] = pc[u] /\ node'[u] = node[u],
         pc'[t] \in Active \cup {"dUndo"} <=> pc[t] \in Active \cup {"dUndo"},
         pc'[t] = "dUndo" <=> pc[t] = "dUndo",
         pc'[t] \in Finishing /\ node'[t] = Null <=> pc[t] \in Finishing /\ node[t] = Null
  PROVE  SizeOK(a, b)'
<1>1. Cardinality(Reserved)' = Cardinality(Reserved) /\ Cardinality(Uncounted)' = Cardinality(Uncounted)
      /\ Cardinality(Undoing)' = Cardinality(Undoing)
  BY Counts, FinitelyMany
<1> QED BY <1>1 DEF SizeOK, Undoing

\* What a Dequeue still has to know of the values it read, once the others' are as they were.
LEMMA DequeuerMoves ==
  ASSUME NEW f, NEW a, NEW b, DequeuersOK(f, a, b), NEW t \in Threads, pc[t] \in Active, pc'[t] \in Active,
         head' = head, Data' = Data, tag' = tag,
         \A u \in Threads : u # t => pc'[u] = pc[u] /\ old'[u] = old[u] /\ cur'[u] = cur[u]
                                     /\ nxt'[u] = nxt[u] /\ val'[u] = val[u],
         pc'[t] \in Reading => \/ old'[t] = head
                               \/ pc[t] \in Reading /\ old'[t] = old[t],
         pc'[t] \in Reading => old'[t].ptr \in Nodes,
         pc'[t] \in {"dNext", "dCheck", "dData", "dCas"} /\ old'[t] = head => cur'[t].ptr # head.ptr,
         pc'[t] \in {"dCheck", "dData", "dCas"} /\ old'[t] = head => nxt'[t] = f[a + 1],
         pc'[t] = "dCas" /\ old'[t] = head => val'[t] = Data[f[a + 1]]
  PROVE  DequeuersOK(f, a, b)'
<1>1. \A u \in Threads : pc'[u] \in Active <=> pc[u] \in Active
  OBVIOUS
<1>2. \A u \in Threads : pc[u] \in Active =>
        /\ tag'[u] # head'.tag
        /\ \A v \in Threads : pc[v] \in Active /\ v # u => tag'[u] # tag'[v]
        /\ \A v \in Threads : pc[v] \in Reading => tag'[u] # old[v].tag
  BY DEF DequeuersOK
<1>3. \A u \in Threads : pc[u] \in Active =>
        /\ \A v \in Threads : pc'[v] \in Reading => tag'[u] # old'[v].tag
  BY <1>2
<1>4. ASSUME NEW u \in Threads, pc'[u] \in Active
      PROVE  /\ pc'[u] \in Reading => old'[u].ptr \in Nodes
             /\ pc'[u] \in {"dNext", "dCheck", "dData", "dCas"} /\ old'[u] = head' => cur'[u].ptr # head'.ptr
             /\ pc'[u] \in {"dCheck", "dData", "dCas"} /\ old'[u] = head' => nxt'[u] = f[a + 1]
             /\ pc'[u] = "dCas" /\ old'[u] = head' => val'[u] = Data'[f[a + 1]]
  <2>1. CASE u = t
    BY <2>1
  <2>2. CASE u # t
    BY <2>2, <1>4 DEF DequeuersOK
  <2> QED BY <2>1, <2>2
<1> QED BY <1>1, <1>2, <1>3, <1>4 DEF DequeuersOK

\* Head is read: no tag in use is that of Head.
LEMMA ReadHeadStep ==
  ASSUME TypeOK, NEW f, NEW a, NEW b, QueueOK(f, a, b), NEW t \in Threads, DequeueReadHead(t)
  PROVE  TypeOK' /\ QueueOK(f, a, b)'
<1> USE DEF DequeueReadHead, At, Goto, nodeVars, localVars, budgetVars
<1>1. TypeOK'
  BY DEF TypeOK, Labels, Active, Locations
<1>2. /\ pc[t] = "dHead" /\ pc'[t] = "dTail" /\ old'[t] = head
      /\ \A u \in Threads : u # t => pc'[u] = pc[u] /\ old'[u] = old[u]
  BY DEF TypeOK
<1>3. ListOK(f, a, b)' /\ ProducerOK(f, a, b)' /\ RefsOK(f, a, b)'
  BY <1>2, DequeueMoves DEF Preparing, Finishing, Removing, Freeing
<1>4. SizeOK(a, b)'
  BY <1>2, SizeFrame DEF QueueOK, Active, Finishing
<1>5. DequeuersOK(f, a, b)'
  <2>1. head.ptr \in Nodes
    BY DEF TypeOK
  <2> QED BY <1>2, <2>1, DequeuerMoves DEF QueueOK, Active, Reading
<1> QED BY <1>1, <1>3, <1>4, <1>5 DEF QueueOK

\* Tail is read: it is not at Head.
LEMMA ReadTailStep ==
  ASSUME OneProducer, TypeOK, NEW f, NEW a, NEW b, QueueOK(f, a, b), NEW t \in Threads, DequeueReadTail(t)
  PROVE  TypeOK' /\ QueueOK(f, a, b)'
<1> USE DEF DequeueReadTail, At, Goto, nodeVars, localVars, budgetVars
<1>1. TypeOK'
  BY DEF TypeOK, Labels, Active, Locations
<1>2. /\ pc[t] = "dTail" /\ pc'[t] = "dNext" /\ cur'[t] = tail
      /\ \A u \in Threads : u # t => pc'[u] = pc[u] /\ cur'[u] = cur[u]
  BY DEF TypeOK
<1>3. ListOK(f, a, b)' /\ ProducerOK(f, a, b)' /\ RefsOK(f, a, b)'
  BY <1>2, DequeueMoves DEF Preparing, Finishing, Removing, Freeing
<1>4. SizeOK(a, b)'
  BY <1>2, SizeFrame DEF QueueOK, Active, Finishing
<1>5. DequeuersOK(f, a, b)'
  <2>1. tail.ptr # head.ptr
    BY <1>2, TailBehindHead DEF Active
  <2>2. old[t].ptr \in Nodes
    BY <1>2 DEF QueueOK, DequeuersOK, Active, Reading
  <2> QED BY <1>2, <2>1, <2>2, DequeuerMoves DEF QueueOK, Active, Reading
<1> QED BY <1>1, <1>3, <1>4, <1>5 DEF QueueOK

\* The node behind Head is read.
LEMMA ReadNextStep ==
  ASSUME OneProducer, TypeOK, NEW f, NEW a, NEW b, QueueOK(f, a, b), NEW t \in Threads, DequeueReadNext(t)
  PROVE  TypeOK' /\ QueueOK(f, a, b)'
<1> USE DEF DequeueReadNext, At, Goto, nodeVars, localVars, budgetVars
<1>1. old[t].ptr \in Nodes /\ pc[t] \in Active /\ (old[t] = head => cur[t].ptr # head.ptr)
  BY DEF QueueOK, DequeuersOK, Active, Reading
<1>2. TypeOK'
  BY <1>1 DEF TypeOK, Labels, Active
<1>3. /\ pc[t] = "dNext" /\ pc'[t] = "dCheck" /\ nxt'[t] = Next[old[t].ptr]
      /\ \A u \in Threads : u # t => pc'[u] = pc[u] /\ nxt'[u] = nxt[u]
  BY DEF TypeOK
<1>4. ListOK(f, a, b)' /\ ProducerOK(f, a, b)' /\ RefsOK(f, a, b)'
  BY <1>3, DequeueMoves DEF Preparing, Finishing, Removing, Freeing
<1>5. SizeOK(a, b)'
  BY <1>3, SizeFrame DEF QueueOK, Active, Finishing
<1>6. DequeuersOK(f, a, b)'
  <2>1. Next[head.ptr] = f[a + 1]
    BY <1>1, TailBehindHead
  <2> QED BY <1>1, <1>3, <2>1, DequeuerMoves DEF QueueOK, Active, Reading
<1> QED BY <1>2, <1>4, <1>5, <1>6 DEF QueueOK

\* A Dequeue that has the present Head goes on, any other begins again: none helps with Tail.
LEMMA CheckStep ==
  ASSUME TypeOK, NEW f, NEW a, NEW b, QueueOK(f, a, b), NEW t \in Threads, DequeueCheck(t)
  PROVE  TypeOK' /\ QueueOK(f, a, b)'
<1> USE DEF DequeueCheck, Again, At, Goto, nodeVars, localVars, budgetVars
<1>1. pc[t] \in Active /\ (old[t] = head => cur[t].ptr # head.ptr /\ nxt[t] = f[a + 1])
  BY DEF QueueOK, DequeuersOK, Active
<1>2. tail' = tail
  BY <1>1
<1>3. TypeOK'
  <2>1. NoPtr \in [ptr : Locations, tag : Nat] /\ Null \in Locations /\ "dHead" \in Labels /\ "dData" \in Labels
    BY DEF NoPtr, Ptr, Locations, Labels, Active
  <2>2. pc' \in [Threads -> Labels]
    BY <2>1 DEF TypeOK
  <2>3. old' \in [Threads -> [ptr : Locations, tag : Nat]] /\ cur' \in [Threads -> [ptr : Locations, tag : Nat]]
    <3>1. /\ old' = old \/ old' = [old EXCEPT ![t] = NoPtr]
          /\ cur' = cur \/ cur' = [cur EXCEPT ![t] = NoPtr]
      OBVIOUS
    <3>2. old \in [Threads -> [ptr : Locations, tag : Nat]] /\ cur \in [Threads -> [ptr : Locations, tag : Nat]]
      BY DEF TypeOK
    <3> HIDE DEF DequeueCheck, Again
    <3> QED BY <2>1, <3>1, <3>2
  <2>4. nxt' \in [Threads -> Locations]
    BY <2>1 DEF TypeOK
  <2> QED BY <1>2, <2>2, <2>3, <2>4 DEF TypeOK
<1>4. /\ pc[t] = "dCheck"
      /\ \/ pc'[t] = "dData" /\ UNCHANGED <<old, cur, nxt>> /\ old[t].ptr \in Nodes
         \/ pc'[t] = "dHead"
      /\ \A u \in Threads : u # t => pc'[u] = pc[u] /\ nxt'[u] = nxt[u] /\ old'[u] = old[u] /\ cur'[u] = cur[u]
  BY DEF TypeOK
<1>5. ListOK(f, a, b)' /\ ProducerOK(f, a, b)' /\ RefsOK(f, a, b)'
  BY <1>2, <1>4, DequeueMoves DEF Preparing, Finishing, Removing, Freeing
<1>6. SizeOK(a, b)'
  BY <1>4, SizeFrame DEF QueueOK, Active, Finishing
<1>7. DequeuersOK(f, a, b)'
  BY <1>1, <1>4, DequeuerMoves DEF QueueOK, Active, Reading
<1> QED BY <1>3, <1>5, <1>6, <1>7 DEF QueueOK

\* The item behind Head is read.
LEMMA DataStep ==
  ASSUME TypeOK, NEW f, NEW a, NEW b, QueueOK(f, a, b), NEW t \in Threads, DequeueData(t)
  PROVE  TypeOK' /\ QueueOK(f, a, b)'
<1> USE DEF DequeueData, At, Goto, nodeVars, localVars, budgetVars
<1>1. /\ pc[t] \in Active /\ old[t].ptr \in Nodes
      /\ (old[t] = head => cur[t].ptr # head.ptr /\ nxt[t] = f[a + 1])
  BY DEF QueueOK, DequeuersOK, Active, Reading
<1>2. TypeOK'
  BY DEF TypeOK, Labels, Active
<1>3. /\ pc[t] = "dData" /\ pc'[t] = "dCas" /\ val'[t] = Data[nxt[t]]
      /\ \A u \in Threads : u # t => pc'[u] = pc[u] /\ val'[u] = val[u]
  BY DEF TypeOK
<1>4. ListOK(f, a, b)' /\ ProducerOK(f, a, b)' /\ RefsOK(f, a, b)'
  BY <1>3, DequeueMoves DEF Preparing, Finishing, Removing, Freeing
<1>5. SizeOK(a, b)'
  BY <1>3, SizeFrame DEF QueueOK, Active, Finishing
<1>6. DequeuersOK(f, a, b)'
  BY <1>1, <1>3, DequeuerMoves DEF QueueOK, Active, Reading
<1> QED BY <1>2, <1>4, <1>5, <1>6 DEF QueueOK

-----------------------------------------------------------------------------
(* The steps that change the size *)

\* The size is taken down before it is known to promise an item.
LEMMA ReserveStep ==
  ASSUME TypeOK, NEW f, NEW a, NEW b, QueueOK(f, a, b), NEW t \in Threads, DequeueReserve(t), FreshTag
  PROVE  TypeOK' /\ QueueOK(f, a, b)'
<1> USE DEF DequeueReserve, At, Goto, nodeVars, localVars, budgetVars
<1>1. /\ pc[t] = "idle"
      /\ \/ pc'[t] = "dUndo" /\ tag' = tag /\ Size <= 0
         \/ /\ pc'[t] = "dHead" /\ \A u \in Threads : u # t => tag'[u] = tag[u]
            /\ ~(Size <= 0)
      /\ \A u \in Threads : u # t => pc'[u] = pc[u]
  BY DEF TypeOK, NothingLeft
<1>2. TypeOK'
  <2>1. "dUndo" \in Labels /\ "dHead" \in Labels
    BY DEF Labels, Active
  <2>2. TagCnt' \in Nat /\ tag' \in [Threads -> Nat]
    BY DEF TypeOK, GetTagCnt
  <2>3. pc' \in [Threads -> Labels]
    BY <2>1 DEF TypeOK
  <2> QED BY <2>2, <2>3 DEF TypeOK
<1>3. ListOK(f, a, b)' /\ ProducerOK(f, a, b)' /\ RefsOK(f, a, b)'
  BY <1>1, DequeueMoves DEF Preparing, Finishing, Removing, Freeing
<1>4. SizeOK(a, b)'
  <2>1. /\ Cardinality(Reserved)' = Cardinality(Reserved) + 1
        /\ Cardinality(Uncounted)' = Cardinality(Uncounted)
        /\ Cardinality(Undoing)' = Cardinality(Undoing) + (IF pc'[t] = "dUndo" THEN 1 ELSE 0)
        /\ Size' = Size - 1
    BY <1>1, Counts, FinitelyMany DEF Active, Finishing
  <2>2. /\ Size + Cardinality(Reserved) + Cardinality(Uncounted) = b - a
        /\ Size + Cardinality(Undoing) >= 0 /\ Size \in Int
    BY DEF QueueOK, SizeOK, Undoing, TypeOK
  <2>3. Size' + Cardinality(Reserved)' + Cardinality(Uncounted)' = b - a /\ Size' + Cardinality(Undoing)' >= 0
    BY <1>1, <2>1, <2>2, FinitelyMany
  <2> QED BY <2>3 DEF SizeOK, Undoing
<1>5. DequeuersOK(f, a, b)'
  <2>1. CASE pc'[t] = "dUndo"
    BY <1>1, <2>1, DequeuersFrame DEF QueueOK, Active
  <2>2. CASE pc'[t] = "dHead"
    <3>1. /\ tag'[t] # head.tag
          /\ \A u \in Threads : pc[u] \in Active => tag'[t] # tag[u]
          /\ \A u \in Threads : pc[u] \in Reading => tag'[t] # old[u].tag
      BY <1>1, <2>2 DEF FreshTag
    <3>2. ASSUME NEW u \in Threads, pc'[u] \in Active
          PROVE  /\ tag'[u] # head'.tag
                 /\ \A v \in Threads : pc'[v] \in Active /\ v # u => tag'[u] # tag'[v]
                 /\ \A v \in Threads : pc'[v] \in Reading => tag'[u] # old'[v].tag
      <4>1. CASE u = t
        BY <1>1, <2>2, <3>1, <4>1 DEF Reading
      <4>2. CASE u # t
        <5>1. /\ tag[u] # head.tag
              /\ \A v \in Threads : pc[v] \in Active /\ v # u => tag[u] # tag[v]
              /\ \A v \in Threads : pc[v] \in Reading => tag[u] # old[v].tag
              /\ pc[u] \in Active
          BY <1>1, <3>2, <4>2 DEF QueueOK, DequeuersOK
        <5> QED BY <1>1, <2>2, <3>1, <4>2, <5>1 DEF Reading
      <4> QED BY <4>1, <4>2
    <3>3. ASSUME NEW u \in Threads, pc'[u] \in Active
          PROVE  /\ pc'[u] \in Reading => old'[u].ptr \in Nodes
                 /\ pc'[u] \in {"dNext", "dCheck", "dData", "dCas"} /\ old'[u] = head' => cur'[u].ptr # head'.ptr
                 /\ pc'[u] \in {"dCheck", "dData", "dCas"} /\ old'[u] = head' => nxt'[u] = f[a + 1]
                 /\ pc'[u] = "dCas" /\ old'[u] = head' => val'[u] = Data'[f[a + 1]]
      BY <1>1, <2>2, <3>3 DEF QueueOK, DequeuersOK, Reading
    <3> QED BY <3>2, <3>3 DEF DequeuersOK
  <2> QED BY <1>1, <2>1, <2>2
<1> QED BY <1>2, <1>3, <1>4, <1>5 DEF QueueOK

\* A decrement that promised no item is taken back.
LEMMA UndoStep ==
  ASSUME TypeOK, NEW f, NEW a, NEW b, QueueOK(f, a, b), NEW t \in Threads, DequeueUndo(t)
  PROVE  TypeOK' /\ QueueOK(f, a, b)'
<1> USE DEF DequeueUndo, Done, At, Goto, nodeVars, localVars, budgetVars
<1>1. /\ pc[t] = "dUndo" /\ pc'[t] = "idle"
      /\ \A u \in Threads : u # t => /\ pc'[u] = pc[u] /\ old'[u] = old[u] /\ cur'[u] = cur[u]
                                     /\ nxt'[u] = nxt[u] /\ tag'[u] = tag[u] /\ val'[u] = val[u]
  BY DEF TypeOK
<1>2. TypeOK'
  <2>1. NoPtr \in [ptr : Locations, tag : Nat] /\ Null \in Locations /\ "idle" \in Labels
    BY DEF NoPtr, Ptr, Locations, Labels
  <2> QED BY <2>1 DEF TypeOK
<1>3. ListOK(f, a, b)' /\ ProducerOK(f, a, b)' /\ RefsOK(f, a, b)'
  BY <1>1, DequeueMoves DEF Preparing, Finishing, Removing, Freeing
<1>4. SizeOK(a, b)'
  <2>1. /\ Cardinality(Reserved)' = Cardinality(Reserved) - 1
        /\ Cardinality(Uncounted)' = Cardinality(Uncounted)
        /\ Cardinality(Undoing)' = Cardinality(Undoing) - 1
        /\ Size' = Size + 1
    BY <1>1, Counts, FinitelyMany DEF Active, Finishing
  <2>2. /\ Size + Cardinality(Reserved) + Cardinality(Uncounted) = b - a
        /\ Size + Cardinality(Undoing) >= 0 /\ Size \in Int
    BY DEF QueueOK, SizeOK, Undoing, TypeOK
  <2>3. Size' + Cardinality(Reserved)' + Cardinality(Uncounted)' = b - a /\ Size' + Cardinality(Undoing)' >= 0
    BY <2>1, <2>2, FinitelyMany
  <2> QED BY <2>3 DEF SizeOK, Undoing
<1>5. DequeuersOK(f, a, b)'
  BY <1>1, DequeuersFrame DEF QueueOK, Active
<1> QED BY <1>2, <1>3, <1>4, <1>5 DEF QueueOK

\* Only one thread is where an Enqueue is.
LEMMA ProducerMoves ==
  ASSUME OneProducer, Enqueues \in [Threads -> Nat],
         NEW f, NEW a, NEW b, NEW g, NEW c, ProducerOK(f, a, b), NEW t \in Threads, Enqueues[t] > 0,
         \A u \in Threads : u # t => pc'[u] = pc[u] /\ node'[u] = node[u] /\ sent'[u] = sent[u],
         pc'[t] \in Preparing <=> node'[t] # Null,
         node'[t] # Null => /\ Next'[node'[t]] = Null /\ Data'[node'[t]] \in AllItems
                            /\ \A i \in a .. c : g[i] # node'[t],
         pc'[t] \in Holding \cup {"eHold"} /\ pc'[t] # "eDrop" => old'[t] = tail',
         pc'[t] = "eNext" => nxt'[t] = tail'.ptr,
         pc'[t] = "eCheck" => nxt'[t] = Null,
         pc'[t] = "eSwing" => nxt'[t] = g[c] /\ a < c /\ tail'.ptr = g[c - 1],
         sent'[t] <= Enqueues[t],
         pc'[t] # "eSwing" => tail'.ptr = g[c]
  PROVE  ProducerOK(g, a, c)'
<1>1. \A u \in Threads : u # t => ~(Enqueues[u] > 0)
  BY DEF OneProducer
<1>2. \A u \in Threads : u # t => /\ pc'[u] \notin Preparing \cup Finishing /\ node'[u] = Null
                                  /\ sent'[u] <= Enqueues[u]
  BY <1>1 DEF ProducerOK
<1>3. \A u \in Threads : pc'[u] \in Holding \cup {"eHold"} => u = t
  BY <1>2 DEF Holding, Preparing, Finishing
<1>4. Standing({"eSwing"})' = {} => pc'[t] # "eSwing"
  BY DEF Standing
<1>5. ASSUME NEW u \in Threads
      PROVE  /\ pc'[u] \in Preparing \cup Finishing => Enqueues[u] > 0
             /\ pc'[u] \in Preparing <=> node'[u] # Null
             /\ node'[u] # Null => /\ Next'[node'[u]] = Null /\ Data'[node'[u]] \in AllItems
                                   /\ \A i \in a .. c : g[i] # node'[u]
             /\ pc'[u] \in Holding \cup {"eHold"} /\ pc'[u] # "eDrop" => old'[u] = tail'
             /\ pc'[u] = "eNext" => nxt'[u] = tail'.ptr
             /\ pc'[u] = "eCheck" => nxt'[u] = Null
             /\ pc'[u] = "eSwing" => nxt'[u] = g[c] /\ a < c /\ tail'.ptr = g[c - 1]
             /\ sent'[u] <= Enqueues[u]
  <2>1. CASE u = t
    BY <2>1
  <2>2. CASE u # t
    <3>1. pc'[u] \notin {"eNext", "eCheck", "eSwing"}
      BY <1>2, <2>2 DEF Preparing, Finishing
    <3> QED BY <1>2, <1>3, <2>2, <3>1
  <2> QED BY <2>1, <2>2
<1> QED BY <1>4, <1>5 DEF ProducerOK

\* An item is counted after it was linked.
LEMMA SizeStep ==
  ASSUME OneProducer, TypeOK, NEW f, NEW a, NEW b, QueueOK(f, a, b), NEW t \in Threads, EnqueueSize(t)
  PROVE  TypeOK' /\ QueueOK(f, a, b)'
<1> USE DEF EnqueueSize, Done, At, Goto, nodeVars, localVars, budgetVars
<1>1. /\ pc[t] = "eSize" /\ pc'[t] = "idle"
      /\ \A u \in Threads : u # t => /\ pc'[u] = pc[u] /\ old'[u] = old[u] /\ cur'[u] = cur[u]
                                     /\ nxt'[u] = nxt[u] /\ tag'[u] = tag[u] /\ val'[u] = val[u]
  BY DEF TypeOK
<1>2. TypeOK'
  <2>1. NoPtr \in [ptr : Locations, tag : Nat] /\ Null \in Locations /\ "idle" \in Labels
    BY DEF NoPtr, Ptr, Locations, Labels
  <2> QED BY <2>1 DEF TypeOK
<1>3. Enqueues[t] > 0 /\ node[t] = Null /\ sent[t] <= Enqueues[t] /\ tail.ptr = f[b]
  BY <1>1, WhereTailIs DEF QueueOK, ProducerOK, Finishing, Preparing
<1>4. ListOK(f, a, b)'
  BY ListFrame DEF QueueOK
<1>5. ProducerOK(f, a, b)'
  BY <1>1, <1>3, ProducerMoves, BudgetAssumption DEF QueueOK, Preparing, Holding
<1>6. RefsOK(f, a, b)'
  BY <1>1, RefsFrame DEF QueueOK, Holding, Removing, Freeing
<1>7. SizeOK(a, b)'
  <2>1. /\ Cardinality(Reserved)' = Cardinality(Reserved)
        /\ Cardinality(Uncounted)' = Cardinality(Uncounted) - 1
        /\ Cardinality(Undoing)' = Cardinality(Undoing)
        /\ Size' = Size + 1
    BY <1>1, <1>3, Counts, FinitelyMany DEF Active, Finishing
  <2>2. /\ Size + Cardinality(Reserved) + Cardinality(Uncounted) = b - a
        /\ Size + Cardinality(Undoing) >= 0 /\ Size \in Int
    BY DEF QueueOK, SizeOK, Undoing, TypeOK
  <2>3. Size' + Cardinality(Reserved)' + Cardinality(Uncounted)' = b - a /\ Size' + Cardinality(Undoing)' >= 0
    BY <2>1, <2>2, FinitelyMany
  <2> QED BY <2>3 DEF SizeOK, Undoing
<1>8. DequeuersOK(f, a, b)'
  BY <1>1, DequeuersFrame DEF QueueOK, Active
<1> QED BY <1>2, <1>4, <1>5, <1>6, <1>7, <1>8 DEF QueueOK

-----------------------------------------------------------------------------
(* The steps of an Enqueue that change no node *)

\* A thread moves on within its Enqueue.
LEMMA EnqueueMoves ==
  ASSUME NEW f, NEW a, NEW b, QueueOK(f, a, b), NEW t \in Threads,
         UNCHANGED <<head, Size, Next, Data, RefCnt, DeleteFlag, FreeNodes, node>>,
         pc[t] \in Preparing \cup Finishing, pc'[t] \in Preparing \cup Finishing,
         pc[t] \in Finishing <=> pc'[t] \in Finishing, pc[t] # "eFree", pc'[t] # "eFree",
         \/ pc[t] \in Holding /\ pc'[t] \in Holding /\ old'[t] = old[t]
         \/ pc[t] \notin Holding /\ pc'[t] \notin Holding,
         \A u \in Threads : u # t => /\ pc'[u] = pc[u] /\ old'[u] = old[u] /\ cur'[u] = cur[u]
                                     /\ nxt'[u] = nxt[u] /\ tag'[u] = tag[u] /\ val'[u] = val[u]
  PROVE  ListOK(f, a, b)' /\ RefsOK(f, a, b)' /\ DequeuersOK(f, a, b)' /\ SizeOK(a, b)'
<1>1. ListOK(f, a, b)'
  BY ListFrame DEF QueueOK
<1>2. /\ pc[t] \notin Removing \cup Freeing \cup Active \cup {"dUndo"}
      /\ pc'[t] \notin Removing \cup Freeing \cup Active \cup {"dUndo"}
  BY DEF Preparing, Finishing, Removing, Freeing, Active
<1>3. RefsOK(f, a, b)'
  BY <1>2, RefsFrame DEF QueueOK
<1>4. DequeuersOK(f, a, b)'
  BY <1>2, DequeuersFrame DEF QueueOK
<1>5. SizeOK(a, b)'
  BY <1>2, SizeFrame DEF QueueOK
<1> QED BY <1>1, <1>3, <1>4, <1>5

\* What is so wherever an Enqueue is.
LEMMA EnqueueState ==
  ASSUME OneProducer, TypeOK, NEW f, NEW a, NEW b, QueueOK(f, a, b), NEW t \in Threads,
         pc[t] \in Preparing \cup Finishing
  PROVE  /\ Enqueues[t] > 0 /\ sent[t] <= Enqueues[t] /\ (node[t] = Null <=> pc[t] \in Finishing)
         /\ node[t] # Null => /\ Next[node[t]] = Null /\ Data[node[t]] \in AllItems
                              /\ \A i \in a .. b : f[i] # node[t]
         /\ pc[t] # "eSwing" => tail.ptr = f[b]
         /\ pc[t] \in Holding \cup {"eHold"} /\ pc[t] # "eDrop" => old[t] = tail
         /\ a \in Nat /\ b \in Nat /\ a <= b /\ b \in a .. b /\ Next[f[b]] = Null /\ f[b] \in Nodes
         /\ \A u \in Threads : u # t => pc[u] \notin Preparing \cup Finishing \cup Holding
<1>1. ListOK(f, a, b) /\ ProducerOK(f, a, b)
  BY DEF QueueOK
<1>2. pc[t] \notin Preparing <=> pc[t] \in Finishing
  BY DEF Preparing, Finishing
<1>3. a \in Nat /\ b \in Nat /\ a <= b /\ b \in a .. b /\ Next[f[b]] = Null /\ f[b] \in Nodes
  BY <1>1 DEF ListOK
<1>4. \A u \in Threads : u # t => pc[u] \notin Preparing \cup Finishing
  BY <1>1, AloneAtWork
<1>5. \A u \in Threads : u # t => pc[u] \notin Holding
  BY <1>4 DEF Holding, Preparing, Finishing
<1>6. pc[t] # "eSwing" => tail.ptr = f[b]
  BY <1>1, WhereTailIs
<1> QED BY <1>1, <1>2, <1>3, <1>4, <1>5, <1>6 DEF ProducerOK

\* Tail is read.
LEMMA EReadTailStep ==
  ASSUME OneProducer, TypeOK, NEW f, NEW a, NEW b, QueueOK(f, a, b), NEW t \in Threads, EnqueueReadTail(t)
  PROVE  TypeOK' /\ QueueOK(f, a, b)'
<1> USE DEF EnqueueReadTail, At, Goto, nodeVars, localVars, budgetVars
<1>1. /\ pc[t] = "eTail" /\ pc'[t] = "eHold" /\ old'[t] = tail
      /\ \A u \in Threads : u # t => pc'[u] = pc[u] /\ old'[u] = old[u]
  BY DEF TypeOK
<1>2. TypeOK'
  BY DEF TypeOK, Labels, Preparing, Locations
<1>3. ListOK(f, a, b)' /\ RefsOK(f, a, b)' /\ DequeuersOK(f, a, b)' /\ SizeOK(a, b)'
  BY <1>1, EnqueueMoves DEF Preparing, Finishing, Holding
<1>4. ProducerOK(f, a, b)'
  <2>1. pc[t] \in Preparing /\ pc[t] \notin Finishing /\ pc'[t] \in Preparing
    BY <1>1 DEF Preparing, Finishing
  <2> QED BY <1>1, <2>1, EnqueueState, ProducerMoves, BudgetAssumption DEF QueueOK
<1> QED BY <1>2, <1>3, <1>4 DEF QueueOK

\* Tail is read once more: it is what it was.
LEMMA EReadAgainStep ==
  ASSUME OneProducer, TypeOK, NEW f, NEW a, NEW b, QueueOK(f, a, b), NEW t \in Threads, EnqueueReadAgain(t)
  PROVE  TypeOK' /\ QueueOK(f, a, b)'
<1> USE DEF EnqueueReadAgain, At, Goto, nodeVars, localVars, budgetVars
<1>1. /\ pc[t] = "eAgain" /\ pc'[t] = "eNext" /\ nxt'[t] = tail.ptr
      /\ \A u \in Threads : u # t => pc'[u] = pc[u] /\ nxt'[u] = nxt[u]
  BY DEF TypeOK
<1>2. TypeOK'
  BY DEF TypeOK, Labels, Preparing, Locations
<1>3. ListOK(f, a, b)' /\ RefsOK(f, a, b)' /\ DequeuersOK(f, a, b)' /\ SizeOK(a, b)'
  BY <1>1, EnqueueMoves DEF Preparing, Finishing, Holding
<1>4. ProducerOK(f, a, b)'
  <2>1. pc[t] \in Preparing /\ pc[t] \notin Finishing /\ pc'[t] \in Preparing /\ pc[t] \in Holding
    BY <1>1 DEF Preparing, Finishing, Holding
  <2> QED BY <1>1, <2>1, EnqueueState, ProducerMoves, BudgetAssumption DEF QueueOK
<1> QED BY <1>2, <1>3, <1>4 DEF QueueOK

\* Nothing is linked behind Tail.
LEMMA EReadNextStep ==
  ASSUME OneProducer, TypeOK, NEW f, NEW a, NEW b, QueueOK(f, a, b), NEW t \in Threads, EnqueueReadNext(t)
  PROVE  TypeOK' /\ QueueOK(f, a, b)'
<1> USE DEF EnqueueReadNext, At, Goto, nodeVars, localVars, budgetVars
<1>1. /\ pc[t] = "eNext" /\ pc'[t] = "eCheck" /\ nxt'[t] = Next[nxt[t]]
      /\ \A u \in Threads : u # t => pc'[u] = pc[u] /\ nxt'[u] = nxt[u]
  BY DEF TypeOK
<1>2. pc[t] \in Preparing /\ pc[t] \notin Finishing /\ pc'[t] \in Preparing /\ pc[t] \in Holding
  BY <1>1 DEF Preparing, Finishing, Holding
<1>3. nxt[t] = tail.ptr /\ tail.ptr = f[b] /\ Next[f[b]] = Null
  BY <1>1, <1>2, EnqueueState DEF QueueOK, ProducerOK
<1>4. TypeOK'
  <2>1. Null \in Locations /\ "eCheck" \in Labels
    BY DEF Locations, Labels, Preparing
  <2>2. nxt' \in [Threads -> Locations]
    BY <1>3, <2>1 DEF TypeOK
  <2> QED BY <2>1, <2>2 DEF TypeOK
<1>5. ListOK(f, a, b)' /\ RefsOK(f, a, b)' /\ DequeuersOK(f, a, b)' /\ SizeOK(a, b)'
  BY <1>1, EnqueueMoves DEF Preparing, Finishing, Holding
<1>6. ProducerOK(f, a, b)'
  BY <1>1, <1>2, <1>3, EnqueueState, ProducerMoves, BudgetAssumption DEF QueueOK
<1> QED BY <1>4, <1>5, <1>6 DEF QueueOK

\* Tail is what it was, and nobody's node waits for help.
LEMMA ECheckStep ==
  ASSUME OneProducer, TypeOK, NEW f, NEW a, NEW b, QueueOK(f, a, b), NEW t \in Threads, EnqueueCheck(t)
  PROVE  TypeOK' /\ QueueOK(f, a, b)'
<1> USE DEF At, Goto, nodeVars, localVars, budgetVars
<1>1. pc[t] = "eCheck"
  BY DEF EnqueueCheck
<1>2. pc[t] \in Preparing /\ pc[t] \notin Finishing /\ pc[t] \in Holding
  BY <1>1 DEF Preparing, Finishing, Holding
<1>3. old[t] = tail /\ nxt[t] = Null
  BY <1>1, <1>2, EnqueueState DEF QueueOK, ProducerOK
<1>4. /\ pc' = [pc EXCEPT ![t] = "eLink"]
      /\ UNCHANGED <<head, tail, Size, TagCnt, nodeVars, old, cur, node, nxt, tag, val, taken, budgetVars>>
  BY <1>3 DEF EnqueueCheck
<1>5. /\ pc'[t] = "eLink" /\ \A u \in Threads : u # t => pc'[u] = pc[u]
  BY <1>4 DEF TypeOK
<1>6. TypeOK'
  BY <1>4 DEF TypeOK, Labels, Preparing
<1>7. ListOK(f, a, b)' /\ RefsOK(f, a, b)' /\ DequeuersOK(f, a, b)' /\ SizeOK(a, b)'
  BY <1>1, <1>4, <1>5, EnqueueMoves DEF Preparing, Finishing, Holding
<1>8. ProducerOK(f, a, b)'
  <2>1. pc'[t] \in Preparing
    BY <1>5 DEF Preparing
  <2> QED BY <1>1, <1>2, <1>3, <1>4, <1>5, <2>1, EnqueueState, ProducerMoves, BudgetAssumption DEF QueueOK
<1> QED BY <1>6, <1>7, <1>8 DEF QueueOK

\* Tail follows the node that was linked: nobody else has moved it.
LEMMA SwingStep ==
  ASSUME OneProducer, TypeOK, NEW f, NEW a, NEW b, QueueOK(f, a, b), NEW t \in Threads, EnqueueSwing(t)
  PROVE  TypeOK' /\ QueueOK(f, a, b)'
<1> USE DEF EnqueueSwing, TailCas, At, Goto, nodeVars, localVars, budgetVars
<1>1. /\ pc[t] = "eSwing" /\ pc'[t] = "eDrop"
      /\ \A u \in Threads : u # t => pc'[u] = pc[u] /\ nxt'[u] = nxt[u]
  BY DEF TypeOK
<1>2. pc[t] \in Finishing /\ pc[t] \notin Preparing /\ pc'[t] \in Finishing /\ pc'[t] \notin Preparing /\ pc[t] \in Holding
  BY <1>1 DEF Preparing, Finishing, Holding
<1>3. old[t] = tail /\ nxt[t] = f[b] /\ f[b] \in Nodes
  BY <1>1, <1>2, EnqueueState DEF QueueOK, ProducerOK
<1>4. tail' = Ptr(f[b], tag[t])
  BY <1>3
<1>5. tail' \in [ptr : Nodes, tag : Nat] /\ tail'.ptr = f[b]
  BY <1>3, <1>4 DEF TypeOK, Ptr
<1>6. TypeOK'
  <2>1. Null \in Locations /\ "eDrop" \in Labels
    BY DEF Locations, Labels, Finishing
  <2>2. nxt' \in [Threads -> Locations]
    BY <2>1 DEF TypeOK
  <2> QED BY <1>5, <2>1, <2>2 DEF TypeOK
<1>7. ListOK(f, a, b)' /\ RefsOK(f, a, b)' /\ DequeuersOK(f, a, b)' /\ SizeOK(a, b)'
  BY <1>1, EnqueueMoves DEF Preparing, Finishing, Holding
<1>8. ProducerOK(f, a, b)'
  <2>1. node'[t] = Null
    BY <1>2, EnqueueState
  <2> QED BY <1>1, <1>2, <1>5, <2>1, EnqueueState, ProducerMoves, BudgetAssumption DEF QueueOK
<1> QED BY <1>6, <1>7, <1>8 DEF QueueOK

-----------------------------------------------------------------------------
(* The steps of an Enqueue that take, link or let go a node *)

\* A node comes from the pool: nobody refers to it.
LEMMA AllocStep ==
  ASSUME OneProducer, TypeOK, NEW f, NEW a, NEW b, QueueOK(f, a, b), NEW t \in Threads, EnqueueAlloc(t)
  PROVE  /\ TypeOK' /\ QueueOK(f, a, b)'
         /\ (\A i \in a .. b : Data'[f[i]] = Data[f[i]]) /\ taken' = taken
<1> USE DEF At, Goto, nodeVars, localVars, budgetVars, IncrementRef
<1>1. PICK n \in FreeNodes :
        /\ FreeNodes' = FreeNodes \ {n}
        /\ Data' = [Data EXCEPT ![n] = <<t, sent[t] + 1>>]
        /\ Next' = [Next EXCEPT ![n] = Null]
        /\ RefCnt' = [RefCnt EXCEPT ![n] = @ + 1]
        /\ node' = [node EXCEPT ![t] = n]
  BY DEF EnqueueAlloc
<1>2. /\ pc[t] = "idle" /\ pc' = [pc EXCEPT ![t] = "eTail"] /\ sent[t] < Enqueues[t]
      /\ sent' = [sent EXCEPT ![t] = @ + 1]
      /\ tag' = [tag EXCEPT ![t] = GetTagCnt] /\ TagCnt' = GetTagCnt
      /\ UNCHANGED <<head, tail, Size, DeleteFlag, old, cur, nxt, val, taken, got>>
  BY DEF EnqueueAlloc
<1>3. n \in Nodes /\ n # Null /\ sent[t] \in Nat /\ Enqueues[t] \in Nat
  BY NodeAssumption, BudgetAssumption DEF TypeOK
<1>4. TypeOK'
  <2>1. "eTail" \in Labels /\ n \in Locations
    BY <1>3 DEF Labels, Preparing, Locations
  <2>2. TagCnt' \in Nat /\ tag' \in [Threads -> Nat]
    BY <1>2 DEF TypeOK, GetTagCnt
  <2>3. /\ pc' \in [Threads -> Labels] /\ node' \in [Threads -> Locations] /\ sent' \in [Threads -> Nat]
        /\ Next' \in [Nodes -> Locations] /\ RefCnt' \in [Nodes -> Int] /\ FreeNodes' \subseteq Nodes
        /\ DOMAIN Data' = Nodes
    BY <1>1, <1>2, <1>3, <2>1 DEF TypeOK, Locations
  <2> QED BY <1>2, <2>2, <2>3 DEF TypeOK
<1>5. /\ pc'[t] = "eTail" /\ node'[t] = n /\ sent'[t] = sent[t] + 1
      /\ \A u \in Threads : u # t => pc'[u] = pc[u] /\ node'[u] = node[u] /\ sent'[u] = sent[u] /\ tag'[u] = tag[u]
      /\ Data'[n] = <<t, sent[t] + 1>> /\ Next'[n] = Null /\ RefCnt'[n] = RefCnt[n] + 1
      /\ \A m \in Nodes : m # n => Data'[m] = Data[m] /\ Next'[m] = Next[m] /\ RefCnt'[m] = RefCnt[m]
  BY <1>1, <1>2, <1>3 DEF TypeOK
<1>6. Data'[n] \in AllItems
  <2>1. sent[t] + 1 \in 1 .. Enqueues[t]
    BY <1>2, <1>3
  <2> QED BY <1>5, <2>1 DEF AllItems
<1>7. ~Owned(f, a, b, n) /\ ~Held(n) /\ ~Doomed(n) /\ ~Flagged(n) /\ RefCnt[n] = 0 /\ DeleteFlag[n] = 0
  <2>1. ~Owned(f, a, b, n) /\ ~Held(n) /\ ~Doomed(n)
    BY <1>1, <1>3 DEF QueueOK, RefsOK
  <2>2. ~Flagged(n)
    BY <2>1 DEF Flagged, Owned, Removing
  <2> QED BY <1>3, <2>1, <2>2 DEF QueueOK, RefsOK
<1>8. \A i \in a .. b : f[i] \in Nodes /\ f[i] # n
  BY <1>7 DEF Owned, QueueOK, ListOK
<1>9. ListOK(f, a, b)'
  BY <1>2, <1>5, <1>8, ListFrame DEF QueueOK
<1>10. ProducerOK(f, a, b)'
  <2>1. Enqueues[t] > 0
    BY <1>2, <1>3
  <2>2. /\ pc'[t] \in Preparing /\ pc'[t] \notin Holding \cup {"eHold", "eNext", "eCheck", "eSwing"}
    BY <1>5 DEF Preparing, Holding
  <2>3. tail.ptr = f[b]
    <3>1. \A u \in Threads : pc[u] # "eSwing"
      BY <1>2, <2>1 DEF QueueOK, ProducerOK, Finishing, OneProducer
    <3> QED BY <3>1 DEF Standing, QueueOK, ProducerOK
  <2>4. sent'[t] <= Enqueues[t]
    BY <1>2, <1>3, <1>5
  <2>5. ProducerOK(f, a, b)
    BY DEF QueueOK
  <2> QED BY <1>2, <1>3, <1>5, <1>6, <1>8, <2>1, <2>2, <2>3, <2>4, <2>5, ProducerMoves, BudgetAssumption
<1>11. RefsOK(f, a, b)'
  <2>1. /\ pc[t] \notin Holding \cup Removing \cup Freeing /\ pc'[t] \notin Holding \cup Removing \cup Freeing
        /\ pc[t] # "dDrop" /\ pc'[t] # "dDrop" /\ node[t] = Null
    BY <1>2, <1>5 DEF Holding, Removing, Freeing, QueueOK, ProducerOK, Preparing
  <2>2. \A m \in Nodes : /\ Owned(f, a, b, m)' <=> Owned(f, a, b, m) \/ m = n
                         /\ Held(m)' <=> Held(m)
                         /\ Doomed(m)' <=> Doomed(m)
                         /\ Flagged(m)' <=> Flagged(m)
    <3>1. \A m \in Nodes : (\E u \in Threads : node'[u] = m) <=> (\E u \in Threads : node[u] = m) \/ m = n
      BY <1>5, <2>1, NodeAssumption
    <3>2. \A m \in Nodes : Owned(f, a, b, m)' <=> Owned(f, a, b, m) \/ m = n
      BY <1>2, <1>5, <2>1, <3>1 DEF Owned
    <3> QED BY <1>2, <1>5, <2>1, <3>2 DEF Held, Doomed, Flagged
  <2>3. ASSUME NEW m \in Nodes
        PROVE  /\ RefCnt'[m] = (IF Owned(f, a, b, m)' THEN 1 ELSE 0) + (IF Held(m)' THEN 1 ELSE 0)
               /\ DeleteFlag'[m] = IF Flagged(m)' \/ Doomed(m)' \/ (Held(m)' /\ ~Owned(f, a, b, m)') THEN 1 ELSE 0
               /\ m \in FreeNodes' => ~Owned(f, a, b, m)' /\ ~Held(m)' /\ ~Doomed(m)'
               /\ Doomed(m)' => ~Owned(f, a, b, m)' /\ ~Held(m)'
    <3>1. CASE m = n
      BY <1>1, <1>2, <1>3, <1>5, <1>7, <2>2, <3>1
    <3>2. CASE m # n
      BY <1>1, <1>2, <1>5, <2>2, <3>2 DEF QueueOK, RefsOK
    <3> QED BY <3>1, <3>2
  <2>4. \A u \in Threads : pc'[u] \in Removing \cup Freeing \cup Holding => pc[u] = pc'[u] /\ u # t
    BY <1>5, <2>1
  <2>5. \A u \in Threads : pc[u] \in Removing \cup Freeing => old[u].ptr # n
    BY <1>7 DEF Owned, Doomed
  <2>6. \A u \in Threads : pc'[u] \in Removing \cup Freeing =>
          /\ \A i \in a .. b : f[i] # old'[u].ptr
          /\ \A v \in Threads : node'[v] # old'[u].ptr
          /\ \A v \in Threads \ {u} : pc'[v] \in Removing \cup Freeing => old'[v].ptr # old'[u].ptr
    BY <1>2, <1>5, <2>4, <2>5 DEF QueueOK, RefsOK
  <2>7. \A u \in Threads : pc'[u] \in Removing \cup Freeing \cup Holding => old'[u].ptr \in Nodes
    BY <1>2, <2>4 DEF QueueOK, RefsOK
  <2> QED BY <2>3, <2>6, <2>7 DEF RefsOK
<1>12. DequeuersOK(f, a, b)'
  <2>1. pc[t] \notin Active /\ pc'[t] \notin Active
    BY <1>2, <1>5 DEF Active
  <2>2. (\E u \in Threads : pc[u] \in Active) => Data'[f[a + 1]] = Data[f[a + 1]]
    <3> SUFFICES ASSUME NEW u \in Threads, pc[u] \in Active PROVE Data'[f[a + 1]] = Data[f[a + 1]]
      OBVIOUS
    <3>1. a + 1 \in a .. b
      BY TailBehindHead
    <3> QED BY <1>5, <1>8, <3>1
  <2> QED BY <1>2, <1>5, <2>1, <2>2, DequeuersFrame DEF QueueOK
<1>13. SizeOK(a, b)'
  <2>1. node[t] = Null
    BY <1>2 DEF QueueOK, ProducerOK, Preparing
  <2> QED BY <1>2, <1>3, <1>5, <2>1, SizeFrame DEF QueueOK, Active, Finishing
<1> QED BY <1>2, <1>4, <1>5, <1>8, <1>9, <1>10, <1>11, <1>12, <1>13 DEF QueueOK

\* The tail gets a second reference.
LEMMA HoldStep ==
  ASSUME OneProducer, TypeOK, NEW f, NEW a, NEW b, QueueOK(f, a, b), NEW t \in Threads, EnqueueHold(t)
  PROVE  TypeOK' /\ QueueOK(f, a, b)'
<1> USE DEF EnqueueHold, IncrementRef, At, Goto, nodeVars, localVars, budgetVars
<1>1. /\ pc[t] = "eHold" /\ pc'[t] = "eAgain"
      /\ \A u \in Threads : u # t => pc'[u] = pc[u]
  BY DEF TypeOK
<1>2. /\ pc[t] \in Preparing /\ pc[t] \notin Finishing \cup Holding \cup Removing \cup Freeing \cup Active
      /\ pc'[t] \in Preparing /\ pc'[t] \in Holding /\ pc'[t] \notin Finishing \cup Removing \cup Freeing \cup Active
  BY <1>1 DEF Preparing, Finishing, Holding, Removing, Freeing, Active
<1>3. /\ old[t] = tail /\ tail.ptr = f[b] /\ f[b] \in Nodes /\ b \in a .. b
      /\ \A u \in Threads : u # t => pc[u] \notin Holding
  BY <1>1, <1>2, EnqueueState
<1>4. TypeOK'
  <2>1. pc' \in [Threads -> Labels]
    BY DEF TypeOK, Labels, Preparing
  <2>2. RefCnt' \in [Nodes -> Int]
    BY <1>3 DEF TypeOK
  <2> QED BY <2>1, <2>2 DEF TypeOK
<1>5. ListOK(f, a, b)'
  BY ListFrame DEF QueueOK
<1>6. ProducerOK(f, a, b)'
  BY <1>1, <1>2, <1>3, EnqueueState, ProducerMoves, BudgetAssumption DEF QueueOK
<1>7. RefsOK(f, a, b)'
  <2> DEFINE n == f[b]
  <2>1. Owned(f, a, b, n) /\ (\A m \in Nodes : ~Held(m)) /\ (\A m \in Nodes : Held(m)' <=> m = n)
    BY <1>1, <1>2, <1>3 DEF Owned, Held
  <2>2. \A m \in Nodes : /\ Owned(f, a, b, m)' <=> Owned(f, a, b, m)
                         /\ Doomed(m)' <=> Doomed(m)
                         /\ Flagged(m)' <=> Flagged(m)
    <3>1. \A u \in Threads : /\ pc'[u] \in Removing <=> pc[u] \in Removing
                             /\ pc'[u] \in Freeing <=> pc[u] \in Freeing
                             /\ pc'[u] = "dDrop" <=> pc[u] = "dDrop"
      BY <1>1, <1>2
    <3> QED BY <3>1 DEF Owned, Doomed, Flagged
  <2>3. RefCnt'[n] = RefCnt[n] + 1 /\ \A m \in Nodes : m # n => RefCnt'[m] = RefCnt[m]
    BY <1>3 DEF TypeOK
  <2> HIDE DEF n
  <2>4. ASSUME NEW m \in Nodes
        PROVE  /\ RefCnt'[m] = (IF Owned(f, a, b, m)' THEN 1 ELSE 0) + (IF Held(m)' THEN 1 ELSE 0)
               /\ DeleteFlag'[m] = IF Flagged(m)' \/ Doomed(m)' \/ (Held(m)' /\ ~Owned(f, a, b, m)') THEN 1 ELSE 0
               /\ m \in FreeNodes' => ~Owned(f, a, b, m)' /\ ~Held(m)' /\ ~Doomed(m)'
               /\ Doomed(m)' => ~Owned(f, a, b, m)' /\ ~Held(m)'
    <3>1. CASE m = n
      BY <2>1, <2>2, <2>3, <3>1 DEF QueueOK, RefsOK
    <3>2. CASE m # n
      BY <2>1, <2>2, <2>3, <3>2 DEF QueueOK, RefsOK
    <3> QED BY <3>1, <3>2
  <2>5. /\ \A u \in Threads : pc'[u] \in Removing \cup Freeing \cup Holding => old'[u].ptr \in Nodes
        /\ \A u \in Threads : pc'[u] \in Removing \cup Freeing =>
             /\ \A i \in a .. b : f[i] # old'[u].ptr
             /\ \A v \in Threads : node'[v] # old'[u].ptr
             /\ \A v \in Threads \ {u} : pc'[v] \in Removing \cup Freeing => old'[v].ptr # old'[u].ptr
    <3>1. \A u \in Threads : /\ pc'[u] \in Removing \cup Freeing => pc[u] \in Removing \cup Freeing
                             /\ pc'[u] \in Holding => u = t
      BY <1>1, <1>2, <1>3
    <3> QED BY <1>3, <3>1 DEF QueueOK, RefsOK
  <2> QED BY <2>4, <2>5 DEF RefsOK
<1>8. DequeuersOK(f, a, b)'
  BY <1>1, <1>2, DequeuersFrame DEF QueueOK
<1>9. SizeOK(a, b)'
  BY <1>1, <1>2, SizeFrame DEF QueueOK
<1> QED BY <1>4, <1>5, <1>6, <1>7, <1>8, <1>9 DEF QueueOK

\* The node is linked: nothing was linked there before.
LEMMA LinkStep ==
  ASSUME OneProducer, TypeOK, NEW f, NEW a, NEW b, QueueOK(f, a, b), NEW t \in Threads, EnqueueLink(t)
  PROVE  /\ TypeOK'
         /\ \E g : QueueOK(g, a, b + 1)' /\ (\A i \in a .. b : g[i] = f[i]) /\ g[b + 1] = node[t]
         /\ Links(t)
         /\ Data' = Data /\ taken' = taken /\ Data[node[t]] \in AllItems
<1> USE DEF At, Goto, nodeVars, localVars, budgetVars
<1>0. PICK g : g = [i \in Nat |-> IF i = b + 1 THEN node[t] ELSE f[i]]
  OBVIOUS
<1>1. pc[t] = "eLink"
  BY DEF EnqueueLink
<1>2. pc[t] \in Preparing /\ pc[t] \notin Finishing \cup Removing \cup Freeing \cup Active /\ pc[t] \in Holding
  BY <1>1 DEF Preparing, Finishing, Holding, Removing, Freeing, Active
<1>3. /\ old[t] = tail /\ tail.ptr = f[b] /\ f[b] \in Nodes /\ b \in a .. b /\ Next[f[b]] = Null
      /\ a \in Nat /\ b \in Nat /\ a <= b
      /\ node[t] # Null /\ Next[node[t]] = Null /\ Data[node[t]] \in AllItems
      /\ \A i \in a .. b : f[i] # node[t]
      /\ \A u \in Threads : u # t => pc[u] \notin Preparing \cup Finishing \cup Holding
      /\ Enqueues[t] > 0 /\ sent[t] <= Enqueues[t]
  BY <1>1, <1>2, EnqueueState
<1>4. node[t] \in Nodes
  BY <1>3 DEF TypeOK, Locations
<1>5. /\ Next' = [Next EXCEPT ![f[b]] = node[t]]
      /\ nxt' = [nxt EXCEPT ![t] = node[t]]
      /\ node' = [node EXCEPT ![t] = Null]
      /\ pc' = [pc EXCEPT ![t] = "eSwing"]
      /\ UNCHANGED <<head, tail, Size, TagCnt, Data, RefCnt, DeleteFlag, FreeNodes, old, cur, tag, val, taken, budgetVars>>
  BY <1>3 DEF EnqueueLink
<1>6. TypeOK'
  <2>1. "eSwing" \in Labels /\ Null \in Locations /\ node[t] \in Locations
    BY <1>4 DEF Labels, Finishing, Locations
  <2> QED BY <1>5, <2>1 DEF TypeOK
<1>7. /\ pc'[t] = "eSwing" /\ node'[t] = Null /\ nxt'[t] = node[t]
      /\ \A u \in Threads : u # t => pc'[u] = pc[u] /\ node'[u] = node[u] /\ nxt'[u] = nxt[u]
      /\ Next'[f[b]] = node[t] /\ \A m \in Nodes : m # f[b] => Next'[m] = Next[m]
  BY <1>3, <1>5 DEF TypeOK
<1>8. /\ pc'[t] \in Finishing /\ pc'[t] \in Holding
      /\ pc'[t] \notin Preparing \cup Removing \cup Freeing \cup Active \cup {"dUndo", "dDrop"}
  BY <1>7 DEF Preparing, Finishing, Holding, Removing, Freeing, Active
<1>9. \A i \in a .. b : g[i] = f[i] /\ i # b + 1
  BY <1>0, <1>3
<1>10. g[b + 1] = node[t]
  BY <1>0, <1>3
<1>11. \A i \in a .. b + 1 : i \in a .. b \/ i = b + 1
  BY <1>3
<1>12. b + 1 \in Nat /\ a <= b + 1 /\ a < b + 1 /\ b + 1 \in a .. b + 1 /\ (b + 1) - 1 = b /\ a .. b \subseteq a .. b + 1
  BY <1>3
<1>13. ListOK(g, a, b + 1)'
  <2>1. /\ f[a] = head.ptr
        /\ \A i \in a .. b : f[i] \in Nodes
        /\ \A i \in a .. b - 1 : Next[f[i]] = f[i + 1]
        /\ \A i, j \in a .. b : f[i] = f[j] => i = j
        /\ \A i \in a + 1 .. b : Data[f[i]] \in AllItems
    BY DEF QueueOK, ListOK
  <2>2. g[a] = head'.ptr
    BY <1>3, <1>5, <1>9, <2>1
  <2>3. \A i \in a .. b + 1 : g[i] \in Nodes
    BY <1>4, <1>9, <1>10, <1>11, <2>1
  <2>4. ASSUME NEW i \in a .. b PROVE Next'[g[i]] = g[i + 1]
    <3>1. CASE i = b
      BY <1>3, <1>7, <1>9, <1>10, <3>1
    <3>2. CASE i # b
      <4>1. i \in a .. b - 1 /\ i + 1 \in a .. b /\ f[i] # f[b]
        BY <1>3, <2>1, <3>2
      <4> QED BY <1>7, <1>9, <2>1, <4>1
    <3> QED BY <3>1, <3>2
  <2>5. Next'[g[b + 1]] = Null
    BY <1>3, <1>4, <1>7, <1>10
  <2>6. ASSUME NEW i \in a .. b + 1, NEW j \in a .. b + 1, g[i] = g[j] PROVE i = j
    BY <1>3, <1>9, <1>10, <1>11, <2>1, <2>6
  <2>7. ASSUME NEW i \in a + 1 .. b + 1 PROVE Data'[g[i]] \in AllItems
    <3>1. i = b + 1 \/ (i \in a + 1 .. b /\ i \in a .. b)
      BY <1>3
    <3> QED BY <1>3, <1>5, <1>9, <1>10, <2>1, <3>1
  <2>8. \A i \in a .. (b + 1) - 1 : Next'[g[i]] = g[i + 1]
    BY <1>12, <2>4
  <2> QED BY <1>3, <1>12, <2>2, <2>3, <2>5, <2>6, <2>7, <2>8 DEF ListOK
<1>14. ProducerOK(g, a, b + 1)'
  <2>1. g[(b + 1) - 1] = f[b]
    BY <1>3, <1>9, <1>12
  <2>2. tail'.ptr = g[(b + 1) - 1] /\ nxt'[t] = g[b + 1] /\ old'[t] = tail'
    BY <1>3, <1>5, <1>7, <1>10, <2>1
  <2>3. ProducerOK(f, a, b)
    BY DEF QueueOK
  <2>4. \A u \in Threads : u # t => pc'[u] = pc[u] /\ node'[u] = node[u] /\ sent'[u] = sent[u]
    BY <1>5, <1>7
  <2>5. sent'[t] <= Enqueues[t]
    BY <1>3, <1>5
  <2>6. pc'[t] # "eNext" /\ pc'[t] # "eCheck"
    BY <1>7
  <2> QED BY ONLY OneProducer, BudgetAssumption, <1>3, <1>7, <1>8, <1>12, <2>2, <2>3, <2>4, <2>5, <2>6, ProducerMoves
<1>15. RefsOK(g, a, b + 1)'
  <2>1. \A m : (\E i \in a .. b + 1 : g[i] = m) <=> (\E i \in a .. b : f[i] = m) \/ m = node[t]
    BY <1>9, <1>10, <1>11, <1>12
  <2>2. \A u \in Threads : /\ pc'[u] \in Removing <=> pc[u] \in Removing
                           /\ pc'[u] \in Freeing <=> pc[u] \in Freeing
                           /\ pc'[u] \in Holding <=> pc[u] \in Holding
                           /\ pc'[u] = "dDrop" <=> pc[u] = "dDrop"
    BY <1>1, <1>2, <1>7, <1>8
  <2>3. \A m \in Nodes : (\E u \in Threads : node[u] = m) <=> (\E u \in Threads : node'[u] = m) \/ m = node[t]
    BY <1>7, NodeAssumption
  <2>4. \A m \in Nodes : /\ Owned(g, a, b + 1, m)' <=> Owned(f, a, b, m)
                         /\ Held(m)' <=> Held(m)
                         /\ Doomed(m)' <=> Doomed(m)
                         /\ Flagged(m)' <=> Flagged(m)
    BY <1>5, <2>1, <2>2, <2>3 DEF Owned, Held, Doomed, Flagged
  <2>5. \A m \in Nodes :
          /\ RefCnt'[m] = (IF Owned(g, a, b + 1, m)' THEN 1 ELSE 0) + (IF Held(m)' THEN 1 ELSE 0)
          /\ DeleteFlag'[m] = IF Flagged(m)' \/ Doomed(m)' \/ (Held(m)' /\ ~Owned(g, a, b + 1, m)') THEN 1 ELSE 0
          /\ m \in FreeNodes' => ~Owned(g, a, b + 1, m)' /\ ~Held(m)' /\ ~Doomed(m)'
          /\ Doomed(m)' => ~Owned(g, a, b + 1, m)' /\ ~Held(m)'
    BY <1>5, <2>4 DEF QueueOK, RefsOK
  <2>6. \A u \in Threads : pc'[u] \in Removing \cup Freeing \cup Holding => old'[u].ptr \in Nodes
    BY <1>5, <2>2 DEF QueueOK, RefsOK
  <2>7. ASSUME NEW u \in Threads, pc'[u] \in Removing \cup Freeing
        PROVE  /\ \A i \in a .. b + 1 : g[i] # old'[u].ptr
               /\ \A v \in Threads : node'[v] # old'[u].ptr
               /\ \A v \in Threads \ {u} : pc'[v] \in Removing \cup Freeing => old'[v].ptr # old'[u].ptr
    <3>1. /\ pc[u] \in Removing \cup Freeing /\ old'[u].ptr = old[u].ptr /\ old'[u].ptr \in Nodes
      BY <1>5, <2>2, <2>6, <2>7
    <3>2. /\ \A i \in a .. b : f[i] # old[u].ptr
          /\ \A v \in Threads : node[v] # old[u].ptr
          /\ \A v \in Threads \ {u} : pc[v] \in Removing \cup Freeing => old[v].ptr # old[u].ptr
      BY <3>1 DEF QueueOK, RefsOK
    <3>3. \A i \in a .. b + 1 : g[i] # old'[u].ptr
      BY <1>9, <1>10, <1>11, <3>1, <3>2
    <3>4. \A v \in Threads : node'[v] # old'[u].ptr
      BY <1>7, <3>1, <3>2, NodeAssumption
    <3>5. \A v \in Threads \ {u} : pc'[v] \in Removing \cup Freeing => old'[v].ptr # old'[u].ptr
      BY <1>5, <2>2, <3>2
    <3> QED BY <3>3, <3>4, <3>5
  <2> QED BY <2>5, <2>6, <2>7 DEF RefsOK
<1>16. DequeuersOK(g, a, b + 1)'
  <2>1. pc[t] \notin Active /\ pc'[t] \notin Active
    BY <1>2, <1>8
  <2>2. \A u \in Threads : u # t => /\ pc'[u] = pc[u] /\ old'[u] = old[u] /\ cur'[u] = cur[u]
                                    /\ nxt'[u] = nxt[u] /\ tag'[u] = tag[u] /\ val'[u] = val[u]
    BY <1>5, <1>7
  <2>3. (\E u \in Threads : pc[u] \in Active) => g[a + 1] = f[a + 1] /\ Data'[f[a + 1]] = Data[f[a + 1]]
    <3> SUFFICES ASSUME NEW u \in Threads, pc[u] \in Active PROVE g[a + 1] = f[a + 1] /\ Data'[f[a + 1]] = Data[f[a + 1]]
      OBVIOUS
    <3>1. a + 1 \in a .. b
      BY TailBehindHead
    <3> QED BY <1>5, <1>9, <3>1
  <2> QED BY <1>5, <2>1, <2>2, <2>3, DequeuersFrame DEF QueueOK
<1>17. SizeOK(a, b + 1)'
  <2>1. /\ Cardinality(Reserved)' = Cardinality(Reserved)
        /\ Cardinality(Uncounted)' = Cardinality(Uncounted) + 1
        /\ Cardinality(Undoing)' = Cardinality(Undoing)
        /\ Size' = Size
    <3>1. /\ pc[t] \notin Active \cup {"dUndo"} /\ pc'[t] \notin Active \cup {"dUndo"} /\ pc[t] \notin Finishing
          /\ pc[t] # "dUndo" /\ pc'[t] # "dUndo"
      BY <1>1, <1>2, <1>8
    <3>2. \A u \in Threads : u # t => pc'[u] = pc[u] /\ node'[u] = node[u]
      BY <1>7
    <3> QED BY <1>5, <1>7, <1>8, <3>1, <3>2, Counts, FinitelyMany
  <2>2. /\ Size + Cardinality(Reserved) + Cardinality(Uncounted) = b - a
        /\ Size + Cardinality(Undoing) >= 0 /\ Size \in Int
    BY DEF QueueOK, SizeOK, Undoing, TypeOK
  <2>3. Size' + Cardinality(Reserved)' + Cardinality(Uncounted)' = (b + 1) - a /\ Size' + Cardinality(Undoing)' >= 0
    BY <1>3, <2>1, <2>2, FinitelyMany
  <2> QED BY <2>3 DEF SizeOK, Undoing
<1>18. QueueOK(g, a, b + 1)'
  BY <1>13, <1>14, <1>15, <1>16, <1>17 DEF QueueOK
<1> QED BY <1>1, <1>3, <1>5, <1>6, <1>7, <1>9, <1>10, <1>18 DEF Links

-----------------------------------------------------------------------------
(* References are dropped, and nodes are given back *)

\* Whoever drops the last reference frees the node: it is in no list and nobody holds it.
LEMMA DropRefs ==
  ASSUME TypeOK, NEW f, NEW a, NEW b, RefsOK(f, a, b), NEW t \in Threads, NEW n, n = old[t].ptr,
         UNCHANGED <<node, FreeNodes, DeleteFlag>>, DecrementRef(n),
         \/ pc[t] = "eDrop" /\ \A u \in Threads : u # t => pc[u] \notin Holding
         \/ pc[t] = "dDrop",
         \/ RefCnt[n] = 1 /\ pc'[t] \in Freeing /\ old'[t] = old[t]
         \/ RefCnt[n] # 1 /\ pc'[t] \notin Removing \cup Freeing \cup Holding,
         \A u \in Threads : u # t => pc'[u] = pc[u] /\ old'[u] = old[u]
  PROVE  RefsOK(f, a, b)'
<1>1. pc[t] \notin Freeing /\ (pc[t] \in Holding <=> pc[t] = "eDrop") /\ (pc[t] \in Removing <=> pc[t] = "dDrop")
      /\ pc'[t] \notin Removing \cup Holding /\ pc'[t] # "dDrop" /\ n \in Nodes
  BY DEF Holding, Removing, Freeing, RefsOK
<1>2. RefCnt'[n] = RefCnt[n] - 1 /\ \A m \in Nodes : m # n => RefCnt'[m] = RefCnt[m]
  BY <1>1 DEF DecrementRef, TypeOK
<1>3. /\ \A m \in Nodes :
           /\ RefCnt[m] = (IF Owned(f, a, b, m) THEN 1 ELSE 0) + (IF Held(m) THEN 1 ELSE 0)
           /\ DeleteFlag[m] = IF Flagged(m) \/ Doomed(m) \/ (Held(m) /\ ~Owned(f, a, b, m)) THEN 1 ELSE 0
           /\ m \in FreeNodes => ~Owned(f, a, b, m) /\ ~Held(m) /\ ~Doomed(m)
           /\ Doomed(m) => ~Owned(f, a, b, m) /\ ~Held(m)
      /\ \A u \in Threads : pc[u] \in Removing \cup Freeing \cup Holding => old[u].ptr \in Nodes
      /\ \A u \in Threads : pc[u] \in Removing \cup Freeing =>
           /\ \A i \in a .. b : f[i] # old[u].ptr
           /\ \A v \in Threads : node[v] # old[u].ptr
           /\ \A v \in Threads \ {u} : pc[v] \in Removing \cup Freeing => old[v].ptr # old[u].ptr
  BY DEF RefsOK
<1>4. \A m : m # n => /\ Owned(f, a, b, m)' <=> Owned(f, a, b, m)
                      /\ Held(m)' <=> Held(m)
                      /\ Doomed(m)' <=> Doomed(m)
                      /\ Flagged(m)' <=> Flagged(m)
  BY <1>1 DEF Owned, Held, Doomed, Flagged
<1>5. CASE pc[t] = "eDrop" /\ Owned(f, a, b, n)
  <2>1. Held(n) /\ ~Held(n)' /\ ~Doomed(n)
    BY <1>1, <1>3, <1>5 DEF Held
  <2>2. RefCnt[n] = 2 /\ pc'[t] \notin Removing \cup Freeing \cup Holding
    BY <1>1, <1>3, <1>5, <2>1
  <2>3. /\ Owned(f, a, b, n)' <=> Owned(f, a, b, n)
        /\ Doomed(n)' <=> Doomed(n)
        /\ Flagged(n)' <=> Flagged(n)
    BY <1>1, <1>5, <2>2 DEF Owned, Doomed, Flagged
  <2>4. ASSUME NEW m \in Nodes
        PROVE  /\ RefCnt'[m] = (IF Owned(f, a, b, m)' THEN 1 ELSE 0) + (IF Held(m)' THEN 1 ELSE 0)
               /\ DeleteFlag'[m] = IF Flagged(m)' \/ Doomed(m)' \/ (Held(m)' /\ ~Owned(f, a, b, m)') THEN 1 ELSE 0
               /\ m \in FreeNodes' => ~Owned(f, a, b, m)' /\ ~Held(m)' /\ ~Doomed(m)'
               /\ Doomed(m)' => ~Owned(f, a, b, m)' /\ ~Held(m)'
    BY <1>2, <1>3, <1>4, <1>5, <2>1, <2>2, <2>3
  <2>5. \A u \in Threads : pc'[u] \in Removing \cup Freeing \cup Holding => u # t
    BY <2>2
  <2> QED BY <1>3, <2>4, <2>5 DEF RefsOK
<1>6. CASE pc[t] = "eDrop" /\ ~Owned(f, a, b, n)
  <2>1. Held(n) /\ ~Held(n)' /\ ~Doomed(n)
    BY <1>1, <1>3, <1>6 DEF Held
  <2>2. RefCnt[n] = 1 /\ pc'[t] \in Freeing /\ old'[t] = old[t]
    BY <1>1, <1>3, <1>6, <2>1
  <2>3. /\ Owned(f, a, b, n)' <=> Owned(f, a, b, n)
        /\ Doomed(n)'
    BY <1>1, <1>6, <2>2 DEF Owned, Doomed
  <2>4. ASSUME NEW m \in Nodes
        PROVE  /\ RefCnt'[m] = (IF Owned(f, a, b, m)' THEN 1 ELSE 0) + (IF Held(m)' THEN 1 ELSE 0)
               /\ DeleteFlag'[m] = IF Flagged(m)' \/ Doomed(m)' \/ (Held(m)' /\ ~Owned(f, a, b, m)') THEN 1 ELSE 0
               /\ m \in FreeNodes' => ~Owned(f, a, b, m)' /\ ~Held(m)' /\ ~Doomed(m)'
               /\ Doomed(m)' => ~Owned(f, a, b, m)' /\ ~Held(m)'
    BY <1>2, <1>3, <1>4, <1>6, <2>1, <2>2, <2>3
  <2>5. /\ \A i \in a .. b : f[i] # n
        /\ \A v \in Threads : node[v] # n
        /\ \A v \in Threads : pc[v] \in Removing \cup Freeing => old[v].ptr # n
    BY <1>6, <2>1 DEF Owned, Doomed
  <2>6. \A u \in Threads : pc'[u] \in Removing \cup Freeing \cup Holding => old'[u].ptr \in Nodes
    BY <1>1, <1>3, <2>2
  <2>7. ASSUME NEW u \in Threads, pc'[u] \in Removing \cup Freeing
        PROVE  /\ \A i \in a .. b : f[i] # old'[u].ptr
               /\ \A v \in Threads : node'[v] # old'[u].ptr
               /\ \A v \in Threads \ {u} : pc'[v] \in Removing \cup Freeing => old'[v].ptr # old'[u].ptr
    <3>1. CASE u = t
      BY <2>2, <2>5, <3>1
    <3>2. CASE u # t
      BY <1>3, <2>2, <2>5, <2>7, <3>2
    <3> QED BY <3>1, <3>2
  <2> QED BY <2>4, <2>6, <2>7 DEF RefsOK
<1>7. CASE pc[t] = "dDrop"
  <2>1. /\ Owned(f, a, b, n) /\ Flagged(n) /\ ~Doomed(n) /\ DeleteFlag[n] = 1 /\ n \notin FreeNodes
        /\ ~Owned(f, a, b, n)' /\ ~Flagged(n)'
    <3>1. Owned(f, a, b, n) /\ Flagged(n)
      BY <1>1, <1>7 DEF Owned, Flagged
    <3>2. ~Owned(f, a, b, n)'
      BY <1>1, <1>3, <1>7 DEF Owned
    <3>3. ~Flagged(n)'
      BY <1>1, <1>3, <1>7 DEF Flagged, Removing
    <3> QED BY <1>1, <1>3, <3>1, <3>2, <3>3
  <2>2. Held(n)' <=> Held(n)
    BY <1>1, <1>7 DEF Held
  <2>3. Doomed(n)' <=> pc'[t] \in Freeing
    BY <1>1, <1>7, <2>1 DEF Doomed
  <2>4. RefCnt[n] = 1 <=> ~Held(n)
    BY <1>1, <1>3, <2>1
  <2>5. pc'[t] \in Freeing <=> ~Held(n)
    BY <2>4
  <2>6. ASSUME NEW m \in Nodes
        PROVE  /\ RefCnt'[m] = (IF Owned(f, a, b, m)' THEN 1 ELSE 0) + (IF Held(m)' THEN 1 ELSE 0)
               /\ DeleteFlag'[m] = IF Flagged(m)' \/ Doomed(m)' \/ (Held(m)' /\ ~Owned(f, a, b, m)') THEN 1 ELSE 0
               /\ m \in FreeNodes' => ~Owned(f, a, b, m)' /\ ~Held(m)' /\ ~Doomed(m)'
               /\ Doomed(m)' => ~Owned(f, a, b, m)' /\ ~Held(m)'
    <3>1. CASE m = n
      BY <1>2, <1>3, <2>1, <2>2, <2>3, <2>5, <3>1
    <3>2. CASE m # n
      BY <1>2, <1>3, <1>4, <3>2
    <3> QED BY <3>1, <3>2
  <2>7. ASSUME NEW u \in Threads, pc'[u] \in Removing \cup Freeing \cup Holding
        PROVE  pc[u] \in Removing \cup Freeing \cup Holding /\ old'[u] = old[u]
               /\ (pc'[u] \in Removing \cup Freeing => pc[u] \in Removing \cup Freeing)
    BY <1>1, <1>7, <2>7
  <2> QED BY <1>3, <2>6, <2>7 DEF RefsOK
<1> QED BY <1>5, <1>6, <1>7

\* A node that has no reference goes back to the pool.
LEMMA FreeRefs ==
  ASSUME TypeOK, NEW f, NEW a, NEW b, RefsOK(f, a, b), NEW t \in Threads, pc[t] \in Freeing,
         pc'[t] \notin Removing \cup Freeing \cup Holding,
         ExchangeDeleteFlag(old[t].ptr), UNCHANGED node,
         \A u \in Threads : u # t => pc'[u] = pc[u] /\ old'[u] = old[u]
  PROVE  RefsOK(f, a, b)' /\ FreeNodes' = FreeNodes \cup {old[t].ptr} /\ old[t].ptr \in Nodes
         /\ UNCHANGED <<Next, Data, RefCnt>> /\ DeleteFlag' \in [Nodes -> Int]
<1>1. PICK n : n = old[t].ptr
  OBVIOUS
<1>2. pc[t] \notin Holding \cup Removing /\ pc[t] # "dDrop" /\ pc'[t] # "dDrop"
  BY DEF Holding, Removing, Freeing
<1>3. /\ \A m \in Nodes :
           /\ RefCnt[m] = (IF Owned(f, a, b, m) THEN 1 ELSE 0) + (IF Held(m) THEN 1 ELSE 0)
           /\ DeleteFlag[m] = IF Flagged(m) \/ Doomed(m) \/ (Held(m) /\ ~Owned(f, a, b, m)) THEN 1 ELSE 0
           /\ m \in FreeNodes => ~Owned(f, a, b, m) /\ ~Held(m) /\ ~Doomed(m)
           /\ Doomed(m) => ~Owned(f, a, b, m) /\ ~Held(m)
      /\ \A u \in Threads : pc[u] \in Removing \cup Freeing \cup Holding => old[u].ptr \in Nodes
      /\ \A u \in Threads : pc[u] \in Removing \cup Freeing =>
           /\ \A i \in a .. b : f[i] # old[u].ptr
           /\ \A v \in Threads : node[v] # old[u].ptr
           /\ \A v \in Threads \ {u} : pc[v] \in Removing \cup Freeing => old[v].ptr # old[u].ptr
  BY DEF RefsOK
<1>4. n \in Nodes /\ Doomed(n) /\ ~Owned(f, a, b, n) /\ ~Held(n) /\ DeleteFlag[n] = 1
  BY <1>1, <1>3 DEF Doomed
<1>5. /\ FreeNodes' = FreeNodes \cup {n} /\ DeleteFlag' = [DeleteFlag EXCEPT ![n] = 0] /\ UNCHANGED <<Next, Data, RefCnt>>
      /\ DeleteFlag'[n] = 0 /\ \A m \in Nodes : m # n => DeleteFlag'[m] = DeleteFlag[m]
      /\ DeleteFlag' \in [Nodes -> Int]
  BY <1>1, <1>4 DEF ExchangeDeleteFlag, TypeOK
<1>6. \A u \in Threads : pc'[u] \in Removing \cup Freeing \cup Holding =>
        pc[u] = pc'[u] /\ old'[u] = old[u] /\ u # t
  OBVIOUS
<1>7. \A m : m # n => /\ Owned(f, a, b, m)' <=> Owned(f, a, b, m)
                      /\ Held(m)' <=> Held(m)
                      /\ Doomed(m)' <=> Doomed(m)
                      /\ Flagged(m)' <=> Flagged(m)
  BY <1>1, <1>2 DEF Owned, Held, Doomed, Flagged
<1>8. ~Owned(f, a, b, n)' /\ ~Held(n)' /\ ~Doomed(n)' /\ ~Flagged(n)'
  <2>1. ~Owned(f, a, b, n)' /\ ~Held(n)'
    BY <1>4, <1>6 DEF Owned, Held
  <2>2. \A u \in Threads \ {t} : pc[u] \in Removing \cup Freeing => old[u].ptr # n
    BY <1>1, <1>3
  <2>3. ~Doomed(n)' /\ ~Flagged(n)'
    BY <1>2, <1>6, <2>2 DEF Doomed, Flagged, Removing
  <2> QED BY <2>1, <2>3
<1>9. ASSUME NEW m \in Nodes
      PROVE  /\ RefCnt'[m] = (IF Owned(f, a, b, m)' THEN 1 ELSE 0) + (IF Held(m)' THEN 1 ELSE 0)
             /\ DeleteFlag'[m] = IF Flagged(m)' \/ Doomed(m)' \/ (Held(m)' /\ ~Owned(f, a, b, m)') THEN 1 ELSE 0
             /\ m \in FreeNodes' => ~Owned(f, a, b, m)' /\ ~Held(m)' /\ ~Doomed(m)'
             /\ Doomed(m)' => ~Owned(f, a, b, m)' /\ ~Held(m)'
  <2>1. CASE m = n
    BY <1>3, <1>4, <1>5, <1>8, <2>1
  <2>2. CASE m # n
    BY <1>3, <1>5, <1>7, <2>2
  <2> QED BY <2>1, <2>2
<1>10. RefsOK(f, a, b)'
  BY <1>3, <1>6, <1>9 DEF RefsOK
<1> QED BY <1>1, <1>4, <1>5, <1>10

\* An Enqueue lets go the tail that it held; if that was taken out meanwhile, it frees it.
LEMMA EDropStep ==
  ASSUME OneProducer, TypeOK, NEW f, NEW a, NEW b, QueueOK(f, a, b), NEW t \in Threads, EnqueueDrop(t)
  PROVE  TypeOK' /\ QueueOK(f, a, b)'
<1> USE DEF At, Goto, nodeVars, localVars, budgetVars
<1>1. pc[t] = "eDrop"
  BY DEF EnqueueDrop
<1>2. pc[t] \in Finishing /\ pc[t] \in Holding
  BY <1>1 DEF Finishing, Holding
<1>3. /\ node[t] = Null /\ tail.ptr = f[b] /\ Enqueues[t] > 0 /\ sent[t] <= Enqueues[t]
      /\ \A u \in Threads : u # t => pc[u] \notin Holding
  BY <1>1, <1>2, EnqueueState
<1>4. /\ DecrementRef(old[t].ptr)
      /\ \/ pc' = [pc EXCEPT ![t] = "eFree"] /\ old' = old /\ RefCnt[old[t].ptr] = 1
         \/ pc' = [pc EXCEPT ![t] = "eSize"] /\ old' = [old EXCEPT ![t] = NoPtr] /\ RefCnt[old[t].ptr] # 1
      /\ UNCHANGED <<head, tail, Size, TagCnt, Next, Data, DeleteFlag, FreeNodes, cur, node, nxt, tag, val, taken, budgetVars>>
  BY <1>3 DEF EnqueueDrop, LetGo, IsLastRef
<1>5. old[t].ptr \in Nodes
  BY <1>2 DEF QueueOK, RefsOK
<1>6. TypeOK'
  <2>1. NoPtr \in [ptr : Locations, tag : Nat] /\ "eFree" \in Labels /\ "eSize" \in Labels
    BY DEF NoPtr, Ptr, Locations, Labels, Finishing, Freeing
  <2>2. pc' \in [Threads -> Labels] /\ old' \in [Threads -> [ptr : Locations, tag : Nat]]
    <3>1. pc \in [Threads -> Labels] /\ old \in [Threads -> [ptr : Locations, tag : Nat]]
      BY DEF TypeOK
    <3>2. CASE pc' = [pc EXCEPT ![t] = "eFree"] /\ old' = old
      BY <2>1, <3>1, <3>2
    <3>3. CASE pc' = [pc EXCEPT ![t] = "eSize"] /\ old' = [old EXCEPT ![t] = NoPtr]
      BY <2>1, <3>1, <3>3
    <3> QED BY <1>4, <3>2, <3>3
  <2>3. RefCnt' \in [Nodes -> Int]
    BY <1>4, <1>5 DEF TypeOK, DecrementRef
  <2> QED BY <1>4, <2>2, <2>3 DEF TypeOK
<1>7. /\ \/ pc'[t] = "eFree" /\ old'[t] = old[t] /\ RefCnt[old[t].ptr] = 1
         \/ pc'[t] = "eSize" /\ RefCnt[old[t].ptr] # 1
      /\ \A u \in Threads : u # t => pc'[u] = pc[u] /\ old'[u] = old[u]
  BY <1>4 DEF TypeOK
<1>8. /\ pc'[t] \in Finishing /\ pc'[t] \notin Preparing \cup Holding \cup Active
      /\ pc'[t] \notin {"eHold", "eNext", "eCheck", "eSwing", "dUndo"} /\ pc[t] \notin Active /\ pc[t] # "dUndo"
      /\ (pc'[t] = "eFree" => pc'[t] \in Freeing) /\ (pc'[t] = "eSize" => pc'[t] \notin Removing \cup Freeing)
  BY <1>1, <1>7 DEF Preparing, Finishing, Holding, Active, Removing, Freeing
<1>9. ListOK(f, a, b)'
  BY <1>4, ListFrame DEF QueueOK
<1>10. ProducerOK(f, a, b)'
  BY <1>3, <1>4, <1>7, <1>8, ProducerMoves, BudgetAssumption DEF QueueOK
<1>11. RefsOK(f, a, b)'
  <2>1. PICK n : n = old[t].ptr
    OBVIOUS
  <2>2. DecrementRef(n)
    BY <1>4, <2>1 DEF DecrementRef
  <2> QED BY <1>1, <1>3, <1>4, <1>7, <1>8, <2>1, <2>2, DropRefs DEF QueueOK
<1>12. DequeuersOK(f, a, b)'
  BY <1>4, <1>7, <1>8, DequeuersFrame DEF QueueOK
<1>13. SizeOK(a, b)'
  BY <1>2, <1>3, <1>4, <1>7, <1>8, SizeFrame DEF QueueOK
<1> QED BY <1>6, <1>9, <1>10, <1>11, <1>12, <1>13 DEF QueueOK

\* The Enqueue frees the node that it held.
LEMMA EFreeStep ==
  ASSUME OneProducer, TypeOK, NEW f, NEW a, NEW b, QueueOK(f, a, b), NEW t \in Threads, EnqueueFree(t)
  PROVE  TypeOK' /\ QueueOK(f, a, b)'
<1> USE DEF At, Goto, nodeVars, localVars, budgetVars
<1>1. pc[t] = "eFree"
  BY DEF EnqueueFree
<1>2. pc[t] \in Finishing /\ pc[t] \in Freeing
  BY <1>1 DEF Finishing, Freeing
<1>3. /\ node[t] = Null /\ tail.ptr = f[b] /\ Enqueues[t] > 0 /\ sent[t] <= Enqueues[t]
  BY <1>1, <1>2, EnqueueState
<1>4. /\ ExchangeDeleteFlag(old[t].ptr)
      /\ pc' = [pc EXCEPT ![t] = "eSize"] /\ old' = [old EXCEPT ![t] = NoPtr]
      /\ UNCHANGED <<head, tail, Size, TagCnt, cur, node, nxt, tag, val, taken, budgetVars>>
  BY <1>3 DEF EnqueueFree, LetGo
<1>5. /\ pc'[t] = "eSize"
      /\ \A u \in Threads : u # t => pc'[u] = pc[u] /\ old'[u] = old[u]
  BY <1>4 DEF TypeOK
<1>6. /\ pc'[t] \in Finishing /\ pc'[t] \notin Preparing \cup Holding \cup Active
      /\ pc'[t] \notin {"eHold", "eNext", "eCheck", "eSwing", "dUndo"} /\ pc[t] \notin Active /\ pc[t] # "dUndo"
      /\ pc'[t] \notin Removing \cup Freeing \cup Holding
  BY <1>1, <1>5 DEF Preparing, Finishing, Holding, Active, Removing, Freeing
<1>7. RefsOK(f, a, b)' /\ FreeNodes' = FreeNodes \cup {old[t].ptr} /\ old[t].ptr \in Nodes
      /\ UNCHANGED <<Next, Data, RefCnt>> /\ DeleteFlag' \in [Nodes -> Int]
  BY <1>2, <1>4, <1>5, <1>6, FreeRefs DEF QueueOK
<1>8. TypeOK'
  <2>1. NoPtr \in [ptr : Locations, tag : Nat] /\ "eSize" \in Labels
    BY DEF NoPtr, Ptr, Locations, Labels, Finishing
  <2>2. pc' \in [Threads -> Labels] /\ old' \in [Threads -> [ptr : Locations, tag : Nat]]
    BY <1>4, <2>1 DEF TypeOK
  <2> QED BY <1>4, <1>7, <2>2 DEF TypeOK
<1>9. ListOK(f, a, b)'
  BY <1>4, <1>7, ListFrame DEF QueueOK
<1>10. ProducerOK(f, a, b)'
  BY <1>3, <1>4, <1>5, <1>6, <1>7, ProducerMoves, BudgetAssumption DEF QueueOK
<1>11. DequeuersOK(f, a, b)'
  BY <1>4, <1>5, <1>6, <1>7, DequeuersFrame DEF QueueOK
<1>12. SizeOK(a, b)'
  BY <1>2, <1>3, <1>4, <1>5, <1>6, SizeFrame DEF QueueOK
<1> QED BY <1>7, <1>8, <1>9, <1>10, <1>11, <1>12 DEF QueueOK

\* The node taken out is marked: whoever drops its last reference has to free it.
LEMMA FlagStep ==
  ASSUME TypeOK, NEW f, NEW a, NEW b, QueueOK(f, a, b), NEW t \in Threads, DequeueFlag(t)
  PROVE  TypeOK' /\ QueueOK(f, a, b)'
<1> USE DEF DequeueFlag, At, Goto, nodeVars, localVars, budgetVars
<1>1. /\ pc[t] = "dFlag" /\ pc'[t] = "dDrop"
      /\ \A u \in Threads : u # t => pc'[u] = pc[u]
  BY DEF TypeOK
<1>2. /\ pc[t] \in Removing /\ pc[t] \notin Preparing \cup Finishing \cup Holding \cup Active \cup Freeing \cup {"dUndo"}
      /\ pc'[t] \in Removing /\ pc'[t] \notin Preparing \cup Finishing \cup Holding \cup Active \cup Freeing \cup {"dUndo"}
  BY <1>1 DEF Preparing, Finishing, Holding, Removing, Freeing, Active
<1>3. PICK n \in Nodes : n = old[t].ptr
  BY <1>2 DEF QueueOK, RefsOK
<1>4. DeleteFlag' = [DeleteFlag EXCEPT ![n] = 1]
  BY <1>3
<1>5. TypeOK'
  <2>1. pc' \in [Threads -> Labels]
    BY DEF TypeOK, Labels, Removing
  <2>2. UNCHANGED <<head, tail, Size, TagCnt, Next, Data, RefCnt, FreeNodes, localVars, taken, budgetVars>>
    OBVIOUS
  <2> HIDE DEF DequeueFlag, Goto
  <2>3. DeleteFlag' \in [Nodes -> Int]
    BY <1>4 DEF TypeOK
  <2> QED BY <2>1, <2>2, <2>3 DEF TypeOK
<1>6. ListOK(f, a, b)'
  BY ListFrame DEF QueueOK
<1>7. ProducerOK(f, a, b)'
  BY <1>1, <1>2, ProducerFrame DEF QueueOK
<1>8. RefsOK(f, a, b)'
  <2>1. \A u \in Threads : /\ pc'[u] \in Removing <=> pc[u] \in Removing
                           /\ pc'[u] \in Freeing <=> pc[u] \in Freeing
                           /\ pc'[u] \in Holding <=> pc[u] \in Holding
    BY <1>1, <1>2
  <2>2. \A m : /\ Owned(f, a, b, m)' <=> Owned(f, a, b, m)
               /\ Held(m)' <=> Held(m)
               /\ Doomed(m)' <=> Doomed(m)
    BY <2>1 DEF Owned, Held, Doomed
  <2>3. Flagged(n)' /\ \A m : m # n => (Flagged(m)' <=> Flagged(m))
    BY <1>1, <1>3 DEF Flagged
  <2>4. DeleteFlag'[n] = 1 /\ \A m \in Nodes : m # n => DeleteFlag'[m] = DeleteFlag[m]
    BY <1>4 DEF TypeOK
  <2>5. ASSUME NEW m \in Nodes
        PROVE  /\ RefCnt'[m] = (IF Owned(f, a, b, m)' THEN 1 ELSE 0) + (IF Held(m)' THEN 1 ELSE 0)
               /\ DeleteFlag'[m] = IF Flagged(m)' \/ Doomed(m)' \/ (Held(m)' /\ ~Owned(f, a, b, m)') THEN 1 ELSE 0
               /\ m \in FreeNodes' => ~Owned(f, a, b, m)' /\ ~Held(m)' /\ ~Doomed(m)'
               /\ Doomed(m)' => ~Owned(f, a, b, m)' /\ ~Held(m)'
    BY <2>2, <2>3, <2>4 DEF QueueOK, RefsOK
  <2>6. /\ \A u \in Threads : pc'[u] \in Removing \cup Freeing \cup Holding => old'[u].ptr \in Nodes
        /\ \A u \in Threads : pc'[u] \in Removing \cup Freeing =>
             /\ \A i \in a .. b : f[i] # old'[u].ptr
             /\ \A v \in Threads : node'[v] # old'[u].ptr
             /\ \A v \in Threads \ {u} : pc'[v] \in Removing \cup Freeing => old'[v].ptr # old'[u].ptr
    BY <2>1 DEF QueueOK, RefsOK
  <2> QED BY <2>5, <2>6 DEF RefsOK
<1>9. DequeuersOK(f, a, b)'
  BY <1>1, <1>2, DequeuersFrame DEF QueueOK
<1>10. SizeOK(a, b)'
  BY <1>1, <1>2, SizeFrame DEF QueueOK
<1> QED BY <1>5, <1>6, <1>7, <1>8, <1>9, <1>10 DEF QueueOK

\* A Dequeue drops the reference that the list had.
LEMMA DDropStep ==
  ASSUME TypeOK, NEW f, NEW a, NEW b, QueueOK(f, a, b), NEW t \in Threads, DequeueDrop(t)
  PROVE  TypeOK' /\ QueueOK(f, a, b)'
<1> USE DEF At, Goto, nodeVars, localVars, budgetVars
<1>1. /\ pc[t] = "dDrop" /\ DecrementRef(old[t].ptr)
      /\ UNCHANGED <<head, tail, Size, TagCnt, Next, Data, DeleteFlag, FreeNodes, node, taken, budgetVars>>
      /\ \/ pc' = [pc EXCEPT ![t] = "dFree"] /\ UNCHANGED localVars /\ RefCnt[old[t].ptr] = 1
         \/ Done(t) /\ RefCnt[old[t].ptr] # 1
  BY DEF DequeueDrop, IsLastRef, Done
<1>2. /\ \/ pc'[t] = "dFree" /\ old'[t] = old[t] /\ RefCnt[old[t].ptr] = 1
         \/ pc'[t] = "idle" /\ RefCnt[old[t].ptr] # 1
      /\ \A u \in Threads : u # t => /\ pc'[u] = pc[u] /\ old'[u] = old[u] /\ cur'[u] = cur[u]
                                     /\ nxt'[u] = nxt[u] /\ tag'[u] = tag[u] /\ val'[u] = val[u]
  BY <1>1 DEF TypeOK, Done
<1>3. /\ pc[t] \in Removing /\ pc[t] \notin Preparing \cup Finishing \cup Holding \cup Active \cup Freeing \cup {"dUndo"}
      /\ pc'[t] \notin Preparing \cup Finishing \cup Holding \cup Active \cup Removing \cup {"dUndo"}
      /\ (pc'[t] = "dFree" => pc'[t] \in Freeing) /\ (pc'[t] = "idle" => pc'[t] \notin Freeing)
  BY <1>1, <1>2 DEF Preparing, Finishing, Holding, Removing, Freeing, Active
<1>4. PICK n \in Nodes : n = old[t].ptr
  BY <1>3 DEF QueueOK, RefsOK
<1>5. DecrementRef(n)
  BY <1>1, <1>4 DEF DecrementRef
<1>6. TypeOK'
  <2>1. NoPtr \in [ptr : Locations, tag : Nat] /\ Null \in Locations /\ "idle" \in Labels /\ "dFree" \in Labels
    BY DEF NoPtr, Ptr, Locations, Labels, Freeing
  <2>2. RefCnt' \in [Nodes -> Int]
    BY <1>5 DEF TypeOK, DecrementRef
  <2>3. CASE pc' = [pc EXCEPT ![t] = "dFree"] /\ UNCHANGED localVars
    BY <1>1, <2>1, <2>2, <2>3 DEF TypeOK
  <2>4. CASE Done(t)
    BY <1>1, <2>1, <2>2, <2>4 DEF TypeOK, Done
  <2> QED BY <1>1, <2>3, <2>4
<1>7. ListOK(f, a, b)'
  BY <1>1, ListFrame DEF QueueOK
<1>8. ProducerOK(f, a, b)'
  BY <1>1, <1>2, <1>3, ProducerFrame DEF QueueOK
<1>9. RefsOK(f, a, b)'
  BY <1>1, <1>2, <1>3, <1>4, <1>5, DropRefs DEF QueueOK
<1>10. DequeuersOK(f, a, b)'
  BY <1>1, <1>2, <1>3, DequeuersFrame DEF QueueOK
<1>11. SizeOK(a, b)'
  BY <1>1, <1>2, <1>3, SizeFrame DEF QueueOK
<1> QED BY <1>6, <1>7, <1>8, <1>9, <1>10, <1>11 DEF QueueOK

\* A Dequeue frees the node that it took out.
LEMMA DFreeStep ==
  ASSUME TypeOK, NEW f, NEW a, NEW b, QueueOK(f, a, b), NEW t \in Threads, DequeueFree(t)
  PROVE  TypeOK' /\ QueueOK(f, a, b)'
<1> USE DEF At, Goto, nodeVars, localVars, budgetVars
<1>1. /\ pc[t] = "dFree" /\ ExchangeDeleteFlag(old[t].ptr) /\ Done(t)
      /\ UNCHANGED <<head, tail, Size, TagCnt, node, taken, budgetVars>>
  BY DEF DequeueFree, Done
<1>2. /\ pc'[t] = "idle"
      /\ \A u \in Threads : u # t => /\ pc'[u] = pc[u] /\ old'[u] = old[u] /\ cur'[u] = cur[u]
                                     /\ nxt'[u] = nxt[u] /\ tag'[u] = tag[u] /\ val'[u] = val[u]
  BY <1>1 DEF TypeOK, Done
<1>3. /\ pc[t] \in Freeing /\ pc[t] \notin Preparing \cup Finishing \cup Holding \cup Active \cup Removing \cup {"dUndo"}
      /\ pc'[t] \notin Preparing \cup Finishing \cup Holding \cup Active \cup Removing \cup Freeing \cup {"dUndo"}
  BY <1>1, <1>2 DEF Preparing, Finishing, Holding, Removing, Freeing, Active
<1>4. RefsOK(f, a, b)' /\ FreeNodes' = FreeNodes \cup {old[t].ptr} /\ old[t].ptr \in Nodes
      /\ UNCHANGED <<Next, Data, RefCnt>> /\ DeleteFlag' \in [Nodes -> Int]
  BY <1>1, <1>2, <1>3, FreeRefs DEF QueueOK
<1>5. TypeOK'
  <2>1. NoPtr \in [ptr : Locations, tag : Nat] /\ Null \in Locations /\ "idle" \in Labels
    BY DEF NoPtr, Ptr, Locations, Labels
  <2> QED BY <1>1, <1>4, <2>1 DEF TypeOK, Done
<1>6. ListOK(f, a, b)'
  BY <1>1, <1>4, ListFrame DEF QueueOK
<1>7. ProducerOK(f, a, b)'
  BY <1>1, <1>2, <1>3, <1>4, ProducerFrame DEF QueueOK
<1>8. DequeuersOK(f, a, b)'
  BY <1>1, <1>2, <1>3, <1>4, DequeuersFrame DEF QueueOK
<1>9. SizeOK(a, b)'
  BY <1>1, <1>2, <1>3, SizeFrame DEF QueueOK
<1> QED BY <1>4, <1>5, <1>6, <1>7, <1>8, <1>9 DEF QueueOK

-----------------------------------------------------------------------------
(* Head moves *)

\* A Dequeue that has Head takes the item behind it; whoever read Head before finds it moved.
LEMMA CasStep ==
  ASSUME OneProducer, TypeOK, NEW f, NEW a, NEW b, QueueOK(f, a, b), NEW t \in Threads, DequeueCas(t)
  PROVE  /\ TypeOK' /\ Data' = Data
         /\ \/ QueueOK(f, a, b)' /\ taken' = taken /\ ~Takes(t)
            \/ /\ QueueOK(f, a + 1, b)' /\ a < b /\ Takes(t)
               /\ taken' = [taken EXCEPT ![t] = Data[f[a + 1]]]
<1> USE DEF At, Goto, nodeVars, localVars, budgetVars
<1>1. /\ pc[t] = "dCas" /\ val' = [val EXCEPT ![t] = NoItem]
      /\ UNCHANGED <<tail, Size, TagCnt, nodeVars, node, tag, budgetVars>>
  BY DEF DequeueCas
<1>2. /\ pc[t] \in Active /\ pc[t] \in Reading /\ old[t].ptr \in Nodes
      /\ pc[t] \notin Preparing \cup Finishing \cup Holding \cup Removing \cup Freeing \cup {"dUndo"}
  BY <1>1 DEF Active, Reading, Preparing, Finishing, Holding, Removing, Freeing, QueueOK, DequeuersOK
<1>3. CASE head # old[t]
  <2>1. Again(t) /\ UNCHANGED <<head, taken>>
    BY <1>3 DEF DequeueCas
  <2>2. /\ pc'[t] = "dHead"
        /\ \A u \in Threads : u # t => pc'[u] = pc[u] /\ old'[u] = old[u] /\ cur'[u] = cur[u]
                                       /\ nxt'[u] = nxt[u] /\ val'[u] = val[u]
    BY <1>1, <2>1 DEF TypeOK, Again
  <2>3. /\ pc'[t] \in Active /\ pc'[t] \notin Reading
        /\ pc'[t] \notin Preparing \cup Finishing \cup Holding \cup Removing \cup Freeing \cup {"dUndo"}
    BY <2>2 DEF Active, Reading, Preparing, Finishing, Holding, Removing, Freeing
  <2>4. TypeOK'
    <3>1. NoPtr \in [ptr : Locations, tag : Nat] /\ Null \in Locations /\ "dHead" \in Labels
      BY DEF NoPtr, Ptr, Locations, Labels, Active
    <3> QED BY <1>1, <2>1, <3>1 DEF TypeOK, Again
  <2>5. ListOK(f, a, b)' /\ ProducerOK(f, a, b)' /\ RefsOK(f, a, b)'
    BY <1>1, <1>2, <2>1, <2>2, <2>3, DequeueMoves
  <2>6. DequeuersOK(f, a, b)'
    BY <1>1, <1>2, <2>1, <2>2, <2>3, DequeuerMoves DEF QueueOK
  <2>7. SizeOK(a, b)'
    BY <1>1, <1>2, <2>2, <2>3, SizeFrame DEF QueueOK
  <2> QED BY <1>1, <2>1, <2>2, <2>4, <2>5, <2>6, <2>7 DEF QueueOK, Takes
<1>4. CASE head = old[t]
  <2>1. /\ head' = Ptr(nxt[t], tag[t]) /\ taken' = [taken EXCEPT ![t] = val[t]]
        /\ pc' = [pc EXCEPT ![t] = "dFlag"] /\ UNCHANGED <<old, cur, nxt>>
    BY <1>4 DEF DequeueCas
  <2>2. nxt[t] = f[a + 1] /\ val[t] = Data[f[a + 1]]
    BY <1>1, <1>2, <1>4 DEF QueueOK, DequeuersOK
  <2>3. /\ a < b /\ a + 1 \in a + 1 .. b /\ a + 1 \in a .. b
        /\ \A u \in Threads : pc[u] = "eSwing" => a + 1 < b
    BY <1>2, TailBehindHead
  <2>4. /\ a \in Nat /\ b \in Nat /\ a \in a .. b /\ f[a] = head.ptr
        /\ \A i \in a .. b : f[i] \in Nodes
        /\ \A i \in a .. b - 1 : Next[f[i]] = f[i + 1]
        /\ Next[f[b]] = Null
        /\ \A i, j \in a .. b : f[i] = f[j] => i = j
        /\ \A i \in a + 1 .. b : Data[f[i]] \in AllItems
    BY DEF QueueOK, ListOK
  <2>5. /\ a + 1 \in Nat /\ a + 1 <= b /\ \A i \in a + 1 .. b : i \in a .. b /\ i # a
        /\ \A i \in a + 1 .. b - 1 : i \in a .. b - 1
        /\ \A i \in (a + 1) + 1 .. b : i \in a + 1 .. b
        /\ \A i \in a .. b : i = a \/ i \in a + 1 .. b
    BY <2>3, <2>4
  <2>6. /\ pc'[t] = "dFlag"
        /\ \A u \in Threads : u # t => pc'[u] = pc[u] /\ val'[u] = val[u]
    BY <1>1, <2>1 DEF TypeOK
  <2>7. /\ pc'[t] \in Removing
        /\ pc'[t] \notin Preparing \cup Finishing \cup Holding \cup Active \cup Freeing \cup {"dUndo", "dDrop"}
    BY <2>6 DEF Active, Preparing, Finishing, Holding, Removing, Freeing
  <2>8. head' \in [ptr : Nodes, tag : Nat] /\ head'.ptr = f[a + 1] /\ head'.tag = tag[t]
    BY <2>1, <2>2, <2>3, <2>4 DEF Ptr, TypeOK
  <2>9. TypeOK'
    <3>1. "dFlag" \in Labels
      BY DEF Labels, Removing
    <3> QED BY <1>1, <2>1, <2>8, <3>1 DEF TypeOK
  <2>10. ListOK(f, a + 1, b)'
    BY <1>1, <2>4, <2>5, <2>8 DEF ListOK
  <2>11. ProducerOK(f, a + 1, b)'
    <3>1. ASSUME NEW u \in Threads
          PROVE  /\ pc'[u] \in Preparing \cup Finishing => Enqueues[u] > 0
                 /\ pc'[u] \in Preparing <=> node'[u] # Null
                 /\ node'[u] # Null => /\ Next'[node'[u]] = Null /\ Data'[node'[u]] \in AllItems
                                       /\ \A i \in a + 1 .. b : f[i] # node'[u]
                 /\ pc'[u] \in Holding \cup {"eHold"} /\ pc'[u] # "eDrop" => old'[u] = tail'
                 /\ pc'[u] = "eNext" => nxt'[u] = tail'.ptr
                 /\ pc'[u] = "eCheck" => nxt'[u] = Null
                 /\ pc'[u] = "eSwing" => nxt'[u] = f[b] /\ a + 1 < b /\ tail'.ptr = f[b - 1]
                 /\ sent'[u] <= Enqueues[u]
      <4>1. CASE u = t
        <5>1. node[t] = Null /\ sent[t] <= Enqueues[t]
          BY <1>2 DEF QueueOK, ProducerOK
        <5> QED BY <1>1, <2>6, <2>7, <4>1, <5>1
      <4>2. CASE u # t
        BY <1>1, <2>1, <2>3, <2>5, <2>6, <4>2 DEF QueueOK, ProducerOK
      <4> QED BY <4>1, <4>2
    <3>2. Standing({"eSwing"})' = {} => tail'.ptr = f[b]
      <4>1. Standing({"eSwing"})' = Standing({"eSwing"})
        BY <1>1, <2>6 DEF Standing
      <4> QED BY <1>1, <4>1 DEF QueueOK, ProducerOK
    <3> QED BY <3>1, <3>2 DEF ProducerOK
  <2>12. RefsOK(f, a + 1, b)'
    <3>1. \A m : (\E i \in a .. b : f[i] = m) <=> (\E i \in a + 1 .. b : f[i] = m) \/ m = f[a]
      BY <2>4, <2>5
    <3>2. old[t].ptr = f[a]
      BY <1>4, <2>4
    <3>3. \A m : (\E u \in Threads : pc'[u] \in Removing /\ old'[u].ptr = m)
                 <=> (\E u \in Threads : pc[u] \in Removing /\ old[u].ptr = m) \/ m = f[a]
      BY <1>2, <2>1, <2>6, <2>7, <3>2
    <3>4. \A m : Owned(f, a + 1, b, m)' <=> Owned(f, a, b, m)
      BY <1>1, <3>1, <3>3 DEF Owned
    <3>5. \A u \in Threads : /\ pc'[u] \in Holding <=> pc[u] \in Holding
                             /\ pc'[u] \in Freeing <=> pc[u] \in Freeing
                             /\ pc'[u] = "dDrop" <=> pc[u] = "dDrop"
                             /\ pc'[u] \in Removing => u = t \/ pc[u] \in Removing
      BY <1>1, <1>2, <2>6, <2>7
    <3>6. \A m : /\ Held(m)' <=> Held(m)
                 /\ Doomed(m)' <=> Doomed(m)
                 /\ Flagged(m)' <=> Flagged(m)
      BY <2>1, <3>5 DEF Held, Doomed, Flagged
    <3>7. \A m \in Nodes :
            /\ RefCnt'[m] = (IF Owned(f, a + 1, b, m)' THEN 1 ELSE 0) + (IF Held(m)' THEN 1 ELSE 0)
            /\ DeleteFlag'[m] = IF Flagged(m)' \/ Doomed(m)' \/ (Held(m)' /\ ~Owned(f, a + 1, b, m)') THEN 1 ELSE 0
            /\ m \in FreeNodes' => ~Owned(f, a + 1, b, m)' /\ ~Held(m)' /\ ~Doomed(m)'
            /\ Doomed(m)' => ~Owned(f, a + 1, b, m)' /\ ~Held(m)'
      BY <1>1, <3>4, <3>6 DEF QueueOK, RefsOK
    <3>8. \A u \in Threads : pc'[u] \in Removing \cup Freeing \cup Holding => old'[u].ptr \in Nodes
      BY <1>2, <2>1, <3>5 DEF QueueOK, RefsOK
    <3>9. ASSUME NEW u \in Threads, pc'[u] \in Removing \cup Freeing
          PROVE  /\ \A i \in a + 1 .. b : f[i] # old'[u].ptr
                 /\ \A v \in Threads : node'[v] # old'[u].ptr
                 /\ \A v \in Threads \ {u} : pc'[v] \in Removing \cup Freeing => old'[v].ptr # old'[u].ptr
      <4>1. \A v \in Threads : pc[v] \in Removing \cup Freeing =>
              /\ \A i \in a .. b : f[i] # old[v].ptr
              /\ \A w \in Threads : node[w] # old[v].ptr
              /\ \A w \in Threads \ {v} : pc[w] \in Removing \cup Freeing => old[w].ptr # old[v].ptr
        BY DEF QueueOK, RefsOK
      <4>2. \A v \in Threads : v # t /\ pc'[v] \in Removing \cup Freeing => pc[v] \in Removing \cup Freeing
        BY <2>6
      <4>3. CASE u = t
        <5>1. \A i \in a + 1 .. b : f[i] # f[a]
          BY <2>4, <2>5
        <5>2. \A v \in Threads : node[v] # f[a]
          <6>1. \A v \in Threads : node[v] # Null => \A i \in a .. b : f[i] # node[v]
            BY DEF QueueOK, ProducerOK
          <6>2. f[a] \in Nodes /\ f[a] # Null
            BY <2>4, NodeAssumption
          <6> QED BY <2>4, <6>1, <6>2
        <5>3. \A v \in Threads \ {t} : pc'[v] \in Removing \cup Freeing => old[v].ptr # f[a]
          BY <2>4, <4>1, <4>2
        <5> QED BY <1>1, <2>1, <3>2, <4>3, <5>1, <5>2, <5>3
      <4>4. CASE u # t
        <5>1. pc[u] \in Removing \cup Freeing
          BY <3>9, <4>2, <4>4
        <5>2. \A i \in a + 1 .. b : f[i] # old[u].ptr
          BY <2>5, <4>1, <5>1
        <5>3. old[u].ptr # f[a]
          BY <2>4, <4>1, <5>1
        <5> QED BY <1>1, <2>1, <3>2, <4>1, <4>2, <5>1, <5>2, <5>3
      <4> QED BY <4>3, <4>4
    <3> QED BY <3>7, <3>8, <3>9 DEF RefsOK
  <2>13. DequeuersOK(f, a + 1, b)'
    <3>1. ASSUME NEW u \in Threads, pc'[u] \in Active
          PROVE  /\ tag'[u] # head'.tag
                 /\ \A v \in Threads : pc'[v] \in Active /\ v # u => tag'[u] # tag'[v]
                 /\ \A v \in Threads : pc'[v] \in Reading => tag'[u] # old'[v].tag
                 /\ pc'[u] \in Reading => old'[u].ptr \in Nodes
                 /\ pc'[u] \in Reading => old'[u] # head'
      <4>1. u # t /\ pc[u] = pc'[u] /\ pc[u] \in Active
        BY <2>6, <2>7, <3>1
      <4>2. \A v \in Threads : (pc'[v] \in Active => pc[v] \in Active) /\ (pc'[v] \in Reading => pc[v] \in Reading)
        BY <1>2, <2>6
      <4>3. /\ \A v \in Threads : pc[v] \in Active /\ v # u => tag[u] # tag[v]
            /\ \A v \in Threads : pc[v] \in Reading => tag[u] # old[v].tag /\ tag[t] # old[v].tag
            /\ pc[u] \in Reading => old[u].ptr \in Nodes
        BY <1>2, <4>1 DEF QueueOK, DequeuersOK
      <4> QED BY <1>1, <1>2, <2>1, <2>8, <4>1, <4>2, <4>3
    <3>2. \A u \in Threads : pc'[u] \in {"dNext", "dCheck", "dData", "dCas"} => pc'[u] \in Reading
      BY DEF Reading, Active
    <3> QED BY <3>1, <3>2 DEF DequeuersOK
  <2>14. SizeOK(a + 1, b)'
    <3>1. /\ Cardinality(Reserved)' = Cardinality(Reserved) - 1
          /\ Cardinality(Uncounted)' = Cardinality(Uncounted)
          /\ Cardinality(Undoing)' = Cardinality(Undoing)
          /\ Size' = Size
      <4>1. /\ pc[t] \in Active \cup {"dUndo"} /\ pc'[t] \notin Active \cup {"dUndo"} /\ pc[t] \notin Finishing
            /\ pc[t] # "dUndo" /\ pc'[t] # "dUndo" /\ pc'[t] \notin Finishing
        BY <1>2, <2>7
      <4>2. \A u \in Threads : u # t => pc'[u] = pc[u] /\ node'[u] = node[u]
        BY <1>1, <2>6
      <4> QED BY <1>1, <4>1, <4>2, Counts, FinitelyMany
    <3>2. /\ Size + Cardinality(Reserved) + Cardinality(Uncounted) = b - a
          /\ Size + Cardinality(Undoing) >= 0 /\ Size \in Int
      BY DEF QueueOK, SizeOK, Undoing, TypeOK
    <3>3. Size' + Cardinality(Reserved)' + Cardinality(Uncounted)' = b - (a + 1) /\ Size' + Cardinality(Undoing)' >= 0
      BY <2>4, <3>1, <3>2, FinitelyMany
    <3> QED BY <3>3 DEF SizeOK, Undoing
  <2> QED BY <1>1, <2>1, <2>2, <2>3, <2>6, <2>9, <2>10, <2>11, <2>12, <2>13, <2>14 DEF QueueOK, Takes
<1> QED BY <1>3, <1>4

\* When nobody is at work, all items are dropped and the last node is the new dummy.
LEMMA ClearStep ==
  ASSUME OneProducer, TypeOK, NEW f, NEW a, NEW b, QueueOK(f, a, b), NEW t \in Threads, Clear(t)
  PROVE  TypeOK' /\ QueueOK(f, b, b)' /\ Data' = Data /\ taken' = taken
<1> USE DEF At, nodeVars, localVars, budgetVars
<1>1. /\ \A u \in Threads : pc[u] = "idle"
      /\ Size' = 0
      /\ UNCHANGED <<tail, TagCnt, Next, Data, DeleteFlag, pc, localVars, taken, sent>>
  BY DEF Clear
<1>2. \A u \in Threads : /\ pc[u] \notin Preparing \cup Finishing \cup Holding \cup Active \cup Removing \cup Freeing
                         /\ pc[u] \notin {"eSwing", "dUndo", "dDrop"} /\ node[u] = Null /\ sent[u] <= Enqueues[u]
  <2>1. \A u \in Threads : pc[u] \notin Preparing \cup Finishing \cup Holding \cup Active \cup Removing \cup Freeing
    BY <1>1 DEF Preparing, Finishing, Holding, Active, Removing, Freeing
  <2> QED BY <1>1, <2>1 DEF QueueOK, ProducerOK
<1>3. /\ a \in Nat /\ b \in Nat /\ a <= b /\ a \in a .. b /\ b \in a .. b /\ f[a] = head.ptr
      /\ \A i \in a .. b : f[i] \in Nodes
      /\ \A i \in a .. b - 1 : Next[f[i]] = f[i + 1]
      /\ Next[f[b]] = Null
      /\ \A i, j \in a .. b : f[i] = f[j] => i = j
      /\ \A i \in a + 1 .. b : Data[f[i]] \in AllItems
  BY DEF QueueOK, ListOK
<1>4. Size = b - a
  <2>1. Reserved = {} /\ Uncounted = {}
    BY <1>1 DEF Reserved, Uncounted, Standing
  <2>2. Cardinality({}) = 0
    BY FS_EmptySet
  <2>3. Cardinality(Reserved) = 0 /\ Cardinality(Uncounted) = 0
    BY <2>1, <2>2, Zenon
  <2>4. Size + Cardinality(Reserved) + Cardinality(Uncounted) = b - a /\ Size \in Int
    BY DEF QueueOK, SizeOK, TypeOK
  <2> QED BY <1>3, <2>3, <2>4
<1>5. PICK dropped : dropped = {f[i] : i \in a .. b - 1}
  OBVIOUS
<1>6. /\ head' = IF Size = 0 THEN head ELSE Ptr(f[b], 0)
      /\ RefCnt' = [n \in Nodes |-> IF n \in dropped THEN 0 ELSE RefCnt[n]]
      /\ FreeNodes' = FreeNodes \cup dropped
  <2>1. /\ \A k \in 0 .. Cardinality(Nodes) : Chain[k] = IF k <= b - a THEN f[a + k] ELSE Null
        /\ Cardinality(Nodes) \in Nat /\ b - a \in Nat /\ b - a < Cardinality(Nodes)
    BY ChainIsList, ListLength DEF QueueOK
  <2>2. Chain[Size] = f[b]
    BY <1>3, <1>4, <2>1
  <2>3. PICK d : d = {Chain[k] : k \in 0 .. Size - 1}
    OBVIOUS
  <2>4. d = dropped
    <3>1. ASSUME NEW k \in 0 .. Size - 1 PROVE Chain[k] \in dropped
      <4>1. a + k \in a .. b - 1 /\ Chain[k] = f[a + k]
        BY <1>3, <1>4, <2>1
      <4> QED BY <1>5, <4>1
    <3>2. ASSUME NEW i \in a .. b - 1 PROVE f[i] \in d
      <4>1. i - a \in 0 .. Size - 1 /\ i - a \in 0 .. Cardinality(Nodes) /\ i - a <= b - a /\ a + (i - a) = i
        BY <1>3, <1>4, <2>1
      <4>2. Chain[i - a] = f[i]
        BY <2>1, <4>1
      <4> QED BY <2>3, <4>1, <4>2
    <3> QED BY <1>5, <2>3, <3>1, <3>2
  <2>5. /\ head' = IF Size = 0 THEN head ELSE Ptr(Chain[Size], 0)
        /\ RefCnt' = [n \in Nodes |-> IF n \in {Chain[k] : k \in 0 .. Size - 1} THEN 0 ELSE RefCnt[n]]
        /\ FreeNodes' = FreeNodes \cup {Chain[k] : k \in 0 .. Size - 1}
    BY DEF Clear
  <2>6. FreeNodes' = FreeNodes \cup dropped
    BY <2>3, <2>4, <2>5, Zenon
  <2>7. RefCnt' = [n \in Nodes |-> IF n \in dropped THEN 0 ELSE RefCnt[n]]
    BY <2>3, <2>4, <2>5
  <2> QED BY <2>2, <2>5, <2>6, <2>7
<1>7. \A n \in dropped : n \in Nodes /\ n # f[b] /\ (\E i \in a .. b : f[i] = n)
  <2>1. ASSUME NEW i \in a .. b - 1 PROVE i \in a .. b /\ f[i] \in Nodes /\ f[i] # f[b]
    BY <1>3
  <2> QED BY <1>5, <2>1
<1>8. \A i \in a .. b : f[i] \in dropped \/ f[i] = f[b]
  <2>1. \A i \in a .. b : i = b \/ i \in a .. b - 1
    BY <1>3
  <2> QED BY <1>5, <2>1
<1>9. head' \in [ptr : Nodes, tag : Nat] /\ head'.ptr = f[b]
  <2>1. Size = 0 => head.ptr = f[b]
    BY <1>3, <1>4
  <2> QED BY <1>3, <1>6, <2>1 DEF Ptr, TypeOK
<1>10. TypeOK'
  <2>1. RefCnt' \in [Nodes -> Int] /\ FreeNodes' \subseteq Nodes
    BY <1>6, <1>7 DEF TypeOK
  <2>2. DOMAIN got' = Threads
    BY DEF Clear, TypeOK
  <2> QED BY <1>1, <1>9, <2>1, <2>2 DEF TypeOK
<1>11. ListOK(f, b, b)'
  <2>1. b .. b = {b} /\ b .. b - 1 = {} /\ b + 1 .. b = {}
    BY <1>3
  <2> QED BY <1>1, <1>3, <1>9, <2>1 DEF ListOK
<1>12. ProducerOK(f, b, b)'
  <2>1. tail.ptr = f[b]
    BY <1>2 DEF QueueOK, ProducerOK, Standing
  <2>2. \A u \in Threads : pc[u] \notin {"eNext", "eCheck", "eHold"}
    BY <1>1
  <2> QED BY <1>1, <1>2, <2>1, <2>2 DEF ProducerOK
<1>13. RefsOK(f, b, b)'
  <2>1. \A m \in Nodes : ~Held(m) /\ ~Doomed(m) /\ ~Flagged(m) /\ ~Held(m)' /\ ~Doomed(m)' /\ ~Flagged(m)'
    BY <1>1, <1>2 DEF Held, Doomed, Flagged
  <2>2. \A m \in Nodes : Owned(f, a, b, m) <=> \E i \in a .. b : f[i] = m
    BY <1>2, NodeAssumption DEF Owned
  <2>3. \A m \in Nodes : Owned(f, b, b, m)' <=> m = f[b]
    <3>1. b .. b = {b}
      BY <1>3
    <3> QED BY <1>1, <1>2, <3>1, NodeAssumption DEF Owned
  <2>4. ASSUME NEW m \in Nodes
        PROVE  /\ RefCnt'[m] = (IF Owned(f, b, b, m)' THEN 1 ELSE 0) + (IF Held(m)' THEN 1 ELSE 0)
               /\ DeleteFlag'[m] = IF Flagged(m)' \/ Doomed(m)' \/ (Held(m)' /\ ~Owned(f, b, b, m)') THEN 1 ELSE 0
               /\ m \in FreeNodes' => ~Owned(f, b, b, m)' /\ ~Held(m)' /\ ~Doomed(m)'
               /\ Doomed(m)' => ~Owned(f, b, b, m)' /\ ~Held(m)'
    <3>1. /\ RefCnt[m] = (IF Owned(f, a, b, m) THEN 1 ELSE 0) + (IF Held(m) THEN 1 ELSE 0)
          /\ DeleteFlag[m] = IF Flagged(m) \/ Doomed(m) \/ (Held(m) /\ ~Owned(f, a, b, m)) THEN 1 ELSE 0
          /\ m \in FreeNodes => ~Owned(f, a, b, m)
      BY DEF QueueOK, RefsOK
    <3>2. DeleteFlag'[m] = 0 /\ RefCnt'[m] = IF m \in dropped THEN 0 ELSE RefCnt[m]
      BY <1>1, <1>6, <2>1, <3>1
    <3>3. CASE m = f[b]
      <4>1. m \notin dropped /\ Owned(f, a, b, m)
        BY <1>3, <1>7, <2>2, <3>3
      <4> QED BY <1>6, <2>1, <2>3, <3>1, <3>2, <3>3, <4>1
    <3>4. CASE m # f[b]
      <4>1. Owned(f, a, b, m) <=> m \in dropped
        BY <1>7, <1>8, <2>2, <3>4
      <4> QED BY <1>6, <2>1, <2>3, <3>1, <3>2, <3>4, <4>1
    <3> QED BY <3>3, <3>4
  <2> QED BY <1>1, <1>2, <2>4 DEF RefsOK
<1>14. DequeuersOK(f, b, b)'
  BY <1>1, <1>2 DEF DequeuersOK
<1>15. SizeOK(b, b)'
  <2>1. Reserved' = {} /\ Uncounted' = {} /\ Standing({"dUndo"})' = {}
    BY <1>1 DEF Reserved, Uncounted, Standing
  <2>2. Cardinality({}) = 0
    BY FS_EmptySet
  <2>3. Cardinality(Reserved') = 0 /\ Cardinality(Uncounted') = 0 /\ Cardinality(Standing({"dUndo"})') = 0
    BY <2>1, <2>2, Zenon
  <2>4. Size' + Cardinality(Reserved)' + Cardinality(Uncounted)' = b - b
    BY <1>1, <1>3, <2>3
  <2>5. Size' + Cardinality(Standing({"dUndo"}))' >= 0
    BY <1>1, <2>3
  <2> QED BY <2>4, <2>5 DEF SizeOK
<1> QED BY <1>1, <1>10, <1>11, <1>12, <1>13, <1>14, <1>15 DEF QueueOK

-----------------------------------------------------------------------------
(* The invariant *)

\* The queue is a list that its reference counts, its size and what every thread has read agree with.
Inv == TypeOK /\ \E f, a, b : QueueOK(f, a, b)

\* At first the list is the dummy.
LEMMA InitQueue ==
  ASSUME Init
  PROVE  Inv
<1>1. Dummy \in Nodes /\ NoPtr \in [ptr : Locations, tag : Nat] /\ Null \in Locations /\ "idle" \in Labels
      /\ Ptr(Dummy, 0) \in [ptr : Nodes, tag : Nat]
  BY NodeAssumption DEF Dummy, NoPtr, Ptr, Locations, Labels
<1> HIDE DEF Dummy
<1>2. TypeOK
  BY <1>1 DEF Init, TypeOK
<1>3. PICK f : f = [i \in Nat |-> Dummy]
  OBVIOUS
<1>4. 0 .. 0 = {0} /\ 0 .. 0 - 1 = {} /\ 0 + 1 .. 0 = {} /\ f[0] = Dummy
  BY <1>3
<1>5. ListOK(f, 0, 0)
  BY <1>1, <1>4 DEF Init, ListOK, Ptr
<1>6. \A u \in Threads : /\ pc[u] = "idle" /\ node[u] = Null /\ sent[u] = 0
                         /\ pc[u] \notin Preparing \cup Finishing \cup Holding \cup Active \cup Removing \cup Freeing
                         /\ pc[u] \notin {"eHold", "eNext", "eCheck", "eSwing", "dUndo", "dDrop"}
  BY DEF Init, Preparing, Finishing, Holding, Active, Removing, Freeing
<1>7. ProducerOK(f, 0, 0)
  <2>1. \A u \in Threads : 0 <= Enqueues[u]
    BY BudgetAssumption
  <2>2. tail.ptr = f[0]
    BY <1>4 DEF Init, Ptr
  <2> QED BY <1>6, <2>1, <2>2 DEF ProducerOK
<1>8. RefsOK(f, 0, 0)
  <2>1. \A m \in Nodes : ~Held(m) /\ ~Doomed(m) /\ ~Flagged(m)
    BY <1>6 DEF Held, Doomed, Flagged
  <2>2. \A m \in Nodes : Owned(f, 0, 0, m) <=> m = Dummy
    BY <1>4, <1>6, NodeAssumption DEF Owned
  <2>3. \A m \in Nodes : DeleteFlag[m] = 0 /\ RefCnt[m] = (IF m = Dummy THEN 1 ELSE 0) /\ (m \in FreeNodes => m # Dummy)
    BY DEF Init
  <2> QED BY <1>6, <2>1, <2>2, <2>3 DEF RefsOK
<1>9. DequeuersOK(f, 0, 0)
  BY <1>6 DEF DequeuersOK
<1>10. SizeOK(0, 0)
  <2>1. Reserved = {} /\ Uncounted = {} /\ Standing({"dUndo"}) = {}
    BY <1>6 DEF Reserved, Uncounted, Standing
  <2>2. Cardinality({}) = 0
    BY FS_EmptySet
  <2>3. Cardinality(Reserved) = 0 /\ Cardinality(Uncounted) = 0 /\ Cardinality(Standing({"dUndo"})) = 0
    BY <2>1, <2>2, Zenon
  <2>4. Size = 0
    BY DEF Init
  <2> QED BY <2>3, <2>4 DEF SizeOK
<1> QED BY <1>2, <1>5, <1>7, <1>8, <1>9, <1>10 DEF Inv, QueueOK

\* What a step does to the list: nothing, link one item at its end, take the first, or drop all
\* if it is Clear.
LEMMA QueueStep ==
  ASSUME OneProducer, TypeOK, NEW f, NEW a, NEW b, QueueOK(f, a, b), FreshTag,
         NEW t \in Threads, Enqueue(t) \/ Dequeue(t) \/ Clear(t)
  PROVE  /\ TypeOK'
         /\ \/ /\ QueueOK(f, a, b)' /\ taken' = taken /\ ~Links(t) /\ ~Takes(t)
               /\ \A i \in a .. b : Data'[f[i]] = Data[f[i]]
            \/ \E g : /\ QueueOK(g, a, b + 1)' /\ taken' = taken /\ Data' = Data /\ Links(t)
                      /\ (\A i \in a .. b : g[i] = f[i]) /\ Data[g[b + 1]] \in AllItems
            \/ /\ QueueOK(f, a + 1, b)' /\ a < b /\ Data' = Data /\ Takes(t)
               /\ taken' = [taken EXCEPT ![t] = Data[f[a + 1]]]
            \/ QueueOK(f, b, b)' /\ taken' = taken /\ Data' = Data /\ Clear(t)
<1> USE DEF nodeVars, localVars, budgetVars
<1>1. CASE EnqueueAlloc(t)
  <2>1. pc[t] = "idle"
    BY <1>1 DEF EnqueueAlloc, At
  <2>2. ~Links(t) /\ ~Takes(t)
    BY <2>1 DEF Links, Takes
  <2> QED BY <1>1, <2>2, AllocStep
<1>2. CASE EnqueueReadTail(t)
  BY <1>2, EReadTailStep DEF EnqueueReadTail, At, Links, Takes
<1>3. CASE EnqueueHold(t)
  BY <1>3, HoldStep DEF EnqueueHold, At, Links, Takes
<1>4. CASE EnqueueReadAgain(t)
  BY <1>4, EReadAgainStep DEF EnqueueReadAgain, At, Links, Takes
<1>5. CASE EnqueueReadNext(t)
  BY <1>5, EReadNextStep DEF EnqueueReadNext, At, Links, Takes
<1>6. CASE EnqueueCheck(t)
  BY <1>6, ECheckStep DEF EnqueueCheck, At, Links, Takes
<1>7. CASE EnqueueLink(t)
  <2>1. PICK g : /\ QueueOK(g, a, b + 1)' /\ (\A i \in a .. b : g[i] = f[i]) /\ g[b + 1] = node[t]
    BY <1>7, LinkStep
  <2>2. TypeOK' /\ Data' = Data /\ taken' = taken /\ Links(t) /\ Data[g[b + 1]] \in AllItems
    BY <1>7, <2>1, LinkStep
  <2> QED BY <2>1, <2>2
<1>8. CASE EnqueueSwing(t)
  BY <1>8, SwingStep DEF EnqueueSwing, At, Links, Takes
<1>9. CASE EnqueueHelp(t)
  BY <1>9 DEF EnqueueHelp, At, TypeOK, Labels, Preparing, Finishing, Active, Removing, Freeing
<1>10. CASE EnqueueDrop(t)
  BY <1>10, EDropStep DEF EnqueueDrop, At, Links, Takes
<1>11. CASE EnqueueFree(t)
  BY <1>11, EFreeStep DEF EnqueueFree, ExchangeDeleteFlag, At, Links, Takes
<1>12. CASE EnqueueSize(t)
  BY <1>12, SizeStep DEF EnqueueSize, At, Links, Takes
<1>13. CASE DequeueReserve(t)
  BY <1>13, ReserveStep DEF DequeueReserve, At, Links, Takes
<1>14. CASE DequeueUndo(t)
  BY <1>14, UndoStep DEF DequeueUndo, At, Links, Takes
<1>15. CASE DequeueReadHead(t)
  BY <1>15, ReadHeadStep DEF DequeueReadHead, At, Links, Takes
<1>16. CASE DequeueReadTail(t)
  BY <1>16, ReadTailStep DEF DequeueReadTail, At, Links, Takes
<1>17. CASE DequeueReadNext(t)
  BY <1>17, ReadNextStep DEF DequeueReadNext, At, Links, Takes
<1>18. CASE DequeueCheck(t)
  BY <1>18, CheckStep DEF DequeueCheck, At, Links, Takes
<1>19. CASE DequeueData(t)
  BY <1>19, DataStep DEF DequeueData, At, Links, Takes
<1>20. CASE DequeueCas(t)
  BY <1>20, CasStep DEF DequeueCas, At, Links
<1>21. CASE DequeueFlag(t)
  BY <1>21, FlagStep DEF DequeueFlag, At, Links, Takes
<1>22. CASE DequeueDrop(t)
  BY <1>22, DDropStep DEF DequeueDrop, At, Links, Takes
<1>23. CASE DequeueFree(t)
  BY <1>23, DFreeStep DEF DequeueFree, ExchangeDeleteFlag, At, Links, Takes
<1>24. CASE Clear(t)
  BY <1>24, ClearStep
<1> QED
  BY <1>1, <1>2, <1>3, <1>4, <1>5, <1>6, <1>7, <1>8, <1>9, <1>10, <1>11, <1>12, <1>13, <1>14, <1>15,
     <1>16, <1>17, <1>18, <1>19, <1>20, <1>21, <1>22, <1>23, <1>24 DEF Enqueue, Dequeue

\* No step, and no step elsewhere, breaks the invariant.
LEMMA NextQueue ==
  ASSUME OneProducer, Inv, [QueueNext]_vars, [FreshTag]_vars
  PROVE  Inv'
<1>1. PICK f, a, b : QueueOK(f, a, b)
  BY DEF Inv
<1>2. CASE UNCHANGED vars
  <2>1. TypeOK'
    BY <1>2 DEF Inv, TypeOK, vars, nodeVars, localVars, budgetVars
  <2>2. ListOK(f, a, b)'
    BY <1>1, <1>2, ListFrame DEF QueueOK, vars, nodeVars
  <2>3. ProducerOK(f, a, b)'
    BY <1>1, <1>2, ProducerFrame DEF QueueOK, vars, nodeVars, localVars, budgetVars
  <2>4. RefsOK(f, a, b)'
    BY <1>1, <1>2, RefsFrame DEF QueueOK, vars, nodeVars, localVars, budgetVars
  <2>5. DequeuersOK(f, a, b)'
    BY <1>1, <1>2, DequeuersFrame DEF QueueOK, vars, nodeVars, localVars, budgetVars
  <2>6. SizeOK(a, b)'
    <3>1. Size' = Size /\ Reserved' = Reserved /\ Uncounted' = Uncounted /\ Standing({"dUndo"})' = Standing({"dUndo"})
      BY <1>2 DEF Reserved, Uncounted, Standing, vars, localVars
    <3> QED BY <1>1, <3>1 DEF QueueOK, SizeOK
  <2> QED BY <2>1, <2>2, <2>3, <2>4, <2>5, <2>6 DEF Inv, QueueOK
<1>3. CASE ~UNCHANGED vars
  <2>1. FreshTag /\ \E t \in Threads : Enqueue(t) \/ Dequeue(t) \/ Clear(t)
    BY <1>3 DEF QueueNext
  <2> QED BY <1>1, <2>1, QueueStep DEF Inv
<1> QED BY <1>2, <1>3

\* Of a queue with one producer the invariant always holds.
THEOREM QueueInvariant ==
  ASSUME OneProducer
  PROVE  Spec /\ [][FreshTag]_vars => []Inv
<1>1. Init => Inv
  BY InitQueue
<1>2. Inv /\ [QueueNext]_vars /\ [FreshTag]_vars => Inv'
  BY NextQueue
<1> QED BY <1>1, <1>2, PTL DEF Spec

\* Size is never wrong by more than the operations under way account for (LockFreeQueue.h:57, 91, 140).
THEOREM SizeIsExact ==
  ASSUME OneProducer
  PROVE  Spec /\ [][FreshTag]_vars => []SizeExact
<1>1. ASSUME Inv PROVE SizeExact
  <2>1. PICK f, a, b : ListOK(f, a, b) /\ SizeOK(a, b)
    BY <1>1 DEF Inv, QueueOK
  <2>2. Cardinality(Linked) = b - a
    BY <2>1, ChainIsList
  <2>3. Size + Cardinality(Reserved) + Cardinality(Uncounted) = b - a
    BY <2>1 DEF SizeOK
  <2> QED BY <2>2, <2>3, Zenon DEF SizeExact
<1> QED BY <1>1, QueueInvariant, PTL

\* Tail can be reached from Head at all times.
THEOREM TailIsInList ==
  ASSUME OneProducer
  PROVE  Spec /\ [][FreshTag]_vars => []TailInList
<1>1. ASSUME Inv PROVE TailInList
  <2>1. PICK f, a, b : QueueOK(f, a, b)
    BY <1>1 DEF Inv
  <2>2. /\ ListOK(f, a, b) /\ ProducerOK(f, a, b) /\ a \in Nat /\ b \in Nat /\ a <= b
        /\ \A i \in a .. b : f[i] # Null
    BY <2>1, NodeAssumption DEF QueueOK, ListOK
  <2>3. /\ \A k \in 0 .. Cardinality(Nodes) : Chain[k] = IF k <= b - a THEN f[a + k] ELSE Null
        /\ Cardinality(Nodes) \in Nat /\ b - a < Cardinality(Nodes)
    BY <2>2, ChainIsList, ListLength
  <2>4. PICK i \in a .. b : tail.ptr = f[i]
    <3>1. tail.ptr = f[b] \/ (a < b /\ tail.ptr = f[b - 1])
      BY <2>2, WhereTailIs
    <3>2. b \in a .. b /\ (a < b => b - 1 \in a .. b)
      BY <2>2
    <3> QED BY <3>1, <3>2
  <2>5. i - a \in 0 .. Cardinality(Nodes) /\ i - a <= b - a /\ a + (i - a) = i
    BY <2>2, <2>3, <2>4
  <2>6. Chain[i - a] = f[i]
    BY <2>3, <2>5
  <2> QED BY <2>2, <2>4, <2>5, <2>6 DEF TailInList
<1> QED BY <1>1, QueueInvariant, PTL

\* The node to which an Enqueue links its own is not given back meanwhile.
THEOREM HeldNodeIsKept ==
  ASSUME OneProducer
  PROVE  Spec /\ [][FreshTag]_vars => []HeldNodeKept
<1>1. ASSUME Inv PROVE HeldNodeKept
  <2> SUFFICES ASSUME NEW t \in Threads, pc[t] \in {"eLink", "eHelp", "eSwing"}
               PROVE  old[t].ptr \notin FreeNodes
    BY DEF HeldNodeKept, Standing
  <2>1. PICK f, a, b : RefsOK(f, a, b)
    BY <1>1 DEF Inv, QueueOK
  <2>2. pc[t] \in Holding
    BY <1>1 DEF Holding, Inv, TypeOK, Labels, Preparing, Finishing, Active, Removing, Freeing
  <2>3. PICK n \in Nodes : n = old[t].ptr
    BY <2>1, <2>2 DEF RefsOK
  <2>4. Held(n)
    BY <2>2, <2>3 DEF Held
  <2> QED BY <2>1, <2>3, <2>4 DEF RefsOK
<1> QED BY <1>1, QueueInvariant, PTL

\* A Dequeue that has the present Head finds an item behind it and Tail further on.
THEOREM ItemIsBeforeTail ==
  ASSUME OneProducer
  PROVE  Spec /\ [][FreshTag]_vars => []ItemBeforeTail
<1>1. ASSUME Inv PROVE ItemBeforeTail
  <2> SUFFICES ASSUME NEW t \in Threads, pc[t] = "dCheck", old[t] = head
               PROVE  old[t].ptr # cur[t].ptr /\ nxt[t] # Null
    BY DEF ItemBeforeTail, Standing
  <2>1. PICK f, a, b : QueueOK(f, a, b)
    BY <1>1 DEF Inv
  <2>2. pc[t] \in Active
    BY DEF Active
  <2>3. cur[t].ptr # head.ptr /\ nxt[t] = f[a + 1]
    BY <2>1, <2>2 DEF QueueOK, DequeuersOK
  <2>4. a \in Nat /\ b \in Nat /\ Size \in Int
    BY <1>1, <2>1 DEF Inv, TypeOK, QueueOK, ListOK
  <2>5. a < b
    BY <2>1, <2>2, <2>4, ActiveHasItem DEF QueueOK
  <2>6. a + 1 \in a .. b
    BY <2>4, <2>5
  <2>7. f[a + 1] # Null
    BY <2>1, <2>6, NodeAssumption DEF QueueOK, ListOK
  <2> QED BY <2>3, <2>7
<1> QED BY <1>1, QueueInvariant, PTL

-----------------------------------------------------------------------------
(* The list as a sequence of items *)

\* The items of the list f[a + 1], ..., f[b].
Listed(f, a, b) == [k \in 1 .. b - a |-> Data[f[a + k]]]

\* They are what Contents finds by following Next from Head.
LEMMA ListedIsContents ==
  ASSUME NEW f, NEW a, NEW b, ListOK(f, a, b)
  PROVE  Contents = Listed(f, a, b) /\ Listed(f, a, b) \in Seq(AllItems) /\ Len(Listed(f, a, b)) = b - a
<1>1. Contents = Listed(f, a, b)
  BY ChainIsList DEF Listed
<1>2. a \in Nat /\ b \in Nat /\ a <= b /\ \A i \in a + 1 .. b : Data[f[i]] \in AllItems
  BY DEF ListOK
<1>3. b - a \in Nat /\ \A k \in 1 .. b - a : a + k \in a + 1 .. b
  BY <1>2
<1>4. \A k \in 1 .. b - a : Data[f[a + k]] \in AllItems
  BY <1>2, <1>3
<1>5. Listed(f, a, b) \in [1 .. b - a -> AllItems]
  BY <1>4 DEF Listed
<1>6. Listed(f, a, b) \in Seq(AllItems) /\ Len(Listed(f, a, b)) = b - a
  BY <1>3, <1>5
<1> QED BY <1>1, <1>6

\* The same of the state after a step.
LEMMA ListedIsContentsLater ==
  ASSUME NEW f, NEW a, NEW b
  PROVE  ListOK(f, a, b)' => Contents' = [k \in 1 .. b - a |-> Data'[f[a + k]]]
<1>1. ListOK(f, a, b) => Contents = Listed(f, a, b)
  BY ListedIsContents
<1>2. ListOK(f, a, b)' => (Contents = Listed(f, a, b))'
  BY <1>1, PTL
<1> QED BY <1>2 DEF Listed

-----------------------------------------------------------------------------
(* What a call has yet to do *)

\* The stage of a call, from where its thread stands.
Phase(l) == IF l = "idle" THEN "nothing"
            ELSE IF l \in Preparing THEN "enqueue"
            ELSE IF l \in Active \cup {"dUndo"} THEN "dequeue"
            ELSE "return"

\* An Enqueue has its node until it has linked it.
LEMMA StagesArePhases ==
  ASSUME NEW f, NEW a, NEW b
  PROVE  TypeOK /\ ProducerOK(f, a, b) => Stages = [t \in Threads |-> Phase(pc[t])]
<1> SUFFICES ASSUME TypeOK, ProducerOK(f, a, b), NEW t \in Threads PROVE Stage(t) = Phase(pc[t])
  BY DEF Stages
<1>1. pc[t] \in Labels /\ (pc[t] \in Preparing <=> node[t] # Null)
  BY DEF TypeOK, ProducerOK
<1>2. t \in Reserved <=> pc[t] \in Active \cup {"dUndo"}
  BY DEF Reserved, Standing, Active
<1>3. t \in Uncounted \cup Standing({"dFlag", "dDrop", "dFree"}) <=> pc[t] \in Finishing \cup Removing \cup Freeing
  BY <1>1 DEF Uncounted, Standing, Finishing, Removing, Freeing, Preparing
<1>4. /\ pc[t] \in Preparing => pc[t] \notin Active \cup {"dUndo", "idle"} \cup Finishing \cup Removing \cup Freeing
      /\ pc[t] \in Active \cup {"dUndo"} => pc[t] \notin {"idle"} \cup Finishing \cup Removing \cup Freeing
      /\ pc[t] = "idle" => pc[t] \notin Finishing \cup Removing \cup Freeing
  BY DEF Preparing, Active, Finishing, Removing, Freeing
<1>5. Stage(t) = IF pc[t] = "idle" THEN "nothing"
                 ELSE IF pc[t] \in Active \cup {"dUndo"} THEN "dequeue"
                 ELSE IF pc[t] \in Finishing \cup Removing \cup Freeing THEN "return" ELSE "enqueue"
  BY <1>2, <1>3, <1>4 DEF Stage, At
<1> QED BY <1>1, <1>4, <1>5 DEF Phase, Labels

\* The same of the state after a step.
LEMMA StagesArePhasesLater ==
  ASSUME NEW f, NEW a, NEW b
  PROVE  (TypeOK /\ ProducerOK(f, a, b))' => Stages' = [t \in Threads |-> Phase(pc'[t])]
<1>1. TypeOK /\ ProducerOK(f, a, b) => Stages = [t \in Threads |-> Phase(pc[t])]
  BY StagesArePhases
<1>2. (TypeOK /\ ProducerOK(f, a, b))' => (Stages = [t \in Threads |-> Phase(pc[t])])'
  BY <1>1, PTL
<1> QED BY <1>2

\* A step is its thread's alone, and unless it links a node or takes one out its call goes on,
\* begins, or returns with nothing left to do.
LEMMA PhaseStep ==
  ASSUME OneProducer, TypeOK, NEW f, NEW a, NEW b, QueueOK(f, a, b), TypeOK',
         NEW t \in Threads, Enqueue(t) \/ Dequeue(t) \/ Clear(t)
  PROVE  /\ \A u \in Threads : u # t => pc'[u] = pc[u]
         /\ \/ Links(t)
            \/ Takes(t)
            \/ Phase(pc'[t]) = Phase(pc[t])
            \/ Phase(pc[t]) = "nothing" /\ Phase(pc'[t]) \in {"enqueue", "dequeue"}
            \/ Phase(pc[t]) \in {"dequeue", "return"} /\ Phase(pc'[t]) = "nothing"
<1> DEFINE Goes == \E l : pc' = [pc EXCEPT ![t] = l]
<1>0. DOMAIN pc = Threads /\ pc[t] \in Labels /\ (node[t] # Null <=> pc[t] \in Preparing)
  BY DEF TypeOK, QueueOK, ProducerOK
<1>1. /\ Phase("idle") = "nothing"
      /\ \A l \in {"eTail", "eHold", "eAgain", "eNext", "eCheck", "eLink"} : Phase(l) = "enqueue"
      /\ \A l \in {"dUndo", "dHead", "dTail", "dNext", "dCheck", "dData", "dCas"} : Phase(l) = "dequeue"
      /\ \A l \in {"eSwing", "eDrop", "eFree", "eSize", "dFlag", "dDrop", "dFree"} : Phase(l) = "return"
  BY DEF Phase, Preparing, Active
<1> DEFINE Fits(l) == \/ Phase(l) = Phase(pc[t])
                      \/ Phase(pc[t]) = "nothing" /\ Phase(l) \in {"enqueue", "dequeue"}
                      \/ Phase(pc[t]) \in {"dequeue", "return"} /\ Phase(l) = "nothing"
<1>2. SUFFICES \/ UNCHANGED pc
               \/ \E l : pc' = [pc EXCEPT ![t] = l] /\ (Links(t) \/ Takes(t) \/ Fits(l))
  BY <1>0
<1> USE DEF At, Goto, Done, LetGo, Again
<1>3. CASE Clear(t)
  BY <1>3 DEF Clear
<1>4. CASE EnqueueAlloc(t)
  BY <1>1, <1>4 DEF EnqueueAlloc
<1>5. CASE EnqueueReadTail(t) \/ EnqueueHold(t)
  BY <1>1, <1>5 DEF EnqueueReadTail, EnqueueHold
<1>6. CASE EnqueueReadAgain(t) \/ EnqueueReadNext(t)
  BY <1>1, <1>6 DEF EnqueueReadAgain, EnqueueReadNext
<1>7. CASE EnqueueCheck(t)
  <2>1. pc[t] = "eCheck" /\ pc[t] \in Preparing \cup Finishing /\ pc[t] \in Holding
    BY <1>7 DEF EnqueueCheck, Preparing, Holding
  <2>2. old[t] = tail /\ nxt[t] = Null
    BY <2>1, EnqueueState DEF QueueOK, ProducerOK
  <2> QED BY <1>1, <1>7, <2>1, <2>2 DEF EnqueueCheck
<1>8. CASE EnqueueLink(t)
  <2>1. Links(t)
    BY <1>8, LinkStep
  <2>2. \E l : pc' = [pc EXCEPT ![t] = l]
    BY <1>8 DEF EnqueueLink
  <2> QED BY <2>1, <2>2
<1>9. CASE EnqueueSwing(t)
  BY <1>1, <1>9 DEF EnqueueSwing
<1>10. CASE EnqueueHelp(t)
  BY <1>0, <1>10 DEF EnqueueHelp, Labels, Preparing, Finishing, Active, Removing, Freeing
<1>11. CASE EnqueueDrop(t) \/ EnqueueFree(t)
  <2>1. pc[t] \in {"eDrop", "eFree"} /\ node[t] = Null
    BY <1>0, <1>11 DEF EnqueueDrop, EnqueueFree, Preparing
  <2>2. \E l \in {"eFree", "eSize"} : pc' = [pc EXCEPT ![t] = l]
    BY <1>11, <2>1 DEF EnqueueDrop, EnqueueFree
  <2> QED BY <1>1, <2>1, <2>2
<1>12. CASE EnqueueSize(t)
  BY <1>1, <1>12 DEF EnqueueSize
<1>13. CASE DequeueReserve(t)
  BY <1>1, <1>13 DEF DequeueReserve
<1>14. CASE DequeueUndo(t)
  BY <1>1, <1>14 DEF DequeueUndo
<1>15. CASE DequeueReadHead(t) \/ DequeueReadTail(t)
  BY <1>1, <1>15 DEF DequeueReadHead, DequeueReadTail
<1>16. CASE DequeueReadNext(t)
  BY <1>1, <1>16 DEF DequeueReadNext
<1>17. CASE DequeueCheck(t)
  BY <1>1, <1>17 DEF DequeueCheck
<1>18. CASE DequeueData(t)
  BY <1>1, <1>18 DEF DequeueData
<1>19. CASE DequeueCas(t)
  <2>1. CASE head = old[t]
    <3>1. pc[t] = "dCas" /\ pc' = [pc EXCEPT ![t] = "dFlag"]
      BY <1>19, <2>1 DEF DequeueCas
    <3> QED BY <1>0, <3>1 DEF Takes
  <2>2. CASE head # old[t]
    BY <1>1, <1>19, <2>2 DEF DequeueCas
  <2> QED BY <2>1, <2>2
<1>20. CASE DequeueFlag(t)
  BY <1>1, <1>20 DEF DequeueFlag
<1>21. CASE DequeueDrop(t)
  BY <1>1, <1>21 DEF DequeueDrop
<1>22. CASE DequeueFree(t)
  BY <1>1, <1>22 DEF DequeueFree
<1> QED
  BY <1>3, <1>4, <1>5, <1>6, <1>7, <1>8, <1>9, <1>10, <1>11, <1>12, <1>13, <1>14, <1>15, <1>16,
     <1>17, <1>18, <1>19, <1>20, <1>21, <1>22 DEF Enqueue, Dequeue

\* The same of all stages together.
LEMMA StagesStep ==
  ASSUME OneProducer, TypeOK, NEW f, NEW a, NEW b, QueueOK(f, a, b), TypeOK',
         NEW g, NEW c, NEW d, ProducerOK(g, c, d)',
         NEW t \in Threads, Enqueue(t) \/ Dequeue(t) \/ Clear(t)
  PROVE  /\ Links(t) => Stages[t] = "enqueue" /\ Stages' = [Stages EXCEPT ![t] = "return"]
         /\ Takes(t) => Stages[t] = "dequeue" /\ Stages' = [Stages EXCEPT ![t] = "return"]
         /\ ~Links(t) /\ ~Takes(t) =>
              \/ Stages' = Stages
              \/ Stages[t] = "nothing" /\ \E s \in {"enqueue", "dequeue"} : Stages' = [Stages EXCEPT ![t] = s]
              \/ Stages[t] \in {"dequeue", "return"} /\ Stages' = [Stages EXCEPT ![t] = "nothing"]
         /\ Clear(t) => Stages' = Stages /\ \A u \in Threads : Stages[u] = "nothing"
<1>1. Stages = [u \in Threads |-> Phase(pc[u])]
  BY StagesArePhases DEF QueueOK
<1>2. Stages' = [u \in Threads |-> Phase(pc'[u])]
  BY StagesArePhasesLater
<1>3. Stages' = [Stages EXCEPT ![t] = Phase(pc'[t])] /\ Stages[t] = Phase(pc[t])
  BY <1>1, <1>2, PhaseStep
<1>4. Phase("eLink") = "enqueue" /\ Phase("dCas") = "dequeue" /\ Phase("eSwing") = "return" /\ Phase("dFlag") = "return"
  BY DEF Phase, Preparing, Active
<1>5. ASSUME ~Links(t), ~Takes(t)
      PROVE  \/ Stages' = Stages
             \/ Stages[t] = "nothing" /\ \E s \in {"enqueue", "dequeue"} : Stages' = [Stages EXCEPT ![t] = s]
             \/ Stages[t] \in {"dequeue", "return"} /\ Stages' = [Stages EXCEPT ![t] = "nothing"]
  BY <1>1, <1>3, <1>5, PhaseStep
<1>6. ASSUME Clear(t) PROVE Stages' = Stages /\ \A u \in Threads : Stages[u] = "nothing"
  <2>1. pc' = pc /\ \A u \in Threads : pc[u] = "idle"
    BY <1>6 DEF Clear, At
  <2> QED BY <1>1, <1>2, <2>1 DEF Phase
<1> QED BY <1>3, <1>4, <1>5, <1>6 DEF Links, Takes

-----------------------------------------------------------------------------
(* The list is a queue *)

\* Every step of the queue is one of Fifo's or leaves items, taken and the stages alone.
LEMMA QueueStepIsFifoStep ==
  ASSUME OneProducer, Inv, [QueueNext]_vars, [FreshTag]_vars
  PROVE  [Fifo!Next]_<<Contents, taken, Stages>>
<1>1. CASE UNCHANGED vars
  <2>1. head' = head /\ Next' = Next /\ Data' = Data /\ taken' = taken
    BY <1>1 DEF vars, nodeVars
  <2>2. Chain' = Chain
    BY <2>1 DEF Chain
  <2>3. Linked' = Linked
    BY <2>2 DEF Linked
  <2>4. Contents' = Contents
    BY <2>1, <2>2, <2>3 DEF Contents
  <2>5. Stages' = Stages
    <3>1. pc' = pc /\ node' = node
      BY <1>1 DEF vars, localVars
    <3> QED BY <3>1 DEF Stages, Stage, At, Reserved, Uncounted, Standing
  <2> QED BY <2>1, <2>4, <2>5
<1>2. CASE ~UNCHANGED vars
  <2>1. PICK t \in Threads : Enqueue(t) \/ Dequeue(t) \/ Clear(t)
    BY <1>2 DEF QueueNext
  <2>2. PICK f, a, b : QueueOK(f, a, b)
    BY DEF Inv
  <2>3. TypeOK /\ FreshTag /\ TypeOK'
    BY <1>2, NextQueue DEF Inv
  <2>4. /\ Contents = Listed(f, a, b) /\ Contents \in Seq(AllItems) /\ Len(Contents) = b - a
        /\ a \in Nat /\ b \in Nat /\ a <= b
    <3>1. ListOK(f, a, b)
      BY <2>2 DEF QueueOK
    <3>2. /\ Contents = Listed(f, a, b)
          /\ Listed(f, a, b) \in Seq(AllItems) /\ Len(Listed(f, a, b)) = b - a
      BY <3>1, ListedIsContents, Zenon
    <3>3. a \in Nat /\ b \in Nat /\ a <= b
      BY <3>1 DEF ListOK
    <3> QED BY <3>2, <3>3, Zenon
  <2>5. CASE /\ QueueOK(f, a, b)' /\ taken' = taken /\ ~Links(t) /\ ~Takes(t)
             /\ \A i \in a .. b : Data'[f[i]] = Data[f[i]]
    <3>1. Contents' = [k \in 1 .. b - a |-> Data'[f[a + k]]]
      BY <2>5, ListedIsContentsLater DEF QueueOK
    <3>2. \A k \in 1 .. b - a : Data'[f[a + k]] = Data[f[a + k]]
      <4>1. \A k \in 1 .. b - a : a + k \in a .. b
        BY <2>4
      <4> QED BY <2>5, <4>1
    <3>3. Contents' = Contents
      BY <2>4, <3>1, <3>2 DEF Listed
    <3>4. ProducerOK(f, a, b)'
      BY <2>5 DEF QueueOK
    <3>5. \/ Stages' = Stages
          \/ Stages[t] = "nothing" /\ \E s \in {"enqueue", "dequeue"} : Stages' = [Stages EXCEPT ![t] = s]
          \/ Stages[t] \in {"dequeue", "return"} /\ Stages' = [Stages EXCEPT ![t] = "nothing"]
      BY <2>1, <2>2, <2>3, <2>5, <3>4, StagesStep
    <3>6. Stages' = Stages \/ Fifo!Begin(t) \/ Fifo!Return(t)
      BY <2>5, <3>3, <3>5 DEF Fifo!Begin, Fifo!Return
    <3> QED BY <2>5, <3>3, <3>6 DEF Fifo!Next
  <2>6. ASSUME NEW g, QueueOK(g, a, b + 1)', taken' = taken, Data' = Data, Links(t),
               \A i \in a .. b : g[i] = f[i], Data[g[b + 1]] \in AllItems
        PROVE  Fifo!Enqueue(t)
    <3>1. Contents' = [k \in 1 .. (b + 1) - a |-> Data[g[a + k]]]
      <4>1. Contents' = [k \in 1 .. (b + 1) - a |-> Data'[g[a + k]]]
        BY <2>6, ListedIsContentsLater DEF QueueOK
      <4> QED BY <2>6, <4>1
    <3>2. \A k \in 1 .. b - a : Data[g[a + k]] = Contents[k]
      <4>1. \A k \in 1 .. b - a : a + k \in a .. b
        BY <2>4
      <4> QED BY <2>4, <2>6, <4>1 DEF Listed
    <3>3. /\ (b + 1) - a = (b - a) + 1 /\ b - a \in Nat /\ a + ((b - a) + 1) = b + 1
      BY <2>4
    <3>4. PICK s : s = Contents
      OBVIOUS
    <3>5. PICK n \in Nat : n = b - a
      BY <3>3
    <3>6. PICK s2 : s2 = [k \in 1 .. n + 1 |-> Data[g[a + k]]]
      OBVIOUS
    <3>7. PICK x : x = Data[g[b + 1]]
      OBVIOUS
    <3>8. /\ \A k \in 1 .. n : s2[k] = s[k]
          /\ s2[n + 1] = x /\ x \in AllItems /\ s \in Seq(AllItems) /\ Len(s) = n
      BY <2>4, <2>6, <3>2, <3>3, <3>4, <3>5, <3>6, <3>7
    <3>9. s2 = Append(s, x)
      <4>1. /\ Append(s, x) \in Seq(AllItems) /\ Len(Append(s, x)) = n + 1
            /\ \A k \in 1 .. n + 1 : s2[k] = Append(s, x)[k]
        BY <3>8
      <4>2. \A k \in 1 .. n + 1 : s2[k] \in AllItems
        BY <3>8
      <4>3. s2 \in [1 .. n + 1 -> AllItems]
        BY <3>6, <4>2
      <4>4. s2 \in Seq(AllItems) /\ Len(s2) = n + 1
        BY <4>3
      <4> QED BY <4>1, <4>4, SeqEqual
    <3>10. Contents' = Append(Contents, x)
      BY <3>1, <3>3, <3>4, <3>5, <3>6, <3>9
    <3>11. ProducerOK(g, a, b + 1)'
      BY <2>6 DEF QueueOK
    <3>12. Stages[t] = "enqueue" /\ Stages' = [Stages EXCEPT ![t] = "return"]
      BY <2>1, <2>2, <2>3, <2>6, <3>11, StagesStep
    <3> QED BY <2>6, <3>8, <3>10, <3>12 DEF Fifo!Enqueue, AllItems
  <2>7. CASE /\ QueueOK(f, a + 1, b)' /\ a < b /\ Data' = Data /\ Takes(t)
             /\ taken' = [taken EXCEPT ![t] = Data[f[a + 1]]]
    <3>1. Contents' = [k \in 1 .. b - (a + 1) |-> Data[f[(a + 1) + k]]]
      <4>1. Contents' = [k \in 1 .. b - (a + 1) |-> Data'[f[(a + 1) + k]]]
        BY <2>7, ListedIsContentsLater DEF QueueOK
      <4> QED BY <2>7, <4>1
    <3>2. PICK s : s = Contents
      OBVIOUS
    <3>3. PICK n \in Nat : n = b - a
      BY <2>4
    <3>4. s \in Seq(AllItems) /\ Len(s) = n /\ n >= 1
      BY <2>4, <2>7, <3>2, <3>3
    <3>5. \A k \in 1 .. n : s[k] = Data[f[a + k]]
      BY <2>4, <3>2, <3>3 DEF Listed
    <3>6. s # <<>> /\ Head(s) = Data[f[a + 1]]
      BY <3>4, <3>5
    <3>7. b - (a + 1) = n - 1 /\ \A k \in 1 .. n - 1 : (a + 1) + k = a + (k + 1) /\ k + 1 \in 1 .. n
      BY <2>4, <3>3
    <3>8. PICK s2 : s2 = [k \in 1 .. n - 1 |-> Data[f[(a + 1) + k]]]
      OBVIOUS
    <3>9. \A k \in 1 .. n - 1 : s2[k] = s[k + 1]
      BY <3>5, <3>7, <3>8
    <3>10. s2 = Tail(s)
      <4>1. Tail(s) \in Seq(AllItems) /\ Len(Tail(s)) = n - 1
        BY <3>4, <3>6
      <4>2. \A k \in 1 .. n - 1 : Tail(s)[k] = s[k + 1]
        BY <3>4
      <4>3. \A k \in 1 .. n - 1 : s2[k] \in AllItems
        BY <3>4, <3>7, <3>9
      <4>4. s2 \in [1 .. n - 1 -> AllItems]
        BY <3>8, <4>3
      <4>5. s2 \in Seq(AllItems) /\ Len(s2) = n - 1
        BY <3>4, <4>4
      <4> QED BY <3>9, <4>1, <4>2, <4>5, SeqEqual
    <3>11. Contents' = Tail(Contents) /\ Contents # <<>> /\ Data[f[a + 1]] = Head(Contents)
      BY <3>1, <3>2, <3>6, <3>7, <3>8, <3>10
    <3>12. ProducerOK(f, a + 1, b)'
      BY <2>7 DEF QueueOK
    <3>13. Stages[t] = "dequeue" /\ Stages' = [Stages EXCEPT ![t] = "return"]
      BY <2>1, <2>2, <2>3, <2>7, <3>12, StagesStep
    <3>14. Fifo!Dequeue(t)
      BY <2>7, <3>11, <3>13 DEF Fifo!Dequeue
    <3> QED BY <3>14 DEF Fifo!Next
  <2>8. CASE QueueOK(f, b, b)' /\ taken' = taken /\ Data' = Data /\ Clear(t)
    <3>1. Contents' = [k \in 1 .. b - b |-> Data'[f[b + k]]]
      BY <2>8, ListedIsContentsLater DEF QueueOK
    <3>2. 1 .. b - b = {}
      BY <2>4
    <3>3. Contents' = <<>>
      BY <3>1, <3>2
    <3>4. ProducerOK(f, b, b)'
      BY <2>8 DEF QueueOK
    <3>5. Stages' = Stages /\ \A u \in Threads : Stages[u] = "nothing"
      BY <2>1, <2>2, <2>3, <2>8, <3>4, StagesStep
    <3> QED BY <2>8, <3>3, <3>5 DEF Fifo!Next, Fifo!Clear
  <2> QED BY <2>1, <2>2, <2>3, <2>5, <2>6, <2>7, <2>8, QueueStep DEF Fifo!Next
<1> QED BY <1>1, <1>2

\* At first both are empty and nobody is in a call.
LEMMA InitIsFifoInit ==
  ASSUME Init
  PROVE  Fifo!Init
<1>1. PICK f, a, b : ListOK(f, a, b) /\ SizeOK(a, b)
  BY InitQueue DEF Inv, QueueOK
<1>2. a \in Nat /\ b \in Nat /\ Size = 0 /\ \A t \in Threads : pc[t] = "idle"
  BY <1>1 DEF ListOK, Init
<1>3. Reserved = {} /\ Uncounted = {}
  BY <1>2 DEF Reserved, Uncounted, Standing
<1>4. Cardinality({}) = 0
  BY FS_EmptySet
<1>5. Cardinality(Reserved) = 0 /\ Cardinality(Uncounted) = 0
  BY <1>3, <1>4, Zenon
<1>6. b - a = 0
  BY <1>1, <1>2, <1>5 DEF SizeOK
<1>7. Contents = [k \in 1 .. b - a |-> Data[f[a + k]]]
  BY <1>1, ListedIsContents DEF Listed
<1>8. 1 .. b - a = {}
  BY <1>6
<1>9. Contents = <<>>
  BY <1>7, <1>8
<1>10. Stages = [t \in Threads |-> "nothing"]
  <2>1. Stages = [t \in Threads |-> Phase(pc[t])]
    BY InitQueue, StagesArePhases DEF Inv, QueueOK
  <2> QED BY <1>2, <2>1 DEF Phase
<1> QED BY <1>9, <1>10 DEF Init, Fifo!Init

\* The list behaves as a queue: items leave in the order in which they were linked, each once;
\* every Enqueue links one item before it returns, and Clear alone drops them.
THEOREM QueueIsFifo ==
  ASSUME OneProducer
  PROVE  Spec /\ [][FreshTag]_vars => ImplementsFifo
<1>1. Init => Fifo!Init
  BY InitIsFifoInit
<1>2. Inv /\ [QueueNext]_vars /\ [FreshTag]_vars => [Fifo!Next]_<<Contents, taken, Stages>>
  BY QueueStepIsFifoStep
<1> QED BY <1>1, <1>2, QueueInvariant, PTL DEF Spec, ImplementsFifo, Fifo!Spec, Fifo!fifoVars
=============================================================================
