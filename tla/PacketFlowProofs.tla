--------------------------- MODULE PacketFlowProofs ---------------------------
(***************************************************************************)
(* The theorems about packets, for any bytes, threads, sessions and        *)
(* packets: Decode finds what Encode was given, the count of a packet's    *)
(* references is exact, a packet that is queued is encoded, and the peer's *)
(* OnRecv gets what was sent, in order.                                    *)
(***************************************************************************)
EXTENDS PacketFlow, FiniteSetTheorems, SequenceTheorems, TLAPS

-----------------------------------------------------------------------------
(* Encode and Decode *)

\* The key stream of Encode is made of bytes.
LEMMA MaskIsByte ==
  ASSUME NEW made \in Seq(Byte), NEW key \in Byte, NEW i \in 1 .. Len(made)
  PROVE  Mask(made, key, i) \in Byte
<1>1. (IF i = 1 THEN 0 ELSE made[i - 1]) \in Int
  <2>1. CASE i = 1
    BY <2>1
  <2>2. CASE i # 1
    <3>1. i - 1 \in 1 .. Len(made)
      BY <2>2
    <3>2. made[i - 1] \in Byte
      BY <3>1
    <3> QED BY <2>2, <3>2 DEF Byte
  <2> QED BY <2>1, <2>2
<1>2. \A x \in Int : x % ByteSize \in Byte
  BY ByteAssumption DEF Byte
<1>3. ((IF i = 1 THEN 0 ELSE made[i - 1]) + key + i) \in Int
  BY <1>1 DEF Byte
<1> QED BY <1>2, <1>3 DEF Mask

\* A chain of bytes is as long as what it was made from, which Unchained finds.
LEMMA UnchainedChain ==
  ASSUME NEW s \in Seq(Byte), NEW key \in Byte, NEW made \in Chains(key, s)
  PROVE  made \in Seq(Byte) /\ Len(made) = Len(s) /\ Unchained(key, made) = s
<1>1. made \in [1 .. Len(s) -> Byte] /\ Len(s) \in Nat /\ Chained(key, s, made)
  BY DEF Chains
<1>2. made \in Seq(Byte) /\ Len(made) = Len(s)
  BY <1>1
<1>3. ASSUME NEW i \in 1 .. Len(s) PROVE Xor(made[i], Mask(made, key, i)) = s[i]
  <2>1. Mask(made, key, i) \in Byte /\ s[i] \in Byte
    BY <1>2, MaskIsByte
  <2>2. made[i] = Xor(s[i], Mask(made, key, i))
    BY <1>1 DEF Chained
  <2> QED BY <2>1, <2>2, XorAssumption
<1>4. Unchained(key, made) = [i \in 1 .. Len(s) |-> s[i]]
  BY <1>2, <1>3 DEF Unchained
<1> QED BY <1>2, <1>4

\* Whatever Encode makes of a payload is one message, of which CheckPacketMessageComplete
\* reads the right length and Decode finds the checksum right and the payload again.
THEOREM DecodeInvertsEncode ==
  \A payload \in Seq(Byte), rkey \in Byte : \A e \in Encodings(payload, rkey) : Carries(e, payload)
<1> SUFFICES ASSUME NEW payload \in Seq(Byte), NEW rkey \in Byte, NEW e \in Encodings(payload, rkey)
             PROVE  Carries(e, payload)
  OBVIOUS
<1>1. PICK sum \in Checksums(payload) : \E c \in Ciphers(rkey, <<sum>> \o payload) :
             e = <<HeaderCode, Len(payload), rkey>> \o c
  BY DEF Encodings
<1> DEFINE clear == <<sum>> \o payload
<1>2. sum \in Byte
  <2>1. PICK sums \in Sums(payload) : sum = sums[Len(payload)]
    BY DEF Checksums
  <2>2. sums \in [0 .. Len(payload) -> Byte] /\ Len(payload) \in 0 .. Len(payload)
    BY <2>1 DEF Sums
  <2> QED BY <2>1, <2>2
<1>3. /\ clear \in Seq(Byte) /\ Len(clear) = Len(payload) + 1
      /\ clear[1] = sum /\ Tail(clear) = payload /\ Len(payload) \in Nat
  BY <1>2
<1>4. PICK c \in Ciphers(rkey, clear) : e = <<HeaderCode, Len(payload), rkey>> \o c
  BY <1>1
<1> HIDE DEF clear
<1>5. PICK first \in Chains(rkey, clear) : c \in Chains(EncryptKey, first)
  BY <1>4 DEF Ciphers
<1>6. first \in Seq(Byte) /\ Len(first) = Len(clear) /\ Unchained(rkey, first) = clear
  BY <1>3, <1>5, UnchainedChain
<1>7. c \in Seq(Byte) /\ Len(c) = Len(first) /\ Unchained(EncryptKey, c) = first
  BY <1>5, <1>6, ByteAssumption, UnchainedChain
<1>8. /\ Len(e) = HeaderSize + Len(payload)
      /\ e[1] = HeaderCode /\ e[2] = Len(payload) /\ e[3] = rkey
      /\ SubSeq(e, 4, HeaderSize + Len(payload)) = c
  <2>1. Len(c) = Len(payload) + 1 /\ Len(payload) \in Nat
    BY <1>3, <1>6, <1>7
  <2>2. /\ Len(e) = 3 + Len(c) /\ e \in Seq(Int \cup Byte)
        /\ e[1] = HeaderCode /\ e[2] = Len(payload) /\ e[3] = rkey
    BY <1>4, <1>7, <2>1, ByteAssumption DEF Byte
  <2>3. \A i \in 1 .. Len(c) : e[i + 3] = c[i]
    BY <1>4, <1>7
  <2>4. HeaderSize + Len(payload) = Len(e) /\ 3 + Len(c) = Len(e) /\ Len(c) \in Nat
    BY <2>1, <2>2 DEF HeaderSize
  <2>5. SubSeq(e, 4, Len(e)) = c
    <3>1. SubSeq(e, 4, Len(e)) = [i \in 1 .. Len(c) |-> e[i + 3]]
      BY <2>2, <2>4
    <3>2. c = [i \in 1 .. Len(c) |-> c[i]]
      BY <1>7
    <3> QED BY <2>3, <3>1, <3>2
  <2> QED BY <2>2, <2>4, <2>5
<1>9. Clear(e) = clear
  BY <1>6, <1>7, <1>8 DEF Clear, PeekPayloadLength
<1> QED BY <1>3, <1>8, <1>9 DEF Carries, VerifyHeaderMagic, PeekPayloadLength, DecodeSucceeds, Decode

-----------------------------------------------------------------------------
(* Types *)

\* What the types of a packet, of a call and of a queue depend on.
PacketTypes ==
  /\ pool \subseteq Packets
  /\ refCnt \in [Packets -> Int] /\ encodeFlag \in [Packets -> BOOLEAN]
  /\ lock \in [Packets -> Threads \cup {NoThread}]
  /\ written \in [Packets -> Seq(Byte)]
  /\ DOMAIN data = Packets

CallTypes ==
  /\ pc \in [Threads -> Places]
  /\ packet \in [Threads -> Packets \cup {NoPacket}]
  /\ session \in [Threads -> Sessions \cup {NoSession}]
  /\ \A t \in Threads : pc[t] = "app" <=> packet[t] = NoPacket
  /\ \A t \in Threads : pc[t] = "app" <=> session[t] = NoSession

QueueTypes ==
  /\ SendQ \in [Sessions -> Seq(Packets)] /\ SendBuffer \in [Sessions -> Seq(Packets)]
  /\ unread \in [Sessions -> Nat]
  /\ \A s \in Sessions : unread[s] <= Len(SendBuffer[s])

SenderTypes ==
  PacketTypes /\ CallTypes /\ QueueTypes /\ holds \in [Threads -> SUBSET Packets] /\ allocs \in Nat

\* The types the proofs use imply the type invariant of the runs.
LEMMA TypesOK == SenderTypes => SenderTypeOK
  BY DEF SenderTypes, SenderTypeOK, PacketTypes, CallTypes, QueueTypes

\* Alloc keeps the types.
LEMMA AllocTypes ==
  ASSUME SenderTypes, NEW t \in Threads, NEW p, allocs < Len(Payloads),
         AllocPacket(t, p, Payloads[allocs + 1])
  PROVE  SenderTypes'
<1>1. p \in Packets /\ allocs \in Nat
  BY DEF SenderTypes, AllocPacket, PacketTypes
<1>2. Payloads[allocs + 1] \in Seq(Byte)
  BY <1>1, PayloadAssumption
<1>3. PacketTypes'
  BY <1>1, <1>2 DEF SenderTypes, AllocPacket, ClearPacket, PacketTypes
<1>4. CallTypes' /\ QueueTypes' /\ allocs' \in Nat /\ holds' \in [Threads -> SUBSET Packets]
  BY <1>1 DEF SenderTypes, AllocPacket, CallTypes, QueueTypes, callVars, queueVars
<1> QED BY <1>3, <1>4 DEF SenderTypes

\* Handing a packet over, or freeing it, keeps the types.
LEMMA HandTypes ==
  ASSUME SenderTypes, NEW t \in Threads, NEW p,
         GiveBack(t, p) \/ \E u \in Threads : HandOver(t, u, p)
  PROVE  SenderTypes'
<1>1. p \in Packets
  BY DEF SenderTypes, GiveBack, HandOver
<1>2. PacketTypes'
  BY <1>1 DEF SenderTypes, GiveBack, HandOver, FreePacket, PacketTypes
<1>3. holds' \in [Threads -> SUBSET Packets]
  <2>1. CASE GiveBack(t, p)
    BY <1>1, <2>1 DEF SenderTypes, GiveBack
  <2>2. ASSUME NEW u \in Threads, HandOver(t, u, p) PROVE holds' \in [Threads -> SUBSET Packets]
    BY <1>1, <2>2 DEF SenderTypes, HandOver
  <2> QED BY <2>1, <2>2
<1>4. CallTypes' /\ QueueTypes' /\ allocs' \in Nat
  BY DEF SenderTypes, GiveBack, HandOver, CallTypes, QueueTypes, callVars, queueVars
<1> QED BY <1>2, <1>3, <1>4 DEF SenderTypes

\* SendPacket keeps the types.
LEMMA SendPacketTypes ==
  ASSUME SenderTypes, NEW t \in Threads, NEW p, NEW s \in Sessions, SendPacket(t, p, s)
  PROVE  SenderTypes'
<1>1. p \in Packets /\ p # NoPacket /\ s # NoSession
  BY PartiesAssumption DEF SenderTypes, SendPacket
<1>2. PacketTypes'
  BY <1>1 DEF SenderTypes, SendPacket, TakeReference, PacketTypes
<1>3. CallTypes'
  BY <1>1 DEF SenderTypes, SendPacket, Goto, CallTypes, Places
<1>4. QueueTypes' /\ allocs' \in Nat /\ holds' \in [Threads -> SUBSET Packets]
  BY DEF SenderTypes, SendPacket, QueueTypes, queueVars
<1> QED BY <1>2, <1>3, <1>4 DEF SenderTypes

\* The encoding inside SendPacket keeps the types.
LEMMA CallStepTypes ==
  ASSUME SenderTypes, NEW t \in Threads,
         Look(t) \/ LockPacket(t) \/ Encode(t) \/ UnlockPacket(t)
  PROVE  SenderTypes'
<1>1. packet[t] \in Packets
  BY DEF SenderTypes, Look, LockPacket, Encode, UnlockPacket, CallTypes
<1>2. PacketTypes'
  BY <1>1 DEF SenderTypes, Look, LockPacket, Encode, UnlockPacket, PacketTypes, packetVars
<1>3. CallTypes'
  <2>1. \E place \in Places : place # "app" /\ pc' = [pc EXCEPT ![t] = place] /\ pc[t] # "app"
    BY DEF Look, LockPacket, LookAgain, Encode, UnlockPacket, Goto, Places
  <2>2. UNCHANGED <<packet, session>>
    BY DEF Look, LockPacket, Encode, UnlockPacket
  <2> QED BY <2>1, <2>2 DEF SenderTypes, CallTypes
<1>4. QueueTypes' /\ allocs' \in Nat /\ holds' \in [Threads -> SUBSET Packets]
  BY DEF SenderTypes, Look, LockPacket, Encode, UnlockPacket, QueueTypes, queueVars
<1> QED BY <1>2, <1>3, <1>4 DEF SenderTypes

\* Enqueueing keeps the types.
LEMMA EnqueueTypes ==
  ASSUME SenderTypes, NEW t \in Threads, Enqueue(t)
  PROVE  SenderTypes'
<1>1. packet[t] \in Packets /\ session[t] \in Sessions
  BY DEF SenderTypes, Enqueue, CallTypes
<1>2. PacketTypes'
  BY DEF SenderTypes, Enqueue, PacketTypes, packetVars
<1>3. CallTypes'
  BY PartiesAssumption DEF SenderTypes, Enqueue, Goto, CallTypes, Places
<1>4. QueueTypes' /\ allocs' \in Nat /\ holds' \in [Threads -> SUBSET Packets]
  BY <1>1 DEF SenderTypes, Enqueue, QueueTypes
<1> QED BY <1>2, <1>3, <1>4 DEF SenderTypes

\* Sending and freeing what was sent keep the types.
LEMMA SessionTypes ==
  ASSUME SenderTypes, NEW s \in Sessions, SendPost(s) \/ Transmit(s) \/ SendDone(s)
  PROVE  SenderTypes'
<1>1. SendQ[s] \in Seq(Packets) /\ SendBuffer[s] \in Seq(Packets) /\ unread[s] \in Nat /\ <<>> \in Seq(Packets)
  BY DEF SenderTypes, QueueTypes
<1>2. CallTypes' /\ allocs' \in Nat /\ holds' \in [Threads -> SUBSET Packets]
  BY DEF SenderTypes, SendPost, Transmit, SendDone, CallTypes, callVars
<1>3. CASE SendPost(s)
  <2>1. QueueTypes'
    BY <1>1, <1>3 DEF SenderTypes, SendPost, QueueTypes
  <2>2. PacketTypes'
    BY <1>3 DEF SenderTypes, SendPost, PacketTypes, packetVars
  <2> QED BY <1>2, <2>1, <2>2 DEF SenderTypes
<1>4. CASE Transmit(s)
  <2>1. unread[s] - 1 \in Nat /\ unread[s] - 1 <= Len(SendBuffer[s])
    BY <1>1, <1>4 DEF SenderTypes, Transmit, QueueTypes
  <2>2. QueueTypes'
    BY <1>1, <1>4, <2>1 DEF SenderTypes, Transmit, QueueTypes
  <2>3. PacketTypes'
    BY <1>4 DEF SenderTypes, Transmit, PacketTypes, packetVars
  <2> QED BY <1>2, <2>2, <2>3 DEF SenderTypes
<1>5. CASE SendDone(s)
  <2>1. /\ SendBuffer[s] # <<>> /\ unread[s] = 0 /\ unread' = unread /\ SendQ' = SendQ
        /\ SendBuffer' = [SendBuffer EXCEPT ![s] = Tail(SendBuffer[s])] /\ FreePacket(Head(SendBuffer[s]))
        /\ UNCHANGED <<data, encodeFlag, lock, written>>
    BY <1>5 DEF SendDone
  <2>2. Head(SendBuffer[s]) \in Packets /\ Tail(SendBuffer[s]) \in Seq(Packets) /\ 0 <= Len(Tail(SendBuffer[s]))
    BY <1>1, <2>1
  <2>3. QueueTypes'
    BY <2>1, <2>2 DEF SenderTypes, QueueTypes
  <2>4. PacketTypes'
    BY <2>1, <2>2 DEF SenderTypes, FreePacket, PacketTypes
  <2> QED BY <1>2, <2>3, <2>4 DEF SenderTypes
<1> QED BY <1>3, <1>4, <1>5

\* Every step keeps the types.
LEMMA SenderTypesStep == SenderTypes /\ [SenderNext]_senderVars => SenderTypes'
<1>1. ASSUME SenderTypes, NEW t \in Threads, AppSteps(t) PROVE SenderTypes'
  BY <1>1, AllocTypes, HandTypes, SendPacketTypes DEF AppSteps
<1>2. ASSUME SenderTypes, NEW t \in Threads, SendSteps(t) PROVE SenderTypes'
  BY <1>2, CallStepTypes, EnqueueTypes DEF SendSteps
<1>3. ASSUME SenderTypes, NEW s \in Sessions, SessionSteps(s) PROVE SenderTypes'
  BY <1>3, SessionTypes DEF SessionSteps
<1>4. ASSUME SenderTypes, UNCHANGED senderVars PROVE SenderTypes'
  BY <1>4 DEF SenderTypes, PacketTypes, CallTypes, QueueTypes, senderVars, packetVars, callVars, queueVars
<1> QED BY <1>1, <1>2, <1>3, <1>4 DEF SenderNext

-----------------------------------------------------------------------------
(* References *)

InHands(p, held)     == {<<"application", t, 0>> : t \in {u \in Threads : p \in held[u]}}
InCalls(p, calls)    == {<<"SendPacket", t, 0>> : t \in {u \in Threads : calls[u] = p}}
Entries(tag, p, qs)  == UNION {{<<tag, s, i>> : i \in PlacesOf(p, qs[s])} : s \in Sessions}

\* The references to a packet: hands, calls, send queues, send buffers.
LEMMA ReferenceParts ==
  ASSUME NEW p
  PROVE  /\ References(p) = InHands(p, holds) \cup InCalls(p, packet)
                              \cup Entries("SendQ", p, SendQ) \cup Entries("SendBuffer", p, SendBuffer)
         /\ References(p)' = InHands(p, holds') \cup InCalls(p, packet')
                              \cup Entries("SendQ", p, SendQ') \cup Entries("SendBuffer", p, SendBuffer')
  BY DEF References, InHands, InCalls, Entries

\* Who is in each of the four parts.
LEMMA Members ==
  ASSUME NEW p, NEW x
  PROVE  /\ \A held : x \in InHands(p, held) <=> \E t \in Threads : p \in held[t] /\ x = <<"application", t, 0>>
         /\ \A calls : x \in InCalls(p, calls) <=> \E t \in Threads : calls[t] = p /\ x = <<"SendPacket", t, 0>>
         /\ \A tag, qs : x \in Entries(tag, p, qs)
                           <=> \E s \in Sessions : \E i \in 1 .. Len(qs[s]) : qs[s][i] = p /\ x = <<tag, s, i>>
  BY DEF InHands, InCalls, Entries, PlacesOf

\* What a thread has and what it sends are references of their own.
LEMMA ThreadMembers ==
  ASSUME NEW p, NEW t \in Threads
  PROVE  /\ <<"application", t, 0>> \in References(p) <=> p \in holds[t]
         /\ <<"application", t, 0>> \in InHands(p, holds) <=> p \in holds[t]
         /\ \A calls : <<"application", t, 0>> \notin InCalls(p, calls)
         /\ \A tag, qs : tag # "application" => <<"application", t, 0>> \notin Entries(tag, p, qs)
         /\ <<"SendPacket", t, 0>> \in References(p) <=> packet[t] = p
         /\ <<"SendPacket", t, 0>> \in InCalls(p, packet) <=> packet[t] = p
         /\ \A held : <<"SendPacket", t, 0>> \notin InHands(p, held)
         /\ \A tag, qs : tag # "SendPacket" => <<"SendPacket", t, 0>> \notin Entries(tag, p, qs)
<1>1. /\ \A held : <<"application", t, 0>> \in InHands(p, held) <=> p \in held[t]
      /\ \A calls : <<"SendPacket", t, 0>> \in InCalls(p, calls) <=> calls[t] = p
  BY DEF InHands, InCalls
<1>2. /\ \A calls : <<"application", t, 0>> \notin InCalls(p, calls)
      /\ \A held : <<"SendPacket", t, 0>> \notin InHands(p, held)
  BY DEF InHands, InCalls
<1>3. \A tag, qs : /\ tag # "application" => <<"application", t, 0>> \notin Entries(tag, p, qs)
                   /\ tag # "SendPacket" => <<"SendPacket", t, 0>> \notin Entries(tag, p, qs)
  BY DEF Entries
<1> QED BY <1>1, <1>2, <1>3, ReferenceParts

\* The count and the pool agree with the references to one packet.
Exact(p) ==
  /\ IsFiniteSet(References(p))
  /\ refCnt[p] = Cardinality(References(p))
  /\ p \in pool <=> References(p) = {}

AllExact == \A p \in Packets : Exact(p)

\* A reference is taken, beside others or to a packet of the pool.
LEMMA OneMore ==
  ASSUME NEW p \in Packets, Exact(p), NEW x, x \notin References(p),
         References(p)' = References(p) \cup {x},
         refCnt'[p] = refCnt[p] + 1, p \notin pool'
  PROVE  Exact(p)'
  BY FS_AddElement DEF Exact

\* A reference is given back, perhaps the last.
LEMMA OneLess ==
  ASSUME NEW p \in Packets, Exact(p), NEW x, x \in References(p),
         IsFiniteSet(References(p)'), Cardinality(References(p)') = Cardinality(References(p)) - 1,
         refCnt \in [Packets -> Int], FreePacket(p)
  PROVE  Exact(p)'
<1>1. /\ refCnt'[p] = Cardinality(References(p)')
      /\ pool' = IF refCnt'[p] # 0 THEN pool ELSE pool \cup {p}
      /\ p \notin pool
  BY DEF Exact, FreePacket
<1>2. Cardinality(References(p)') = 0 <=> References(p)' = {}
  BY FS_EmptySet
<1> QED BY <1>1, <1>2 DEF Exact

\* References move from place to place.
LEMMA SameNumber ==
  ASSUME NEW p \in Packets, Exact(p), NEW f \in Bijection(References(p), References(p)'),
         refCnt'[p] = refCnt[p], p \in pool' <=> p \in pool
  PROVE  Exact(p)'
<1>1. IsFiniteSet(References(p)') /\ Cardinality(References(p)') = Cardinality(References(p))
  BY FS_Bijection DEF Exact, ExistsBijection
<1>2. References(p)' = {} <=> References(p) = {}
  BY <1>1, FS_EmptySet DEF Exact
<1> QED BY <1>1, <1>2 DEF Exact

\* A packet whose references and count a step leaves alone.
LEMMA Untouched ==
  ASSUME NEW p \in Packets, Exact(p), References(p)' = References(p),
         refCnt'[p] = refCnt[p], p \in pool' <=> p \in pool
  PROVE  Exact(p)'
  BY DEF Exact

\* Alloc: a packet with one reference, its maker's.
LEMMA AllocExact ==
  ASSUME SenderTypes, AllExact, NEW t \in Threads, NEW p, NEW payload, AllocPacket(t, p, payload)
  PROVE  AllExact'
<1>1. /\ p \in Packets /\ p \in pool /\ pool' = pool \ {p} /\ refCnt' = [refCnt EXCEPT ![p] = @ + 1]
      /\ holds' = [holds EXCEPT ![t] = @ \cup {p}] /\ UNCHANGED <<packet, SendQ, SendBuffer>>
      /\ holds \in [Threads -> SUBSET Packets] /\ refCnt \in [Packets -> Int]
  BY DEF AllocPacket, SenderTypes, PacketTypes, callVars, queueVars
<1>2. \A q : q # p => InHands(q, holds') = InHands(q, holds)
  BY <1>1 DEF InHands
<1>3. InHands(p, holds') = InHands(p, holds) \cup {<<"application", t, 0>>}
  BY <1>1 DEF InHands
<1>4. ASSUME NEW q \in Packets, q # p PROVE Exact(q)'
  BY <1>1, <1>2, <1>4, ReferenceParts, Untouched DEF AllExact
<1>5. Exact(p)'
  <2>1. References(p) = {} /\ Exact(p)
    BY <1>1 DEF AllExact, Exact
  <2>2. References(p)' = References(p) \cup {<<"application", t, 0>>}
    BY <1>1, <1>3, ReferenceParts
  <2> QED BY <1>1, <2>1, <2>2, OneMore
<1> QED BY <1>4, <1>5 DEF AllExact

\* A hand-over: one more hand, one more in the count.
LEMMA HandOverExact ==
  ASSUME SenderTypes, AllExact, NEW t \in Threads, NEW u \in Threads, NEW p, HandOver(t, u, p)
  PROVE  AllExact'
<1>1. /\ p \in Packets /\ p \in holds[t] /\ p \notin holds[u]
      /\ pool' = pool /\ refCnt' = [refCnt EXCEPT ![p] = @ + 1]
      /\ holds' = [holds EXCEPT ![u] = @ \cup {p}] /\ UNCHANGED <<packet, SendQ, SendBuffer>>
      /\ holds \in [Threads -> SUBSET Packets] /\ refCnt \in [Packets -> Int]
  BY DEF HandOver, SenderTypes, PacketTypes, callVars, queueVars
<1> DEFINE x == <<"application", u, 0>>
<1>2. \A q : q # p => InHands(q, holds') = InHands(q, holds)
  BY <1>1 DEF InHands
<1>3. InHands(p, holds') = InHands(p, holds) \cup {x}
  BY <1>1 DEF InHands
<1>4. ASSUME NEW q \in Packets, q # p PROVE Exact(q)'
  BY <1>1, <1>2, <1>4, ReferenceParts, Untouched DEF AllExact
<1>5. Exact(p)'
  <2>1. <<"application", t, 0>> \in References(p) /\ x \notin References(p)
    BY <1>1, ThreadMembers
  <2>2. Exact(p) /\ p \notin pool
    BY <1>1, <2>1 DEF AllExact, Exact
  <2>3. References(p)' = References(p) \cup {x}
    BY <1>1, <1>3, ReferenceParts
  <2> HIDE DEF x
  <2> QED BY <1>1, <2>1, <2>2, <2>3, OneMore
<1> QED BY <1>4, <1>5 DEF AllExact

\* Free: one hand less, one less in the count, and back to the pool at zero.
LEMMA GiveBackExact ==
  ASSUME SenderTypes, AllExact, NEW t \in Threads, NEW p, GiveBack(t, p)
  PROVE  AllExact'
<1>1. /\ p \in Packets /\ p \in holds[t] /\ FreePacket(p)
      /\ holds' = [holds EXCEPT ![t] = @ \ {p}] /\ UNCHANGED <<packet, SendQ, SendBuffer>>
      /\ holds \in [Threads -> SUBSET Packets] /\ refCnt \in [Packets -> Int]
  BY DEF GiveBack, SenderTypes, PacketTypes, callVars, queueVars
<1> DEFINE x == <<"application", t, 0>>
<1>2. \A q : q # p => InHands(q, holds') = InHands(q, holds)
  BY <1>1 DEF InHands
<1>3. InHands(p, holds') = InHands(p, holds) \ {x}
  BY <1>1 DEF InHands
<1>4. ASSUME NEW q \in Packets, q # p PROVE Exact(q)'
  <2>1. refCnt'[q] = refCnt[q] /\ (q \in pool' <=> q \in pool)
    BY <1>1, <1>4 DEF FreePacket
  <2> QED BY <1>1, <1>2, <1>4, <2>1, ReferenceParts, Untouched DEF AllExact
<1>5. Exact(p)'
  <2>1. x \in References(p) /\ x \in InHands(p, holds)
    BY <1>1, ThreadMembers
  <2>2. /\ x \notin InCalls(p, packet) /\ x \notin Entries("SendQ", p, SendQ)
        /\ x \notin Entries("SendBuffer", p, SendBuffer)
    BY ThreadMembers
  <2> HIDE DEF x
  <2>3. References(p)' = References(p) \ {x}
    <3>1. References(p)' = (InHands(p, holds) \ {x}) \cup InCalls(p, packet)
                             \cup Entries("SendQ", p, SendQ) \cup Entries("SendBuffer", p, SendBuffer)
      BY <1>1, <1>3, ReferenceParts
    <3>2. References(p) = InHands(p, holds) \cup InCalls(p, packet)
                             \cup Entries("SendQ", p, SendQ) \cup Entries("SendBuffer", p, SendBuffer)
      BY ReferenceParts
    <3> QED BY ONLY <2>2, <3>1, <3>2
  <2>4. /\ Exact(p) /\ IsFiniteSet(References(p)')
        /\ Cardinality(References(p)') = Cardinality(References(p)) - 1
    BY <1>1, <2>1, <2>3, FS_RemoveElement DEF AllExact, Exact
  <2> QED BY <1>1, <2>1, <2>4, OneLess
<1> QED BY <1>4, <1>5 DEF AllExact

\* SendPacket: one more reference, the call's.
LEMMA SendPacketExact ==
  ASSUME SenderTypes, AllExact, NEW t \in Threads, NEW p, NEW s, SendPacket(t, p, s)
  PROVE  AllExact'
<1>1. /\ p \in Packets /\ p \in holds[t] /\ packet[t] = NoPacket
      /\ pool' = pool /\ refCnt' = [refCnt EXCEPT ![p] = @ + 1]
      /\ packet' = [packet EXCEPT ![t] = p] /\ UNCHANGED <<holds, SendQ, SendBuffer>>
      /\ packet \in [Threads -> Packets \cup {NoPacket}] /\ refCnt \in [Packets -> Int]
      /\ NoPacket \notin Packets
  BY PartiesAssumption DEF SendPacket, TakeReference, SenderTypes, PacketTypes, CallTypes, queueVars
<1> DEFINE x == <<"SendPacket", t, 0>>
<1>2. \A q \in Packets : q # p => InCalls(q, packet') = InCalls(q, packet)
  BY <1>1 DEF InCalls
<1>3. InCalls(p, packet') = InCalls(p, packet) \cup {x}
  BY <1>1 DEF InCalls
<1>4. ASSUME NEW q \in Packets, q # p PROVE Exact(q)'
  BY <1>1, <1>2, <1>4, ReferenceParts, Untouched DEF AllExact
<1>5. Exact(p)'
  <2>1. <<"application", t, 0>> \in References(p) /\ x \notin References(p)
    BY <1>1, ThreadMembers
  <2>2. Exact(p) /\ p \notin pool
    BY <1>1, <2>1 DEF AllExact, Exact
  <2>3. References(p)' = References(p) \cup {x}
    BY <1>1, <1>3, ReferenceParts
  <2> HIDE DEF x
  <2> QED BY <1>1, <2>1, <2>2, <2>3, OneMore
<1> QED BY <1>4, <1>5 DEF AllExact

\* Enqueue: the call's reference becomes the queue's.
LEMMA EnqueueExact ==
  ASSUME SenderTypes, AllExact, NEW t \in Threads, Enqueue(t)
  PROVE  AllExact'
<1>0. PICK p \in Packets, s \in Sessions : p = packet[t] /\ s = session[t]
  BY DEF Enqueue, SenderTypes, CallTypes
<1> DEFINE x == <<"SendPacket", t, 0>>
<1> DEFINE y == <<"SendQ", s, Len(SendQ[s]) + 1>>
<1>1. /\ p = packet[t] /\ p \in Packets /\ s \in Sessions /\ NoPacket \notin Packets
      /\ packet' = [packet EXCEPT ![t] = NoPacket] /\ SendQ' = [SendQ EXCEPT ![s] = Append(@, p)]
      /\ UNCHANGED <<pool, refCnt, holds, SendBuffer>>
      /\ packet \in [Threads -> Packets \cup {NoPacket}] /\ SendQ \in [Sessions -> Seq(Packets)]
  BY <1>0, PartiesAssumption DEF Enqueue, SenderTypes, CallTypes, QueueTypes, packetVars
<1>2. /\ InCalls(p, packet') = InCalls(p, packet) \ {x}
      /\ \A q \in Packets : q # p => InCalls(q, packet') = InCalls(q, packet)
  BY <1>1 DEF InCalls
<1>3. /\ \A q : q # p => PlacesOf(q, Append(SendQ[s], p)) = PlacesOf(q, SendQ[s])
      /\ PlacesOf(p, Append(SendQ[s], p)) = PlacesOf(p, SendQ[s]) \cup {Len(SendQ[s]) + 1}
      /\ Len(SendQ[s]) + 1 \notin PlacesOf(p, SendQ[s])
  <2> DEFINE old == SendQ[s]
  <2>1. old \in Seq(Packets)
    BY <1>1
  <2>2. /\ Len(old) \in Nat /\ Len(Append(old, p)) = Len(old) + 1 /\ Append(old, p)[Len(old) + 1] = p
        /\ \A i \in 1 .. Len(old) : Append(old, p)[i] = old[i]
        /\ 1 .. Len(old) + 1 = (1 .. Len(old)) \cup {Len(old) + 1}
        /\ Len(old) + 1 \notin 1 .. Len(old)
    BY <2>1
  <2> HIDE DEF old
  <2>3. \A q : q # p => PlacesOf(q, Append(old, p)) = PlacesOf(q, old)
    BY <2>2 DEF PlacesOf
  <2>4. PlacesOf(p, Append(old, p)) = PlacesOf(p, old) \cup {Len(old) + 1} /\ Len(old) + 1 \notin PlacesOf(p, old)
    BY <2>2 DEF PlacesOf
  <2> QED BY <2>3, <2>4 DEF old
<1>4. \A u \in Sessions : SendQ'[u] = IF u = s THEN Append(SendQ[s], p) ELSE SendQ[u]
  BY <1>1
<1>5. \A q \in Packets : q # p => Entries("SendQ", q, SendQ') = Entries("SendQ", q, SendQ)
  BY <1>3, <1>4 DEF Entries
<1>6. Entries("SendQ", p, SendQ') = Entries("SendQ", p, SendQ) \cup {y}
  BY <1>1, <1>3, <1>4 DEF Entries
<1>7. y \notin Entries("SendQ", p, SendQ)
  BY <1>3 DEF Entries
<1>8. y \notin InHands(p, holds) /\ y \notin InCalls(p, packet) /\ y \notin Entries("SendBuffer", p, SendBuffer)
  BY DEF InHands, InCalls, Entries
<1>9. ASSUME NEW q \in Packets, q # p PROVE Exact(q)'
  BY <1>1, <1>2, <1>5, <1>9, ReferenceParts, Untouched DEF AllExact
<1>10. Exact(p)'
  <2>1. x \in References(p) /\ x \notin Entries("SendQ", p, SendQ)
        /\ x \notin InHands(p, holds) /\ x \notin Entries("SendBuffer", p, SendBuffer)
    <3>1. \A qs : x \notin Entries("SendQ", p, qs) /\ x \notin Entries("SendBuffer", p, qs)
      BY ThreadMembers
    <3> QED BY <1>1, <3>1, ThreadMembers
  <2> HIDE DEF x, y
  <2>2. References(p) = InHands(p, holds) \cup InCalls(p, packet)
                           \cup Entries("SendQ", p, SendQ) \cup Entries("SendBuffer", p, SendBuffer)
    BY ReferenceParts
  <2>3. References(p)' = InHands(p, holds) \cup (InCalls(p, packet) \ {x})
                           \cup (Entries("SendQ", p, SendQ) \cup {y}) \cup Entries("SendBuffer", p, SendBuffer)
    BY <1>1, <1>2, <1>6, ReferenceParts
  <2>4. References(p)' = (References(p) \ {x}) \cup {y}
    BY ONLY <2>1, <2>2, <2>3
  <2>5. y \notin References(p) \ {x}
    BY <1>7, <1>8, <2>2
  <2>6. Exact(p)
    BY <1>1 DEF AllExact
  <2> DEFINE left == References(p) \ {x}
  <2>7. IsFiniteSet(left) /\ Cardinality(left) = Cardinality(References(p)) - 1
    BY <2>1, <2>6, FS_RemoveElement DEF Exact
  <2>8. IsFiniteSet(References(p)') /\ Cardinality(References(p)') = Cardinality(left) + 1
    <3> HIDE DEF left
    <3>1. References(p)' = left \cup {y} /\ y \notin left
      BY <2>4, <2>5 DEF left
    <3> QED BY <2>7, <3>1, FS_AddElement
  <2>9. Cardinality(References(p)) \in Nat
    BY <2>6, FS_CardinalityType DEF Exact
  <2>10. References(p)' # {} /\ References(p) # {}
    BY <2>1, <2>4
  <2> QED BY <1>1, <2>6, <2>7, <2>8, <2>9, <2>10 DEF Exact
<1> QED BY <1>9, <1>10 DEF AllExact

\* Encoding moves no reference.
LEMMA CallStepExact ==
  ASSUME AllExact, NEW t \in Threads, Look(t) \/ LockPacket(t) \/ Encode(t) \/ UnlockPacket(t)
  PROVE  AllExact'
<1>1. UNCHANGED <<pool, refCnt, holds, packet, SendQ, SendBuffer>>
  BY DEF Look, LockPacket, Encode, UnlockPacket, packetVars, queueVars
<1> QED BY <1>1, ReferenceParts DEF AllExact, Exact

-----------------------------------------------------------------------------
(* References of the queue and the buffer of one session *)

Row(tag, s, places) == {<<tag, s, i>> : i \in places}

Others(tag, p, qs, s) == UNION {Row(tag, u, PlacesOf(p, qs[u])) : u \in Sessions \ {s}}

\* The references to p that session s does not hold.
Elsewhere(p, s) ==
  InHands(p, holds) \cup InCalls(p, packet) \cup Others("SendQ", p, SendQ, s) \cup Others("SendBuffer", p, SendBuffer, s)

\* The places of a packet in all sessions are one session's row and the others.
LEMMA EntryRows ==
  ASSUME NEW tag, NEW p, NEW qs, NEW s \in Sessions
  PROVE  Entries(tag, p, qs) = Others(tag, p, qs, s) \cup Row(tag, s, PlacesOf(p, qs[s]))
  BY DEF Entries, Others, Row

\* The references to a packet are one session's two rows and the rest.
LEMMA ReferenceRows ==
  ASSUME NEW p, NEW s \in Sessions
  PROVE  /\ References(p) = Elsewhere(p, s) \cup (Row("SendQ", s, PlacesOf(p, SendQ[s]))
                                                   \cup Row("SendBuffer", s, PlacesOf(p, SendBuffer[s])))
         /\ References(p)' = Elsewhere(p, s)' \cup (Row("SendQ", s, PlacesOf(p, SendQ'[s]))
                                                     \cup Row("SendBuffer", s, PlacesOf(p, SendBuffer'[s])))
<1>1. /\ Entries("SendQ", p, SendQ) = Others("SendQ", p, SendQ, s) \cup Row("SendQ", s, PlacesOf(p, SendQ[s]))
      /\ Entries("SendBuffer", p, SendBuffer)
           = Others("SendBuffer", p, SendBuffer, s) \cup Row("SendBuffer", s, PlacesOf(p, SendBuffer[s]))
      /\ Entries("SendQ", p, SendQ') = Others("SendQ", p, SendQ', s) \cup Row("SendQ", s, PlacesOf(p, SendQ'[s]))
      /\ Entries("SendBuffer", p, SendBuffer')
           = Others("SendBuffer", p, SendBuffer', s) \cup Row("SendBuffer", s, PlacesOf(p, SendBuffer'[s]))
  BY EntryRows
<1>2. References(p) = Elsewhere(p, s) \cup (Row("SendQ", s, PlacesOf(p, SendQ[s]))
                                              \cup Row("SendBuffer", s, PlacesOf(p, SendBuffer[s])))
  BY <1>1, ReferenceParts DEF Elsewhere
<1>3. References(p)' = Elsewhere(p, s)' \cup (Row("SendQ", s, PlacesOf(p, SendQ'[s]))
                                                \cup Row("SendBuffer", s, PlacesOf(p, SendBuffer'[s])))
  BY <1>1, ReferenceParts DEF Elsewhere
<1> QED BY <1>2, <1>3

\* The two rows of a session and the rest are disjoint.
LEMMA RowsApart ==
  ASSUME NEW p, NEW s \in Sessions, NEW P, NEW Q
  PROVE  /\ Row("SendQ", s, P) \cap Row("SendBuffer", s, Q) = {}
         /\ Elsewhere(p, s) \cap (Row("SendQ", s, P) \cup Row("SendBuffer", s, Q)) = {}
<1>1. Row("SendQ", s, P) \cap Row("SendBuffer", s, Q) = {}
  BY DEF Row
<1>2. \A x \in Row("SendQ", s, P) \cup Row("SendBuffer", s, Q) :
        x \notin InHands(p, holds) /\ x \notin InCalls(p, packet)
  BY DEF Row, InHands, InCalls
<1>3. \A x \in Row("SendQ", s, P) : x \notin Others("SendQ", p, SendQ, s) /\ x \notin Others("SendBuffer", p, SendBuffer, s)
  BY DEF Row, Others
<1>4. \A x \in Row("SendBuffer", s, Q) : x \notin Others("SendQ", p, SendQ, s) /\ x \notin Others("SendBuffer", p, SendBuffer, s)
  BY DEF Row, Others
<1> QED BY <1>1, <1>2, <1>3, <1>4 DEF Elsewhere

\* A row has as many members as there are places.
LEMMA RowSize ==
  ASSUME NEW tag, NEW s, NEW places, IsFiniteSet(places)
  PROVE  IsFiniteSet(Row(tag, s, places)) /\ Cardinality(Row(tag, s, places)) = Cardinality(places)
<1> DEFINE f == [i \in places |-> <<tag, s, i>>]
<1>1. f \in Bijection(places, Row(tag, s, places))
  BY DEF Row, Bijection, Injection, Surjection, IsInjective
<1> QED BY <1>1, FS_Bijection DEF ExistsBijection

\* A packet has finitely many places in a queue.
LEMMA PlacesFinite ==
  ASSUME NEW p, NEW q, Len(q) \in Nat
  PROVE  IsFiniteSet(PlacesOf(p, q))
<1>1. PlacesOf(p, q) \subseteq 1 .. Len(q) /\ IsFiniteSet(1 .. Len(q))
  BY FS_Interval DEF PlacesOf
<1> QED BY <1>1, FS_Subset

\* The references are those elsewhere and those at the places of the two queues.
LEMMA RowsCounted ==
  ASSUME NEW p, NEW s \in Sessions, NEW P, NEW Q,
         IsFiniteSet(Elsewhere(p, s)), IsFiniteSet(P), IsFiniteSet(Q)
  PROVE  LET all == Elsewhere(p, s) \cup (Row("SendQ", s, P) \cup Row("SendBuffer", s, Q))
         IN /\ IsFiniteSet(all)
            /\ Cardinality(all) = Cardinality(Elsewhere(p, s)) + (Cardinality(P) + Cardinality(Q))
<1> DEFINE A == Row("SendQ", s, P)
<1> DEFINE B == Row("SendBuffer", s, Q)
<1> DEFINE C == Elsewhere(p, s)
<1>1. /\ IsFiniteSet(A) /\ Cardinality(A) = Cardinality(P)
      /\ IsFiniteSet(B) /\ Cardinality(B) = Cardinality(Q)
  BY RowSize
<1>2. A \cap B = {} /\ C \cap (A \cup B) = {}
  BY RowsApart
<1> HIDE DEF A, B, C
<1>3. Cardinality({}) = 0 /\ Cardinality(A) \in Nat /\ Cardinality(B) \in Nat
  BY <1>1, FS_EmptySet, FS_CardinalityType
<1>4. IsFiniteSet(A \cup B) /\ Cardinality(A \cup B) = Cardinality(A) + Cardinality(B)
  <2>1. IsFiniteSet(A \cup B) /\ Cardinality(A \cup B) = Cardinality(A) + Cardinality(B) - Cardinality(A \cap B)
    BY <1>1, FS_Union
  <2>2. Cardinality(A \cap B) = 0
    BY <1>2, <1>3
  <2>3. \A a, b \in Nat : a + b - 0 = a + b
    OBVIOUS
  <2> QED BY <1>3, <2>1, <2>2, <2>3
<1>5. IsFiniteSet(C) /\ Cardinality(C) \in Nat
  BY FS_CardinalityType DEF C
<1>6. IsFiniteSet(C \cup (A \cup B)) /\ Cardinality(C \cup (A \cup B)) = Cardinality(C) + Cardinality(A \cup B)
  <2> DEFINE D == A \cup B
  <2>1. IsFiniteSet(D) /\ C \cap D = {} /\ Cardinality(D) \in Nat
    BY <1>2, <1>4, FS_CardinalityType
  <2> HIDE DEF D
  <2>2. IsFiniteSet(C \cup D) /\ Cardinality(C \cup D) = Cardinality(C) + Cardinality(D)
    <3>1. IsFiniteSet(C \cup D) /\ Cardinality(C \cup D) = Cardinality(C) + Cardinality(D) - Cardinality(C \cap D)
      BY <1>5, <2>1, FS_Union
    <3>2. Cardinality(C \cap D) = 0
      BY <1>3, <2>1
    <3>3. \A a, b \in Nat : a + b - 0 = a + b
      OBVIOUS
    <3> QED BY <1>5, <2>1, <3>1, <3>2, <3>3
  <2> QED BY <2>2 DEF D
<1> QED BY <1>1, <1>4, <1>6 DEF A, B, C

\* A session's step moves what it holds, and drops so many references to p.
LEMMA SessionCount ==
  ASSUME SenderTypes, AllExact, SenderTypes', NEW p \in Packets, NEW s \in Sessions, Elsewhere(p, s)' = Elsewhere(p, s)
  PROVE  LET before == Cardinality(PlacesOf(p, SendQ[s])) + Cardinality(PlacesOf(p, SendBuffer[s]))
             after  == Cardinality(PlacesOf(p, SendQ'[s])) + Cardinality(PlacesOf(p, SendBuffer'[s]))
         IN /\ IsFiniteSet(References(p)') /\ before \in Nat /\ after \in Nat
            /\ Cardinality(References(p)) \in Nat
            /\ Cardinality(References(p)') = Cardinality(References(p)) - before + after
<1>1. /\ IsFiniteSet(PlacesOf(p, SendQ[s])) /\ IsFiniteSet(PlacesOf(p, SendBuffer[s]))
      /\ IsFiniteSet(PlacesOf(p, SendQ'[s])) /\ IsFiniteSet(PlacesOf(p, SendBuffer'[s]))
  <2>1. Len(SendQ[s]) \in Nat /\ Len(SendBuffer[s]) \in Nat /\ Len(SendQ'[s]) \in Nat /\ Len(SendBuffer'[s]) \in Nat
    BY DEF SenderTypes, QueueTypes
  <2> QED BY <2>1, PlacesFinite
<1>2. IsFiniteSet(References(p)) /\ IsFiniteSet(Elsewhere(p, s))
  <2>1. IsFiniteSet(References(p)) /\ Elsewhere(p, s) \subseteq References(p)
    BY ReferenceRows DEF AllExact, Exact
  <2> QED BY <2>1, FS_Subset
<1>3. Cardinality(References(p))
        = Cardinality(Elsewhere(p, s)) + (Cardinality(PlacesOf(p, SendQ[s])) + Cardinality(PlacesOf(p, SendBuffer[s])))
  BY <1>1, <1>2, RowsCounted, ReferenceRows
<1>4. /\ IsFiniteSet(References(p)')
      /\ Cardinality(References(p)')
           = Cardinality(Elsewhere(p, s)) + (Cardinality(PlacesOf(p, SendQ'[s])) + Cardinality(PlacesOf(p, SendBuffer'[s])))
  <2> DEFINE P == PlacesOf(p, SendQ'[s])
  <2> DEFINE Q == PlacesOf(p, SendBuffer'[s])
  <2>1. References(p)' = Elsewhere(p, s) \cup (Row("SendQ", s, P) \cup Row("SendBuffer", s, Q))
    BY ReferenceRows
  <2>2. IsFiniteSet(P) /\ IsFiniteSet(Q)
    BY <1>1
  <2> HIDE DEF P, Q
  <2>3. LET all == Elsewhere(p, s) \cup (Row("SendQ", s, P) \cup Row("SendBuffer", s, Q))
        IN IsFiniteSet(all) /\ Cardinality(all) = Cardinality(Elsewhere(p, s)) + (Cardinality(P) + Cardinality(Q))
    BY <1>2, <2>2, RowsCounted
  <2> QED BY <2>1, <2>3 DEF P, Q
<1>5. /\ Cardinality(PlacesOf(p, SendQ[s])) \in Nat /\ Cardinality(PlacesOf(p, SendBuffer[s])) \in Nat
      /\ Cardinality(PlacesOf(p, SendQ'[s])) \in Nat /\ Cardinality(PlacesOf(p, SendBuffer'[s])) \in Nat
      /\ Cardinality(References(p)) \in Nat /\ Cardinality(Elsewhere(p, s)) \in Nat
  BY <1>1, <1>2, FS_CardinalityType
<1> QED BY <1>3, <1>4, <1>5

\* The references to p are as many as before.
LEMMA SameCount ==
  ASSUME NEW p \in Packets, Exact(p), IsFiniteSet(References(p)'),
         Cardinality(References(p)') = Cardinality(References(p)),
         refCnt'[p] = refCnt[p], p \in pool' <=> p \in pool
  PROVE  Exact(p)'
<1>1. References(p)' = {} <=> References(p) = {}
  BY FS_EmptySet DEF Exact
<1> QED BY <1>1 DEF Exact

\* SendPost: places in the queue become places in the buffer.
LEMMA SendPostExact ==
  ASSUME SenderTypes, AllExact, SenderTypes', NEW s \in Sessions, SendPost(s)
  PROVE  AllExact'
<1>1. /\ SendBuffer[s] = <<>> /\ SendBuffer'[s] = SendQ[s] /\ SendQ'[s] = <<>>
      /\ \A u \in Sessions : u # s => SendBuffer'[u] = SendBuffer[u] /\ SendQ'[u] = SendQ[u]
      /\ UNCHANGED <<pool, refCnt, holds, packet>>
  BY DEF SendPost, SenderTypes, QueueTypes, packetVars, callVars
<1>2. ASSUME NEW p \in Packets PROVE Exact(p)'
  <2>1. Elsewhere(p, s)' = Elsewhere(p, s)
    BY <1>1 DEF Elsewhere, Others
  <2>2. PlacesOf(p, <<>>) = {} /\ Cardinality({}) = 0
    BY FS_EmptySet DEF PlacesOf
  <2>3. /\ IsFiniteSet(References(p)') /\ Cardinality(References(p)) \in Nat
        /\ Cardinality(References(p)') = Cardinality(References(p))
    <3> DEFINE n == Cardinality(PlacesOf(p, SendQ[s]))
    <3> DEFINE c == Cardinality(References(p))
    <3>1. /\ IsFiniteSet(References(p)') /\ n + 0 \in Nat /\ 0 + n \in Nat /\ c \in Nat
          /\ Cardinality(References(p)') = c - (n + 0) + (0 + n)
      BY <1>1, <2>1, <2>2, SessionCount
    <3>2. n \in Nat
      <4>1. Len(SendQ[s]) \in Nat
        BY DEF SenderTypes, QueueTypes
      <4> QED BY <4>1, PlacesFinite, FS_CardinalityType
    <3> HIDE DEF n, c
    <3>3. c - (n + 0) + (0 + n) = c
      BY <3>1, <3>2
    <3> QED BY <3>1, <3>3 DEF c
  <2> QED BY <1>1, <2>3, SameCount DEF AllExact
<1> QED BY <1>2 DEF AllExact

\* What follows a sequence's first element moves forward by one place.
LEMMA TailPlaces ==
  ASSUME NEW q \in Seq(Packets), q # <<>>, NEW p
  PROVE  /\ IsFiniteSet(PlacesOf(p, q)) /\ Cardinality(PlacesOf(p, q)) \in Nat
         /\ Cardinality(PlacesOf(p, Tail(q)))
              = Cardinality(PlacesOf(p, q)) - (IF Head(q) = p THEN 1 ELSE 0)
<1>1. Len(q) \in Nat /\ Len(q) >= 1 /\ Head(q) = q[1] /\ Len(Tail(q)) = Len(q) - 1
  OBVIOUS
<1>2. \A i \in 1 .. Len(Tail(q)) : i + 1 \in 1 .. Len(q) /\ i + 1 # 1 /\ Tail(q)[i] = q[i + 1]
  BY <1>1
<1>3. \A i \in 1 .. Len(q) : i # 1 => i - 1 \in 1 .. Len(Tail(q)) /\ Tail(q)[i - 1] = q[i] /\ (i - 1) + 1 = i
  BY <1>1
<1>4. IsFiniteSet(PlacesOf(p, q)) /\ Cardinality(PlacesOf(p, q)) \in Nat
  BY <1>1, PlacesFinite, FS_CardinalityType
<1> DEFINE old == PlacesOf(p, q) \ {1}
<1> DEFINE new == PlacesOf(p, Tail(q))
<1> DEFINE f == [i \in new |-> i + 1]
<1>5. f \in Bijection(new, old)
  <2>1. \A i \in new : i + 1 \in old /\ i \in Int
    BY <1>2 DEF PlacesOf
  <2>2. \A j \in old : j - 1 \in new /\ (j - 1) + 1 = j
    BY <1>3 DEF PlacesOf
  <2> HIDE DEF new, old
  <2>3. f \in [new -> old]
    BY <2>1
  <2>4. \A a, b \in new : f[a] = f[b] => a = b
    <3>1. ASSUME NEW a \in new, NEW b \in new, a + 1 = b + 1 PROVE a = b
      BY <2>1, <3>1
    <3> QED BY <3>1
  <2>5. \A j \in old : \E i \in new : f[i] = j
    BY <2>2
  <2> QED BY <2>3, <2>4, <2>5 DEF Bijection, Injection, Surjection, IsInjective
<1>6. IsFiniteSet(new) /\ Cardinality(old) = Cardinality(new)
  <2>1. Len(Tail(q)) \in Nat
    BY <1>1
  <2>2. IsFiniteSet(new)
    BY <2>1, PlacesFinite
  <2> HIDE DEF new, old, f
  <2> QED BY <1>5, <2>2, FS_Bijection DEF ExistsBijection
<1>7. 1 \in PlacesOf(p, q) <=> Head(q) = p
  BY <1>1 DEF PlacesOf
<1>8. Cardinality(old) = IF 1 \in PlacesOf(p, q) THEN Cardinality(PlacesOf(p, q)) - 1 ELSE Cardinality(PlacesOf(p, q))
  BY <1>4, FS_RemoveElement
<1> QED BY <1>4, <1>6, <1>7, <1>8

\* A completed send gives back every place of the buffer.
LEMMA SendDoneExact ==
  ASSUME SenderTypes, AllExact, SenderTypes', NEW s \in Sessions, SendDone(s)
  PROVE  AllExact'
<1> DEFINE q == SendBuffer[s]
<1>1. /\ q \in Seq(Packets) /\ q # <<>> /\ Head(q) \in Packets /\ FreePacket(Head(q))
      /\ SendBuffer'[s] = Tail(q) /\ SendQ' = SendQ
      /\ \A u \in Sessions : u # s => SendBuffer'[u] = SendBuffer[u]
      /\ UNCHANGED <<holds, packet>> /\ refCnt \in [Packets -> Int]
  BY DEF SendDone, SenderTypes, PacketTypes, QueueTypes, callVars
<1>2. ASSUME NEW p \in Packets PROVE Exact(p)'
  <2>1. Elsewhere(p, s)' = Elsewhere(p, s)
    BY <1>1 DEF Elsewhere, Others
  <2> DEFINE gone == IF Head(q) = p THEN 1 ELSE 0
  <2>2. /\ IsFiniteSet(References(p)') /\ Cardinality(References(p)) \in Nat
        /\ Cardinality(References(p)') = Cardinality(References(p)) - gone
    <3> DEFINE n == Cardinality(PlacesOf(p, SendQ[s]))
    <3> DEFINE b == Cardinality(PlacesOf(p, q))
    <3> DEFINE c == Cardinality(References(p))
    <3>1. Cardinality(PlacesOf(p, Tail(q))) = b - gone /\ b \in Nat /\ gone \in Int
      BY <1>1, TailPlaces
    <3>2. /\ IsFiniteSet(References(p)') /\ c \in Nat
          /\ Cardinality(References(p)') = c - (n + b) + (n + (b - gone))
      BY <1>1, <2>1, <3>1, SessionCount
    <3>3. n \in Nat
      <4>1. Len(SendQ[s]) \in Nat
        BY DEF SenderTypes, QueueTypes
      <4> QED BY <4>1, PlacesFinite, FS_CardinalityType
    <3> HIDE DEF n, b, c, gone
    <3>4. c - (n + b) + (n + (b - gone)) = c - gone
      BY <3>1, <3>2, <3>3
    <3> QED BY <3>2, <3>4 DEF c
  <2>3. CASE Head(q) # p
    <3>1. refCnt'[p] = refCnt[p] /\ (p \in pool' <=> p \in pool)
      BY <1>1, <2>3 DEF FreePacket
    <3>2. Cardinality(References(p)') = Cardinality(References(p))
      BY <2>2, <2>3
    <3> QED BY <2>2, <3>1, <3>2, SameCount DEF AllExact
  <2>4. CASE Head(q) = p
    <3>1. <<"SendBuffer", s, 1>> \in References(p)
      <4>1. 1 \in PlacesOf(p, q)
        BY <1>1, <2>4 DEF PlacesOf
      <4> QED BY <4>1, ReferenceRows DEF Row
    <3>2. Cardinality(References(p)') = Cardinality(References(p)) - 1 /\ FreePacket(p)
      BY <1>1, <2>2, <2>4
    <3> QED BY <1>1, <2>2, <3>1, <3>2, OneLess DEF AllExact
  <2> QED BY <2>3, <2>4
<1> QED BY <1>2 DEF AllExact

\* The kernel's reading moves no reference.
LEMMA TransmitExact ==
  ASSUME AllExact, NEW s \in Sessions, Transmit(s)
  PROVE  AllExact'
<1>1. UNCHANGED <<pool, refCnt, holds, packet, SendQ, SendBuffer>>
  BY DEF Transmit, packetVars, callVars
<1> QED BY <1>1, ReferenceParts DEF AllExact, Exact

\* Every step keeps all counts exact.
LEMMA ExactStep == SenderTypes /\ AllExact /\ SenderTypes' /\ [SenderNext]_senderVars => AllExact'
<1> SUFFICES ASSUME SenderTypes, AllExact, SenderTypes', [SenderNext]_senderVars PROVE AllExact'
  OBVIOUS
<1>1. ASSUME NEW t \in Threads, AppSteps(t) PROVE AllExact'
  BY <1>1, AllocExact, HandOverExact, GiveBackExact, SendPacketExact DEF AppSteps
<1>2. ASSUME NEW t \in Threads, SendSteps(t) PROVE AllExact'
  BY <1>2, CallStepExact, EnqueueExact DEF SendSteps
<1>3. ASSUME NEW s \in Sessions, SessionSteps(s) PROVE AllExact'
  BY <1>3, SendPostExact, TransmitExact, SendDoneExact DEF SessionSteps
<1>4. ASSUME UNCHANGED senderVars PROVE AllExact'
  <2>1. UNCHANGED <<pool, refCnt, holds, packet, SendQ, SendBuffer>>
    BY <1>4 DEF senderVars, packetVars, callVars, queueVars
  <2> QED BY <2>1, ReferenceParts DEF AllExact, Exact
<1> QED BY <1>1, <1>2, <1>3, <1>4 DEF SenderNext

-----------------------------------------------------------------------------
(* Encoding *)

\* The lock of a packet is held by the thread that is between LockPacket and
\* UnlockPacket with it.
LockHeld ==
  \A p \in Packets, t \in Threads : lock[p] = t <=> packet[t] = p /\ pc[t] \in {"encode", "unlock"}

\* What a packet holds, by its flag and its lock.
DataKnown ==
  \A p \in Packets :
    /\ encodeFlag[p] => Carries(data[p], written[p])
    /\ ~encodeFlag[p] /\ lock[p] = NoThread => data[p] = written[p]

\* What a thread knows of the packet that it is sending.
CallKnows ==
  \A t \in Threads :
    /\ pc[t] = "encode" => ~encodeFlag[packet[t]] /\ data[packet[t]] = written[packet[t]]
    /\ pc[t] = "unlock" => Carries(data[packet[t]], written[packet[t]])
    /\ pc[t] = "enqueue" => encodeFlag[packet[t]]

QueuedFlagged ==
  \A s \in Sessions :
    /\ \A i \in 1 .. Len(SendQ[s]) : encodeFlag[SendQ[s][i]]
    /\ \A i \in 1 .. Len(SendBuffer[s]) : encodeFlag[SendBuffer[s][i]]

EncodingOrder == LockHeld /\ DataKnown /\ CallKnows /\ QueuedFlagged

\* A packet without references is in no queue and in no posted buffer.
LEMMA NotQueued ==
  ASSUME NEW p, References(p) = {}
  PROVE  /\ \A s \in Sessions : \A i \in 1 .. Len(SendQ[s]) : SendQ[s][i] # p
         /\ \A s \in Sessions : \A i \in 1 .. Len(SendBuffer[s]) : SendBuffer[s][i] # p
<1>1. Entries("SendQ", p, SendQ) = {} /\ Entries("SendBuffer", p, SendBuffer) = {}
  BY ReferenceParts
<1>2. ASSUME NEW s \in Sessions, NEW i \in 1 .. Len(SendQ[s]) PROVE SendQ[s][i] # p
  <2>1. <<"SendQ", s, i>> \notin Entries("SendQ", p, SendQ)
    BY <1>1
  <2> QED BY <2>1 DEF Entries, PlacesOf
<1>3. ASSUME NEW s \in Sessions, NEW i \in 1 .. Len(SendBuffer[s]) PROVE SendBuffer[s][i] # p
  <2>1. <<"SendBuffer", s, i>> \notin Entries("SendBuffer", p, SendBuffer)
    BY <1>1
  <2> QED BY <2>1 DEF Entries, PlacesOf
<1> QED BY <1>2, <1>3

\* The pool gives a packet that no thread sends and no session has.
LEMMA AllocOrder ==
  ASSUME SenderTypes, AllExact, EncodingOrder, NEW t \in Threads, NEW p, NEW payload, AllocPacket(t, p, payload)
  PROVE  EncodingOrder'
<1>1. /\ p \in Packets /\ References(p) = {}
      /\ data' = [data EXCEPT ![p] = payload] /\ encodeFlag' = [encodeFlag EXCEPT ![p] = FALSE]
      /\ written' = [written EXCEPT ![p] = payload]
      /\ UNCHANGED <<lock, pc, packet, SendQ, SendBuffer>>
      /\ DOMAIN data = Packets /\ encodeFlag \in [Packets -> BOOLEAN] /\ written \in [Packets -> Seq(Byte)]
  BY DEF AllocPacket, ClearPacket, AllExact, Exact, SenderTypes, PacketTypes, callVars, queueVars
<1>2. \A u \in Threads : packet[u] # p
  BY <1>1, ThreadMembers
<1>3. /\ \A s \in Sessions : \A i \in 1 .. Len(SendQ[s]) : SendQ[s][i] # p
      /\ \A s \in Sessions : \A i \in 1 .. Len(SendBuffer[s]) : SendBuffer[s][i] # p
  BY <1>1, NotQueued
<1>4. /\ data'[p] = payload /\ written'[p] = payload /\ encodeFlag'[p] = FALSE
      /\ \A q : q # p => data'[q] = data[q] /\ written'[q] = written[q] /\ encodeFlag'[q] = encodeFlag[q]
  <2>1. \A q : q # p => data'[q] = data[q] /\ written'[q] = written[q] /\ encodeFlag'[q] = encodeFlag[q]
    BY <1>1
  <2> QED BY <1>1, <2>1
<1>5. LockHeld'
  BY <1>1 DEF EncodingOrder, LockHeld
<1>6. DataKnown'
  BY <1>1, <1>4 DEF EncodingOrder, DataKnown
<1>7. CallKnows'
  BY <1>1, <1>2, <1>4 DEF EncodingOrder, CallKnows
<1>8. QueuedFlagged'
  BY <1>1, <1>3, <1>4 DEF EncodingOrder, QueuedFlagged
<1> QED BY <1>5, <1>6, <1>7, <1>8 DEF EncodingOrder

\* Steps that neither encode a packet nor queue one.
LEMMA PlainOrder ==
  ASSUME EncodingOrder, UNCHANGED <<data, encodeFlag, lock, written, pc, packet, SendQ, SendBuffer>>
  PROVE  EncodingOrder'
  BY DEF EncodingOrder, LockHeld, DataKnown, CallKnows, QueuedFlagged

\* A new call has not looked at EncodeFlag yet.
LEMMA SendPacketOrder ==
  ASSUME SenderTypes, EncodingOrder, NEW t \in Threads, NEW p, NEW s, SendPacket(t, p, s)
  PROVE  EncodingOrder'
<1>1. /\ pc[t] = "app" /\ UNCHANGED <<data, encodeFlag, lock, written, SendQ, SendBuffer>>
      /\ pc'[t] = "look" /\ \A u \in Threads : u # t => pc'[u] = pc[u] /\ packet'[u] = packet[u]
  BY DEF SendPacket, Goto, SenderTypes, CallTypes, queueVars
<1>2. LockHeld'
  BY <1>1 DEF EncodingOrder, LockHeld
<1>3. CallKnows'
  BY <1>1 DEF EncodingOrder, CallKnows
<1> QED BY <1>1, <1>2, <1>3 DEF EncodingOrder, DataKnown, QueuedFlagged

\* Who sees EncodeFlag set sees an encoded packet.
LEMMA LookOrder ==
  ASSUME SenderTypes, EncodingOrder, NEW t \in Threads, Look(t)
  PROVE  EncodingOrder'
<1>1. /\ pc[t] = "look" /\ UNCHANGED <<data, encodeFlag, lock, written, packet, SendQ, SendBuffer>>
      /\ pc'[t] = (IF encodeFlag[packet[t]] THEN "enqueue" ELSE "lock")
      /\ \A u \in Threads : u # t => pc'[u] = pc[u]
  BY DEF Look, Goto, SenderTypes, CallTypes, packetVars, queueVars
<1>2. LockHeld'
  BY <1>1 DEF EncodingOrder, LockHeld
<1>3. CallKnows'
  BY <1>1 DEF EncodingOrder, CallKnows
<1> QED BY <1>1, <1>2, <1>3 DEF EncodingOrder, DataKnown, QueuedFlagged

\* The lock was free: what the packet holds is known by its flag.
LEMMA LockOrder ==
  ASSUME SenderTypes, EncodingOrder, NEW t \in Threads, LockPacket(t)
  PROVE  EncodingOrder'
<1>1. PICK p \in Packets : p = packet[t]
  BY DEF LockPacket, SenderTypes, CallTypes
<1>2. /\ pc[t] = "lock" /\ lock[p] = NoThread /\ NoThread \notin Threads
      /\ lock' = [lock EXCEPT ![p] = t] /\ UNCHANGED <<data, encodeFlag, written, packet, SendQ, SendBuffer>>
      /\ pc'[t] = (IF encodeFlag[p] THEN "unlock" ELSE "encode")
      /\ \A u \in Threads : u # t => pc'[u] = pc[u]
      /\ lock \in [Packets -> Threads \cup {NoThread}]
  BY <1>1, PartiesAssumption DEF LockPacket, LookAgain, Goto, SenderTypes, CallTypes, PacketTypes, queueVars
<1>3. lock'[p] = t /\ \A q \in Packets : q # p => lock'[q] = lock[q]
  BY <1>2
<1>4. \A u \in Threads : packet[u] = p => pc[u] \notin {"encode", "unlock"}
  BY <1>2 DEF EncodingOrder, LockHeld
<1>5. LockHeld'
  <2> SUFFICES ASSUME NEW q \in Packets, NEW u \in Threads
               PROVE  lock'[q] = u <=> packet'[u] = q /\ pc'[u] \in {"encode", "unlock"}
    BY DEF LockHeld
  <2>1. lock[q] = u <=> packet[u] = q /\ pc[u] \in {"encode", "unlock"}
    BY DEF EncodingOrder, LockHeld
  <2>2. CASE u = t
    BY <1>1, <1>2, <1>3, <2>1, <2>2
  <2>3. CASE u # t
    BY <1>1, <1>2, <1>3, <1>4, <2>1, <2>3
  <2> QED BY <2>2, <2>3
<1>6. DataKnown'
  BY <1>2, <1>3 DEF EncodingOrder, DataKnown
<1>7. CallKnows'
  BY <1>1, <1>2 DEF EncodingOrder, CallKnows, DataKnown
<1> QED BY <1>2, <1>5, <1>6, <1>7 DEF EncodingOrder, QueuedFlagged

\* Only the thread that holds the lock encodes the packet.
LEMMA EncodeOrder ==
  ASSUME SenderTypes, EncodingOrder, NEW t \in Threads, Encode(t)
  PROVE  EncodingOrder'
<1>1. PICK p \in Packets : p = packet[t]
  BY DEF Encode, SenderTypes, CallTypes
<1>2. /\ pc[t] = "encode" /\ pc'[t] = "unlock" /\ UNCHANGED <<encodeFlag, lock, written, packet, SendQ, SendBuffer>>
      /\ \A u \in Threads : u # t => pc'[u] = pc[u]
      /\ written[p] \in Seq(Byte) /\ DOMAIN data = Packets /\ NoThread \notin Threads
  BY <1>1, PartiesAssumption DEF Encode, Goto, SenderTypes, CallTypes, PacketTypes, queueVars
<1>3. PICK rkey \in RandomKeys : \E e \in Encodings(data[p], rkey) : data' = [data EXCEPT ![p] = e]
  BY <1>1 DEF Encode
<1>4. PICK e \in Encodings(data[p], rkey) : data' = [data EXCEPT ![p] = e]
  BY <1>3
<1>5. ~encodeFlag[p] /\ data[p] = written[p] /\ lock[p] = t
  BY <1>1, <1>2 DEF EncodingOrder, CallKnows, LockHeld
<1>6. Carries(e, written[p])
  BY <1>2, <1>4, <1>5, DecodeInvertsEncode, BudgetAssumption
<1>7. data'[p] = e /\ \A q \in Packets : q # p => data'[q] = data[q]
  BY <1>2, <1>4
<1>8. \A u \in Threads : u # t /\ packet[u] = p => pc[u] \notin {"encode", "unlock"}
  BY <1>5 DEF EncodingOrder, LockHeld
<1>9. LockHeld'
  BY <1>1, <1>2 DEF EncodingOrder, LockHeld
<1>10. DataKnown'
  BY <1>2, <1>5, <1>7 DEF EncodingOrder, DataKnown
<1>11. CallKnows'
  <2> SUFFICES ASSUME NEW u \in Threads
               PROVE  /\ pc'[u] = "encode" => ~encodeFlag[packet[u]] /\ data'[packet[u]] = written[packet[u]]
                      /\ pc'[u] = "unlock" => Carries(data'[packet[u]], written[packet[u]])
                      /\ pc'[u] = "enqueue" => encodeFlag[packet[u]]
    BY <1>2 DEF CallKnows
  <2>1. CASE u = t
    BY <1>1, <1>2, <1>6, <1>7, <2>1
  <2>2. CASE u # t
    <3>1. /\ pc[u] = "encode" => ~encodeFlag[packet[u]] /\ data[packet[u]] = written[packet[u]]
          /\ pc[u] = "unlock" => Carries(data[packet[u]], written[packet[u]])
          /\ pc[u] = "enqueue" => encodeFlag[packet[u]]
      BY DEF EncodingOrder, CallKnows
    <3>2. pc[u] \in {"encode", "unlock"} => packet[u] # p /\ packet[u] \in Packets
      BY <1>8, <2>2 DEF SenderTypes, CallTypes
    <3> QED BY <1>2, <1>7, <2>2, <3>1, <3>2
  <2> QED BY <2>1, <2>2
<1> QED BY <1>2, <1>9, <1>10, <1>11 DEF EncodingOrder, QueuedFlagged

\* The flag is set before the lock is given back.
LEMMA UnlockOrder ==
  ASSUME SenderTypes, EncodingOrder, NEW t \in Threads, UnlockPacket(t)
  PROVE  EncodingOrder'
<1>1. PICK p \in Packets : p = packet[t]
  BY DEF UnlockPacket, SenderTypes, CallTypes
<1>2. /\ pc[t] = "unlock" /\ pc'[t] = "enqueue" /\ UNCHANGED <<data, written, packet, SendQ, SendBuffer>>
      /\ \A u \in Threads : u # t => pc'[u] = pc[u]
      /\ encodeFlag' = [encodeFlag EXCEPT ![p] = TRUE] /\ lock' = [lock EXCEPT ![p] = NoThread]
      /\ encodeFlag \in [Packets -> BOOLEAN] /\ lock \in [Packets -> Threads \cup {NoThread}]
      /\ NoThread \notin Threads
  BY <1>1, PartiesAssumption DEF UnlockPacket, Goto, SenderTypes, CallTypes, PacketTypes, queueVars
<1>3. /\ encodeFlag'[p] /\ lock'[p] = NoThread
      /\ \A q \in Packets : q # p => encodeFlag'[q] = encodeFlag[q] /\ lock'[q] = lock[q]
  BY <1>2
<1>4. Carries(data[p], written[p]) /\ lock[p] = t
  BY <1>1, <1>2 DEF EncodingOrder, CallKnows, LockHeld
<1>5. \A u \in Threads : u # t /\ packet[u] = p => pc[u] \notin {"encode", "unlock"}
  BY <1>4 DEF EncodingOrder, LockHeld
<1>6. LockHeld'
  <2> SUFFICES ASSUME NEW q \in Packets, NEW u \in Threads
               PROVE  lock'[q] = u <=> packet'[u] = q /\ pc'[u] \in {"encode", "unlock"}
    BY DEF LockHeld
  <2>1. lock[q] = u <=> packet[u] = q /\ pc[u] \in {"encode", "unlock"}
    BY DEF EncodingOrder, LockHeld
  <2>2. CASE u = t
    BY <1>1, <1>2, <1>3, <2>1, <2>2
  <2>3. CASE u # t
    BY <1>1, <1>2, <1>3, <1>5, <2>1, <2>3
  <2> QED BY <2>2, <2>3
<1>7. DataKnown'
  BY <1>2, <1>3, <1>4 DEF EncodingOrder, DataKnown
<1>8. CallKnows'
  <2> SUFFICES ASSUME NEW u \in Threads
               PROVE  /\ pc'[u] = "encode" => ~encodeFlag'[packet[u]] /\ data[packet[u]] = written[packet[u]]
                      /\ pc'[u] = "unlock" => Carries(data[packet[u]], written[packet[u]])
                      /\ pc'[u] = "enqueue" => encodeFlag'[packet[u]]
    BY <1>2 DEF CallKnows
  <2>1. CASE u = t
    BY <1>1, <1>2, <1>3, <2>1
  <2>2. CASE u # t
    <3>1. /\ pc[u] = "encode" => ~encodeFlag[packet[u]] /\ data[packet[u]] = written[packet[u]]
          /\ pc[u] = "unlock" => Carries(data[packet[u]], written[packet[u]])
          /\ pc[u] = "enqueue" => encodeFlag[packet[u]]
      BY DEF EncodingOrder, CallKnows
    <3>2. /\ pc[u] = "encode" => packet[u] # p
          /\ pc[u] \in {"encode", "unlock", "enqueue"} => packet[u] \in Packets
      BY <1>5, <2>2 DEF SenderTypes, CallTypes
    <3> QED BY <1>2, <1>3, <2>2, <3>1, <3>2
  <2> QED BY <2>1, <2>2
<1>9. QueuedFlagged'
  <2>1. \A s \in Sessions : /\ \A i \in 1 .. Len(SendQ[s]) : SendQ[s][i] \in Packets
                            /\ \A i \in 1 .. Len(SendBuffer[s]) : SendBuffer[s][i] \in Packets
    BY DEF SenderTypes, QueueTypes
  <2>2. \A q \in Packets : encodeFlag[q] => encodeFlag'[q]
    BY <1>3
  <2> QED BY <1>2, <2>1, <2>2 DEF EncodingOrder, QueuedFlagged
<1> QED BY <1>6, <1>7, <1>8, <1>9 DEF EncodingOrder

\* Only encoded packets come to a queue.
LEMMA EnqueueOrder ==
  ASSUME SenderTypes, EncodingOrder, NEW t \in Threads, Enqueue(t)
  PROVE  EncodingOrder'
<1>1. PICK p \in Packets, s \in Sessions : p = packet[t] /\ s = session[t]
  BY DEF Enqueue, SenderTypes, CallTypes
<1>2. /\ pc[t] = "enqueue" /\ pc'[t] = "app" /\ packet'[t] = NoPacket
      /\ \A u \in Threads : u # t => pc'[u] = pc[u] /\ packet'[u] = packet[u]
      /\ UNCHANGED <<data, encodeFlag, lock, written, SendBuffer>>
      /\ SendQ'[s] = Append(SendQ[s], p) /\ \A r \in Sessions : r # s => SendQ'[r] = SendQ[r]
      /\ SendQ[s] \in Seq(Packets)
  BY <1>1 DEF Enqueue, Goto, SenderTypes, CallTypes, QueueTypes, packetVars
<1>3. LockHeld'
  BY <1>2 DEF EncodingOrder, LockHeld
<1>4. CallKnows'
  BY <1>2 DEF EncodingOrder, CallKnows
<1>5. QueuedFlagged'
  <2>1. encodeFlag[p]
    BY <1>1, <1>2 DEF EncodingOrder, CallKnows
  <2>2. \A i \in 1 .. Len(SendQ'[s]) : SendQ'[s][i] = p \/ (i \in 1 .. Len(SendQ[s]) /\ SendQ'[s][i] = SendQ[s][i])
    BY <1>2
  <2> QED BY <1>2, SMTT(40), <2>1, <2>2 DEF EncodingOrder, QueuedFlagged
<1> QED BY <1>2, <1>3, <1>4, <1>5 DEF EncodingOrder, DataKnown

\* The sessions' own steps encode nothing.
LEMMA SessionOrder ==
  ASSUME SenderTypes, EncodingOrder, NEW s \in Sessions, SessionSteps(s)
  PROVE  EncodingOrder'
<1>1. UNCHANGED <<data, encodeFlag, lock, written, pc, packet>>
  BY DEF SessionSteps, SendPost, Transmit, SendDone, packetVars, callVars
<1>2. LockHeld' /\ DataKnown' /\ CallKnows'
  BY <1>1 DEF EncodingOrder, LockHeld, DataKnown, CallKnows
<1>3. CASE SendPost(s)
  <2>1. /\ SendBuffer'[s] = SendQ[s] /\ SendQ'[s] = <<>>
        /\ \A u \in Sessions : u # s => SendBuffer'[u] = SendBuffer[u] /\ SendQ'[u] = SendQ[u]
    BY <1>3 DEF SendPost, SenderTypes, QueueTypes
  <2>2. QueuedFlagged'
    BY <1>1, <2>1 DEF EncodingOrder, QueuedFlagged
  <2> QED BY <1>2, <2>2 DEF EncodingOrder
<1>4. CASE Transmit(s)
  <2>1. QueuedFlagged'
    BY <1>1, <1>4 DEF Transmit, EncodingOrder, QueuedFlagged
  <2> QED BY <1>2, <2>1 DEF EncodingOrder
<1>5. CASE SendDone(s)
  <2>1. /\ SendBuffer[s] \in Seq(Packets) /\ SendBuffer[s] # <<>>
        /\ SendBuffer'[s] = Tail(SendBuffer[s]) /\ SendQ' = SendQ
        /\ \A u \in Sessions : u # s => SendBuffer'[u] = SendBuffer[u]
    BY <1>5 DEF SendDone, SenderTypes, QueueTypes
  <2>2. \A i \in 1 .. Len(SendBuffer'[s]) : i + 1 \in 1 .. Len(SendBuffer[s]) /\ SendBuffer'[s][i] = SendBuffer[s][i + 1]
    BY <2>1
  <2>3. \A i \in 1 .. Len(SendBuffer'[s]) : encodeFlag'[SendBuffer'[s][i]]
    BY <1>1, <2>2 DEF EncodingOrder, QueuedFlagged
  <2>4. QueuedFlagged'
    <3> SUFFICES ASSUME NEW u \in Sessions
                 PROVE  /\ \A i \in 1 .. Len(SendQ[u]) : encodeFlag'[SendQ[u][i]]
                        /\ \A i \in 1 .. Len(SendBuffer'[u]) : encodeFlag'[SendBuffer'[u][i]]
      BY <2>1 DEF QueuedFlagged
    <3>1. /\ \A i \in 1 .. Len(SendQ[u]) : encodeFlag'[SendQ[u][i]]
          /\ \A i \in 1 .. Len(SendBuffer[u]) : encodeFlag'[SendBuffer[u][i]]
      BY <1>1 DEF EncodingOrder, QueuedFlagged
    <3> QED BY <2>1, <2>3, <3>1
  <2> QED BY <1>2, <2>4 DEF EncodingOrder
<1> QED BY <1>3, <1>4, <1>5 DEF SessionSteps

\* Every step keeps the order of encoding.
LEMMA OrderStep == SenderTypes /\ AllExact /\ EncodingOrder /\ [SenderNext]_senderVars => EncodingOrder'
<1> SUFFICES ASSUME SenderTypes, AllExact, EncodingOrder, [SenderNext]_senderVars PROVE EncodingOrder'
  OBVIOUS
<1>1. ASSUME NEW t \in Threads, NEW p, GiveBack(t, p) \/ \E u \in Threads : HandOver(t, u, p)
      PROVE  EncodingOrder'
  <2>1. UNCHANGED <<data, encodeFlag, lock, written, pc, packet, SendQ, SendBuffer>>
    BY <1>1 DEF GiveBack, HandOver, callVars, queueVars
  <2> QED BY <2>1, PlainOrder
<1>2. ASSUME NEW t \in Threads, AppSteps(t) PROVE EncodingOrder'
  BY <1>1, <1>2, AllocOrder, SendPacketOrder DEF AppSteps
<1>3. ASSUME NEW t \in Threads, SendSteps(t) PROVE EncodingOrder'
  BY <1>3, LookOrder, LockOrder, EncodeOrder, UnlockOrder, EnqueueOrder DEF SendSteps
<1>4. ASSUME UNCHANGED senderVars PROVE EncodingOrder'
  BY <1>4, PlainOrder DEF senderVars, packetVars, callVars, queueVars
<1> QED BY <1>2, <1>3, <1>4, SessionOrder DEF SenderNext

-----------------------------------------------------------------------------
(* Theorems about the sender *)

SenderInvariant == SenderTypes /\ AllExact /\ EncodingOrder

\* The invariant holds before the first packet.
LEMMA InitSenderInvariant == SenderInit => SenderInvariant
<1> SUFFICES ASSUME SenderInit PROVE SenderInvariant
  OBVIOUS
<1>1. SenderTypes
  BY PartiesAssumption DEF SenderInit, SenderTypes, PacketTypes, CallTypes, QueueTypes, Places
<1>2. AllExact
  <2>1. ASSUME NEW p \in Packets PROVE References(p) = {}
    <3>1. InHands(p, holds) = {} /\ InCalls(p, packet) = {}
      BY PartiesAssumption DEF SenderInit, InHands, InCalls
    <3>2. Entries("SendQ", p, SendQ) = {} /\ Entries("SendBuffer", p, SendBuffer) = {}
      BY DEF SenderInit, Entries, PlacesOf
    <3> QED BY <3>1, <3>2, ReferenceParts
  <2> QED BY <2>1, FS_EmptySet DEF SenderInit, AllExact, Exact
<1>3. EncodingOrder
  BY PartiesAssumption DEF SenderInit, EncodingOrder, LockHeld, DataKnown, CallKnows, QueuedFlagged
<1> QED BY <1>1, <1>2, <1>3 DEF SenderInvariant

\* The inductive invariant: types, exact counts, and what is known of a packet by
\* its flag, its lock and the place of the threads that send it.
THEOREM SenderInvariantHolds == SenderSpec => []SenderInvariant
<1>1. SenderInvariant /\ [SenderNext]_senderVars => SenderInvariant'
  BY SenderTypesStep, ExactStep, OrderStep DEF SenderInvariant
<1> QED BY <1>1, InitSenderInvariant, PTL DEF SenderSpec

\* What the invariant says of references and of queued packets.
LEMMA SenderPromises == SenderInvariant => RefsExact /\ QueuedEncoded
<1>1. SenderInvariant => RefsExact
  BY DEF SenderInvariant, AllExact, Exact, RefsExact
<1>2. SenderInvariant => QueuedEncoded
  <2> SUFFICES ASSUME SenderInvariant, NEW s \in Sessions, NEW q \in {SendQ[s], SendBuffer[s]}, NEW i \in 1 .. Len(q)
               PROVE  Carries(data[q[i]], written[q[i]])
    BY DEF QueuedEncoded
  <2>1. q[i] \in Packets
    BY DEF SenderInvariant, SenderTypes, QueueTypes
  <2>2. encodeFlag[q[i]]
    BY DEF SenderInvariant, EncodingOrder, QueuedFlagged
  <2> QED BY <2>1, <2>2 DEF SenderInvariant, EncodingOrder, DataKnown
<1> QED BY <1>1, <1>2

\* RefCnt is the number of references, so FreePacket puts a packet into the pool when
\* the last of them is given back, whichever thread, queue or send that was.
THEOREM ReferencesExact == SenderSpec => []RefsExact
BY SenderPromises, SenderInvariantHolds, PTL

\* However many threads send a packet to however many sessions, whatever is in a send
\* queue or before the kernel is the finished encoding of what was written: IsEncoded
\* may be called without the lock.
THEOREM QueuesEncoded == SenderSpec => []QueuedEncoded
BY SenderPromises, SenderInvariantHolds, PTL

-----------------------------------------------------------------------------
(* Sequences *)

\* What is taken from the left part of a concatenation.
LEMMA SubSeqLeft ==
  ASSUME NEW S, NEW s \in Seq(S), NEW t \in Seq(S), NEW a \in Nat, NEW b \in 0 .. Len(s)
  PROVE  SubSeq(s \o t, a + 1, b) = SubSeq(s, a + 1, b)
<1>1. CASE b < a + 1
  BY <1>1, SubSeqEmpty
<1>2. CASE a + 1 <= b
  <2>1. a + 1 \in 1 .. Len(s) /\ b \in 1 .. Len(s)
    BY <1>2
  <2> QED BY <2>1, SubSeqOfConcat1
<1> QED BY <1>1, <1>2

\* What is taken from a sequence whose beginning has been dropped.
LEMMA SubSeqShift ==
  ASSUME NEW S, NEW s \in Seq(S), NEW n \in Nat, NEW a \in Nat, NEW b \in Nat, n + b <= Len(s)
  PROVE  SubSeq(SubSeq(s, n + 1, Len(s)), a + 1, b) = SubSeq(s, n + a + 1, n + b)
<1>1. CASE b < a + 1
  BY <1>1, SubSeqEmpty
<1>2. CASE a + 1 <= b
  <2>1. /\ n + 1 \in 1 .. Len(s) /\ Len(s) \in 1 .. Len(s)
        /\ a + 1 \in 1 .. Len(s) - (n + 1) + 1 /\ b \in 1 .. Len(s) - (n + 1) + 1
    BY <1>2
  <2>2. SubSeq(SubSeq(s, n + 1, Len(s)), a + 1, b) = SubSeq(s, (n + 1) + (a + 1) - 1, (n + 1) + b - 1)
    BY <2>1, SubSeqOfSubSeq
  <2>3. (n + 1) + (a + 1) - 1 = n + a + 1 /\ (n + 1) + b - 1 = n + b
    OBVIOUS
  <2> QED BY <2>2, <2>3
<1> QED BY <1>1, <1>2

\* A sequence, cut and put together again.
LEMMA CutTogether ==
  ASSUME NEW S, NEW s \in Seq(S), NEW n \in 0 .. Len(s)
  PROVE  /\ SubSeq(s, 1, n) \in Seq(S) /\ Len(SubSeq(s, 1, n)) = n
         /\ SubSeq(s, n + 1, Len(s)) \in Seq(S) /\ Len(SubSeq(s, n + 1, Len(s))) = Len(s) - n
         /\ SubSeq(s, 1, n) \o SubSeq(s, n + 1, Len(s)) = s
<1>1. /\ \A i \in 1 .. n : s[i] \in S
      /\ \A i \in n + 1 .. Len(s) : s[i] \in S
  BY ElementOfSeq
<1>2. /\ SubSeq(s, 1, n) \in Seq(S) /\ Len(SubSeq(s, 1, n)) = n
      /\ SubSeq(s, n + 1, Len(s)) \in Seq(S) /\ Len(SubSeq(s, n + 1, Len(s))) = Len(s) - n
  BY <1>1, SubSeqProperties
<1>3. SubSeq(s, 1, n) \o SubSeq(s, n + 1, Len(s)) = SubSeq(s, 1, Len(s))
  <2>1. 1 \in 1 .. Len(s) + 1 /\ n \in 1 - 1 .. Len(s) /\ Len(s) \in n .. Len(s)
    OBVIOUS
  <2> QED BY <2>1, ConcatAdjacentSubSeq
<1> QED BY <1>2, <1>3, SubSeqFull

\* Bytes that move from the front of one sequence to the end of the one before it.
LEMMA MoveOver ==
  ASSUME NEW S, NEW q \in Seq(S), NEW w \in Seq(S), NEW n \in 0 .. Len(w)
  PROVE  (q \o SubSeq(w, 1, n)) \o SubSeq(w, n + 1, Len(w)) = q \o w
<1>1. /\ SubSeq(w, 1, n) \in Seq(S) /\ SubSeq(w, n + 1, Len(w)) \in Seq(S)
      /\ SubSeq(w, 1, n) \o SubSeq(w, n + 1, Len(w)) = w
  BY CutTogether
<1>2. (q \o SubSeq(w, 1, n)) \o SubSeq(w, n + 1, Len(w)) = q \o (SubSeq(w, 1, n) \o SubSeq(w, n + 1, Len(w)))
  <2> DEFINE a == SubSeq(w, 1, n)
             b == SubSeq(w, n + 1, Len(w))
  <2>1. a \in Seq(S) /\ b \in Seq(S)
    BY <1>1
  <2> HIDE DEF a, b
  <2>2. (q \o a) \o b = q \o (a \o b)
    BY <2>1, ConcatAssociative
  <2> QED BY <2>2 DEF a, b
<1> QED BY <1>1, <1>2

\* Dropping the beginning of the left part.
LEMMA DropLeft ==
  ASSUME NEW S, NEW q \in Seq(S), NEW w \in Seq(S), NEW n \in 0 .. Len(q)
  PROVE  SubSeq(q, n + 1, Len(q)) \o w = SubSeq(q \o w, n + 1, Len(q \o w))
<1> DEFINE r == SubSeq(q, n + 1, Len(q))
           x == SubSeq(q \o w, n + 1, Len(q \o w))
<1>1. r \in Seq(S) /\ Len(r) = Len(q) - n /\ \A i \in 1 .. Len(r) : r[i] = q[n + i]
  <2>1. \A i \in n + 1 .. Len(q) : q[i] \in S
    BY ElementOfSeq
  <2> QED BY <2>1, SubSeqProperties
<1>2. /\ q \o w \in Seq(S) /\ Len(q \o w) = Len(q) + Len(w)
      /\ \A i \in 1 .. Len(q) + Len(w) : (q \o w)[i] = IF i <= Len(q) THEN q[i] ELSE w[i - Len(q)]
  BY ConcatProperties
<1>3. /\ x \in Seq(S) /\ Len(x) = Len(q) + Len(w) - n
      /\ \A i \in 1 .. Len(x) : x[i] = (q \o w)[n + i]
  <2>1. \A i \in n + 1 .. Len(q \o w) : (q \o w)[i] \in S
    BY <1>2, ElementOfSeq
  <2>2. n + 1 \in Int /\ Len(q \o w) \in Int
    BY <1>2
  <2> HIDE DEF r
  <2> QED BY <1>2, <2>1, <2>2, SubSeqProperties
<1>4. /\ r \o w \in Seq(S) /\ Len(r \o w) = Len(r) + Len(w)
      /\ \A i \in 1 .. Len(r) + Len(w) : (r \o w)[i] = IF i <= Len(r) THEN r[i] ELSE w[i - Len(r)]
  BY <1>1, ConcatProperties
<1>5. Len(r \o w) = Len(x)
  <2> HIDE DEF r, x
  <2> QED BY <1>1, <1>3, <1>4
<1>6. ASSUME NEW i \in 1 .. Len(r \o w) PROVE (r \o w)[i] = x[i]
  <2>1. i \in 1 .. Len(r) + Len(w) /\ i \in 1 .. Len(x) /\ n + i \in 1 .. Len(q) + Len(w)
    <3> HIDE DEF r, x
    <3> QED BY <1>1, <1>3, <1>4
  <2>2. (r \o w)[i] = IF i <= Len(r) THEN r[i] ELSE w[i - Len(r)]
    BY <1>4, <2>1
  <2>3. x[i] = IF n + i <= Len(q) THEN q[n + i] ELSE w[n + i - Len(q)]
    BY <1>2, <1>3, <2>1
  <2>4. i <= Len(r) <=> n + i <= Len(q)
    <3> HIDE DEF r
    <3> QED BY <1>1, <2>1
  <2>5. i - Len(r) = n + i - Len(q)
    <3> HIDE DEF r
    <3> QED BY <1>1, <2>1
  <2>6. i <= Len(r) => r[i] = q[n + i]
    <3> HIDE DEF r
    <3> QED BY <1>1, <2>1
  <2> QED BY <2>2, <2>3, <2>4, <2>5, <2>6
<1> QED BY <1>3, <1>4, <1>5, <1>6, SeqEqual

-----------------------------------------------------------------------------
(* Messages one after the other in a stream of bytes *)

\* The end of each of the first messages of the stream, and the messages between them.
Cuts(stream, msgs, cut) ==
  /\ cut \in [0 .. Len(msgs) -> Nat]
  /\ cut[0] = 0 /\ cut[Len(msgs)] = Len(stream)
  /\ \A i \in 0 .. Len(msgs), j \in 0 .. Len(msgs) : i <= j => cut[i] <= cut[j]
  /\ \A i \in 1 .. Len(msgs) : Carries(SubSeq(stream, cut[i - 1] + 1, cut[i]), msgs[i])

\* The stream is made of one message for each payload, in that order.
Framed(stream, msgs) == \E cut \in [0 .. Len(msgs) -> Nat] : Cuts(stream, msgs, cut)

\* A stream without a message is empty.
LEMMA FramedEmpty ==
  /\ Framed(<<>>, <<>>)
  /\ \A stream \in Seq(Nat) : Framed(stream, <<>>) => stream = <<>>
<1>1. Framed(<<>>, <<>>)
  <2> DEFINE cut == [i \in 0 .. 0 |-> 0]
  <2>1. Len(<<>>) = 0
    OBVIOUS
  <2>2. cut \in [0 .. Len(<<>>) -> Nat] /\ cut[0] = 0
    BY <2>1
  <2>3. Cuts(<<>>, <<>>, cut)
    BY <2>1, <2>2 DEF Cuts
  <2> QED BY <2>2, <2>3 DEF Framed
<1>2. ASSUME NEW stream \in Seq(Nat), Framed(stream, <<>>) PROVE stream = <<>>
  <2>1. Len(<<>>) = 0
    OBVIOUS
  <2>2. Len(stream) = 0
    BY <1>2, <2>1 DEF Framed, Cuts
  <2> QED BY <2>2, EmptySeq
<1> QED BY <1>1, <1>2

\* A message that is transmitted goes behind the others.
LEMMA FramedAppend ==
  ASSUME NEW stream \in Seq(Nat), NEW msgs \in Seq(Seq(Byte)), Framed(stream, msgs),
         NEW d \in Seq(Nat), NEW m \in Seq(Byte), Carries(d, m)
  PROVE  Framed(stream \o d, Append(msgs, m))
<1> DEFINE n    == Len(msgs)
           all  == Append(msgs, m)
           more == stream \o d
<1>1. PICK cut \in [0 .. n -> Nat] : Cuts(stream, msgs, cut)
  BY DEF Framed
<1>2. /\ n \in Nat /\ Len(all) = n + 1 /\ all[n + 1] = m
      /\ \A i \in 1 .. n : all[i] = msgs[i]
  BY AppendProperties
<1>3. /\ more \in Seq(Nat) /\ Len(more) = Len(stream) + Len(d)
      /\ \A i \in 1 .. Len(d) : more[Len(stream) + i] = d[i]
  <2>1. \A i \in 1 .. Len(d) : Len(stream) + i \in 1 .. Len(stream) + Len(d)
    OBVIOUS
  <2> QED BY <2>1, ConcatProperties
<1>4. /\ cut[0] = 0 /\ cut[n] = Len(stream)
      /\ \A i \in 0 .. n, j \in 0 .. n : i <= j => cut[i] <= cut[j]
      /\ \A i \in 1 .. n : Carries(SubSeq(stream, cut[i - 1] + 1, cut[i]), msgs[i])
  BY <1>1 DEF Cuts
<1> DEFINE next == [i \in 0 .. n + 1 |-> IF i = n + 1 THEN Len(more) ELSE cut[i]]
<1>5. next \in [0 .. n + 1 -> Nat] /\ next[n + 1] = Len(more) /\ \A i \in 0 .. n : next[i] = cut[i]
  BY <1>2, <1>3
<1> HIDE DEF n, all, more, next
<1>6. ASSUME NEW i \in 0 .. n + 1, NEW j \in 0 .. n + 1, i <= j PROVE next[i] <= next[j]
  <2>1. CASE j \in 0 .. n
    BY <1>2, <1>4, <1>5, <1>6, <2>1
  <2>2. CASE j = n + 1 /\ i \in 0 .. n
    <3>1. cut[i] <= cut[n] /\ cut[i] \in Nat
      <4>1. n \in 0 .. n /\ i \in 0 .. n /\ i <= n
        BY <1>2, <2>2
      <4>2. cut[i] <= cut[n]
        BY <1>4, <4>1
      <4> QED BY <4>1, <4>2
    <3> QED BY <1>3, <1>4, <1>5, <2>2, <3>1
  <2>3. CASE j = n + 1 /\ i = n + 1
    BY <1>3, <1>5, <2>3
  <2> QED BY <1>2, <2>1, <2>2, <2>3
<1>7. ASSUME NEW i \in 1 .. n + 1 PROVE Carries(SubSeq(more, next[i - 1] + 1, next[i]), all[i])
  <2>1. CASE i \in 1 .. n
    <3>1. i - 1 \in 0 .. n /\ i \in 0 .. n /\ n \in 0 .. n /\ i <= n
      BY <1>2, <2>1
    <3>2. next[i - 1] = cut[i - 1] /\ next[i] = cut[i] /\ cut[i - 1] \in Nat /\ cut[i] \in 0 .. Len(stream)
      <4>1. cut[i] <= cut[n]
        BY <1>4, <3>1
      <4>2. cut[i - 1] \in Nat /\ cut[i] \in Nat /\ Len(stream) \in Nat
        <5> DEFINE k == i - 1
        <5>1. k \in 0 .. n
          BY <3>1
        <5> HIDE DEF k
        <5>2. cut[k] \in Nat
          BY <5>1
        <5>3. cut[i] \in Nat
          BY <3>1
        <5>4. Len(stream) \in Nat
          BY LenProperties
        <5> QED BY <5>2, <5>3, <5>4 DEF k
      <4>3. next[i - 1] = cut[i - 1] /\ next[i] = cut[i]
        BY <1>5, <3>1
      <4> QED BY <1>4, <4>1, <4>2, <4>3
    <3>3. SubSeq(more, cut[i - 1] + 1, cut[i]) = SubSeq(stream, cut[i - 1] + 1, cut[i])
      BY <3>2, SubSeqLeft DEF more
    <3> QED BY <1>2, <1>4, <2>1, <3>2, <3>3
  <2>2. CASE i = n + 1
    <3>1. next[i - 1] = Len(stream) /\ next[i] = Len(stream) + Len(d) /\ all[i] = m
      BY <1>2, <1>3, <1>4, <1>5, <2>2
    <3> DEFINE x == SubSeq(more, Len(stream) + 1, Len(stream) + Len(d))
    <3>2. x \in Seq(Nat) /\ Len(x) = Len(d) /\ \A k \in 1 .. Len(d) : x[k] = more[Len(stream) + k]
      <4>1. \A k \in Len(stream) + 1 .. Len(stream) + Len(d) : more[k] \in Nat
        BY <1>3, ElementOfSeq
      <4>2. Len(stream) \in Nat /\ Len(d) \in Nat
        OBVIOUS
      <4> QED BY <4>1, <4>2, SubSeqProperties
    <3>3. x = d
      <4> HIDE DEF x
      <4> QED BY <1>3, <3>2, SeqEqual
    <3> QED BY <3>1, <3>3
  <2> QED BY <1>2, <2>1, <2>2
<1>8. Cuts(more, all, next)
  <2>1. next[0] = 0
    BY <1>2, <1>4, <1>5
  <2> QED BY <1>2, <1>5, <1>6, <1>7, <2>1 DEF Cuts
<1> QED BY <1>2, <1>5, <1>8 DEF Framed, all, more, n

\* The first message of a stream, and what is behind it.
LEMMA FramedFirst ==
  ASSUME NEW stream \in Seq(Nat), NEW msgs \in Seq(Seq(Byte)), Framed(stream, msgs), msgs # <<>>
  PROVE  LET size == HeaderSize + Len(Head(msgs))
         IN  /\ size <= Len(stream)
             /\ Carries(SubSeq(stream, 1, size), Head(msgs))
             /\ Framed(SubSeq(stream, size + 1, Len(stream)), Tail(msgs))
<1> DEFINE n    == Len(msgs)
           rest == Tail(msgs)
           size == HeaderSize + Len(Head(msgs))
           less == SubSeq(stream, size + 1, Len(stream))
<1>1. PICK cut \in [0 .. n -> Nat] : Cuts(stream, msgs, cut)
  BY DEF Framed
<1>2. /\ n \in Nat \ {0} /\ Head(msgs) = msgs[1] /\ msgs[1] \in Seq(Byte)
      /\ rest \in Seq(Seq(Byte)) /\ Len(rest) = n - 1
      /\ \A i \in 1 .. n - 1 : rest[i] = msgs[i + 1]
  BY HeadTailProperties, EmptySeq, ElementOfSeq
<1>3. /\ cut[0] = 0 /\ cut[n] = Len(stream)
      /\ \A i \in 0 .. n, j \in 0 .. n : i <= j => cut[i] <= cut[j]
      /\ \A i \in 1 .. n : Carries(SubSeq(stream, cut[i - 1] + 1, cut[i]), msgs[i])
  BY <1>1 DEF Cuts
<1>4. cut[1] \in Nat /\ cut[1] <= Len(stream)
  BY <1>2, <1>3
<1>5. Carries(SubSeq(stream, 1, cut[1]), Head(msgs))
  <2>1. 1 \in 1 .. n /\ 1 - 1 = 0
    BY <1>2
  <2> QED BY <1>2, <1>3, <2>1
<1>6. size = cut[1] /\ size \in Nat /\ size <= Len(stream)
  <2>1. Len(SubSeq(stream, 1, cut[1])) = cut[1]
    BY <1>4, CutTogether
  <2>2. Len(SubSeq(stream, 1, cut[1])) = size
    BY <1>5 DEF Carries
  <2> QED BY <1>4, <2>1, <2>2
<1> HIDE DEF n, rest, size
<1>7. less \in Seq(Nat) /\ Len(less) = Len(stream) - size
  <2>1. size \in 0 .. Len(stream)
    BY <1>6
  <2> QED BY <2>1, CutTogether
<1> HIDE DEF less
<1> DEFINE next == [i \in 0 .. n - 1 |-> cut[i + 1] - size]
<1>8. ASSUME NEW i \in 0 .. n - 1
      PROVE  /\ i + 1 \in 0 .. n /\ cut[i + 1] \in Nat /\ size <= cut[i + 1] /\ cut[i + 1] <= Len(stream)
             /\ next[i] = cut[i + 1] - size /\ next[i] \in Nat
  <2>1. i + 1 \in 0 .. n /\ 1 \in 0 .. n /\ n \in 0 .. n
    BY <1>2
  <2>2. cut[i + 1] \in Nat
    BY <2>1
  <2>3. cut[1] <= cut[i + 1]
    <3>1. 1 <= i + 1
      OBVIOUS
    <3> QED BY <1>3, <2>1, <3>1
  <2>4. cut[i + 1] <= cut[n]
    <3>1. i + 1 <= n
      BY <1>2
    <3> QED BY <1>3, <2>1, <3>1
  <2> QED BY <1>3, <1>6, <2>1, <2>2, <2>3, <2>4
<1>9. next \in [0 .. n - 1 -> Nat]
  BY <1>8
<1> HIDE DEF next
<1>10. ASSUME NEW i \in 1 .. n - 1 PROVE Carries(SubSeq(less, next[i - 1] + 1, next[i]), rest[i])
  <2>1. i - 1 \in 0 .. n - 1 /\ i \in 0 .. n - 1 /\ (i - 1) + 1 = i /\ i + 1 \in 1 .. n /\ (i + 1) - 1 = i
    BY <1>2
  <2>2. /\ next[i - 1] = cut[i] - size /\ next[i - 1] \in Nat /\ cut[i] \in Nat
        /\ next[i] = cut[i + 1] - size /\ next[i] \in Nat /\ cut[i + 1] \in Nat
        /\ cut[i + 1] <= Len(stream)
    BY <1>8, <2>1
  <2>3. SubSeq(less, next[i - 1] + 1, next[i]) = SubSeq(stream, size + next[i - 1] + 1, size + next[i])
    <3>1. size + next[i] <= Len(stream)
      BY <1>6, <2>2
    <3> DEFINE a == next[i - 1]
               b == next[i]
    <3>2. a \in Nat /\ b \in Nat /\ size + b <= Len(stream)
      BY <2>2, <3>1
    <3> HIDE DEF a, b
    <3>3. SubSeq(SubSeq(stream, size + 1, Len(stream)), a + 1, b) = SubSeq(stream, size + a + 1, size + b)
      <4>1. size \in Nat /\ stream \in Seq(Nat)
        BY <1>6
      <4> HIDE DEF Cuts
      <4> QED BY <4>1, <3>2, SubSeqShift, SMTT(60)
    <3> QED BY <3>3 DEF less, a, b
  <2>4. size + next[i - 1] + 1 = cut[i] + 1 /\ size + next[i] = cut[i + 1]
    <3> DEFINE a == next[i - 1]
               b == next[i]
               x == cut[i]
               y == cut[i + 1]
    <3>1. a = x - size /\ b = y - size /\ a \in Nat /\ b \in Nat /\ x \in Nat /\ y \in Nat /\ size \in Nat
      BY <1>6, <2>2
    <3> HIDE DEF a, b, x, y
    <3>2. size + a + 1 = x + 1 /\ size + b = y
      BY <3>1
    <3> QED BY <3>2 DEF a, b, x, y
  <2>5. Carries(SubSeq(stream, cut[i] + 1, cut[i + 1]), msgs[i + 1])
    BY <1>3, <2>1
  <2> QED BY <1>2, <2>3, <2>4, <2>5
<1>11. Cuts(less, rest, next)
  <2>1. next[0] = 0 /\ next[n - 1] = Len(less)
    <3>1. 0 \in 0 .. n - 1 /\ n - 1 \in 0 .. n - 1 /\ 0 + 1 = 1 /\ (n - 1) + 1 = n
      BY <1>2
    <3>2. next[0] = cut[1] - size /\ next[n - 1] = cut[n] - size
      BY <1>8, <3>1
    <3> QED BY <1>3, <1>4, <1>6, <1>7, <3>2
  <2>2. \A i \in 0 .. n - 1, j \in 0 .. n - 1 : i <= j => next[i] <= next[j]
    <3> SUFFICES ASSUME NEW i \in 0 .. n - 1, NEW j \in 0 .. n - 1, i <= j PROVE next[i] <= next[j]
      OBVIOUS
    <3>1. /\ i + 1 \in 0 .. n /\ j + 1 \in 0 .. n /\ cut[i + 1] \in Nat /\ cut[j + 1] \in Nat
          /\ next[i] = cut[i + 1] - size /\ next[j] = cut[j + 1] - size
      BY <1>8
    <3>2. cut[i + 1] <= cut[j + 1]
      BY <1>3, <3>1
    <3> QED BY <1>6, <3>1, <3>2
  <2> QED BY <1>2, <1>9, <1>10, <2>1, <2>2 DEF Cuts
<1>12. Framed(less, rest)
  BY <1>2, <1>9, <1>11 DEF Framed
<1> QED BY <1>5, <1>6, <1>12 DEF less, rest, size, n

-----------------------------------------------------------------------------
(* What a session has been given and OnRecv of its peer has not *)

\* What the receiver's CheckPacketMessageComplete accepts.
Accepted == {m \in Seq(Byte) : MaxPayloadLen = 0 \/ Len(m) <= MaxPayloadLen}
PayloadsAccepted == Payloads \in Seq(Accepted)

FlowTypes ==
  /\ data \in [Packets -> Seq(Nat)] /\ written \in [Packets -> Accepted]
  /\ wire \in [Sessions -> Seq(Nat)] /\ RecvQ \in [Sessions -> Seq(Nat)]
  /\ sent \in [Sessions -> Seq(Accepted)] /\ received \in [Sessions -> Seq(Accepted)]
  /\ open \in [Sessions -> BOOLEAN] /\ handling \in [Sessions -> BOOLEAN] /\ overrun \in [Sessions -> BOOLEAN]

\* The packets that the kernel has not read, in the order in which it will.
WaitingPacket(s, i) ==
  IF i <= unread[s] THEN SendBuffer[s][Len(SendBuffer[s]) - unread[s] + i] ELSE SendQ[s][i - unread[s]]
Waiting(s) == [i \in 1 .. unread[s] + Len(SendQ[s]) |-> written[WaitingPacket(s, i)]]

\* What was sent has been received, or is among the bytes on their way and in RecvQ,
\* message by message, or waits to be transmitted.  Bytes that did not fit into RecvQ
\* are lost: nothing is said of what follows them, and nobody handles it.
Flow(s) ==
  /\ open[s]
  /\ overrun[s] => ~handling[s]
  /\ \E flying \in Seq(Accepted) :
        /\ sent[s] = received[s] \o (flying \o Waiting(s))
        /\ ~overrun[s] => Framed(RecvQ[s] \o wire[s], flying)

FlowInvariant == SenderInvariant /\ FlowTypes /\ \A s \in Sessions : Flow(s)

\* A function on 1 .. n is a sequence.
LEMMA FunctionIsSeq ==
  ASSUME NEW S, NEW n \in Nat, NEW f \in [1 .. n -> S]
  PROVE  f \in Seq(S) /\ Len(f) = n
<1>1. f \in Seq(S)
  BY SeqDef
<1>2. DOMAIN f = 1 .. n /\ DOMAIN f = 1 .. Len(f) /\ Len(f) \in Nat
  BY <1>1, LenProperties
<1> QED BY <1>1, <1>2

\* What waits is a sequence of payloads.
LEMMA WaitingType ==
  ASSUME SenderTypes, FlowTypes, NEW s \in Sessions
  PROVE  /\ unread[s] \in Nat /\ Len(SendQ[s]) \in Nat
         /\ \A i \in 1 .. unread[s] + Len(SendQ[s]) : WaitingPacket(s, i) \in Packets
         /\ Waiting(s) \in Seq(Accepted) /\ Len(Waiting(s)) = unread[s] + Len(SendQ[s])
<1>1. /\ unread[s] \in Nat /\ SendQ[s] \in Seq(Packets) /\ SendBuffer[s] \in Seq(Packets)
      /\ unread[s] <= Len(SendBuffer[s]) /\ Len(SendQ[s]) \in Nat /\ Len(SendBuffer[s]) \in Nat
  BY DEF SenderTypes, QueueTypes
<1>2. ASSUME NEW i \in 1 .. unread[s] + Len(SendQ[s]) PROVE WaitingPacket(s, i) \in Packets
  <2>1. CASE i <= unread[s]
    <3>1. Len(SendBuffer[s]) - unread[s] + i \in 1 .. Len(SendBuffer[s])
      BY <1>1, <2>1
    <3> QED BY <1>1, <2>1, <3>1, ElementOfSeq DEF WaitingPacket
  <2>2. CASE ~(i <= unread[s])
    <3>1. i - unread[s] \in 1 .. Len(SendQ[s])
      BY <1>1, <2>2
    <3> QED BY <1>1, <2>2, <3>1, ElementOfSeq DEF WaitingPacket
  <2> QED BY <2>1, <2>2
<1>3. \A i \in 1 .. unread[s] + Len(SendQ[s]) : written[WaitingPacket(s, i)] \in Accepted
  BY <1>2 DEF FlowTypes
<1>4. unread[s] + Len(SendQ[s]) \in Nat
  BY <1>1
<1>5. Waiting(s) \in [1 .. unread[s] + Len(SendQ[s]) -> Accepted]
  BY <1>3 DEF Waiting
<1>6. Waiting(s) \in Seq(Accepted) /\ Len(Waiting(s)) = unread[s] + Len(SendQ[s])
  BY <1>4, <1>5, FunctionIsSeq
<1> QED BY <1>1, <1>2, <1>6

\* Steps that leave a session's queue, buffer and packets alone.
LEMMA WaitingSame ==
  ASSUME SenderTypes, FlowTypes, NEW s \in Sessions,
         SendQ'[s] = SendQ[s], SendBuffer'[s] = SendBuffer[s], unread'[s] = unread[s],
         \A i \in 1 .. Len(SendQ[s]) : written'[SendQ[s][i]] = written[SendQ[s][i]],
         \A i \in 1 .. Len(SendBuffer[s]) : written'[SendBuffer[s][i]] = written[SendBuffer[s][i]]
  PROVE  Waiting(s)' = Waiting(s)
<1>1. /\ unread[s] \in Nat /\ Len(SendQ[s]) \in Nat /\ Len(SendBuffer[s]) \in Nat
      /\ unread[s] <= Len(SendBuffer[s])
  BY DEF SenderTypes, QueueTypes
<1>2. ASSUME NEW i \in 1 .. unread[s] + Len(SendQ[s])
      PROVE  written'[WaitingPacket(s, i)'] = written[WaitingPacket(s, i)]
  <2>1. CASE i <= unread[s]
    <3>1. Len(SendBuffer[s]) - unread[s] + i \in 1 .. Len(SendBuffer[s])
      BY <1>1, <2>1
    <3> QED BY <2>1, <3>1 DEF WaitingPacket
  <2>2. CASE ~(i <= unread[s])
    <3>1. i - unread[s] \in 1 .. Len(SendQ[s])
      BY <1>1, <2>2
    <3> QED BY <2>2, <3>1 DEF WaitingPacket
  <2> QED BY <2>1, <2>2
<1> QED BY <1>2 DEF Waiting

\* A packet comes to the end of what waits.
LEMMA WaitingMore ==
  ASSUME SenderTypes, FlowTypes, NEW s \in Sessions, NEW p \in Packets,
         SendQ'[s] = Append(SendQ[s], p), UNCHANGED <<SendBuffer, unread, written>>,
         SenderTypes', FlowTypes'
  PROVE  Waiting(s)' = Append(Waiting(s), written[p])
<1>0. unread[s] \in Nat /\ SendQ[s] \in Seq(Packets) /\ Len(SendQ[s]) \in Nat
  BY DEF SenderTypes, QueueTypes
<1>1. PICK n \in Nat : n = unread[s] + Len(SendQ[s])
  BY <1>0
<1>2. /\ Len(SendQ'[s]) = Len(SendQ[s]) + 1 /\ SendQ'[s][Len(SendQ[s]) + 1] = p
      /\ \A i \in 1 .. Len(SendQ[s]) : SendQ'[s][i] = SendQ[s][i]
  BY <1>0, AppendProperties
<1>3. /\ Waiting(s) \in Seq(Accepted) /\ Len(Waiting(s)) = n
      /\ \A i \in 1 .. n : Waiting(s)[i] = written[WaitingPacket(s, i)]
  BY <1>1, WaitingType DEF Waiting
<1>4. ASSUME NEW i \in 1 .. n PROVE WaitingPacket(s, i)' = WaitingPacket(s, i)
  <2>1. CASE i <= unread[s]
    BY <2>1 DEF WaitingPacket
  <2>2. CASE ~(i <= unread[s])
    <3>1. i - unread[s] \in 1 .. Len(SendQ[s])
      BY <1>0, <1>1, <2>2
    <3> QED BY <1>2, <2>2, <3>1 DEF WaitingPacket
  <2> QED BY <2>1, <2>2
<1>5. WaitingPacket(s, n + 1)' = p
  <2>1. ~(n + 1 <= unread[s]) /\ (n + 1) - unread[s] = Len(SendQ[s]) + 1
    BY <1>0, <1>1
  <2>2. ~(n + 1 <= unread'[s]) /\ SendQ'[s][(n + 1) - unread'[s]] = p
    BY <1>2, <2>1
  <2> QED BY <2>2 DEF WaitingPacket
<1>6. /\ Waiting(s)' \in Seq(Accepted) /\ Len(Waiting(s)') = n + 1
      /\ \A i \in 1 .. n + 1 : Waiting(s)'[i] = written'[WaitingPacket(s, i)']
  <2> DEFINE v == Waiting(s)'
  <2>1. unread'[s] + Len(SendQ'[s]) = n + 1
    BY <1>0, <1>1, <1>2
  <2>2. v = [i \in 1 .. n + 1 |-> written'[WaitingPacket(s, i)']]
    BY <2>1 DEF Waiting
  <2>3. \A i \in 1 .. n + 1 : v[i] = written'[WaitingPacket(s, i)']
    BY <2>2
  <2>4. \A i \in 1 .. n + 1 : written'[WaitingPacket(s, i)'] \in Accepted
    <3> SUFFICES ASSUME NEW i \in 1 .. n + 1 PROVE written'[WaitingPacket(s, i)'] \in Accepted
      OBVIOUS
    <3>1. CASE i \in 1 .. n
      BY <1>1, <1>4, <3>1, WaitingType DEF FlowTypes
    <3>2. CASE i = n + 1
      BY <1>5, <3>2 DEF FlowTypes
    <3> QED BY <1>1, <3>1, <3>2
  <2>5. v \in [1 .. n + 1 -> Accepted]
    BY <2>2, <2>4
  <2>6. n + 1 \in Nat
    BY <1>0, <1>1
  <2> HIDE DEF v
  <2> QED BY <2>3, <2>5, <2>6, FunctionIsSeq DEF v
<1>7. written[p] \in Accepted
  BY DEF FlowTypes
<1> DEFINE w == Waiting(s)
           v == Waiting(s)'
           m == written[p]
<1>8. /\ v \in Seq(Accepted) /\ Len(v) = n + 1 /\ w \in Seq(Accepted) /\ Len(w) = n /\ m \in Accepted
      /\ n \in Nat /\ v[n + 1] = m /\ \A i \in 1 .. n : v[i] = w[i]
  <2>1. n + 1 \in 1 .. n + 1 /\ \A i \in 1 .. n : i \in 1 .. n + 1
    BY <1>0, <1>1
  <2>2. ASSUME NEW i \in 1 .. n PROVE v[i] = w[i]
    BY <1>3, <1>6, <1>4, <2>1, <2>2
  <2>3. v[n + 1] = m
    BY <1>6, <1>5, <2>1
  <2> QED BY <1>1, <1>3, <1>6, <1>7, <2>2, <2>3
<1> HIDE DEF v, w, m
<1>9. v = Append(w, m)
  <2>1. /\ Append(w, m) \in Seq(Accepted) /\ Len(Append(w, m)) = n + 1
        /\ \A i \in 1 .. n : Append(w, m)[i] = w[i]
        /\ Append(w, m)[n + 1] = m
    BY <1>8, AppendProperties
  <2>2. ASSUME NEW i \in 1 .. n + 1 PROVE v[i] = Append(w, m)[i]
    <3>1. i \in 1 .. n \/ i = n + 1
      BY <1>8
    <3> QED BY <1>8, <2>1, <3>1
  <2>3. Len(v) = Len(Append(w, m)) /\ \A i \in 1 .. Len(v) : v[i] = Append(w, m)[i]
    BY <1>8, <2>1, <2>2
  <2> QED BY <1>8, <2>1, <2>3, SeqEqual
<1> QED BY <1>9 DEF v, w, m

\* SendPost moves the queue to an empty buffer.
LEMMA WaitingPosted ==
  ASSUME SenderTypes, NEW s \in Sessions, SendPost(s)
  PROVE  Waiting(s)' = Waiting(s)
<1>1. /\ unread[s] = 0 /\ SendQ[s] \in Seq(Packets)
      /\ SendBuffer'[s] = SendQ[s] /\ unread'[s] = Len(SendQ[s]) /\ Len(SendQ'[s]) = 0 /\ written' = written
  BY DEF SendPost, packetVars, SenderTypes, QueueTypes
<1>2. PICK n \in Nat : n = Len(SendQ[s])
  BY <1>1
<1>3. Waiting(s) = [i \in 1 .. n |-> written[WaitingPacket(s, i)]]
  BY <1>1, <1>2 DEF Waiting
<1>4. Waiting(s)' = [i \in 1 .. n |-> written[WaitingPacket(s, i)']]
  <2>1. unread'[s] + Len(SendQ'[s]) = n
    BY <1>1, <1>2
  <2> QED BY <1>1, <2>1 DEF Waiting
<1>5. ASSUME NEW i \in 1 .. n PROVE WaitingPacket(s, i)' = WaitingPacket(s, i)
  <2>1. WaitingPacket(s, i) = SendQ[s][i]
    <3>1. ~(i <= 0) /\ i - 0 = i
      BY <1>2
    <3> QED BY <1>1, <3>1 DEF WaitingPacket
  <2>2. WaitingPacket(s, i)' = SendQ[s][i]
    <3>1. i <= n /\ n - n + i = i
      BY <1>2
    <3> QED BY <1>1, <1>2, <3>1 DEF WaitingPacket
  <2> QED BY <2>1, <2>2
<1> QED BY <1>3, <1>4, <1>5

\* A completed send was read to its end.
LEMMA WaitingDone ==
  ASSUME SenderTypes, NEW s \in Sessions, SendDone(s)
  PROVE  Waiting(s)' = Waiting(s)
<1>1. unread[s] = 0 /\ unread'[s] = 0 /\ SendQ' = SendQ /\ written' = written
  BY DEF SendDone
<1>2. ASSUME NEW i \in 1 .. Len(SendQ[s]) PROVE WaitingPacket(s, i)' = WaitingPacket(s, i)
  <2>1. ~(i <= 0)
    OBVIOUS
  <2> QED BY <1>1, <2>1 DEF WaitingPacket
<1>3. 0 + Len(SendQ[s]) = Len(SendQ[s])
  BY DEF SenderTypes, QueueTypes
<1> QED BY <1>1, <1>2, <1>3 DEF Waiting

\* The kernel reads the first of what waits.
LEMMA WaitingRead ==
  ASSUME SenderTypes, FlowTypes, NEW s \in Sessions, Transmit(s)
  PROVE  /\ Waiting(s) # <<>>
         /\ Head(Waiting(s)) = written[SendBuffer[s][Len(SendBuffer[s]) - unread[s] + 1]]
         /\ Waiting(s)' = Tail(Waiting(s))
<1>0. /\ unread[s] \in Nat \ {0} /\ SendQ[s] \in Seq(Packets) /\ SendBuffer[s] \in Seq(Packets)
      /\ Len(SendQ[s]) \in Nat /\ Len(SendBuffer[s]) \in Nat /\ unread[s] <= Len(SendBuffer[s])
      /\ unread'[s] = unread[s] - 1 /\ SendQ' = SendQ /\ SendBuffer' = SendBuffer /\ written' = written
  BY DEF Transmit, packetVars, SenderTypes, QueueTypes
<1>1. PICK u \in Nat \ {0}, k \in Nat, l \in Nat : u = unread[s] /\ k = Len(SendQ[s]) /\ l = Len(SendBuffer[s])
  BY <1>0
<1> DEFINE w == Waiting(s)
<1>2. /\ w \in Seq(Accepted) /\ Len(w) = u + k
      /\ \A i \in 1 .. u + k : w[i] = written[WaitingPacket(s, i)]
  BY <1>1, WaitingType DEF Waiting
<1>3. WaitingPacket(s, 1) = SendBuffer[s][Len(SendBuffer[s]) - unread[s] + 1]
  <2>1. 1 <= unread[s]
    BY <1>0
  <2> QED BY <2>1 DEF WaitingPacket
<1>4. ASSUME NEW i \in 1 .. (u - 1) + k
      PROVE  WaitingPacket(s, i)' = WaitingPacket(s, i + 1)
  <2>1. unread'[s] = u - 1 /\ i \in Nat
    BY <1>0, <1>1
  <2>2. CASE i <= u - 1
    <3>1. i + 1 <= u /\ l - (u - 1) + i = l - u + (i + 1)
      <4>1. \A a \in Nat, b \in Nat, c \in Nat : a - (b - 1) + c = a - b + (c + 1)
        OBVIOUS
      <4>2. u \in Nat /\ l \in Nat /\ i \in Nat
        BY <2>1
      <4>3. i + 1 <= u
        BY <2>2, <4>2
      <4> QED BY <4>1, <4>2, <4>3
    <3>2. WaitingPacket(s, i)' = SendBuffer[s][l - (u - 1) + i]
      <4>1. i <= unread'[s]
        BY <2>1, <2>2
      <4>2. WaitingPacket(s, i)' = SendBuffer[s][Len(SendBuffer[s]) - unread'[s] + i]
        BY <1>0, <4>1 DEF WaitingPacket
      <4> QED BY <1>1, <2>1, <4>2
    <3>3. WaitingPacket(s, i + 1) = SendBuffer[s][l - u + (i + 1)]
      BY <1>1, <3>1 DEF WaitingPacket
    <3> QED BY <3>1, <3>2, <3>3
  <2>3. CASE ~(i <= u - 1)
    <3>1. ~(i + 1 <= u) /\ i - (u - 1) = (i + 1) - u
      BY <1>1, <2>3
    <3>2. WaitingPacket(s, i)' = SendQ[s][i - (u - 1)]
      BY <1>0, <1>1, <2>1, <2>3 DEF WaitingPacket
    <3>3. WaitingPacket(s, i + 1) = SendQ[s][(i + 1) - u]
      BY <1>1, <3>1 DEF WaitingPacket
    <3> QED BY <3>1, <3>2, <3>3
  <2> QED BY <2>2, <2>3
<1>5. Waiting(s)' = [i \in 1 .. (u - 1) + k |-> written[WaitingPacket(s, i + 1)]]
  <2>1. unread'[s] + Len(SendQ'[s]) = (u - 1) + k
    BY <1>0, <1>1
  <2>2. Waiting(s)' = [i \in 1 .. (u - 1) + k |-> written[WaitingPacket(s, i)']]
    BY <1>0, <2>1 DEF Waiting
  <2> QED BY <1>4, <2>2
<1> HIDE DEF w
<1>6. w # <<>> /\ w[1] = written[WaitingPacket(s, 1)]
  <2>1. 1 \in 1 .. u + k /\ u + k # 0
    BY <1>1
  <2> QED BY <1>2, <2>1, EmptySeq
<1>7. Head(w) = w[1]
  BY <1>2, <1>6
<1>8. /\ Tail(w) \in Seq(Accepted) /\ Len(Tail(w)) = (u - 1) + k
      /\ \A i \in 1 .. (u - 1) + k : Tail(w)[i] = w[i + 1]
  <2>1. (u + k) - 1 = (u - 1) + k
    BY <1>1
  <2> QED BY <1>2, <1>6, <2>1, HeadTailProperties
<1>9. \A i \in 1 .. (u - 1) + k : Tail(w)[i] = written[WaitingPacket(s, i + 1)]
  <2> SUFFICES ASSUME NEW i \in 1 .. (u - 1) + k PROVE Tail(w)[i] = written[WaitingPacket(s, i + 1)]
    OBVIOUS
  <2>1. i + 1 \in 1 .. u + k
    BY <1>1
  <2> QED BY <1>2, <1>8, <2>1
<1>10. Tail(w) = [i \in 1 .. (u - 1) + k |-> written[WaitingPacket(s, i + 1)]]
  <2>1. Tail(w) = [i \in 1 .. (u - 1) + k |-> Tail(w)[i]]
    BY <1>8, LenProperties
  <2> QED BY <1>9, <2>1
<1> QED BY <1>3, <1>5, <1>6, <1>7, <1>10 DEF w

\* A whole packet on its way is a sequence of numbers.
LEMMA EncodingIsSeq ==
  ASSUME NEW payload \in Seq(Nat), NEW rkey \in Byte, NEW e \in Encodings(payload, rkey)
  PROVE  e \in Seq(Nat)
<1>1. PICK sum \in Checksums(payload) : \E c \in Ciphers(rkey, <<sum>> \o payload) :
             e = <<HeaderCode, Len(payload), rkey>> \o c
  BY DEF Encodings
<1>2. PICK c \in Ciphers(rkey, <<sum>> \o payload) : e = <<HeaderCode, Len(payload), rkey>> \o c
  BY <1>1
<1>3. PICK first \in Chains(rkey, <<sum>> \o payload) : c \in Chains(EncryptKey, first)
  BY <1>2 DEF Ciphers
<1>4. Byte \subseteq Nat /\ HeaderCode \in Nat /\ rkey \in Nat /\ Len(payload) \in Nat
  BY ByteAssumption DEF Byte
<1>5. sum \in Nat
  <2>1. PICK sums \in [0 .. Len(payload) -> Byte] : sum = sums[Len(payload)]
    BY <1>1 DEF Checksums, Sums
  <2>2. Len(payload) \in 0 .. Len(payload)
    BY <1>4
  <2> QED BY <1>4, <2>1, <2>2
<1>6. <<sum>> \o payload \in Seq(Nat) /\ Len(<<sum>> \o payload) \in Nat
  BY <1>5, ConcatProperties
<1>7. first \in Seq(Byte) /\ Len(first) \in Nat
  BY <1>3, <1>6, FunctionIsSeq DEF Chains
<1>8. c \in Seq(Byte)
  BY <1>3, <1>7, FunctionIsSeq DEF Chains
<1>9. c \in Seq(Nat)
  BY <1>4, <1>8, SeqMonotonic
<1>10. <<HeaderCode, Len(payload), rkey>> \in Seq(Nat)
  BY <1>4
<1> QED BY <1>2, <1>9, <1>10, ConcatProperties

\* The first element of one part goes behind the part before it.
LEMMA HeadAcross ==
  ASSUME NEW S, NEW b \in Seq(S), NEW c \in Seq(S), c # <<>>
  PROVE  b \o c = Append(b, Head(c)) \o Tail(c)
<1>1. /\ Head(c) \in S /\ Tail(c) \in Seq(S) /\ <<Head(c)>> \in Seq(S)
      /\ Len(c) \in Nat \ {0}
  BY HeadTailProperties, EmptySeq
<1>2. c = <<Head(c)>> \o Tail(c)
  <2>1. /\ 1 \in 1 .. Len(c) /\ Len(c) \in 1 .. Len(c)
    BY <1>1
  <2>2. SubSeq(c, 1, Len(c)) = <<c[1]>> \o SubSeq(c, 1 + 1, Len(c))
    BY <2>1, SubSeqRecursiveFirst
  <2>3. SubSeq(c, 1, Len(c)) = c /\ SubSeq(c, 1 + 1, Len(c)) = Tail(c) /\ c[1] = Head(c)
    <3>1. 1 + 1 = 2
      OBVIOUS
    <3> QED BY <3>1, SubSeqFull, TailIsSubSeq
  <2> QED BY <2>2, <2>3
<1>3. (b \o <<Head(c)>>) \o Tail(c) = b \o (<<Head(c)>> \o Tail(c))
  BY <1>1, ConcatAssociative
<1>4. Append(b, Head(c)) = b \o <<Head(c)>>
  BY <1>1, AppendIsConcat
<1> QED BY <1>2, <1>3, <1>4

-----------------------------------------------------------------------------
(* The invariant's steps *)

\* Steps that change neither bytes nor payloads.
LEMMA FlowTypesSame ==
  ASSUME FlowTypes, UNCHANGED <<data, written, wire, sent>>, UNCHANGED recvVars
  PROVE  FlowTypes'
  BY DEF FlowTypes, recvVars

\* The types of bytes and payloads.
LEMMA FlowTypesSend ==
  ASSUME SenderInvariant, FlowTypes, PayloadsAccepted, SenderNext, UNCHANGED recvVars
  PROVE  FlowTypes'
<1> USE DEF SenderInvariant, SenderTypes
<1>1. ASSUME NEW t \in Threads, AppSteps(t) PROVE FlowTypes'
  <2>1. ASSUME NEW p \in pool, allocs < Len(Payloads), AllocPacket(t, p, Payloads[allocs + 1])
        PROVE  FlowTypes'
    <3>1. Payloads[allocs + 1] \in Accepted
      <4>1. allocs + 1 \in 1 .. Len(Payloads)
        BY <2>1 DEF PayloadsAccepted
      <4> QED BY <4>1, ElementOfSeq DEF PayloadsAccepted
    <3>2. Payloads[allocs + 1] \in Seq(Nat)
      <4>1. Byte \subseteq Nat
        BY ByteAssumption DEF Byte
      <4>2. Payloads[allocs + 1] \in Seq(Byte)
        BY <3>1 DEF Accepted
      <4> QED BY <4>1, <4>2, SeqMonotonic
    <3>3. /\ data' = [data EXCEPT ![p] = Payloads[allocs + 1]]
          /\ written' = [written EXCEPT ![p] = Payloads[allocs + 1]]
          /\ UNCHANGED <<wire, sent>>
      BY <2>1 DEF AllocPacket, ClearPacket, queueVars
    <3> QED BY <3>1, <3>2, <3>3 DEF FlowTypes, recvVars
  <2>2. ASSUME NEW p, GiveBack(t, p) \/ (\E u \in Threads : HandOver(t, u, p)) \/ (\E s \in Sessions : SendPacket(t, p, s))
        PROVE  FlowTypes'
    <3>1. UNCHANGED <<data, written, wire, sent>>
      BY <2>2 DEF GiveBack, HandOver, SendPacket, queueVars
    <3> QED BY <3>1, FlowTypesSame
  <2>3. CASE /\ allocs < Len(Payloads) /\ pool # {}
             /\ AllocPacket(t, CHOOSE p \in pool : TRUE, Payloads[allocs + 1])
    <3>1. (CHOOSE p \in pool : TRUE) \in pool
      BY <2>3
    <3> QED BY <2>1, <2>3, <3>1
  <2> QED BY <1>1, <2>2, <2>3 DEF AppSteps
<1>2. ASSUME NEW t \in Threads, SendSteps(t) PROVE FlowTypes'
  <2>1. CASE Look(t) \/ LockPacket(t) \/ UnlockPacket(t)
    <3>1. UNCHANGED <<data, written, wire, sent>>
      BY <2>1 DEF Look, LockPacket, UnlockPacket, packetVars, queueVars
    <3> QED BY <3>1, FlowTypesSame
  <2>2. CASE Encode(t)
    <3>1. PICK p \in Packets : p = packet[t]
      BY <2>2 DEF Encode, CallTypes
    <3>2. PICK rkey \in RandomKeys : \E e \in Encodings(data[p], rkey) : data' = [data EXCEPT ![p] = e]
      BY <2>2, <3>1 DEF Encode
    <3>3. PICK e \in Encodings(data[p], rkey) : data' = [data EXCEPT ![p] = e]
      BY <3>2
    <3>4. e \in Seq(Nat)
      BY <3>1, EncodingIsSeq, BudgetAssumption DEF FlowTypes
    <3>5. UNCHANGED <<written, wire, sent>>
      BY <2>2 DEF Encode, queueVars
    <3> QED BY <3>3, <3>4, <3>5 DEF FlowTypes, recvVars
  <2>3. CASE Enqueue(t)
    <3>1. packet[t] \in Packets
      BY <2>3 DEF Enqueue, CallTypes
    <3>2. written[packet[t]] \in Accepted
      BY <3>1 DEF FlowTypes
    <3>3. UNCHANGED <<data, written, wire>>
      BY <2>3 DEF Enqueue, packetVars
    <3>4. sent' \in [Sessions -> Seq(Accepted)]
      <4>1. \A s \in Sessions : Append(sent[s], written[packet[t]]) \in Seq(Accepted)
        BY <3>2, AppendProperties DEF FlowTypes
      <4>2. sent' = [sent EXCEPT ![session[t]] = Append(@, written[packet[t]])]
        BY <2>3 DEF Enqueue
      <4> QED BY <4>1, <4>2 DEF FlowTypes
    <3> QED BY <3>3, <3>4 DEF FlowTypes, recvVars
  <2> QED BY <1>2, <2>1, <2>2, <2>3 DEF SendSteps
<1>3. ASSUME NEW s \in Sessions, SessionSteps(s) PROVE FlowTypes'
  <2>1. CASE SendPost(s) \/ SendDone(s)
    <3>1. UNCHANGED <<data, written, wire, sent>>
      BY <2>1 DEF SendPost, SendDone, packetVars
    <3> QED BY <3>1, FlowTypesSame
  <2>2. CASE Transmit(s)
    <3>1. PICK p : p = SendBuffer[s][Len(SendBuffer[s]) - unread[s] + 1] /\ wire' = [wire EXCEPT ![s] = @ \o data[p]]
      BY <2>2 DEF Transmit
    <3>2. p \in Packets
      <4>1. Len(SendBuffer[s]) - unread[s] + 1 \in 1 .. Len(SendBuffer[s])
        BY <2>2 DEF Transmit, QueueTypes
      <4> QED BY <3>1, <4>1 DEF QueueTypes
    <3>3. wire[s] \o data[p] \in Seq(Nat)
      BY <3>2, ConcatProperties DEF FlowTypes
    <3>4. UNCHANGED <<data, written, sent>>
      BY <2>2 DEF Transmit, packetVars
    <3> QED BY <3>1, <3>3, <3>4 DEF FlowTypes, recvVars
  <2> QED BY <1>3, <2>1, <2>2 DEF SessionSteps
<1> QED BY <1>1, <1>2, <1>3 DEF SenderNext

\* Steps that change nothing of a session's bytes and payloads.
LEMMA FlowKept ==
  ASSUME NEW s \in Sessions, Flow(s), Waiting(s)' = Waiting(s), sent'[s] = sent[s], wire'[s] = wire[s],
         UNCHANGED recvVars
  PROVE  Flow(s)'
  BY DEF Flow, recvVars

\* The bytes of three parts.
LEMMA BytesTogether == \A a, b, c \in Seq(Nat) : (a \o b) \o c = a \o (b \o c)
  BY ConcatAssociative

\* A payload goes behind the last of three parts.
LEMMA PayloadBehind ==
  ASSUME NEW a \in Seq(Accepted), NEW b \in Seq(Accepted), NEW c \in Seq(Accepted), NEW m \in Accepted
  PROVE  Append(a \o (b \o c), m) = a \o (b \o Append(c, m))
<1>1. b \o c \in Seq(Accepted) /\ a \o (b \o c) \in Seq(Accepted) /\ <<m>> \in Seq(Accepted) /\ c \o <<m>> \in Seq(Accepted)
  BY ConcatProperties
<1>2. Append(a \o (b \o c), m) = (a \o (b \o c)) \o <<m>>
  BY <1>1, AppendIsConcat
<1>3. (a \o (b \o c)) \o <<m>> = a \o ((b \o c) \o <<m>>)
  BY <1>1, ConcatAssociative
<1>4. (b \o c) \o <<m>> = b \o (c \o <<m>>)
  BY <1>1, ConcatAssociative
<1>5. c \o <<m>> = Append(c, m)
  BY AppendIsConcat
<1> QED BY <1>2, <1>3, <1>4, <1>5

\* OnRecv gets the first of what flies.
LEMMA NextAcross ==
  ASSUME NEW a \in Seq(Accepted), NEW b \in Seq(Accepted), NEW c \in Seq(Accepted), b # <<>>
  PROVE  a \o (b \o c) = Append(a, Head(b)) \o (Tail(b) \o c)
<1> DEFINE front == Append(a, Head(b))
<1>1. /\ Head(b) \in Accepted /\ Tail(b) \in Seq(Accepted)
      /\ front \in Seq(Accepted)
  BY HeadTailProperties, AppendProperties
<1>2. a \o b = front \o Tail(b)
  BY HeadAcross
<1> HIDE DEF front
<1>3. a \o (b \o c) = (a \o b) \o c
  BY ConcatAssociative
<1>4. (front \o Tail(b)) \o c = front \o (Tail(b) \o c)
  BY <1>1, ConcatAssociative
<1> QED BY <1>2, <1>3, <1>4 DEF front

\* SendPacket enqueues a payload.
LEMMA FlowEnqueue ==
  ASSUME SenderInvariant, FlowTypes, SenderTypes', FlowTypes', NEW s \in Sessions, Flow(s),
         NEW t \in Threads, Enqueue(t), UNCHANGED recvVars
  PROVE  Flow(s)'
<1>0. SenderTypes /\ EncodingOrder /\ PacketTypes /\ CallTypes /\ QueueTypes
  BY DEF SenderInvariant, SenderTypes
<1>1. PICK p \in Packets, r \in Sessions : p = packet[t] /\ r = session[t]
  BY <1>0 DEF Enqueue, CallTypes
<1>2. /\ SendQ' = [SendQ EXCEPT ![r] = Append(@, p)] /\ sent' = [sent EXCEPT ![r] = Append(@, written[p])]
      /\ UNCHANGED <<SendBuffer, unread, wire, written>>
  BY <1>1 DEF Enqueue, packetVars
<1>3. CASE r = s
  <2>1. SendQ'[s] = Append(SendQ[s], p) /\ sent'[s] = Append(sent[s], written[p])
    BY <1>0, <1>2, <1>3 DEF QueueTypes, FlowTypes
  <2>2. Waiting(s)' = Append(Waiting(s), written[p])
    BY <1>0, <1>2, <2>1, WaitingMore
  <2>3. PICK flying \in Seq(Accepted) :
           /\ sent[s] = received[s] \o (flying \o Waiting(s))
           /\ ~overrun[s] => Framed(RecvQ[s] \o wire[s], flying)
    BY DEF Flow
  <2>4. received[s] \in Seq(Accepted) /\ Waiting(s) \in Seq(Accepted) /\ written[p] \in Accepted
    BY <1>0, WaitingType DEF FlowTypes
  <2>5. sent'[s] = received[s] \o (flying \o Append(Waiting(s), written[p]))
    <3>1. Append(received[s] \o (flying \o Waiting(s)), written[p]) = received[s] \o (flying \o Append(Waiting(s), written[p]))
      BY <2>4, PayloadBehind
    <3> QED BY <2>1, <2>3, <3>1
  <2>6. sent'[s] = received'[s] \o (flying \o Waiting(s)')
    BY <2>2, <2>5 DEF recvVars
  <2> QED BY <1>2, <2>3, <2>6 DEF Flow, recvVars
<1>4. CASE r # s
  <2>1. SendQ'[s] = SendQ[s] /\ sent'[s] = sent[s]
    BY <1>2, <1>4
  <2>2. Waiting(s)' = Waiting(s)
    BY <1>0, <1>2, <2>1, WaitingSame
  <2> QED BY <1>2, <2>1, <2>2, FlowKept
<1> QED BY <1>3, <1>4

\* The kernel puts a message behind the others.
LEMMA FlowTransmit ==
  ASSUME SenderInvariant, FlowTypes, NEW s \in Sessions, Flow(s), Transmit(s), UNCHANGED recvVars
  PROVE  Flow(s)'
<1>0. SenderTypes /\ EncodingOrder /\ PacketTypes /\ CallTypes /\ QueueTypes
  BY DEF SenderInvariant, SenderTypes
<1>1. PICK k \in 1 .. Len(SendBuffer[s]) : k = Len(SendBuffer[s]) - unread[s] + 1
  BY <1>0 DEF Transmit, QueueTypes
<1>2. PICK p \in Packets : p = SendBuffer[s][k]
  BY <1>0, <1>1 DEF QueueTypes
<1>3. wire' = [wire EXCEPT ![s] = @ \o data[p]] /\ UNCHANGED <<sent>>
  BY <1>1, <1>2 DEF Transmit
<1>4. Carries(data[p], written[p])
  BY <1>0, <1>2 DEF EncodingOrder, QueuedFlagged, DataKnown
<1>5. /\ Waiting(s) # <<>> /\ Head(Waiting(s)) = written[p] /\ Waiting(s)' = Tail(Waiting(s))
      /\ Waiting(s) \in Seq(Accepted)
  BY <1>0, <1>1, <1>2, WaitingRead, WaitingType
<1>6. PICK flying \in Seq(Accepted) :
         /\ sent[s] = received[s] \o (flying \o Waiting(s))
         /\ ~overrun[s] => Framed(RecvQ[s] \o wire[s], flying)
  BY DEF Flow
<1>7. /\ data[p] \in Seq(Nat) /\ written[p] \in Accepted /\ written[p] \in Seq(Byte)
      /\ RecvQ[s] \in Seq(Nat) /\ wire[s] \in Seq(Nat)
  BY DEF FlowTypes, Accepted
<1> DEFINE more == Append(flying, written[p])
<1>8. more \in Seq(Accepted)
  BY <1>7, AppendProperties
<1>9. sent'[s] = received'[s] \o (more \o Waiting(s)')
  <2>1. flying \o Waiting(s) = more \o Tail(Waiting(s))
    BY <1>5, HeadAcross
  <2> QED BY <1>3, <1>5, <1>6, <2>1 DEF recvVars
<1>10. ASSUME ~overrun[s] PROVE Framed(RecvQ[s] \o wire'[s], more)
  <2>1. RecvQ[s] \o wire[s] \in Seq(Nat)
    BY <1>7, ConcatProperties
  <2>2. flying \in Seq(Seq(Byte))
    BY SeqMonotonic DEF Accepted
  <2>3. Framed((RecvQ[s] \o wire[s]) \o data[p], more)
    BY <1>4, <1>6, <1>7, <1>10, <2>1, <2>2, FramedAppend
  <2>4. (RecvQ[s] \o wire[s]) \o data[p] = RecvQ[s] \o (wire[s] \o data[p])
    BY <1>7, BytesTogether
  <2>5. wire'[s] = wire[s] \o data[p]
    BY <1>3 DEF FlowTypes
  <2> QED BY <2>3, <2>4, <2>5
<1> HIDE DEF more
<1> QED BY <1>8, <1>9, <1>10 DEF Flow, recvVars

\* The sender's steps.
LEMMA FlowSend ==
  ASSUME SenderInvariant, FlowTypes, SenderTypes', FlowTypes', NEW s \in Sessions, Flow(s),
         SenderNext, UNCHANGED recvVars
  PROVE  Flow(s)'
<1> USE DEF SenderInvariant, SenderTypes
<1>1. ASSUME UNCHANGED <<SendQ, SendBuffer, unread, written, wire, sent>> PROVE Flow(s)'
  BY <1>1, WaitingSame, FlowKept
<1>2. ASSUME NEW t \in Threads, AppSteps(t) PROVE Flow(s)'
  <2>1. ASSUME NEW p \in pool, NEW payload, AllocPacket(t, p, payload) PROVE Flow(s)'
    <3>1. References(p) = {} /\ p \in Packets
      BY DEF AllExact, Exact, PacketTypes
    <3>2. /\ UNCHANGED <<SendQ, SendBuffer, unread, wire, sent>>
          /\ written' = [written EXCEPT ![p] = payload]
      BY <2>1 DEF AllocPacket, queueVars
    <3>3. /\ \A i \in 1 .. Len(SendQ[s]) : SendQ[s][i] # p /\ SendQ[s][i] \in Packets
          /\ \A i \in 1 .. Len(SendBuffer[s]) : SendBuffer[s][i] # p /\ SendBuffer[s][i] \in Packets
      <4>1. SendQ[s] \in Seq(Packets) /\ SendBuffer[s] \in Seq(Packets)
        BY DEF QueueTypes
      <4>2. /\ \A i \in 1 .. Len(SendQ[s]) : SendQ[s][i] # p
            /\ \A i \in 1 .. Len(SendBuffer[s]) : SendBuffer[s][i] # p
        BY <3>1, NotQueued
      <4> QED BY <4>1, <4>2, ElementOfSeq
    <3>4. Waiting(s)' = Waiting(s)
      <4>1. \A q \in Packets : q # p => written'[q] = written[q]
        BY <3>2 DEF PacketTypes
      <4> QED BY <3>2, <3>3, <4>1, WaitingSame
    <3> QED BY <3>2, <3>4, FlowKept
  <2>2. ASSUME NEW p, GiveBack(t, p) \/ (\E u \in Threads : HandOver(t, u, p)) \/ (\E r \in Sessions : SendPacket(t, p, r))
        PROVE  Flow(s)'
    <3>1. UNCHANGED <<SendQ, SendBuffer, unread, written, wire, sent>>
      BY <2>2 DEF GiveBack, HandOver, SendPacket, queueVars
    <3> QED BY <1>1, <3>1
  <2>3. CASE /\ pool # {}
             /\ AllocPacket(t, CHOOSE p \in pool : TRUE, Payloads[allocs + 1])
    <3>1. (CHOOSE p \in pool : TRUE) \in pool
      BY <2>3
    <3> QED BY <2>1, <2>3, <3>1
  <2> QED BY <1>2, <2>2, <2>3 DEF AppSteps
<1>3. ASSUME NEW t \in Threads, SendSteps(t) PROVE Flow(s)'
  <2>1. CASE Look(t) \/ LockPacket(t) \/ UnlockPacket(t) \/ Encode(t)
    <3>1. UNCHANGED <<SendQ, SendBuffer, unread, written, wire, sent>>
      BY <2>1 DEF Look, LockPacket, UnlockPacket, Encode, packetVars, queueVars
    <3> QED BY <1>1, <3>1
  <2>2. CASE Enqueue(t)
    BY <2>2, FlowEnqueue
  <2> QED BY <1>3, <2>1, <2>2 DEF SendSteps
<1>4. ASSUME NEW r \in Sessions, SessionSteps(r), r # s PROVE Flow(s)'
  <2>1. /\ SendQ'[s] = SendQ[s] /\ SendBuffer'[s] = SendBuffer[s] /\ unread'[s] = unread[s]
        /\ wire'[s] = wire[s] /\ sent' = sent /\ written' = written
    BY <1>4 DEF SessionSteps, SendPost, Transmit, SendDone, packetVars, QueueTypes, FlowTypes
  <2>2. Waiting(s)' = Waiting(s)
    BY <2>1, WaitingSame
  <2> QED BY <2>1, <2>2, FlowKept
<1>5. ASSUME SendPost(s) \/ SendDone(s) PROVE Flow(s)'
  <2>1. wire' = wire /\ sent' = sent
    BY <1>5 DEF SendPost, SendDone
  <2> QED BY <1>5, <2>1, WaitingPosted, WaitingDone, FlowKept
<1>6. ASSUME NEW r \in Sessions, SessionSteps(r) PROVE Flow(s)'
  BY <1>4, <1>5, <1>6, FlowTransmit DEF SessionSteps
<1> QED BY <1>2, <1>3, <1>6 DEF SenderNext

-----------------------------------------------------------------------------
(* The peer *)

\* What the receiver reads of a message in RecvQ is what the sender has put there, as
\* far as the message has come.
LEMMA FirstMessage ==
  ASSUME NEW q \in Seq(Nat), NEW w \in Seq(Nat), NEW m \in Seq(Byte),
         HeaderSize + Len(m) <= Len(q \o w), Carries(SubSeq(q \o w, 1, HeaderSize + Len(m)), m),
         Len(q) > HeaderSize
  PROVE  /\ VerifyHeaderMagic(q) /\ PeekPayloadLength(q) = Len(m)
         /\ Len(q) >= MessageSize(q) => DecodeSucceeds(q) /\ Decode(q) = m
<1> DEFINE n == HeaderSize + Len(m)
           e == SubSeq(q \o w, 1, n)
<1>1. /\ n \in Nat /\ n >= 4 /\ Len(q) \in Nat /\ Len(q) > 4
      /\ q \o w \in Seq(Nat) /\ Len(q \o w) = Len(q) + Len(w) /\ n <= Len(q) + Len(w)
      /\ \A i \in 1 .. Len(q) : (q \o w)[i] = q[i]
  <2>1. q \o w \in Seq(Nat) /\ Len(q \o w) = Len(q) + Len(w)
    BY ConcatProperties
  <2>2. \A i \in 1 .. Len(q) : i \in 1 .. Len(q) + Len(w)
    OBVIOUS
  <2>3. \A i \in 1 .. Len(q) : (q \o w)[i] = q[i]
    BY <2>2, ConcatProperties
  <2> QED BY <2>1, <2>3 DEF HeaderSize
<1>2. \A i \in 1 .. n : e[i] = (q \o w)[i]
  <2>1. \A i \in 1 .. n : (q \o w)[i] \in Nat
    BY <1>1, ElementOfSeq
  <2>2. \A i \in 1 .. n - 1 + 1 : e[i] = (q \o w)[1 + i - 1]
    BY <1>1, <2>1, SubSeqProperties
  <2> HIDE DEF e, n
  <2>3. n - 1 + 1 = n /\ \A i \in 1 .. n : 1 + i - 1 = i
    BY <1>1
  <2> QED BY <2>2, <2>3
<1> HIDE DEF e, n
<1>3. e[1] = q[1] /\ e[2] = q[2] /\ e[3] = q[3]
  <2>1. ASSUME NEW i \in {1, 2, 3} PROVE e[i] = q[i]
    <3>1. i \in 1 .. n /\ i \in 1 .. Len(q)
      BY <1>1
    <3> QED BY <1>1, <1>2, <3>1
  <2> QED BY <2>1
<1>4. VerifyHeaderMagic(e) /\ PeekPayloadLength(e) = Len(m) /\ DecodeSucceeds(e) /\ Decode(e) = m
  BY DEF Carries, e, n
<1>5. VerifyHeaderMagic(q) /\ PeekPayloadLength(q) = Len(m)
  BY <1>3, <1>4 DEF VerifyHeaderMagic, PeekPayloadLength
<1>6. ASSUME Len(q) >= MessageSize(q) PROVE DecodeSucceeds(q) /\ Decode(q) = m
  <2>1. MessageSize(q) = n /\ n <= Len(q)
    BY <1>5, <1>6 DEF MessageSize, n
  <2>2. e = SubSeq(q, 1, n)
    <3>1. n \in 0 .. Len(q) /\ 0 + 1 = 1
      BY <1>1, <2>1
    <3>2. SubSeq(q \o w, 0 + 1, n) = SubSeq(q, 0 + 1, n)
      BY <3>1, SubSeqLeft
    <3> QED BY <3>1, <3>2 DEF e
  <2>3. SubSeq(e, 4, n) = SubSeq(q, 4, n)
    <3>1. 1 \in 1 .. Len(q) /\ n \in 1 .. Len(q) /\ 4 \in 1 .. n - 1 + 1 /\ n \in 1 .. n - 1 + 1
      BY <1>1, <2>1
    <3>2. SubSeq(SubSeq(q, 1, n), 4, n) = SubSeq(q, 1 + 4 - 1, 1 + n - 1)
      BY <3>1, SubSeqOfSubSeq
    <3>3. 1 + 4 - 1 = 4 /\ 1 + n - 1 = n
      BY <1>1
    <3> QED BY <2>2, <3>2, <3>3
  <2>4. Clear(e) = Clear(q)
    <3>1. HeaderSize + PeekPayloadLength(e) = n /\ HeaderSize + PeekPayloadLength(q) = n
      BY <1>4, <1>5 DEF n
    <3> QED BY <1>3, <2>3, <3>1 DEF Clear
  <2> QED BY <1>4, <2>4 DEF DecodeSucceeds, Decode
<1> QED BY <1>5, <1>6

\* Bytes arrive.
LEMMA FlowArrive ==
  ASSUME FlowTypes, NEW s \in Sessions, Flow(s), NEW n \in Pieces, RecvCompletes(s, n)
  PROVE  FlowTypes' /\ Flow(s)'
<1>1. /\ n \in Nat /\ n \in 1 .. Len(wire[s]) /\ ~overrun[s] /\ ~handling[s]
      /\ wire[s] \in Seq(Nat) /\ RecvQ[s] \in Seq(Nat)
      /\ wire' = [wire EXCEPT ![s] = SubSeq(@, n + 1, Len(@))]
      /\ UNCHANGED <<data, written, sent, received, open, SendQ, SendBuffer, unread>>
  BY PeersAssumption DEF RecvCompletes, FlowTypes, packetVars
<1>2. SubSeq(wire[s], 1, n) \in Seq(Nat) /\ SubSeq(wire[s], n + 1, Len(wire[s])) \in Seq(Nat)
  BY <1>1, CutTogether
<1>3. /\ wire' \in [Sessions -> Seq(Nat)]
      /\ wire'[s] = SubSeq(wire[s], n + 1, Len(wire[s]))
  BY <1>1, <1>2 DEF FlowTypes
<1>4. Waiting(s)' = Waiting(s)
  BY <1>1 DEF Waiting, WaitingPacket
<1>5. PICK flying \in Seq(Accepted) :
         /\ sent[s] = received[s] \o (flying \o Waiting(s))
         /\ ~overrun[s] => Framed(RecvQ[s] \o wire[s], flying)
  BY DEF Flow
<1>6. CASE n <= RoomBehindRear(s)
  <2>1. /\ RecvQ' = [RecvQ EXCEPT ![s] = @ \o SubSeq(wire[s], 1, n)]
        /\ handling' = [handling EXCEPT ![s] = TRUE] /\ overrun' = overrun
    BY <1>6 DEF RecvCompletes
  <2>2. RecvQ[s] \o SubSeq(wire[s], 1, n) \in Seq(Nat)
    BY <1>1, <1>2, ConcatProperties
  <2>3. RecvQ' \in [Sessions -> Seq(Nat)] /\ RecvQ'[s] = RecvQ[s] \o SubSeq(wire[s], 1, n)
    BY <2>1, <2>2 DEF FlowTypes
  <2>4. FlowTypes'
    BY <1>1, <1>3, <2>1, <2>3 DEF FlowTypes
  <2>5. RecvQ'[s] \o wire'[s] = RecvQ[s] \o wire[s]
    <3>1. n \in 0 .. Len(wire[s])
      BY <1>1
    <3> DEFINE a == RecvQ[s]
               b == wire[s]
    <3>2. a \in Seq(Nat) /\ b \in Seq(Nat) /\ n \in 0 .. Len(b)
      BY <1>1, <3>1
    <3>3. RecvQ'[s] = a \o SubSeq(b, 1, n) /\ wire'[s] = SubSeq(b, n + 1, Len(b))
      BY <1>3, <2>3
    <3> HIDE DEF a, b
    <3>4. (a \o SubSeq(b, 1, n)) \o SubSeq(b, n + 1, Len(b)) = a \o b
      BY <3>2, MoveOver
    <3> QED BY <3>3, <3>4 DEF a, b
  <2>6. Flow(s)'
    BY <1>1, <1>4, <1>5, <2>1, <2>5 DEF Flow
  <2> QED BY <2>4, <2>6
<1>7. CASE ~(n <= RoomBehindRear(s))
  <2>1. overrun' = [overrun EXCEPT ![s] = TRUE] /\ UNCHANGED <<RecvQ, handling>>
    BY <1>7 DEF RecvCompletes
  <2>2. overrun'[s]
    BY <2>1 DEF FlowTypes
  <2>3. FlowTypes'
    BY <1>1, <1>3, <2>1 DEF FlowTypes
  <2>4. Flow(s)'
    BY <1>1, <1>4, <1>5, <2>1, <2>2 DEF Flow
  <2> QED BY <2>3, <2>4
<1> QED BY <1>6, <1>7

\* OnRecv gets the first of the messages on their way, and no other.
LEMMA FlowHandle ==
  ASSUME SenderTypes, FlowTypes, NEW s \in Sessions, Flow(s), HandleMessage(s)
  PROVE  FlowTypes' /\ Flow(s)'
<1> DEFINE q == RecvQ[s]
           w == wire[s]
           stream == q \o w
<1>1. /\ handling[s] /\ open[s] /\ ~overrun[s] /\ Len(q) > HeaderSize /\ (Complete(q) \/ Broken(q))
      /\ UNCHANGED <<senderVars, handling, overrun>>
  BY DEF HandleMessage, Flow, Complete, Broken
<1>2. UNCHANGED <<data, written, wire, sent, SendQ, SendBuffer, unread>>
  BY <1>1 DEF senderVars, packetVars, queueVars
<1>3. /\ q \in Seq(Nat) /\ w \in Seq(Nat) /\ stream \in Seq(Nat) /\ Len(stream) = Len(q) + Len(w)
      /\ Len(q) \in Nat /\ Len(w) \in Nat
  BY ConcatProperties DEF FlowTypes
<1>4. PICK flying \in Seq(Accepted) :
         sent[s] = received[s] \o (flying \o Waiting(s)) /\ Framed(stream, flying)
  BY <1>1 DEF Flow
<1>5. flying \in Seq(Seq(Byte))
  BY SeqMonotonic DEF Accepted
<1>6. flying # <<>>
  <2> SUFFICES ASSUME flying = <<>> PROVE FALSE
    OBVIOUS
  <2>1. stream = <<>>
    BY <1>3, <1>4, FramedEmpty
  <2>2. Len(stream) = 0
    BY <2>1
  <2>3. Len(stream) = Len(q) + Len(w) /\ Len(q) \in Nat /\ Len(w) \in Nat
    BY <1>3
  <2>4. Len(q) > 4
    BY <1>1 DEF HeaderSize
  <2> HIDE DEF stream, q, w
  <2> QED BY <2>2, <2>3, <2>4
<1> DEFINE m == Head(flying)
           n == HeaderSize + Len(m)
<1>7. /\ m \in Accepted /\ m \in Seq(Byte) /\ Tail(flying) \in Seq(Accepted) /\ Len(m) \in Nat /\ n \in Nat
  BY <1>6, HeadTailProperties DEF Accepted, HeaderSize
<1>8. /\ n <= Len(stream) /\ Carries(SubSeq(stream, 1, n), m)
      /\ Framed(SubSeq(stream, n + 1, Len(stream)), Tail(flying))
  BY <1>3, <1>4, <1>5, <1>6, FramedFirst
<1> HIDE DEF m
<1>9. /\ VerifyHeaderMagic(q) /\ PeekPayloadLength(q) = Len(m)
      /\ Len(q) >= MessageSize(q) => DecodeSucceeds(q) /\ Decode(q) = m
  <2> HIDE DEF q, w
  <2> QED BY <1>1, <1>3, <1>7, <1>8, FirstMessage
<1>10. Acceptable(q)
  <2>1. MaxPayloadLen = 0 \/ Len(m) <= MaxPayloadLen
    BY <1>7 DEF Accepted
  <2> QED BY <1>9, <2>1 DEF Acceptable
<1>11. Complete(q) /\ MessageSize(q) = n /\ n <= Len(q) /\ DecodeSucceeds(q) /\ Decode(q) = m
  <2>1. Complete(q)
    BY <1>1, <1>10 DEF Broken
  <2>2. MessageSize(q) = n
    BY <1>9 DEF MessageSize
  <2> QED BY <1>9, <2>1, <2>2, <1>3, <1>7 DEF Complete, LongEnough
<1>12. /\ received' = [received EXCEPT ![s] = Append(@, m)]
       /\ RecvQ' = [RecvQ EXCEPT ![s] = SubSeq(q, n + 1, Len(q))]
       /\ open' = open
  BY <1>11 DEF HandleMessage
<1>13. SubSeq(q, n + 1, Len(q)) \in Seq(Nat) /\ SubSeq(q, n + 1, Len(q)) \o w = SubSeq(stream, n + 1, Len(stream))
  <2>1. n \in 0 .. Len(q)
    BY <1>7, <1>11
  <2>2. q \in Seq(Nat) /\ w \in Seq(Nat)
    BY <1>3
  <2> HIDE DEF n, q, w
  <2>3. SubSeq(q, n + 1, Len(q)) \in Seq(Nat)
    BY <2>1, <2>2, CutTogether
  <2>4. SubSeq(q, n + 1, Len(q)) \o w = SubSeq(q \o w, n + 1, Len(q \o w))
    BY <2>1, <2>2, DropLeft
  <2> QED BY <2>3, <2>4
<1>14. /\ RecvQ' \in [Sessions -> Seq(Nat)] /\ RecvQ'[s] = SubSeq(q, n + 1, Len(q))
       /\ received' \in [Sessions -> Seq(Accepted)] /\ received'[s] = Append(received[s], m)
       /\ received[s] \in Seq(Accepted)
  <2>1. \A r \in Sessions : Append(received[r], m) \in Seq(Accepted)
    BY <1>7, AppendProperties DEF FlowTypes
  <2> QED BY <1>12, <1>13, <2>1 DEF FlowTypes
<1>15. FlowTypes'
  BY <1>1, <1>2, <1>12, <1>14 DEF FlowTypes
<1>16. Waiting(s)' = Waiting(s)
  BY <1>2 DEF Waiting, WaitingPacket
<1>17. sent'[s] = received'[s] \o (Tail(flying) \o Waiting(s)')
  <2> DEFINE a == received[s]
             x == Waiting(s)
  <2>1. a \in Seq(Accepted) /\ x \in Seq(Accepted)
    BY <1>14, WaitingType
  <2>2. sent'[s] = a \o (flying \o x) /\ received'[s] = Append(a, m) /\ Waiting(s)' = x
    BY <1>2, <1>4, <1>14, <1>16
  <2> HIDE DEF a, x
  <2>3. a \o (flying \o x) = Append(a, m) \o (Tail(flying) \o x)
    BY <1>6, <2>1, NextAcross DEF m
  <2> QED BY <2>2, <2>3
<1>18. Framed(RecvQ'[s] \o wire'[s], Tail(flying))
  <2>1. RecvQ'[s] \o wire'[s] = SubSeq(stream, n + 1, Len(stream))
    BY <1>2, <1>13, <1>14
  <2> QED BY <1>8, <2>1
<1>19. Flow(s)'
  BY <1>1, <1>7, <1>12, <1>17, <1>18 DEF Flow
<1> QED BY <1>15, <1>19

\* A receive of one session changes nothing of another.
LEMMA FlowElsewhere ==
  ASSUME FlowTypes, NEW r \in Peers, Receive(r), NEW s \in Sessions, s # r, Flow(s)
  PROVE  Flow(s)'
<1>1. /\ UNCHANGED <<SendQ, SendBuffer, unread, written, sent>>
      /\ wire'[s] = wire[s] /\ RecvQ'[s] = RecvQ[s] /\ received'[s] = received[s]
      /\ open'[s] = open[s] /\ handling'[s] = handling[s] /\ overrun'[s] = overrun[s]
  <2>1. CASE \E n \in Pieces : RecvCompletes(r, n)
    BY <2>1 DEF RecvCompletes, FlowTypes, packetVars
  <2>2. CASE HandleMessage(r)
    BY <2>2 DEF HandleMessage, FlowTypes, senderVars, packetVars, queueVars
  <2>3. CASE RecvPost(r)
    BY <2>3 DEF RecvPost, FlowTypes, senderVars, packetVars, queueVars
  <2> QED BY <2>1, <2>2, <2>3 DEF Receive
<1>2. Waiting(s)' = Waiting(s)
  BY <1>1 DEF Waiting, WaitingPacket
<1> QED BY <1>1, <1>2 DEF Flow

\* Nothing that the peer does matters to the sender.
LEMMA SenderUnmoved ==
  ASSUME SenderInvariant, NEW r \in Peers, Receive(r)
  PROVE  SenderInvariant'
<1>1. UNCHANGED <<packetVars, callVars, SendQ, SendBuffer, unread, holds, allocs>>
  BY DEF Receive, RecvCompletes, HandleMessage, RecvPost, senderVars, queueVars
<1>2. SenderTypes'
  BY <1>1 DEF SenderInvariant, SenderTypes, PacketTypes, CallTypes, QueueTypes, packetVars, callVars
<1>3. AllExact'
  <2>1. ASSUME NEW p \in Packets PROVE References(p)' = References(p)
    BY <1>1 DEF References, callVars
  <2> QED BY <1>1, <2>1 DEF SenderInvariant, AllExact, Exact, packetVars
<1>4. EncodingOrder'
  BY <1>1, PlainOrder DEF SenderInvariant, packetVars, callVars
<1> QED BY <1>2, <1>3, <1>4 DEF SenderInvariant

\* A receive keeps the invariant.
LEMMA FlowReceive ==
  ASSUME FlowInvariant, NEW r \in Peers, Receive(r)
  PROVE  FlowInvariant'
<1>1. r \in Sessions /\ SenderTypes /\ FlowTypes /\ Flow(r)
  BY PeersAssumption DEF FlowInvariant, SenderInvariant
<1>2. FlowTypes' /\ Flow(r)'
  <2>1. CASE \E n \in Pieces : RecvCompletes(r, n)
    BY <1>1, <2>1, FlowArrive
  <2>2. CASE HandleMessage(r)
    BY <1>1, <2>2, FlowHandle
  <2>3. CASE RecvPost(r)
    <3>1. /\ UNCHANGED <<SendQ, SendBuffer, unread, data, written, sent, wire, RecvQ, open, overrun, received>>
          /\ handling' = [handling EXCEPT ![r] = FALSE]
      BY <2>3 DEF RecvPost, senderVars, packetVars, queueVars
    <3>2. FlowTypes'
      BY <1>1, <3>1 DEF FlowTypes
    <3>3. Waiting(r)' = Waiting(r)
      BY <3>1 DEF Waiting, WaitingPacket
    <3>4. handling'[r] = FALSE
      BY <1>1, <3>1 DEF FlowTypes
    <3> QED BY <1>1, <3>1, <3>2, <3>3, <3>4 DEF Flow
  <2> QED BY <2>1, <2>2, <2>3 DEF Receive
<1>3. \A s \in Sessions : Flow(s)'
  <2>1. ASSUME NEW s \in Sessions, s # r PROVE Flow(s)'
    BY <1>1, <2>1, FlowElsewhere DEF FlowInvariant
  <2> QED BY <1>2, <2>1
<1>4. SenderInvariant'
  BY SenderUnmoved DEF FlowInvariant
<1> QED BY <1>2, <1>3, <1>4 DEF FlowInvariant

\* Before the first packet nothing is on its way.
LEMMA InitFlow == Init => FlowInvariant
<1> SUFFICES ASSUME Init PROVE FlowInvariant
  OBVIOUS
<1>1. SenderInvariant
  BY InitSenderInvariant DEF Init
<1>2. <<>> \in Seq(Nat) /\ <<>> \in Seq(Accepted) /\ <<>> \in Accepted
  BY EmptySeq, RecvAssumption DEF Accepted
<1>3. FlowTypes
  BY <1>2 DEF Init, SenderInit, FlowTypes
<1>4. ASSUME NEW s \in Sessions PROVE Flow(s)
  <2>1. /\ open[s] /\ ~handling[s] /\ RecvQ[s] = <<>> /\ wire[s] = <<>> /\ sent[s] = <<>> /\ received[s] = <<>>
        /\ unread[s] = 0 /\ SendQ[s] = <<>>
    BY DEF Init, SenderInit
  <2>2. Waiting(s) = <<>>
    <3>1. Waiting(s) \in Seq(Accepted) /\ Len(Waiting(s)) = unread[s] + Len(SendQ[s])
      BY <1>1, <1>3, WaitingType DEF SenderInvariant
    <3>2. Len(Waiting(s)) = 0
      BY <2>1, <3>1
    <3> QED BY <3>1, <3>2, EmptySeq
  <2>3. <<>> \o <<>> = <<>>
    BY <1>2, ConcatEmptySeq
  <2>4. sent[s] = received[s] \o (<<>> \o Waiting(s)) /\ Framed(RecvQ[s] \o wire[s], <<>>)
    BY <2>1, <2>2, <2>3, FramedEmpty
  <2> QED BY <1>2, <2>1, <2>4 DEF Flow
<1> QED BY <1>1, <1>3, <1>4 DEF FlowInvariant

-----------------------------------------------------------------------------
(* Theorems *)

\* The inductive invariant of sender, stream and peer, if the application writes no payload
\* that the receiver's limit refuses.
THEOREM FlowInvariantHolds ==
  ASSUME PayloadsAccepted
  PROVE  Spec => []FlowInvariant
<1>1. FlowInvariant /\ [Next]_vars => FlowInvariant'
  <2> SUFFICES ASSUME FlowInvariant, [Next]_vars PROVE FlowInvariant'
    OBVIOUS
  <2>1. ASSUME Send PROVE FlowInvariant'
    <3>1. SenderInvariant /\ SenderNext /\ UNCHANGED recvVars
      BY <2>1 DEF FlowInvariant, Send
    <3>2. SenderInvariant'
      BY <3>1, SenderTypesStep, ExactStep, OrderStep DEF SenderInvariant
    <3>3. FlowTypes'
      BY <3>1, FlowTypesSend DEF FlowInvariant
    <3>4. \A s \in Sessions : Flow(s)'
      BY <3>1, <3>2, <3>3, FlowSend DEF FlowInvariant, SenderInvariant
    <3> QED BY <3>2, <3>3, <3>4 DEF FlowInvariant
  <2>2. ASSUME UNCHANGED vars PROVE FlowInvariant'
    <3>1. SenderInvariant'
      BY <2>2, SenderTypesStep, ExactStep, OrderStep DEF FlowInvariant, SenderInvariant, vars
    <3>2. FlowTypes'
      BY <2>2, FlowTypesSame DEF FlowInvariant, vars, senderVars, packetVars, queueVars
    <3>3. ASSUME NEW s \in Sessions PROVE Flow(s)'
      <4>1. Waiting(s)' = Waiting(s)
        BY <2>2 DEF Waiting, WaitingPacket, vars, senderVars, packetVars, queueVars
      <4>2. Flow(s) /\ sent'[s] = sent[s] /\ wire'[s] = wire[s] /\ UNCHANGED recvVars
        BY <2>2 DEF FlowInvariant, vars, senderVars, queueVars
      <4> QED BY <4>1, <4>2, FlowKept
    <3> QED BY <3>1, <3>2, <3>3 DEF FlowInvariant
  <2> QED BY <2>1, <2>2, FlowReceive DEF Next
<1> QED BY <1>1, InitFlow, PTL DEF Spec

\* What is proved of the sender alone holds beside peers too, whatever they receive.
THEOREM SenderCorrectInFlow == Spec => [](RefsExact /\ QueuedEncoded)
<1>1. Init => SenderInvariant
  BY InitSenderInvariant DEF Init
<1>2. SenderInvariant /\ [Next]_vars => SenderInvariant'
  <2>1. SenderInvariant /\ [SenderNext]_senderVars => SenderInvariant'
    BY SenderTypesStep, ExactStep, OrderStep DEF SenderInvariant
  <2> QED BY <2>1, SenderUnmoved DEF Next, Send, vars
<1> QED BY <1>1, <1>2, SenderPromises, PTL DEF Spec

\* Whatever pieces the stream cuts the bytes into and whichever thread encoded a packet,
\* OnRecv gets what SendPacket enqueued for the session, in that order, and
\* CheckPacketMessageComplete never kills a session over a message of this encoder.
THEOREM MessagesArrive ==
  ASSUME PayloadsAccepted
  PROVE  Spec => []ReceivedAsSent
<1>1. FlowInvariant => ReceivedAsSent
  <2> SUFFICES ASSUME FlowInvariant, NEW s \in Sessions PROVE IsPrefixOf(received[s], sent[s]) /\ open[s]
    BY DEF ReceivedAsSent
  <2>1. Flow(s) /\ SenderTypes /\ FlowTypes
    BY DEF FlowInvariant, SenderInvariant
  <2>2. PICK flying \in Seq(Accepted) : sent[s] = received[s] \o (flying \o Waiting(s))
    BY <2>1 DEF Flow
  <2> DEFINE a == received[s]
             x == flying \o Waiting(s)
  <2>3. a \in Seq(Accepted) /\ x \in Seq(Accepted) /\ sent[s] = a \o x
    BY <2>1, <2>2, WaitingType, ConcatProperties DEF FlowTypes
  <2> HIDE DEF a, x
  <2>4. Len(a \o x) = Len(a) + Len(x) /\ Len(a) \in Nat /\ Len(x) \in Nat
    BY <2>3, ConcatProperties
  <2>5. a = SubSeq(a \o x, 1, Len(a))
    <3>1. Len(a) \in 0 .. Len(a) /\ 0 + 1 = 1
      BY <2>4
    <3>2. SubSeq(a \o x, 0 + 1, Len(a)) = SubSeq(a, 0 + 1, Len(a))
      BY <2>3, <3>1, SubSeqLeft
    <3>3. SubSeq(a, 1, Len(a)) = a
      BY <2>3, SubSeqFull
    <3> QED BY <3>1, <3>2, <3>3
  <2>6. IsPrefixOf(a, a \o x)
    BY <2>4, <2>5 DEF IsPrefixOf
  <2> QED BY <2>1, <2>3, <2>6 DEF Flow, a
<1> QED BY <1>1, FlowInvariantHolds, PTL
=============================================================================
