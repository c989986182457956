----------------------------- MODULE SharedPacket -----------------------------
(***************************************************************************)
(* A Packet from AllocPacket until its last reference is given back.       *)
(* Several threads may hold references to one packet and send it to        *)
(* several sessions: whoever comes first encodes it, under the packet's    *)
(* lock, while the others look at EncodeFlag without the lock; the send    *)
(* queues and the buffers of posted sends hold references of their own.    *)
(*                                                                         *)
(* What a packet's buffer holds between Front and Rear is a sequence of    *)
(* bytes.  There is always room for a header before the payload: Clear     *)
(* leaves kHeaderDefault bytes free, and the encoder is not compiled if    *)
(* its header is larger.                                                   *)
(*                                                                         *)
(* SendFlag, which keeps SendPost to one thread at a time, and the end of  *)
(* a session are the business of NetSession: here sessions stay open, and  *)
(* SendPost and the end of a send take turns.  The kernel may read a       *)
(* buffer that it was given at any time before the send is complete.       *)
(*                                                                         *)
(* Operators named ..._bug are no part of the model: each is the operator  *)
(* after it with a plausible programming error.                            *)
(***************************************************************************)
EXTENDS PacketEncoder, FiniteSets

CONSTANTS
  Threads,      \* threads that send
  Allocators,   \* bound: those of them that call AllocPacket
  Packets,      \* bound: the packets that the pool can give
  Sessions,
  Payloads,     \* bound: what the application writes, a packet each
  RandomKeys,   \* bound: what rand() % 256 may give
  MaxSends,     \* bound: calls of SendPacket for each session
  NoThread, NoPacket, NoSession

ASSUME PartiesAssumption ==
  /\ IsFiniteSet(Threads) /\ IsFiniteSet(Packets) /\ IsFiniteSet(Sessions)
  /\ Allocators \subseteq Threads
  /\ NoThread \notin Threads /\ NoPacket \notin Packets /\ NoSession \notin Sessions
ASSUME PayloadAssumption == Payloads \in Seq(Seq(Byte))
ASSUME BudgetAssumption == RandomKeys \subseteq Byte /\ MaxSends \in [Sessions -> Nat]

VARIABLES
  pool,        \* the packets in the memory pool
  refCnt, data, encodeFlag,
  lock,        \* the thread that holds SRWEncode, or NoThread
  pc,          \* where each thread is in SendPacket
  packet, session,  \* what it was called with
  holds,       \* the packets a thread has a reference to outside SendPacket
  SendQ, SendBuffer,
  unread,      \* how many packets of SendBuffer the kernel has not read
  wire,        \* the bytes on their way
  allocs, sends,
  written,     \* history: the payload of each packet
  sent         \* history: the payloads enqueued for each session

packetVars == <<pool, refCnt, data, encodeFlag, lock, written>>
callVars   == <<pc, packet, session>>
queueVars  == <<SendQ, SendBuffer, unread, wire, sent>>
senderVars == <<packetVars, callVars, queueVars, holds, allocs, sends>>

SenderInit ==
  /\ pool = Packets
  /\ refCnt = [p \in Packets |-> 0]
  /\ data = [p \in Packets |-> <<>>]
  /\ encodeFlag = [p \in Packets |-> FALSE]
  /\ lock = [p \in Packets |-> NoThread]
  /\ pc = [t \in Threads |-> "app"]
  /\ packet = [t \in Threads |-> NoPacket]
  /\ session = [t \in Threads |-> NoSession]
  /\ holds = [t \in Threads |-> {}]
  /\ SendQ = [s \in Sessions |-> <<>>]
  /\ SendBuffer = [s \in Sessions |-> <<>>]
  /\ unread = [s \in Sessions |-> 0]
  /\ wire = [s \in Sessions |-> <<>>]
  /\ allocs = 0
  /\ sends = [s \in Sessions |-> 0]
  /\ written = [p \in Packets |-> <<>>]
  /\ sent = [s \in Sessions |-> <<>>]

\* The reference that is left when the count was looked at belongs to somebody else.
FreePacket_bug(p) ==
  /\ refCnt' = [refCnt EXCEPT ![p] = @ - 1]
  /\ pool' = IF refCnt'[p] > 1 THEN pool ELSE pool \cup {p}

\* A reference is given back; the last one takes the packet to the pool.
FreePacket(p) ==
  /\ refCnt' = [refCnt EXCEPT ![p] = @ - 1]
  /\ pool' = IF refCnt'[p] # 0 THEN pool ELSE pool \cup {p}

-----------------------------------------------------------------------------
(* The application *)

\* Clear, and the payload that is written next.
ClearPacket(p, payload) ==
  /\ data' = [data EXCEPT ![p] = payload]
  /\ encodeFlag' = [encodeFlag EXCEPT ![p] = FALSE]

AllocPacket(t, p, payload) ==
  /\ pc[t] = "app"
  /\ p \in pool
  /\ pool' = pool \ {p}
  /\ ClearPacket(p, payload)
  /\ refCnt' = [refCnt EXCEPT ![p] = @ + 1]
  /\ holds' = [holds EXCEPT ![t] = @ \cup {p}]
  /\ written' = [written EXCEPT ![p] = payload]
  /\ allocs' = allocs + 1
  /\ UNCHANGED <<lock, callVars, queueVars, sends>>

\* A packet goes to another thread with a reference of its own, as OnRecv of
\* ChatServer hands it to the content thread.
HandOver(t, u, p) ==
  /\ pc[t] = "app"
  /\ p \in holds[t] \ holds[u]
  /\ refCnt' = [refCnt EXCEPT ![p] = @ + 1]
  /\ holds' = [holds EXCEPT ![u] = @ \cup {p}]
  /\ UNCHANGED <<pool, data, encodeFlag, lock, written, callVars, queueVars, allocs, sends>>

GiveBack(t, p) ==
  /\ pc[t] = "app"
  /\ p \in holds[t]
  /\ holds' = [holds EXCEPT ![t] = @ \ {p}]
  /\ FreePacket(p)
  /\ UNCHANGED <<data, encodeFlag, lock, written, callVars, queueVars, allocs, sends>>

-----------------------------------------------------------------------------
(* SendPacket *)

Goto(t, place) == pc' = [pc EXCEPT ![t] = place]

TakeReference_bug(p) == UNCHANGED refCnt
TakeReference(p) == refCnt' = [refCnt EXCEPT ![p] = @ + 1]

SendPacket(t, p, s) ==
  /\ pc[t] = "app"
  /\ sends[s] < MaxSends[s]
  /\ p \in holds[t]
  /\ TakeReference(p)
  /\ packet' = [packet EXCEPT ![t] = p]
  /\ session' = [session EXCEPT ![t] = s]
  /\ sends' = [sends EXCEPT ![s] = @ + 1]
  /\ Goto(t, "look")
  /\ UNCHANGED <<pool, data, encodeFlag, lock, written, queueVars, holds, allocs>>

\* IsEncoded, without the lock.
Look(t) ==
  /\ pc[t] = "look"
  /\ Goto(t, IF encodeFlag[packet[t]] THEN "enqueue" ELSE "lock")
  /\ UNCHANGED <<packetVars, packet, session, queueVars, holds, allocs, sends>>

\* LockPacket, and IsEncoded once more.
LookAgain_bug(p) == "encode"
LookAgain(p) == IF encodeFlag[p] THEN "unlock" ELSE "encode"

LockPacket(t) ==
  /\ pc[t] = "lock"
  /\ lock[packet[t]] = NoThread
  /\ lock' = [lock EXCEPT ![packet[t]] = t]
  /\ Goto(t, LookAgain(packet[t]))
  /\ UNCHANGED <<pool, refCnt, data, encodeFlag, written, packet, session, queueVars, holds, allocs, sends>>

\* Nobody else may look at the packet before the lock is given back.
Encode(t) ==
  /\ pc[t] = "encode"
  /\ \E rkey \in RandomKeys : \E e \in Encodings(data[packet[t]], rkey) :
        data' = [data EXCEPT ![packet[t]] = e]
  /\ Goto(t, "unlock")
  /\ UNCHANGED <<pool, refCnt, encodeFlag, lock, written, packet, session, queueVars, holds, allocs, sends>>

UnlockPacket(t) ==
  /\ pc[t] = "unlock"
  /\ encodeFlag' = [encodeFlag EXCEPT ![packet[t]] = TRUE]
  /\ lock' = [lock EXCEPT ![packet[t]] = NoThread]
  /\ Goto(t, "enqueue")
  /\ UNCHANGED <<pool, refCnt, data, written, packet, session, queueVars, holds, allocs, sends>>

\* The reference that SendPacket took is the queue's from here on.
Enqueue(t) ==
  LET s == session[t]
  IN /\ pc[t] = "enqueue"
     /\ SendQ' = [SendQ EXCEPT ![s] = Append(@, packet[t])]
     /\ sent' = [sent EXCEPT ![s] = Append(@, written[packet[t]])]
     /\ packet' = [packet EXCEPT ![t] = NoPacket]
     /\ session' = [session EXCEPT ![t] = NoSession]
     /\ Goto(t, "app")
     /\ UNCHANGED <<packetVars, SendBuffer, unread, wire, holds, allocs, sends>>

-----------------------------------------------------------------------------
(* SendPost, the kernel and the completion of the send *)

SendPost(s) ==
  /\ SendBuffer[s] = <<>>
  /\ SendQ[s] # <<>>
  /\ SendBuffer' = [SendBuffer EXCEPT ![s] = SendQ[s]]
  /\ unread' = [unread EXCEPT ![s] = Len(SendQ[s])]
  /\ SendQ' = [SendQ EXCEPT ![s] = <<>>]
  /\ UNCHANGED <<packetVars, callVars, wire, sent, holds, allocs, sends>>

\* The kernel reads the next of the packets it was given.
Transmit(s) ==
  /\ unread[s] > 0
  /\ wire' = [wire EXCEPT ![s] = @ \o data[SendBuffer[s][Len(SendBuffer[s]) - unread[s] + 1]]]
  /\ unread' = [unread EXCEPT ![s] = @ - 1]
  /\ UNCHANGED <<packetVars, callVars, SendQ, SendBuffer, sent, holds, allocs, sends>>

\* The worker gives back the packets of a completed send, one after the other.
SendDone(s) ==
  /\ unread[s] = 0
  /\ SendBuffer[s] # <<>>
  /\ FreePacket(Head(SendBuffer[s]))
  /\ SendBuffer' = [SendBuffer EXCEPT ![s] = Tail(@)]
  /\ UNCHANGED <<data, encodeFlag, lock, written, callVars, SendQ, unread, wire, sent, holds, allocs, sends>>

-----------------------------------------------------------------------------
SendSteps(t) ==
  Look(t) \/ LockPacket(t) \/ Encode(t) \/ UnlockPacket(t) \/ Enqueue(t)

\* A thread writes a packet when it has no other in its hands, and hands it to
\* threads that write none themselves.  The packets in the pool are alike: which of
\* them it gives makes no difference.
AppSteps(t) ==
  \/ /\ t \in Allocators /\ holds[t] = {}
     /\ allocs < Len(Payloads) /\ pool # {}
     /\ AllocPacket(t, CHOOSE p \in pool : TRUE, Payloads[allocs + 1])
  \/ \E p \in holds[t] :
       \/ t \in Allocators /\ \E u \in Threads \ Allocators : HandOver(t, u, p)
       \/ GiveBack(t, p)
       \/ \E s \in Sessions : SendPacket(t, p, s)

SessionSteps(s) == SendPost(s) \/ Transmit(s) \/ SendDone(s)

SenderNext ==
  \/ \E t \in Threads : AppSteps(t) \/ SendSteps(t)
  \/ \E s \in Sessions : SessionSteps(s)

SenderSpec == SenderInit /\ [][SenderNext]_senderVars

-----------------------------------------------------------------------------
(* Properties *)

Places == {"app", "look", "lock", "encode", "unlock", "enqueue"}

\* Packets, references, queues and calls have their types.
SenderTypeOK ==
  /\ pool \subseteq Packets
  /\ refCnt \in [Packets -> Int] /\ encodeFlag \in [Packets -> BOOLEAN]
  /\ lock \in [Packets -> Threads \cup {NoThread}]
  /\ written \in [Packets -> Seq(Byte)]
  /\ pc \in [Threads -> Places]
  /\ packet \in [Threads -> Packets \cup {NoPacket}]
  /\ session \in [Threads -> Sessions \cup {NoSession}]
  /\ \A t \in Threads : pc[t] = "app" <=> packet[t] = NoPacket
  /\ \A t \in Threads : pc[t] = "app" <=> session[t] = NoSession
  /\ holds \in [Threads -> SUBSET Packets]
  /\ SendQ \in [Sessions -> Seq(Packets)] /\ SendBuffer \in [Sessions -> Seq(Packets)]
  /\ unread \in [Sessions -> Nat]
  /\ \A s \in Sessions : unread[s] <= Len(SendBuffer[s])
  /\ DOMAIN data = Packets

PlacesOf(p, q) == {i \in 1 .. Len(q) : q[i] = p}

\* Everything that counts as a reference to p.
References(p) ==
  {<<"application", t, 0>> : t \in {u \in Threads : p \in holds[u]}}
    \cup {<<"SendPacket", t, 0>> : t \in {u \in Threads : packet[u] = p}}
    \cup (UNION {{<<"SendQ", s, i>> : i \in PlacesOf(p, SendQ[s])} : s \in Sessions})
    \cup (UNION {{<<"SendBuffer", s, i>> : i \in PlacesOf(p, SendBuffer[s])} : s \in Sessions})

\* RefCnt counts the threads, calls, queue entries and posted buffers that refer
\* to the packet, and the packet is in the pool exactly when there is none: it is
\* given back once, by the last of them, and by nobody while a send is under way.
RefsExact ==
  \A p \in Packets :
    /\ refCnt[p] = Cardinality(References(p))
    /\ p \in pool <=> References(p) = {}

\* A packet that is in a send queue, or that the kernel may be reading, holds the
\* finished encoding of the payload that was written: no sender enqueues it while
\* another one is still encoding it, and nobody encodes or clears it again.
QueuedEncoded ==
  \A s \in Sessions : \A q \in {SendQ[s], SendBuffer[s]} : \A i \in 1 .. Len(q) :
    Carries(data[q[i]], written[q[i]])
=============================================================================
