------------------------------ MODULE PacketFlow ------------------------------
(***************************************************************************)
(* Packets from SendPacket to OnRecv: SharedPacket, a byte stream for each *)
(* session, and the peer, whose workers collect the bytes in RecvQ, a      *)
(* Packet used as a buffer, and cut the messages out of it.  The peer may  *)
(* be a NetServer or a NetClient, which share this code.  The stream keeps *)
(* its bytes in order and delivers them in pieces of any size.             *)
(*                                                                         *)
(* A receive offers GetFreeSize bytes, which counts the room before Front  *)
(* too.  More bytes than there is room for behind Rear are written past    *)
(* the end of the buffer: what happens then is undefined, and the model    *)
(* of that session stops there (overrun).                                  *)
(*                                                                         *)
(* Operators named ..._bug are no part of the model: each is the operator  *)
(* after it with a plausible programming error.                            *)
(***************************************************************************)
EXTENDS SharedPacket

CONSTANTS
  RecvSize,        \* the size of RecvQ
  HeaderDefault,   \* kHeaderDefault: where Clear sets Front and Rear
  MaxPayloadLen,
  Peers,           \* bound: the sessions whose other ends are modelled
  Pieces           \* bound: how many bytes may arrive at a time

ASSUME RecvAssumption == RecvSize \in Nat /\ HeaderDefault \in 0 .. RecvSize /\ MaxPayloadLen \in Nat
ASSUME PeersAssumption == Peers \subseteq Sessions /\ Pieces \subseteq Nat

VARIABLES
  RecvQ,        \* the bytes between Front and Rear
  Front,
  handling,     \* a worker is handling a completed receive
  open,         \* the peer has not killed the session
  overrun,
  received      \* history: the payloads that OnRecv was called with

recvVars == <<RecvQ, Front, handling, open, overrun, received>>
vars == <<senderVars, recvVars>>

Init ==
  /\ SenderInit
  /\ RecvQ = [s \in Sessions |-> <<>>]
  /\ Front = [s \in Sessions |-> HeaderDefault]
  /\ handling = [s \in Sessions |-> FALSE]
  /\ open = [s \in Sessions |-> TRUE]
  /\ overrun = [s \in Sessions |-> FALSE]
  /\ received = [s \in Sessions |-> <<>>]

Send == SenderNext /\ UNCHANGED recvVars

GetFreeSize(s) == RecvSize - Len(RecvQ[s])
RoomBehindRear(s) == RecvSize - (Front[s] + Len(RecvQ[s]))

\* A posted receive completes with n bytes, and MoveWritePos counts them in.  One
\* that completes with none ends the session and is left to NetSession.
RecvCompletes(s, n) ==
  /\ open[s] /\ ~overrun[s] /\ ~handling[s]
  /\ n \in 1 .. Len(wire[s])
  /\ n <= GetFreeSize(s)
  /\ IF n <= RoomBehindRear(s)
     THEN /\ RecvQ' = [RecvQ EXCEPT ![s] = @ \o SubSeq(wire[s], 1, n)]
          /\ handling' = [handling EXCEPT ![s] = TRUE]
          /\ UNCHANGED overrun
     ELSE overrun' = [overrun EXCEPT ![s] = TRUE] /\ UNCHANGED <<RecvQ, handling>>
  /\ wire' = [wire EXCEPT ![s] = SubSeq(@, n + 1, Len(@))]
  /\ UNCHANGED <<packetVars, callVars, SendQ, SendBuffer, unread, sent, holds, allocs, sends, Front, open, received>>

\* A MaxPayloadLen of 0 is no limit.
Acceptable(q) == VerifyHeaderMagic(q) /\ (MaxPayloadLen = 0 \/ PeekPayloadLength(q) <= MaxPayloadLen)
MessageSize(q) == HeaderSize + PeekPayloadLength(q)

\* The last byte of the payload is waited for in vain.
LongEnough_bug(q) == Len(q) > MessageSize(q)
LongEnough(q) == Len(q) >= MessageSize(q)

\* CheckPacketMessageComplete looks at nothing while there is no more than a
\* header, and kills the session over a header that is not acceptable.
Complete(q) == Len(q) > HeaderSize /\ Acceptable(q) /\ LongEnough(q)
Broken(q) == Len(q) > HeaderSize /\ ~Acceptable(q)

\* The next message goes to OnRecv, unless the session is killed over it.
HandleMessage(s) ==
  LET q == RecvQ[s]
  IN /\ handling[s] /\ open[s]
     /\ Complete(q) \/ Broken(q)
     /\ IF Complete(q) /\ DecodeSucceeds(q)
        THEN /\ received' = [received EXCEPT ![s] = Append(@, Decode(q))]
             /\ RecvQ' = [RecvQ EXCEPT ![s] = SubSeq(@, MessageSize(q) + 1, Len(@))]
             /\ Front' = [Front EXCEPT ![s] = @ + MessageSize(q)]
             /\ UNCHANGED open
        ELSE open' = [open EXCEPT ![s] = FALSE] /\ UNCHANGED <<received, RecvQ, Front>>
     /\ UNCHANGED <<senderVars, handling, overrun>>

\* An empty buffer is cleared, what remains in it is moved to its very beginning.
NewFront(q) == IF q = <<>> THEN HeaderDefault ELSE 0

\* No further message is complete: the next receive is posted.
RecvPost(s) ==
  /\ handling[s] /\ open[s]
  /\ ~Complete(RecvQ[s]) /\ ~Broken(RecvQ[s])
  /\ Front' = [Front EXCEPT ![s] = NewFront(RecvQ[s])]
  /\ handling' = [handling EXCEPT ![s] = FALSE]
  /\ UNCHANGED <<senderVars, RecvQ, open, overrun, received>>

Receive(s) == (\E n \in Pieces : RecvCompletes(s, n)) \/ HandleMessage(s) \/ RecvPost(s)

Next == Send \/ \E s \in Peers : Receive(s)

\* Once called, SendPacket comes to its end: a packet's lock is held while it is
\* encoded, and nobody waits for it who has not looked at EncodeFlag before that.
\* Workers and kernel go on with what they have to do.
Fairness ==
  /\ \A t \in Threads : WF_vars(SendSteps(t) /\ UNCHANGED recvVars)
  /\ \A s \in Sessions : WF_vars(SessionSteps(s) /\ UNCHANGED recvVars)
  /\ \A s \in Peers : WF_vars(Receive(s))

Spec == Init /\ [][Next]_vars /\ Fairness

-----------------------------------------------------------------------------
(* Properties *)

IsPrefixOf(s, whole) == Len(s) <= Len(whole) /\ s = SubSeq(whole, 1, Len(s))

\* Whatever pieces the stream cuts the bytes into, and whoever encoded the packet:
\* OnRecv gets the payloads that were enqueued for the session, in that order, and
\* no session is killed over a message that this encoder made.
ReceivedAsSent ==
  \A s \in Sessions : IsPrefixOf(received[s], sent[s]) /\ open[s]

\* The payloads for s that OnRecv has not got, a trailing one without a single byte
\* aside: that is only looked at when the next message has begun.
Missing(s) == {n \in Len(received[s]) + 1 .. Len(sent[s]) : \E m \in n .. Len(sent[s]) : sent[s][m] # <<>>}

\* Every payload that was enqueued reaches OnRecv, unless the buffer was overrun.
EverythingArrives == \A s \in Peers : []<>(Missing(s) = {} \/ overrun[s])
=============================================================================
