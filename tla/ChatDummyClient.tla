---------------------------- MODULE ChatDummyClient ----------------------------
(***************************************************************************)
(* The sessions of ChatDummyClient.  A worker thread keeps each of them    *)
(* connected: it logs in, moves to a sector when the answer comes, chats   *)
(* and sends heartbeats, disconnects at random and connects again.         *)
(*                                                                         *)
(* Abstracted: the times at which all this happens; kConnecting, in which  *)
(* a session does nothing; a session whose connect fails stays as it was.  *)
(* sendBuf and the stream to the server are sequences of messages.  What   *)
(* send leaves behind is lost with the connection as what the server never *)
(* receives is, so HandleSend sends all.  A disconnected session does      *)
(* nothing before its socket is closed, so both are one step.  The two     *)
(* buffers have no limit here: the code drops a packet for which sendBuf   *)
(* has no room, as if it had not been asked, and ends the connection when  *)
(* recvBuf is full or holds a packet that fails its checks, which the      *)
(* packets of ChatServer do not (PacketFlow has the stream in bytes).      *)
(*                                                                         *)
(* Operators named ..._bug are no part of the model: each is the operator  *)
(* after it with a plausible programming error.                            *)
(***************************************************************************)
EXTENDS Integers, Sequences

CONSTANTS
  Clients,          \* their account numbers
  MaxConnections,   \* bound: connections of all clients together
  Spot,             \* where rand sends the session of each connection
  MaxPackets        \* bound: messages and heartbeats on each connection

Connections == 1 .. MaxConnections

ASSUME ClientAssumption == Clients \subseteq Nat \ {0}
ASSUME ConnectionAssumption ==
  /\ MaxConnections \in Nat
  /\ Spot \in [Connections -> Int \X Int]
  /\ MaxPackets \in [Connections -> Nat]

VARIABLES
  state,     \* of each session
  sock,      \* its connection, 0 for INVALID_SOCKET
  sendBuf,
  conns,     \* connections made
  up,        \* on each connection, what the server has not received
  gone,      \* connections whose socket the client has closed
  asked      \* all that was put into sendBuf for a connection

clientVars == <<state, sock, sendBuf, conns, up, gone, asked>>

ClientInit ==
  /\ state = [c \in Clients |-> "Disconnected"]
  /\ sock = [c \in Clients |-> 0]
  /\ sendBuf = [c \in Clients |-> <<>>]
  /\ conns = 0
  /\ up = [k \in Connections |-> <<>>]
  /\ gone = {}
  /\ asked = [k \in Connections |-> <<>>]

\* What is left in sendBuf stays there for the next connection.
ResetSessionForReconnect_bug(c) == UNCHANGED sendBuf
ResetSessionForReconnect(c) == sendBuf' = [sendBuf EXCEPT ![c] = <<>>]

InitiateConnect(c) ==
  /\ state[c] = "Disconnected"
  /\ conns < MaxConnections
  /\ conns' = conns + 1
  /\ sock' = [sock EXCEPT ![c] = conns + 1]
  /\ ResetSessionForReconnect(c)
  /\ state' = [state EXCEPT ![c] = "Connected"]
  /\ UNCHANGED <<up, gone, asked>>

Put(c, msg) ==
  /\ sendBuf' = [sendBuf EXCEPT ![c] = Append(@, msg)]
  /\ asked' = [asked EXCEPT ![sock[c]] = Append(@, msg)]
  /\ UNCHANGED <<sock, conns, up, gone>>

SendLoginPacket(c) ==
  /\ state[c] = "Connected"
  /\ Put(c, [type |-> "ReqLogin", account |-> c])
  /\ state' = [state EXCEPT ![c] = "LoginSent"]

SendSectorMovePacket(c) ==
  Put(c, [type |-> "ReqSectorMove", account |-> c, x |-> Spot[sock[c]][1], y |-> Spot[sock[c]][2]])

\* What else the server may tell is only counted.
HandleRecv(c, msg) ==
  /\ state[c] # "Disconnected"
  /\ msg.type = "ResLogin"
  /\ state' = [state EXCEPT ![c] = "Active"]
  /\ SendSectorMovePacket(c)

\* Login and move are not counted.
PacketsOn(k) == IF Len(asked[k]) > 2 THEN Len(asked[k]) - 2 ELSE 0

SendChatPacket(c) ==
  /\ state[c] = "Active"
  /\ PacketsOn(sock[c]) < MaxPackets[sock[c]]
  /\ Put(c, [type |-> "ReqMessage", account |-> c, text |-> <<sock[c], PacketsOn(sock[c]) + 1>>])
  /\ UNCHANGED state

SendHeartbeatPacket(c) ==
  /\ state[c] = "Active"
  /\ PacketsOn(sock[c]) < MaxPackets[sock[c]]
  /\ Put(c, [type |-> "ReqHeartbeat"])
  /\ UNCHANGED state

HandleSend(c) ==
  /\ state[c] # "Disconnected"
  /\ sendBuf[c] # <<>>
  /\ up' = [up EXCEPT ![sock[c]] = @ \o sendBuf[c]]
  /\ sendBuf' = [sendBuf EXCEPT ![c] = <<>>]
  /\ UNCHANGED <<state, sock, conns, gone, asked>>

\* MarkDisconnected, and closesocket when the worker comes to the session again.
MarkDisconnected(c) ==
  /\ state' = [state EXCEPT ![c] = "Disconnected"]
  /\ gone' = gone \cup {sock[c]}
  /\ sock' = [sock EXCEPT ![c] = 0]
  /\ UNCHANGED <<sendBuf, conns, up, asked>>

\* disconnectAt is reached.
DisconnectAtRandom(c) == state[c] = "Active" /\ MarkDisconnected(c)

\* All that these clients may send.
ClientMessages ==
  [type : {"ReqHeartbeat"}]
    \cup [type : {"ReqLogin"}, account : Clients]
    \cup [type : {"ReqSectorMove"}, account : Clients, x : {Spot[k][1] : k \in Connections}, y : {Spot[k][2] : k \in Connections}]
    \cup UNION {[type : {"ReqMessage"}, account : Clients, text : {k} \X (1 .. MaxPackets[k])] : k \in Connections}

\* recv or send finds the connection ended by the other side.
FindEnd(c) == state[c] # "Disconnected" /\ MarkDisconnected(c)
=============================================================================
