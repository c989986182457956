--------------------------------- MODULE Chat ---------------------------------
(***************************************************************************)
(* ChatServer, NetServer's accept thread and workers as far as they call   *)
(* it, and the sessions of ChatDummyClient.                                *)
(*                                                                         *)
(* The accept thread asks OnConnectionRequest in one step and acts on the  *)
(* answer in a later one, when it takes a session and calls OnClientJoin.  *)
(* FreeSessionStack gives the session that came back last; which one makes *)
(* no difference here, so any free slot is taken.                          *)
(***************************************************************************)
EXTENDS ChatServer, ChatDummyClient

CONSTANTS
  Slots,     \* of SessionList
  MaxUser

ASSUME SlotAssumption == Slots \X Connections \subseteq SessionIDs
ASSUME MessageAssumption ==
  /\ ClientMessages \subseteq Messages
  /\ \A msg \in ClientMessages : msg.type = "ReqMessage" => msg.text \notin LongTexts

VARIABLES
  backlog,   \* connections that accept has yet to return
  accepted,  \* the connection that OnConnectionRequest let in and that has no session yet, or 0
  refused,   \* connections the accept thread closed at once
  heard      \* how much of what its session was told a client has received

networkVars == <<backlog, accepted, refused, heard>>
vars == <<serverVars, clientVars, networkVars>>

Init ==
  /\ ServerInit
  /\ ClientInit
  /\ backlog = <<>>
  /\ accepted = 0
  /\ refused = {}
  /\ heard = [c \in Clients |-> 0]

-----------------------------------------------------------------------------
(* The server's threads *)

\* The slot of a session comes back when OnClientLeave has returned.
FreeSlots ==
  {slot \in Slots : \A id \in (opened \ closed) \cup (signalling \ {Timer}) : id[1] # slot}

\* OnClientJoin runs on the accept thread.
Joining == signalling \cap (opened \ (closed \cup reading)) # {}

\* The number of characters, not of sessions: joins still in the queue do not count.
OnConnectionRequest == Cardinality(DOMAIN characters) < MaxUser

Accept ==
  /\ ~Joining
  /\ accepted = 0
  /\ backlog # <<>>
  /\ backlog' = Tail(backlog)
  /\ IF OnConnectionRequest
     THEN accepted' = Head(backlog) /\ UNCHANGED refused
     ELSE refused' = refused \cup {Head(backlog)} /\ UNCHANGED accepted
  /\ UNCHANGED <<serverVars, clientVars, heard>>

\* The socket gets a session, or is closed when there is none.
OpenSession ==
  /\ accepted # 0
  /\ accepted' = 0
  /\ IF FreeSlots # {}
     THEN /\ \E slot \in FreeSlots : OnClientJoin(<<slot, accepted>>)
          /\ UNCHANGED refused
     ELSE /\ refused' = refused \cup {accepted}
          /\ UNCHANGED serverVars
  /\ UNCHANGED <<clientVars, backlog, heard>>

Receive(id) ==
  /\ up[id[2]] # <<>>
  /\ OnRecv(id, Head(up[id[2]]))
  /\ up' = [up EXCEPT ![id[2]] = Tail(@)]
  /\ UNCHANGED <<state, sock, sendBuf, conns, gone, asked, networkVars>>

\* The client is gone or KillSession was called.
Leave(id) ==
  /\ id[2] \in gone \/ id \in killed
  /\ OnClientLeave(id)
  /\ UNCHANGED <<clientVars, networkVars>>

Server ==
  /\ \/ \E who \in SessionIDs \cup {Timer} : SetEvent(who)
     \/ HeartbeatTimer
     \/ UpdateThread
  /\ UNCHANGED <<clientVars, networkVars>>

-----------------------------------------------------------------------------
(* The clients *)

Connect(c) ==
  /\ InitiateConnect(c)
  /\ backlog' = Append(backlog, conns + 1)
  /\ heard' = [heard EXCEPT ![c] = 0]
  /\ UNCHANGED <<serverVars, accepted, refused>>

\* What is told before the answer to the login, and after it, makes no difference to
\* the client, which counts it: it is received together with the answer.
Hear(c) ==
  \E id \in opened : \E i \in heard[c] + 1 .. Len(told[id]) :
    /\ id[2] = sock[c]
    /\ HandleRecv(c, told[id][i])
    /\ heard' = [heard EXCEPT ![c] = i]
    /\ UNCHANGED <<serverVars, backlog, accepted, refused>>

Ended(c) == sock[c] \in refused \cup {id[2] : id \in closed}

Client(c) ==
  \/ Connect(c)
  \/ Hear(c)
  \/ /\ \/ SendLoginPacket(c)
        \/ SendChatPacket(c)
        \/ SendHeartbeatPacket(c)
        \/ HandleSend(c)
        \/ DisconnectAtRandom(c)
        \/ Ended(c) /\ FindEnd(c)
     /\ UNCHANGED <<serverVars, networkVars>>

Next ==
  /\ ~crashed
  /\ \/ Accept \/ OpenSession
     \/ \E id \in SessionIDs : Receive(id) \/ Leave(id)
     \/ Server
     \/ \E c \in Clients : Client(c)

\* The threads run on: a callback that has queued its job sets the event, and the
\* content thread is scheduled.
Fairness ==
  /\ \A who \in SessionIDs \cup {Timer} : WF_vars(~crashed /\ SetEvent(who) /\ UNCHANGED <<clientVars, networkVars>>)
  /\ WF_vars(~crashed /\ UpdateThread /\ UNCHANGED <<clientVars, networkVars>>)

Spec == Init /\ [][Next]_vars /\ Fairness

-----------------------------------------------------------------------------
(* Properties *)

\* With these clients none of the calls of Crash is reached: MessageControl and
\* LeaveCharacter find the character they look for, and nobody logs in who is in a
\* sector already.
NeverCrashes == ~crashed

\* What MessageControl owes a session for what it was asked: nothing for a heartbeat.
HasAnswer(msg) == msg.type # "ReqHeartbeat"

Answer(msg) ==
  CASE msg.type = "ReqLogin" -> [type |-> "ResLogin", account |-> msg.account]
    [] msg.type = "ReqSectorMove" -> [type |-> "ResSectorMove", account |-> msg.account]
    [] msg.type = "ReqMessage" -> [type |-> "ResMessage", account |-> msg.account, text |-> msg.text]

\* The texts of other connections are no answers.
Own(id) == {i \in DOMAIN told[id] : told[id][i].type # "ResMessage" \/ told[id][i].text[1] = id[2]}

\* What a session is told besides what others say are the answers to what its client
\* asked on this connection, each once, in that order and with none left out before
\* another, its own texts included.
AnswersInOrder(id) ==
  LET requests == asked[id[2]]
  IN \E request \in [Own(id) -> DOMAIN requests] : \A i \in Own(id) :
       /\ HasAnswer(requests[request[i]]) /\ told[id][i] = Answer(requests[request[i]])
       /\ \A j \in Own(id) : i < j => request[i] < request[j]
       /\ \A n \in 1 .. request[i] - 1 : HasAnswer(requests[n]) => \E j \in Own(id) : request[j] = n

\* What others say comes once and, from one connection, in the order said.
TextsInOrder(id) ==
  \A i, j \in DOMAIN told[id] :
    /\ i < j
    /\ told[id][i].type = "ResMessage"
    /\ told[id][j].type = "ResMessage"
    /\ told[id][i].text[1] = told[id][j].text[1]
    => told[id][i].text[2] < told[id][j].text[2]

\* A session is told what its client is owed, in order, and what others say, in order.
AnsweredInOrder == \A id \in opened : AnswersInOrder(id) /\ TextsInOrder(id)

\* The content thread learns of every session that is gone: after OnClientLeave its
\* character is removed, for ever.
LeftAreForgotten ==
  \A id \in SessionIDs : id \in closed ~> [](id \notin DOMAIN characters)
=============================================================================
