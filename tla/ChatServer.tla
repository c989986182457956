------------------------------ MODULE ChatServer ------------------------------
(***************************************************************************)
(* The ChatServer example on top of NetServer.  The callbacks, which run   *)
(* on the accept thread, on workers and on whoever releases a session,     *)
(* only put a job into JobQueue and set JobEvent; one content thread takes *)
(* the jobs, keeps the characters and the lists of the characters in each  *)
(* sector, and answers.  The order of the callbacks is the one that        *)
(* SessionCallbacks promises and NetServer keeps.                          *)
(*                                                                         *)
(* Abstracted: JobQueue is a FIFO queue.  LockFreeQueue is one (FifoQueue) *)
(* in its instances and, for one producer, in general; every thread that   *)
(* calls back is a producer of JobQueue, though, and with three of them    *)
(* LockFreeQueue may free a node that is in use (HeldNodeKept fails): what *)
(* is shown here is shown for a queue that does not.  The pools give what  *)
(* was freed (TLSMemoryPool), and packets are the messages in them, whose  *)
(* length fields are true.  The order within a sector's list makes no      *)
(* difference, so a list is the number of times that each character is on  *)
(* it.  LastRecvTime is left out: any character may be found too late by   *)
(* CheckHeartBeat.  The content thread handles a job in one step: all that *)
(* others see of it are the packets it sends and the sessions it kills.    *)
(*                                                                         *)
(* Operators named ..._bug are no part of the model: each is the operator  *)
(* after it with a plausible programming error.                            *)
(***************************************************************************)
EXTENDS Integers, Sequences, FiniteSets

CONSTANTS
  SessionIDs,      \* pairs <<slot, count>>
  Messages,        \* what clients may send
  LongTexts,       \* texts of kMessageBufsize bytes or more
  Width, Height,   \* kSectorXMax, kSectorYMax
  Timer,           \* the heartbeat timer thread
  MaxBeats,        \* bound: the jobs it makes; 0 when heartBeatFlag is not set
  MaxSignalling,   \* bound: callbacks at once between their job and its event
  Unset            \* what is in a field that was never written

ASSUME GridAssumption == Width \in Nat /\ Height \in Nat /\ Unset \notin Int
ASSUME IDAssumption == SessionIDs \subseteq Nat \X Nat /\ Timer \notin SessionIDs
ASSUME BoundAssumption == MaxBeats \in Nat /\ MaxSignalling \in Nat \ {0}

VARIABLES
  opened, closed, reading,   \* of SessionCallbacks
  signalling,    \* the callers of callbacks that have yet to set JobEvent
  JobQueue, JobEvent,
  content,       \* the content thread: "runs", "found none" or "waits"
  characters,    \* CharacterMap
  SectorList,
  killed,        \* sessions that KillSession was called for
  told,          \* what SendPacket was called with for each session until it left
  beats,
  crashed

callbackVars == <<opened, closed, reading>>
worldVars == <<characters, SectorList>>
serverVars == <<callbackVars, signalling, JobQueue, JobEvent, content, worldVars, killed, told, beats, crashed>>

Net == INSTANCE SessionCallbacks

Sectors == (0 .. Width - 1) \X (0 .. Height - 1)

ServerInit ==
  /\ Net!Init
  /\ signalling = {}
  /\ JobQueue = <<>>
  /\ JobEvent = FALSE
  /\ content = "runs"
  /\ characters = [id \in {} |-> {}]
  /\ SectorList = [sector \in Sectors |-> [id \in SessionIDs |-> 0]]
  /\ killed = {}
  /\ told = [id \in SessionIDs |-> <<>>]
  /\ beats = 0
  /\ crashed = FALSE

-----------------------------------------------------------------------------
(* The callbacks *)

\* The job that came last is taken first.
EnqueueJob_bug(job) == JobQueue' = <<job>> \o JobQueue
EnqueueJob(job) == JobQueue' = Append(JobQueue, job)

\* JobEvent is set a step later.
Signal(who) ==
  /\ Cardinality(signalling) < MaxSignalling
  /\ signalling' = signalling \cup {who}

JoinJob(id)         == [type |-> "join", session |-> id]
LeaveJob(id)        == [type |-> "leave", session |-> id]
MessageJob(id, msg) == [type |-> "message", session |-> id, packet |-> msg]
HeartbeatJob        == [type |-> "heartbeat"]

\* The slot of a session is free again when its OnClientLeave has returned.
OnClientJoin(id) ==
  /\ Net!Join(id)
  /\ \A other \in signalling \ {Timer} : other[1] # id[1]
  /\ EnqueueJob(JoinJob(id))
  /\ Signal(id)
  /\ UNCHANGED <<JobEvent, content, worldVars, killed, told, beats, crashed>>

OnRecv(id, msg) ==
  /\ Net!RecvBegin(id)
  /\ id \notin signalling
  /\ EnqueueJob(MessageJob(id, msg))
  /\ Signal(id)
  /\ UNCHANGED <<JobEvent, content, worldVars, killed, told, beats, crashed>>

OnClientLeave(id) ==
  /\ Net!Leave(id)
  /\ id \notin signalling
  /\ EnqueueJob(LeaveJob(id))
  /\ Signal(id)
  /\ told' = [told EXCEPT ![id] = <<>>]
  /\ UNCHANGED <<JobEvent, content, worldVars, killed, beats, crashed>>

HeartbeatTimer ==
  /\ Timer \notin signalling
  /\ beats < MaxBeats
  /\ beats' = beats + 1
  /\ EnqueueJob(HeartbeatJob)
  /\ Signal(Timer)
  /\ UNCHANGED <<callbackVars, JobEvent, content, worldVars, killed, told, crashed>>

\* The callback's last step.
SetEvent(who) ==
  /\ who \in signalling
  /\ JobEvent' = TRUE
  /\ signalling' = signalling \ {who}
  /\ IF who \in reading THEN Net!RecvEnd(who) ELSE UNCHANGED callbackVars
  /\ UNCHANGED <<JobQueue, content, worldVars, killed, told, beats, crashed>>

-----------------------------------------------------------------------------
(* The content thread *)

Crash == crashed' = TRUE /\ UNCHANGED <<worldVars, killed, told>>

\* A packet for a session that is not open any more goes nowhere.
SendTo(ids, msg) ==
  told' = [id \in SessionIDs |->
             IF id \in ids \cap (opened \ (closed \cup killed)) THEN Append(told[id], msg) ELSE told[id]]

Kill(ids) == killed' = killed \cup (ids \cap (opened \ closed))

SectorOf(character) == <<character.x, character.y>>

OnList(list, id) == [list EXCEPT ![id] = @ + 1]
OffList(list, id) == [list EXCEPT ![id] = IF @ > 0 THEN @ - 1 ELSE 0]

\* SectorX is set, SectorY is not.
CreateCharacter(id) ==
  /\ characters' = [k \in DOMAIN characters \cup {id} |->
                      IF k \in DOMAIN characters THEN characters[k] ELSE [account |-> 0, x |-> -1, y |-> Unset]]
  /\ UNCHANGED <<SectorList, killed, told, crashed>>

\* SectorX of a character that has not moved is -1.
Placed(character) == character.x >= 0

\* The list is left as it is.
LeaveSector_bug(id) == SectorList
LeaveSector(id) ==
  LET character == characters[id]
  IN IF Placed(character)
     THEN [SectorList EXCEPT ![SectorOf(character)] = OffList(@, id)]
     ELSE SectorList

LeaveCharacter(id) ==
  IF id \in DOMAIN characters
  THEN /\ characters' = [k \in DOMAIN characters \ {id} |-> characters[k]]
       /\ SectorList' = LeaveSector(id)
       /\ UNCHANGED <<killed, told, crashed>>
  ELSE Crash

Login(id, msg) ==
  IF Placed(characters[id])
  THEN Crash
  ELSE /\ characters' = [characters EXCEPT ![id].account = msg.account]
       /\ SendTo({id}, [type |-> "ResLogin", account |-> msg.account])
       /\ UNCHANGED <<SectorList, killed, crashed>>

SectorMove(id, msg) ==
  LET sector == <<msg.x, msg.y>>
  IN IF characters[id].account # msg.account
     THEN Kill({id}) /\ UNCHANGED <<worldVars, told, crashed>>
     ELSE /\ IF sector \in Sectors
             THEN /\ characters' = [characters EXCEPT ![id].x = msg.x, ![id].y = msg.y]
                  /\ SectorList' = [LeaveSector(id) EXCEPT ![sector] = OnList(@, id)]
             ELSE UNCHANGED worldVars
          /\ SendTo({id}, [type |-> "ResSectorMove", account |-> msg.account])
          /\ UNCHANGED <<killed, crashed>>

\* SendPacketAround: those on the lists of the sector and of its neighbours.
\* Without a sector, the rows are those around what SectorY holds.
Around(x, rows) ==
  {id \in SessionIDs : \E sector \in Sectors :
     sector[1] \in x - 1 .. x + 1 /\ sector[2] \in rows /\ SectorList[sector][id] > 0}

ChatMessage(id, msg) ==
  LET character == characters[id]
  IN IF character.account # msg.account
     THEN Kill({id}) /\ UNCHANGED <<worldVars, told, crashed>>
     ELSE IF msg.text \in LongTexts THEN Crash
     ELSE /\ \E y \in IF character.y = Unset THEN -1 .. Height ELSE {character.y} :
               SendTo(Around(character.x, y - 1 .. y + 1),
                      [type |-> "ResMessage", account |-> msg.account, text |-> msg.text])
          /\ UNCHANGED <<worldVars, killed, crashed>>

MessageControl(id, msg) ==
  IF id \notin DOMAIN characters THEN Crash
  ELSE CASE msg.type = "ReqLogin" -> Login(id, msg)
         [] msg.type = "ReqSectorMove" -> SectorMove(id, msg)
         [] msg.type = "ReqMessage" -> ChatMessage(id, msg)
         [] msg.type \in {"ReqHeartbeat", "Server"} -> UNCHANGED <<worldVars, killed, told, crashed>>
         [] OTHER -> Kill({id}) /\ UNCHANGED <<worldVars, told, crashed>>

CheckHeartBeat ==
  /\ \E late \in SUBSET DOMAIN characters : Kill(late)
  /\ UNCHANGED <<worldVars, told, crashed>>

HandleJob ==
  LET job == Head(JobQueue)
  IN /\ content = "runs"
     /\ JobQueue # <<>>
     /\ JobQueue' = Tail(JobQueue)
     /\ CASE job.type = "message" -> MessageControl(job.session, job.packet)
          [] job.type = "join" -> CreateCharacter(job.session)
          [] job.type = "leave" -> LeaveCharacter(job.session)
          [] job.type = "heartbeat" -> CheckHeartBeat
     /\ UNCHANGED <<callbackVars, signalling, JobEvent, content, beats>>

FindNoJob ==
  /\ content = "runs"
  /\ JobQueue = <<>>
  /\ content' = "found none"
  /\ UNCHANGED <<callbackVars, signalling, JobQueue, JobEvent, worldVars, killed, told, beats, crashed>>

\* The event is reset before the thread waits for it.
BeforeWaiting_bug == JobEvent' = FALSE
BeforeWaiting == UNCHANGED JobEvent

StartWaiting ==
  /\ content = "found none"
  /\ content' = "waits"
  /\ BeforeWaiting
  /\ UNCHANGED <<callbackVars, signalling, JobQueue, worldVars, killed, told, beats, crashed>>

\* JobEvent resets itself when it lets the thread go.
WakeUp ==
  /\ content = "waits"
  /\ JobEvent
  /\ JobEvent' = FALSE
  /\ content' = "runs"
  /\ UNCHANGED <<callbackVars, signalling, JobQueue, worldVars, killed, told, beats, crashed>>

UpdateThread == HandleJob \/ FindNoJob \/ StartWaiting \/ WakeUp

-----------------------------------------------------------------------------
\* The server whatever its clients send.
ServerNext ==
  /\ ~crashed
  /\ \/ \E id \in SessionIDs : OnClientJoin(id) \/ OnClientLeave(id) \/ \E msg \in Messages : OnRecv(id, msg)
     \/ \E who \in SessionIDs \cup {Timer} : SetEvent(who)
     \/ HeartbeatTimer
     \/ UpdateThread

ServerSpec == ServerInit /\ [][ServerNext]_serverVars

-----------------------------------------------------------------------------
(* Properties *)

\* A session's character is on the list of the sector that it is in, once, and on
\* no other; nothing is on a list that is no character any more, for the list keeps
\* pointers into CharacterPool.
SectorListsAgree ==
  \A sector \in Sectors : \A id \in SessionIDs :
    SectorList[sector][id] =
      IF id \in DOMAIN characters /\ SectorOf(characters[id]) = sector THEN 1 ELSE 0

\* OnConnectionRequest compares a number of characters that is out of date with
\* MaxUser and may let too many in, but never more characters than session slots:
\* the next user of a slot gets its character after the last one's is gone.
OneCharacterPerSlot ==
  \A a, b \in DOMAIN characters : a[1] = b[1] => a = b

\* MessageControl and LeaveCharacter crash the server when the character they look
\* for is missing: the order of the jobs makes sure that it is there.
JobsFindCharacters ==
  JobQueue # <<>> /\ Head(JobQueue).type \in {"message", "leave"}
    => Head(JobQueue).session \in DOMAIN characters

\* The content thread's tables fit together and fit the jobs in the queue, although
\* the callbacks that make these run on many threads.
WorldConsistent == SectorListsAgree /\ OneCharacterPerSlot /\ JobsFindCharacters

\* The content thread does not sleep on a job: while there is one and the thread has
\* found none, JobEvent is set or a callback is about to set it.
WakeUpComes ==
  content # "runs" /\ JobQueue # <<>> => JobEvent \/ signalling # {}
=============================================================================
