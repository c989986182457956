------------------------------ MODULE ChatProofs ------------------------------
(***************************************************************************)
(* The theorems about the chat server, whatever its clients send and       *)
(* however many there are: the content thread's tables agree with one      *)
(* another and with the jobs still to come, and it is always woken.  With  *)
(* the clients of ChatDummyClient it does not crash.                       *)
(*                                                                         *)
(* The argument is the order of the jobs.  A session's join is queued      *)
(* before its messages and these before its leave, since SessionCallbacks  *)
(* orders the callbacks and each queues its job before it ends; and the    *)
(* next session on a slot joins after the leave of the last was queued.    *)
(***************************************************************************)
EXTENDS Chat, FiniteSetTheorems, WellFoundedInduction, TLAPS

Accounts == {0} \cup {msg.account : msg \in Messages}
Character == [account : Accounts, x : Int, y : Int \cup {Unset}]

Jobs ==
  [type : {"join", "leave"}, session : SessionIDs]
    \cup [type : {"message"}, session : SessionIDs, packet : Messages]
    \cup {HeartbeatJob}

\* The types of what the content thread and the callbacks share and keep.
ServerTypeOK ==
  /\ opened \subseteq SessionIDs /\ closed \subseteq opened
  /\ JobQueue \in Seq(Jobs)
  /\ DOMAIN characters \subseteq SessionIDs
  /\ characters \in [DOMAIN characters -> Character]
  /\ SectorList \in [Sectors -> [SessionIDs -> Nat]]

-----------------------------------------------------------------------------
(* Jobs in a queue *)

JobAt(q, i, type, id) == i \in 1 .. Len(q) /\ q[i].type = type /\ q[i].session = id

Queued(q, type, id) == \E i \in Nat : JobAt(q, i, type, id)

\* The content thread knows the session, or will when it comes to place i.
KnownAt(q, i, id) == id \in DOMAIN characters \/ \E j \in Nat : j < i /\ JobAt(q, j, "join", id)

\* A session is joined once.
JoinsFirst(q) ==
  \A id \in SessionIDs : \A i \in Nat : JobAt(q, i, "join", id) =>
    /\ id \in opened /\ id \notin DOMAIN characters
    /\ \A j \in Nat : JobAt(q, j, "join", id) => j = i

\* Messages come after their session's join and before its leave.
MessagesBetween(q) ==
  \A id \in SessionIDs : \A i \in Nat : JobAt(q, i, "message", id) =>
    /\ KnownAt(q, i, id)
    /\ \A j \in Nat : JobAt(q, j, "leave", id) => i < j

\* A session leaves once, and after its join.
LeavesLast(q) ==
  \A id \in SessionIDs : \A i \in Nat : JobAt(q, i, "leave", id) =>
    /\ id \in closed
    /\ KnownAt(q, i, id)
    /\ \A j \in Nat : JobAt(q, j, "leave", id) => j = i

\* The content thread knows every open session or will, and will hear of the end of
\* every closed one it knows.
EndsAreQueued(q) ==
  /\ DOMAIN characters \subseteq opened
  /\ \A id \in opened \ closed : id \in DOMAIN characters \/ Queued(q, "join", id)
  /\ \A id \in closed : id \in DOMAIN characters \/ Queued(q, "join", id) => Queued(q, "leave", id)

\* A slot's sessions follow one another in the queue.
SlotsInOrder(q) ==
  /\ \A a, b \in opened : a[2] = b[2] => a = b
  /\ \A a, b \in opened : a[1] = b[1] /\ a[2] < b[2] =>
       /\ a \in closed
       /\ \A i, j \in Nat : JobAt(q, i, "leave", a) /\ JobAt(q, j, "join", b) => i < j
       /\ b \in DOMAIN characters => ~Queued(q, "leave", a)

JobsInOrder ==
  /\ JoinsFirst(JobQueue)
  /\ MessagesBetween(JobQueue)
  /\ LeavesLast(JobQueue)
  /\ EndsAreQueued(JobQueue)
  /\ SlotsInOrder(JobQueue)

ContentInvariant ==
  /\ ServerTypeOK
  /\ SectorListsAgree
  /\ JobsInOrder
  /\ WakeUpComes

-----------------------------------------------------------------------------
(* Types *)

\* Putting a job behind the others keeps the queue a sequence of jobs.
LEMMA EnqueueType ==
  ASSUME JobQueue \in Seq(Jobs), NEW job \in Jobs, EnqueueJob(job)
  PROVE  JobQueue' \in Seq(Jobs)
  BY DEF EnqueueJob

\* A callback or the timer keeps the types.
LEMMA CallbackType ==
  ASSUME ServerTypeOK,
         \/ \E id \in SessionIDs : OnClientJoin(id) \/ OnClientLeave(id) \/ \E msg \in Messages : OnRecv(id, msg)
         \/ HeartbeatTimer
  PROVE  ServerTypeOK'
<1>1. ASSUME NEW id \in SessionIDs, OnClientJoin(id) PROVE ServerTypeOK'
  <2>1. JoinJob(id) \in Jobs
    BY DEF JoinJob, Jobs
  <2> QED BY <1>1, <2>1, EnqueueType DEF OnClientJoin, Net!Join, ServerTypeOK, worldVars
<1>2. ASSUME NEW id \in SessionIDs, OnClientLeave(id) PROVE ServerTypeOK'
  <2>1. LeaveJob(id) \in Jobs
    BY DEF LeaveJob, Jobs
  <2> QED BY <1>2, <2>1, EnqueueType DEF OnClientLeave, Net!Leave, ServerTypeOK, worldVars
<1>3. ASSUME NEW id \in SessionIDs, NEW msg \in Messages, OnRecv(id, msg) PROVE ServerTypeOK'
  <2>1. MessageJob(id, msg) \in Jobs
    BY DEF MessageJob, Jobs
  <2> QED BY <1>3, <2>1, EnqueueType DEF OnRecv, Net!RecvBegin, ServerTypeOK, worldVars
<1>4. ASSUME HeartbeatTimer PROVE ServerTypeOK'
  <2>1. HeartbeatJob \in Jobs
    BY DEF Jobs
  <2> QED BY <1>4, <2>1, EnqueueType DEF HeartbeatTimer, callbackVars, ServerTypeOK, worldVars
<1> QED BY <1>1, <1>2, <1>3, <1>4

\* What a job does to the tables keeps their types.
WorldTypeOK ==
  /\ DOMAIN characters \subseteq SessionIDs
  /\ characters \in [DOMAIN characters -> Character]
  /\ SectorList \in [Sectors -> [SessionIDs -> Nat]]

\* LeaveSector gives sector lists back.
LEMMA LeaveSectorType ==
  ASSUME WorldTypeOK, NEW id \in SessionIDs
  PROVE  LeaveSector(id) \in [Sectors -> [SessionIDs -> Nat]]
<1>1. ASSUME NEW sector \in Sectors PROVE OffList(SectorList[sector], id) \in [SessionIDs -> Nat]
  BY <1>1 DEF OffList, WorldTypeOK
<1> QED BY <1>1 DEF LeaveSector, WorldTypeOK

\* CreateCharacter adds one character to the map.
LEMMA CreateType ==
  ASSUME WorldTypeOK, NEW id \in SessionIDs, CreateCharacter(id)
  PROVE  WorldTypeOK' /\ DOMAIN characters' = DOMAIN characters \cup {id}
<1> DEFINE new == [account |-> 0, x |-> -1, y |-> Unset]
<1>1. new \in Character
  BY DEF Character, Accounts
<1> QED BY <1>1 DEF CreateCharacter, WorldTypeOK

\* LeaveCharacter takes one character out of the map.
LEMMA LeaveType ==
  ASSUME WorldTypeOK, NEW id \in SessionIDs, LeaveCharacter(id)
  PROVE  WorldTypeOK' /\ DOMAIN characters' = DOMAIN characters \ {id}
<1>1. LeaveSector(id) \in [Sectors -> [SessionIDs -> Nat]]
  BY LeaveSectorType
<1> QED BY <1>1 DEF LeaveCharacter, Crash, WorldTypeOK, worldVars

\* A login changes a character in place.
LEMMA LoginType ==
  ASSUME WorldTypeOK, NEW id \in DOMAIN characters, NEW msg \in Messages, Login(id, msg)
  PROVE  WorldTypeOK' /\ DOMAIN characters' = DOMAIN characters
<1>1. msg.account \in Accounts
  BY DEF Accounts
<1>2. [characters[id] EXCEPT !.account = msg.account] \in Character
  BY <1>1 DEF WorldTypeOK, Character
<1> QED BY <1>2 DEF Login, Crash, WorldTypeOK, worldVars

\* A sector move changes a character in place.
LEMMA MoveType ==
  ASSUME WorldTypeOK, NEW id \in DOMAIN characters, NEW msg \in Messages, SectorMove(id, msg)
  PROVE  WorldTypeOK' /\ DOMAIN characters' = DOMAIN characters
<1>0. id \in SessionIDs
  BY DEF WorldTypeOK
<1>1. CASE UNCHANGED worldVars
  BY <1>1 DEF WorldTypeOK, worldVars
<1>2. CASE ~UNCHANGED worldVars
  <2> DEFINE sector == <<msg.x, msg.y>>
  <2>1. /\ sector \in Sectors
        /\ characters' = [characters EXCEPT ![id].x = msg.x, ![id].y = msg.y]
        /\ SectorList' = [LeaveSector(id) EXCEPT ![sector] = OnList(@, id)]
    BY <1>2 DEF SectorMove, worldVars
  <2>2. msg.x \in Int /\ msg.y \in Int
    BY <2>1, GridAssumption DEF Sectors
  <2>3. [characters[id] EXCEPT !.x = msg.x, !.y = msg.y] \in Character
    BY <2>2 DEF WorldTypeOK, Character
  <2>4. characters' = [characters EXCEPT ![id] = [characters[id] EXCEPT !.x = msg.x, !.y = msg.y]]
    BY <2>1
  <2>5. LeaveSector(id) \in [Sectors -> [SessionIDs -> Nat]]
    BY <1>0, LeaveSectorType
  <2>6. OnList(LeaveSector(id)[sector], id) \in [SessionIDs -> Nat]
    <3> DEFINE list == LeaveSector(id)[sector]
    <3>1. list \in [SessionIDs -> Nat]
      BY <2>1, <2>5
    <3>2. list[id] + 1 \in Nat
      BY <1>0, <3>1
    <3> QED BY <3>1, <3>2 DEF OnList
  <2> QED BY <2>1, <2>3, <2>4, <2>5, <2>6 DEF WorldTypeOK
<1> QED BY <1>1, <1>2

\* What one message does to the tables: no character comes or goes.
LEMMA MessageType ==
  ASSUME WorldTypeOK, NEW id \in SessionIDs, NEW msg \in Messages, MessageControl(id, msg)
  PROVE  WorldTypeOK' /\ DOMAIN characters' = DOMAIN characters
<1>1. CASE UNCHANGED worldVars
  BY <1>1 DEF WorldTypeOK, worldVars
<1>2. CASE id \in DOMAIN characters /\ Login(id, msg)
  BY <1>2, LoginType
<1>3. CASE id \in DOMAIN characters /\ SectorMove(id, msg)
  BY <1>3, MoveType
<1> QED BY <1>1, <1>2, <1>3 DEF MessageControl, ChatMessage, Crash, worldVars

\* What a job is.
LEMMA JobKinds ==
  ASSUME NEW job \in Jobs
  PROVE  \/ job.type \in {"join", "leave"} /\ job.session \in SessionIDs
         \/ job.type = "message" /\ job.session \in SessionIDs /\ job.packet \in Messages
         \/ job.type = "heartbeat"
  BY DEF Jobs, HeartbeatJob

\* The four things that HandleJob may do.
LEMMA HandleKinds ==
  ASSUME ServerTypeOK, HandleJob
  PROVE  LET job == Head(JobQueue)
         IN /\ JobQueue # <<>> /\ job \in Jobs
            /\ JobQueue' = Tail(JobQueue) /\ JobQueue' \in Seq(Jobs)
            /\ content = "runs" /\ UNCHANGED <<opened, closed, content>>
            /\ \/ /\ job.type = "message" /\ job.session \in SessionIDs /\ job.packet \in Messages
                  /\ MessageControl(job.session, job.packet)
               \/ /\ job.type = "join" /\ job.session \in SessionIDs
                  /\ CreateCharacter(job.session)
               \/ /\ job.type = "leave" /\ job.session \in SessionIDs
                  /\ LeaveCharacter(job.session)
               \/ /\ job.type = "heartbeat"
                  /\ UNCHANGED worldVars
<1> DEFINE job == Head(JobQueue)
<1>1. JobQueue \in Seq(Jobs) /\ JobQueue # <<>>
  BY DEF ServerTypeOK, HandleJob
<1>2. job \in Jobs /\ Tail(JobQueue) \in Seq(Jobs)
  BY <1>1
<1>3. \/ job.type \in {"join", "leave"} /\ job.session \in SessionIDs
      \/ job.type = "message" /\ job.session \in SessionIDs /\ job.packet \in Messages
      \/ job.type = "heartbeat"
  BY <1>2, JobKinds
<1>4. CheckHeartBeat => UNCHANGED worldVars
  BY DEF CheckHeartBeat, worldVars
<1> QED BY <1>1, <1>2, <1>3, <1>4 DEF HandleJob, callbackVars

\* Handling a job keeps the types, whichever job it is.
LEMMA HandleType == ServerTypeOK /\ HandleJob => ServerTypeOK'
<1> SUFFICES ASSUME ServerTypeOK, HandleJob PROVE ServerTypeOK'
  OBVIOUS
<1> DEFINE job == Head(JobQueue)
<1>1. WorldTypeOK
  BY DEF WorldTypeOK, ServerTypeOK
<1>2. CASE job.session \in SessionIDs /\ job.packet \in Messages /\ MessageControl(job.session, job.packet)
  BY <1>1, <1>2, MessageType, HandleKinds DEF WorldTypeOK, ServerTypeOK
<1>3. CASE job.session \in SessionIDs /\ CreateCharacter(job.session)
  BY <1>1, <1>3, CreateType, HandleKinds DEF WorldTypeOK, ServerTypeOK
<1>4. CASE job.session \in SessionIDs /\ LeaveCharacter(job.session)
  BY <1>1, <1>4, LeaveType, HandleKinds DEF WorldTypeOK, ServerTypeOK
<1>5. CASE UNCHANGED worldVars
  BY <1>5, HandleKinds DEF ServerTypeOK, worldVars
<1> QED BY <1>2, <1>3, <1>4, <1>5, HandleKinds

\* Steps that touch neither jobs nor tables.
LEMMA QuietType ==
  ASSUME ServerTypeOK, UNCHANGED <<opened, closed, JobQueue, worldVars>>
  PROVE  ServerTypeOK'
  BY DEF ServerTypeOK, worldVars

\* The event of the content thread touches neither callbacks, jobs nor characters.
LEMMA QuietSteps ==
  ASSUME \/ \E who \in SessionIDs \cup {Timer} : SetEvent(who)
         \/ FindNoJob \/ StartWaiting \/ WakeUp
         \/ UNCHANGED serverVars
  PROVE  UNCHANGED <<opened, closed, JobQueue, worldVars>>
  BY DEF SetEvent, Net!RecvEnd, FindNoJob, StartWaiting, WakeUp, callbackVars, serverVars

\* Every step of the chat server keeps the types.
LEMMA TypeStep == ServerTypeOK /\ [ServerNext]_serverVars => ServerTypeOK'
  BY CallbackType, HandleType, QuietType, QuietSteps DEF ServerNext, UpdateThread

-----------------------------------------------------------------------------
(* Sector lists *)

\* Where a session is expected to be listed.
ListedOnce(id, sector) == id \in DOMAIN characters /\ SectorOf(characters[id]) = sector

\* Taking a character off its list leaves it on none, and the others where they were.
LEMMA OffAllLists ==
  ASSUME WorldTypeOK, SectorListsAgree, NEW id \in DOMAIN characters,
         NEW sector \in Sectors, NEW other \in SessionIDs
  PROVE  LeaveSector(id)[sector][other] =
           IF other # id /\ ListedOnce(other, sector) THEN 1 ELSE 0
<1> DEFINE own == SectorOf(characters[id])
<1>1. characters[id].x \in Int /\ id \in SessionIDs
  BY DEF WorldTypeOK, Character
<1>2. /\ \A at \in Sectors : \A k \in SessionIDs :
           SectorList[at][k] = IF ListedOnce(k, at) THEN 1 ELSE 0
      /\ SectorList \in [Sectors -> [SessionIDs -> Nat]]
  BY DEF SectorListsAgree, ListedOnce, WorldTypeOK
<1>3. CASE own \notin Sectors
  <2>1. LeaveSector(id) = SectorList
    BY <1>2, <1>3 DEF LeaveSector
  <2> QED BY <1>2, <1>3, <2>1 DEF ListedOnce
<1>4. CASE own \in Sectors
  <2>1. Placed(characters[id])
    BY <1>1, <1>4, GridAssumption DEF Placed, SectorOf, Sectors
  <2>2. LeaveSector(id) = [SectorList EXCEPT ![own] = OffList(SectorList[own], id)]
    BY <2>1 DEF LeaveSector
  <2>3. SectorList[own][id] = 1
    BY <1>1, <1>2, <1>4 DEF ListedOnce
  <2>4. OffList(SectorList[own], id) = [SectorList[own] EXCEPT ![id] = 0]
    BY <2>3 DEF OffList
  <2>5. CASE sector = own
    BY <1>1, <1>2, <1>4, <2>2, <2>4, <2>5
  <2>6. CASE sector # own
    <3>1. ~ListedOnce(id, sector)
      BY <2>6 DEF ListedOnce
    <3>2. LeaveSector(id)[sector] = SectorList[sector]
      BY <1>2, <2>2, <2>6
    <3> QED BY <1>2, <3>1, <3>2
  <2> QED BY <2>5, <2>6
<1> QED BY <1>3, <1>4

\* A new character is in no sector list.
LEMMA CreateLists ==
  ASSUME WorldTypeOK, SectorListsAgree, NEW id \in SessionIDs, CreateCharacter(id)
  PROVE  SectorListsAgree'
<1> SUFFICES ASSUME NEW sector \in Sectors, NEW other \in SessionIDs
             PROVE  ListedOnce(other, sector)' <=> ListedOnce(other, sector)
  BY DEF CreateCharacter, SectorListsAgree, ListedOnce
<1>1. DOMAIN characters' = DOMAIN characters \cup {id}
  BY CreateType
<1>2. CASE other \in DOMAIN characters
  BY <1>2 DEF CreateCharacter, ListedOnce
<1>3. CASE other \notin DOMAIN characters /\ other # id
  BY <1>1, <1>3 DEF ListedOnce
<1>4. CASE other \notin DOMAIN characters /\ other = id
  <2>1. characters'[id].x = -1
    BY <1>4 DEF CreateCharacter
  <2>2. SectorOf(characters'[id]) # sector
    BY <2>1, GridAssumption DEF SectorOf, Sectors
  <2> QED BY <1>4, <2>2 DEF ListedOnce
<1> QED BY <1>2, <1>3, <1>4

\* LeaveCharacter takes the character out of the list it was in.
LEMMA LeaveLists ==
  ASSUME WorldTypeOK, SectorListsAgree, NEW id \in SessionIDs, LeaveCharacter(id)
  PROVE  SectorListsAgree'
<1>1. CASE id \notin DOMAIN characters
  BY <1>1 DEF LeaveCharacter, Crash, worldVars, SectorListsAgree
<1>2. CASE id \in DOMAIN characters
  <2>1. /\ SectorList' = LeaveSector(id)
        /\ characters' = [k \in DOMAIN characters \ {id} |-> characters[k]]
    BY <1>2 DEF LeaveCharacter
  <2>2. ASSUME NEW sector \in Sectors, NEW other \in SessionIDs
        PROVE  ListedOnce(other, sector)' <=> (other # id /\ ListedOnce(other, sector))
    BY <2>1 DEF ListedOnce
  <2> QED BY <1>2, <2>1, <2>2, OffAllLists DEF SectorListsAgree, ListedOnce
<1> QED BY <1>1, <1>2

\* A sector move takes the character from one list to the other.
LEMMA MoveLists ==
  ASSUME WorldTypeOK, SectorListsAgree, NEW id \in DOMAIN characters, NEW msg \in Messages,
         SectorMove(id, msg)
  PROVE  SectorListsAgree'
<1>1. CASE UNCHANGED worldVars
  BY <1>1 DEF SectorListsAgree, worldVars
<1>2. CASE ~UNCHANGED worldVars
  <2> DEFINE here == <<msg.x, msg.y>>
  <2>1. /\ here \in Sectors
        /\ characters' = [characters EXCEPT ![id].x = msg.x, ![id].y = msg.y]
        /\ SectorList' = [LeaveSector(id) EXCEPT ![here] = OnList(@, id)]
        /\ id \in SessionIDs
    BY <1>2 DEF SectorMove, worldVars, WorldTypeOK
  <2>2. LeaveSector(id) \in [Sectors -> [SessionIDs -> Nat]]
    BY <2>1, LeaveSectorType
  <2>3. DOMAIN characters' = DOMAIN characters
    BY <2>1
  <2>4. characters[id] \in Character
    BY DEF WorldTypeOK
  <2>5. SectorOf(characters'[id]) = here
    BY <2>1, <2>4 DEF SectorOf, Character
  <2>6. ASSUME NEW sector \in Sectors, NEW other \in SessionIDs
        PROVE  SectorList'[sector][other] = IF ListedOnce(other, sector)' THEN 1 ELSE 0
    <3>1. LeaveSector(id)[sector][other] = IF other # id /\ ListedOnce(other, sector) THEN 1 ELSE 0
      BY OffAllLists
    <3>2. CASE other = id
      <4>1. ListedOnce(other, sector)' <=> sector = here
        BY <2>3, <2>5, <3>2 DEF ListedOnce
      <4>2. CASE sector = here
        <5>1. SectorList'[sector] = OnList(LeaveSector(id)[sector], id)
          BY <2>1, <2>2, <4>2
        <5> QED BY <2>1, <2>2, <3>1, <3>2, <4>1, <4>2, <5>1 DEF OnList
      <4>3. CASE sector # here
        BY <2>1, <2>2, <3>1, <3>2, <4>1, <4>3
      <4> QED BY <4>2, <4>3
    <3>3. CASE other # id
      <4>1. ListedOnce(other, sector)' <=> ListedOnce(other, sector)
        BY <2>1, <2>3, <3>3 DEF ListedOnce
      <4>2. SectorList'[sector][other] = LeaveSector(id)[sector][other]
        BY <2>1, <2>2, <3>3 DEF OnList
      <4> QED BY <3>1, <3>3, <4>1, <4>2
    <3> QED BY <3>2, <3>3
  <2> QED BY <2>6 DEF SectorListsAgree, ListedOnce
<1> QED BY <1>1, <1>2

\* A login moves nobody.
LEMMA LoginLists ==
  ASSUME WorldTypeOK, SectorListsAgree, NEW id \in DOMAIN characters, NEW msg \in Messages,
         Login(id, msg)
  PROVE  SectorListsAgree'
<1>1. CASE UNCHANGED worldVars
  BY <1>1 DEF SectorListsAgree, worldVars
<1>2. CASE ~UNCHANGED worldVars
  <2>1. characters' = [characters EXCEPT ![id].account = msg.account] /\ SectorList' = SectorList
    BY <1>2 DEF Login, Crash, worldVars
  <2>2. characters[id] \in Character
    BY DEF WorldTypeOK
  <2>3. SectorOf(characters'[id]) = SectorOf(characters[id])
    BY <2>1, <2>2 DEF SectorOf, Character
  <2>4. \A other \in DOMAIN characters : SectorOf(characters'[other]) = SectorOf(characters[other])
    BY <2>1, <2>3
  <2> QED BY <2>1, <2>4 DEF SectorListsAgree
<1> QED BY <1>1, <1>2

\* Every message a character sends keeps the sector lists.
LEMMA MessageLists ==
  ASSUME WorldTypeOK, SectorListsAgree, NEW id \in SessionIDs, NEW msg \in Messages,
         MessageControl(id, msg)
  PROVE  SectorListsAgree'
<1>1. CASE UNCHANGED worldVars
  BY <1>1 DEF SectorListsAgree, worldVars
<1>2. CASE id \in DOMAIN characters /\ Login(id, msg)
  BY <1>2, LoginLists
<1>3. CASE id \in DOMAIN characters /\ SectorMove(id, msg)
  BY <1>3, MoveLists
<1> QED BY <1>1, <1>2, <1>3 DEF MessageControl, ChatMessage, Crash, worldVars

\* The callbacks and the timer only queue jobs; characters are the content thread's.
LEMMA CallbackQuiet ==
  ASSUME \/ \E id \in SessionIDs : OnClientJoin(id) \/ OnClientLeave(id) \/ \E msg \in Messages : OnRecv(id, msg)
         \/ HeartbeatTimer
  PROVE  UNCHANGED worldVars
  BY DEF OnClientJoin, OnClientLeave, OnRecv, HeartbeatTimer

\* Every step keeps the sector lists.
LEMMA ListsStep == ServerTypeOK /\ SectorListsAgree /\ [ServerNext]_serverVars => SectorListsAgree'
<1> SUFFICES ASSUME ServerTypeOK, SectorListsAgree, [ServerNext]_serverVars PROVE SectorListsAgree'
  OBVIOUS
<1>1. WorldTypeOK
  BY DEF WorldTypeOK, ServerTypeOK
<1>2. CASE UNCHANGED worldVars
  BY <1>2 DEF SectorListsAgree, worldVars
<1>3. CASE HandleJob
  BY <1>1, <1>2, <1>3, HandleKinds, MessageLists, CreateLists, LeaveLists
<1> QED BY <1>2, <1>3, CallbackQuiet, QuietSteps DEF ServerNext, UpdateThread

-----------------------------------------------------------------------------
(* Waking up *)

\* Every step keeps a wake-up coming for a queued job.
LEMMA WakeStep == ServerTypeOK /\ WakeUpComes /\ [ServerNext]_serverVars => WakeUpComes'
<1> SUFFICES ASSUME ServerTypeOK, WakeUpComes, [ServerNext]_serverVars PROVE WakeUpComes'
  OBVIOUS
<1>1. CASE \/ \E id \in SessionIDs : OnClientJoin(id) \/ OnClientLeave(id) \/ \E msg \in Messages : OnRecv(id, msg)
           \/ HeartbeatTimer
  <2>1. signalling' # {}
    BY <1>1 DEF OnClientJoin, OnClientLeave, OnRecv, HeartbeatTimer, Signal
  <2> QED BY <2>1 DEF WakeUpComes
<1>2. CASE \E who \in SessionIDs \cup {Timer} : SetEvent(who)
  BY <1>2 DEF SetEvent, WakeUpComes
<1>3. CASE HandleJob
  BY <1>3, HandleKinds DEF WakeUpComes
<1>4. CASE FindNoJob \/ StartWaiting \/ WakeUp
  BY <1>4 DEF FindNoJob, StartWaiting, BeforeWaiting, WakeUp, WakeUpComes
<1>5. CASE UNCHANGED serverVars
  BY <1>5 DEF serverVars, WakeUpComes
<1> QED BY <1>1, <1>2, <1>3, <1>4, <1>5 DEF ServerNext, UpdateThread

-----------------------------------------------------------------------------
(* The order of the jobs *)

\* Where the jobs are once another is put behind them.
LEMMA AppendPlaces ==
  ASSUME NEW q \in Seq(Jobs), NEW job \in Jobs, NEW i \in Nat, NEW type, NEW id
  PROVE  JobAt(Append(q, job), i, type, id) <=>
           JobAt(q, i, type, id) \/ (i = Len(q) + 1 /\ job.type = type /\ job.session = id)
<1> DEFINE after == Append(q, job)
<1>1. Len(after) = Len(q) + 1 /\ after[Len(q) + 1] = job /\ Len(q) \in Nat
  OBVIOUS
<1>2. CASE i \in 1 .. Len(q)
  <2>1. after[i] = q[i]
    BY <1>2
  <2> QED BY <1>1, <1>2, <2>1 DEF JobAt
<1>3. CASE i = Len(q) + 1
  BY <1>1, <1>3 DEF JobAt
<1>4. CASE i \notin 1 .. Len(q) + 1
  BY <1>1, <1>4 DEF JobAt
<1> QED BY <1>1, <1>2, <1>3, <1>4

\* Where they are once the first is taken.
LEMMA TailPlaces ==
  ASSUME NEW q \in Seq(Jobs), q # <<>>, NEW i \in Nat, NEW type, NEW id
  PROVE  JobAt(Tail(q), i, type, id) <=> i >= 1 /\ JobAt(q, i + 1, type, id)
<1>1. Len(Tail(q)) = Len(q) - 1 /\ Len(q) \in Nat /\ Len(q) >= 1
  OBVIOUS
<1>2. ASSUME i \in 1 .. Len(Tail(q)) PROVE Tail(q)[i] = q[i + 1]
  BY <1>2
<1> QED BY <1>1, <1>2 DEF JobAt

\* The job at the head is the first.
LEMMA HeadPlace ==
  ASSUME NEW q \in Seq(Jobs), q # <<>>
  PROVE  /\ JobAt(q, 1, Head(q).type, Head(q).session)
         /\ \A type, id : JobAt(q, 1, type, id) <=> Head(q).type = type /\ Head(q).session = id
         /\ \A i \in Nat : \A type, id : JobAt(q, i, type, id) => i >= 1
<1>1. Len(q) \in Nat /\ 1 \in 1 .. Len(q) /\ Head(q) = q[1]
  OBVIOUS
<1> QED BY <1>1 DEF JobAt

\* The place behind the last job is free.
LEMMA LastPlace ==
  ASSUME NEW q \in Seq(Jobs)
  PROVE  Len(q) + 1 \in Nat /\ \A i \in Nat : \A type, id : JobAt(q, i, type, id) => i < Len(q) + 1
<1>1. Len(q) \in Nat
  OBVIOUS
<1> QED BY <1>1 DEF JobAt

\* OnClientJoin queues behind everything of the sessions before it.
LEMMA JoinOrder ==
  ASSUME ServerTypeOK, JobsInOrder, NEW id \in SessionIDs, OnClientJoin(id)
  PROVE  JobsInOrder'
<1> DEFINE q == JobQueue
<1> DEFINE n == Len(JobQueue) + 1
<1>1. /\ opened' = opened \cup {id} /\ closed' = closed /\ characters' = characters
      /\ id \notin opened
      /\ \A other \in opened : other[2] < id[2]
      /\ \A other \in opened \ closed : other[1] # id[1]
  <2>1. \A other \in opened : other[2] < id[2]
    BY DEF OnClientJoin, Net!Join
  <2>2. id[2] \in Nat
    BY IDAssumption
  <2> QED BY <2>1, <2>2 DEF OnClientJoin, Net!Join, worldVars
<1>2. /\ n \in Nat
      /\ \A i \in Nat : \A type, k : JobAt(q, i, type, k) => i < n
  BY LastPlace DEF ServerTypeOK
<1>3. /\ \A i \in Nat : \A k :
           /\ JobAt(q', i, "join", k) <=> JobAt(q, i, "join", k) \/ (i = n /\ k = id)
           /\ JobAt(q', i, "message", k) <=> JobAt(q, i, "message", k)
           /\ JobAt(q', i, "leave", k) <=> JobAt(q, i, "leave", k)
  <2>1. q' = Append(q, JoinJob(id)) /\ JoinJob(id) \in Jobs
    BY DEF OnClientJoin, EnqueueJob, JoinJob, Jobs
  <2> QED BY <2>1, AppendPlaces DEF JoinJob, ServerTypeOK
<1>4. /\ JoinsFirst(q) /\ MessagesBetween(q) /\ LeavesLast(q) /\ EndsAreQueued(q) /\ SlotsInOrder(q)
      /\ opened \subseteq SessionIDs /\ closed \subseteq opened
  BY DEF JobsInOrder, ServerTypeOK
<1>5. JoinsFirst(q)'
  <2> SUFFICES ASSUME NEW k \in SessionIDs, NEW i \in Nat, JobAt(q', i, "join", k)
               PROVE  /\ k \in opened' /\ k \notin (DOMAIN characters)'
                      /\ \A j \in Nat : JobAt(q', j, "join", k) => j = i
    BY Zenon DEF JoinsFirst
  <2>1. /\ JobAt(q, i, "join", k) \/ (i = n /\ k = id)
        /\ \A j \in Nat : JobAt(q', j, "join", k) => JobAt(q, j, "join", k) \/ (j = n /\ k = id)
    BY <1>3, Zenon
  <2>2. \A j \in Nat : JobAt(q, j, "join", k) =>
           k \in opened /\ k \notin DOMAIN characters /\ \A l \in Nat : JobAt(q, l, "join", k) => l = j
    BY <1>4, Zenon DEF JoinsFirst
  <2>3. id \notin opened /\ id \notin DOMAIN characters /\ id \in opened'
    BY <1>1, <1>4 DEF EndsAreQueued
  <2>4. opened \subseteq opened' /\ characters' = characters
    BY <1>1
  <2>5. CASE JobAt(q, i, "join", k)
    <3>1. k \in opened /\ k \notin DOMAIN characters /\ \A l \in Nat : JobAt(q, l, "join", k) => l = i
      BY <2>2, <2>5, Zenon
    <3>2. k # id
      BY <2>3, <3>1, Zenon
    <3> QED BY <2>1, <2>4, <3>1, <3>2, Zenon
  <2>6. CASE i = n /\ k = id
    <3>1. \A j \in Nat : ~JobAt(q, j, "join", k)
      BY <2>2, <2>3, <2>6, Zenon
    <3> QED BY <2>1, <2>3, <2>4, <2>6, <3>1, Zenon
  <2> QED BY <2>1, <2>5, <2>6
<1>6. MessagesBetween(q)'
  BY <1>1, <1>2, <1>3, <1>4 DEF MessagesBetween, KnownAt
<1>7. LeavesLast(q)'
  BY <1>1, <1>2, <1>3, <1>4 DEF LeavesLast, KnownAt
<1>8. EndsAreQueued(q)'
  BY <1>1, <1>2, <1>3, <1>4 DEF EndsAreQueued, Queued
<1>9. SlotsInOrder(q)'
  <2>1. id[2] \in Nat /\ \A k \in opened : k[2] \in Nat
    BY <1>4, IDAssumption
  <2>2. ASSUME NEW a \in opened', NEW b \in opened', a[2] = b[2] PROVE a = b
    BY <1>1, <1>4, <2>1, <2>2 DEF SlotsInOrder
  <2>3. ASSUME NEW a \in opened', NEW b \in opened', a[1] = b[1], a[2] < b[2]
        PROVE  /\ a \in closed'
               /\ \A i, j \in Nat : JobAt(q', i, "leave", a) /\ JobAt(q', j, "join", b) => i < j
               /\ b \in DOMAIN characters' => ~Queued(q', "leave", a)
    <3>1. a \in opened
      <4>1. CASE a = id /\ b = id
        BY <2>1, <2>3, <4>1
      <4>2. CASE a = id /\ b \in opened
        <5>1. b[2] < id[2] /\ id[2] < b[2]
          BY <1>1, <2>3, <4>2
        <5> QED BY <2>1, <4>2, <5>1
      <4> QED BY <1>1, <4>1, <4>2
    <3>2. CASE b = id
      <4>1. a \in closed /\ b \notin DOMAIN characters
        BY <1>1, <1>4, <2>3, <3>1, <3>2 DEF EndsAreQueued
      <4>2. \A j \in Nat : ~JobAt(q, j, "join", b)
        BY <1>1, <1>4, <3>2 DEF JoinsFirst
      <4> QED BY <1>1, <1>2, <1>3, <4>1, <4>2
    <3>3. CASE b \in opened
      <4>1. /\ a \in closed
            /\ \A i, j \in Nat : JobAt(q, i, "leave", a) /\ JobAt(q, j, "join", b) => i < j
            /\ b \in DOMAIN characters => ~Queued(q, "leave", a)
        BY <1>4, <2>3, <3>1, <3>3 DEF SlotsInOrder
      <4>2. b # id
        BY <1>1, <3>3
      <4> QED BY <1>1, <1>3, <4>1, <4>2 DEF Queued
    <3> QED BY <1>1, <3>2, <3>3
  <2> QED BY <2>2, <2>3 DEF SlotsInOrder
<1> QED BY <1>5, <1>6, <1>7, <1>8, <1>9 DEF JobsInOrder

\* OnRecv queues behind its session's join.
LEMMA RecvOrder ==
  ASSUME ServerTypeOK, JobsInOrder, NEW id \in SessionIDs, NEW msg \in Messages, OnRecv(id, msg)
  PROVE  JobsInOrder'
<1> DEFINE q == JobQueue
<1> DEFINE n == Len(JobQueue) + 1
<1>1. /\ opened' = opened /\ closed' = closed /\ characters' = characters
      /\ id \in opened \ closed
  BY DEF OnRecv, Net!RecvBegin, worldVars
<1>2. /\ n \in Nat
      /\ \A i \in Nat : \A type, k : JobAt(q, i, type, k) => i < n
  BY LastPlace DEF ServerTypeOK
<1>3. /\ \A i \in Nat : \A k :
           /\ JobAt(q', i, "join", k) <=> JobAt(q, i, "join", k)
           /\ JobAt(q', i, "message", k) <=> JobAt(q, i, "message", k) \/ (i = n /\ k = id)
           /\ JobAt(q', i, "leave", k) <=> JobAt(q, i, "leave", k)
  <2>1. q' = Append(q, MessageJob(id, msg)) /\ MessageJob(id, msg) \in Jobs
    BY DEF OnRecv, EnqueueJob, MessageJob, Jobs
  <2> QED BY <2>1, AppendPlaces DEF MessageJob, ServerTypeOK
<1>4. /\ JoinsFirst(q) /\ MessagesBetween(q) /\ LeavesLast(q) /\ EndsAreQueued(q) /\ SlotsInOrder(q)
      /\ opened \subseteq SessionIDs /\ closed \subseteq opened
  BY DEF JobsInOrder, ServerTypeOK
<1>5. JoinsFirst(q)'
  BY <1>1, <1>3, <1>4 DEF JoinsFirst
<1>6. MessagesBetween(q)'
  <2>1. KnownAt(q, n, id) /\ \A j \in Nat : ~JobAt(q, j, "leave", id)
    BY <1>1, <1>2, <1>4 DEF EndsAreQueued, Queued, KnownAt, LeavesLast
  <2> QED BY <1>1, <1>2, <1>3, <1>4, <2>1 DEF MessagesBetween, KnownAt
<1>7. LeavesLast(q)'
  BY <1>1, <1>3, <1>4 DEF LeavesLast, KnownAt
<1>8. EndsAreQueued(q)'
  BY <1>1, <1>3, <1>4 DEF EndsAreQueued, Queued
<1>9. SlotsInOrder(q)'
  BY <1>1, <1>3, <1>4 DEF SlotsInOrder, Queued
<1> QED BY <1>5, <1>6, <1>7, <1>8, <1>9 DEF JobsInOrder

\* OnClientLeave queues behind its session's messages.
LEMMA LeaveOrder ==
  ASSUME ServerTypeOK, JobsInOrder, NEW id \in SessionIDs, OnClientLeave(id)
  PROVE  JobsInOrder'
<1> DEFINE q == JobQueue
<1> DEFINE n == Len(JobQueue) + 1
<1>1. /\ opened' = opened /\ closed' = closed \cup {id} /\ characters' = characters
      /\ id \in opened \ closed
  BY DEF OnClientLeave, Net!Leave, worldVars
<1>2. /\ n \in Nat
      /\ \A i \in Nat : \A type, k : JobAt(q, i, type, k) => i < n
  BY LastPlace DEF ServerTypeOK
<1>3. /\ \A i \in Nat : \A k :
           /\ JobAt(q', i, "join", k) <=> JobAt(q, i, "join", k)
           /\ JobAt(q', i, "message", k) <=> JobAt(q, i, "message", k)
           /\ JobAt(q', i, "leave", k) <=> JobAt(q, i, "leave", k) \/ (i = n /\ k = id)
  <2>1. q' = Append(q, LeaveJob(id)) /\ LeaveJob(id) \in Jobs
    BY DEF OnClientLeave, EnqueueJob, LeaveJob, Jobs
  <2> QED BY <2>1, AppendPlaces DEF LeaveJob, ServerTypeOK
<1>4. /\ JoinsFirst(q) /\ MessagesBetween(q) /\ LeavesLast(q) /\ EndsAreQueued(q) /\ SlotsInOrder(q)
      /\ opened \subseteq SessionIDs /\ closed \subseteq opened
  BY DEF JobsInOrder, ServerTypeOK
<1>10. KnownAt(q, n, id) /\ \A j \in Nat : ~JobAt(q, j, "leave", id)
  BY <1>1, <1>2, <1>4 DEF EndsAreQueued, Queued, KnownAt, LeavesLast
<1>5. JoinsFirst(q)'
  BY <1>1, <1>3, <1>4 DEF JoinsFirst
<1>6. MessagesBetween(q)'
  BY <1>1, <1>2, <1>3, <1>4 DEF MessagesBetween, KnownAt
<1>7. LeavesLast(q)'
  BY <1>1, <1>2, <1>3, <1>4, <1>10 DEF LeavesLast, KnownAt
<1>8. EndsAreQueued(q)'
  BY <1>1, <1>2, <1>3, <1>4 DEF EndsAreQueued, Queued
<1>9. SlotsInOrder(q)'
  <2>1. \A b \in opened : id[1] = b[1] => ~(id[2] < b[2])
    BY <1>1, <1>4 DEF SlotsInOrder
  <2> QED BY <1>1, <1>2, <1>3, <1>4, <2>1 DEF SlotsInOrder, Queued
<1> QED BY <1>5, <1>6, <1>7, <1>8, <1>9 DEF JobsInOrder

\* A job of the timer comes between the others and changes nothing.
LEMMA BeatOrder ==
  ASSUME ServerTypeOK, JobsInOrder, HeartbeatTimer
  PROVE  JobsInOrder'
<1> DEFINE q == JobQueue
<1>1. opened' = opened /\ closed' = closed /\ characters' = characters
  BY DEF HeartbeatTimer, callbackVars, worldVars
<1>2. \A i \in Nat : \A k :
           /\ JobAt(q', i, "join", k) <=> JobAt(q, i, "join", k)
           /\ JobAt(q', i, "message", k) <=> JobAt(q, i, "message", k)
           /\ JobAt(q', i, "leave", k) <=> JobAt(q, i, "leave", k)
  <2>1. q' = Append(q, HeartbeatJob) /\ HeartbeatJob \in Jobs
    BY DEF HeartbeatTimer, EnqueueJob, Jobs
  <2> QED BY <2>1, AppendPlaces DEF HeartbeatJob, ServerTypeOK
<1>3. JoinsFirst(q) /\ MessagesBetween(q) /\ LeavesLast(q) /\ EndsAreQueued(q) /\ SlotsInOrder(q)
  BY DEF JobsInOrder
<1>4. JoinsFirst(q)' /\ MessagesBetween(q)' /\ LeavesLast(q)'
  BY <1>1, <1>2, <1>3 DEF JoinsFirst, MessagesBetween, LeavesLast, KnownAt
<1>5. EndsAreQueued(q)' /\ SlotsInOrder(q)'
  BY <1>1, <1>2, <1>3 DEF EndsAreQueued, SlotsInOrder, Queued
<1> QED BY <1>4, <1>5 DEF JobsInOrder

\* What is queued, and queued before a place, once the first job is taken.
LEMMA TailQueued ==
  ASSUME NEW q \in Seq(Jobs), q # <<>>, NEW type, NEW id
  PROVE  /\ Queued(Tail(q), type, id) <=> \E i \in Nat : 1 < i /\ JobAt(q, i, type, id)
         /\ \A i \in Nat : (\E j \in Nat : j < i /\ JobAt(Tail(q), j, type, id))
                             <=> (\E j \in Nat : 1 < j /\ j < i + 1 /\ JobAt(q, j, type, id))
<1>1. \A i \in Nat : JobAt(Tail(q), i, type, id) <=> i >= 1 /\ JobAt(q, i + 1, type, id)
  BY TailPlaces
<1>2. ASSUME NEW i \in Nat, 1 < i PROVE i - 1 \in Nat /\ i - 1 >= 1 /\ (i - 1) + 1 = i
  BY <1>2
<1>3. \A i \in Nat : 1 < i => (JobAt(Tail(q), i - 1, type, id) <=> JobAt(q, i, type, id))
  BY <1>1, <1>2
<1>4. \A i \in Nat : i + 1 \in Nat /\ (i >= 1 => 1 < i + 1)
  OBVIOUS
<1>5. Queued(Tail(q), type, id) <=> \E i \in Nat : 1 < i /\ JobAt(q, i, type, id)
  BY <1>1, <1>2, <1>3, <1>4 DEF Queued
<1>6. ASSUME NEW i \in Nat
      PROVE  (\E j \in Nat : j < i /\ JobAt(Tail(q), j, type, id))
               <=> (\E j \in Nat : 1 < j /\ j < i + 1 /\ JobAt(q, j, type, id))
  <2>1. ASSUME NEW j \in Nat, j < i, JobAt(Tail(q), j, type, id)
        PROVE  \E k \in Nat : 1 < k /\ k < i + 1 /\ JobAt(q, k, type, id)
    <3>1. j + 1 \in Nat /\ 1 < j + 1 /\ j + 1 < i + 1 /\ JobAt(q, j + 1, type, id)
      BY <1>1, <1>4, <2>1
    <3> QED BY <3>1
  <2>2. ASSUME NEW j \in Nat, 1 < j, j < i + 1, JobAt(q, j, type, id)
        PROVE  \E k \in Nat : k < i /\ JobAt(Tail(q), k, type, id)
    <3>1. j - 1 \in Nat /\ j - 1 < i /\ JobAt(Tail(q), j - 1, type, id)
      BY <1>3, <2>2
    <3> QED BY <3>1
  <2> QED BY <2>1, <2>2
<1> QED BY <1>5, <1>6

\* Taking the first job keeps the order, if the characters change as the job says.
LEMMA TailOrder ==
  ASSUME ServerTypeOK, JobsInOrder, JobQueue # <<>>, JobQueue' = Tail(JobQueue),
         UNCHANGED <<opened, closed>>,
         LET job == Head(JobQueue)
         IN \/ /\ job.type \notin {"join", "leave"}
               /\ DOMAIN characters' = DOMAIN characters
            \/ /\ job.type = "join" /\ job.session \in SessionIDs
               /\ DOMAIN characters' = DOMAIN characters \cup {job.session}
            \/ /\ job.type = "leave" /\ job.session \in SessionIDs
               /\ DOMAIN characters' = DOMAIN characters \ {job.session}
  PROVE  JobsInOrder'
<1> DEFINE q == JobQueue
<1> DEFINE first == Head(JobQueue)
<1> DEFINE D == DOMAIN characters
<1>0. q \in Seq(Jobs) /\ q # <<>> /\ q' = Tail(q) /\ opened' = opened /\ closed' = closed
  BY DEF ServerTypeOK
<1>1. /\ \A type, k : JobAt(q, 1, type, k) <=> first.type = type /\ first.session = k
      /\ \A i \in Nat : \A type, k : JobAt(q, i, type, k) => i >= 1
  BY <1>0, HeadPlace
<1>2. \A i \in Nat : \A type, k : JobAt(q', i, type, k) <=> i >= 1 /\ JobAt(q, i + 1, type, k)
  BY <1>0, TailPlaces
<1>3. \A type, k : Queued(q', type, k) <=> \E i \in Nat : 1 < i /\ JobAt(q, i, type, k)
  BY <1>0, TailQueued
<1>4. \A i \in Nat : \A k : (\E j \in Nat : j < i /\ JobAt(q', j, "join", k))
                              <=> (\E j \in Nat : 1 < j /\ j < i + 1 /\ JobAt(q, j, "join", k))
  <2>1. ASSUME NEW k
        PROVE  \A i \in Nat : (\E j \in Nat : j < i /\ JobAt(Tail(q), j, "join", k))
                                <=> (\E j \in Nat : 1 < j /\ j < i + 1 /\ JobAt(q, j, "join", k))
    BY <1>0, TailQueued
  <2>2. q' = Tail(q)
    BY <1>0
  <2> HIDE DEF q
  <2> QED BY ONLY <2>1, <2>2
<1>5. /\ JoinsFirst(q) /\ MessagesBetween(q) /\ LeavesLast(q) /\ EndsAreQueued(q) /\ SlotsInOrder(q)
      /\ opened \subseteq SessionIDs /\ closed \subseteq opened /\ D \subseteq SessionIDs
  BY DEF JobsInOrder, ServerTypeOK
<1>6. \/ first.type \notin {"join", "leave"} /\ D' = D
      \/ first.type = "join" /\ first.session \in SessionIDs /\ D' = D \cup {first.session}
      \/ first.type = "leave" /\ first.session \in SessionIDs /\ D' = D \ {first.session}
  OBVIOUS
\* The joined session knew no character, and the leaving one has one.
<1>7. /\ first.type = "join" => first.session \in opened /\ first.session \notin D
      /\ first.type = "leave" => first.session \in closed /\ first.session \in D
  BY <1>1, <1>5, <1>6 DEF JoinsFirst, LeavesLast, KnownAt
\* Whom the thread would know at a place it knows there still.
<1>8. ASSUME NEW i \in Nat, NEW k \in SessionIDs, KnownAt(q, i + 1, k),
             first.type = "leave" => first.session # k
      PROVE  KnownAt(q, i, k)'
  <2>1. CASE k \in D
    BY <1>6, <1>8, <2>1 DEF KnownAt
  <2>2. CASE JobAt(q, 1, "join", k)
    BY <1>1, <1>6, <2>2 DEF KnownAt
  <2>3. CASE \E j \in Nat : 1 < j /\ j < i + 1 /\ JobAt(q, j, "join", k)
    BY <1>4, <2>3 DEF KnownAt
  <2>4. ASSUME NEW j \in Nat, j < i + 1, JobAt(q, j, "join", k)
        PROVE  j = 1 \/ 1 < j
    BY <1>1, <2>4
  <2> QED BY <1>8, <2>1, <2>2, <2>3, <2>4 DEF KnownAt
<1>9. JoinsFirst(q)'
  <2> SUFFICES ASSUME NEW k \in SessionIDs, NEW i \in Nat, JobAt(q', i, "join", k)
               PROVE  /\ k \in opened /\ k \notin D'
                      /\ \A j \in Nat : JobAt(q', j, "join", k) => j = i
    BY <1>0 DEF JoinsFirst
  <2>1. i + 1 \in Nat /\ i + 1 # 1 /\ JobAt(q, i + 1, "join", k)
    BY <1>2
  <2>2. k \in opened /\ k \notin D /\ \A j \in Nat : JobAt(q, j, "join", k) => j = i + 1
    BY <1>5, <2>1 DEF JoinsFirst
  <2>3. ~(first.type = "join" /\ first.session = k)
    BY <1>1, <2>1, <2>2
  <2>4. ASSUME NEW j \in Nat, JobAt(q', j, "join", k) PROVE j = i
    <3>1. j + 1 \in Nat /\ JobAt(q, j + 1, "join", k)
      BY <1>2, <2>4
    <3>2. j + 1 = i + 1
      BY <2>2, <3>1
    <3> QED BY <3>2
  <2> QED BY <1>6, <2>2, <2>3, <2>4
<1>10. MessagesBetween(q)'
  <2> SUFFICES ASSUME NEW k \in SessionIDs, NEW i \in Nat, JobAt(q', i, "message", k)
               PROVE  /\ KnownAt(q, i, k)'
                      /\ \A j \in Nat : JobAt(q', j, "leave", k) => i < j
    BY DEF MessagesBetween
  <2>0. i >= 1 /\ JobAt(q, i + 1, "message", k)
    BY <1>2
  <2>1. i + 1 \in Nat /\ i + 1 # 1 /\ JobAt(q, i + 1, "message", k)
    BY <2>0
  <2>2. KnownAt(q, i + 1, k) /\ \A j \in Nat : JobAt(q, j, "leave", k) => i + 1 < j
    BY <1>5, <2>1 DEF MessagesBetween
  <2>3. ~(first.type = "leave" /\ first.session = k)
    <3>1. ~JobAt(q, 1, "leave", k)
      BY <2>1, <2>2
    <3> QED BY <1>1, <3>1
  <2>4. ASSUME NEW j \in Nat, JobAt(q', j, "leave", k) PROVE i < j
    <3>1. j + 1 \in Nat /\ JobAt(q, j + 1, "leave", k)
      BY <1>2, <2>4
    <3>2. i + 1 < j + 1
      BY <2>2, <3>1
    <3> QED BY <3>2
  <2> QED BY <1>8, <2>2, <2>3, <2>4
<1>11. LeavesLast(q)'
  <2> SUFFICES ASSUME NEW k \in SessionIDs, NEW i \in Nat, JobAt(q', i, "leave", k)
               PROVE  /\ k \in closed
                      /\ KnownAt(q, i, k)'
                      /\ \A j \in Nat : JobAt(q', j, "leave", k) => j = i
    BY <1>0 DEF LeavesLast
  <2>0. i >= 1 /\ JobAt(q, i + 1, "leave", k)
    BY <1>2
  <2>1. i + 1 \in Nat /\ i + 1 # 1 /\ JobAt(q, i + 1, "leave", k)
    BY <2>0
  <2>2. /\ k \in closed /\ KnownAt(q, i + 1, k)
        /\ \A j \in Nat : JobAt(q, j, "leave", k) => j = i + 1
    BY <1>5, <2>1 DEF LeavesLast
  <2>3. ~(first.type = "leave" /\ first.session = k)
    BY <1>1, <2>1, <2>2
  <2>4. ASSUME NEW j \in Nat, JobAt(q', j, "leave", k) PROVE j = i
    <3>0. JobAt(q, j + 1, "leave", k)
      BY <1>2, <2>4, Zenon
    <3>1. j + 1 \in Nat /\ JobAt(q, j + 1, "leave", k)
      BY ONLY <3>0, j \in Nat
    <3>2. j + 1 = i + 1
      BY <2>2, <3>1
    <3> QED BY <3>2
  <2> QED BY <1>8, <2>2, <2>3, <2>4
<1>12. EndsAreQueued(q)'
  <2>1. D' \subseteq opened
    BY <1>5, <1>6, <1>7 DEF EndsAreQueued
  <2>2. ASSUME NEW k \in opened \ closed PROVE k \in D' \/ Queued(q', "join", k)
    <3>1. k \in D \/ Queued(q, "join", k)
      BY <1>5 DEF EndsAreQueued
    <3>2. ASSUME NEW i \in Nat, JobAt(q, i, "join", k), ~Queued(q', "join", k) PROVE JobAt(q, 1, "join", k)
      <4>1. ~(1 < i) /\ i >= 1
        BY <1>1, <1>3, <3>2
      <4>2. i = 1
        BY <4>1
      <4> QED BY <3>2, <4>2
    <3> QED BY <1>1, <1>6, <1>7, <3>1, <3>2 DEF Queued
  <2>3. ASSUME NEW k \in closed, k \in D' \/ Queued(q', "join", k) PROVE Queued(q', "leave", k)
    <3>0. k \in SessionIDs
      BY <1>5
    <3>1. ~(first.type = "leave" /\ first.session = k)
      <4>1. ASSUME first.type = "leave", first.session = k PROVE FALSE
        <5>1. k \in D /\ k \notin D'
          BY <1>6, <1>7, <4>1
        <5>2. Queued(q, "join", k)
          BY <1>3, <2>3, <5>1 DEF Queued
        <5> QED BY <1>5, <3>0, <5>1, <5>2 DEF JoinsFirst, Queued
      <4> QED BY <4>1
    <3>2. k \in D \/ Queued(q, "join", k)
      BY <1>1, <1>3, <1>6, <2>3 DEF Queued
    <3>3. Queued(q, "leave", k)
      BY <1>5, <3>2 DEF EndsAreQueued
    <3>4. PICK i \in Nat : JobAt(q, i, "leave", k)
      BY <3>3 DEF Queued
    <3>5. i # 1 /\ i >= 1
      BY <1>1, <3>1, <3>4
    <3>6. 1 < i
      BY <3>5
    <3> QED BY <1>3, <3>4, <3>6
  <2> QED BY <1>0, <2>1, <2>2, <2>3 DEF EndsAreQueued
<1>13. SlotsInOrder(q)'
  <2>1. \A a, b \in opened : a[2] = b[2] => a = b
    BY <1>5 DEF SlotsInOrder
  <2>2. ASSUME NEW a \in opened, NEW b \in opened, a[1] = b[1], a[2] < b[2]
        PROVE  /\ a \in closed
               /\ \A i, j \in Nat : JobAt(q', i, "leave", a) /\ JobAt(q', j, "join", b) => i < j
               /\ b \in D' => ~Queued(q', "leave", a)
    <3>1. /\ a \in closed
          /\ \A i, j \in Nat : JobAt(q, i, "leave", a) /\ JobAt(q, j, "join", b) => i < j
          /\ b \in D => ~Queued(q, "leave", a)
      BY <1>5, <2>2 DEF SlotsInOrder
    <3>2. ASSUME NEW i \in Nat, NEW j \in Nat, JobAt(q', i, "leave", a), JobAt(q', j, "join", b)
          PROVE  i < j
      <4>0. JobAt(q, i + 1, "leave", a) /\ JobAt(q, j + 1, "join", b)
        BY <1>2, <3>2, Zenon
      <4>1. i + 1 \in Nat /\ j + 1 \in Nat /\ JobAt(q, i + 1, "leave", a) /\ JobAt(q, j + 1, "join", b)
        BY ONLY <4>0, i \in Nat, j \in Nat
      <4>2. i + 1 < j + 1
        BY <3>1, <4>1
      <4> QED BY <4>2
    <3>3. ASSUME b \in D', Queued(q', "leave", a) PROVE FALSE
      <4>1. PICK i \in Nat : 1 < i /\ JobAt(q, i, "leave", a)
        BY <1>3, <3>3
      <4>2. b \notin D
        BY <3>1, <4>1 DEF Queued
      <4>3. JobAt(q, 1, "join", b)
        BY <1>1, <1>6, <3>3, <4>2
      <4>4. i < 1
        BY <3>1, <4>1, <4>3
      <4> QED BY <4>1, <4>4
    <3> QED BY <3>1, <3>2, <3>3
  <2> QED BY <1>0, <2>1, <2>2 DEF SlotsInOrder
<1> QED BY <1>9, <1>10, <1>11, <1>12, <1>13 DEF JobsInOrder

\* Handling the first job leaves the others in order.
LEMMA HandleOrder == ServerTypeOK /\ JobsInOrder /\ HandleJob => JobsInOrder'
<1> SUFFICES ASSUME ServerTypeOK, JobsInOrder, HandleJob PROVE JobsInOrder'
  OBVIOUS
<1> DEFINE job == Head(JobQueue)
<1>0. WorldTypeOK
  BY DEF WorldTypeOK, ServerTypeOK
<1>1. JobQueue # <<>> /\ JobQueue' = Tail(JobQueue) /\ UNCHANGED <<opened, closed>>
  BY HandleKinds
<1>2. \/ job.type \notin {"join", "leave"} /\ DOMAIN characters' = DOMAIN characters
      \/ /\ job.type = "join" /\ job.session \in SessionIDs
         /\ DOMAIN characters' = DOMAIN characters \cup {job.session}
      \/ /\ job.type = "leave" /\ job.session \in SessionIDs
         /\ DOMAIN characters' = DOMAIN characters \ {job.session}
  <2>1. CASE job.type = "message" /\ job.session \in SessionIDs /\ job.packet \in Messages
             /\ MessageControl(job.session, job.packet)
    BY <1>0, <2>1, MessageType
  <2>2. CASE job.type = "join" /\ job.session \in SessionIDs /\ CreateCharacter(job.session)
    BY <1>0, <2>2, CreateType
  <2>3. CASE job.type = "leave" /\ job.session \in SessionIDs /\ LeaveCharacter(job.session)
    BY <1>0, <2>3, LeaveType
  <2>4. CASE job.type = "heartbeat" /\ UNCHANGED worldVars
    BY <2>4 DEF worldVars
  <2> QED BY <2>1, <2>2, <2>3, <2>4, HandleKinds
<1> QED BY <1>1, <1>2, TailOrder

\* What touches neither callbacks, jobs nor characters keeps the order.
LEMMA QuietOrder == ASSUME JobsInOrder, UNCHANGED <<opened, closed, JobQueue, worldVars>> PROVE JobsInOrder'
  BY DEF JobsInOrder, JoinsFirst, MessagesBetween, LeavesLast, EndsAreQueued, SlotsInOrder,
     KnownAt, Queued, worldVars

\* Every step keeps the jobs in order.
LEMMA OrderStep == ServerTypeOK /\ JobsInOrder /\ [ServerNext]_serverVars => JobsInOrder'
  BY JoinOrder, RecvOrder, LeaveOrder, BeatOrder, HandleOrder, QuietOrder, QuietSteps
     DEF ServerNext, UpdateThread

-----------------------------------------------------------------------------
(* Theorems *)

\* The invariant holds before the first callback.
LEMMA InitInvariant == ServerInit => ContentInvariant
<1> SUFFICES ASSUME ServerInit PROVE ContentInvariant
  OBVIOUS
<1>1. ServerTypeOK
  BY DEF ServerInit, Net!Init, ServerTypeOK
<1>2. SectorListsAgree
  BY DEF ServerInit, SectorListsAgree
<1>3. \A i \in Nat : \A type, id : ~JobAt(JobQueue, i, type, id)
  BY DEF ServerInit, JobAt
<1>4. JobsInOrder
  BY <1>3 DEF ServerInit, Net!Init, JobsInOrder, JoinsFirst, MessagesBetween, LeavesLast,
     EndsAreQueued, SlotsInOrder
<1>5. WakeUpComes
  BY DEF ServerInit, WakeUpComes
<1> QED BY <1>1, <1>2, <1>4, <1>5 DEF ContentInvariant

\* The types and the three invariants hold together in every state.
LEMMA ContentStep == ContentInvariant /\ [ServerNext]_serverVars => ContentInvariant'
  BY TypeStep, ListsStep, OrderStep, WakeStep DEF ContentInvariant

\* It holds whatever the clients send.
LEMMA KeepsInvariant == ServerSpec => []ContentInvariant
  BY ContentStep, InitInvariant, PTL DEF ServerSpec

\* A slot's sessions follow one another in the characters as they do in the queue.
LEMMA OrderGivesSlots == ServerTypeOK /\ JobsInOrder => OneCharacterPerSlot
<1> SUFFICES ASSUME ServerTypeOK, JobsInOrder,
                    NEW a \in DOMAIN characters, NEW b \in DOMAIN characters,
                    a[1] = b[1], a[2] < b[2]
             PROVE  FALSE
  <2>1. ServerTypeOK /\ JobsInOrder => \A k \in DOMAIN characters : k \in opened /\ k \in Nat \X Nat
    BY IDAssumption DEF JobsInOrder, EndsAreQueued, ServerTypeOK
  <2>2. ServerTypeOK /\ JobsInOrder
          => \A k, l \in DOMAIN characters : k[2] = l[2] => k = l
    BY <2>1 DEF JobsInOrder, SlotsInOrder
  <2>3. ServerTypeOK /\ JobsInOrder
          => \A k, l \in DOMAIN characters : k # l => k[2] < l[2] \/ l[2] < k[2]
    BY <2>1, <2>2
  <2> QED BY <2>3 DEF OneCharacterPerSlot
<1>1. a \in opened /\ b \in opened
  BY DEF JobsInOrder, EndsAreQueued
<1>2. a \in closed /\ ~Queued(JobQueue, "leave", a)
  BY <1>1 DEF JobsInOrder, SlotsInOrder
<1> QED BY <1>2 DEF JobsInOrder, EndsAreQueued

\* The job at the head has its character.
LEMMA OrderGivesCharacters == ServerTypeOK /\ JobsInOrder => JobsFindCharacters
<1> SUFFICES ASSUME ServerTypeOK, JobsInOrder, JobQueue # <<>>,
                    Head(JobQueue).type \in {"message", "leave"}
             PROVE  Head(JobQueue).session \in DOMAIN characters
  BY DEF JobsFindCharacters
<1> DEFINE job == Head(JobQueue)
<1>1. /\ JobAt(JobQueue, 1, job.type, job.session)
      /\ \A i \in Nat : \A type, id : JobAt(JobQueue, i, type, id) => i >= 1
      /\ job \in Jobs
  BY HeadPlace DEF ServerTypeOK
<1>2. job.session \in SessionIDs
  BY <1>1, JobKinds
<1>3. KnownAt(JobQueue, 1, job.session)
  BY <1>1, <1>2 DEF JobsInOrder, MessagesBetween, LeavesLast
<1> QED BY <1>1, <1>3 DEF KnownAt

\* The content thread's tables agree with one another and with the jobs to come,
\* whatever the clients send and however the callbacks interleave: every character
\* is on the list of its sector and on no other, no slot has two characters, and no
\* job is about a character that is missing, so that neither of the two "Character Not
\* Exist" crashes of MessageControl and LeaveCharacter is ever reached.
THEOREM ServerConsistent == ServerSpec => []WorldConsistent
<1>1. ContentInvariant => WorldConsistent
  BY OrderGivesSlots, OrderGivesCharacters DEF ContentInvariant, WorldConsistent
<1> QED BY <1>1, KeepsInvariant, PTL

\* UpdateThreadFunc looks at JobQueue and waits for JobEvent in two steps, and the
\* callbacks put in the job and set the event in two: no job is slept on.
THEOREM ContentThreadWakes == ServerSpec => []WakeUpComes
<1>1. ContentInvariant => WakeUpComes
  BY DEF ContentInvariant
<1> QED BY <1>1, KeepsInvariant, PTL

-----------------------------------------------------------------------------
(* The server with its clients *)

\* The types of what the clients and the network between them keep; a connection has
\* one client, and is known to the server once it is made.
ClientTypeOK ==
  /\ conns \in 0 .. MaxConnections
  /\ state \in [Clients -> {"Disconnected", "Connected", "LoginSent", "Active"}]
  /\ sock \in [Clients -> 0 .. conns]
  /\ sendBuf \in [Clients -> Seq(ClientMessages)]
  /\ up \in [Connections -> Seq(ClientMessages)]
  /\ asked \in [Connections -> Seq(ClientMessages)]
  /\ backlog \in Seq(1 .. conns)
  /\ accepted \in 0 .. conns
  /\ \A id \in opened : id[2] \in 1 .. conns

\* A session is disconnected when it has no socket, and two have never the same.
SocketsOK ==
  /\ \A c \in Clients : sock[c] = 0 <=> state[c] = "Disconnected"
  /\ \A c, d \in Clients : sock[c] = sock[d] /\ sock[c] # 0 => c = d
  /\ \A k \in Connections : k > conns => up[k] = <<>>

\* A message of connection k is at place i of the queue.
AskedAt(q, i, k) == i \in 1 .. Len(q) /\ q[i].type = "message" /\ q[i].session[2] = k

\* No message of a connection has come to the queue and none was handled that would
\* have placed its character.
NoneQueued(k) == \A i \in Nat : ~AskedAt(JobQueue, i, k)
Unplaced(k) == \A id \in DOMAIN characters : id[2] = k => ~Placed(characters[id])
Unheard(k) == NoneQueued(k) /\ Unplaced(k)

LoginAt(q, i, k) == AskedAt(q, i, k) /\ q[i].packet.type = "ReqLogin"

\* Nothing comes before a login on its connection, be it not yet sent, in sendBuf, on
\* its way or in the queue.
FirstToSend(c) == state[c] = "Connected" => sendBuf[c] = <<>> /\ up[sock[c]] = <<>> /\ Unheard(sock[c])
FirstInBuffer(c) ==
  \A i \in 1 .. Len(sendBuf[c]) :
    sock[c] # 0 /\ sendBuf[c][i].type = "ReqLogin" => i = 1 /\ up[sock[c]] = <<>> /\ Unheard(sock[c])
FirstOnWay(k) == \A i \in 1 .. Len(up[k]) : up[k][i].type = "ReqLogin" => i = 1 /\ Unheard(k)
FirstInQueue(k) ==
  \A i \in Nat : LoginAt(JobQueue, i, k) => Unplaced(k) /\ \A j \in Nat : AskedAt(JobQueue, j, k) => i <= j

LoginComesFirst ==
  /\ \A c \in Clients : FirstToSend(c) /\ FirstInBuffer(c)
  /\ \A k \in Connections : FirstOnWay(k) /\ FirstInQueue(k)

\* The message jobs carry what these clients send.
ClientsAsk(q) == \A i \in 1 .. Len(q) : q[i].type = "message" => q[i].packet \in ClientMessages

ChatInvariant ==
  ContentInvariant /\ ClientTypeOK /\ SocketsOK /\ LoginComesFirst /\ ClientsAsk(JobQueue) /\ ~crashed

\* What is under way to the server are messages, and the connections known are numbers
\* of connections.
LEMMA ConnectionTypes ==
  ASSUME ClientTypeOK
  PROVE  /\ conns \in Nat /\ 1 .. conns \subseteq Connections
         /\ \A id \in opened : id[2] \in Connections /\ up[id[2]] \in Seq(ClientMessages)
  BY ConnectionAssumption DEF ClientTypeOK, Connections

\* A connection that was let in gets an ID with any free slot.
LEMMA AcceptedID ==
  ASSUME ClientTypeOK, accepted # 0, NEW slot \in FreeSlots
  PROVE  accepted \in 1 .. conns /\ <<slot, accepted>> \in SessionIDs
<1>1. accepted \in 1 .. conns /\ accepted \in Connections
  BY ConnectionTypes DEF ClientTypeOK
<1>2. slot \in Slots
  BY DEF FreeSlots
<1> QED BY <1>1, <1>2, SlotAssumption

\* The accept thread opens a session for it, or does nothing that the server knows of.
LEMMA OpenedJoin ==
  ASSUME ClientTypeOK, Accept \/ OpenSession
  PROVE  \/ UNCHANGED serverVars
         \/ \E id \in SessionIDs : OnClientJoin(id) /\ id[2] \in 1 .. conns
<1>1. CASE Accept
  BY <1>1 DEF Accept
<1>2. CASE OpenSession
  <2>1. CASE FreeSlots # {}
    <3>1. accepted # 0 /\ \E slot \in FreeSlots : OnClientJoin(<<slot, accepted>>)
      BY <1>2, <2>1 DEF OpenSession
    <3>2. PICK slot \in FreeSlots : OnClientJoin(<<slot, accepted>>)
      BY <3>1
    <3>3. accepted \in 1 .. conns /\ <<slot, accepted>> \in SessionIDs
      BY <3>1, AcceptedID
    <3>4. <<slot, accepted>>[2] \in 1 .. conns
      BY <3>3
    <3> QED BY <3>2, <3>3, <3>4
  <2>2. CASE FreeSlots = {}
    BY <1>2, <2>2 DEF OpenSession
  <2> QED BY <2>1, <2>2
<1> QED BY <1>1, <1>2

\* Whatever clients and server do is a step of the server or none.
LEMMA StepOfServer == ClientTypeOK /\ [Next]_vars => [ServerNext]_serverVars
<1> SUFFICES ASSUME ClientTypeOK, [Next]_vars PROVE [ServerNext]_serverVars
  OBVIOUS
<1>1. CASE UNCHANGED vars
  BY <1>1 DEF vars
<1>2. CASE Next
  <2>0. ~crashed
    BY <1>2 DEF Next
  <2>1. CASE Accept \/ OpenSession
    BY <2>0, <2>1, OpenedJoin DEF ServerNext
  <2>2. ASSUME NEW id \in SessionIDs, Receive(id) PROVE ServerNext
    <3>1. id \in opened /\ OnRecv(id, Head(up[id[2]])) /\ up[id[2]] # <<>>
      BY <2>2 DEF Receive, OnRecv, Net!RecvBegin
    <3>2. Head(up[id[2]]) \in Messages
      BY <3>1, ConnectionTypes, MessageAssumption
    <3> QED BY <2>0, <3>1, <3>2 DEF ServerNext
  <2>3. ASSUME NEW id \in SessionIDs, Leave(id) PROVE ServerNext
    BY <2>0, <2>3 DEF Leave, ServerNext
  <2>4. CASE Server
    BY <2>0, <2>4 DEF Server, ServerNext
  <2>5. ASSUME NEW c \in Clients, Client(c) PROVE UNCHANGED serverVars
    BY <2>5 DEF Client, Connect, Hear
  <2> QED BY <1>2, <2>1, <2>2, <2>3, <2>4, <2>5 DEF Next
<1> QED BY <1>1, <1>2

-----------------------------------------------------------------------------
(* Types of the clients *)

\* What a client puts into sendBuf are its messages.
LEMMA WhatClientsSend ==
  ASSUME NEW c \in Clients
  PROVE  /\ [type |-> "ReqLogin", account |-> c] \in ClientMessages
         /\ [type |-> "ReqHeartbeat"] \in ClientMessages
         /\ \A k \in Connections :
              /\ [type |-> "ReqSectorMove", account |-> c, x |-> Spot[k][1], y |-> Spot[k][2]] \in ClientMessages
              /\ \A n \in 1 .. MaxPackets[k] : [type |-> "ReqMessage", account |-> c, text |-> <<k, n>>] \in ClientMessages
<1>1. /\ [type |-> "ReqLogin", account |-> c] \in ClientMessages
      /\ [type |-> "ReqHeartbeat"] \in ClientMessages
  BY DEF ClientMessages
<1>2. ASSUME NEW k \in Connections
      PROVE  [type |-> "ReqSectorMove", account |-> c, x |-> Spot[k][1], y |-> Spot[k][2]] \in ClientMessages
  <2>1. Spot[k][1] \in {Spot[j][1] : j \in Connections} /\ Spot[k][2] \in {Spot[j][2] : j \in Connections}
    OBVIOUS
  <2> QED BY <2>1 DEF ClientMessages
<1>3. ASSUME NEW k \in Connections, NEW n \in 1 .. MaxPackets[k]
      PROVE  [type |-> "ReqMessage", account |-> c, text |-> <<k, n>>] \in ClientMessages
  <2>1. [type |-> "ReqMessage", account |-> c, text |-> <<k, n>>]
          \in [type : {"ReqMessage"}, account : Clients, text : {k} \X (1 .. MaxPackets[k])]
    OBVIOUS
  <2> QED BY <2>1 DEF ClientMessages
<1> QED BY <1>1, <1>2, <1>3

\* The number of a client's next message.
LEMMA PacketNumber ==
  ASSUME ClientTypeOK, NEW k \in Connections, PacketsOn(k) < MaxPackets[k]
  PROVE  PacketsOn(k) + 1 \in 1 .. MaxPackets[k]
<1>1. Len(asked[k]) \in Nat /\ MaxPackets[k] \in Nat
  BY ConnectionAssumption DEF ClientTypeOK
<1>2. PacketsOn(k) \in Nat
  BY <1>1 DEF PacketsOn
<1> QED BY <1>1, <1>2

\* A connected session has a connection.
LEMMA SocketOfClient ==
  ASSUME ClientTypeOK, SocketsOK, NEW c \in Clients, state[c] # "Disconnected"
  PROVE  sock[c] \in Connections /\ sock[c] \in 1 .. conns /\ sock[c] # 0
  BY ConnectionTypes DEF ClientTypeOK, SocketsOK

\* A client puts a message into its sendBuf.
LEMMA PutTypes ==
  ASSUME ClientTypeOK, SocketsOK, NEW c \in Clients, state[c] # "Disconnected", NEW msg \in ClientMessages,
         Put(c, msg)
  PROVE  /\ sendBuf' \in [Clients -> Seq(ClientMessages)] /\ asked' \in [Connections -> Seq(ClientMessages)]
         /\ sendBuf'[c] = Append(sendBuf[c], msg) /\ \A d \in Clients : d # c => sendBuf'[d] = sendBuf[d]
  BY SocketOfClient DEF Put, ClientTypeOK

\* The steps in which a client puts something into its sendBuf.
Sends(c, msg) ==
  /\ Put(c, msg) /\ state[c] # "Disconnected" /\ msg \in ClientMessages
  /\ state' \in [Clients -> {"Disconnected", "Connected", "LoginSent", "Active"}]
  /\ state'[c] \in {"LoginSent", "Active"} /\ \A d \in Clients : d # c => state'[d] = state[d]
  /\ msg.type = "ReqLogin" => state[c] = "Connected"
  /\ UNCHANGED <<serverVars, backlog, accepted, refused>>

\* Each step of a client is one of these.
LEMMA ClientSteps ==
  ASSUME ClientTypeOK, SocketsOK, NEW c \in Clients, Client(c)
  PROVE  \/ Connect(c)
         \/ \E msg \in ClientMessages : Sends(c, msg)
         \/ HandleSend(c) /\ UNCHANGED <<serverVars, networkVars>>
         \/ state[c] # "Disconnected" /\ MarkDisconnected(c) /\ UNCHANGED <<serverVars, networkVars>>
<1>0. state \in [Clients -> {"Disconnected", "Connected", "LoginSent", "Active"}]
  BY DEF ClientTypeOK
<1>1. CASE Hear(c)
  <2>1. PICK msg : HandleRecv(c, msg) /\ UNCHANGED <<serverVars, backlog, accepted, refused>>
    BY <1>1 DEF Hear
  <2>2. state[c] # "Disconnected" /\ state' = [state EXCEPT ![c] = "Active"] /\ SendSectorMovePacket(c)
    BY <2>1 DEF HandleRecv
  <2> DEFINE move == [type |-> "ReqSectorMove", account |-> c, x |-> Spot[sock[c]][1], y |-> Spot[sock[c]][2]]
  <2>3. move \in ClientMessages /\ Put(c, move)
    BY <2>2, WhatClientsSend, SocketOfClient DEF SendSectorMovePacket
  <2>4. Sends(c, move)
    BY <1>0, <2>1, <2>2, <2>3 DEF Sends
  <2> QED BY <2>3, <2>4
<1>2. CASE SendLoginPacket(c) /\ UNCHANGED <<serverVars, networkVars>>
  <2> DEFINE msg == [type |-> "ReqLogin", account |-> c]
  <2>1. msg \in ClientMessages /\ Put(c, msg)
    BY <1>2, WhatClientsSend DEF SendLoginPacket
  <2>2. Sends(c, msg)
    BY <1>0, <1>2, <2>1 DEF Sends, SendLoginPacket, networkVars
  <2> QED BY <2>1, <2>2
<1>3. CASE SendChatPacket(c) /\ UNCHANGED <<serverVars, networkVars>>
  <2> DEFINE msg == [type |-> "ReqMessage", account |-> c, text |-> <<sock[c], PacketsOn(sock[c]) + 1>>]
  <2>1. state[c] = "Active" /\ PacketsOn(sock[c]) < MaxPackets[sock[c]] /\ Put(c, msg) /\ state' = state
    BY <1>3 DEF SendChatPacket
  <2>2. msg \in ClientMessages
    BY <2>1, WhatClientsSend, SocketOfClient, PacketNumber
  <2>3. Sends(c, msg)
    BY <1>0, <1>3, <2>1, <2>2 DEF Sends, networkVars
  <2> QED BY <2>2, <2>3
<1>4. CASE SendHeartbeatPacket(c) /\ UNCHANGED <<serverVars, networkVars>>
  <2> DEFINE msg == [type |-> "ReqHeartbeat"]
  <2>1. msg \in ClientMessages /\ Put(c, msg)
    BY <1>4, WhatClientsSend DEF SendHeartbeatPacket
  <2>2. Sends(c, msg)
    BY <1>0, <1>4, <2>1 DEF Sends, SendHeartbeatPacket, networkVars
  <2> QED BY <2>1, <2>2
<1>5. CASE (DisconnectAtRandom(c) \/ FindEnd(c)) /\ UNCHANGED <<serverVars, networkVars>>
  BY <1>5 DEF DisconnectAtRandom, FindEnd
<1> QED BY <1>1, <1>2, <1>3, <1>4, <1>5 DEF Client

\* Sessions are opened by the accept thread alone.
LEMMA OthersOpenNone ==
  ASSUME \/ \E id \in SessionIDs : Receive(id) \/ Leave(id)
         \/ Server \/ UNCHANGED serverVars
  PROVE  opened' = opened
<1>1. ASSUME NEW id \in SessionIDs, Receive(id) PROVE opened' = opened
  BY <1>1 DEF Receive, OnRecv, Net!RecvBegin
<1>2. ASSUME NEW id \in SessionIDs, Leave(id) PROVE opened' = opened
  BY <1>2 DEF Leave, OnClientLeave, Net!Leave
<1>3. CASE Server
  <2>1. ASSUME NEW who \in SessionIDs \cup {Timer}, SetEvent(who) PROVE opened' = opened
    BY <2>1 DEF SetEvent, Net!RecvEnd, callbackVars
  <2>2. CASE HeartbeatTimer
    BY <2>2 DEF HeartbeatTimer, callbackVars
  <2>3. CASE UpdateThread
    BY <2>3 DEF UpdateThread, HandleJob, FindNoJob, StartWaiting, WakeUp, callbackVars
  <2> QED BY <1>3, <2>1, <2>2, <2>3 DEF Server
<1>4. CASE UNCHANGED serverVars
  BY <1>4 DEF serverVars, callbackVars
<1> QED BY <1>1, <1>2, <1>3, <1>4

\* The types of the clients and of the network are kept.
LEMMA ClientTypesKept == ASSUME ClientTypeOK, SocketsOK, [Next]_vars PROVE ClientTypeOK'
<1>0. /\ conns \in 0 .. MaxConnections /\ MaxConnections \in Nat
      /\ state \in [Clients -> {"Disconnected", "Connected", "LoginSent", "Active"}]
      /\ sock \in [Clients -> 0 .. conns] /\ sendBuf \in [Clients -> Seq(ClientMessages)]
      /\ up \in [Connections -> Seq(ClientMessages)] /\ asked \in [Connections -> Seq(ClientMessages)]
      /\ backlog \in Seq(1 .. conns) /\ accepted \in 0 .. conns /\ \A id \in opened : id[2] \in 1 .. conns
  BY ConnectionAssumption DEF ClientTypeOK
<1>1. CASE UNCHANGED vars
  BY <1>1 DEF vars, clientVars, networkVars, serverVars, callbackVars, ClientTypeOK
<1>2. CASE Accept \/ OpenSession
  <2>1. backlog' \in Seq(1 .. conns) /\ accepted' \in 0 .. conns /\ UNCHANGED clientVars
    <3>1. CASE Accept
      <4>1. backlog # <<>> /\ backlog' = Tail(backlog) /\ UNCHANGED clientVars
            /\ (accepted' = Head(backlog) \/ accepted' = accepted)
        BY <3>1 DEF Accept
      <4>2. Tail(backlog) \in Seq(1 .. conns) /\ Head(backlog) \in 1 .. conns
        BY <1>0, <4>1
      <4> QED BY <1>0, <4>1, <4>2
    <3>2. CASE OpenSession
      BY <1>0, <3>2 DEF OpenSession
    <3> QED BY <1>2, <3>1, <3>2
  <2>2. \A id \in opened' : id[2] \in 1 .. conns
    <3>1. CASE UNCHANGED serverVars
      BY <1>0, <3>1, OthersOpenNone
    <3>2. ASSUME NEW new \in SessionIDs, OnClientJoin(new), new[2] \in 1 .. conns
          PROVE  \A id \in opened' : id[2] \in 1 .. conns
      <4>1. opened' = opened \cup {new}
        BY <3>2 DEF OnClientJoin, Net!Join
      <4> QED BY <1>0, <3>2, <4>1
    <3> QED BY <1>2, <3>1, <3>2, OpenedJoin
  <2> QED BY <1>0, <2>1, <2>2 DEF clientVars, ClientTypeOK
<1>3. ASSUME NEW id \in SessionIDs, Receive(id) PROVE ClientTypeOK'
  <2>1. /\ up' = [up EXCEPT ![id[2]] = Tail(@)] /\ up[id[2]] # <<>>
        /\ UNCHANGED <<state, sock, sendBuf, conns, gone, asked, networkVars>>
    BY <1>3 DEF Receive
  <2>2. up' \in [Connections -> Seq(ClientMessages)]
    <3>1. id \in opened
      BY <1>3 DEF Receive, OnRecv, Net!RecvBegin
    <3>2. id[2] \in Connections
      BY <3>1, ConnectionTypes
    <3> QED BY <1>0, <2>1, <3>2
  <2>3. opened' = opened
    BY <1>3, OthersOpenNone
  <2> QED BY <1>0, <2>1, <2>2, <2>3 DEF ClientTypeOK, networkVars
<1>4. ASSUME (\E id \in SessionIDs : Leave(id)) \/ Server PROVE ClientTypeOK'
  <2>1. opened' = opened
    BY <1>4, OthersOpenNone
  <2>2. UNCHANGED <<clientVars, networkVars>>
    BY <1>4 DEF Leave, Server
  <2> QED BY <1>0, <2>1, <2>2 DEF ClientTypeOK, clientVars, networkVars
<1>5. ASSUME NEW c \in Clients, Client(c) PROVE ClientTypeOK'
  <2>0. opened' = opened
    <3>1. UNCHANGED serverVars
      BY <1>5 DEF Client, Connect, Hear
    <3> QED BY <3>1, OthersOpenNone
  <2>1. CASE Connect(c)
    <3>1. /\ conns < MaxConnections /\ conns' = conns + 1 /\ sock' = [sock EXCEPT ![c] = conns + 1]
          /\ sendBuf' = [sendBuf EXCEPT ![c] = <<>>] /\ state' = [state EXCEPT ![c] = "Connected"]
          /\ backlog' = Append(backlog, conns + 1) /\ accepted' = accepted /\ up' = up /\ asked' = asked
      BY <2>1 DEF Connect, InitiateConnect, ResetSessionForReconnect
    <3>2. conns' \in 0 .. MaxConnections /\ conns + 1 \in 1 .. conns' /\ 1 .. conns \subseteq 1 .. conns'
          /\ 0 .. conns \subseteq 0 .. conns'
      BY <1>0, <3>1
    <3>3. sock' \in [Clients -> 0 .. conns']
      BY <1>0, <3>1, <3>2
    <3>4. backlog' \in Seq(1 .. conns')
      <4>1. backlog \in Seq(1 .. conns')
        BY <1>0, <3>2
      <4> QED BY <3>1, <3>2, <4>1
    <3>5. accepted' \in 0 .. conns' /\ sendBuf' \in [Clients -> Seq(ClientMessages)] /\ state' \in [Clients -> {"Disconnected", "Connected", "LoginSent", "Active"}]
      BY <1>0, <3>1
    <3> QED BY <1>0, <2>0, <3>1, <3>2, <3>3, <3>4, <3>5 DEF ClientTypeOK
  <2>2. ASSUME NEW msg \in ClientMessages, Sends(c, msg) PROVE ClientTypeOK'
    <3>1. sendBuf' \in [Clients -> Seq(ClientMessages)] /\ asked' \in [Connections -> Seq(ClientMessages)]
      BY <2>2, PutTypes DEF Sends
    <3> QED BY <1>0, <2>0, <2>2, <3>1 DEF ClientTypeOK, Sends, Put
  <2>3. CASE HandleSend(c) /\ UNCHANGED <<serverVars, networkVars>>
    <3>1. /\ up' = [up EXCEPT ![sock[c]] = @ \o sendBuf[c]] /\ sendBuf' = [sendBuf EXCEPT ![c] = <<>>]
          /\ state[c] # "Disconnected" /\ UNCHANGED <<state, sock, conns, gone, asked>>
      BY <2>3 DEF HandleSend
    <3>2. sock[c] \in Connections
      BY <3>1, SocketOfClient
    <3>3. up' \in [Connections -> Seq(ClientMessages)] /\ sendBuf' \in [Clients -> Seq(ClientMessages)]
      BY <1>0, <3>1, <3>2
    <3> QED BY <1>0, <2>0, <2>3, <3>1, <3>3 DEF ClientTypeOK, networkVars
  <2>4. CASE state[c] # "Disconnected" /\ MarkDisconnected(c) /\ UNCHANGED <<serverVars, networkVars>>
    BY <1>0, <2>0, <2>4 DEF ClientTypeOK, networkVars, MarkDisconnected
  <2> QED BY <1>5, <2>1, <2>2, <2>3, <2>4, ClientSteps
<1> QED BY <1>1, <1>2, <1>3, <1>4, <1>5 DEF Next

\* Sockets stay apart, and nothing is under way on a connection that is not made.
LEMMA SocketsKept == ASSUME ClientTypeOK, SocketsOK, [Next]_vars PROVE SocketsOK'
<1>0. /\ conns \in Nat /\ sock \in [Clients -> 0 .. conns] /\ up \in [Connections -> Seq(ClientMessages)]
      /\ state \in [Clients -> {"Disconnected", "Connected", "LoginSent", "Active"}]
      /\ \A c \in Clients : sock[c] \in Nat /\ sock[c] <= conns
      /\ \A k \in Connections : k \in Nat
  BY ConnectionTypes DEF ClientTypeOK, Connections
<1>1. CASE UNCHANGED <<clientVars, networkVars>>
  BY <1>1 DEF clientVars, SocketsOK
<1>2. ASSUME NEW id \in SessionIDs, Receive(id) PROVE SocketsOK'
  <2>1. id[2] \in Connections /\ id[2] \in 1 .. conns
    BY <1>2, ConnectionTypes DEF Receive, OnRecv, Net!RecvBegin, ClientTypeOK
  <2>2. \A k \in Connections : k > conns => up'[k] = up[k]
    BY <1>0, <1>2, <2>1 DEF Receive
  <2> QED BY <1>2, <2>2 DEF Receive, SocketsOK
<1>3. ASSUME NEW c \in Clients, Client(c) PROVE SocketsOK'
  <2>1. CASE Connect(c)
    <3>1. /\ conns' = conns + 1 /\ sock' = [sock EXCEPT ![c] = conns + 1]
          /\ state' = [state EXCEPT ![c] = "Connected"] /\ up' = up
      BY <2>1 DEF Connect, InitiateConnect
    <3> QED BY <1>0, <3>1 DEF SocketsOK
  <2>2. ASSUME NEW msg \in ClientMessages, Sends(c, msg) PROVE SocketsOK'
    <3>1. state[c] # "Disconnected" /\ state'[c] # "Disconnected" /\ \A d \in Clients : d # c => state'[d] = state[d]
      BY <2>2 DEF Sends
    <3> QED BY <2>2, <3>1 DEF SocketsOK, Sends, Put
  <2>3. CASE HandleSend(c) /\ UNCHANGED <<serverVars, networkVars>>
    <3>1. sock[c] \in 1 .. conns /\ sock[c] \in Connections
      BY <2>3, SocketOfClient DEF HandleSend
    <3>2. \A k \in Connections : k > conns => up'[k] = up[k]
      BY <1>0, <2>3, <3>1 DEF HandleSend
    <3> QED BY <2>3, <3>2 DEF SocketsOK, HandleSend
  <2>4. CASE state[c] # "Disconnected" /\ MarkDisconnected(c) /\ UNCHANGED <<serverVars, networkVars>>
    BY <1>0, <2>4 DEF SocketsOK, MarkDisconnected
  <2> QED BY <1>3, <2>1, <2>2, <2>3, <2>4, ClientSteps
<1>4. ASSUME \/ \E id \in SessionIDs : Leave(id)
             \/ Server \/ UNCHANGED vars
      PROVE  SocketsOK'
  BY <1>1, <1>4 DEF Leave, Server, vars
<1>5. CASE Accept \/ OpenSession
  BY <1>5 DEF Accept, OpenSession, SocketsOK, clientVars
<1> QED BY <1>2, <1>3, <1>4, <1>5 DEF Next

-----------------------------------------------------------------------------
(* Logins come first *)

\* Nothing that the order is read from changes.
LEMMA QueueStays ==
  ASSUME UNCHANGED <<JobQueue, characters>>
  PROVE  \A k : (Unheard(k)' <=> Unheard(k)) /\ (FirstInQueue(k) => FirstInQueue(k)')
  BY DEF Unheard, NoneQueued, Unplaced, FirstInQueue

\* A session with a message in the queue, and one with a character, was opened.
LEMMA KnownAreOpened ==
  ASSUME ContentInvariant, ClientTypeOK, NEW k, ~ (k \in 1 .. conns)
  PROVE  Unheard(k)
<1>1. /\ JobQueue \in Seq(Jobs) /\ MessagesBetween(JobQueue) /\ JoinsFirst(JobQueue) /\ DOMAIN characters \subseteq opened
  BY DEF ContentInvariant, ServerTypeOK, JobsInOrder, EndsAreQueued
<1>2. Unplaced(k)
  BY <1>1 DEF Unplaced, ClientTypeOK
<1>3. ASSUME NEW i \in Nat, AskedAt(JobQueue, i, k) PROVE FALSE
  <2>1. JobQueue[i] \in Jobs /\ JobQueue[i].type = "message" /\ JobQueue[i].session[2] = k
    BY <1>1, <1>3 DEF AskedAt
  <2> DEFINE id == JobQueue[i].session
  <2>2. id \in SessionIDs /\ JobAt(JobQueue, i, "message", id)
    BY <1>3, <2>1, JobKinds DEF AskedAt, JobAt
  <2>3. KnownAt(JobQueue, i, id)
    BY <1>1, <2>2 DEF MessagesBetween
  <2>4. id \in opened
    BY <1>1, <2>2, <2>3 DEF KnownAt, JoinsFirst
  <2> QED BY <2>1, <2>4 DEF ClientTypeOK
<1> QED BY <1>2, <1>3 DEF Unheard, NoneQueued

\* What is at a place of two sequences in a row.
LEMMA JoinedPlaces ==
  ASSUME NEW S, NEW q \in Seq(S), NEW r \in Seq(S), NEW i \in 1 .. Len(q) + Len(r), ~ (i \in 1 .. Len(q))
  PROVE  i - Len(q) \in 1 .. Len(r) /\ (q \o r)[i] = r[i - Len(q)]
<1>1. Len(q) \in Nat /\ Len(r) \in Nat /\ i > Len(q)
  OBVIOUS
<1> QED BY <1>1

\* A client's step keeps the logins first.
LEMMA ClientKeepsOrder ==
  ASSUME ContentInvariant, ClientTypeOK, SocketsOK, LoginComesFirst, NEW c \in Clients, Client(c)
  PROVE  LoginComesFirst'
<1>0. UNCHANGED <<JobQueue, characters>>
  BY DEF Client, Connect, Hear, serverVars, worldVars
<1>1. /\ conns \in Nat /\ sock \in [Clients -> 0 .. conns] /\ up \in [Connections -> Seq(ClientMessages)]
      /\ state \in [Clients -> {"Disconnected", "Connected", "LoginSent", "Active"}]
      /\ sendBuf \in [Clients -> Seq(ClientMessages)]
  BY ConnectionTypes DEF ClientTypeOK
<1>2. \A k : (Unheard(k)' <=> Unheard(k)) /\ (FirstInQueue(k) => FirstInQueue(k)')
  BY <1>0, QueueStays
<1>3. \A k \in Connections : FirstOnWay(k) /\ FirstInQueue(k) /\ FirstInQueue(k)'
  BY <1>2 DEF LoginComesFirst
<1>4. \A d \in Clients : FirstToSend(d) /\ FirstInBuffer(d)
  BY DEF LoginComesFirst
<1>5. ASSUME up' = up PROVE \A k \in Connections : FirstOnWay(k)'
  BY <1>2, <1>3, <1>5 DEF FirstOnWay
<1>6. ASSUME up' = up, NEW d \in Clients, state'[d] = state[d], sock'[d] = sock[d], sendBuf'[d] = sendBuf[d]
      PROVE  FirstToSend(d)' /\ FirstInBuffer(d)'
  BY <1>2, <1>4, <1>6 DEF FirstToSend, FirstInBuffer
<1>7. CASE Connect(c)
  <2>1. /\ conns < MaxConnections /\ sock' = [sock EXCEPT ![c] = conns + 1] /\ sendBuf' = [sendBuf EXCEPT ![c] = <<>>]
        /\ state' = [state EXCEPT ![c] = "Connected"] /\ up' = up
    BY <1>7 DEF Connect, InitiateConnect, ResetSessionForReconnect
  <2>2. sock'[c] = conns + 1 /\ sendBuf'[c] = <<>>
    BY <1>1, <2>1
  <2>3. up[conns + 1] = <<>> /\ Unheard(conns + 1)
    <3>1. conns + 1 \in Connections /\ conns + 1 > conns /\ ~ (conns + 1 \in 1 .. conns)
      BY <1>1, <2>1, ConnectionAssumption DEF Connections
    <3> QED BY <3>1, KnownAreOpened DEF SocketsOK
  <2>4. FirstToSend(c)' /\ FirstInBuffer(c)'
    BY <1>2, <2>1, <2>2, <2>3 DEF FirstToSend, FirstInBuffer
  <2>5. \A d \in Clients : d # c => FirstToSend(d)' /\ FirstInBuffer(d)'
    BY <1>1, <1>6, <2>1
  <2> QED BY <1>3, <1>5, <2>1, <2>4, <2>5 DEF LoginComesFirst
<1>8. ASSUME NEW msg \in ClientMessages, Sends(c, msg) PROVE LoginComesFirst'
  <2>1. /\ up' = up /\ sock' = sock /\ state'[c] # "Connected" /\ state[c] # "Disconnected"
        /\ msg.type = "ReqLogin" => state[c] = "Connected"
        /\ sendBuf'[c] = Append(sendBuf[c], msg)
        /\ \A d \in Clients : d # c => sendBuf'[d] = sendBuf[d] /\ state'[d] = state[d]
    BY <1>1, <1>8, PutTypes DEF Sends, Put
  <2>2. FirstInBuffer(c)'
    <3> SUFFICES ASSUME NEW i \in 1 .. Len(sendBuf'[c]), sock[c] # 0, sendBuf'[c][i].type = "ReqLogin"
                 PROVE  i = 1 /\ up[sock[c]] = <<>> /\ Unheard(sock[c])
      BY <1>2, <2>1 DEF FirstInBuffer
    <3>1. sendBuf[c] \in Seq(ClientMessages) /\ i \in 1 .. Len(sendBuf[c]) + 1
      BY <1>1, <2>1
    <3>2. CASE i \in 1 .. Len(sendBuf[c])
      <4>1. sendBuf'[c][i] = sendBuf[c][i]
        BY <2>1, <3>1, <3>2
      <4> QED BY <1>4, <3>2, <4>1 DEF FirstInBuffer
    <3>3. CASE i = Len(sendBuf[c]) + 1
      <4>1. sendBuf'[c][i] = msg
        BY <2>1, <3>1, <3>3
      <4>2. sendBuf[c] = <<>> /\ up[sock[c]] = <<>> /\ Unheard(sock[c])
        BY <1>4, <2>1, <4>1 DEF FirstToSend
      <4> QED BY <3>3, <4>2
    <3> QED BY <3>1, <3>2, <3>3
  <2>3. FirstToSend(c)'
    BY <2>1 DEF FirstToSend
  <2>4. \A d \in Clients : d # c => FirstToSend(d)' /\ FirstInBuffer(d)'
    BY <1>6, <2>1
  <2> QED BY <1>3, <1>5, <2>1, <2>2, <2>3, <2>4 DEF LoginComesFirst
<1>9. CASE HandleSend(c) /\ UNCHANGED <<serverVars, networkVars>>
  <2> DEFINE k == sock[c]
  <2>1. /\ state[c] # "Disconnected" /\ sendBuf[c] # <<>> /\ k \in Connections /\ k # 0
        /\ up' = [up EXCEPT ![k] = @ \o sendBuf[c]] /\ sendBuf' = [sendBuf EXCEPT ![c] = <<>>]
        /\ UNCHANGED <<state, sock>>
    BY <1>9, SocketOfClient DEF HandleSend
  <2>2. FirstOnWay(k)'
    <3> SUFFICES ASSUME NEW i \in 1 .. Len(up'[k]), up'[k][i].type = "ReqLogin" PROVE i = 1 /\ Unheard(k)
      BY <1>2, <2>1 DEF FirstOnWay
    <3>1. /\ up'[k] = up[k] \o sendBuf[c] /\ up[k] \in Seq(ClientMessages) /\ sendBuf[c] \in Seq(ClientMessages)
          /\ i \in 1 .. Len(up[k]) + Len(sendBuf[c])
      BY <1>1, <2>1
    <3>2. CASE i \in 1 .. Len(up[k])
      <4>1. up'[k][i] = up[k][i]
        BY <3>1, <3>2
      <4> QED BY <1>3, <2>1, <3>2, <4>1 DEF FirstOnWay
    <3>3. CASE ~ (i \in 1 .. Len(up[k]))
      <4>1. i - Len(up[k]) \in 1 .. Len(sendBuf[c]) /\ (up[k] \o sendBuf[c])[i] = sendBuf[c][i - Len(up[k])]
        BY <3>1, <3>3, JoinedPlaces, Zenon
      <4>2. i - Len(up[k]) = 1 /\ up[k] = <<>> /\ Unheard(k)
        BY <1>4, <2>1, <3>1, <4>1 DEF FirstInBuffer
      <4> QED BY <3>1, <4>2
    <3> QED BY <3>2, <3>3
  <2>3. \A m \in Connections : m # k => FirstOnWay(m)'
    BY <1>1, <1>2, <1>3, <2>1 DEF FirstOnWay
  <2>4. FirstToSend(c)' /\ FirstInBuffer(c)'
    BY <1>1, <1>4, <2>1 DEF FirstToSend, FirstInBuffer
  <2>5. ASSUME NEW d \in Clients, d # c PROVE FirstToSend(d)' /\ FirstInBuffer(d)'
    <3>1. sock[d] # k /\ sendBuf'[d] = sendBuf[d] /\ (state[d] = "Connected" => sock[d] # 0)
      BY <1>1, <2>1, <2>5 DEF SocketsOK
    <3>2. up'[sock[d]] = up[sock[d]] \/ sock[d] = 0
      <4>1. sock[d] # 0 => sock[d] \in Connections
        BY <1>1, ConnectionTypes
      <4> QED BY <1>1, <2>1, <3>1, <4>1
    <3> QED BY <1>2, <1>4, <2>1, <3>1, <3>2 DEF FirstToSend, FirstInBuffer
  <2> QED BY <1>3, <2>1, <2>2, <2>3, <2>4, <2>5 DEF LoginComesFirst
<1>10. CASE state[c] # "Disconnected" /\ MarkDisconnected(c) /\ UNCHANGED <<serverVars, networkVars>>
  <2>1. /\ up' = up /\ state'[c] = "Disconnected" /\ sock'[c] = 0 /\ sendBuf' = sendBuf
        /\ \A d \in Clients : d # c => state'[d] = state[d] /\ sock'[d] = sock[d]
    BY <1>1, <1>10 DEF MarkDisconnected
  <2>2. FirstToSend(c)' /\ FirstInBuffer(c)'
    BY <2>1 DEF FirstToSend, FirstInBuffer
  <2>3. \A d \in Clients : d # c => FirstToSend(d)' /\ FirstInBuffer(d)'
    BY <1>6, <2>1
  <2> QED BY <1>3, <1>5, <2>1, <2>2, <2>3 DEF LoginComesFirst
<1> QED BY <1>7, <1>8, <1>9, <1>10, ClientSteps

\* The job that a callback makes without a message is no message.
LEMMA OtherJobQueued ==
  ASSUME ServerTypeOK, LoginComesFirst, NEW job \in Jobs, job.type # "message", EnqueueJob(job),
         UNCHANGED <<characters, clientVars>>
  PROVE  LoginComesFirst'
<1>1. JobQueue \in Seq(Jobs) /\ JobQueue' = Append(JobQueue, job)
  BY DEF ServerTypeOK, EnqueueJob
<1>2. \A i \in Nat : \A k : (AskedAt(JobQueue', i, k) <=> AskedAt(JobQueue, i, k))
                        /\ (LoginAt(JobQueue', i, k) <=> LoginAt(JobQueue, i, k))
  <2> SUFFICES ASSUME NEW i \in Nat, NEW k
               PROVE  (AskedAt(JobQueue', i, k) <=> AskedAt(JobQueue, i, k))
                      /\ (LoginAt(JobQueue', i, k) <=> LoginAt(JobQueue, i, k))
    OBVIOUS
  <2>1. Len(JobQueue) \in Nat /\ Len(JobQueue') = Len(JobQueue) + 1 /\ JobQueue'[Len(JobQueue) + 1] = job
    BY <1>1
  <2>2. \A n \in 1 .. Len(JobQueue) : JobQueue'[n] = JobQueue[n]
    BY <1>1
  <2> QED BY <2>1, <2>2 DEF AskedAt, LoginAt
<1>3. \A k : (Unheard(k)' <=> Unheard(k)) /\ (FirstInQueue(k) => FirstInQueue(k)')
  BY <1>2 DEF Unheard, NoneQueued, Unplaced, FirstInQueue
<1> QED BY <1>3 DEF LoginComesFirst, FirstToSend, FirstInBuffer, FirstOnWay, clientVars

\* A worker takes a message off its connection and queues it.
LEMMA ReceiveKeepsOrder ==
  ASSUME ServerTypeOK, ClientTypeOK, LoginComesFirst, NEW id \in SessionIDs, Receive(id)
  PROVE  LoginComesFirst'
<1> DEFINE k == id[2]
           msg == Head(up[k])
           job == MessageJob(id, msg)
           n == Len(JobQueue) + 1
<1>1. /\ k \in Connections /\ up[k] # <<>> /\ up[k] \in Seq(ClientMessages) /\ up \in [Connections -> Seq(ClientMessages)]
      /\ up' = [up EXCEPT ![k] = Tail(@)] /\ UNCHANGED <<state, sock, sendBuf, characters>>
      /\ JobQueue' = Append(JobQueue, job) /\ JobQueue \in Seq(Jobs)
  <2>1. id \in opened
    BY DEF Receive, OnRecv, Net!RecvBegin
  <2> QED BY <2>1, ConnectionTypes DEF Receive, OnRecv, EnqueueJob, ServerTypeOK, ClientTypeOK, worldVars
<1>2. /\ n \in Nat /\ \A i \in Nat : \A m : AskedAt(JobQueue, i, m) => i < n
      /\ \A i \in Nat : \A m : AskedAt(JobQueue', i, m) <=> AskedAt(JobQueue, i, m) \/ (i = n /\ m = k)
      /\ \A i \in Nat : \A m : LoginAt(JobQueue', i, m)
                             <=> LoginAt(JobQueue, i, m) \/ (i = n /\ m = k /\ msg.type = "ReqLogin")
  <2>1. Len(JobQueue) \in Nat /\ Len(JobQueue') = n /\ JobQueue'[n] = job
    BY <1>1
  <2>2. \A i \in 1 .. Len(JobQueue) : JobQueue'[i] = JobQueue[i]
    BY <1>1
  <2>3. job.type = "message" /\ job.session = id /\ job.packet = msg
    BY DEF MessageJob
  <2> HIDE DEF job, msg
  <2> QED BY <2>1, <2>2, <2>3 DEF AskedAt, LoginAt
<1> HIDE DEF job, n
<1>3. \A m : Unplaced(m)' <=> Unplaced(m)
  BY <1>1 DEF Unplaced
<1>4. \A m : m # k /\ Unheard(m) => Unheard(m)'
  BY <1>2, <1>3 DEF Unheard, NoneQueued
<1>5. /\ \A c \in Clients : FirstToSend(c) /\ FirstInBuffer(c)
      /\ \A m \in Connections : FirstOnWay(m) /\ FirstInQueue(m)
  BY DEF LoginComesFirst
<1>6. ASSUME NEW c \in Clients PROVE FirstToSend(c)' /\ FirstInBuffer(c)'
  <2>1. CASE sock[c] = k
    BY <1>1, <1>5, <2>1 DEF FirstToSend, FirstInBuffer
  <2>2. CASE sock[c] # k
    <3>1. up'[sock[c]] = up[sock[c]]
      BY <1>1, <2>2
    <3> QED BY <1>1, <1>4, <1>5, <2>2, <3>1 DEF FirstToSend, FirstInBuffer
  <2> QED BY <2>1, <2>2
<1>7. FirstOnWay(k)'
  <2> SUFFICES ASSUME NEW i \in 1 .. Len(up'[k]), up'[k][i].type = "ReqLogin" PROVE FALSE
    BY DEF FirstOnWay
  <2>1. up'[k] = Tail(up[k])
    BY <1>1
  <2>2. i + 1 \in 1 .. Len(up[k]) /\ up[k][i + 1].type = "ReqLogin" /\ i + 1 # 1
    BY <1>1, <2>1
  <2> QED BY <1>1, <1>5, <2>2 DEF FirstOnWay
<1>8. ASSUME NEW m \in Connections, m # k PROVE FirstOnWay(m)' /\ FirstInQueue(m)'
  <2>1. up'[m] = up[m]
    BY <1>1, <1>8
  <2>2. FirstOnWay(m)'
    BY <1>4, <1>5, <1>8, <2>1 DEF FirstOnWay
  <2>3. FirstInQueue(m)'
    BY <1>2, <1>3, <1>5, <1>8 DEF FirstInQueue
  <2> QED BY <2>2, <2>3
<1>9. FirstInQueue(k)'
  <2> SUFFICES ASSUME NEW i \in Nat, LoginAt(JobQueue', i, k)
               PROVE  Unplaced(k)' /\ \A j \in Nat : AskedAt(JobQueue', j, k) => i <= j
    BY DEF FirstInQueue
  <2>1. CASE LoginAt(JobQueue, i, k)
    <3>1. Unplaced(k) /\ \A j \in Nat : AskedAt(JobQueue, j, k) => i <= j
      BY <1>1, <1>5, <2>1 DEF FirstInQueue
    <3>2. i < n
      BY <1>2, <2>1 DEF LoginAt
    <3> QED BY <1>2, <1>3, <3>1, <3>2
  <2>2. CASE i = n /\ msg.type = "ReqLogin"
    <3>1. up[k][1].type = "ReqLogin" /\ 1 \in 1 .. Len(up[k])
      BY <1>1, <2>2
    <3>2. Unheard(k)
      BY <1>1, <1>5, <3>1 DEF FirstOnWay
    <3>3. \A j \in Nat : AskedAt(JobQueue', j, k) => j = n
      BY <1>2, <3>2 DEF Unheard, NoneQueued
    <3> QED BY <1>2, <1>3, <2>2, <3>2, <3>3 DEF Unheard
  <2> QED BY <1>2, <2>1, <2>2
<1> QED BY <1>6, <1>7, <1>8, <1>9 DEF LoginComesFirst

\* The content thread places a character only when it handles a message of it.
LEMMA HandleKeepsUnplaced ==
  ASSUME ServerTypeOK, HandleJob, NEW k, Unplaced(k), ~ AskedAt(JobQueue, 1, k)
  PROVE  Unplaced(k)'
<1> DEFINE job == Head(JobQueue)
           id == job.session
<1>1. characters \in [DOMAIN characters -> Character] /\ DOMAIN characters \subseteq SessionIDs
      /\ JobQueue \in Seq(Jobs) /\ JobQueue # <<>>
  BY HandleKinds DEF ServerTypeOK
<1>2. \A other \in DOMAIN characters : other[2] = k => ~ Placed(characters[other])
  BY DEF Unplaced
<1>3. CASE UNCHANGED characters
  BY <1>3 DEF Unplaced
<1>4. CASE job.type = "message" /\ id \in SessionIDs /\ MessageControl(id, job.packet)
  <2>1. id[2] # k
    BY <1>1, <1>4 DEF AskedAt
  <2>2. \A other \in DOMAIN characters' : other \in DOMAIN characters /\ (other # id => characters'[other] = characters[other])
    <3>1. CASE id \in DOMAIN characters /\ Login(id, job.packet)
      BY <1>1, <3>1 DEF Login, Crash, worldVars
    <3>2. CASE id \in DOMAIN characters /\ SectorMove(id, job.packet)
      BY <1>1, <3>2 DEF SectorMove, worldVars
    <3>3. CASE id \in DOMAIN characters /\ ChatMessage(id, job.packet)
      BY <3>3 DEF ChatMessage, Crash, worldVars
    <3>4. CASE UNCHANGED worldVars
      BY <3>4 DEF worldVars
    <3> QED BY <1>4, <3>1, <3>2, <3>3, <3>4 DEF MessageControl, Crash
  <2> QED BY <1>2, <2>1, <2>2 DEF Unplaced
<1>5. CASE id \in SessionIDs /\ CreateCharacter(id)
  <2>1. \A other \in DOMAIN characters' :
          characters'[other] = IF other \in DOMAIN characters THEN characters[other]
                               ELSE [account |-> 0, x |-> -1, y |-> Unset]
    BY <1>5 DEF CreateCharacter
  <2> QED BY <1>2, <2>1 DEF Unplaced, Placed
<1>6. CASE id \in SessionIDs /\ LeaveCharacter(id)
  BY <1>2, <1>6 DEF LeaveCharacter, Unplaced, Crash, worldVars
<1> QED BY <1>3, <1>4, <1>5, <1>6, HandleKinds DEF worldVars

\* The content thread takes the first job.
LEMMA HandleKeepsOrder ==
  ASSUME ServerTypeOK, LoginComesFirst, HandleJob, UNCHANGED clientVars
  PROVE  LoginComesFirst'
<1>1. JobQueue \in Seq(Jobs) /\ JobQueue # <<>> /\ JobQueue' = Tail(JobQueue)
  BY HandleKinds DEF ServerTypeOK
<1>2. \A i \in Nat : \A k :
         /\ AskedAt(JobQueue', i, k) => i >= 1 /\ i + 1 \in Nat /\ AskedAt(JobQueue, i + 1, k)
         /\ LoginAt(JobQueue', i, k) => LoginAt(JobQueue, i + 1, k)
  <2>1. Len(JobQueue') = Len(JobQueue) - 1 /\ Len(JobQueue) \in Nat
    BY <1>1
  <2>2. \A i \in 1 .. Len(JobQueue') : JobQueue'[i] = JobQueue[i + 1]
    BY <1>1
  <2> QED BY <2>1, <2>2 DEF AskedAt, LoginAt
<1>3. ASSUME NEW k, Unheard(k) PROVE Unheard(k)'
  BY <1>2, <1>3, HandleKeepsUnplaced DEF Unheard, NoneQueued
<1>4. ASSUME NEW k, FirstInQueue(k) PROVE FirstInQueue(k)'
  <2> SUFFICES ASSUME NEW i \in Nat, LoginAt(JobQueue', i, k)
               PROVE  Unplaced(k)' /\ \A j \in Nat : AskedAt(JobQueue', j, k) => i <= j
    BY DEF FirstInQueue
  <2>1. i + 1 \in Nat /\ LoginAt(JobQueue, i + 1, k) /\ i >= 1
    BY <1>2 DEF LoginAt
  <2>2. Unplaced(k) /\ \A j \in Nat : AskedAt(JobQueue, j, k) => i + 1 <= j
    BY <1>4, <2>1 DEF FirstInQueue
  <2>3. ~ AskedAt(JobQueue, 1, k)
    BY <2>1, <2>2
  <2>4. ASSUME NEW j \in Nat, AskedAt(JobQueue', j, k) PROVE i <= j
    <3>1. i + 1 <= j + 1
      BY <1>2, <2>2, <2>4
    <3> QED BY <3>1
  <2> QED BY <2>2, <2>3, <2>4, HandleKeepsUnplaced
<1> QED BY <1>3, <1>4 DEF LoginComesFirst, FirstToSend, FirstInBuffer, FirstOnWay, clientVars

\* The job at the head finds its character, and a login one without a sector.
LEMMA HandleCannotCrash ==
  ASSUME ContentInvariant, ClientTypeOK, LoginComesFirst, ClientsAsk(JobQueue), HandleJob, ~crashed
  PROVE  ~crashed'
<1> DEFINE job == Head(JobQueue)
           id == job.session
<1>1. JobQueue \in Seq(Jobs) /\ JobQueue # <<>> /\ job = JobQueue[1] /\ 1 \in 1 .. Len(JobQueue)
  BY HandleKinds DEF ContentInvariant, ServerTypeOK
<1>2. job.type \in {"message", "leave"} => id \in DOMAIN characters
  BY <1>1, OrderGivesCharacters DEF ContentInvariant, JobsFindCharacters
<1>3. CASE job.type = "message" /\ MessageControl(id, job.packet)
  <2>1. id \in DOMAIN characters
    BY <1>2, <1>3
  <2>2. ASSUME job.packet.type = "ReqLogin" PROVE ~ Placed(characters[id])
    <3>1. LoginAt(JobQueue, 1, id[2])
      BY <1>1, <1>3, <2>2 DEF LoginAt, AskedAt
    <3>2. id[2] \in Connections
      <4>1. id \in opened
        BY <2>1 DEF ContentInvariant, JobsInOrder, EndsAreQueued
      <4> QED BY <4>1, ConnectionTypes
    <3>3. Unplaced(id[2])
      BY <3>1, <3>2 DEF LoginComesFirst, FirstInQueue
    <3> QED BY <2>1, <3>3 DEF Unplaced
  <2>3. job.packet.type = "ReqMessage" => job.packet.text \notin LongTexts
    BY <1>1, <1>3, MessageAssumption DEF ClientsAsk
  <2> QED BY <1>3, <2>1, <2>2, <2>3 DEF MessageControl, Login, SectorMove, ChatMessage
<1>4. CASE job.type = "join" /\ CreateCharacter(id)
  BY <1>4 DEF CreateCharacter
<1>5. CASE job.type = "leave" /\ LeaveCharacter(id)
  BY <1>2, <1>5 DEF LeaveCharacter
<1>6. CASE job.type = "heartbeat"
  BY <1>6 DEF HandleJob, CheckHeartBeat
<1> QED BY <1>3, <1>4, <1>5, <1>6, HandleKinds DEF HandleJob, ContentInvariant

\* The steps of the server's other threads.
LEMMA OthersKeepOrder ==
  ASSUME ServerTypeOK, LoginComesFirst,
         \/ \E id \in SessionIDs : OnClientJoin(id) \/ OnClientLeave(id)
         \/ HeartbeatTimer
         \/ \E who \in SessionIDs \cup {Timer} : SetEvent(who)
         \/ FindNoJob \/ StartWaiting \/ WakeUp
         \/ UNCHANGED serverVars,
         UNCHANGED clientVars
  PROVE  LoginComesFirst' /\ crashed' = crashed
<1>1. ASSUME NEW id \in SessionIDs, OnClientJoin(id) \/ OnClientLeave(id) PROVE LoginComesFirst' /\ crashed' = crashed
  <2>1. /\ UNCHANGED <<characters, crashed>>
        /\ EnqueueJob(JoinJob(id)) \/ EnqueueJob(LeaveJob(id))
    BY <1>1 DEF OnClientJoin, OnClientLeave, worldVars
  <2>2. /\ JoinJob(id) \in Jobs /\ LeaveJob(id) \in Jobs
        /\ JoinJob(id).type # "message" /\ LeaveJob(id).type # "message"
    BY DEF JoinJob, LeaveJob, Jobs
  <2> QED BY <2>1, <2>2, OtherJobQueued
<1>2. CASE HeartbeatTimer
  <2>1. UNCHANGED <<characters, crashed>> /\ EnqueueJob(HeartbeatJob)
    BY <1>2 DEF HeartbeatTimer, worldVars
  <2>2. HeartbeatJob \in Jobs /\ HeartbeatJob.type # "message"
    BY DEF HeartbeatJob, Jobs
  <2> QED BY <2>1, <2>2, OtherJobQueued
<1>3. CASE \/ \E who \in SessionIDs \cup {Timer} : SetEvent(who)
           \/ FindNoJob \/ StartWaiting \/ WakeUp
           \/ UNCHANGED serverVars
  <2>1. UNCHANGED <<JobQueue, characters, crashed>>
    BY <1>3 DEF SetEvent, FindNoJob, StartWaiting, WakeUp, serverVars, worldVars
  <2> QED BY <2>1, QueueStays DEF LoginComesFirst, FirstToSend, FirstInBuffer, FirstOnWay, clientVars
<1> QED BY <1>1, <1>2, <1>3

\* The clients' order is kept by every step, and none crashes the server.
LEMMA OrderKept ==
  ASSUME ChatInvariant, [Next]_vars
  PROVE  LoginComesFirst' /\ ~crashed'
<1>0. /\ ServerTypeOK /\ ContentInvariant /\ ClientTypeOK /\ SocketsOK /\ LoginComesFirst
      /\ ClientsAsk(JobQueue) /\ ~crashed
  BY DEF ChatInvariant, ContentInvariant
<1>1. CASE UNCHANGED vars
  BY <1>0, <1>1, OthersKeepOrder DEF vars
<1>2. CASE Accept \/ OpenSession
  <2>1. UNCHANGED clientVars
    BY <1>2 DEF Accept, OpenSession
  <2>2. UNCHANGED serverVars \/ \E id \in SessionIDs : OnClientJoin(id)
    BY <1>0, <1>2, OpenedJoin
  <2> QED BY <1>0, <2>1, <2>2, OthersKeepOrder
<1>3. ASSUME NEW id \in SessionIDs, Receive(id) PROVE LoginComesFirst' /\ ~crashed'
  BY <1>0, <1>3, ReceiveKeepsOrder DEF Receive, OnRecv
<1>4. ASSUME NEW id \in SessionIDs, Leave(id) PROVE LoginComesFirst' /\ ~crashed'
  BY <1>0, <1>4, OthersKeepOrder DEF Leave
<1>5. CASE Server
  <2>1. UNCHANGED clientVars
    BY <1>5 DEF Server
  <2>2. CASE HandleJob
    BY <1>0, <2>1, <2>2, HandleKeepsOrder, HandleCannotCrash
  <2> QED BY <1>0, <1>5, <2>1, <2>2, OthersKeepOrder DEF Server, UpdateThread
<1>6. ASSUME NEW c \in Clients, Client(c) PROVE LoginComesFirst' /\ ~crashed'
  <2>1. UNCHANGED serverVars
    BY <1>6 DEF Client, Connect, Hear
  <2> QED BY <1>0, <1>6, <2>1, ClientKeepsOrder DEF serverVars
<1> QED BY <1>1, <1>2, <1>3, <1>4, <1>5, <1>6 DEF Next

\* Message jobs are made of what a client has sent.
LEMMA JobsOfClients ==
  ASSUME ChatInvariant, [Next]_vars
  PROVE  ClientsAsk(JobQueue)'
<1>0. JobQueue \in Seq(Jobs) /\ ClientTypeOK /\ ClientsAsk(JobQueue)
  BY DEF ChatInvariant, ContentInvariant, ServerTypeOK
<1>1. ASSUME NEW job \in Jobs, EnqueueJob(job), job.type = "message" => job.packet \in ClientMessages
      PROVE  ClientsAsk(JobQueue)'
  <2>1. /\ Len(JobQueue') = Len(JobQueue) + 1 /\ Len(JobQueue) \in Nat /\ JobQueue'[Len(JobQueue) + 1] = job
        /\ \A i \in 1 .. Len(JobQueue) : JobQueue'[i] = JobQueue[i]
    BY <1>0, <1>1 DEF EnqueueJob
  <2>2. \A i \in 1 .. Len(JobQueue') : i \in 1 .. Len(JobQueue) \/ i = Len(JobQueue) + 1
    BY <2>1
  <2> QED BY <1>0, <1>1, <2>1, <2>2 DEF ClientsAsk
<1>2. CASE JobQueue' = JobQueue
  BY <1>0, <1>2 DEF ClientsAsk
<1>3. ASSUME NEW id \in SessionIDs, OnClientJoin(id) \/ OnClientLeave(id) PROVE ClientsAsk(JobQueue)'
  <2>1. /\ JoinJob(id) \in Jobs /\ LeaveJob(id) \in Jobs
        /\ JoinJob(id).type # "message" /\ LeaveJob(id).type # "message"
    BY DEF JoinJob, LeaveJob, Jobs
  <2> QED BY <1>1, <1>3, <2>1 DEF OnClientJoin, OnClientLeave
<1>4. CASE Accept \/ OpenSession
  BY <1>0, <1>2, <1>3, <1>4, OpenedJoin DEF serverVars
<1>5. ASSUME NEW id \in SessionIDs, Receive(id) PROVE ClientsAsk(JobQueue)'
  <2>1. id \in opened /\ OnRecv(id, Head(up[id[2]])) /\ up[id[2]] # <<>>
    BY <1>5 DEF Receive, OnRecv, Net!RecvBegin
  <2>2. Head(up[id[2]]) \in ClientMessages
    BY <1>0, <2>1, ConnectionTypes
  <2>3. PICK msg \in ClientMessages : EnqueueJob(MessageJob(id, msg))
    BY <2>1, <2>2 DEF OnRecv
  <2>4. MessageJob(id, msg) \in Jobs /\ MessageJob(id, msg).packet = msg
    BY MessageAssumption DEF MessageJob, Jobs
  <2> QED BY <1>1, <2>3, <2>4
<1>6. ASSUME NEW id \in SessionIDs, Leave(id) PROVE ClientsAsk(JobQueue)'
  BY <1>3, <1>6 DEF Leave
<1>7. CASE Server
  <2>1. CASE HeartbeatTimer
    <3>1. HeartbeatJob \in Jobs /\ HeartbeatJob.type # "message" /\ EnqueueJob(HeartbeatJob)
      BY <2>1 DEF HeartbeatTimer, HeartbeatJob, Jobs
    <3> QED BY <1>1, <3>1
  <2>2. CASE HandleJob
    <3>1. JobQueue # <<>> /\ JobQueue' = Tail(JobQueue)
      BY <2>2 DEF HandleJob
    <3>2. /\ Len(JobQueue') = Len(JobQueue) - 1 /\ Len(JobQueue) \in Nat
          /\ \A i \in 1 .. Len(JobQueue') : JobQueue'[i] = JobQueue[i + 1]
      BY <1>0, <3>1
    <3>3. \A i \in 1 .. Len(JobQueue') : i + 1 \in 1 .. Len(JobQueue)
      BY <3>2
    <3> QED BY <1>0, <3>2, <3>3 DEF ClientsAsk
  <2>3. CASE (\E who \in SessionIDs \cup {Timer} : SetEvent(who)) \/ FindNoJob \/ StartWaiting \/ WakeUp
    BY <1>2, <2>3 DEF SetEvent, FindNoJob, StartWaiting, WakeUp
  <2> QED BY <1>7, <2>1, <2>2, <2>3 DEF Server, UpdateThread
<1>8. ASSUME NEW c \in Clients, Client(c) PROVE ClientsAsk(JobQueue)'
  BY <1>2, <1>8 DEF Client, Connect, Hear, serverVars
<1>9. CASE UNCHANGED vars
  BY <1>2, <1>9 DEF vars, serverVars
<1> QED BY <1>4, <1>5, <1>6, <1>7, <1>8, <1>9 DEF Next

\* At first nobody is connected and nothing is under way.
LEMMA InitChatInvariant == Init => ChatInvariant
<1> SUFFICES ASSUME Init PROVE ChatInvariant
  OBVIOUS
<1>1. ContentInvariant
  BY InitInvariant DEF Init
<1>2. /\ state = [c \in Clients |-> "Disconnected"] /\ sock = [c \in Clients |-> 0]
      /\ sendBuf = [c \in Clients |-> <<>>] /\ conns = 0 /\ up = [k \in Connections |-> <<>>]
      /\ asked = [k \in Connections |-> <<>>] /\ backlog = <<>> /\ accepted = 0 /\ opened = {}
      /\ JobQueue = <<>> /\ ~crashed
  BY DEF Init, ClientInit, ServerInit, Net!Init
<1>3. ClientTypeOK
  BY <1>2, ConnectionAssumption DEF ClientTypeOK
<1>4. SocketsOK
  BY <1>2 DEF SocketsOK
<1>5. LoginComesFirst
  BY <1>2 DEF LoginComesFirst, FirstToSend, FirstInBuffer, FirstOnWay, FirstInQueue, LoginAt, AskedAt
<1>6. ClientsAsk(JobQueue)
  BY <1>2 DEF ClientsAsk
<1> QED BY <1>1, <1>2, <1>3, <1>4, <1>5, <1>6 DEF ChatInvariant

\* Server and clients together: besides what holds of the server alone, a login is the
\* first that is asked on a connection, wherever it is on its way.
THEOREM ChatInvariantHolds == Spec => []ChatInvariant
<1>1. ChatInvariant /\ [Next]_vars => ChatInvariant'
  <2> SUFFICES ASSUME ChatInvariant, [Next]_vars PROVE ChatInvariant'
    OBVIOUS
  <2>1. ContentInvariant'
    BY StepOfServer, ContentStep DEF ChatInvariant
  <2> QED BY <2>1, ClientTypesKept, SocketsKept, OrderKept, JobsOfClients DEF ChatInvariant
<1> QED BY <1>1, InitChatInvariant, PTL DEF Spec

\* With the clients of ChatDummyClient no call of Crash is reached: every job finds its
\* character, and no client logs in that has a sector.
THEOREM NoCrash == Spec => []NeverCrashes
<1>1. ChatInvariant => NeverCrashes
  BY DEF ChatInvariant, NeverCrashes
<1> QED BY <1>1, ChatInvariantHolds, PTL

\* The clients, the network and the accept thread's choice of a slot ask nothing of the
\* server that it would not do for anybody: what it keeps to alone it keeps to here.
THEOREM ServerAmongClients == Spec => ServerSpec
<1>1. ClientTypeOK /\ [Next]_vars => [ServerNext]_serverVars
  BY StepOfServer
<1>2. ChatInvariant => ClientTypeOK
  BY DEF ChatInvariant
<1>3. Init => ServerInit
  BY DEF Init
<1> QED BY <1>1, <1>2, <1>3, ChatInvariantHolds, PTL DEF Spec, ServerSpec

-----------------------------------------------------------------------------
(* Requests and answers *)

\* The place of a request among what was asked on its connection, from what it is or
\* from its answer: a login, a move and then texts, which are numbered.
Number(msg) ==
  IF msg.type \in {"ReqLogin", "ResLogin"} THEN 1
  ELSE IF msg.type \in {"ReqSectorMove", "ResSectorMove"} THEN 2
  ELSE msg.text[2] + 2

\* What is asked on a connection is in its place.
RequestsNumbered ==
  \A k \in Connections : \A n \in DOMAIN asked[k] :
    /\ asked[k][n].type = "ReqLogin" <=> n = 1
    /\ asked[k][n].type = "ReqSectorMove" <=> n = 2
    /\ asked[k][n].type = "ReqMessage" => asked[k][n].text = <<k, n - 2>>

\* How much a client has asked; after the move it has heard the answer to its login.
StagesOK ==
  /\ heard \in [Clients -> Nat]
  /\ \A k \in Connections : k > conns => asked[k] = <<>>
  /\ \A c \in Clients :
       /\ state[c] = "Connected" => Len(asked[sock[c]]) = 0
       /\ state[c] = "LoginSent" => Len(asked[sock[c]]) = 1
       /\ state[c] = "Active" =>
            /\ Len(asked[sock[c]]) >= 2
            /\ \E id \in opened :
                 /\ id[2] = sock[c]
                 /\ id \in closed \/ \E i \in DOMAIN told[id] : i <= heard[c] /\ told[id][i].type = "ResLogin"

\* Whoever is in a sector is in one of the grid.
PlacedInGrid == \A id \in DOMAIN characters : Placed(characters[id]) => SectorOf(characters[id]) \in Sectors

\* The messages of u come in q after the first r.
Follows(q, r, u) == r + Len(u) <= Len(q) /\ \A i \in 1 .. Len(u) : u[i] = q[r + i]

\* What is not in the queue yet, of what was asked on connection k, is in up and, while
\* the client has the connection, in sendBuf, after the first r requests.
OnTheWay(k, r) ==
  /\ Follows(asked[k], r, up[k])
  /\ \A c \in Clients : sock[c] = k =>
       /\ Len(asked[k]) = r + Len(up[k]) + Len(sendBuf[c])
       /\ Follows(asked[k], r + Len(up[k]), sendBuf[c])

\* A message that has an answer is at place i of the queue.
Asks(q, i, k) == AskedAt(q, i, k) /\ HasAnswer(q[i].packet)
NumberAt(q, i) == Number(q[i].packet)

\* The requests in the queue are those between h and r, in order.
InQueue(k, h, r) ==
  \A i \in Nat : Asks(JobQueue, i, k) =>
    /\ NumberAt(JobQueue, i) \in h + 1 .. r
    /\ JobQueue[i].packet = asked[k][NumberAt(JobQueue, i)]
    /\ \A j \in Nat : i < j /\ Asks(JobQueue, j, k) => NumberAt(JobQueue, i) < NumberAt(JobQueue, j)

\* None between them is missing while the session is open.
AllQueued(k, h, r) ==
  \A id \in opened \ closed : id[2] = k =>
    \A n \in h + 1 .. r : HasAnswer(asked[k][n]) => \E i \in Nat : Asks(JobQueue, i, k) /\ NumberAt(JobQueue, i) = n

\* A text of connection k is at place i of what a session was told.
TextAt(id, i, k) == i \in DOMAIN told[id] /\ told[id][i].type = "ResMessage" /\ told[id][i].text[1] = k

\* What was told of connection k comes from the first h requests, in order.
TextsHandled(k, h) ==
  \A id \in SessionIDs : \A i \in Nat : TextAt(id, i, k) =>
    /\ told[id][i].text[2] \in Nat /\ told[id][i].text[2] + 2 <= h
    /\ \A j \in Nat : i < j /\ TextAt(id, j, k) => told[id][i].text[2] < told[id][j].text[2]

\* A session is answered request n.
Answered(id, n) == \E i \in Own(id) : Number(told[id][i]) = n

\* The answers of a session are those to the first h requests, in order, and none is
\* left out before another.
AnswersHandled(k, h) ==
  \A id \in SessionIDs : id[2] = k => \A i \in Own(id) :
    LET n == Number(told[id][i])
    IN /\ n \in 1 .. h /\ HasAnswer(asked[k][n]) /\ told[id][i] = Answer(asked[k][n])
       /\ \A j \in Own(id) : i < j => n < Number(told[id][j])
       /\ \A m \in 1 .. n - 1 : HasAnswer(asked[k][m]) => Answered(id, m)

\* A text is not told to its own session while that has no sector.
Silent(id) == id \in DOMAIN characters => ~Placed(characters[id])

\* The first h requests of an open session were answered, unless the session is about
\* to be killed.
AllAnswered(k, h) ==
  \A id \in opened \ (closed \cup killed) : id[2] = k =>
    \A n \in 1 .. h : HasAnswer(asked[k][n]) => Answered(id, n) \/ (n > 2 /\ Silent(id))

\* Only open sessions are told anything: answers, and texts of connections.
Replies == {Answer(msg) : msg \in {m \in Messages : HasAnswer(m)}}
ToldOK ==
  /\ told \in [SessionIDs -> Seq(Replies)]
  /\ \A id \in SessionIDs :
       /\ told[id] # <<>> => id \in opened \ closed
       /\ \A i \in DOMAIN told[id] : told[id][i].type = "ResMessage" => told[id][i].text[1] \in Connections

\* h requests were handled and r received.
InStep(k, h, r) ==
  /\ h <= r
  /\ (\A id \in opened : id[2] # k) => r = 0
  /\ OnTheWay(k, r)
  /\ InQueue(k, h, r)
  /\ AllQueued(k, h, r)
  /\ TextsHandled(k, h)
  /\ AnswersHandled(k, h)
  /\ AllAnswered(k, h)

AnswerInvariant ==
  /\ RequestsNumbered
  /\ StagesOK
  /\ PlacedInGrid
  /\ ToldOK
  /\ \A k \in Connections : \E h, r \in 0 .. Len(asked[k]) : InStep(k, h, r)

-----------------------------------------------------------------------------
(* What clients ask *)

\* The messages of clients are of four kinds.
LEMMA MessageKinds ==
  ASSUME NEW msg \in ClientMessages
  PROVE  msg.type \in {"ReqLogin", "ReqSectorMove", "ReqMessage", "ReqHeartbeat"}
  BY DEF ClientMessages

\* A request is in the place that its number says.
LEMMA RequestNumber ==
  ASSUME ClientTypeOK, RequestsNumbered, NEW k \in Connections, NEW n \in DOMAIN asked[k],
         HasAnswer(asked[k][n])
  PROVE  Number(asked[k][n]) = n
<1>1. asked[k] \in Seq(ClientMessages) /\ asked[k][n] \in ClientMessages /\ n \in Nat
  BY DEF ClientTypeOK
<1>2. asked[k][n].type \in {"ReqLogin", "ReqSectorMove", "ReqMessage"}
  BY <1>1, MessageKinds DEF HasAnswer
<1>3. CASE asked[k][n].type = "ReqMessage"
  <2>1. asked[k][n].text[2] = n - 2
    BY <1>3 DEF RequestsNumbered
  <2> QED BY <1>1, <1>3, <2>1 DEF Number
<1>4. CASE asked[k][n].type # "ReqMessage"
  BY <1>2, <1>4 DEF RequestsNumbered, Number
<1> QED BY <1>3, <1>4

\* The step in which client c asks msg, which has the number that is due.
AsksNext(c, msg) ==
  /\ Put(c, msg) /\ state[c] # "Disconnected" /\ msg \in ClientMessages
  /\ UNCHANGED <<serverVars, backlog, accepted, refused>>
  /\ \/ /\ state[c] = "Connected" /\ msg.type = "ReqLogin"
        /\ state' = [state EXCEPT ![c] = "LoginSent"] /\ heard' = heard
     \/ /\ state[c] \in {"LoginSent", "Active", "Connected"} /\ msg.type = "ReqSectorMove"
        /\ state' = [state EXCEPT ![c] = "Active"]
        /\ \E id \in opened : \E i \in heard[c] + 1 .. Len(told[id]) :
             id[2] = sock[c] /\ told[id][i].type = "ResLogin" /\ heard' = [heard EXCEPT ![c] = i]
     \/ /\ state[c] = "Active" /\ state' = state /\ heard' = heard
        /\ \/ msg.type = "ReqMessage" /\ msg.text = <<sock[c], PacketsOn(sock[c]) + 1>>
           \/ msg.type = "ReqHeartbeat"

\* The steps of a client, with what it asks.
LEMMA AskingSteps ==
  ASSUME ClientTypeOK, SocketsOK, NEW c \in Clients, Client(c)
  PROVE  \/ Connect(c)
         \/ \E msg \in ClientMessages : AsksNext(c, msg)
         \/ HandleSend(c) /\ UNCHANGED <<serverVars, networkVars>>
         \/ state[c] # "Disconnected" /\ MarkDisconnected(c) /\ UNCHANGED <<serverVars, networkVars>>
<1>0. state[c] \in {"Disconnected", "Connected", "LoginSent", "Active"}
  BY DEF ClientTypeOK
<1>1. CASE Hear(c)
  <2>0. PICK id \in opened : \E i \in heard[c] + 1 .. Len(told[id]) :
          /\ id[2] = sock[c] /\ HandleRecv(c, told[id][i]) /\ heard' = [heard EXCEPT ![c] = i]
          /\ UNCHANGED <<serverVars, backlog, accepted, refused>>
    BY <1>1 DEF Hear
  <2>1. PICK i \in heard[c] + 1 .. Len(told[id]) :
          /\ id[2] = sock[c] /\ HandleRecv(c, told[id][i]) /\ heard' = [heard EXCEPT ![c] = i]
          /\ UNCHANGED <<serverVars, backlog, accepted, refused>>
    BY <2>0
  <2>2. /\ state[c] # "Disconnected" /\ state' = [state EXCEPT ![c] = "Active"]
        /\ SendSectorMovePacket(c) /\ told[id][i].type = "ResLogin"
    BY <2>1 DEF HandleRecv
  <2> DEFINE move == [type |-> "ReqSectorMove", account |-> c, x |-> Spot[sock[c]][1], y |-> Spot[sock[c]][2]]
  <2>3. move \in ClientMessages /\ Put(c, move)
    BY <2>2, WhatClientsSend, SocketOfClient DEF SendSectorMovePacket
  <2>4. move.type = "ReqSectorMove"
    OBVIOUS
  <2> HIDE DEF move
  <2>5. AsksNext(c, move)
    BY <1>0, <2>1, <2>2, <2>3, <2>4 DEF AsksNext
  <2> QED BY <2>3, <2>5
<1>2. CASE SendLoginPacket(c) /\ UNCHANGED <<serverVars, networkVars>>
  <2> DEFINE msg == [type |-> "ReqLogin", account |-> c]
  <2>1. msg \in ClientMessages /\ Put(c, msg)
    BY <1>2, WhatClientsSend DEF SendLoginPacket
  <2>2. AsksNext(c, msg)
    BY <1>2, <2>1 DEF AsksNext, SendLoginPacket, networkVars
  <2> QED BY <2>1, <2>2
<1>3. CASE SendChatPacket(c) /\ UNCHANGED <<serverVars, networkVars>>
  <2> DEFINE msg == [type |-> "ReqMessage", account |-> c, text |-> <<sock[c], PacketsOn(sock[c]) + 1>>]
  <2>1. state[c] = "Active" /\ PacketsOn(sock[c]) < MaxPackets[sock[c]] /\ Put(c, msg) /\ state' = state
    BY <1>3 DEF SendChatPacket
  <2>2. msg \in ClientMessages
    BY <2>1, WhatClientsSend, SocketOfClient, PacketNumber
  <2>3. AsksNext(c, msg)
    BY <1>3, <2>1, <2>2 DEF AsksNext, networkVars
  <2> QED BY <2>2, <2>3
<1>4. CASE SendHeartbeatPacket(c) /\ UNCHANGED <<serverVars, networkVars>>
  <2> DEFINE msg == [type |-> "ReqHeartbeat"]
  <2>1. msg \in ClientMessages /\ Put(c, msg)
    BY <1>4, WhatClientsSend DEF SendHeartbeatPacket
  <2>2. AsksNext(c, msg)
    BY <1>4, <2>1 DEF AsksNext, SendHeartbeatPacket, networkVars
  <2> QED BY <2>1, <2>2
<1>5. CASE (DisconnectAtRandom(c) \/ FindEnd(c)) /\ UNCHANGED <<serverVars, networkVars>>
  BY <1>5 DEF DisconnectAtRandom, FindEnd
<1> QED BY <1>1, <1>2, <1>3, <1>4, <1>5 DEF Client

\* A session that was told something about its login has asked for it.
LEMMA LoginWasAsked ==
  ASSUME AnswerInvariant, ClientTypeOK, NEW id \in SessionIDs, id[2] \in Connections,
         NEW i \in DOMAIN told[id], told[id][i].type = "ResLogin"
  PROVE  /\ Len(asked[id[2]]) >= 1
         /\ \A j \in DOMAIN told[id] : i < j => told[id][j].type # "ResLogin"
<1> DEFINE k == id[2]
<1>1. PICK h \in 0 .. Len(asked[k]), r \in 0 .. Len(asked[k]) : InStep(k, h, r)
  BY DEF AnswerInvariant
<1>2. i \in Own(id) /\ Number(told[id][i]) = 1
  BY DEF Own, Number
<1>3. 1 \in 1 .. h
  BY <1>1, <1>2, Zenon DEF InStep, AnswersHandled
<1>4. Len(asked[k]) \in Nat
  BY DEF ClientTypeOK
<1>5. ASSUME NEW j \in DOMAIN told[id], i < j, told[id][j].type = "ResLogin" PROVE FALSE
  <2>1. j \in Own(id) /\ Number(told[id][j]) = 1
    BY <1>5 DEF Own, Number
  <2>2. Number(told[id][i]) < Number(told[id][j])
    BY <1>1, <1>2, <1>5, <2>1, Zenon DEF InStep, AnswersHandled
  <2> QED BY <1>2, <2>1, <2>2
<1> QED BY <1>1, <1>3, <1>4, <1>5

\* A client asks for the login first, then for the move, and then numbers its texts.
LEMMA AskedNumber ==
  ASSUME ChatInvariant, AnswerInvariant, NEW c \in Clients, NEW msg \in ClientMessages, AsksNext(c, msg)
  PROVE  LET n == Len(asked[sock[c]]) + 1
         IN /\ msg.type = "ReqLogin" <=> n = 1
            /\ msg.type = "ReqSectorMove" <=> n = 2
            /\ msg.type = "ReqMessage" => msg.text = <<sock[c], n - 2>>
            /\ state'[c] = IF n = 1 THEN "LoginSent" ELSE "Active"
            /\ n <= 2 => (n = 2 <=> state[c] = "LoginSent")
<1> DEFINE k == sock[c]
           n == Len(asked[k])
<1>1. /\ k \in Connections /\ n \in Nat /\ state[c] # "Disconnected" /\ ClientTypeOK
      /\ state \in [Clients -> {"Disconnected", "Connected", "LoginSent", "Active"}]
  BY SocketOfClient DEF ChatInvariant, AsksNext, ClientTypeOK
<1>2. /\ state[c] = "Connected" => n = 0
      /\ state[c] = "LoginSent" => n = 1
      /\ state[c] = "Active" => n >= 2
  BY DEF AnswerInvariant, StagesOK
<1>3. CASE msg.type = "ReqSectorMove"
  <2>0. PICK id \in opened : \E i \in heard[c] + 1 .. Len(told[id]) : id[2] = k /\ told[id][i].type = "ResLogin"
    BY <1>3 DEF AsksNext
  <2>1. PICK i \in heard[c] + 1 .. Len(told[id]) : id[2] = k /\ told[id][i].type = "ResLogin"
    BY <2>0
  <2>2. /\ id \in SessionIDs /\ told[id] \in Seq(Replies) /\ heard[c] \in Nat
    BY DEF ChatInvariant, ContentInvariant, ServerTypeOK, AnswerInvariant, ToldOK, StagesOK
  <2>3. i \in DOMAIN told[id] /\ i > heard[c] /\ i \in Nat
    BY <2>2
  <2>4. n >= 1 /\ \A j \in DOMAIN told[id] : i < j => told[id][j].type # "ResLogin"
    BY <1>1, <2>1, <2>2, <2>3, LoginWasAsked
  <2>5. state[c] # "Active"
    <3> SUFFICES ASSUME state[c] = "Active" PROVE FALSE
      OBVIOUS
    <3>1. PICK id2 \in opened : /\ id2[2] = k
                                /\ id2 \in closed \/ \E j \in DOMAIN told[id2] : j <= heard[c] /\ told[id2][j].type = "ResLogin"
      BY DEF AnswerInvariant, StagesOK
    <3>2. id2 = id
      BY <2>1, <3>1 DEF ChatInvariant, ContentInvariant, JobsInOrder, SlotsInOrder
    <3>3. id \notin closed
      BY <2>2, <2>3 DEF AnswerInvariant, ToldOK
    <3>4. PICK j \in DOMAIN told[id] : j <= heard[c] /\ told[id][j].type = "ResLogin"
      BY <3>1, <3>2, <3>3
    <3>5. j < i
      BY <2>2, <2>3, <3>4
    <3> QED BY <1>1, <2>1, <2>2, <2>3, <3>4, <3>5, LoginWasAsked
  <2>6. state'[c] = "Active"
    BY <1>1, <1>3 DEF AsksNext
  <2>7. state[c] = "LoginSent" /\ n = 1
    BY <1>1, <1>2, <2>4, <2>5
  <2> QED BY <1>3, <2>6, <2>7
<1>4. CASE msg.type # "ReqSectorMove"
  <2>1. CASE msg.type = "ReqLogin"
    <3>1. state[c] = "Connected" /\ state' = [state EXCEPT ![c] = "LoginSent"]
      BY <2>1 DEF AsksNext
    <3> QED BY <1>1, <1>2, <2>1, <3>1
  <2>2. CASE msg.type # "ReqLogin"
    <3>1. state[c] = "Active" /\ state' = state /\ (msg.type = "ReqMessage" => msg.text = <<k, PacketsOn(k) + 1>>)
      BY <1>4, <2>2 DEF AsksNext
    <3>2. PacketsOn(k) + 1 = n - 1 /\ n >= 2 /\ (n + 1) - 2 = n - 1
      BY <1>1, <1>2, <3>1 DEF PacketsOn
    <3> QED BY <1>1, <1>4, <2>2, <3>1, <3>2
  <2> QED BY <2>1, <2>2
<1> QED BY <1>3, <1>4
-----------------------------------------------------------------------------
(* What a step leaves in step *)

\* Nothing new is handled or asked between h and r: the queue agrees with what was asked
\* as it did.
LEMMA QueueFrame ==
  ASSUME NEW k, NEW h \in Nat, NEW r \in Nat, InQueue(k, h, r), AllQueued(k, h, r),
         \A n \in 1 .. r : asked'[k][n] = asked[k][n],
         \A i \in Nat : Asks(JobQueue', i, k) <=> Asks(JobQueue, i, k),
         \A i \in Nat : Asks(JobQueue, i, k) => JobQueue'[i] = JobQueue[i],
         r = 0 \/ \A id \in opened' \ closed' : id[2] = k => id \in opened \ closed
  PROVE  InQueue(k, h, r)' /\ AllQueued(k, h, r)'
<1>1. \A i \in Nat : Asks(JobQueue, i, k) => NumberAt(JobQueue', i) = NumberAt(JobQueue, i)
  BY DEF NumberAt
<1>2. InQueue(k, h, r)'
  <2> SUFFICES ASSUME NEW i \in Nat, Asks(JobQueue', i, k)
               PROVE  /\ NumberAt(JobQueue', i) \in h + 1 .. r
                      /\ JobQueue'[i].packet = asked'[k][NumberAt(JobQueue', i)]
                      /\ \A j \in Nat : i < j /\ Asks(JobQueue', j, k) => NumberAt(JobQueue', i) < NumberAt(JobQueue', j)
    BY Zenon DEF InQueue
  <2>1. /\ NumberAt(JobQueue, i) \in h + 1 .. r
        /\ JobQueue[i].packet = asked[k][NumberAt(JobQueue, i)]
        /\ \A j \in Nat : i < j /\ Asks(JobQueue, j, k) => NumberAt(JobQueue, i) < NumberAt(JobQueue, j)
    BY Zenon DEF InQueue
  <2>2. NumberAt(JobQueue, i) \in 1 .. r
    BY <2>1
  <2> QED BY <1>1, <2>1, <2>2
<1>3. AllQueued(k, h, r)'
  <2> SUFFICES ASSUME NEW id \in opened' \ closed', id[2] = k, NEW n \in h + 1 .. r, HasAnswer(asked'[k][n])
               PROVE  \E i \in Nat : Asks(JobQueue', i, k) /\ NumberAt(JobQueue', i) = n
    BY Zenon DEF AllQueued
  <2>1. n \in 1 .. r /\ r # 0
    OBVIOUS
  <2>2. \E i \in Nat : Asks(JobQueue, i, k) /\ NumberAt(JobQueue, i) = n
    BY <2>1, Zenon DEF AllQueued
  <2> QED BY <1>1, <2>2
<1> QED BY <1>2, <1>3

\* Nobody is told anything, and no session gets a sector: the answers agree with what
\* was handled as they did.
LEMMA ToldFrame ==
  ASSUME NEW k, NEW h \in Nat, TextsHandled(k, h), AnswersHandled(k, h), AllAnswered(k, h),
         \A n \in 1 .. h : asked'[k][n] = asked[k][n],
         \A id \in SessionIDs : told'[id] = told[id] \/ told'[id] = <<>>,
         opened \subseteq SessionIDs,
         h = 0 \/ \A id \in opened' \ (closed' \cup killed') : id[2] = k =>
                    id \in opened \ (closed \cup killed) /\ told'[id] = told[id],
         \A id \in SessionIDs : Silent(id) => Silent(id)'
  PROVE  TextsHandled(k, h)' /\ AnswersHandled(k, h)' /\ AllAnswered(k, h)'
<1>1. ASSUME NEW id \in SessionIDs, told'[id] = <<>> PROVE DOMAIN told'[id] = {} /\ Own(id)' = {}
  BY <1>1 DEF Own
<1>2. ASSUME NEW id \in SessionIDs, told'[id] = told[id]
      PROVE  Own(id)' = Own(id) /\ \A n : Answered(id, n)' <=> Answered(id, n)
  BY <1>2 DEF Own, Answered
<1>3. TextsHandled(k, h)'
  BY <1>1 DEF TextsHandled, TextAt
<1>4. AnswersHandled(k, h)'
  <2> SUFFICES ASSUME NEW id \in SessionIDs, id[2] = k, NEW i \in Own(id)'
               PROVE  LET n == Number(told'[id][i])
                      IN /\ n \in 1 .. h /\ HasAnswer(asked'[k][n]) /\ told'[id][i] = Answer(asked'[k][n])
                         /\ \A j \in Own(id)' : i < j => n < Number(told'[id][j])
                         /\ \A m \in 1 .. n - 1 : HasAnswer(asked'[k][m]) => Answered(id, m)'
    BY Zenon DEF AnswersHandled
  <2>1. told'[id] = told[id] /\ Own(id)' = Own(id)
    BY <1>1, <1>2
  <2> DEFINE n == Number(told[id][i])
  <2>2. /\ n \in 1 .. h /\ HasAnswer(asked[k][n]) /\ told[id][i] = Answer(asked[k][n])
        /\ \A j \in Own(id) : i < j => n < Number(told[id][j])
        /\ \A m \in 1 .. n - 1 : HasAnswer(asked[k][m]) => Answered(id, m)
    BY <2>1, Zenon DEF AnswersHandled
  <2>3. n = Number(told'[id][i])
    BY <2>1
  <2> HIDE DEF n
  <2>4. \A m \in 1 .. n - 1 : m \in 1 .. h
    BY <2>2
  <2>5. asked'[k][n] = asked[k][n] /\ \A m \in 1 .. n - 1 : asked'[k][m] = asked[k][m]
    BY <2>2, <2>4
  <2>6. \A m \in 1 .. n - 1 : HasAnswer(asked'[k][m]) => Answered(id, m)'
    BY <1>2, <2>1, <2>2, <2>5, Zenon
  <2>7. \A j \in Own(id)' : i < j => n < Number(told'[id][j])
    BY <2>1, <2>2
  <2> QED BY <2>1, <2>2, <2>3, <2>5, <2>6, <2>7
<1>5. AllAnswered(k, h)'
  <2> SUFFICES ASSUME NEW id \in opened' \ (closed' \cup killed'), id[2] = k, NEW n \in 1 .. h, HasAnswer(asked'[k][n])
               PROVE  Answered(id, n)' \/ (n > 2 /\ Silent(id)')
    BY Zenon DEF AllAnswered
  <2>1. h # 0
    OBVIOUS
  <2>2. id \in opened \ (closed \cup killed) /\ told'[id] = told[id] /\ HasAnswer(asked[k][n]) /\ id \in SessionIDs
    BY <2>1
  <2>3. Answered(id, n) \/ (n > 2 /\ Silent(id))
    BY <2>2 DEF AllAnswered
  <2> QED BY <1>2, <2>2, <2>3
<1> QED BY <1>3, <1>4, <1>5

\* The answer to a request has its number and, if it is a text, its text.
LEMMA AnswerNumber ==
  ASSUME NEW msg, msg.type \in {"ReqLogin", "ReqSectorMove", "ReqMessage"}
  PROVE  /\ msg.type = "ReqLogin" => Answer(msg) = [type |-> "ResLogin", account |-> msg.account]
         /\ msg.type = "ReqSectorMove" => Answer(msg) = [type |-> "ResSectorMove", account |-> msg.account]
         /\ msg.type = "ReqMessage" => Answer(msg) = [type |-> "ResMessage", account |-> msg.account, text |-> msg.text]
         /\ Number(Answer(msg)) = Number(msg)
         /\ Answer(msg).type = "ResMessage" <=> msg.type = "ReqMessage"
<1>1. CASE msg.type = "ReqLogin"
  <2>1. Answer(msg) = [type |-> "ResLogin", account |-> msg.account]
    BY <1>1 DEF Answer
  <2> QED BY <1>1, <2>1 DEF Number
<1>2. CASE msg.type = "ReqSectorMove"
  <2>1. Answer(msg) = [type |-> "ResSectorMove", account |-> msg.account]
    BY <1>2 DEF Answer
  <2> QED BY <1>2, <2>1 DEF Number
<1>3. CASE msg.type = "ReqMessage"
  <2>1. Answer(msg) = [type |-> "ResMessage", account |-> msg.account, text |-> msg.text]
    BY <1>3 DEF Answer
  <2> QED BY <1>3, <2>1 DEF Number
<1> QED BY <1>1, <1>2, <1>3

\* What sessions are told once those of T are told one thing more.
Tells(T, reply) == told' = [id \in SessionIDs |-> IF id \in T THEN Append(told[id], reply) ELSE told[id]]

\* What is told more is behind what was told, and an answer it is to its own session.
LEMMA MoreTold ==
  ASSUME ToldOK, NEW T, NEW reply, Tells(T, reply), NEW id \in SessionIDs
  PROVE  /\ id \notin T => /\ told'[id] = told[id] /\ Own(id)' = Own(id)
                           /\ \A n : Answered(id, n)' <=> Answered(id, n)
         /\ id \in T => LET new == Len(told[id]) + 1
                        IN /\ new \in Nat /\ DOMAIN told'[id] = DOMAIN told[id] \cup {new}
                           /\ told'[id][new] = reply
                           /\ \A i \in DOMAIN told[id] : i \in Nat /\ i < new /\ told'[id][i] = told[id][i]
                           /\ Own(id)' = Own(id) \cup IF reply.type # "ResMessage" \/ reply.text[1] = id[2] THEN {new} ELSE {}
         /\ \A n : Answered(id, n) => Answered(id, n)'
<1>1. told[id] \in Seq(Replies)
  BY DEF ToldOK
<1>2. CASE id \notin T
  <2>1. told'[id] = told[id]
    BY <1>2 DEF Tells
  <2> QED BY <1>2, <2>1 DEF Own, Answered
<1>3. CASE id \in T
  <2> DEFINE new == Len(told[id]) + 1
  <2>1. told'[id] = Append(told[id], reply)
    BY <1>3 DEF Tells
  <2>2. /\ new \in Nat /\ DOMAIN told'[id] = DOMAIN told[id] \cup {new}
        /\ told'[id][new] = reply
        /\ \A i \in DOMAIN told[id] : i \in Nat /\ i < new /\ told'[id][i] = told[id][i]
    <3>1. /\ new \in Nat /\ DOMAIN told[id] = 1 .. Len(told[id]) /\ Len(told[id]) \in Nat
          /\ Len(Append(told[id], reply)) = new /\ Append(told[id], reply)[new] = reply
          /\ DOMAIN Append(told[id], reply) = 1 .. new
          /\ \A i \in 1 .. Len(told[id]) : Append(told[id], reply)[i] = told[id][i]
      BY <1>1
    <3> QED BY <2>1, <3>1
  <2> HIDE DEF new
  <2>3. Own(id)' = Own(id) \cup IF reply.type # "ResMessage" \/ reply.text[1] = id[2] THEN {new} ELSE {}
    BY <2>2 DEF Own
  <2>4. ASSUME NEW n, Answered(id, n) PROVE Answered(id, n)'
    <3>1. PICK i \in Own(id) : Number(told[id][i]) = n
      BY <2>4 DEF Answered
    <3>2. i \in Own(id)' /\ told'[id][i] = told[id][i]
      BY <2>2, <2>3 DEF Own
    <3> QED BY <3>1, <3>2 DEF Answered
  <2> QED BY <1>3, <2>2, <2>3, <2>4 DEF new
<1> QED BY <1>2, <1>3
-----------------------------------------------------------------------------
(* The steps of the clients *)

\* What was asked on a connection stays, and what is asked comes behind it.
LEMMA AskedGrows ==
  ASSUME ChatInvariant, NEW c \in Clients, NEW msg \in ClientMessages, AsksNext(c, msg)
  PROVE  LET k == sock[c]
         IN /\ k \in Connections /\ k \in 1 .. conns /\ k # 0 /\ Len(asked[k]) \in Nat
            /\ asked' = [asked EXCEPT ![k] = Append(asked[k], msg)]
            /\ Len(asked'[k]) = Len(asked[k]) + 1 /\ asked'[k][Len(asked[k]) + 1] = msg
            /\ \A n \in 1 .. Len(asked[k]) : asked'[k][n] = asked[k][n]
            /\ \A l \in Connections : l # k => asked'[l] = asked[l]
            /\ \A d \in Clients : d # c => sock[d] # k
            /\ UNCHANGED <<serverVars, sock, up, conns>>
<1> DEFINE k == sock[c]
<1>1. /\ k \in Connections /\ k \in 1 .. conns /\ k # 0
      /\ asked \in [Connections -> Seq(ClientMessages)]
      /\ \A d \in Clients : d # c => sock[d] # k
  BY SocketOfClient DEF ChatInvariant, AsksNext, ClientTypeOK, SocketsOK
<1>2. asked' = [asked EXCEPT ![k] = Append(asked[k], msg)] /\ UNCHANGED <<serverVars, sock, up, conns>>
  BY DEF AsksNext, Put
<1> HIDE DEF k
<1>3. asked'[k] = Append(asked[k], msg) /\ asked[k] \in Seq(ClientMessages)
  BY <1>1, <1>2
<1>4. /\ Len(asked'[k]) = Len(asked[k]) + 1 /\ asked'[k][Len(asked[k]) + 1] = msg /\ Len(asked[k]) \in Nat
      /\ \A n \in 1 .. Len(asked[k]) : asked'[k][n] = asked[k][n]
  BY <1>3
<1> QED BY <1>1, <1>2, <1>4 DEF k

\* The steps of clients change nothing at the server.
LEMMA ClientsLeaveServer ==
  ASSUME NEW c \in Clients, Client(c)
  PROVE  /\ UNCHANGED serverVars
         /\ UNCHANGED <<opened, closed, killed, told, characters, SectorList, JobQueue>>
  BY DEF Client, Connect, Hear, serverVars, callbackVars, worldVars

\* The queue and the answers stay as they are while clients ask.
LEMMA AskingFrame ==
  ASSUME ServerTypeOK, UNCHANGED serverVars, NEW k, NEW h \in Nat, NEW r \in Nat, h <= r, InStep(k, h, r),
         \A n \in 1 .. r : asked'[k][n] = asked[k][n], OnTheWay(k, r)'
  PROVE  InStep(k, h, r)'
<1>1. UNCHANGED <<opened, closed, killed, told, characters, JobQueue>>
  BY DEF serverVars, callbackVars, worldVars
<1>2. /\ InQueue(k, h, r) /\ AllQueued(k, h, r) /\ TextsHandled(k, h) /\ AnswersHandled(k, h) /\ AllAnswered(k, h)
      /\ ((\A id \in opened : id[2] # k) => r = 0)
  BY DEF InStep
<1>3. \A n \in 1 .. h : asked'[k][n] = asked[k][n]
  OBVIOUS
<1>4. InQueue(k, h, r)' /\ AllQueued(k, h, r)'
  <2>1. \A i \in Nat : Asks(JobQueue', i, k) <=> Asks(JobQueue, i, k)
    BY <1>1
  <2> QED BY <1>1, <1>2, <2>1, QueueFrame
<1>5. TextsHandled(k, h)' /\ AnswersHandled(k, h)' /\ AllAnswered(k, h)'
  <2>1. opened \subseteq SessionIDs
    BY DEF ServerTypeOK
  <2>2. \A id \in SessionIDs : Silent(id) => Silent(id)'
    BY <1>1 DEF Silent
  <2>3. \A id \in opened' \ (closed' \cup killed') : id[2] = k => id \in opened \ (closed \cup killed) /\ told'[id] = told[id]
    BY <1>1
  <2>4. \A id \in SessionIDs : told'[id] = told[id]
    BY <1>1
  <2> QED BY <1>2, <1>3, <2>1, <2>2, <2>3, <2>4, ToldFrame
<1> QED BY <1>1, <1>2, <1>4, <1>5 DEF InStep

\* Sequences that follow one another, as they grow and shrink.
LEMMA FollowsAppend ==
  ASSUME NEW q \in Seq(ClientMessages), NEW u \in Seq(ClientMessages), NEW r \in Nat, NEW msg \in ClientMessages,
         Follows(q, r, u)
  PROVE  /\ Follows(Append(q, msg), r, u)
         /\ Len(q) = r + Len(u) => Follows(Append(q, msg), r, Append(u, msg))
<1>1. /\ Len(q) \in Nat /\ Len(u) \in Nat
      /\ Len(Append(q, msg)) = Len(q) + 1 /\ Append(q, msg)[Len(q) + 1] = msg
      /\ \A i \in 1 .. Len(q) : Append(q, msg)[i] = q[i]
      /\ Len(Append(u, msg)) = Len(u) + 1 /\ Append(u, msg)[Len(u) + 1] = msg
      /\ \A i \in 1 .. Len(u) : Append(u, msg)[i] = u[i]
  OBVIOUS
<1> DEFINE q2 == Append(q, msg)
           u2 == Append(u, msg)
           m == Len(q)
           n == Len(u)
<1>2. r + n <= m /\ \A i \in 1 .. n : u[i] = q[r + i]
  BY DEF Follows
<1>3. Len(q2) = m + 1 /\ Len(u2) = n + 1
  BY <1>1
<1> HIDE DEF q2, u2, m, n
<1>4. \A i \in 1 .. n : u[i] = q2[r + i]
  <2>1. m \in Nat /\ n \in Nat
    BY <1>1 DEF m, n
  <2>2. \A i \in 1 .. n : r + i \in 1 .. m
    BY <1>2, <2>1
  <2>3. \A i \in 1 .. m : q2[i] = q[i]
    BY <1>1 DEF q2, m
  <2> QED BY <1>2, <2>2, <2>3
<1>5. Follows(q2, r, u)
  BY <1>1, <1>2, <1>3, <1>4 DEF Follows, m, n
<1>6. ASSUME m = r + n PROVE Follows(q2, r, u2)
  <2>1. \A i \in 1 .. n + 1 : i \in 1 .. n \/ i = n + 1
    BY <1>1 DEF n
  <2>2. r + (n + 1) = m + 1
    BY <1>1, <1>6 DEF m, n
  <2>3. u2[n + 1] = msg /\ q2[m + 1] = msg /\ \A i \in 1 .. n : u2[i] = u[i]
    BY <1>1 DEF u2, q2, m, n
  <2>4. \A i \in 1 .. Len(u2) : u2[i] = q2[r + i]
    BY <1>3, <1>4, <2>1, <2>2, <2>3
  <2>5. r + Len(u2) <= Len(q2)
    BY <1>1, <1>3, <1>6 DEF m, n
  <2> QED BY <2>4, <2>5 DEF Follows
<1> QED BY <1>5, <1>6 DEF q2, u2, m, n

\* Messages that follow each other in q do so together.
LEMMA FollowsConcat ==
  ASSUME NEW q \in Seq(ClientMessages), NEW u \in Seq(ClientMessages), NEW b \in Seq(ClientMessages), NEW r \in Nat,
         Follows(q, r, u), Follows(q, r + Len(u), b)
  PROVE  Follows(q, r, u \o b) /\ Len(u \o b) = Len(u) + Len(b)
<1>1. /\ Len(q) \in Nat /\ Len(u) \in Nat /\ Len(b) \in Nat /\ Len(u \o b) = Len(u) + Len(b)
      /\ \A i \in 1 .. Len(u) : (u \o b)[i] = u[i]
      /\ \A i \in 1 .. Len(u) + Len(b) : i > Len(u) => (u \o b)[i] = b[i - Len(u)]
  OBVIOUS
<1> DEFINE ub == u \o b
           m == Len(q)
           n == Len(u)
           l == Len(b)
<1>2. /\ r + n <= m /\ \A i \in 1 .. n : u[i] = q[r + i]
      /\ (r + n) + l <= m /\ \A i \in 1 .. l : b[i] = q[(r + n) + i]
  BY DEF Follows
<1>3. /\ m \in Nat /\ n \in Nat /\ l \in Nat /\ Len(ub) = n + l
      /\ \A i \in 1 .. n : ub[i] = u[i]
      /\ \A i \in 1 .. n + l : i > n => ub[i] = b[i - n]
  BY <1>1
<1> HIDE DEF ub, m, n, l
<1>4. ASSUME NEW i \in 1 .. n + l PROVE ub[i] = q[r + i]
  <2>1. CASE i \in 1 .. n
    BY <1>2, <1>3, <2>1
  <2>2. CASE i > n
    <3>1. i - n \in 1 .. l /\ (r + n) + (i - n) = r + i
      BY <1>3, <2>2
    <3> QED BY <1>2, <1>3, <2>2, <3>1
  <2> QED BY <1>3, <2>1, <2>2
<1>5. r + Len(ub) <= m
  BY <1>2, <1>3
<1> QED BY <1>3, <1>4, <1>5 DEF Follows, ub, m, n, l

\* The first of them is next in q, and the others follow it.
LEMMA FollowsTail ==
  ASSUME NEW q \in Seq(ClientMessages), NEW u \in Seq(ClientMessages), NEW r \in Nat, Follows(q, r, u), u # <<>>
  PROVE  /\ Follows(q, r + 1, Tail(u)) /\ q[r + 1] = Head(u) /\ r + 1 <= Len(q)
         /\ (r + 1) + Len(Tail(u)) = r + Len(u)
<1>1. /\ Len(q) \in Nat /\ Len(u) \in Nat /\ Len(u) >= 1 /\ Len(Tail(u)) = Len(u) - 1 /\ Head(u) = u[1]
      /\ \A i \in 1 .. Len(u) - 1 : Tail(u)[i] = u[i + 1]
  OBVIOUS
<1> DEFINE m == Len(q)
           n == Len(u)
           t == Tail(u)
<1>2. r + n <= m /\ \A i \in 1 .. n : u[i] = q[r + i]
  BY DEF Follows
<1>3. /\ m \in Nat /\ n \in Nat /\ n >= 1 /\ Len(t) = n - 1 /\ Head(u) = u[1]
      /\ \A i \in 1 .. n - 1 : t[i] = u[i + 1]
  BY <1>1
<1> HIDE DEF m, n, t
<1>4. ASSUME NEW i \in 1 .. n - 1 PROVE t[i] = q[(r + 1) + i]
  <2>1. i + 1 \in 1 .. n /\ r + (i + 1) = (r + 1) + i
    BY <1>3
  <2> QED BY <1>2, <1>3, <2>1
<1>5. (r + 1) + Len(t) <= m /\ r + 1 <= m /\ (r + 1) + Len(t) = r + n
  BY <1>2, <1>3
<1>6. q[r + 1] = Head(u)
  BY <1>2, <1>3
<1> QED BY <1>3, <1>4, <1>5, <1>6 DEF Follows, m, n, t

\* No messages follow anywhere.
LEMMA FollowsNone ==
  ASSUME NEW q \in Seq(ClientMessages), NEW r \in Nat, r <= Len(q)
  PROVE  Follows(q, r, <<>>)
<1>1. Len(<<>>) = 0 /\ Len(q) \in Nat /\ \A i \in 1 .. 0 : FALSE
  OBVIOUS
<1> QED BY <1>1 DEF Follows

\* The lengths of the parts, when one grows.
LEMMA Sums ==
  ASSUME NEW r \in Nat, NEW a \in Nat, NEW b \in Nat
  PROVE  (r + a + b) + 1 = r + a + (b + 1) /\ r + (a + b) + 0 = r + a + b /\ r <= (r + a + b) + 1
  OBVIOUS

\* A client asks: what it asks is in sendBuf.
LEMMA AsksInStep ==
  ASSUME ChatInvariant, NEW c \in Clients, NEW msg \in ClientMessages, AsksNext(c, msg),
         NEW k \in Connections, NEW h \in Nat, NEW r \in Nat, r <= Len(asked[k]), InStep(k, h, r)
  PROVE  InStep(k, h, r)' /\ r <= Len(asked'[k])
<1>1. /\ sock[c] \in Connections /\ UNCHANGED <<serverVars, sock, up, conns>>
      /\ \A d \in Clients : d # c => sock[d] # sock[c]
  BY AskedGrows
<1>2. /\ asked[k] \in Seq(ClientMessages) /\ up[k] \in Seq(ClientMessages) /\ Len(asked[k]) \in Nat
      /\ asked \in [Connections -> Seq(ClientMessages)] /\ Len(up[k]) \in Nat
  BY DEF ChatInvariant, ClientTypeOK
<1>3. h <= r /\ OnTheWay(k, r) /\ ServerTypeOK
  BY DEF InStep, ChatInvariant, ContentInvariant
<1>4. CASE k = sock[c]
  <2>1. asked'[k] = Append(asked[k], msg)
    BY <1>2, <1>4, AskedGrows
  <2>2. /\ sendBuf[c] \in Seq(ClientMessages) /\ sendBuf'[c] = Append(sendBuf[c], msg)
    BY PutTypes DEF ChatInvariant, ClientTypeOK, AsksNext
  <2>3. /\ Len(asked[k]) = r + Len(up[k]) + Len(sendBuf[c])
        /\ Follows(asked[k], r, up[k]) /\ Follows(asked[k], r + Len(up[k]), sendBuf[c])
    BY <1>3, <1>4 DEF OnTheWay
  <2>4. Follows(asked'[k], r, up[k]) /\ Follows(asked'[k], r + Len(up[k]), sendBuf'[c])
    <3>1. r + Len(up[k]) \in Nat
      BY <1>2
    <3> QED BY <1>2, <2>1, <2>2, <2>3, <3>1, FollowsAppend
  <2>5. Len(asked'[k]) = r + Len(up[k]) + Len(sendBuf'[c]) /\ r <= Len(asked'[k])
    <3>1. Len(asked'[k]) = Len(asked[k]) + 1 /\ Len(sendBuf'[c]) = Len(sendBuf[c]) + 1 /\ Len(sendBuf[c]) \in Nat
      BY <1>2, <2>1, <2>2
    <3>2. /\ (r + Len(up[k]) + Len(sendBuf[c])) + 1 = r + Len(up[k]) + (Len(sendBuf[c]) + 1)
          /\ r <= (r + Len(up[k]) + Len(sendBuf[c])) + 1
      BY <1>2, <3>1, Sums
    <3>3. r <= Len(asked'[k])
      BY ONLY <2>3, <3>1, <3>2, Zenon
    <3>4. Len(asked'[k]) = r + Len(up[k]) + (Len(sendBuf[c]) + 1)
      BY ONLY <2>3, <3>1, <3>2, Zenon
    <3> QED BY ONLY <3>1, <3>3, <3>4, Zenon
  <2>6. OnTheWay(k, r)'
    <3>1. up' = up /\ \A d \in Clients : sock'[d] = k => d = c
      BY <1>1, <1>4
    <3> QED BY <2>4, <2>5, <3>1 DEF OnTheWay
  <2>7. \A n \in 1 .. r : asked'[k][n] = asked[k][n]
    <3>1. \A n \in 1 .. r : n \in 1 .. Len(asked[k])
      BY <1>2
    <3> QED BY <1>4, <3>1, AskedGrows
  <2> QED BY <1>1, <1>3, <2>5, <2>6, <2>7, AskingFrame
<1>5. CASE k # sock[c]
  <2>1. asked'[k] = asked[k]
    BY <1>5, AskedGrows
  <2>2. \A d \in Clients : d # c => sendBuf'[d] = sendBuf[d]
    BY PutTypes DEF ChatInvariant, AsksNext
  <2>3. OnTheWay(k, r)'
    <3>1. \A d \in Clients : sock'[d] = k => sock[d] = k /\ sendBuf'[d] = sendBuf[d]
      BY <1>1, <1>5, <2>2
    <3>2. up'[k] = up[k]
      BY <1>1
    <3> QED BY <1>3, <2>1, <3>1, <3>2 DEF OnTheWay
  <2> QED BY <1>1, <1>3, <2>1, <2>3, AskingFrame
<1> QED BY <1>4, <1>5

\* A client sends what is in sendBuf, connects or finds its connection ended.
LEMMA SendsInStep ==
  ASSUME ChatInvariant, AnswerInvariant, NEW c \in Clients, UNCHANGED serverVars,
         \/ HandleSend(c)
         \/ Connect(c)
         \/ state[c] # "Disconnected" /\ MarkDisconnected(c),
         NEW k \in Connections, NEW h \in Nat, NEW r \in Nat, r <= Len(asked[k]), InStep(k, h, r)
  PROVE  InStep(k, h, r)' /\ asked' = asked
<1>1. /\ asked' = asked /\ h <= r /\ OnTheWay(k, r) /\ ServerTypeOK
      /\ asked[k] \in Seq(ClientMessages) /\ up[k] \in Seq(ClientMessages) /\ sendBuf[c] \in Seq(ClientMessages)
      /\ Len(asked[k]) \in Nat /\ up \in [Connections -> Seq(ClientMessages)]
      /\ sock \in [Clients -> 0 .. conns] /\ sendBuf \in [Clients -> Seq(ClientMessages)]
  BY DEF HandleSend, Connect, InitiateConnect, MarkDisconnected, InStep, ChatInvariant, ContentInvariant, ClientTypeOK
<1>2. ASSUME OnTheWay(k, r)' PROVE InStep(k, h, r)'
  BY <1>1, <1>2, AskingFrame
<1>3. CASE HandleSend(c)
  <2>1. /\ sock[c] \in Connections /\ sock' = sock
        /\ \A d \in Clients : d # c => sock[d] # sock[c]
        /\ up' = [up EXCEPT ![sock[c]] = up[sock[c]] \o sendBuf[c]]
        /\ sendBuf' = [sendBuf EXCEPT ![c] = <<>>]
    BY <1>3, SocketOfClient DEF ChatInvariant, HandleSend, SocketsOK
  <2>2. CASE k # sock[c]
    <3>1. up'[k] = up[k] /\ \A d \in Clients : sock[d] = k => sendBuf'[d] = sendBuf[d]
      BY <1>1, <2>1, <2>2
    <3>2. OnTheWay(k, r)'
      BY <1>1, <2>1, <3>1 DEF OnTheWay
    <3> QED BY <1>1, <1>2, <3>2
  <2>3. CASE k = sock[c]
    <3>1. up'[k] = up[k] \o sendBuf[c] /\ sendBuf'[c] = <<>>
      BY <1>1, <2>1, <2>3
    <3>2. /\ Len(asked[k]) = r + Len(up[k]) + Len(sendBuf[c])
          /\ Follows(asked[k], r, up[k]) /\ Follows(asked[k], r + Len(up[k]), sendBuf[c])
      BY <1>1, <2>3 DEF OnTheWay
    <3>3. Follows(asked[k], r, up'[k]) /\ Len(up'[k]) = Len(up[k]) + Len(sendBuf[c])
      BY <1>1, <3>1, <3>2, FollowsConcat
    <3>4. Len(asked[k]) = r + Len(up'[k]) + Len(sendBuf'[c])
      <4>1. Len(up[k]) \in Nat /\ Len(sendBuf[c]) \in Nat /\ Len(sendBuf'[c]) = 0
        BY <1>1, <3>1
      <4>2. r + (Len(up[k]) + Len(sendBuf[c])) + 0 = r + Len(up[k]) + Len(sendBuf[c])
        BY <4>1, Sums
      <4> QED BY ONLY <3>2, <3>3, <4>1, <4>2, Zenon
    <3>5. Follows(asked[k], r + Len(up'[k]), sendBuf'[c])
      <4>1. up'[k] \in Seq(ClientMessages) /\ Len(sendBuf'[c]) = 0
        BY <1>1, <3>1
      <4>2. r + Len(up'[k]) \in Nat /\ r + Len(up'[k]) <= Len(asked[k])
        BY <1>1, <3>4, <4>1
      <4> QED BY <1>1, <3>1, <4>2, FollowsNone
    <3>6. \A d \in Clients : sock'[d] = k => d = c
      BY <2>1, <2>3
    <3>7. OnTheWay(k, r)'
      BY <1>1, <3>3, <3>4, <3>5, <3>6 DEF OnTheWay
    <3> QED BY <1>1, <1>2, <3>7
  <2> QED BY <2>2, <2>3
<1>4. CASE Connect(c)
  <2>1. /\ sock' = [sock EXCEPT ![c] = conns + 1] /\ sendBuf' = [sendBuf EXCEPT ![c] = <<>>] /\ up' = up
        /\ conns \in Nat
    BY <1>4, ConnectionTypes DEF ChatInvariant, Connect, InitiateConnect, ResetSessionForReconnect
  <2>2. CASE k = conns + 1
    <3>1. up[k] = <<>> /\ asked[k] = <<>>
      BY <2>1, <2>2 DEF ChatInvariant, SocketsOK, AnswerInvariant, StagesOK
    <3>2. sendBuf'[c] = <<>>
      BY <1>1, <2>1
    <3>3. \A d \in Clients : sock'[d] = k => d = c
      <4>1. \A d \in Clients : sock[d] <= conns /\ sock[d] \in Int
        BY <1>1, <2>1
      <4>2. \A d \in Clients : sock[d] # k
        BY <2>1, <2>2, <4>1
      <4> QED BY <1>1, <2>1, <4>2
    <3>4. Len(up[k]) = 0 /\ Len(asked[k]) = 0 /\ Len(sendBuf'[c]) = 0
      BY <3>1, <3>2
    <3>5. r = 0 /\ r + Len(up[k]) = 0
      BY <3>4
    <3>6. Follows(asked[k], 0, up[k]) /\ Follows(asked[k], 0, sendBuf'[c])
      BY <1>1, <3>1, <3>2, <3>4, FollowsNone
    <3>7. OnTheWay(k, r)'
      BY <1>1, <2>1, <3>3, <3>4, <3>5, <3>6 DEF OnTheWay
    <3> QED BY <1>1, <1>2, <3>7
  <2>3. CASE k # conns + 1
    <3>1. \A d \in Clients : sock'[d] = k => sock[d] = k /\ sendBuf'[d] = sendBuf[d]
      BY <1>1, <2>1, <2>3
    <3>2. OnTheWay(k, r)'
      BY <1>1, <2>1, <3>1 DEF OnTheWay
    <3> QED BY <1>1, <1>2, <3>2
  <2> QED BY <2>2, <2>3
<1>5. CASE state[c] # "Disconnected" /\ MarkDisconnected(c)
  <2>1. \A d \in Clients : sock'[d] = k => sock[d] = k
    <3>1. sock' = [sock EXCEPT ![c] = 0] /\ k # 0
      BY <1>5 DEF MarkDisconnected, Connections
    <3> QED BY <1>1, <3>1
  <2>2. up' = up /\ sendBuf' = sendBuf
    BY <1>5 DEF MarkDisconnected
  <2>3. OnTheWay(k, r)'
    BY <1>1, <2>1, <2>2 DEF OnTheWay
  <2> QED BY <1>1, <1>2, <2>3
<1> QED BY <1>3, <1>4, <1>5

\* The order of requests and the stages of clients are kept by what clients do.
LEMMA ClientsKeepStages ==
  ASSUME ChatInvariant, AnswerInvariant, NEW c \in Clients, Client(c)
  PROVE  RequestsNumbered' /\ StagesOK'
<1>1. /\ RequestsNumbered /\ StagesOK /\ ToldOK /\ heard \in [Clients -> Nat]
      /\ ClientTypeOK /\ SocketsOK /\ UNCHANGED <<opened, closed, told>> /\ opened \subseteq SessionIDs
      /\ state \in [Clients -> {"Disconnected", "Connected", "LoginSent", "Active"}]
      /\ sock \in [Clients -> 0 .. conns] /\ conns \in Nat
      /\ asked \in [Connections -> Seq(ClientMessages)]
  BY ClientsLeaveServer, ConnectionTypes
     DEF ChatInvariant, ContentInvariant, ServerTypeOK, ClientTypeOK, AnswerInvariant, StagesOK
\* The stage of a client that does nothing.
<1>2. ASSUME NEW d \in Clients, state'[d] = state[d], heard'[d] = heard[d],
             state[d] # "Disconnected" => sock'[d] = sock[d] /\ asked'[sock[d]] = asked[sock[d]]
      PROVE  /\ state'[d] = "Connected" => Len(asked'[sock'[d]]) = 0
             /\ state'[d] = "LoginSent" => Len(asked'[sock'[d]]) = 1
             /\ state'[d] = "Active" =>
                  /\ Len(asked'[sock'[d]]) >= 2
                  /\ \E id \in opened' :
                       /\ id[2] = sock'[d]
                       /\ id \in closed' \/ \E i \in DOMAIN told'[id] : i <= heard'[d] /\ told'[id][i].type = "ResLogin"
  BY <1>1, <1>2 DEF StagesOK
<1>3. ASSUME NEW msg \in ClientMessages, AsksNext(c, msg) PROVE RequestsNumbered' /\ StagesOK'
  <2> DEFINE k == sock[c]
             m == Len(asked[k])
  <2>1. /\ k \in Connections /\ k \in 1 .. conns /\ m \in Nat
        /\ Len(asked'[k]) = m + 1 /\ asked'[k][m + 1] = msg
        /\ \A n \in 1 .. m : asked'[k][n] = asked[k][n]
        /\ \A l \in Connections : l # k => asked'[l] = asked[l]
        /\ \A d \in Clients : d # c => sock[d] # k
        /\ UNCHANGED <<sock, conns>>
    BY <1>3, AskedGrows
  <2>2. /\ msg.type = "ReqLogin" <=> m + 1 = 1
        /\ msg.type = "ReqSectorMove" <=> m + 1 = 2
        /\ msg.type = "ReqMessage" => msg.text = <<k, (m + 1) - 2>>
        /\ state'[c] = IF m + 1 = 1 THEN "LoginSent" ELSE "Active"
        /\ m + 1 <= 2 => (m + 1 = 2 <=> state[c] = "LoginSent")
    BY <1>3, AskedNumber
  <2>3. RequestsNumbered'
    <3> SUFFICES ASSUME NEW l \in Connections, NEW n \in DOMAIN asked'[l]
                 PROVE  /\ asked'[l][n].type = "ReqLogin" <=> n = 1
                        /\ asked'[l][n].type = "ReqSectorMove" <=> n = 2
                        /\ asked'[l][n].type = "ReqMessage" => asked'[l][n].text = <<l, n - 2>>
      BY DEF RequestsNumbered
    <3>1. CASE l # k
      BY <1>1, <2>1, <3>1 DEF RequestsNumbered
    <3>2. CASE l = k
      <4>1. asked'[k] \in Seq(ClientMessages)
        BY <1>3, PutTypes, <1>1, <2>1 DEF AsksNext
      <4>2. DOMAIN asked'[k] = 1 .. m + 1 /\ DOMAIN asked[k] = 1 .. m
        BY <1>1, <2>1, <4>1
      <4>3. n = m + 1 \/ n \in 1 .. m
        BY <2>1, <3>2, <4>2
      <4> HIDE DEF m
      <4>4. CASE n = m + 1
        <5>1. asked'[l][n] = msg
          BY <2>1, <3>2, <4>4
        <5> QED BY <2>2, <3>2, <4>4, <5>1
      <4>5. CASE n \in 1 .. m
        <5>1. asked'[l][n] = asked[k][n] /\ n \in DOMAIN asked[k]
          BY <2>1, <3>2, <4>2, <4>5
        <5>2. /\ asked[k][n].type = "ReqLogin" <=> n = 1
              /\ asked[k][n].type = "ReqSectorMove" <=> n = 2
              /\ asked[k][n].type = "ReqMessage" => asked[k][n].text = <<k, n - 2>>
          BY <1>1, <2>1, <5>1, Zenon DEF RequestsNumbered
        <5> QED BY <3>2, <5>1, <5>2
      <4> QED BY <4>3, <4>4, <4>5
    <3> QED BY <3>1, <3>2
  <2>4. ASSUME NEW d \in Clients, d # c
        PROVE state'[d] = state[d] /\ heard'[d] = heard[d] /\ (state[d] # "Disconnected" => asked'[sock[d]] = asked[sock[d]])
    <3>1. state[d] # "Disconnected" => sock[d] \in Connections
      BY <1>1, SocketOfClient
    <3>2. state'[d] = state[d] /\ heard'[d] = heard[d]
      BY <1>1, <1>3, <2>4 DEF AsksNext
    <3> QED BY <2>1, <2>4, <3>1, <3>2
  <2>5. heard' \in [Clients -> Nat]
    <3>1. CASE heard' = heard
      BY <1>1, <3>1
    <3>2. ASSUME NEW id \in opened, NEW i \in heard[c] + 1 .. Len(told[id]), heard' = [heard EXCEPT ![c] = i]
          PROVE  heard' \in [Clients -> Nat]
      <4>1. i \in Nat
        <5>1. heard[c] \in Nat /\ told[id] \in Seq(Replies)
          BY <1>1 DEF ToldOK
        <5> QED BY <5>1
      <4> QED BY <1>1, <3>2, <4>1
    <3> QED BY <1>3, <3>1, <3>2 DEF AsksNext
  <2>6. ASSUME NEW l \in Connections, l > conns' PROVE asked'[l] = <<>>
    BY <1>1, <2>1, <2>6 DEF StagesOK
  <2>7. /\ state'[c] = "Connected" => Len(asked'[k]) = 0
        /\ state'[c] = "LoginSent" => Len(asked'[k]) = 1
        /\ state'[c] = "Active" => Len(asked'[k]) >= 2
    BY <2>1, <2>2
  <2>8. ASSUME state'[c] = "Active"
        PROVE  \E id \in opened' :
                 /\ id[2] = k
                 /\ id \in closed' \/ \E i \in DOMAIN told'[id] : i <= heard'[c] /\ told'[id][i].type = "ResLogin"
    <3>1. CASE state[c] = "Active" /\ heard' = heard
      BY <1>1, <3>1 DEF StagesOK
    <3>2. CASE msg.type = "ReqSectorMove"
      <4>1. PICK id \in opened : \E i \in heard[c] + 1 .. Len(told[id]) :
              id[2] = k /\ told[id][i].type = "ResLogin" /\ heard' = [heard EXCEPT ![c] = i]
        BY <1>3, <3>2 DEF AsksNext
      <4>2. PICK i \in heard[c] + 1 .. Len(told[id]) :
              id[2] = k /\ told[id][i].type = "ResLogin" /\ heard' = [heard EXCEPT ![c] = i]
        BY <4>1
      <4>3. heard[c] \in Nat /\ told[id] \in Seq(Replies) /\ heard'[c] = i
        BY <1>1, <4>2 DEF ToldOK
      <4>4. i \in DOMAIN told[id] /\ i <= heard'[c]
        BY <4>3
      <4> QED BY <1>1, <4>2, <4>4
    <3>3. CASE msg.type = "ReqLogin"
      <4>1. state' = [state EXCEPT ![c] = "LoginSent"]
        BY <1>3, <3>3 DEF AsksNext
      <4> QED BY <1>1, <2>8, <4>1
    <3> QED BY <1>3, <3>1, <3>2, <3>3 DEF AsksNext
  <2>9. ASSUME NEW d \in Clients
        PROVE  /\ state'[d] = "Connected" => Len(asked'[sock'[d]]) = 0
               /\ state'[d] = "LoginSent" => Len(asked'[sock'[d]]) = 1
               /\ state'[d] = "Active" =>
                    /\ Len(asked'[sock'[d]]) >= 2
                    /\ \E id \in opened' :
                         /\ id[2] = sock'[d]
                         /\ id \in closed' \/ \E i \in DOMAIN told'[id] : i <= heard'[d] /\ told'[id][i].type = "ResLogin"
    <3>1. CASE d # c
      <4>1. sock'[d] = sock[d]
        BY <2>1
      <4> QED BY <1>2, <2>4, <3>1, <4>1
    <3>2. CASE d = c
      BY <2>1, <2>7, <2>8, <3>2
    <3> QED BY <3>1, <3>2
  <2> HIDE DEF k, m
  <2> QED BY <2>3, <2>5, <2>6, <2>9 DEF StagesOK
<1>4. CASE Connect(c)
  <2>1. /\ conns' = conns + 1 /\ sock' = [sock EXCEPT ![c] = conns + 1] /\ state' = [state EXCEPT ![c] = "Connected"]
        /\ asked' = asked /\ heard' = [heard EXCEPT ![c] = 0] /\ conns < MaxConnections
    BY <1>4 DEF Connect, InitiateConnect
  <2>2. RequestsNumbered'
    BY <1>1, <2>1 DEF RequestsNumbered
  <2>3. conns + 1 \in Connections /\ asked[conns + 1] = <<>>
    <3>1. conns + 1 \in Connections
      BY <1>1, <2>1, ConnectionAssumption DEF Connections
    <3> QED BY <1>1, <3>1 DEF StagesOK
  <2>4. heard' \in [Clients -> Nat]
    BY <1>1, <2>1
  <2>5. ASSUME NEW l \in Connections, l > conns' PROVE asked'[l] = <<>>
    <3>1. l > conns
      BY <1>1, <2>1, <2>5 DEF Connections
    <3> QED BY <1>1, <2>1, <3>1 DEF StagesOK
  <2>6. state'[c] = "Connected" /\ Len(asked'[sock'[c]]) = 0
    BY <1>1, <2>1, <2>3
  <2>7. ASSUME NEW d \in Clients, d # c
        PROVE  state'[d] = state[d] /\ heard'[d] = heard[d] /\ sock'[d] = sock[d] /\ asked'[sock[d]] = asked[sock[d]]
    BY <1>1, <2>1, <2>7
  <2>8. ASSUME NEW d \in Clients
        PROVE  /\ state'[d] = "Connected" => Len(asked'[sock'[d]]) = 0
               /\ state'[d] = "LoginSent" => Len(asked'[sock'[d]]) = 1
               /\ state'[d] = "Active" =>
                    /\ Len(asked'[sock'[d]]) >= 2
                    /\ \E id \in opened' :
                         /\ id[2] = sock'[d]
                         /\ id \in closed' \/ \E i \in DOMAIN told'[id] : i <= heard'[d] /\ told'[id][i].type = "ResLogin"
    <3>1. CASE d # c
      BY <1>2, <2>7, <3>1
    <3>2. CASE d = c
      BY <2>6, <3>2
    <3> QED BY <3>1, <3>2
  <2> QED BY <2>2, <2>4, <2>5, <2>8 DEF StagesOK
<1>5. CASE (HandleSend(c) \/ (state[c] # "Disconnected" /\ MarkDisconnected(c))) /\ UNCHANGED <<serverVars, networkVars>>
  <2>1. asked' = asked /\ conns' = conns /\ heard' = heard
    BY <1>5 DEF HandleSend, MarkDisconnected, networkVars
  <2>2. \A d \in Clients : state'[d] = "Disconnected" \/ (state'[d] = state[d] /\ sock'[d] = sock[d])
    BY <1>1, <1>5 DEF HandleSend, MarkDisconnected
  <2>3. RequestsNumbered'
    BY <1>1, <2>1 DEF RequestsNumbered
  <2>4. StagesOK'
    <3>1. ASSUME NEW d \in Clients
          PROVE  /\ state'[d] = "Connected" => Len(asked'[sock'[d]]) = 0
                 /\ state'[d] = "LoginSent" => Len(asked'[sock'[d]]) = 1
                 /\ state'[d] = "Active" =>
                      /\ Len(asked'[sock'[d]]) >= 2
                      /\ \E id \in opened' :
                           /\ id[2] = sock'[d]
                           /\ id \in closed' \/ \E i \in DOMAIN told'[id] : i <= heard'[d] /\ told'[id][i].type = "ResLogin"
      <4>1. CASE state'[d] = "Disconnected"
        BY <4>1
      <4>2. CASE state'[d] = state[d] /\ sock'[d] = sock[d]
        BY <1>2, <2>1, <4>2
      <4> QED BY <2>2, <4>1, <4>2
    <3>2. heard' \in [Clients -> Nat] /\ \A l \in Connections : l > conns' => asked'[l] = <<>>
      BY <1>1, <2>1 DEF StagesOK
    <3> QED BY <3>1, <3>2, Zenon DEF StagesOK
  <2> QED BY <2>3, <2>4
<1> QED BY <1>1, <1>3, <1>4, <1>5, AskingSteps

\* Each step of a client keeps the invariant.
LEMMA ClientsKeepAnswers ==
  ASSUME ChatInvariant, AnswerInvariant, NEW c \in Clients, Client(c)
  PROVE  AnswerInvariant'
<1>1. /\ UNCHANGED <<opened, closed, told, characters>> /\ UNCHANGED serverVars
      /\ PlacedInGrid /\ ToldOK
  BY ClientsLeaveServer DEF AnswerInvariant
<1>2. RequestsNumbered' /\ StagesOK'
  BY ClientsKeepStages
<1>3. PlacedInGrid' /\ ToldOK'
  BY <1>1 DEF PlacedInGrid, ToldOK
<1>4. ASSUME NEW k \in Connections PROVE \E h, r \in 0 .. Len(asked'[k]) : InStep(k, h, r)'
  <2>1. PICK h \in 0 .. Len(asked[k]), r \in 0 .. Len(asked[k]) : InStep(k, h, r)
    BY DEF AnswerInvariant
  <2>2. Len(asked[k]) \in Nat /\ h <= r /\ ClientTypeOK /\ SocketsOK
    BY <2>1 DEF ChatInvariant, ClientTypeOK, InStep
  <2>3. h \in Nat /\ r \in Nat /\ r <= Len(asked[k])
    BY <2>2
  <2>4. InStep(k, h, r)' /\ r <= Len(asked'[k])
    BY <1>1, <2>1, <2>2, <2>3, AskingSteps, AsksInStep, SendsInStep
  <2>5. Len(asked'[k]) \in Nat
    BY ClientTypesKept, <2>2 DEF ClientTypeOK, Next, ChatInvariant
  <2>6. h \in 0 .. Len(asked'[k]) /\ r \in 0 .. Len(asked'[k])
    BY <2>2, <2>3, <2>4, <2>5
  <2> QED BY <2>4, <2>6
<1> QED BY <1>2, <1>3, <1>4 DEF AnswerInvariant
-----------------------------------------------------------------------------
(* The callbacks *)

\* The stages of clients do not depend on what else the server does.
LEMMA StagesStay ==
  ASSUME StagesOK, UNCHANGED <<conns, state, sock, asked, heard>>, opened \subseteq opened', closed \subseteq closed',
         \A id \in opened : id \in closed' \/ \A i \in DOMAIN told[id] : i \in DOMAIN told'[id] /\ told'[id][i] = told[id][i]
  PROVE  StagesOK'
<1>1. ASSUME NEW c \in Clients, state[c] = "Active"
      PROVE  \E id \in opened' :
               /\ id[2] = sock[c]
               /\ id \in closed' \/ \E i \in DOMAIN told'[id] : i <= heard[c] /\ told'[id][i].type = "ResLogin"
  <2>1. PICK id \in opened :
          /\ id[2] = sock[c]
          /\ id \in closed \/ \E i \in DOMAIN told[id] : i <= heard[c] /\ told[id][i].type = "ResLogin"
    BY <1>1 DEF StagesOK
  <2> QED BY <2>1
<1> QED BY <1>1 DEF StagesOK

\* Where requests are once another job is put behind the others.
LEMMA AppendAsks ==
  ASSUME JobQueue \in Seq(Jobs), NEW job \in Jobs, EnqueueJob(job), NEW k
  PROVE  LET n == Len(JobQueue) + 1
         IN /\ n \in Nat /\ JobQueue'[n] = job
            /\ \A i \in Nat : Asks(JobQueue', i, k) <=>
                 Asks(JobQueue, i, k) \/ (i = n /\ job.type = "message" /\ job.session[2] = k /\ HasAnswer(job.packet))
            /\ \A i \in Nat : Asks(JobQueue, i, k) => i < n /\ JobQueue'[i] = JobQueue[i]
<1> DEFINE n == Len(JobQueue) + 1
<1>1. JobQueue' = Append(JobQueue, job)
  BY DEF EnqueueJob
<1>2. /\ n \in Nat /\ JobQueue'[n] = job /\ Len(JobQueue') = n /\ Len(JobQueue) \in Nat
      /\ \A i \in 1 .. Len(JobQueue) : JobQueue'[i] = JobQueue[i]
  BY <1>1
<1>3. ASSUME NEW i \in Nat
      PROVE  /\ i \in 1 .. n <=> i \in 1 .. Len(JobQueue) \/ i = n
             /\ i \in 1 .. Len(JobQueue) => i < n
  BY <1>2
<1> HIDE DEF n
<1> QED BY <1>2, <1>3 DEF Asks, AskedAt, n

\* The steps that neither ask, receive nor answer anything for connection k.
LEMMA OtherInStep ==
  ASSUME ChatInvariant, NEW k \in Connections, NEW h \in Nat, NEW r \in Nat, InStep(k, h, r),
         UNCHANGED <<asked, sendBuf, sock, characters>>, up'[k] = up[k],
         \/ JobQueue' = JobQueue
         \/ \E job \in Jobs : EnqueueJob(job) /\ (job.type = "message" => job.session[2] # k),
         opened \subseteq opened', killed \subseteq killed',
         \A id \in SessionIDs : told'[id] = told[id] \/ told'[id] = <<>>,
         \A id \in opened' \ closed' : id[2] = k =>
           \/ id \in opened \ closed /\ told'[id] = told[id]
           \/ \A d \in opened : d[2] # k
  PROVE  InStep(k, h, r)'
<1>1. /\ h <= r /\ OnTheWay(k, r) /\ InQueue(k, h, r) /\ AllQueued(k, h, r)
      /\ TextsHandled(k, h) /\ AnswersHandled(k, h) /\ AllAnswered(k, h)
      /\ ((\A id \in opened : id[2] # k) => r = 0)
  BY DEF InStep
<1>2. JobQueue \in Seq(Jobs) /\ opened \subseteq SessionIDs
  BY DEF ChatInvariant, ContentInvariant, ServerTypeOK
<1>3. OnTheWay(k, r)' /\ ((\A id \in opened' : id[2] # k) => r = 0)
  BY <1>1 DEF OnTheWay
<1>4. /\ \A i \in Nat : Asks(JobQueue', i, k) <=> Asks(JobQueue, i, k)
      /\ \A i \in Nat : Asks(JobQueue, i, k) => JobQueue'[i] = JobQueue[i]
  BY <1>2, AppendAsks
<1>5. r = 0 => h = 0
  BY <1>1
<1>6. r = 0 \/ \A id \in opened' \ closed' : id[2] = k => id \in opened \ closed /\ told'[id] = told[id]
  BY <1>1
<1>7. InQueue(k, h, r)' /\ AllQueued(k, h, r)'
  BY <1>1, <1>4, <1>6, QueueFrame
<1>8. \A id \in SessionIDs : Silent(id) => Silent(id)'
  BY DEF Silent
<1>9. h = 0 \/ \A id \in opened' \ (closed' \cup killed') : id[2] = k =>
                 id \in opened \ (closed \cup killed) /\ told'[id] = told[id]
  BY <1>5, <1>6
<1>10. TextsHandled(k, h)' /\ AnswersHandled(k, h)' /\ AllAnswered(k, h)'
  BY <1>1, <1>2, <1>8, <1>9, ToldFrame
<1> QED BY <1>1, <1>3, <1>7, <1>10 DEF InStep

\* A worker receives what is next on a connection: it is in the queue.
LEMMA ReceivedInStep ==
  ASSUME ChatInvariant, AnswerInvariant, NEW id \in SessionIDs, Receive(id), NEW h \in Nat, NEW r \in Nat,
         InStep(id[2], h, r)
  PROVE  InStep(id[2], h, r + 1)' /\ r + 1 <= Len(asked[id[2]])
<1>0. PICK k : k = id[2]
  OBVIOUS
<1>1. /\ k \in Connections /\ up[k] # <<>> /\ up[k] \in Seq(ClientMessages) /\ up \in [Connections -> Seq(ClientMessages)]
      /\ asked[k] \in Seq(ClientMessages) /\ Len(asked[k]) \in Nat /\ up'[k] = Tail(up[k])
      /\ UNCHANGED <<asked, sendBuf, sock, characters, opened, closed, killed, told>>
      /\ EnqueueJob(MessageJob(id, Head(up[k]))) /\ JobQueue \in Seq(Jobs) /\ MessageJob(id, Head(up[k])) \in Jobs
      /\ opened \subseteq SessionIDs /\ ClientTypeOK
  <2>1. id \in opened
    BY DEF Receive, OnRecv, Net!RecvBegin
  <2>2. /\ k \in Connections /\ up[k] # <<>> /\ up[k] \in Seq(ClientMessages) /\ up \in [Connections -> Seq(ClientMessages)]
        /\ asked[k] \in Seq(ClientMessages) /\ ClientTypeOK /\ opened \subseteq SessionIDs /\ JobQueue \in Seq(Jobs)
    BY <1>0, <2>1, ConnectionTypes DEF Receive, ChatInvariant, ClientTypeOK, ContentInvariant, ServerTypeOK
  <2>3. Head(up[k]) \in Messages
    BY <2>2, MessageAssumption
  <2>4. MessageJob(id, Head(up[k])) \in Jobs
    BY <2>3 DEF MessageJob, Jobs
  <2>5. up'[k] = Tail(up[k])
    BY <1>0, <2>2 DEF Receive
  <2>6. UNCHANGED <<asked, sendBuf, sock, characters, opened, closed, killed, told>>
        /\ EnqueueJob(MessageJob(id, Head(up[k])))
    BY <1>0 DEF Receive, OnRecv, Net!RecvBegin, worldVars
  <2> QED BY <2>2, <2>4, <2>5, <2>6
<1>2. /\ InStep(k, h, r) /\ h <= r /\ OnTheWay(k, r) /\ InQueue(k, h, r) /\ AllQueued(k, h, r)
      /\ TextsHandled(k, h) /\ AnswersHandled(k, h) /\ AllAnswered(k, h)
  BY <1>0 DEF InStep
<1>3. PICK msg : msg = Head(up[k])
  OBVIOUS
<1>4. PICK n : n = Len(JobQueue) + 1
  OBVIOUS
<1>5. /\ asked[k][r + 1] = msg /\ r + 1 <= Len(asked[k]) /\ Follows(asked[k], r + 1, up'[k])
      /\ (r + 1) + Len(up'[k]) = r + Len(up[k])
  <2>1. Follows(asked[k], r, up[k])
    BY <1>2 DEF OnTheWay
  <2> QED BY <1>1, <1>3, <2>1, FollowsTail
<1>6. OnTheWay(k, r + 1)'
  <2>1. \A c \in Clients : sock[c] = k =>
          Len(asked[k]) = r + Len(up[k]) + Len(sendBuf[c]) /\ Follows(asked[k], r + Len(up[k]), sendBuf[c])
    BY <1>2 DEF OnTheWay
  <2> QED BY <1>1, <1>5, <2>1 DEF OnTheWay
<1>7. /\ n \in Nat /\ JobQueue'[n] = MessageJob(id, msg)
      /\ \A i \in Nat : Asks(JobQueue', i, k) <=> Asks(JobQueue, i, k) \/ (i = n /\ HasAnswer(msg))
      /\ \A i \in Nat : Asks(JobQueue, i, k) => i < n /\ JobQueue'[i] = JobQueue[i]
  <2>1. /\ MessageJob(id, msg).type = "message" /\ MessageJob(id, msg).session = id
        /\ MessageJob(id, msg).packet = msg
    BY DEF MessageJob
  <2>2. PICK job \in Jobs : job = MessageJob(id, msg) /\ EnqueueJob(job)
    BY <1>1, <1>3
  <2>3. job.type = "message" /\ job.session[2] = k /\ job.packet = msg
    BY <1>0, <2>1, <2>2
  <2>4. /\ n \in Nat /\ JobQueue'[n] = job
        /\ \A i \in Nat : Asks(JobQueue', i, k) <=>
             Asks(JobQueue, i, k) \/ (i = n /\ job.type = "message" /\ job.session[2] = k /\ HasAnswer(job.packet))
        /\ \A i \in Nat : Asks(JobQueue, i, k) => i < n /\ JobQueue'[i] = JobQueue[i]
    <3>1. JobQueue \in Seq(Jobs) /\ EnqueueJob(job)
      BY <1>1, <2>2
    <3> QED BY ONLY <1>4, <3>1, job \in Jobs, AppendAsks, Zenon
  <2> QED BY <2>2, <2>3, <2>4
<1>8. HasAnswer(msg) => NumberAt(JobQueue', n) = r + 1 /\ JobQueue'[n].packet = msg
  <2>1. r + 1 \in DOMAIN asked[k]
    BY <1>1, <1>5
  <2>2. HasAnswer(msg) => Number(msg) = r + 1
    BY <1>1, <1>5, <2>1, RequestNumber DEF AnswerInvariant
  <2>3. JobQueue'[n].packet = msg
    BY <1>7 DEF MessageJob
  <2> QED BY <2>2, <2>3 DEF NumberAt
<1>9. \A i \in Nat : Asks(JobQueue, i, k) => NumberAt(JobQueue', i) = NumberAt(JobQueue, i)
  BY <1>7 DEF NumberAt
<1>10. ASSUME NEW i \in Nat, Asks(JobQueue, i, k)
       PROVE  /\ NumberAt(JobQueue, i) \in h + 1 .. r
              /\ JobQueue[i].packet = asked[k][NumberAt(JobQueue, i)]
              /\ \A j \in Nat : i < j /\ Asks(JobQueue, j, k) => NumberAt(JobQueue, i) < NumberAt(JobQueue, j)
  BY <1>2, <1>10, Zenon DEF InQueue
<1>11. InQueue(k, h, r + 1)'
  <2> SUFFICES ASSUME NEW i \in Nat, Asks(JobQueue', i, k)
               PROVE  /\ NumberAt(JobQueue', i) \in h + 1 .. r + 1
                      /\ JobQueue'[i].packet = asked'[k][NumberAt(JobQueue', i)]
                      /\ \A j \in Nat : i < j /\ Asks(JobQueue', j, k) => NumberAt(JobQueue', i) < NumberAt(JobQueue', j)
    BY Zenon DEF InQueue
  <2>1. CASE Asks(JobQueue, i, k)
    <3>1. NumberAt(JobQueue', i) \in h + 1 .. r /\ JobQueue'[i].packet = asked[k][NumberAt(JobQueue', i)]
      BY <1>7, <1>9, <1>10, <2>1
    <3>2. ASSUME NEW j \in Nat, i < j, Asks(JobQueue', j, k) PROVE NumberAt(JobQueue', i) < NumberAt(JobQueue', j)
      <4>1. CASE Asks(JobQueue, j, k)
        BY <1>9, <1>10, <2>1, <3>2, <4>1
      <4>2. CASE j = n /\ HasAnswer(msg)
        BY <1>8, <3>1, <4>2
      <4> QED BY <1>7, <3>2, <4>1, <4>2
    <3> QED BY <1>1, <3>1, <3>2
  <2>2. CASE i = n /\ HasAnswer(msg)
    <3>1. \A j \in Nat : Asks(JobQueue', j, k) => ~ (i < j)
      BY <1>7, <2>2
    <3>2. r + 1 \in h + 1 .. r + 1
      BY <1>2
    <3> QED BY <1>1, <1>5, <1>8, <2>2, <3>1, <3>2
  <2> QED BY <1>7, <2>1, <2>2
<1>12. AllQueued(k, h, r + 1)'
  <2> SUFFICES ASSUME NEW d \in opened' \ closed', d[2] = k, NEW m \in h + 1 .. r + 1, HasAnswer(asked'[k][m])
               PROVE  \E i \in Nat : Asks(JobQueue', i, k) /\ NumberAt(JobQueue', i) = m
    BY Zenon DEF AllQueued
  <2>1. CASE m = r + 1
    BY <1>1, <1>5, <1>7, <1>8, <2>1
  <2>2. CASE m # r + 1
    <3>1. m \in h + 1 .. r
      BY <2>2
    <3>2. PICK i \in Nat : Asks(JobQueue, i, k) /\ NumberAt(JobQueue, i) = m
      BY <1>1, <1>2, <3>1 DEF AllQueued
    <3> QED BY <1>7, <1>9, <3>2
  <2> QED BY <2>1, <2>2
<1>13. TextsHandled(k, h)' /\ AnswersHandled(k, h)' /\ AllAnswered(k, h)'
  <2>1. \A d \in SessionIDs : Silent(d) => Silent(d)'
    BY <1>1 DEF Silent
  <2> QED BY <1>1, <1>2, <2>1, ToldFrame
<1>14. ~ \A d \in opened' : d[2] # k
  BY <1>0, <1>1 DEF Receive, OnRecv, Net!RecvBegin
<1> QED BY <1>0, <1>2, <1>5, <1>6, <1>11, <1>12, <1>13, <1>14 DEF InStep

\* A worker's step keeps the invariant.
LEMMA ReceiveKeepsAnswers ==
  ASSUME ChatInvariant, AnswerInvariant, NEW id \in SessionIDs, Receive(id)
  PROVE  AnswerInvariant'
<1>1. /\ UNCHANGED <<asked, sendBuf, sock, state, heard, conns, characters, opened, closed, killed, told>>
      /\ up' = [up EXCEPT ![id[2]] = Tail(@)] /\ id \in opened /\ \E msg : EnqueueJob(MessageJob(id, msg))
      /\ up[id[2]] # <<>>
  BY DEF Receive, OnRecv, Net!RecvBegin, worldVars, networkVars
<1>2. id[2] \in Connections /\ up \in [Connections -> Seq(ClientMessages)] /\ up[id[2]] \in Seq(ClientMessages)
  BY <1>1, ConnectionTypes DEF ChatInvariant, ClientTypeOK
<1>3. RequestsNumbered' /\ PlacedInGrid' /\ ToldOK'
  BY <1>1 DEF AnswerInvariant, RequestsNumbered, PlacedInGrid, ToldOK
<1>4. StagesOK'
  BY <1>1, StagesStay DEF AnswerInvariant
<1>5. ASSUME NEW k \in Connections PROVE \E h, r \in 0 .. Len(asked'[k]) : InStep(k, h, r)'
  <2>1. PICK h \in 0 .. Len(asked[k]), r \in 0 .. Len(asked[k]) : InStep(k, h, r)
    BY DEF AnswerInvariant
  <2>2. Len(asked[k]) \in Nat
    BY DEF ChatInvariant, ClientTypeOK
  <2>3. h \in Nat /\ r \in Nat
    BY <2>2
  <2>4. CASE k = id[2]
    <3>1. InStep(k, h, r + 1)' /\ r + 1 <= Len(asked[k])
      BY <2>1, <2>3, <2>4, ReceivedInStep
    <3>2. r + 1 \in 0 .. Len(asked[k])
      BY <2>2, <2>3, <3>1
    <3> QED BY <1>1, <3>1, <3>2
  <2>5. CASE k # id[2]
    <3>1. up'[k] = up[k]
      BY <1>1, <1>2, <2>5
    <3>2. \E job \in Jobs : EnqueueJob(job) /\ (job.type = "message" => job.session[2] # k)
      <4>1. Head(up[id[2]]) \in Messages /\ EnqueueJob(MessageJob(id, Head(up[id[2]])))
        BY <1>1, <1>2, MessageAssumption DEF Receive, OnRecv
      <4>2. MessageJob(id, Head(up[id[2]])) \in Jobs /\ MessageJob(id, Head(up[id[2]])).session[2] # k
        BY <2>5, <4>1 DEF MessageJob, Jobs
      <4> QED BY <4>1, <4>2
    <3>3. InStep(k, h, r)'
      BY <1>1, <2>1, <2>3, <3>1, <3>2, OtherInStep
    <3> QED BY <1>1, <3>3
  <2> QED BY <2>4, <2>5
<1> QED BY <1>3, <1>4, <1>5 DEF AnswerInvariant

\* The steps that neither ask, receive nor answer anything.
LEMMA OthersKeepAnswers ==
  ASSUME ChatInvariant, AnswerInvariant, ServerTypeOK',
         UNCHANGED <<clientVars, heard, characters>>,
         JobQueue' = JobQueue \/ \E job \in Jobs : EnqueueJob(job) /\ job.type # "message",
         opened \subseteq opened', closed \subseteq closed', killed \subseteq killed',
         told' = [id \in SessionIDs |-> IF id \in closed' THEN <<>> ELSE told[id]],
         \A id \in opened' : id \in opened \/ \A d \in opened : d[2] # id[2]
  PROVE  AnswerInvariant'
<1>1. UNCHANGED <<asked, sendBuf, sock, state, heard, conns, up, characters>>
  BY DEF clientVars
<1>2. /\ ToldOK /\ opened \subseteq SessionIDs /\ opened' \subseteq SessionIDs
      /\ told \in [SessionIDs -> Seq(Replies)] /\ closed \subseteq opened /\ StagesOK
  BY DEF AnswerInvariant, ChatInvariant, ContentInvariant, ServerTypeOK, ToldOK
<1>3. RequestsNumbered' /\ PlacedInGrid'
  BY <1>1 DEF AnswerInvariant, RequestsNumbered, PlacedInGrid
<1>4. ToldOK'
  <2>1. told' \in [SessionIDs -> Seq(Replies)]
    BY <1>2
  <2>2. ASSUME NEW id \in SessionIDs, told'[id] # <<>> PROVE id \in opened' \ closed' /\ told'[id] = told[id]
    BY <1>2, <2>2 DEF ToldOK
  <2>3. ASSUME NEW id \in SessionIDs, NEW i \in DOMAIN told'[id], told'[id][i].type = "ResMessage"
        PROVE  told'[id][i].text[1] \in Connections
    <3>1. told'[id] # <<>>
      BY <2>3
    <3> QED BY <1>2, <2>2, <2>3, <3>1 DEF ToldOK
  <2> QED BY <2>1, <2>2, <2>3 DEF ToldOK
<1>5. StagesOK'
  BY <1>1, <1>2, StagesStay
<1>6. ASSUME NEW k \in Connections PROVE \E h, r \in 0 .. Len(asked'[k]) : InStep(k, h, r)'
  <2>1. PICK h \in 0 .. Len(asked[k]), r \in 0 .. Len(asked[k]) : InStep(k, h, r)
    BY DEF AnswerInvariant
  <2>2. Len(asked[k]) \in Nat
    BY DEF ChatInvariant, ClientTypeOK
  <2>3. h \in Nat /\ r \in Nat
    BY <2>2
  <2>4. \A id \in SessionIDs : told'[id] = told[id] \/ told'[id] = <<>>
    OBVIOUS
  <2>5. \A id \in opened' \ closed' : id[2] = k =>
          \/ id \in opened \ closed /\ told'[id] = told[id]
          \/ \A d \in opened : d[2] # k
    BY <1>2
  <2>6. \/ JobQueue' = JobQueue
        \/ \E job \in Jobs : EnqueueJob(job) /\ (job.type = "message" => job.session[2] # k)
    OBVIOUS
  <2>7. InStep(k, h, r)'
    BY <1>1, <2>1, <2>3, <2>4, <2>5, <2>6, OtherInStep
  <2> QED BY <1>1, <2>7
<1> QED BY <1>3, <1>4, <1>5, <1>6 DEF AnswerInvariant

\* A closed session was told nothing that is not forgotten.
LEMMA ToldUnchanged ==
  ASSUME ToldOK, told' = told, closed' = closed
  PROVE  told' = [id \in SessionIDs |-> IF id \in closed' THEN <<>> ELSE told[id]]
<1>1. told \in [SessionIDs -> Seq(Replies)] /\ \A id \in SessionIDs : id \in closed => told[id] = <<>>
  BY DEF ToldOK
<1> QED BY <1>1

\* Joins, leaves, the timer, the events and the waiting of the content thread.
LEMMA CallbacksKeepAnswers ==
  ASSUME ChatInvariant, AnswerInvariant, ServerTypeOK', UNCHANGED <<clientVars, heard>>,
         \/ \E id \in SessionIDs : OnClientJoin(id) \/ OnClientLeave(id)
         \/ HeartbeatTimer
         \/ \E who \in SessionIDs \cup {Timer} : SetEvent(who)
         \/ FindNoJob \/ StartWaiting \/ WakeUp
         \/ UNCHANGED serverVars
  PROVE  AnswerInvariant'
<1>0. ToldOK /\ opened \subseteq SessionIDs /\ SessionIDs \subseteq Nat \X Nat
  BY IDAssumption DEF AnswerInvariant, ChatInvariant, ContentInvariant, ServerTypeOK
<1>1. ASSUME NEW id \in SessionIDs, OnClientJoin(id) PROVE AnswerInvariant'
  <2>1. /\ UNCHANGED <<closed, killed, told, characters>> /\ opened' = opened \cup {id} /\ EnqueueJob(JoinJob(id))
        /\ \A other \in opened : other[2] < id[2]
    BY <1>1 DEF OnClientJoin, Net!Join, worldVars
  <2>2. JoinJob(id) \in Jobs /\ JoinJob(id).type # "message"
    BY DEF JoinJob, Jobs
  <2>3. told' = [d \in SessionIDs |-> IF d \in closed' THEN <<>> ELSE told[d]]
    BY <1>0, <2>1, ToldUnchanged
  <2>4. \A d \in opened' : d \in opened \/ \A other \in opened : other[2] # d[2]
    BY <1>0, <2>1
  <2> QED BY <2>1, <2>2, <2>3, <2>4, OthersKeepAnswers
<1>2. ASSUME NEW id \in SessionIDs, OnClientLeave(id) PROVE AnswerInvariant'
  <2>1. /\ UNCHANGED <<opened, killed, characters>> /\ closed' = closed \cup {id} /\ EnqueueJob(LeaveJob(id))
        /\ told' = [told EXCEPT ![id] = <<>>]
    BY <1>2 DEF OnClientLeave, Net!Leave, worldVars
  <2>2. LeaveJob(id) \in Jobs /\ LeaveJob(id).type # "message"
    BY DEF LeaveJob, Jobs
  <2>3. told' = [d \in SessionIDs |-> IF d \in closed' THEN <<>> ELSE told[d]]
    <3>1. told \in [SessionIDs -> Seq(Replies)] /\ \A d \in SessionIDs : d \in closed => told[d] = <<>>
      BY <1>0 DEF ToldOK
    <3> QED BY <2>1, <3>1
  <2> QED BY <2>1, <2>2, <2>3, OthersKeepAnswers
<1>3. CASE HeartbeatTimer
  <2>1. UNCHANGED <<opened, closed, killed, told, characters>> /\ EnqueueJob(HeartbeatJob)
    BY <1>3 DEF HeartbeatTimer, worldVars, callbackVars
  <2>2. HeartbeatJob \in Jobs /\ HeartbeatJob.type # "message"
    BY DEF HeartbeatJob, Jobs
  <2> QED BY <1>0, <2>1, <2>2, ToldUnchanged, OthersKeepAnswers
<1>4. CASE \/ \E who \in SessionIDs \cup {Timer} : SetEvent(who)
           \/ FindNoJob \/ StartWaiting \/ WakeUp
           \/ UNCHANGED serverVars
  <2>1. UNCHANGED <<opened, closed, killed, told, characters, JobQueue>>
    BY <1>4 DEF SetEvent, Net!RecvEnd, FindNoJob, StartWaiting, WakeUp, worldVars, callbackVars, serverVars
  <2> QED BY <1>0, <2>1, ToldUnchanged, OthersKeepAnswers
<1> QED BY <1>1, <1>2, <1>3, <1>4
-----------------------------------------------------------------------------
(* The content thread *)

\* Where requests are once the first job is taken.
LEMMA TailAsks ==
  ASSUME JobQueue \in Seq(Jobs), JobQueue # <<>>, JobQueue' = Tail(JobQueue), NEW i \in Nat, NEW k
  PROVE  /\ Asks(JobQueue', i, k) <=> i >= 1 /\ Asks(JobQueue, i + 1, k)
         /\ Asks(JobQueue', i, k) => JobQueue'[i] = JobQueue[i + 1] /\ NumberAt(JobQueue', i) = NumberAt(JobQueue, i + 1)
<1>1. Len(JobQueue') = Len(JobQueue) - 1 /\ Len(JobQueue) \in Nat
  OBVIOUS
<1>2. i \in 1 .. Len(JobQueue') => JobQueue'[i] = JobQueue[i + 1]
  OBVIOUS
<1>3. i \in 1 .. Len(JobQueue') <=> i >= 1 /\ i + 1 \in 1 .. Len(JobQueue)
  BY <1>1
<1> QED BY <1>2, <1>3 DEF Asks, AskedAt, NumberAt

\* A job that asks nothing is answered nothing.
LEMMA QuietJob ==
  ASSUME ServerTypeOK, PlacedInGrid, HandleJob,
         Head(JobQueue).type # "message" \/ ~HasAnswer(Head(JobQueue).packet)
  PROVE  /\ told' = told /\ killed \subseteq killed' /\ UNCHANGED <<opened, closed>>
         /\ \A id \in SessionIDs : Silent(id) => Silent(id)'
         /\ PlacedInGrid'
<1> DEFINE job == Head(JobQueue)
<1>1. UNCHANGED <<opened, closed>>
  BY DEF HandleJob, callbackVars
<1>2. ASSUME UNCHANGED characters PROVE (\A id \in SessionIDs : Silent(id) => Silent(id)') /\ PlacedInGrid'
  BY <1>2 DEF Silent, PlacedInGrid
<1>3. CASE job.type = "message" /\ MessageControl(job.session, job.packet)
  <2>1. job.packet.type = "ReqHeartbeat"
    BY <1>3 DEF HasAnswer
  <2>2. UNCHANGED <<worldVars, killed, told>>
    BY <1>3, <2>1 DEF MessageControl, Crash
  <2> QED BY <1>1, <1>2, <2>2 DEF worldVars
<1>4. CASE job.type = "join" /\ CreateCharacter(job.session)
  <2>1. /\ UNCHANGED <<killed, told>>
        /\ DOMAIN characters' = DOMAIN characters \cup {job.session}
        /\ \A d \in DOMAIN characters' :
             characters'[d] = IF d \in DOMAIN characters THEN characters[d] ELSE [account |-> 0, x |-> -1, y |-> Unset]
    BY <1>4 DEF CreateCharacter
  <2>2. \A d \in DOMAIN characters' : Placed(characters'[d]) => d \in DOMAIN characters /\ characters'[d] = characters[d]
    BY <2>1 DEF Placed
  <2> QED BY <1>1, <2>1, <2>2 DEF Silent, PlacedInGrid
<1>5. CASE job.type = "leave" /\ LeaveCharacter(job.session)
  <2>1. /\ UNCHANGED <<killed, told>>
        /\ \A d \in DOMAIN characters' : d \in DOMAIN characters /\ characters'[d] = characters[d]
    BY <1>5 DEF LeaveCharacter, Crash, worldVars
  <2> QED BY <1>1, <2>1 DEF Silent, PlacedInGrid
<1>6. CASE job.type = "heartbeat" /\ CheckHeartBeat
  <2>1. UNCHANGED <<characters, told>> /\ killed \subseteq killed'
    BY <1>6 DEF CheckHeartBeat, Kill, worldVars
  <2> QED BY <1>1, <1>2, <2>1
<1> QED BY <1>3, <1>4, <1>5, <1>6, HandleKinds DEF HandleJob

\* What a request at the head of the queue is.
LEMMA HeadRequest ==
  ASSUME ChatInvariant, AnswerInvariant, HandleJob,
         Head(JobQueue).type = "message", HasAnswer(Head(JobQueue).packet)
  PROVE  LET id == Head(JobQueue).session
             msg == Head(JobQueue).packet
         IN /\ id \in opened /\ id \in DOMAIN characters /\ id \in SessionIDs /\ id[2] \in Connections
            /\ Asks(JobQueue, 1, id[2]) /\ JobQueue[1].packet = msg
            /\ MessageControl(id, msg) /\ JobQueue' = Tail(JobQueue) /\ JobQueue # <<>>
            /\ msg \in ClientMessages /\ msg.type \in {"ReqLogin", "ReqSectorMove", "ReqMessage"}
<1> DEFINE id == Head(JobQueue).session
           msg == Head(JobQueue).packet
<1>0. ServerTypeOK /\ ContentInvariant /\ ClientTypeOK
  BY DEF ChatInvariant, ContentInvariant
<1>1. JobQueue \in Seq(Jobs) /\ JobQueue # <<>> /\ JobQueue[1] = Head(JobQueue) /\ 1 \in 1 .. Len(JobQueue)
      /\ JobQueue' = Tail(JobQueue)
  BY <1>0, HandleKinds DEF ServerTypeOK
<1>2. id \in DOMAIN characters /\ id \in opened /\ id \in SessionIDs
  BY <1>0, <1>1, OrderGivesCharacters DEF ContentInvariant, JobsFindCharacters, JobsInOrder, EndsAreQueued, ServerTypeOK
<1>3. id[2] \in Connections
  BY <1>0, <1>2, ConnectionTypes
<1>4. Asks(JobQueue, 1, id[2])
  BY <1>1 DEF Asks, AskedAt
<1>5. PICK k \in Connections : k = id[2]
  BY <1>3
<1>6. PICK h \in 0 .. Len(asked[k]), r \in 0 .. Len(asked[k]) : InStep(k, h, r)
  BY DEF AnswerInvariant
<1>7. NumberAt(JobQueue, 1) \in h + 1 .. r /\ JobQueue[1].packet = asked[k][NumberAt(JobQueue, 1)]
  BY <1>4, <1>5, <1>6 DEF InStep, InQueue
<1>8. msg \in ClientMessages
  <2>1. asked[k] \in Seq(ClientMessages) /\ Len(asked[k]) \in Nat
    BY <1>0 DEF ClientTypeOK
  <2>2. NumberAt(JobQueue, 1) \in 1 .. Len(asked[k])
    BY <1>7, <2>1
  <2> QED BY <1>1, <1>7, <2>1, <2>2
<1>9. msg.type \in {"ReqLogin", "ReqSectorMove", "ReqMessage"}
  BY <1>8, MessageKinds DEF HasAnswer
<1>10. MessageControl(id, msg)
  BY DEF HandleJob
<1> QED BY <1>1, <1>2, <1>3, <1>4, <1>8, <1>9, <1>10

\* Nobody is near who has no sector of the grid.
LEMMA NearArePlaced ==
  ASSUME ServerTypeOK, SectorListsAgree, PlacedInGrid, NEW id \in DOMAIN characters, NEW rows,
         id \in Around(characters[id].x, rows)
  PROVE  Placed(characters[id])
<1>1. PICK sector \in Sectors : SectorList[sector][id] > 0 /\ id \in SessionIDs
  BY DEF Around
<1>2. SectorOf(characters[id]) = sector
  <2>1. SectorList[sector][id] = IF SectorOf(characters[id]) = sector THEN 1 ELSE 0
    BY <1>1 DEF SectorListsAgree
  <2> QED BY <1>1, <2>1
<1> QED BY <1>1, <1>2, GridAssumption DEF Placed, SectorOf, Sectors

\* A character with a sector is near itself.
LEMMA PlacedIsNear ==
  ASSUME ServerTypeOK, SectorListsAgree, PlacedInGrid, NEW id \in DOMAIN characters, Placed(characters[id])
  PROVE  /\ characters[id].y # Unset
         /\ id \in Around(characters[id].x, characters[id].y - 1 .. characters[id].y + 1)
<1> DEFINE sector == SectorOf(characters[id])
<1>1. sector \in Sectors /\ id \in SessionIDs
  BY DEF PlacedInGrid, ServerTypeOK
<1>2. SectorList[sector][id] = 1
  BY <1>1 DEF SectorListsAgree
<1>3. sector[1] = characters[id].x /\ sector[2] = characters[id].y /\ sector[1] \in Int /\ sector[2] \in Int
  BY <1>1, GridAssumption DEF SectorOf, Sectors
<1>4. sector[1] \in characters[id].x - 1 .. characters[id].x + 1 /\ sector[2] \in characters[id].y - 1 .. characters[id].y + 1
  BY <1>3
<1>5. characters[id].y # Unset
  BY <1>3, GridAssumption
<1> HIDE DEF sector
<1>6. SectorList[sector][id] > 0
  BY <1>2
<1> QED BY <1>1, <1>4, <1>5, <1>6 DEF Around

\* What a request does: those told are told the answer, its own session unless that is
\* killed or says a text without having a sector.
RequestEffects(id, msg, T) ==
  /\ T \subseteq opened \ (closed \cup killed)
  /\ Tells(T, Answer(msg))
  /\ msg.type # "ReqMessage" => T \subseteq {id}
  /\ id \in opened \ (closed \cup killed') => id \in T \/ (msg.type = "ReqMessage" /\ Silent(id))
  /\ msg.type = "ReqMessage" /\ id \in T => ~Silent(id)
  /\ killed \subseteq killed' /\ UNCHANGED <<opened, closed>>
  /\ \A d \in SessionIDs : Silent(d) /\ (d # id \/ msg.type # "ReqSectorMove") => Silent(d)'
  /\ PlacedInGrid'

\* A login, a move or a text has these effects.
LEMMA RequestHandled ==
  ASSUME ChatInvariant, AnswerInvariant, HandleJob,
         Head(JobQueue).type = "message", HasAnswer(Head(JobQueue).packet)
  PROVE  \E T : RequestEffects(Head(JobQueue).session, Head(JobQueue).packet, T)
<1>1. PICK id \in SessionIDs, msg \in ClientMessages : id = Head(JobQueue).session /\ msg = Head(JobQueue).packet
  BY HeadRequest
<1>2. /\ id \in DOMAIN characters /\ msg.type \in {"ReqLogin", "ReqSectorMove", "ReqMessage"}
      /\ MessageControl(id, msg) /\ UNCHANGED <<opened, closed>>
  BY <1>1, HeadRequest DEF HandleJob, callbackVars
<1>3. ServerTypeOK /\ SectorListsAgree /\ PlacedInGrid /\ ~crashed /\ ~crashed' /\ characters[id] \in Character
      /\ DOMAIN characters \subseteq SessionIDs
      /\ characters \in [DOMAIN characters -> Character]
  BY <1>2, HandleCannotCrash DEF ChatInvariant, ContentInvariant, AnswerInvariant, ServerTypeOK
<1> DEFINE open == opened \ (closed \cup killed)
<1>4. ASSUME NEW ids, NEW reply, SendTo(ids, reply) PROVE Tells(ids \cap open, reply)
  BY <1>4 DEF SendTo, Tells
<1>5. ASSUME UNCHANGED characters PROVE (\A d \in SessionIDs : Silent(d) => Silent(d)') /\ PlacedInGrid'
  BY <1>3, <1>5 DEF Silent, PlacedInGrid
\* The session is killed and nobody told.
<1>6. ASSUME Kill({id}), UNCHANGED <<worldVars, told>> PROVE RequestEffects(id, msg, {})
  <2>1. Tells({}, Answer(msg))
    <3>1. told \in [SessionIDs -> Seq(Replies)]
      BY DEF AnswerInvariant, ToldOK
    <3> QED BY <1>6, <3>1 DEF Tells
  <2>2. killed \subseteq killed' /\ ~ (id \in opened \ (closed \cup killed'))
    BY <1>6 DEF Kill
  <2> QED BY <1>2, <1>5, <1>6, <2>1, <2>2 DEF RequestEffects, worldVars
<1>7. CASE msg.type = "ReqLogin"
  <2>1. /\ characters' = [characters EXCEPT ![id].account = msg.account]
        /\ SendTo({id}, [type |-> "ResLogin", account |-> msg.account]) /\ killed' = killed
    BY <1>2, <1>3, <1>7 DEF MessageControl, Login, Crash
  <2>2. Answer(msg) = [type |-> "ResLogin", account |-> msg.account]
    BY <1>7, AnswerNumber
  <2>3. Tells({id} \cap open, Answer(msg))
    BY <1>4, <2>1, <2>2
  <2>4. \A d \in DOMAIN characters' : d \in DOMAIN characters /\ characters'[d].x = characters[d].x /\ characters'[d].y = characters[d].y
    BY <1>2, <1>3, <2>1 DEF Character
  <2>5. (\A d \in SessionIDs : Silent(d) => Silent(d)') /\ PlacedInGrid'
    <3>1. \A d \in DOMAIN characters' : SectorOf(characters'[d]) = SectorOf(characters[d]) /\ (Placed(characters'[d]) <=> Placed(characters[d]))
      BY <2>4 DEF SectorOf, Placed
    <3> QED BY <1>3, <2>1, <2>4, <3>1 DEF Silent, PlacedInGrid
  <2>6. RequestEffects(id, msg, {id} \cap open)
    BY <1>2, <1>7, <2>1, <2>3, <2>5 DEF RequestEffects
  <2> QED BY <1>1, <2>6
<1>8. CASE msg.type = "ReqSectorMove"
  <2>1. SectorMove(id, msg)
    BY <1>2, <1>8 DEF MessageControl
  <2>2. CASE characters[id].account # msg.account
    BY <1>1, <1>6, <2>1, <2>2 DEF SectorMove
  <2>3. CASE characters[id].account = msg.account
    <3>1. /\ SendTo({id}, [type |-> "ResSectorMove", account |-> msg.account]) /\ killed' = killed
          /\ \/ characters' = [characters EXCEPT ![id].x = msg.x, ![id].y = msg.y] /\ <<msg.x, msg.y>> \in Sectors
             \/ characters' = characters
      BY <2>1, <2>3 DEF SectorMove, worldVars
    <3>2. Answer(msg) = [type |-> "ResSectorMove", account |-> msg.account]
      BY <1>8, AnswerNumber
    <3>3. Tells({id} \cap open, Answer(msg))
      BY <1>4, <3>1, <3>2
    <3>4. /\ DOMAIN characters' = DOMAIN characters
          /\ \A d \in DOMAIN characters : d # id => characters'[d] = characters[d]
      BY <1>2, <1>3, <3>1
    <3>5. \A d \in SessionIDs : Silent(d) /\ d # id => Silent(d)'
      BY <3>4 DEF Silent
    <3>6. PlacedInGrid'
      <4>1. characters'[id] = characters[id] \/ SectorOf(characters'[id]) \in Sectors
        BY <1>2, <1>3, <3>1 DEF SectorOf, Character
      <4> QED BY <1>3, <3>4, <4>1 DEF PlacedInGrid
    <3>7. RequestEffects(id, msg, {id} \cap open)
      BY <1>2, <1>8, <3>1, <3>3, <3>5, <3>6 DEF RequestEffects
    <3> QED BY <1>1, <3>7
  <2> QED BY <2>2, <2>3
<1>9. CASE msg.type = "ReqMessage"
  <2>1. ChatMessage(id, msg)
    BY <1>2, <1>9 DEF MessageControl
  <2>2. CASE characters[id].account # msg.account
    BY <1>1, <1>6, <2>1, <2>2 DEF ChatMessage
  <2>3. CASE characters[id].account = msg.account
    <3>0. msg.text \notin LongTexts
      BY <1>3, <2>1, <2>3 DEF ChatMessage, Crash
    <3>1. PICK y \in IF characters[id].y = Unset THEN -1 .. Height ELSE {characters[id].y} :
            SendTo(Around(characters[id].x, y - 1 .. y + 1), [type |-> "ResMessage", account |-> msg.account, text |-> msg.text])
      BY <2>1, <2>3, <3>0 DEF ChatMessage
    <3> DEFINE near == Around(characters[id].x, y - 1 .. y + 1)
    <3>2. killed' = killed /\ UNCHANGED worldVars
      BY <2>1, <2>3, <3>0 DEF ChatMessage
    <3>3. Tells(near \cap open, Answer(msg))
      <4>1. Answer(msg) = [type |-> "ResMessage", account |-> msg.account, text |-> msg.text]
        BY <1>9, AnswerNumber
      <4> QED BY <1>4, <3>1, <4>1
    <3>4. id \in near => ~Silent(id)
      BY <1>2, <1>3, NearArePlaced DEF Silent
    <3>5. id \in near \/ Silent(id)
      <4> SUFFICES ASSUME Placed(characters[id]) PROVE id \in near
        BY DEF Silent
      <4>1. y = characters[id].y
        BY <1>2, <1>3, <3>1, PlacedIsNear
      <4> QED BY <1>2, <1>3, <4>1, PlacedIsNear
    <3> HIDE DEF near
    <3>6. RequestEffects(id, msg, near \cap open)
      BY <1>2, <1>5, <1>9, <3>2, <3>3, <3>4, <3>5 DEF RequestEffects, worldVars
    <3> QED BY <1>1, <3>6
  <2> QED BY <2>2, <2>3
<1> QED BY <1>2, <1>7, <1>8, <1>9

\* The texts that are told once those of T are told one thing more.
LEMMA MoreTexts ==
  ASSUME ToldOK, NEW T, NEW reply, Tells(T, reply), NEW id \in SessionIDs, NEW k, NEW i \in Nat
  PROVE  /\ TextAt(id, i, k) => TextAt(id, i, k)' /\ told'[id][i] = told[id][i]
         /\ TextAt(id, i, k)' =>
              \/ TextAt(id, i, k) /\ told'[id][i] = told[id][i]
              \/ /\ told'[id][i] = reply /\ reply.type = "ResMessage" /\ reply.text[1] = k
                 /\ \A j \in DOMAIN told'[id] : j <= i
<1>1. CASE id \notin T
  <2>1. told'[id] = told[id]
    BY <1>1, MoreTold
  <2> QED BY <2>1 DEF TextAt
<1>2. CASE id \in T
  <2>1. PICK new \in Nat : /\ DOMAIN told'[id] = DOMAIN told[id] \cup {new} /\ told'[id][new] = reply
                           /\ \A j \in DOMAIN told[id] : j \in Nat /\ j < new /\ told'[id][j] = told[id][j]
    BY <1>2, MoreTold
  <2>2. i \in DOMAIN told[id] => told'[id][i] = told[id][i]
    BY <2>1
  <2>3. CASE i = new
    <3>1. i \notin DOMAIN told[id] /\ \A j \in DOMAIN told'[id] : j <= i
      BY <2>1, <2>3
    <3> QED BY <2>1, <2>3, <3>1 DEF TextAt
  <2>4. CASE i # new
    BY <2>1, <2>2, <2>4 DEF TextAt
  <2> QED BY <2>3, <2>4
<1> QED BY <1>1, <1>2

\* The request at the head has a number, and those before it were handled.
LEMMA HeadNumber ==
  ASSUME ChatInvariant, AnswerInvariant, HandleJob,
         Head(JobQueue).type = "message", HasAnswer(Head(JobQueue).packet),
         NEW h \in Nat, NEW r \in Nat, r <= Len(asked[Head(JobQueue).session[2]]),
         InStep(Head(JobQueue).session[2], h, r)
  PROVE  LET k == Head(JobQueue).session[2]
             msg == Head(JobQueue).packet
             n == Number(msg)
         IN /\ n \in h + 1 .. r /\ n \in Nat /\ n = NumberAt(JobQueue, 1)
            /\ msg = asked[k][n]
            /\ msg.type = "ReqMessage" => msg.text = <<k, n - 2>> /\ n > 2
            /\ msg.type # "ReqMessage" => n <= 2
            /\ \A j \in Nat : j > 1 /\ Asks(JobQueue, j, k) => n < NumberAt(JobQueue, j)
<1>1. PICK k \in Connections : k = Head(JobQueue).session[2]
  BY HeadRequest
<1>2. PICK msg \in ClientMessages : msg = Head(JobQueue).packet
  BY HeadRequest
<1>3. /\ Asks(JobQueue, 1, k) /\ JobQueue[1].packet = msg
      /\ msg.type \in {"ReqLogin", "ReqSectorMove", "ReqMessage"}
  BY <1>1, <1>2, HeadRequest
<1>4. InQueue(k, h, r)
  BY <1>1 DEF InStep
<1>5. /\ NumberAt(JobQueue, 1) \in h + 1 .. r
      /\ msg = asked[k][NumberAt(JobQueue, 1)]
      /\ \A j \in Nat : 1 < j /\ Asks(JobQueue, j, k) => NumberAt(JobQueue, 1) < NumberAt(JobQueue, j)
  BY <1>3, <1>4 DEF InQueue
<1>6. PICK n : n = NumberAt(JobQueue, 1)
  OBVIOUS
<1>7. n = Number(msg)
  BY <1>3, <1>6 DEF NumberAt
<1>8. asked[k] \in Seq(ClientMessages) /\ Len(asked[k]) \in Nat /\ r <= Len(asked[k])
  BY <1>1 DEF ChatInvariant, ClientTypeOK
<1>9. n \in Nat /\ n \in DOMAIN asked[k] /\ n \in h + 1 .. r
  BY <1>5, <1>6, <1>8
<1>10. /\ msg.type = "ReqLogin" <=> n = 1
       /\ msg.type = "ReqSectorMove" <=> n = 2
       /\ msg.type = "ReqMessage" => msg.text = <<k, n - 2>>
  BY <1>5, <1>6, <1>9 DEF AnswerInvariant, RequestsNumbered
<1>11. msg.type = "ReqMessage" => n > 2
  BY <1>9, <1>10
<1>12. msg.type # "ReqMessage" => n <= 2
  BY <1>3, <1>10
<1> QED BY <1>1, <1>2, <1>5, <1>6, <1>7, <1>9, <1>10, <1>11, <1>12

\* What was handled of connection k, once request n of it is.
LEMMA RequestInStep ==
  ASSUME ChatInvariant, AnswerInvariant, HandleJob, UNCHANGED clientVars,
         Head(JobQueue).type = "message", HasAnswer(Head(JobQueue).packet),
         NEW id, id = Head(JobQueue).session, NEW msg, msg = Head(JobQueue).packet,
         NEW h \in Nat, NEW r \in Nat, r <= Len(asked[id[2]]), InStep(id[2], h, r)
  PROVE  InStep(id[2], Number(msg), r)' /\ Number(msg) \in 0 .. r
<1>1. id \in SessionIDs /\ id = Head(JobQueue).session
  BY HeadRequest
<1>2. msg \in ClientMessages /\ msg = Head(JobQueue).packet
  BY HeadRequest
<1>3. PICK k \in Connections : k = id[2]
  BY <1>1, HeadRequest
<1>4. PICK n : n = Number(msg)
  OBVIOUS
<1>5. PICK T : RequestEffects(id, msg, T)
  BY <1>1, <1>2, RequestHandled
<1>6. /\ id \in opened /\ msg.type \in {"ReqLogin", "ReqSectorMove", "ReqMessage"}
      /\ JobQueue' = Tail(JobQueue) /\ JobQueue # <<>> /\ HasAnswer(msg)
  BY <1>1, <1>2, HeadRequest
<1>7. /\ n \in h + 1 .. r /\ n \in Nat /\ n = NumberAt(JobQueue, 1) /\ msg = asked[k][n]
      /\ msg.type = "ReqMessage" => msg.text = <<k, n - 2>> /\ n > 2
      /\ msg.type # "ReqMessage" => n <= 2
      /\ \A j \in Nat : j > 1 /\ Asks(JobQueue, j, k) => n < NumberAt(JobQueue, j)
  BY <1>1, <1>2, <1>3, <1>4, HeadNumber
<1>8. /\ h <= r /\ OnTheWay(k, r) /\ InQueue(k, h, r) /\ AllQueued(k, h, r)
      /\ TextsHandled(k, h) /\ AnswersHandled(k, h) /\ AllAnswered(k, h)
      /\ ((\A d \in opened : d[2] # k) => r = 0)
  BY <1>1, <1>3 DEF InStep
<1>9. /\ UNCHANGED <<asked, sendBuf, sock, up, opened, closed>> /\ Tells(T, Answer(msg)) /\ ToldOK
      /\ JobQueue \in Seq(Jobs) /\ opened \subseteq SessionIDs
      /\ \A d \in opened : d[2] = k => d = id
  BY <1>3, <1>5, <1>6 DEF clientVars, RequestEffects, AnswerInvariant, ChatInvariant, ContentInvariant, ServerTypeOK,
     JobsInOrder, SlotsInOrder
<1>10. OnTheWay(k, r)' /\ ((\A d \in opened' : d[2] # k) => r = 0)
  BY <1>8, <1>9 DEF OnTheWay
<1>11. \A i \in Nat : Asks(JobQueue', i, k) =>
         /\ i >= 1 /\ i + 1 \in Nat /\ Asks(JobQueue, i + 1, k)
         /\ JobQueue'[i] = JobQueue[i + 1] /\ NumberAt(JobQueue', i) = NumberAt(JobQueue, i + 1)
  <2>1. JobQueue \in Seq(Jobs) /\ JobQueue # <<>> /\ JobQueue' = Tail(JobQueue)
    BY <1>6, <1>9
  <2>2. ASSUME NEW i \in Nat, Asks(JobQueue', i, k)
        PROVE  /\ i >= 1 /\ Asks(JobQueue, i + 1, k)
               /\ JobQueue'[i] = JobQueue[i + 1] /\ NumberAt(JobQueue', i) = NumberAt(JobQueue, i + 1)
    BY ONLY <2>1, <2>2, TailAsks
  <2>3. \A i \in Nat : i + 1 \in Nat
    OBVIOUS
  <2> QED BY <2>2, <2>3
<1>12. \A i \in Nat : Asks(JobQueue, i, k) =>
         /\ NumberAt(JobQueue, i) \in h + 1 .. r
         /\ JobQueue[i].packet = asked[k][NumberAt(JobQueue, i)]
         /\ \A j \in Nat : i < j /\ Asks(JobQueue, j, k) => NumberAt(JobQueue, i) < NumberAt(JobQueue, j)
  BY <1>8, Zenon DEF InQueue
<1>13. InQueue(k, n, r)'
  <2> SUFFICES ASSUME NEW i \in Nat, Asks(JobQueue', i, k)
               PROVE  /\ NumberAt(JobQueue', i) \in n + 1 .. r
                      /\ JobQueue'[i].packet = asked'[k][NumberAt(JobQueue', i)]
                      /\ \A j \in Nat : i < j /\ Asks(JobQueue', j, k) => NumberAt(JobQueue', i) < NumberAt(JobQueue', j)
    BY Zenon DEF InQueue
  <2>1. /\ i >= 1 /\ i + 1 \in Nat /\ Asks(JobQueue, i + 1, k)
        /\ JobQueue'[i] = JobQueue[i + 1] /\ NumberAt(JobQueue', i) = NumberAt(JobQueue, i + 1)
    BY <1>11
  <2>2. NumberAt(JobQueue, i + 1) \in h + 1 .. r /\ JobQueue[i + 1].packet = asked[k][NumberAt(JobQueue, i + 1)]
    BY <1>12, <2>1
  <2>3. n < NumberAt(JobQueue, i + 1)
    <3>1. i + 1 > 1
      BY <2>1
    <3> QED BY <1>7, <2>1, <3>1
  <2>4. NumberAt(JobQueue', i) \in n + 1 .. r
    <3>1. PICK m : m = NumberAt(JobQueue, i + 1)
      OBVIOUS
    <3>2. m \in n + 1 .. r
      BY <1>7, <2>2, <2>3, <3>1
    <3> QED BY <2>1, <3>1, <3>2
  <2>5. ASSUME NEW j \in Nat, i < j, Asks(JobQueue', j, k) PROVE NumberAt(JobQueue', i) < NumberAt(JobQueue', j)
    <3>1. j + 1 \in Nat /\ i + 1 < j + 1 /\ Asks(JobQueue, j + 1, k) /\ NumberAt(JobQueue', j) = NumberAt(JobQueue, j + 1)
      BY <1>11, <2>5
    <3> QED BY <1>12, <2>1, <3>1
  <2> QED BY <1>9, <2>1, <2>2, <2>4, <2>5
\* The requests between h and n are none: they would be in the queue before n.
<1>14. \A d \in opened \ closed : d[2] = k =>
         \A m \in h + 1 .. r : HasAnswer(asked[k][m]) => m = n \/ (m > n /\ \E i \in Nat : i > 1 /\ Asks(JobQueue, i, k) /\ NumberAt(JobQueue, i) = m)
  <2> SUFFICES ASSUME NEW d \in opened \ closed, d[2] = k, NEW m \in h + 1 .. r, HasAnswer(asked[k][m]), m # n
               PROVE  m > n /\ \E i \in Nat : i > 1 /\ Asks(JobQueue, i, k) /\ NumberAt(JobQueue, i) = m
    OBVIOUS
  <2>1. PICK i \in Nat : Asks(JobQueue, i, k) /\ NumberAt(JobQueue, i) = m
    BY <1>8 DEF AllQueued
  <2>2. i > 1
    <3>1. i >= 1 /\ i # 1
      BY <1>7, <2>1 DEF Asks, AskedAt
    <3> QED BY <3>1
  <2> QED BY <1>7, <2>1, <2>2
<1>15. AllQueued(k, n, r)'
  <2> SUFFICES ASSUME NEW d \in opened' \ closed', d[2] = k, NEW m \in n + 1 .. r, HasAnswer(asked'[k][m])
               PROVE  \E i \in Nat : Asks(JobQueue', i, k) /\ NumberAt(JobQueue', i) = m
    BY Zenon DEF AllQueued
  <2>1. m \in h + 1 .. r /\ m # n
    BY <1>7
  <2>2. PICK i \in Nat : i > 1 /\ Asks(JobQueue, i, k) /\ NumberAt(JobQueue, i) = m
    BY <1>9, <1>14, <2>1
  <2>3. i - 1 \in Nat /\ i - 1 >= 1 /\ (i - 1) + 1 = i
    BY <2>2
  <2>4. Asks(JobQueue', i - 1, k) /\ NumberAt(JobQueue', i - 1) = m
    BY <1>6, <1>9, <2>2, <2>3, TailAsks
  <2> QED BY <2>3, <2>4
<1>16. /\ Number(Answer(msg)) = n
       /\ Answer(msg).type = "ResMessage" <=> msg.type = "ReqMessage"
       /\ msg.type = "ReqMessage" => Answer(msg).text = <<k, n - 2>>
  <2>1. /\ Number(Answer(msg)) = Number(msg)
        /\ Answer(msg).type = "ResMessage" <=> msg.type = "ReqMessage"
    BY <1>6, AnswerNumber
  <2>2. ASSUME msg.type = "ReqMessage" PROVE Answer(msg).text = <<k, n - 2>>
    <3>1. Answer(msg) = [type |-> "ResMessage", account |-> msg.account, text |-> msg.text]
      BY <1>6, <2>2, AnswerNumber
    <3>2. Answer(msg).text = msg.text
      BY <3>1
    <3> QED BY <1>7, <2>2, <3>2
  <2> QED BY <1>4, <2>1, <2>2
<1>17. TextsHandled(k, n)'
  <2> SUFFICES ASSUME NEW d \in SessionIDs, NEW i \in Nat, TextAt(d, i, k)'
               PROVE  /\ told'[d][i].text[2] \in Nat /\ told'[d][i].text[2] + 2 <= n
                      /\ \A j \in Nat : i < j /\ TextAt(d, j, k)' => told'[d][i].text[2] < told'[d][j].text[2]
    BY DEF TextsHandled
  <2>1. \A l \in Nat : TextAt(d, l, k)' =>
           \/ TextAt(d, l, k) /\ told'[d][l] = told[d][l]
           \/ /\ told'[d][l] = Answer(msg) /\ msg.type = "ReqMessage"
              /\ \A j \in DOMAIN told'[d] : j <= l
    BY <1>9, <1>16, MoreTexts
  <2>2. \A l \in Nat : TextAt(d, l, k) =>
           /\ told[d][l].text[2] \in Nat /\ told[d][l].text[2] + 2 <= h
           /\ \A j \in Nat : l < j /\ TextAt(d, j, k) => told[d][l].text[2] < told[d][j].text[2]
    BY <1>8, Zenon DEF TextsHandled
  <2>3. msg.type = "ReqMessage" => Answer(msg).text[2] = n - 2 /\ n - 2 \in Nat /\ (n - 2) + 2 = n
    BY <1>7, <1>16
  <2>4. CASE TextAt(d, i, k) /\ told'[d][i] = told[d][i]
    <3>1. told[d][i].text[2] \in Nat /\ told[d][i].text[2] + 2 <= h
      BY <2>2, <2>4
    <3>2. told[d][i].text[2] < n - 2
      BY <1>7, <3>1
    <3>3. ASSUME NEW j \in Nat, i < j, TextAt(d, j, k)' PROVE told'[d][i].text[2] < told'[d][j].text[2]
      <4>1. CASE TextAt(d, j, k) /\ told'[d][j] = told[d][j]
        BY <2>2, <2>4, <3>3, <4>1
      <4>2. CASE told'[d][j] = Answer(msg) /\ msg.type = "ReqMessage"
        BY <2>3, <2>4, <3>2, <4>2
      <4> QED BY <2>1, <3>3, <4>1, <4>2
    <3>4. told'[d][i].text[2] \in Nat /\ told'[d][i].text[2] + 2 <= n
      BY <1>7, <2>4, <3>1
    <3> QED BY <3>3, <3>4
  <2>5. CASE told'[d][i] = Answer(msg) /\ msg.type = "ReqMessage" /\ \A j \in DOMAIN told'[d] : j <= i
    <3>1. \A j \in Nat : TextAt(d, j, k)' => ~ (i < j)
      BY <2>5 DEF TextAt
    <3> QED BY <2>3, <2>5, <3>1
  <2> QED BY <2>1, <2>4, <2>5
\* The session of k that is told anything now is id.
<1>18. \A d \in SessionIDs : d[2] = k /\ d \in T => d = id /\ id \in opened \ (closed \cup killed)
  BY <1>5, <1>9 DEF RequestEffects
<1>19. id \in T => \A m \in 1 .. n - 1 : HasAnswer(asked[k][m]) => Answered(id, m)
  <2> SUFFICES ASSUME id \in T, NEW m \in 1 .. n - 1, HasAnswer(asked[k][m]) PROVE Answered(id, m)
    OBVIOUS
  <2>1. id \in opened \ (closed \cup killed) /\ id[2] = k
    BY <1>1, <1>3, <1>18
  <2>2. m \in 1 .. h
    <3>1. m \in 1 .. h \/ m \in h + 1 .. r
      BY <1>7
    <3>2. m \notin h + 1 .. r
      <4>1. m \in h + 1 .. r => m = n \/ m > n
        BY <1>14, <2>1
      <4> QED BY <1>7, <4>1
    <3> QED BY <3>1, <3>2
  <2>3. Answered(id, m) \/ (m > 2 /\ Silent(id))
    BY <1>8, <2>1, <2>2 DEF AllAnswered
  <2>4. ~ (m > 2 /\ Silent(id))
    <3>1. CASE msg.type = "ReqMessage"
      BY <1>5, <3>1 DEF RequestEffects
    <3>2. CASE msg.type # "ReqMessage"
      BY <1>7, <3>2
    <3> QED BY <3>1, <3>2
  <2> QED BY <2>3, <2>4
<1>20. AnswersHandled(k, n)'
  <2> SUFFICES ASSUME NEW d \in SessionIDs, d[2] = k, NEW i \in Own(d)'
               PROVE  LET l == Number(told'[d][i])
                      IN /\ l \in 1 .. n /\ HasAnswer(asked'[k][l]) /\ told'[d][i] = Answer(asked'[k][l])
                         /\ \A j \in Own(d)' : i < j => l < Number(told'[d][j])
                         /\ \A m \in 1 .. l - 1 : HasAnswer(asked'[k][m]) => Answered(d, m)'
    BY Zenon DEF AnswersHandled
  <2>1. \A j \in Own(d) :
          /\ Number(told[d][j]) \in 1 .. h /\ HasAnswer(asked[k][Number(told[d][j])])
          /\ told[d][j] = Answer(asked[k][Number(told[d][j])])
          /\ \A l \in Own(d) : j < l => Number(told[d][j]) < Number(told[d][l])
          /\ \A m \in 1 .. Number(told[d][j]) - 1 : HasAnswer(asked[k][m]) => Answered(d, m)
    BY <1>8, Zenon DEF AnswersHandled
  <2>2. \A m : Answered(d, m) => Answered(d, m)'
    BY <1>9, MoreTold
  <2>3. CASE d \notin T
    <3>1. told'[d] = told[d] /\ Own(d)' = Own(d)
      BY <1>9, <2>3, MoreTold
    <3>2. PICK l : l = Number(told[d][i])
      OBVIOUS
    <3>3. l \in 1 .. n
      BY <1>7, <2>1, <3>1, <3>2
    <3> QED BY <1>9, <2>1, <2>2, <3>1, <3>2, <3>3
  <2>4. CASE d \in T
    <3>1. d = id
      BY <1>18, <2>4
    <3>2. PICK new \in Nat :
            /\ DOMAIN told'[d] = DOMAIN told[d] \cup {new} /\ told'[d][new] = Answer(msg)
            /\ \A j \in DOMAIN told[d] : j \in Nat /\ j < new /\ told'[d][j] = told[d][j]
            /\ Own(d)' = Own(d) \cup IF Answer(msg).type # "ResMessage" \/ Answer(msg).text[1] = d[2] THEN {new} ELSE {}
      <4> QED BY <1>9, <2>4, MoreTold
    <3>3. Own(d)' = Own(d) \cup {new} /\ Own(d) \subseteq DOMAIN told[d]
      <4>1. Answer(msg).type # "ResMessage" \/ Answer(msg).text[1] = d[2]
        BY <1>6, <1>16, <2>4
      <4> QED BY <3>2, <4>1 DEF Own
    <3>4. CASE i = new
      <4>1. Number(told'[d][i]) = n /\ told'[d][i] = Answer(asked'[k][n]) /\ HasAnswer(asked'[k][n])
        BY <1>6, <1>7, <1>9, <1>16, <3>2, <3>4
      <4>2. \A j \in Own(d)' : ~ (i < j)
        BY <3>2, <3>3, <3>4
      <4>3. \A m \in 1 .. n - 1 : HasAnswer(asked'[k][m]) => Answered(d, m)'
        BY <1>9, <1>19, <2>2, <2>4, <3>1
      <4>4. n \in 1 .. n
        BY <1>7
      <4> QED BY <4>1, <4>2, <4>3, <4>4
    <3>5. CASE i \in Own(d)
      <4>1. told'[d][i] = told[d][i]
        BY <3>2, <3>3, <3>5
      <4>2. PICK l : l = Number(told[d][i])
        OBVIOUS
      <4>3. /\ l \in 1 .. h /\ HasAnswer(asked[k][l]) /\ told[d][i] = Answer(asked[k][l])
            /\ \A j \in Own(d) : i < j => l < Number(told[d][j])
            /\ \A m \in 1 .. l - 1 : HasAnswer(asked[k][m]) => Answered(d, m)
        BY <2>1, <3>5, <4>2
      <4>4. l \in 1 .. n /\ l < n
        BY <1>7, <4>3
      <4>5. ASSUME NEW j \in Own(d)', i < j PROVE l < Number(told'[d][j])
        <5>1. CASE j = new
          BY <1>16, <3>2, <4>4, <5>1
        <5>2. CASE j \in Own(d)
          BY <3>2, <3>3, <4>3, <4>5, <5>2
        <5> QED BY <3>3, <5>1, <5>2
      <4>6. \A m \in 1 .. l - 1 : HasAnswer(asked'[k][m]) => Answered(d, m)'
        BY <1>9, <2>2, <4>3
      <4> QED BY <1>9, <4>1, <4>2, <4>3, <4>4, <4>5, <4>6
    <3> QED BY <3>3, <3>4, <3>5
  <2> QED BY <2>3, <2>4
<1>21. AllAnswered(k, n)'
  <2> SUFFICES ASSUME NEW d \in opened' \ (closed' \cup killed'), d[2] = k, NEW m \in 1 .. n, HasAnswer(asked'[k][m])
               PROVE  Answered(d, m)' \/ (m > 2 /\ Silent(d)')
    BY Zenon DEF AllAnswered
  <2>1. d = id /\ id \in opened \ (closed \cup killed) /\ id \in opened \ (closed \cup killed') /\ id[2] = k
    BY <1>5, <1>9 DEF RequestEffects
  <2>2. \A l : Answered(id, l) => Answered(id, l)'
    BY <1>1, <1>9, MoreTold
  <2>3. msg.type # "ReqSectorMove" => (Silent(id) => Silent(id)')
    BY <1>1, <1>5 DEF RequestEffects
  <2>4. CASE m = n
    <3>1. CASE id \in T
      <4>1. Answered(id, n)'
        <5>1. PICK new \in Nat :
                /\ told'[id][new] = Answer(msg)
                /\ Own(id)' = Own(id) \cup IF Answer(msg).type # "ResMessage" \/ Answer(msg).text[1] = id[2] THEN {new} ELSE {}
          BY <1>9, <3>1, MoreTold
        <5>2. new \in Own(id)'
          <6>1. Answer(msg).type # "ResMessage" \/ Answer(msg).text[1] = id[2]
            BY <1>6, <1>16, <2>1
          <6> QED BY <5>1, <6>1
        <5> QED BY <1>16, <5>1, <5>2 DEF Answered
      <4> QED BY <2>1, <2>4, <4>1
    <3>2. CASE msg.type = "ReqMessage" /\ Silent(id)
      BY <1>7, <2>1, <2>3, <2>4, <3>2
    <3> QED BY <1>5, <2>1, <3>1, <3>2 DEF RequestEffects
  <2>5. CASE m # n
    <3>1. m \in 1 .. h
      <4>1. m \in 1 .. h \/ m \in h + 1 .. r
        BY <1>7
      <4>2. m \in h + 1 .. r => m = n \/ m > n
        BY <1>9, <1>14, <2>1
      <4> QED BY <1>7, <2>5, <4>1, <4>2
    <3>2. Answered(id, m) \/ (m > 2 /\ Silent(id))
      BY <1>8, <1>9, <2>1, <3>1 DEF AllAnswered
    <3>3. m > 2 => msg.type # "ReqSectorMove"
      BY <1>7, <2>5
    <3> QED BY <2>1, <2>2, <2>3, <3>2, <3>3
  <2> QED BY <2>4, <2>5
<1>22. n <= r /\ n \in 0 .. r
  BY <1>7
<1>23. InStep(k, n, r)'
  BY <1>10, <1>13, <1>15, <1>17, <1>20, <1>21, <1>22 DEF InStep
<1> QED BY <1>1, <1>2, <1>3, <1>4, <1>22, <1>23

\* The answer to a text is the text of its connection.
LEMMA AnsweredText ==
  ASSUME ChatInvariant, AnswerInvariant, HandleJob,
         Head(JobQueue).type = "message", HasAnswer(Head(JobQueue).packet)
  PROVE  LET id == Head(JobQueue).session
             msg == Head(JobQueue).packet
         IN Answer(msg) \in Replies /\ (Answer(msg).type = "ResMessage" => Answer(msg).text[1] = id[2])
<1>1. PICK k \in Connections : k = Head(JobQueue).session[2]
  BY HeadRequest
<1>2. PICK msg \in ClientMessages : msg = Head(JobQueue).packet
  BY HeadRequest
<1>3. PICK h \in 0 .. Len(asked[k]), r \in 0 .. Len(asked[k]) : InStep(k, h, r)
  BY DEF AnswerInvariant
<1>4. h \in Nat /\ r \in Nat /\ r <= Len(asked[k])
  <2>1. Len(asked[k]) \in Nat
    BY DEF ChatInvariant, ClientTypeOK
  <2> QED BY <1>3, <2>1
<1>5. msg.type = "ReqMessage" => \E n : msg.text = <<k, n>>
  <2>1. msg.type = "ReqMessage" => msg.text = <<k, Number(msg) - 2>>
    BY <1>1, <1>2, <1>3, <1>4, HeadNumber
  <2> QED BY <2>1
<1>6. msg.type \in {"ReqLogin", "ReqSectorMove", "ReqMessage"} /\ msg \in Messages /\ HasAnswer(msg)
  BY <1>2, HeadRequest, MessageAssumption
<1>7. Answer(msg) \in Replies
  BY <1>6 DEF Replies
<1>8. ASSUME Answer(msg).type = "ResMessage" PROVE Answer(msg).text[1] = k
  <2>1. msg.type = "ReqMessage"
    BY <1>6, <1>8, AnswerNumber
  <2>2. Answer(msg) = [type |-> "ResMessage", account |-> msg.account, text |-> msg.text]
    BY <1>6, <2>1, AnswerNumber
  <2> QED BY <1>5, <2>1, <2>2
<1> QED BY <1>1, <1>2, <1>7, <1>8

\* The first job is taken, and it asks nothing on connection k.
LEMMA QueueShifts ==
  ASSUME NEW k, NEW h, NEW r, InQueue(k, h, r), AllQueued(k, h, r),
         JobQueue \in Seq(Jobs), JobQueue # <<>>, JobQueue' = Tail(JobQueue), ~Asks(JobQueue, 1, k),
         UNCHANGED <<asked, opened, closed>>
  PROVE  InQueue(k, h, r)' /\ AllQueued(k, h, r)'
<1>1. \A i \in Nat : Asks(JobQueue', i, k) =>
        /\ i >= 1 /\ i + 1 \in Nat /\ Asks(JobQueue, i + 1, k)
        /\ JobQueue'[i] = JobQueue[i + 1] /\ NumberAt(JobQueue', i) = NumberAt(JobQueue, i + 1)
  <2>1. ASSUME NEW i \in Nat, Asks(JobQueue', i, k)
        PROVE  /\ i >= 1 /\ Asks(JobQueue, i + 1, k)
               /\ JobQueue'[i] = JobQueue[i + 1] /\ NumberAt(JobQueue', i) = NumberAt(JobQueue, i + 1)
    BY ONLY <2>1, JobQueue \in Seq(Jobs), JobQueue # <<>>, JobQueue' = Tail(JobQueue), TailAsks
  <2>2. \A i \in Nat : i + 1 \in Nat
    OBVIOUS
  <2> QED BY <2>1, <2>2
<1>2. \A i \in Nat : Asks(JobQueue, i, k) =>
        /\ NumberAt(JobQueue, i) \in h + 1 .. r
        /\ JobQueue[i].packet = asked[k][NumberAt(JobQueue, i)]
        /\ \A j \in Nat : i < j /\ Asks(JobQueue, j, k) => NumberAt(JobQueue, i) < NumberAt(JobQueue, j)
  BY Zenon DEF InQueue
<1>3. InQueue(k, h, r)'
  <2> SUFFICES ASSUME NEW i \in Nat, Asks(JobQueue', i, k)
               PROVE  /\ NumberAt(JobQueue', i) \in h + 1 .. r
                      /\ JobQueue'[i].packet = asked'[k][NumberAt(JobQueue', i)]
                      /\ \A j \in Nat : i < j /\ Asks(JobQueue', j, k) => NumberAt(JobQueue', i) < NumberAt(JobQueue', j)
    BY Zenon DEF InQueue
  <2>1. /\ i >= 1 /\ i + 1 \in Nat /\ Asks(JobQueue, i + 1, k)
        /\ JobQueue'[i] = JobQueue[i + 1] /\ NumberAt(JobQueue', i) = NumberAt(JobQueue, i + 1)
    BY <1>1
  <2>2. /\ NumberAt(JobQueue, i + 1) \in h + 1 .. r /\ JobQueue[i + 1].packet = asked[k][NumberAt(JobQueue, i + 1)]
        /\ \A j \in Nat : i + 1 < j /\ Asks(JobQueue, j, k) => NumberAt(JobQueue, i + 1) < NumberAt(JobQueue, j)
    BY <1>2, <2>1
  <2>3. ASSUME NEW j \in Nat, i < j, Asks(JobQueue', j, k) PROVE NumberAt(JobQueue', i) < NumberAt(JobQueue', j)
    <3>1. j + 1 \in Nat /\ i + 1 < j + 1 /\ Asks(JobQueue, j + 1, k) /\ NumberAt(JobQueue', j) = NumberAt(JobQueue, j + 1)
      BY <1>1, <2>3
    <3> QED BY <2>1, <2>2, <3>1
  <2> QED BY <2>1, <2>2, <2>3
<1>4. AllQueued(k, h, r)'
  <2> SUFFICES ASSUME NEW d \in opened' \ closed', d[2] = k, NEW m \in h + 1 .. r, HasAnswer(asked'[k][m])
               PROVE  \E i \in Nat : Asks(JobQueue', i, k) /\ NumberAt(JobQueue', i) = m
    BY Zenon DEF AllQueued
  <2>1. PICK i \in Nat : Asks(JobQueue, i, k) /\ NumberAt(JobQueue, i) = m
    BY DEF AllQueued
  <2>2. i >= 1 /\ i # 1
    BY <2>1 DEF Asks, AskedAt
  <2>3. i - 1 \in Nat /\ i - 1 >= 1 /\ (i - 1) + 1 = i
    BY <2>2
  <2>4. Asks(JobQueue', i - 1, k) /\ NumberAt(JobQueue', i - 1) = m
    BY <2>1, <2>3, TailAsks
  <2> QED BY <2>3, <2>4
<1> QED BY <1>3, <1>4

\* A job that asks nothing leaves every connection as it was.
LEMMA QuietInStep ==
  ASSUME ChatInvariant, AnswerInvariant, HandleJob, UNCHANGED clientVars,
         Head(JobQueue).type # "message" \/ ~HasAnswer(Head(JobQueue).packet),
         NEW k \in Connections, NEW h \in Nat, NEW r \in Nat, InStep(k, h, r)
  PROVE  InStep(k, h, r)'
<1>1. /\ h <= r /\ OnTheWay(k, r) /\ InQueue(k, h, r) /\ AllQueued(k, h, r)
      /\ TextsHandled(k, h) /\ AnswersHandled(k, h) /\ AllAnswered(k, h)
      /\ ((\A id \in opened : id[2] # k) => r = 0)
  BY DEF InStep
<1>2. /\ ServerTypeOK /\ PlacedInGrid /\ JobQueue \in Seq(Jobs) /\ opened \subseteq SessionIDs
      /\ JobQueue # <<>> /\ JobQueue' = Tail(JobQueue)
  BY HandleKinds DEF ChatInvariant, ContentInvariant, AnswerInvariant, ServerTypeOK
<1>3. /\ told' = told /\ killed \subseteq killed' /\ UNCHANGED <<opened, closed>>
      /\ \A id \in SessionIDs : Silent(id) => Silent(id)'
  BY <1>2, QuietJob
<1>4. UNCHANGED <<asked, sendBuf, sock, up>>
  BY DEF clientVars
<1>5. OnTheWay(k, r)' /\ ((\A id \in opened' : id[2] # k) => r = 0)
  BY <1>1, <1>3, <1>4 DEF OnTheWay
<1>6. ~Asks(JobQueue, 1, k)
  BY <1>2 DEF Asks, AskedAt
<1>7. InQueue(k, h, r)' /\ AllQueued(k, h, r)'
  BY <1>1, <1>2, <1>3, <1>4, <1>6, QueueShifts
<1>8. TextsHandled(k, h)' /\ AnswersHandled(k, h)' /\ AllAnswered(k, h)'
  BY <1>1, <1>2, <1>3, <1>4, ToldFrame
<1> QED BY <1>1, <1>5, <1>7, <1>8 DEF InStep

\* What is told of one connection is no answer on another.
LEMMA OtherRequestInStep ==
  ASSUME ChatInvariant, AnswerInvariant, HandleJob, UNCHANGED clientVars,
         Head(JobQueue).type = "message", HasAnswer(Head(JobQueue).packet),
         NEW k \in Connections, k # Head(JobQueue).session[2],
         NEW h \in Nat, NEW r \in Nat, InStep(k, h, r)
  PROVE  InStep(k, h, r)'
<1>1. PICK id \in SessionIDs : id = Head(JobQueue).session
  BY HeadRequest
<1>2. PICK msg \in ClientMessages : msg = Head(JobQueue).packet
  BY HeadRequest
<1>3. PICK T : RequestEffects(id, msg, T)
  BY <1>1, <1>2, RequestHandled
<1>4. /\ id[2] \in Connections /\ id[2] # k /\ msg.type \in {"ReqLogin", "ReqSectorMove", "ReqMessage"}
      /\ JobQueue' = Tail(JobQueue) /\ JobQueue # <<>> /\ Asks(JobQueue, 1, id[2])
  BY <1>1, <1>2, HeadRequest
<1>5. /\ h <= r /\ OnTheWay(k, r) /\ InQueue(k, h, r) /\ AllQueued(k, h, r)
      /\ TextsHandled(k, h) /\ AnswersHandled(k, h) /\ AllAnswered(k, h)
      /\ ((\A d \in opened : d[2] # k) => r = 0)
  BY DEF InStep
<1>6. /\ UNCHANGED <<asked, sendBuf, sock, up, opened, closed>> /\ Tells(T, Answer(msg)) /\ ToldOK
      /\ JobQueue \in Seq(Jobs) /\ opened \subseteq SessionIDs
  BY <1>3 DEF clientVars, RequestEffects, AnswerInvariant, ChatInvariant, ContentInvariant, ServerTypeOK
<1>7. OnTheWay(k, r)' /\ ((\A d \in opened' : d[2] # k) => r = 0)
  BY <1>5, <1>6 DEF OnTheWay
<1>8. ~Asks(JobQueue, 1, k)
  BY <1>4 DEF Asks, AskedAt
<1>9. InQueue(k, h, r)' /\ AllQueued(k, h, r)'
  BY <1>4, <1>5, <1>6, <1>8, QueueShifts
<1>10. Answer(msg).type = "ResMessage" => Answer(msg).text[1] # k
  BY <1>1, <1>2, <1>4, AnsweredText
<1>11. \A d \in SessionIDs : \A i \in Nat : TextAt(d, i, k)' => TextAt(d, i, k) /\ told'[d][i] = told[d][i]
  BY <1>6, <1>10, MoreTexts
<1>12. TextsHandled(k, h)'
  <2> SUFFICES ASSUME NEW d \in SessionIDs, NEW i \in Nat, TextAt(d, i, k)'
               PROVE  /\ told'[d][i].text[2] \in Nat /\ told'[d][i].text[2] + 2 <= h
                      /\ \A j \in Nat : i < j /\ TextAt(d, j, k)' => told'[d][i].text[2] < told'[d][j].text[2]
    BY DEF TextsHandled
  <2>1. \A l \in Nat : TextAt(d, l, k) =>
           /\ told[d][l].text[2] \in Nat /\ told[d][l].text[2] + 2 <= h
           /\ \A j \in Nat : l < j /\ TextAt(d, j, k) => told[d][l].text[2] < told[d][j].text[2]
    BY <1>5, Zenon DEF TextsHandled
  <2> QED BY <1>11, <2>1
\* A session of k may have been told a text of another connection.
<1>13. ASSUME NEW d \in SessionIDs, d[2] = k
       PROVE  /\ Own(d)' = Own(d) /\ \A i \in Own(d) : told'[d][i] = told[d][i]
              /\ \A n : Answered(d, n) => Answered(d, n)'
  <2>1. \A n : Answered(d, n) => Answered(d, n)'
    BY <1>6, MoreTold
  <2>2. CASE d \notin T
    BY <1>6, <2>1, <2>2, MoreTold
  <2>3. CASE d \in T
    <3>1. msg.type = "ReqMessage"
      BY <1>3, <1>4, <1>13, <2>3 DEF RequestEffects
    <3>2. Answer(msg).type = "ResMessage" /\ Answer(msg).text[1] # d[2]
      BY <1>4, <1>10, <1>13, <3>1, AnswerNumber
    <3>3. \E new \in Nat :
            /\ \A i \in DOMAIN told[d] : told'[d][i] = told[d][i]
            /\ Own(d)' = Own(d) \cup IF Answer(msg).type # "ResMessage" \/ Answer(msg).text[1] = d[2] THEN {new} ELSE {}
      BY <1>6, <2>3, MoreTold
    <3>4. Own(d)' = Own(d)
      BY <3>2, <3>3
    <3> QED BY <2>1, <3>3, <3>4 DEF Own
  <2> QED BY <2>2, <2>3
<1>14. AnswersHandled(k, h)'
  <2> SUFFICES ASSUME NEW d \in SessionIDs, d[2] = k, NEW i \in Own(d)'
               PROVE  LET l == Number(told'[d][i])
                      IN /\ l \in 1 .. h /\ HasAnswer(asked'[k][l]) /\ told'[d][i] = Answer(asked'[k][l])
                         /\ \A j \in Own(d)' : i < j => l < Number(told'[d][j])
                         /\ \A m \in 1 .. l - 1 : HasAnswer(asked'[k][m]) => Answered(d, m)'
    BY Zenon DEF AnswersHandled
  <2>1. i \in Own(d) /\ told'[d][i] = told[d][i]
    BY <1>13
  <2>2. PICK l : l = Number(told[d][i])
    OBVIOUS
  <2>3. /\ l \in 1 .. h /\ HasAnswer(asked[k][l]) /\ told[d][i] = Answer(asked[k][l])
        /\ \A j \in Own(d) : i < j => l < Number(told[d][j])
        /\ \A m \in 1 .. l - 1 : HasAnswer(asked[k][m]) => Answered(d, m)
    BY <1>5, <2>1, <2>2, Zenon DEF AnswersHandled
  <2>4. \A j \in Own(d)' : i < j => l < Number(told'[d][j])
    BY <1>13, <2>3
  <2>5. \A m \in 1 .. l - 1 : HasAnswer(asked'[k][m]) => Answered(d, m)'
    BY <1>6, <1>13, <2>3
  <2> QED BY <1>6, <2>1, <2>2, <2>3, <2>4, <2>5
<1>15. AllAnswered(k, h)'
  <2> SUFFICES ASSUME NEW d \in opened' \ (closed' \cup killed'), d[2] = k, NEW m \in 1 .. h, HasAnswer(asked'[k][m])
               PROVE  Answered(d, m)' \/ (m > 2 /\ Silent(d)')
    BY Zenon DEF AllAnswered
  <2>1. d \in SessionIDs /\ d \in opened \ (closed \cup killed) /\ d # id /\ HasAnswer(asked[k][m])
    BY <1>3, <1>4, <1>6 DEF RequestEffects
  <2>2. Answered(d, m) \/ (m > 2 /\ Silent(d))
    BY <1>5, <2>1 DEF AllAnswered
  <2>3. Silent(d) => Silent(d)'
    BY <1>3, <2>1 DEF RequestEffects
  <2> QED BY <1>13, <2>1, <2>2, <2>3
<1> QED BY <1>5, <1>7, <1>9, <1>12, <1>14, <1>15 DEF InStep

\* The content thread keeps the invariant, whatever job it takes.
LEMMA HandleKeepsAnswers ==
  ASSUME ChatInvariant, AnswerInvariant, HandleJob, UNCHANGED <<clientVars, heard>>
  PROVE  AnswerInvariant'
<1>1. /\ UNCHANGED <<asked, sendBuf, sock, state, heard, conns, up>>
      /\ ServerTypeOK /\ PlacedInGrid /\ StagesOK /\ ToldOK /\ opened \subseteq SessionIDs
  BY DEF clientVars, ChatInvariant, ContentInvariant, ServerTypeOK, AnswerInvariant
<1>2. RequestsNumbered'
  BY <1>1 DEF AnswerInvariant, RequestsNumbered
<1>3. CASE Head(JobQueue).type # "message" \/ ~HasAnswer(Head(JobQueue).packet)
  <2>1. told' = told /\ UNCHANGED <<opened, closed>> /\ PlacedInGrid'
    BY <1>1, <1>3, QuietJob
  <2>2. StagesOK' /\ ToldOK'
    BY <1>1, <2>1, StagesStay DEF ToldOK
  <2>3. ASSUME NEW k \in Connections PROVE \E h, r \in 0 .. Len(asked'[k]) : InStep(k, h, r)'
    <3>1. PICK h \in 0 .. Len(asked[k]), r \in 0 .. Len(asked[k]) : InStep(k, h, r)
      BY DEF AnswerInvariant
    <3>2. Len(asked[k]) \in Nat
      BY DEF ChatInvariant, ClientTypeOK
    <3>3. InStep(k, h, r)'
      BY <1>3, <3>1, <3>2, QuietInStep
    <3> QED BY <1>1, <3>1, <3>3
  <2> QED BY <1>2, <2>1, <2>2, <2>3 DEF AnswerInvariant
<1>4. CASE Head(JobQueue).type = "message" /\ HasAnswer(Head(JobQueue).packet)
  <2>1. PICK id \in SessionIDs : id = Head(JobQueue).session
    BY <1>4, HeadRequest
  <2>2. PICK msg : msg = Head(JobQueue).packet
    OBVIOUS
  <2>3. PICK T : RequestEffects(id, msg, T)
    BY <1>4, <2>1, <2>2, RequestHandled
  <2>4. /\ T \subseteq opened \ closed /\ Tells(T, Answer(msg)) /\ UNCHANGED <<opened, closed>> /\ PlacedInGrid'
        /\ Answer(msg) \in Replies /\ id[2] \in Connections
        /\ Answer(msg).type = "ResMessage" => Answer(msg).text[1] = id[2]
    BY <1>4, <2>1, <2>2, <2>3, AnsweredText, HeadRequest DEF RequestEffects
  <2>5. StagesOK'
    <3>1. ASSUME NEW d \in opened
          PROVE  \A i \in DOMAIN told[d] : i \in DOMAIN told'[d] /\ told'[d][i] = told[d][i]
      BY <1>1, <2>4, MoreTold
    <3> QED BY <1>1, <2>4, <3>1, StagesStay
  <2>6. ToldOK'
    <3>1. told \in [SessionIDs -> Seq(Replies)]
      BY <1>1 DEF ToldOK
    <3>2. told' \in [SessionIDs -> Seq(Replies)]
      BY <2>4, <3>1 DEF Tells
    <3>3. ASSUME NEW d \in SessionIDs, told'[d] # <<>> PROVE d \in opened' \ closed'
      BY <1>1, <2>4, <3>3 DEF Tells, ToldOK
    <3>4. ASSUME NEW d \in SessionIDs, NEW i \in DOMAIN told'[d], told'[d][i].type = "ResMessage"
          PROVE  told'[d][i].text[1] \in Connections
      <4>1. CASE d \notin T
        <5>1. told'[d] = told[d]
          BY <1>1, <2>4, <4>1, MoreTold
        <5> QED BY <1>1, <3>4, <5>1 DEF ToldOK
      <4>2. CASE d \in T
        <5>1. \E new \in Nat :
                /\ DOMAIN told'[d] = DOMAIN told[d] \cup {new} /\ told'[d][new] = Answer(msg)
                /\ \A j \in DOMAIN told[d] : told'[d][j] = told[d][j]
          BY <1>1, <2>4, <4>2, MoreTold
        <5>2. \A j \in DOMAIN told[d] : told[d][j].type = "ResMessage" => told[d][j].text[1] \in Connections
          BY <1>1 DEF ToldOK
        <5> QED BY <2>4, <3>4, <5>1, <5>2
      <4> QED BY <4>1, <4>2
    <3> QED BY <3>2, <3>3, <3>4 DEF ToldOK
  <2>7. ASSUME NEW k \in Connections PROVE \E h, r \in 0 .. Len(asked'[k]) : InStep(k, h, r)'
    <3>1. PICK h \in 0 .. Len(asked[k]), r \in 0 .. Len(asked[k]) : InStep(k, h, r)
      BY DEF AnswerInvariant
    <3>2. Len(asked[k]) \in Nat
      BY DEF ChatInvariant, ClientTypeOK
    <3>3. h \in Nat /\ r \in Nat /\ r <= Len(asked[k])
      BY <3>1, <3>2
    <3>4. CASE k = id[2]
      <4>1. InStep(id[2], h, r) /\ r <= Len(asked[id[2]])
        BY <3>1, <3>3, <3>4
      <4>2. InStep(id[2], Number(msg), r)' /\ Number(msg) \in 0 .. r
        BY <1>4, <2>1, <2>2, <3>3, <4>1, RequestInStep
      <4>3. Number(msg) \in 0 .. Len(asked[k])
        BY <3>2, <3>3, <4>2
      <4> QED BY <1>1, <3>1, <3>4, <4>2, <4>3
    <3>5. CASE k # id[2]
      <4>1. InStep(k, h, r)'
        BY <1>4, <2>1, <3>1, <3>3, <3>5, OtherRequestInStep
      <4> QED BY <1>1, <3>1, <4>1
    <3> QED BY <3>4, <3>5
  <2> QED BY <1>2, <2>4, <2>5, <2>6, <2>7 DEF AnswerInvariant
<1> QED BY <1>3, <1>4

-----------------------------------------------------------------------------
(* Every answer in its order *)

\* Each step keeps requests and answers in step.
LEMMA AnswersKept ==
  ASSUME ChatInvariant, AnswerInvariant, [Next]_vars
  PROVE  AnswerInvariant'
<1>0. ServerTypeOK' /\ ClientTypeOK
  BY StepOfServer, ContentStep DEF ChatInvariant, ContentInvariant
<1>1. CASE UNCHANGED vars
  BY <1>0, <1>1, CallbacksKeepAnswers DEF vars, networkVars
<1>2. CASE Accept \/ OpenSession
  <2>1. UNCHANGED <<clientVars, heard>>
    BY <1>2 DEF Accept, OpenSession
  <2>2. UNCHANGED serverVars \/ \E id \in SessionIDs : OnClientJoin(id)
    BY <1>0, <1>2, OpenedJoin
  <2> QED BY <1>0, <2>1, <2>2, CallbacksKeepAnswers
<1>3. ASSUME NEW id \in SessionIDs, Receive(id) PROVE AnswerInvariant'
  BY <1>3, ReceiveKeepsAnswers
<1>4. ASSUME NEW id \in SessionIDs, Leave(id) PROVE AnswerInvariant'
  BY <1>0, <1>4, CallbacksKeepAnswers DEF Leave, networkVars
<1>5. CASE Server
  <2>1. UNCHANGED <<clientVars, heard>>
    BY <1>5 DEF Server, networkVars
  <2>2. CASE HandleJob
    BY <2>1, <2>2, HandleKeepsAnswers
  <2> QED BY <1>0, <1>5, <2>1, <2>2, CallbacksKeepAnswers DEF Server, UpdateThread
<1>6. ASSUME NEW c \in Clients, Client(c) PROVE AnswerInvariant'
  BY <1>6, ClientsKeepAnswers
<1> QED BY <1>1, <1>2, <1>3, <1>4, <1>5, <1>6 DEF Next

\* At first nothing was asked and nobody told anything.
LEMMA InitAnswers == Init => AnswerInvariant
<1> SUFFICES ASSUME Init PROVE AnswerInvariant
  OBVIOUS
<1>1. /\ state = [c \in Clients |-> "Disconnected"] /\ sock = [c \in Clients |-> 0]
      /\ sendBuf = [c \in Clients |-> <<>>] /\ conns = 0 /\ up = [k \in Connections |-> <<>>]
      /\ asked = [k \in Connections |-> <<>>] /\ opened = {} /\ JobQueue = <<>>
      /\ DOMAIN characters = {} /\ told = [id \in SessionIDs |-> <<>>] /\ heard = [c \in Clients |-> 0]
  BY DEF Init, ClientInit, ServerInit, Net!Init
<1>2. RequestsNumbered /\ PlacedInGrid
  BY <1>1 DEF RequestsNumbered, PlacedInGrid
<1>3. StagesOK
  BY <1>1 DEF StagesOK
<1>4. ToldOK
  BY <1>1 DEF ToldOK
<1>5. ASSUME NEW k \in Connections PROVE \E h, r \in 0 .. Len(asked[k]) : InStep(k, h, r)
  <2>1. asked[k] = <<>> /\ up[k] = <<>> /\ Len(asked[k]) = 0 /\ 0 \in 0 .. Len(asked[k])
    BY <1>1
  <2>2. OnTheWay(k, 0)
    <3>1. \A c \in Clients : sendBuf[c] = <<>>
      BY <1>1
    <3> QED BY <2>1, <3>1 DEF OnTheWay, Follows
  <2>3. InQueue(k, 0, 0) /\ AllQueued(k, 0, 0)
    BY <1>1 DEF InQueue, AllQueued, Asks, AskedAt
  <2>4. TextsHandled(k, 0) /\ AnswersHandled(k, 0) /\ AllAnswered(k, 0)
    BY <1>1 DEF TextsHandled, TextAt, AnswersHandled, Own, AllAnswered
  <2>5. InStep(k, 0, 0)
    BY <2>2, <2>3, <2>4 DEF InStep
  <2> QED BY <2>1, <2>5
<1> QED BY <1>2, <1>3, <1>4, <1>5 DEF AnswerInvariant

\* The numbers of the answers name the requests they answer.
LEMMA AnswersAreInOrder ==
  ASSUME ChatInvariant, AnswerInvariant
  PROVE  AnsweredInOrder
<1> SUFFICES ASSUME NEW id \in opened PROVE AnswersInOrder(id) /\ TextsInOrder(id)
  BY DEF AnsweredInOrder
<1>1. /\ id \in SessionIDs /\ id[2] \in Connections /\ ToldOK
      /\ asked[id[2]] \in Seq(ClientMessages) /\ told[id] \in Seq(Replies)
  BY ConnectionTypes DEF ChatInvariant, ContentInvariant, ServerTypeOK, ClientTypeOK, AnswerInvariant, ToldOK
<1>2. \A k \in Connections : \E h \in Nat : h <= Len(asked[k]) /\ TextsHandled(k, h) /\ AnswersHandled(k, h)
  <2> SUFFICES ASSUME NEW k \in Connections
               PROVE  \E h \in Nat : h <= Len(asked[k]) /\ TextsHandled(k, h) /\ AnswersHandled(k, h)
    OBVIOUS
  <2>1. PICK h \in 0 .. Len(asked[k]), r \in 0 .. Len(asked[k]) : InStep(k, h, r)
    BY DEF AnswerInvariant
  <2>2. Len(asked[k]) \in Nat
    BY DEF ChatInvariant, ClientTypeOK
  <2>3. h \in Nat /\ h <= Len(asked[k])
    BY <2>1, <2>2
  <2> QED BY <2>1, <2>3 DEF InStep
<1>3. AnswersInOrder(id)
  <2> DEFINE requests == asked[id[2]]
             request == [i \in Own(id) |-> Number(told[id][i])]
  <2>1. PICK h \in Nat : h <= Len(requests) /\ AnswersHandled(id[2], h)
    BY <1>1, <1>2
  <2>2. ASSUME NEW i \in Own(id)
        PROVE  LET n == Number(told[id][i])
               IN /\ n \in 1 .. h /\ HasAnswer(requests[n]) /\ told[id][i] = Answer(requests[n])
                  /\ \A j \in Own(id) : i < j => n < Number(told[id][j])
                  /\ \A m \in 1 .. n - 1 : HasAnswer(requests[m]) => Answered(id, m)
    BY <1>1, <2>1, Zenon DEF AnswersHandled
  <2>3. \A n \in 1 .. h : n \in DOMAIN requests
    BY <1>1, <2>1
  <2>4. request \in [Own(id) -> DOMAIN requests]
    BY <2>2, <2>3
  <2>5. ASSUME NEW i \in Own(id)
        PROVE  /\ HasAnswer(requests[request[i]]) /\ told[id][i] = Answer(requests[request[i]])
               /\ \A j \in Own(id) : i < j => request[i] < request[j]
               /\ \A n \in 1 .. request[i] - 1 : HasAnswer(requests[n]) => \E j \in Own(id) : request[j] = n
    BY <2>2 DEF Answered
  <2> HIDE DEF request
  <2> QED BY <2>4, <2>5 DEF AnswersInOrder
<1>4. TextsInOrder(id)
  <2> SUFFICES ASSUME NEW i \in DOMAIN told[id], NEW j \in DOMAIN told[id], i < j,
                      told[id][i].type = "ResMessage", told[id][j].type = "ResMessage",
                      told[id][i].text[1] = told[id][j].text[1]
               PROVE  told[id][i].text[2] < told[id][j].text[2]
    BY DEF TextsInOrder
  <2>1. PICK k \in Connections : k = told[id][i].text[1]
    BY <1>1 DEF ToldOK
  <2>2. PICK h \in Nat : TextsHandled(k, h)
    BY <1>2
  <2>3. i \in Nat /\ j \in Nat /\ TextAt(id, i, k) /\ TextAt(id, j, k)
    BY <1>1, <2>1 DEF TextAt
  <2> QED BY <1>1, <2>2, <2>3 DEF TextsHandled
<1> QED BY <1>3, <1>4

\* What a session is told besides what others say are the answers to what its client
\* asked on this connection, each once, in that order and with none left out before
\* another; and what others say comes once and in the order said.
THEOREM AnswersCorrect == Spec => []AnsweredInOrder
<1>1. Init => ChatInvariant /\ AnswerInvariant
  BY InitChatInvariant, InitAnswers
<1>2. ChatInvariant /\ AnswerInvariant /\ [Next]_vars => AnswerInvariant'
  BY AnswersKept
<1>3. ChatInvariant /\ AnswerInvariant => AnsweredInOrder
  BY AnswersAreInOrder
<1> QED BY <1>1, <1>2, <1>3, ChatInvariantHolds, PTL DEF Spec
==============================================================================
