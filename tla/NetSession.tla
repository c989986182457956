----------------------------- MODULE NetSession -----------------------------
(***************************************************************************)
(* The life of one Session slot, shared by NetServer and NetClient: the    *)
(* public calls SendPacket and KillSession, the worker thread with its     *)
(* RecvPost and SendPost, the initialisation and release of a slot, and    *)
(* the completion port (external) that carries its I/O.                    *)
(*                                                                         *)
(* A thread has two frames.  pc[t] is where its own loop stands (accept or *)
(* worker loop) and at[t] the session it works on; op[t] is where it       *)
(* stands in a SendPacket, KillSession or DisconnectSession it has called  *)
(* and arg[t] the session ID that call was given.  While op[t] is not      *)
(* "none" the outer frame waits.  One action is one access to the shared   *)
(* state, or several when all but one of them touch state no other thread  *)
(* can see at that point.                                                  *)
(*                                                                         *)
(* A session ID is the pair <<slot, count>> of its upper 16 and lower 48   *)
(* bits; SessionID[s] holds the lower part, 0 for a released slot.  The    *)
(* packets of a send queue are counted, not named: nothing here depends on *)
(* what they contain.                                                      *)
(*                                                                         *)
(* Operators named ..._bug are no part of the model: each is the operator  *)
(* after it with a plausible programming error, kept to show which         *)
(* property notices that error.                                            *)
(***************************************************************************)
EXTENDS Integers, FiniteSets

CONSTANTS
  TotalSessionCnt,  \* slots of SessionArr
  Openers,          \* threads that open sessions (accept thread, Connect callers)
  Workers,          \* IOCP worker threads
  Callers,          \* application threads that call SendPacket / KillSession
  MaxID,            \* bound: session IDs handed out
  MaxQueue,         \* bound: a call to SendPacket starts below this many packets
  CallbackIDs       \* IDs a callback calls the API with: "none", its "own", or "any"
                    \* that was ever announced

Threads == Openers \cup Workers \cup Callers
Slots   == 0 .. TotalSessionCnt - 1

ASSUME SlotAssumption   == TotalSessionCnt \in Nat \ {0}
ASSUME ThreadAssumption ==
  /\ IsFiniteSet(Threads)
  /\ Openers \cap Workers = {}
  /\ Callers \cap (Openers \cup Workers) = {}
ASSUME BoundAssumption  == MaxID \in Nat /\ MaxQueue \in Nat
                             /\ CallbackIDs \in {"none", "own", "any"}

VARIABLES
  \* struct Session, one value per slot
  SessionUseFlag, ReleaseFlag, RefCnt, SessionID,
  SendFlag, SendQ, SendPacketCnt,
  \* the server object
  SessionIDCnt, FreeSessionStack,
  \* the kernel: operations and completions per slot, broken connections
  io, gone,
  \* the threads: outer frame, called frame, one local integer
  pc, at, op, arg, tmp,
  \* history: IDs given to OnClientJoin / OnClientLeave, packet references held
  joined, left, pktRefs

idVars   == <<SessionUseFlag, ReleaseFlag, SessionID, SessionIDCnt, FreeSessionStack>>
sendVars == <<SendFlag, SendQ, SendPacketCnt, pktRefs>>
netVars  == <<io, gone>>
thrVars  == <<pc, at, op, arg, tmp>>
histVars == <<joined, left>>
sesVars  == <<idVars, RefCnt, sendVars, netVars, thrVars, histVars>>

IoKind == {"recvPend", "recvOk", "recvErr", "sendPend", "sendOk", "sendErr", "wake"}

FindSession(id) == id[1]
Target(t)       == FindSession(arg[t])
IdOf(s)         == <<s, SessionID[s]>>
NoID            == <<0, 0>>

IncrementSessionRef(s) == RefCnt' = [RefCnt EXCEPT ![s] = @ + 1]
DecrementSessionRef(s) == RefCnt' = [RefCnt EXCEPT ![s] = @ - 1]

\* The outer frame runs only while no call is open.  A local that is not used
\* any more goes back to its initial value.
Runs(t, l)   == pc[t] = l /\ op[t] = "none"
Goto(t, l)   == pc' = [pc EXCEPT ![t] = l] /\ UNCHANGED <<at, op, arg, tmp>>
InCall(t, l) == op[t] = l
CallGoto(t, l) ==
  /\ op' = [op EXCEPT ![t] = l]
  /\ arg' = IF l = "none" THEN [arg EXCEPT ![t] = NoID] ELSE arg
  /\ UNCHANGED <<pc, at, tmp>>
Call(t, l, id) == op' = [op EXCEPT ![t] = l] /\ arg' = [arg EXCEPT ![t] = id]

\* The I/O of a slot after CancelIoEx: what was pending completes with failure.
Cancelled(r) == [r EXCEPT !["recvPend"] = 0, !["recvErr"] = @ + r["recvPend"],
                          !["sendPend"] = 0, !["sendErr"] = @ + r["sendPend"]]
CancelIoEx(s) == io' = [io EXCEPT ![s] = Cancelled(@)]

NoIo == [k \in IoKind |-> 0]

SesInit ==
  /\ SessionUseFlag = [s \in Slots |-> FALSE]
  /\ ReleaseFlag = [s \in Slots |-> TRUE]
  /\ RefCnt = [s \in Slots |-> 0]
  /\ SessionID = [s \in Slots |-> 0]
  /\ SendFlag = [s \in Slots |-> 0]
  /\ SendQ = [s \in Slots |-> 0]
  /\ SendPacketCnt = [s \in Slots |-> 0]
  /\ SessionIDCnt = 0
  /\ FreeSessionStack = Slots
  /\ io = [s \in Slots |-> NoIo]
  /\ gone = [s \in Slots |-> FALSE]
  /\ pc = [t \in Threads |-> IF t \in Openers THEN "opened"
                             ELSE IF t \in Workers THEN "gqcs" ELSE "idle"]
  /\ at = [t \in Threads |-> 0]
  /\ op = [t \in Threads |-> "none"]
  /\ arg = [t \in Threads |-> NoID]
  /\ tmp = [t \in Threads |-> 0]
  /\ joined = {}
  /\ left = {}
  /\ pktRefs = [s \in Slots |-> 0]

-----------------------------------------------------------------------------
(* SendPacket(sessionID, packet) *)

GuardHolds_bug(t) == ReleaseFlag[Target(t)] = FALSE

\* The guard both public calls evaluate while they hold a reference.  The code reads
\* the flag first and the ID then; with the reference held and the flag found FALSE the
\* ID stays what it is, so that both are read at once here.
GuardHolds(t) ==
  /\ ReleaseFlag[Target(t)] = FALSE
  /\ SessionID[Target(t)] = arg[t][2]

SendPacketRef(t) ==
  /\ InCall(t, "send")
  /\ IncrementSessionRef(Target(t))
  /\ CallGoto(t, "sendCheck")
  /\ UNCHANGED <<idVars, sendVars, netVars, histVars>>

SendPacketCheck(t) ==
  /\ InCall(t, "sendCheck")
  /\ CallGoto(t, IF GuardHolds(t) THEN "sendEnqueue" ELSE "sendUndo")
  /\ UNCHANGED <<idVars, RefCnt, sendVars, netVars, histVars>>

SendPacketEnqueue(t) ==
  /\ InCall(t, "sendEnqueue")
  /\ SendQ' = [SendQ EXCEPT ![Target(t)] = @ + 1]
  /\ pktRefs' = [pktRefs EXCEPT ![Target(t)] = @ + 1]
  /\ CallGoto(t, "sendPost")
  /\ UNCHANGED <<idVars, RefCnt, SendFlag, SendPacketCnt, netVars, histVars>>

\* The reference of the call passes to the posted wake-up.  Once Stop has closed
\* the port the post fails and the reference stays taken: no worker is left, so
\* that is a wake-up nobody serves.
SendPacketPost(t) ==
  /\ InCall(t, "sendPost")
  /\ io' = [io EXCEPT ![Target(t)]["wake"] = @ + 1]
  /\ CallGoto(t, "none")
  /\ UNCHANGED <<idVars, RefCnt, sendVars, gone, histVars>>

\* The else branch: the decrement's result is not looked at.
SendPacketUndo(t) ==
  /\ InCall(t, "sendUndo")
  /\ DecrementSessionRef(Target(t))
  /\ CallGoto(t, "none")
  /\ UNCHANGED <<idVars, sendVars, netVars, histVars>>

-----------------------------------------------------------------------------
(* KillSession(sessionID) *)

KillSessionRef(t) ==
  /\ InCall(t, "kill")
  /\ IncrementSessionRef(Target(t))
  /\ CallGoto(t, "killCheck")
  /\ UNCHANGED <<idVars, sendVars, netVars, histVars>>

KillSessionCheck(t) ==
  /\ InCall(t, "killCheck")
  /\ CallGoto(t, IF GuardHolds(t) THEN "killUse" ELSE "killUndo")
  /\ UNCHANGED <<idVars, RefCnt, sendVars, netVars, histVars>>

KillSessionUse(t) ==
  /\ InCall(t, "killUse")
  /\ SessionUseFlag' = [SessionUseFlag EXCEPT ![Target(t)] = FALSE]
  /\ CallGoto(t, "killCancel")
  /\ UNCHANGED <<ReleaseFlag, SessionID, SessionIDCnt, FreeSessionStack>>
  /\ UNCHANGED <<RefCnt, sendVars, netVars, histVars>>

KillSessionCancel(t) ==
  /\ InCall(t, "killCancel")
  /\ CancelIoEx(Target(t))
  /\ CallGoto(t, "killDec")
  /\ UNCHANGED <<idVars, RefCnt, sendVars, gone, histVars>>

KillSessionDec(t) ==
  /\ InCall(t, "killDec")
  /\ DecrementSessionRef(Target(t))
  /\ CallGoto(t, IF RefCnt[Target(t)] = 1 THEN "cas" ELSE "none")
  /\ UNCHANGED <<idVars, sendVars, netVars, histVars>>

KillSessionUndo(t) ==
  /\ InCall(t, "killUndo")
  /\ DecrementSessionRef(Target(t))
  /\ CallGoto(t, "none")
  /\ UNCHANGED <<idVars, sendVars, netVars, histVars>>

-----------------------------------------------------------------------------
(* DisconnectSession(session), called by whoever brought RefCnt to zero *)

DisconnectTo(t, mayRelease, flag, l) ==
  /\ InCall(t, "cas")
  /\ IF mayRelease
     THEN /\ ReleaseFlag' = [ReleaseFlag EXCEPT ![Target(t)] = flag]
          /\ CallGoto(t, l)
     ELSE /\ UNCHANGED ReleaseFlag
          /\ CallGoto(t, "none")
  /\ UNCHANGED <<SessionUseFlag, SessionID, SessionIDCnt, FreeSessionStack>>
  /\ UNCHANGED <<RefCnt, sendVars, netVars, histVars>>

Releasable(s) == ReleaseFlag[s] = FALSE /\ RefCnt[s] = 0

\* The flag is left alone; the count is not compared; the callback is skipped.
DisconnectUnset_bug(t) == DisconnectTo(t, Releasable(Target(t)), FALSE, "leave")
DisconnectUncounted_bug(t) == DisconnectTo(t, ReleaseFlag[Target(t)] = FALSE, TRUE, "leave")
DisconnectSilent_bug(t) == DisconnectTo(t, Releasable(Target(t)), TRUE, "release")

\* InterlockedCompareExchange128: {FALSE, 0} becomes {TRUE, 0}.
DisconnectCas(t) == DisconnectTo(t, Releasable(Target(t)), TRUE, "leave")

OnClientLeave(t) ==
  /\ InCall(t, "leave")
  /\ left' = left \cup {IdOf(Target(t))}
  /\ CallGoto(t, "release")
  /\ UNCHANGED <<idVars, RefCnt, sendVars, netVars, joined>>

\* The packets in SendBuffer are forgotten.
ReleaseSession_bug(t) ==
  LET s == Target(t) IN
  /\ InCall(t, "release")
  /\ SessionID' = [SessionID EXCEPT ![s] = 0]
  /\ pktRefs' = [pktRefs EXCEPT ![s] = @ - SendQ[s]]
  /\ SendQ' = [SendQ EXCEPT ![s] = 0]
  /\ SendPacketCnt' = [SendPacketCnt EXCEPT ![s] = 0]
  /\ gone' = [gone EXCEPT ![s] = FALSE]
  /\ CallGoto(t, "push")
  /\ UNCHANGED <<SessionUseFlag, ReleaseFlag, SessionIDCnt, FreeSessionStack>>
  /\ UNCHANGED <<RefCnt, SendFlag, io, histVars>>

\* ReleaseSession up to the Push: the low ID bits are cleared, the socket is
\* closed, queued and in-flight packets are given back.
ReleaseSession(t) ==
  LET s == Target(t) IN
  /\ InCall(t, "release")
  /\ SessionID' = [SessionID EXCEPT ![s] = 0]
  /\ pktRefs' = [pktRefs EXCEPT ![s] = @ - SendQ[s] - SendPacketCnt[s]]
  /\ SendQ' = [SendQ EXCEPT ![s] = 0]
  /\ SendPacketCnt' = [SendPacketCnt EXCEPT ![s] = 0]
  /\ gone' = [gone EXCEPT ![s] = FALSE]
  /\ CallGoto(t, "push")
  /\ UNCHANGED <<SessionUseFlag, ReleaseFlag, SessionIDCnt, FreeSessionStack>>
  /\ UNCHANGED <<RefCnt, SendFlag, io, histVars>>

ReleasePush(t) ==
  /\ InCall(t, "push")
  /\ FreeSessionStack' = FreeSessionStack \cup {Target(t)}
  /\ CallGoto(t, "none")
  /\ UNCHANGED <<SessionUseFlag, ReleaseFlag, SessionID, SessionIDCnt>>
  /\ UNCHANGED <<RefCnt, sendVars, netVars, histVars>>

\* Where the outer loop of a thread starts over.
Home(t) == IF t \in Workers THEN "gqcs" ELSE "opened"

\* Nobody looks at the decremented count.
Finish_bug(t) ==
  /\ Runs(t, "final")
  /\ DecrementSessionRef(at[t])
  /\ pc' = [pc EXCEPT ![t] = Home(t)]
  /\ at' = IF t \in Workers THEN [at EXCEPT ![t] = 0] ELSE at
  /\ UNCHANGED <<idVars, sendVars, netVars, histVars, op, arg, tmp>>

\* Accept and worker loops end with: if (DecrementSessionRef() == 0)
\* DisconnectSession(session).
Finish(t) ==
  /\ Runs(t, "final")
  /\ DecrementSessionRef(at[t])
  /\ pc' = [pc EXCEPT ![t] = Home(t)]
  /\ at' = IF t \in Workers THEN [at EXCEPT ![t] = 0] ELSE at
  /\ IF RefCnt[at[t]] = 1
     THEN Call(t, "cas", <<at[t], 0>>)
     ELSE UNCHANGED <<op, arg>>
  /\ UNCHANGED <<idVars, sendVars, netVars, histVars, tmp>>

-----------------------------------------------------------------------------
(* GetFreeSession and InitSession, then the first RecvPost of the opener *)

\* Only openers pop and a push counts once it is complete; which slot Pop returns is
\* left open.
PopSession(t, s) ==
  /\ Runs(t, "pop")
  /\ s \in FreeSessionStack
  /\ FreeSessionStack' = FreeSessionStack \ {s}
  /\ pc' = [pc EXCEPT ![t] = "readID"]
  /\ at' = [at EXCEPT ![t] = s]
  /\ UNCHANGED <<SessionUseFlag, ReleaseFlag, SessionID, SessionIDCnt>>
  /\ UNCHANGED <<RefCnt, sendVars, netVars, histVars, op, arg, tmp>>

\* A Pop that fails has lowered Size and raises it again as its last step: another may
\* fail for that beside a free slot.
PopNothing(t) ==
  /\ Runs(t, "pop")
  /\ FreeSessionStack = {} \/ \E other \in Openers \ {t} : Runs(other, "opened")
  /\ Goto(t, "opened")
  /\ UNCHANGED <<idVars, RefCnt, sendVars, netVars, histVars>>

\* ++SessionIDCnt is a plain read, then a plain write.
GenerateSessionID(t) ==
  /\ Runs(t, "readID")
  /\ tmp' = [tmp EXCEPT ![t] = SessionIDCnt + 1]
  /\ pc' = [pc EXCEPT ![t] = "init"]
  /\ UNCHANGED <<idVars, RefCnt, sendVars, netVars, histVars, at, op, arg>>

\* The incremented counter is not stored.
InitSession_bug(t) ==
  LET s == at[t] IN
  /\ Runs(t, "init")
  /\ SessionUseFlag' = [SessionUseFlag EXCEPT ![s] = TRUE]
  /\ SessionID' = [SessionID EXCEPT ![s] = tmp[t]]
  /\ SendFlag' = [SendFlag EXCEPT ![s] = 0]
  /\ SendPacketCnt' = [SendPacketCnt EXCEPT ![s] = 0]
  /\ SendQ' = [SendQ EXCEPT ![s] = 0]
  /\ pc' = [pc EXCEPT ![t] = "initRef"]
  /\ tmp' = [tmp EXCEPT ![t] = 0]
  /\ UNCHANGED <<SessionIDCnt, ReleaseFlag, FreeSessionStack, RefCnt, pktRefs, netVars,
                 histVars, at, op, arg>>

\* Everything InitSession writes before it takes its reference.  The |= into
\* SessionID is an assignment because the slot's low bits are zero (PacketsReturned).
InitSession(t) ==
  LET s == at[t] IN
  /\ Runs(t, "init")
  /\ SessionUseFlag' = [SessionUseFlag EXCEPT ![s] = TRUE]
  /\ SessionIDCnt' = tmp[t]
  /\ SessionID' = [SessionID EXCEPT ![s] = tmp[t]]
  /\ SendFlag' = [SendFlag EXCEPT ![s] = 0]
  /\ SendPacketCnt' = [SendPacketCnt EXCEPT ![s] = 0]
  /\ SendQ' = [SendQ EXCEPT ![s] = 0]
  /\ pc' = [pc EXCEPT ![t] = "initRef"]
  /\ tmp' = [tmp EXCEPT ![t] = 0]
  /\ UNCHANGED <<ReleaseFlag, FreeSessionStack, RefCnt, pktRefs, netVars, histVars, at, op, arg>>

InitSessionRef(t) ==
  /\ Runs(t, "initRef")
  /\ IncrementSessionRef(at[t])
  /\ Goto(t, "publish")
  /\ UNCHANGED <<idVars, sendVars, netVars, histVars>>

InitSessionPublish(t) ==
  /\ Runs(t, "publish")
  /\ ReleaseFlag' = [ReleaseFlag EXCEPT ![at[t]] = FALSE]
  /\ Goto(t, "join")
  /\ UNCHANGED <<SessionUseFlag, SessionID, SessionIDCnt, FreeSessionStack>>
  /\ UNCHANGED <<RefCnt, sendVars, netVars, histVars>>

-----------------------------------------------------------------------------
(* What a callback may do on its thread: nothing, or one call of the API.  *)

Reach(s) == CASE CallbackIDs = "none" -> {}
              [] CallbackIDs = "own"  -> {IdOf(s)}
              [] CallbackIDs = "any"  -> joined \cup {IdOf(s)}

\* MaxQueue caps the packets and wake-ups a slot may have when a call starts.
SendRoom(s) == SendQ[s] < MaxQueue /\ io[s]["wake"] < MaxQueue

CallApi(t, ids) ==
  \/ \E id \in ids : SendRoom(FindSession(id)) /\ Call(t, "send", id)
  \/ \E id \in ids : Call(t, "kill", id)

Callback(t, s) == CallApi(t, Reach(s)) \/ UNCHANGED <<op, arg>>

\* Socket and completion port are bound, then OnClientJoin / OnConnect runs.
OnClientJoin(t) ==
  LET s == at[t] IN
  /\ Runs(t, "join")
  /\ joined' = joined \cup {IdOf(s)}
  /\ pc' = [pc EXCEPT ![t] = "rpUse"]
  /\ Callback(t, s)
  /\ UNCHANGED <<idVars, RefCnt, sendVars, netVars, left, at, tmp>>

-----------------------------------------------------------------------------
(* RecvPost(session): one more reference for the receive it posts.         *)

RecvPostUse(t) ==
  /\ Runs(t, "rpUse")
  /\ Goto(t, IF SessionUseFlag[at[t]] THEN "rpRef" ELSE "final")
  /\ UNCHANGED <<idVars, RefCnt, sendVars, netVars, histVars>>

RecvPostRef(t) ==
  /\ Runs(t, "rpRef")
  /\ IncrementSessionRef(at[t])
  /\ Goto(t, "rpRecv")
  /\ UNCHANGED <<idVars, sendVars, netVars, histVars>>

RecvPostRecv(t) ==
  /\ Runs(t, "rpRecv")
  /\ io' = [io EXCEPT ![at[t]]["recvPend"] = @ + 1]
  /\ Goto(t, "rpCancel")
  /\ UNCHANGED <<idVars, RefCnt, sendVars, gone, histVars>>

\* WSARecv on a broken connection (10004, 10022, 10053, 10054).
RecvPostFail(t) ==
  /\ Runs(t, "rpRecv")
  /\ gone[at[t]]
  /\ Goto(t, "rpUndo")
  /\ UNCHANGED <<idVars, RefCnt, sendVars, netVars, histVars>>

\* The reference taken for the receive is not given back.
RecvPostUndo_bug(t) ==
  /\ Runs(t, "rpUndo")
  /\ Goto(t, "final")
  /\ UNCHANGED <<idVars, RefCnt, sendVars, netVars, histVars>>

RecvPostUndo(t) ==
  /\ Runs(t, "rpUndo")
  /\ DecrementSessionRef(at[t])
  /\ Goto(t, "final")
  /\ UNCHANGED <<idVars, sendVars, netVars, histVars>>

\* No second look.
RecvPostCancel_bug(t) ==
  /\ Runs(t, "rpCancel")
  /\ Goto(t, "final")
  /\ UNCHANGED <<idVars, RefCnt, sendVars, netVars, histVars>>

\* The second look at SessionUseFlag: a KillSession whose CancelIoEx came too
\* early for this receive is made good here.
RecvPostCancel(t) ==
  /\ Runs(t, "rpCancel")
  /\ IF SessionUseFlag[at[t]] THEN UNCHANGED io ELSE CancelIoEx(at[t])
  /\ Goto(t, "final")
  /\ UNCHANGED <<idVars, RefCnt, sendVars, gone, histVars>>

-----------------------------------------------------------------------------
(* SendPost(session), always inside the worker's extra reference.          *)

SendPostUse(t) ==
  /\ Runs(t, "spUse")
  /\ Goto(t, IF SessionUseFlag[at[t]] THEN "spLock" ELSE "spUndo")
  /\ UNCHANGED <<idVars, RefCnt, sendVars, netVars, histVars>>

\* The exchanged value is not looked at.
SendPostLock_bug(t) ==
  /\ Runs(t, "spLock")
  /\ SendFlag' = [SendFlag EXCEPT ![at[t]] = 1]
  /\ Goto(t, "spSize")
  /\ UNCHANGED <<idVars, RefCnt, SendQ, SendPacketCnt, pktRefs, netVars, histVars>>

\* SendFlag.exchange(1), on entry and again after a late packet was seen.
SendPostLock(t) ==
  /\ Runs(t, "spLock")
  /\ SendFlag' = [SendFlag EXCEPT ![at[t]] = 1]
  /\ Goto(t, IF SendFlag[at[t]] = 1 THEN "spUndo" ELSE "spSize")
  /\ UNCHANGED <<idVars, RefCnt, SendQ, SendPacketCnt, pktRefs, netVars, histVars>>

SendPostSize(t) ==
  /\ Runs(t, "spSize")
  /\ tmp' = [tmp EXCEPT ![t] = SendQ[at[t]]]
  /\ pc' = [pc EXCEPT ![t] = IF SendQ[at[t]] = 0 THEN "spUnlock" ELSE "spFill"]
  /\ UNCHANGED <<idVars, RefCnt, sendVars, netVars, histVars, at, op, arg>>

SendPostUnlock(t) ==
  /\ Runs(t, "spUnlock")
  /\ SendFlag' = [SendFlag EXCEPT ![at[t]] = 0]
  /\ Goto(t, "spRecheck")
  /\ UNCHANGED <<idVars, RefCnt, SendQ, SendPacketCnt, pktRefs, netVars, histVars>>

\* The queue is not looked at again after the unlock.
SendPostRecheck_bug(t) ==
  /\ Runs(t, "spRecheck")
  /\ Goto(t, "spUndo")
  /\ UNCHANGED <<idVars, RefCnt, sendVars, netVars, histVars>>

SendPostRecheck(t) ==
  /\ Runs(t, "spRecheck")
  /\ Goto(t, IF SendQ[at[t]] = 0 THEN "spUndo" ELSE "spLock")
  /\ UNCHANGED <<idVars, RefCnt, sendVars, netVars, histVars>>

SendPostFillTo(t, dequeued, counted) ==
  /\ Runs(t, "spFill")
  /\ SendQ[at[t]] >= tmp[t]
  /\ SendQ' = [SendQ EXCEPT ![at[t]] = @ - dequeued]
  /\ SendPacketCnt' = [SendPacketCnt EXCEPT ![at[t]] = counted]
  /\ pc' = [pc EXCEPT ![t] = "spSend"]
  /\ tmp' = [tmp EXCEPT ![t] = 0]
  /\ UNCHANGED <<idVars, RefCnt, SendFlag, pktRefs, netVars, histVars, at, op, arg>>

\* One packet too many is dequeued; SendPacketCnt is not set.
SendPostFillExtra_bug(t) == SendPostFillTo(t, tmp[t] + 1, tmp[t])
SendPostFillUncounted_bug(t) == SendPostFillTo(t, tmp[t], SendPacketCnt[at[t]])

\* Dequeue the counted packets into SendBuffer; the program crashes when one
\* is missing, which SendBufferStable rules out.
SendPostFill(t) == SendPostFillTo(t, tmp[t], tmp[t])

SendPostSend(t) ==
  /\ Runs(t, "spSend")
  /\ io' = [io EXCEPT ![at[t]]["sendPend"] = @ + 1]
  /\ Goto(t, "spCancel")
  /\ UNCHANGED <<idVars, RefCnt, sendVars, gone, histVars>>

\* A failed WSASend returns with SendFlag and SendPacketCnt still set.
SendPostFail(t) ==
  /\ Runs(t, "spSend")
  /\ gone[at[t]]
  /\ Goto(t, "spUndo")
  /\ UNCHANGED <<idVars, RefCnt, sendVars, netVars, histVars>>

SendPostCancel(t) ==
  /\ Runs(t, "spCancel")
  /\ IF SessionUseFlag[at[t]] THEN UNCHANGED io ELSE CancelIoEx(at[t])
  /\ Goto(t, "final")
  /\ UNCHANGED <<idVars, RefCnt, sendVars, gone, histVars>>

\* if (!SendPost(session)) session->DecrementSessionRef()
SendPostUndo(t) ==
  /\ Runs(t, "spUndo")
  /\ DecrementSessionRef(at[t])
  /\ Goto(t, "final")
  /\ UNCHANGED <<idVars, sendVars, netVars, histVars>>

-----------------------------------------------------------------------------
(* The worker loop *)

\* GetQueuedCompletionStatus returns a completion of kind k for slot s.  The
\* port is a queue, but a worker may sleep between its return and the first
\* access to the session, so any order of handling is possible.
Gqcs(t, s, k, l) ==
  /\ Runs(t, "gqcs")
  /\ io[s][k] > 0
  /\ io' = [io EXCEPT ![s][k] = @ - 1]
  /\ at' = [at EXCEPT ![t] = s]
  /\ pc' = [pc EXCEPT ![t] = l]
  /\ UNCHANGED <<idVars, RefCnt, sendVars, gone, histVars, op, arg, tmp>>

GqcsRecv(t, s) == Gqcs(t, s, "recvOk", "parse")
GqcsSend(t, s) == Gqcs(t, s, "sendOk", "sent")
GqcsWake(t, s) == Gqcs(t, s, "wake", "spRef")
\* transferred == 0: closed by the peer, reset or cancelled.
GqcsFailed(t, s) == Gqcs(t, s, "recvErr", "final") \/ Gqcs(t, s, "sendErr", "final")

\* One complete message: OnRecv runs and may call the API.
OnRecv(t) ==
  /\ Runs(t, "parse")
  /\ Callback(t, at[t])
  /\ UNCHANGED <<idVars, RefCnt, sendVars, netVars, histVars, pc, at, tmp>>

\* A bad header or a failed Decode: KillSession, then on to RecvPost.
ParseFail(t) ==
  /\ Runs(t, "parse")
  /\ Call(t, "kill", IdOf(at[t]))
  /\ pc' = [pc EXCEPT ![t] = "rpUse"]
  /\ UNCHANGED <<idVars, RefCnt, sendVars, netVars, histVars, at, tmp>>

\* No complete message is left; the rest moves to the front, RecvPost follows.
ParseDone(t) ==
  /\ Runs(t, "parse")
  /\ Goto(t, "rpUse")
  /\ UNCHANGED <<idVars, RefCnt, sendVars, netVars, histVars>>

\* Send completion: the sent packets are freed, then the send flag is dropped.
SendDoneFree(t) ==
  LET s == at[t] IN
  /\ Runs(t, "sent")
  /\ pktRefs' = [pktRefs EXCEPT ![s] = @ - SendPacketCnt[s]]
  /\ SendPacketCnt' = [SendPacketCnt EXCEPT ![s] = 0]
  /\ Goto(t, "sentUnlock")
  /\ UNCHANGED <<idVars, RefCnt, SendFlag, SendQ, netVars, histVars>>

SendDoneUnlock(t) ==
  /\ Runs(t, "sentUnlock")
  /\ SendFlag' = [SendFlag EXCEPT ![at[t]] = 0]
  /\ Goto(t, "spRef")
  /\ UNCHANGED <<idVars, RefCnt, SendQ, SendPacketCnt, pktRefs, netVars, histVars>>

\* IncrementSessionRef before SendPost, after a send completion or a wake-up.
SendPostRef(t) ==
  /\ Runs(t, "spRef")
  /\ IncrementSessionRef(at[t])
  /\ Goto(t, "spUse")
  /\ UNCHANGED <<idVars, sendVars, netVars, histVars>>

-----------------------------------------------------------------------------
(* The kernel and the peer (external) *)

Complete(s, from, to) ==
  /\ io[s][from] > 0
  /\ io' = [io EXCEPT ![s][from] = @ - 1, ![s][to] = @ + 1]
  /\ UNCHANGED <<idVars, RefCnt, sendVars, gone, thrVars, histVars>>

DataArrives(s)   == ~gone[s] /\ Complete(s, "recvPend", "recvOk")
RecvBreaks(s)    == gone[s] /\ Complete(s, "recvPend", "recvErr")
SendCompletes(s) == Complete(s, "sendPend", "sendOk")
SendBreaks(s)    == gone[s] /\ Complete(s, "sendPend", "sendErr")

\* The peer closes or resets the connection of a session that was joined.
PeerGone(s) ==
  /\ ReleaseFlag[s] = FALSE /\ IdOf(s) \in joined /\ ~gone[s]
  /\ gone' = [gone EXCEPT ![s] = TRUE]
  /\ UNCHANGED <<idVars, RefCnt, sendVars, io, thrVars, histVars>>

-----------------------------------------------------------------------------
(* An application thread calls SendPacket or KillSession with any ID that  *)
(* was ever announced to it, released ones included.                       *)
CallerCalls(t) ==
  /\ t \in Callers
  /\ op[t] = "none"
  /\ CallApi(t, joined)
  /\ UNCHANGED <<idVars, RefCnt, sendVars, netVars, histVars, pc, at, tmp>>

-----------------------------------------------------------------------------
CallStep(t) ==
  \/ SendPacketRef(t) \/ SendPacketCheck(t) \/ SendPacketEnqueue(t)
  \/ SendPacketPost(t) \/ SendPacketUndo(t)
  \/ KillSessionRef(t) \/ KillSessionCheck(t) \/ KillSessionUse(t)
  \/ KillSessionCancel(t) \/ KillSessionDec(t) \/ KillSessionUndo(t)
  \/ DisconnectCas(t) \/ OnClientLeave(t) \/ ReleaseSession(t) \/ ReleasePush(t)

OpenStep(t) ==
  \/ \E s \in Slots : PopSession(t, s)
  \/ GenerateSessionID(t) \/ InitSession(t) \/ InitSessionRef(t)
  \/ InitSessionPublish(t) \/ OnClientJoin(t)

RecvPostStep(t) ==
  \/ RecvPostUse(t) \/ RecvPostRef(t) \/ RecvPostRecv(t) \/ RecvPostFail(t)
  \/ RecvPostUndo(t) \/ RecvPostCancel(t)

SendPostStep(t) ==
  \/ SendPostRef(t) \/ SendPostUse(t) \/ SendPostLock(t) \/ SendPostSize(t)
  \/ SendPostUnlock(t) \/ SendPostRecheck(t) \/ SendPostFill(t)
  \/ SendPostSend(t) \/ SendPostFail(t) \/ SendPostCancel(t) \/ SendPostUndo(t)

GqcsServes(t, s) ==
  GqcsRecv(t, s) \/ GqcsSend(t, s) \/ GqcsWake(t, s) \/ GqcsFailed(t, s)

GqcsStep(t) == \E s \in Slots : GqcsServes(t, s)

\* Steps a running thread takes by itself, once a completion is in its hands.
WorkStep(t) ==
  \/ ParseDone(t) \/ SendDoneFree(t) \/ SendDoneUnlock(t)
  \/ RecvPostStep(t) \/ SendPostStep(t) \/ Finish(t)

KernelStep(s) ==
  DataArrives(s) \/ RecvBreaks(s) \/ SendCompletes(s) \/ SendBreaks(s) \/ PeerGone(s)

-----------------------------------------------------------------------------
(* Who holds a reference: the outer frame for the session it works on, a   *)
(* RecvPost or SendPost for the operation it is about to post, a public    *)
(* call between its increment and its decrement, and every operation or    *)
(* completion that is under way.                                           *)
RecvPostPC == {"rpUse", "rpRef", "rpRecv", "rpUndo", "rpCancel"}
SendPostPC == {"spRef", "spUse", "spLock", "spSize", "spUnlock", "spRecheck",
               "spFill", "spSend", "spUndo", "spCancel"}
OpeningPC  == {"readID", "init", "initRef", "publish"}
WorkingPC  == {"join", "parse", "sent", "sentUnlock", "final"}
                \cup RecvPostPC \cup SendPostPC
BasePC     == WorkingPC \cup {"publish"}
PostPC     == {"rpRecv", "rpUndo"} \cup (SendPostPC \ {"spRef", "spCancel"})
GuardedOp  == {"sendEnqueue", "sendPost", "killUse", "killCancel", "killDec"}
HoldingOp  == GuardedOp \cup {"sendCheck", "sendUndo", "killCheck", "killUndo"}
ReleaseOp  == {"leave", "release", "push"}
PC == OpeningPC \cup WorkingPC \cup {"opened", "accept", "pop", "gqcs", "idle", "exited"}
Op == HoldingOp \cup ReleaseOp \cup {"none", "send", "kill", "cas"}

BaseHolders(s) == {t \in Threads : pc[t] \in BasePC /\ at[t] = s}
PostHolders(s) == {t \in Threads : pc[t] \in PostPC /\ at[t] = s}
CallHolders(s) == {t \in Threads : op[t] \in HoldingOp /\ Target(t) = s}
IoRefs(r) == r["recvPend"] + r["recvOk"] + r["recvErr"]
               + r["sendPend"] + r["sendOk"] + r["sendErr"] + r["wake"]

Opens(t, s)    == pc[t] \in OpeningPC /\ at[t] = s
Releases(t, s) == op[t] \in ReleaseOp /\ Target(t) = s

IdTypeOK ==
  /\ SessionUseFlag \in [Slots -> BOOLEAN]
  /\ ReleaseFlag \in [Slots -> BOOLEAN]
  /\ SessionID \in [Slots -> Nat]
  /\ SessionIDCnt \in Nat
  /\ FreeSessionStack \in SUBSET Slots
SendTypeOK ==
  /\ SendFlag \in [Slots -> {0, 1}]
  /\ SendQ \in [Slots -> Nat]
  /\ SendPacketCnt \in [Slots -> Nat]
  /\ pktRefs \in [Slots -> Int]
NetTypeOK ==
  /\ io \in [Slots -> [IoKind -> Nat]]
  /\ gone \in [Slots -> BOOLEAN]
ThrTypeOK ==
  /\ pc \in [Threads -> PC]
  /\ at \in [Threads -> Slots]
  /\ op \in [Threads -> Op]
  /\ arg \in [Threads -> Slots \X Nat]
  /\ tmp \in [Threads -> Nat]
HistTypeOK ==
  /\ joined \in SUBSET (Slots \X Nat)
  /\ left \in SUBSET (Slots \X Nat)

SesTypeOK ==
  /\ IdTypeOK
  /\ RefCnt \in [Slots -> Int]
  /\ SendTypeOK
  /\ NetTypeOK
  /\ ThrTypeOK
  /\ HistTypeOK

\* The reference count is exactly the number of holders: no path forgets an
\* increment, a decrement, or a hand-over to a posted operation.
RefCntExact ==
  \A s \in Slots :
    RefCnt[s] = Cardinality(BaseHolders(s)) + Cardinality(PostHolders(s))
                  + Cardinality(CallHolders(s)) + IoRefs(io[s])

\* A slot is free, being opened, being released, or live, by one thread at a
\* time: DisconnectSession's compare-exchange lets one releaser through however
\* many threads saw the count reach zero, and no slot is lost.
OneOwner ==
  \A s \in Slots :
    /\ ReleaseFlag[s] <=> \/ s \in FreeSessionStack
                          \/ \E t \in Threads : Opens(t, s) \/ Releases(t, s)
    /\ \A t, u \in Threads :
         /\ Opens(t, s) \/ Releases(t, s) => s \notin FreeSessionStack
         /\ (Opens(t, s) \/ Releases(t, s)) /\ (Opens(u, s) \/ Releases(u, s)) => t = u

\* Nothing works on a released session: a thread inside its accept, worker or
\* guarded public-call code, and every posted operation or completion, keep the
\* session from being released under them.
NoUseAfterRelease ==
  \A s \in Slots :
    \/ \E t \in Threads : pc[t] \in WorkingPC /\ at[t] = s
    \/ \E t \in Threads : op[t] \in GuardedOp /\ Target(t) = s
    \/ IoRefs(io[s]) > 0
    => ReleaseFlag[s] = FALSE

\* Behind the guard of SendPacket and KillSession the slot keeps the session ID
\* the caller named: a stale ID never sends to, or kills, the slot's next session.
GuardPinsSession ==
  \A t \in Threads : op[t] \in GuardedOp => SessionID[Target(t)] = arg[t][2]

\* A session has one receive at a time: either it is posted or completed, or one
\* thread handles its data, so OnRecv of one session never overlaps itself.
SerialRecv ==
  \A s \in Slots :
    io[s]["recvPend"] + io[s]["recvOk"] + io[s]["recvErr"]
      + Cardinality({t \in Threads : pc[t] \in {"join", "parse", "rpUse", "rpRef", "rpRecv"}
                                       /\ at[t] = s}) <= 1

\* SendFlag serialises sending: whoever fills SendBuffer, has a WSASend under way
\* or frees what was sent is alone, and holds the flag.
SerialSend ==
  \A s \in Slots :
    io[s]["sendPend"] + io[s]["sendOk"] + io[s]["sendErr"]
      + Cardinality({t \in Threads : pc[t] \in {"spSize", "spUnlock", "spFill", "spSend",
                                                "sent", "sentUnlock"} /\ at[t] = s})
      <= SendFlag[s]

\* A session's receives and its sends are serialised, each among themselves.
SerialIO == SerialRecv /\ SerialSend

\* While WSASend reads the packets of SendBuffer their count has not been given up,
\* and SendPost finds the packets that it counted, with no others still in SendBuffer.
SendBufferStable ==
  /\ \A s \in Slots : io[s]["sendPend"] + io[s]["sendOk"] > 0 => SendPacketCnt[s] > 0
  /\ \A t \in Threads : pc[t] = "spFill" => tmp[t] \in 1 .. SendQ[at[t]] /\ SendPacketCnt[at[t]] = 0

\* Every packet reference SendPacket took is still queued or in flight, and a
\* slot goes back to the stack only when all have been returned, its ID bits
\* are cleared and nothing is under way for it.
PacketsReturned ==
  /\ \A s \in Slots \ FreeSessionStack : pktRefs[s] = SendQ[s] + SendPacketCnt[s]
  /\ \A s \in FreeSessionStack :
       /\ SessionID[s] = 0 /\ pktRefs[s] = 0
       /\ SendQ[s] = 0 /\ SendPacketCnt[s] = 0 /\ IoRefs(io[s]) = 0

\* A killed session has no operation pending that nobody will cancel: the
\* killer's CancelIoEx or the poster's second look at SessionUseFlag is due.
CancelNotMissed ==
  \A s \in Slots :
    ~SessionUseFlag[s] /\ io[s]["recvPend"] + io[s]["sendPend"] > 0 =>
      \/ \E t \in Threads : op[t] = "killCancel" /\ Target(t) = s
      \/ \E t \in Threads : pc[t] \in {"rpCancel", "spCancel"} /\ at[t] = s

\* No lost wake-up: while packets wait in the queue of a usable session, a
\* wake-up, a send under way or a SendPost that will look again answers for them.
SendNotStranded ==
  \A s \in Slots :
    ~ReleaseFlag[s] /\ SessionUseFlag[s] /\ ~gone[s] /\ SendQ[s] > 0 =>
      \/ \E t \in Threads : op[t] = "sendPost" /\ Target(t) = s
      \/ io[s]["wake"] + io[s]["sendPend"] + io[s]["sendOk"] > 0
      \/ \E t \in Threads : /\ pc[t] \in {"sent", "sentUnlock", "spRef", "spUse", "spLock",
                                          "spSize", "spUnlock", "spRecheck", "spFill", "spSend"}
                            /\ at[t] = s

\* A slot whose last reference is gone has somebody about to disconnect it.
NoLostRelease ==
  \A s \in Slots :
    ~ReleaseFlag[s] /\ RefCnt[s] = 0 =>
      \E t \in Threads : op[t] = "cas" /\ Target(t) = s

\* A free slot owes no callback: what Stop polls for (every slot back on the
\* stack) means that every announced session was given its OnClientLeave.
FreeMeansLeft ==
  \A s \in FreeSessionStack : \A id \in joined : FindSession(id) = s => id \in left
=============================================================================
