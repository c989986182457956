------------------------- MODULE NetSessionInvariant -------------------------
(***************************************************************************)
(* The inductive invariant of the session slots and the proof that every   *)
(* operation of NetSession keeps it, for any number of slots, threads, IDs *)
(* and packets.  Type correctness, SesTypeOK, comes first.                 *)
(*                                                                         *)
(* Four properties carry each other: the count of a slot is exact          *)
(* (RefCntExact), so the compare-exchange of DisconnectSession succeeds    *)
(* only when nothing works on the slot (NoUseAfterRelease), so the slot    *)
(* has one owner at a time (OneOwner), so its ID does not change behind a  *)
(* guard (GuardPinsSession).  OpeningAlone says that an opener calls       *)
(* nothing before its session is published.                                *)
(*                                                                         *)
(* Most steps are steps of one thread that move a reference between what   *)
(* the thread holds, what the kernel holds and the count: QuietStep treats *)
(* them once, QuietCall and QuietGoto for the two frames of a thread.  The *)
(* steps that change an owner or an ID have proofs of their own.           *)
(***************************************************************************)
EXTENDS NetSession, FiniteSetTheorems, TLAPS

-----------------------------------------------------------------------------
(* Types *)

\* SessionArr has a slot 0, the value of an unused at[t].
LEMMA ZeroSlot == 0 \in Slots
  BY SlotAssumption DEF Slots

\* The program points written out, for the provers.
LEMMA ProgramPoints ==
  /\ {"none", "send", "sendCheck", "sendEnqueue", "sendPost", "sendUndo",
      "kill", "killCheck", "killUse", "killCancel", "killDec", "killUndo",
      "cas", "leave", "release", "push"} = Op
  /\ {"opened", "accept", "pop", "readID", "init", "initRef", "publish", "join",
      "gqcs", "parse", "sent", "sentUnlock", "final", "idle", "exited",
      "rpUse", "rpRef", "rpRecv", "rpUndo", "rpCancel",
      "spRef", "spUse", "spLock", "spSize", "spUnlock", "spRecheck", "spFill", "spSend", "spUndo", "spCancel"} = PC
  BY DEF Op, HoldingOp, GuardedOp, ReleaseOp, PC, OpeningPC, WorkingPC, RecvPostPC, SendPostPC

\* Moving a call on keeps the threads well typed.
LEMMA CallGotoType ==
  ASSUME ThrTypeOK, NEW t \in Threads, NEW l \in Op, CallGoto(t, l)
  PROVE  ThrTypeOK'
  BY ZeroSlot DEF CallGoto, ThrTypeOK, NoID

\* Moving an outer frame on keeps the threads well typed.
LEMMA GotoType ==
  ASSUME ThrTypeOK, NEW t \in Threads, NEW l \in PC, Goto(t, l)
  PROVE  ThrTypeOK'
  BY DEF Goto, ThrTypeOK

\* CancelIoEx turns pending operations into completions, none becomes negative.
LEMMA CancelType ==
  ASSUME NetTypeOK, NEW s \in Slots, CancelIoEx(s), UNCHANGED gone
  PROVE  NetTypeOK'
<1>1. \A r \in [IoKind -> Nat] : Cancelled(r) \in [IoKind -> Nat]
  BY DEF Cancelled, IoKind
<1> QED BY <1>1 DEF CancelIoEx, NetTypeOK

\* Posting one more operation or wake-up.
LEMMA PostType ==
  ASSUME NetTypeOK, NEW s \in Slots, NEW k \in IoKind,
         io' = [io EXCEPT ![s][k] = @ + 1], UNCHANGED gone
  PROVE  NetTypeOK'
  BY DEF NetTypeOK

\* SendPacket, KillSession and DisconnectSession keep every variable well typed.
LEMMA CallStepType ==
  ASSUME SesTypeOK, NEW t \in Threads, CallStep(t)
  PROVE  SesTypeOK'
<1> USE ProgramPoints
    DEF SesTypeOK, IdTypeOK, SendTypeOK, HistTypeOK, idVars, sendVars, netVars, histVars
<1>0. Target(t) \in Slots /\ arg[t] \in Slots \X Nat
  BY DEF Target, FindSession, ThrTypeOK
<1>1. CASE SendPacketRef(t)
  BY <1>0, <1>1, CallGotoType DEF SendPacketRef, IncrementSessionRef, NetTypeOK
<1>2. CASE SendPacketCheck(t)
  BY <1>0, <1>2, CallGotoType DEF SendPacketCheck, NetTypeOK
<1>3. CASE SendPacketEnqueue(t)
  BY <1>0, <1>3, CallGotoType DEF SendPacketEnqueue, NetTypeOK
<1>4. CASE SendPacketPost(t)
  BY <1>0, <1>4, CallGotoType, PostType DEF SendPacketPost, IoKind
<1>5. CASE SendPacketUndo(t)
  BY <1>0, <1>5, CallGotoType DEF SendPacketUndo, DecrementSessionRef, NetTypeOK
<1>6. CASE KillSessionRef(t)
  BY <1>0, <1>6, CallGotoType DEF KillSessionRef, IncrementSessionRef, NetTypeOK
<1>7. CASE KillSessionCheck(t)
  BY <1>0, <1>7, CallGotoType DEF KillSessionCheck, NetTypeOK
<1>8. CASE KillSessionUse(t)
  BY <1>0, <1>8, CallGotoType DEF KillSessionUse, NetTypeOK
<1>9. CASE KillSessionCancel(t)
  BY <1>0, <1>9, CallGotoType, CancelType DEF KillSessionCancel
<1>10. CASE KillSessionDec(t)
  BY <1>0, <1>10, CallGotoType DEF KillSessionDec, DecrementSessionRef, NetTypeOK
<1>11. CASE KillSessionUndo(t)
  BY <1>0, <1>11, CallGotoType DEF KillSessionUndo, DecrementSessionRef, NetTypeOK
<1>12. CASE DisconnectCas(t)
  BY <1>0, <1>12, CallGotoType DEF DisconnectCas, DisconnectTo, NetTypeOK
<1>13. CASE OnClientLeave(t)
  BY <1>0, <1>13, CallGotoType DEF OnClientLeave, IdOf, NetTypeOK
<1>14. CASE ReleaseSession(t)
  BY <1>0, <1>14, CallGotoType DEF ReleaseSession, NetTypeOK
<1>15. CASE ReleasePush(t)
  BY <1>0, <1>15, CallGotoType DEF ReleasePush, NetTypeOK
<1> QED BY <1>1, <1>2, <1>3, <1>4, <1>5, <1>6, <1>7, <1>8, <1>9, <1>10, <1>11, <1>12, <1>13, <1>14, <1>15 DEF CallStep

\* RecvPost keeps every variable well typed.
LEMMA RecvPostType ==
  ASSUME SesTypeOK, NEW t \in Threads, RecvPostStep(t)
  PROVE  SesTypeOK'
<1> USE ProgramPoints
    DEF SesTypeOK, IdTypeOK, SendTypeOK, HistTypeOK, idVars, sendVars, netVars, histVars
<1>0. at[t] \in Slots /\ tmp[t] \in Nat
  BY DEF ThrTypeOK
<1>1. CASE RecvPostUse(t)
  BY <1>0, <1>1, GotoType DEF RecvPostUse, NetTypeOK
<1>2. CASE RecvPostRef(t)
  BY <1>0, <1>2, GotoType DEF RecvPostRef, IncrementSessionRef, NetTypeOK
<1>3. CASE RecvPostRecv(t)
  BY <1>0, <1>3, GotoType, PostType DEF RecvPostRecv, IoKind
<1>4. CASE RecvPostFail(t)
  BY <1>0, <1>4, GotoType DEF RecvPostFail, NetTypeOK
<1>5. CASE RecvPostUndo(t)
  BY <1>0, <1>5, GotoType DEF RecvPostUndo, DecrementSessionRef, NetTypeOK
<1>6. CASE RecvPostCancel(t)
  BY <1>0, <1>6, GotoType, CancelType DEF RecvPostCancel, NetTypeOK
<1> QED BY <1>1, <1>2, <1>3, <1>4, <1>5, <1>6 DEF RecvPostStep

\* SendPost keeps every variable well typed.
LEMMA SendPostType ==
  ASSUME SesTypeOK, NEW t \in Threads, SendPostStep(t)
  PROVE  SesTypeOK'
<1> USE ProgramPoints
    DEF SesTypeOK, IdTypeOK, SendTypeOK, HistTypeOK, idVars, sendVars, netVars, histVars
<1>0. at[t] \in Slots /\ tmp[t] \in Nat
  BY DEF ThrTypeOK
<1>1. CASE SendPostRef(t)
  BY <1>0, <1>1, GotoType DEF SendPostRef, IncrementSessionRef, NetTypeOK
<1>2. CASE SendPostUse(t)
  BY <1>0, <1>2, GotoType DEF SendPostUse, NetTypeOK
<1>3. CASE SendPostLock(t)
  BY <1>0, <1>3, GotoType DEF SendPostLock, NetTypeOK
<1>4. CASE SendPostSize(t)
  BY <1>0, <1>4 DEF SendPostSize, ThrTypeOK, NetTypeOK
<1>5. CASE SendPostUnlock(t)
  BY <1>0, <1>5, GotoType DEF SendPostUnlock, NetTypeOK
<1>6. CASE SendPostRecheck(t)
  BY <1>0, <1>6, GotoType DEF SendPostRecheck, NetTypeOK
<1>7. CASE SendPostFill(t)
  BY <1>0, <1>7 DEF SendPostFill, SendPostFillTo, ThrTypeOK, NetTypeOK
<1>8. CASE SendPostSend(t)
  BY <1>0, <1>8, GotoType, PostType DEF SendPostSend, IoKind
<1>9. CASE SendPostFail(t)
  BY <1>0, <1>9, GotoType DEF SendPostFail, NetTypeOK
<1>10. CASE SendPostCancel(t)
  BY <1>0, <1>10, GotoType, CancelType DEF SendPostCancel, NetTypeOK
<1>11. CASE SendPostUndo(t)
  BY <1>0, <1>11, GotoType DEF SendPostUndo, DecrementSessionRef, NetTypeOK
<1> QED BY <1>1, <1>2, <1>3, <1>4, <1>5, <1>6, <1>7, <1>8, <1>9, <1>10, <1>11 DEF SendPostStep

\* What a thread does by itself with a session keeps every variable well typed.
LEMMA WorkStepType ==
  ASSUME SesTypeOK, NEW t \in Threads, WorkStep(t)
  PROVE  SesTypeOK'
<1> USE ProgramPoints
    DEF SesTypeOK, IdTypeOK, SendTypeOK, HistTypeOK, idVars, sendVars, netVars, histVars
<1>0. at[t] \in Slots /\ tmp[t] \in Nat
  BY DEF ThrTypeOK
<1>1. CASE ParseDone(t)
  BY <1>0, <1>1, GotoType DEF ParseDone, NetTypeOK
<1>2. CASE SendDoneFree(t)
  BY <1>0, <1>2, GotoType DEF SendDoneFree, NetTypeOK
<1>3. CASE SendDoneUnlock(t)
  BY <1>0, <1>3, GotoType DEF SendDoneUnlock, NetTypeOK
<1>4. CASE Finish(t)
  <2>1. pc' \in [Threads -> PC] /\ at' \in [Threads -> Slots] /\ tmp' \in [Threads -> Nat]
    BY <1>4, ZeroSlot DEF Finish, Home, ThrTypeOK
  <2>2. op' \in [Threads -> Op] /\ arg' \in [Threads -> Slots \X Nat]
    BY <1>0, <1>4 DEF Finish, Call, ThrTypeOK
  <2>3. RefCnt' \in [Slots -> Int]
    BY <1>0, <1>4 DEF Finish, DecrementSessionRef
  <2> QED BY <1>4, <2>1, <2>2, <2>3 DEF Finish, ThrTypeOK, NetTypeOK
<1>5. CASE RecvPostStep(t)
  BY <1>5, RecvPostType
<1>6. CASE SendPostStep(t)
  BY <1>6, SendPostType
<1> QED BY <1>5, <1>6, <1>1, <1>2, <1>3, <1>4 DEF WorkStep

\* A call begun by a callback names a slot and an ID.
LEMMA CallbackType ==
  ASSUME SesTypeOK, NEW t \in Threads, NEW s \in Slots, Callback(t, s)
  PROVE  op' \in [Threads -> Op] /\ arg' \in [Threads -> Slots \X Nat]
<1>1. Reach(s) \subseteq Slots \X Nat
  BY BoundAssumption DEF Reach, IdOf, SesTypeOK, IdTypeOK, HistTypeOK
<1> QED BY <1>1, ProgramPoints DEF Callback, CallApi, Call, SesTypeOK, ThrTypeOK

\* GetFreeSession, InitSession and the join callback keep every variable well typed.
LEMMA OpenStepType ==
  ASSUME SesTypeOK, NEW t \in Threads, OpenStep(t) \/ PopNothing(t)
  PROVE  SesTypeOK'
<1> USE ProgramPoints
    DEF SesTypeOK, IdTypeOK, SendTypeOK, HistTypeOK, idVars, sendVars, netVars, histVars
<1>0. at[t] \in Slots /\ tmp[t] \in Nat
  BY DEF ThrTypeOK
<1>1. CASE PopNothing(t)
  BY <1>0, <1>1, GotoType DEF PopNothing, NetTypeOK
<1>2. CASE GenerateSessionID(t)
  BY <1>0, <1>2 DEF GenerateSessionID, ThrTypeOK, NetTypeOK
<1>3. CASE InitSession(t)
  BY <1>0, <1>3 DEF InitSession, ThrTypeOK, NetTypeOK
<1>4. CASE InitSessionRef(t)
  BY <1>0, <1>4, GotoType DEF InitSessionRef, IncrementSessionRef, NetTypeOK
<1>5. CASE InitSessionPublish(t)
  BY <1>0, <1>5, GotoType DEF InitSessionPublish, NetTypeOK
<1>6. CASE OnClientJoin(t)
  BY <1>0, <1>6, CallbackType DEF OnClientJoin, IdOf, ThrTypeOK, NetTypeOK
<1>7. ASSUME NEW s \in Slots, PopSession(t, s) PROVE SesTypeOK'
  BY <1>7 DEF PopSession, ThrTypeOK, NetTypeOK
<1> QED BY <1>7, <1>1, <1>2, <1>3, <1>4, <1>5, <1>6 DEF OpenStep

\* Taking a completion leaves a natural number of them.
LEMMA GqcsType ==
  ASSUME SesTypeOK, NEW t \in Threads, NEW s \in Slots,
         NEW k \in IoKind, NEW l \in PC, Gqcs(t, s, k, l)
  PROVE  SesTypeOK'
<1>1. io[s][k] \in Nat \ {0} /\ NetTypeOK'
  BY DEF Gqcs, SesTypeOK, NetTypeOK
<1> QED BY <1>1 DEF Gqcs, SesTypeOK, IdTypeOK, SendTypeOK, ThrTypeOK, HistTypeOK,
                    idVars, sendVars, histVars

\* The worker loop up to RecvPost and SendPost keeps every variable well typed.
LEMMA WorkerStepType ==
  ASSUME SesTypeOK, NEW t \in Threads, GqcsStep(t) \/ OnRecv(t) \/ ParseFail(t)
  PROVE  SesTypeOK'
<1> USE DEF SesTypeOK, IdTypeOK, SendTypeOK, NetTypeOK, ThrTypeOK, HistTypeOK,
            idVars, sendVars, netVars, histVars
<1>1. CASE GqcsStep(t)
  <2>1. {"recvOk", "sendOk", "wake", "recvErr", "sendErr"} \subseteq IoKind
    BY DEF IoKind
  <2>2. {"parse", "sent", "spRef", "final"} \subseteq PC
    BY ProgramPoints
  <2> QED BY ONLY SesTypeOK, t \in Threads, <1>1, <2>1, <2>2, GqcsType
          DEF GqcsStep, GqcsServes, GqcsRecv, GqcsSend, GqcsWake, GqcsFailed
<1>2. CASE OnRecv(t)
  BY <1>2, CallbackType DEF OnRecv
<1>3. CASE ParseFail(t)
  BY <1>3, ProgramPoints DEF ParseFail, Call, IdOf
<1> QED BY <1>1, <1>2, <1>3

\* The kernel and the peer keep every variable well typed.
LEMMA KernelStepType ==
  ASSUME SesTypeOK, NEW s \in Slots, KernelStep(s)
  PROVE  SesTypeOK'
<1> USE DEF SesTypeOK, IdTypeOK, SendTypeOK, NetTypeOK, ThrTypeOK, HistTypeOK,
            idVars, sendVars, thrVars, histVars
<1>1. ASSUME NEW from \in IoKind, NEW to \in IoKind, Complete(s, from, to)
      PROVE  SesTypeOK'
  BY <1>1 DEF Complete
<1>2. CASE PeerGone(s)
  BY <1>2 DEF PeerGone
<1>3. {"recvPend", "recvOk", "recvErr", "sendPend", "sendOk", "sendErr"} \subseteq IoKind
  BY DEF IoKind
<1> QED BY <1>1, <1>2, <1>3 DEF KernelStep, DataArrives, RecvBreaks, SendCompletes, SendBreaks

\* An application thread's call keeps every variable well typed.
LEMMA CallerType ==
  ASSUME SesTypeOK, NEW t \in Threads, CallerCalls(t)
  PROVE  SesTypeOK'
  BY ProgramPoints DEF CallerCalls, CallApi, Call, SesTypeOK, IdTypeOK, SendTypeOK,
     NetTypeOK, ThrTypeOK, HistTypeOK, idVars, sendVars, netVars, histVars

\* The constructor leaves every variable well typed.
LEMMA SesInitType == SesInit => SesTypeOK
  BY ZeroSlot, ProgramPoints
     DEF SesInit, SesTypeOK, IdTypeOK, SendTypeOK, NetTypeOK, ThrTypeOK, HistTypeOK, NoIo, NoID

-----------------------------------------------------------------------------
(* What a slot is held by *)

\* What thread t holds of slot s, counted.
Bit(b) == IF b THEN 1 ELSE 0

HoldsBase(t, s) == pc[t] \in BasePC /\ at[t] = s
HoldsPost(t, s) == pc[t] \in PostPC /\ at[t] = s
HoldsCall(t, s) == op[t] \in HoldingOp /\ Target(t) = s
Held(t, s) == Bit(HoldsBase(t, s)) + Bit(HoldsPost(t, s)) + Bit(HoldsCall(t, s))

Holders(s) == Cardinality(BaseHolders(s)) + Cardinality(PostHolders(s))
                + Cardinality(CallHolders(s))

\* Thread t works on the session in slot s.
Uses(t, s) ==
  \/ pc[t] \in WorkingPC /\ at[t] = s
  \/ op[t] \in GuardedOp /\ Target(t) = s

\* An opener that has a slot but has not published it calls nothing.
OpeningAlone ==
  \A t \in Threads : pc[t] \in OpeningPC => t \in Openers /\ op[t] = "none"

\* The inductive invariant.
SesInv ==
  /\ SesTypeOK
  /\ OpeningAlone
  /\ RefCntExact
  /\ OneOwner
  /\ NoUseAfterRelease
  /\ GuardPinsSession

\* No thread but t moves.
OnlyThread(t) ==
  \A u \in Threads \ {t} :
    pc'[u] = pc[u] /\ at'[u] = at[u] /\ op'[u] = op[u] /\ arg'[u] = arg[u]

\* The cardinality of a set that changes in one element only.
LEMMA CardChange ==
  ASSUME NEW S, NEW R, NEW t, IsFiniteSet(S), IsFiniteSet(R), S \ {t} = R \ {t}
  PROVE  Cardinality(R) = Cardinality(S) - Bit(t \in S) + Bit(t \in R)
<1>1. /\ IsFiniteSet(S \ {t})
      /\ Cardinality(S \ {t}) = Cardinality(S) - Bit(t \in S)
  BY FS_RemoveElement, FS_CardinalityType DEF Bit
<1>2. Cardinality(R \ {t}) = Cardinality(R) - Bit(t \in R)
  BY FS_RemoveElement, FS_CardinalityType DEF Bit
<1>3. Cardinality(S \ {t}) = Cardinality(R \ {t})
  OBVIOUS
<1>4. Cardinality(S) \in Nat /\ Cardinality(R) \in Nat
  BY FS_CardinalityType
<1> QED BY <1>1, <1>2, <1>3, <1>4 DEF Bit

\* Finitely many threads hold references to a slot.
LEMMA HoldersFinite ==
  ASSUME NEW s \in Slots
  PROVE  /\ IsFiniteSet(BaseHolders(s)) /\ Cardinality(BaseHolders(s)) \in Nat
         /\ IsFiniteSet(PostHolders(s)) /\ Cardinality(PostHolders(s)) \in Nat
         /\ IsFiniteSet(CallHolders(s)) /\ Cardinality(CallHolders(s)) \in Nat
         /\ IsFiniteSet(BaseHolders(s)') /\ Cardinality(BaseHolders(s)') \in Nat
         /\ IsFiniteSet(PostHolders(s)') /\ Cardinality(PostHolders(s)') \in Nat
         /\ IsFiniteSet(CallHolders(s)') /\ Cardinality(CallHolders(s)') \in Nat
  BY ThreadAssumption, FS_Subset, FS_CardinalityType
     DEF BaseHolders, PostHolders, CallHolders

\* When only thread t moves, the holders of a slot change by what t holds.
LEMMA HoldersChange ==
  ASSUME NEW t \in Threads, OnlyThread(t), NEW s \in Slots
  PROVE  /\ Holders(s) \in Nat /\ Holders(s)' \in Nat
         /\ Holders(s)' = Holders(s) - Held(t, s) + Held(t, s)'
<1>1. Cardinality(BaseHolders(s)') = Cardinality(BaseHolders(s)) - Bit(HoldsBase(t, s)) + Bit(HoldsBase(t, s))'
  <2>1. BaseHolders(s) \ {t} = BaseHolders(s)' \ {t}
    BY DEF BaseHolders, OnlyThread
  <2>2. (t \in BaseHolders(s) <=> HoldsBase(t, s)) /\ (t \in BaseHolders(s)' <=> HoldsBase(t, s)')
    BY DEF BaseHolders, HoldsBase
  <2>3. Cardinality(BaseHolders(s)') = Cardinality(BaseHolders(s)) - Bit(t \in BaseHolders(s)) + Bit(t \in BaseHolders(s)')
    BY <2>1, HoldersFinite, CardChange
  <2> QED BY <2>2, <2>3 DEF Bit
<1>2. Cardinality(PostHolders(s)') = Cardinality(PostHolders(s)) - Bit(HoldsPost(t, s)) + Bit(HoldsPost(t, s))'
  <2>1. PostHolders(s) \ {t} = PostHolders(s)' \ {t}
    BY DEF PostHolders, OnlyThread
  <2>2. (t \in PostHolders(s) <=> HoldsPost(t, s)) /\ (t \in PostHolders(s)' <=> HoldsPost(t, s)')
    BY DEF PostHolders, HoldsPost
  <2>3. Cardinality(PostHolders(s)') = Cardinality(PostHolders(s)) - Bit(t \in PostHolders(s)) + Bit(t \in PostHolders(s)')
    BY <2>1, HoldersFinite, CardChange
  <2> QED BY <2>2, <2>3 DEF Bit
<1>3. Cardinality(CallHolders(s)') = Cardinality(CallHolders(s)) - Bit(HoldsCall(t, s)) + Bit(HoldsCall(t, s))'
  <2>1. CallHolders(s) \ {t} = CallHolders(s)' \ {t}
    BY DEF CallHolders, OnlyThread, Target, FindSession
  <2>2. (t \in CallHolders(s) <=> HoldsCall(t, s)) /\ (t \in CallHolders(s)' <=> HoldsCall(t, s)')
    BY DEF CallHolders, HoldsCall
  <2>3. Cardinality(CallHolders(s)') = Cardinality(CallHolders(s)) - Bit(t \in CallHolders(s)) + Bit(t \in CallHolders(s)')
    BY <2>1, HoldersFinite, CardChange
  <2> QED BY <2>2, <2>3 DEF Bit
<1> QED BY <1>1, <1>2, <1>3, HoldersFinite DEF Holders, Held, Bit

\* The operations and completions of a slot are counted by a natural number.
LEMMA IoRefsType ==
  ASSUME NEW r \in [IoKind -> Nat]
  PROVE  IoRefs(r) \in Nat
  BY DEF IoRefs, IoKind

\* Ownership stays, the count follows what t and the kernel hold, and t uses only
\* sessions that are not released and whose ID is the one it named.
QuietFor(t) ==
  /\ \A s \in Slots : Opens(t, s)' = Opens(t, s) /\ Releases(t, s)' = Releases(t, s)
  /\ \A s \in Slots : RefCnt'[s] - Held(t, s)' - IoRefs(io'[s]) = RefCnt[s] - Held(t, s) - IoRefs(io[s])
  /\ \A s \in Slots : Uses(t, s)' \/ IoRefs(io'[s]) > 0 => ~ReleaseFlag[s]
  /\ op'[t] \in GuardedOp => SessionID'[Target(t)'] = arg'[t][2]
  /\ \A u \in Threads : op[u] \in GuardedOp => SessionID'[Target(u)] = SessionID[Target(u)]
  /\ pc'[t] \in OpeningPC => t \in Openers /\ op'[t] = "none"

\* A step of one thread that is quiet in the sense of QuietFor keeps the invariant.
LEMMA QuietStep ==
  ASSUME SesInv, SesTypeOK', NEW t \in Threads, OnlyThread(t), QuietFor(t),
         UNCHANGED <<ReleaseFlag, FreeSessionStack>>
  PROVE  SesInv'
<1>1. OpeningAlone'
  BY DEF SesInv, OpeningAlone, OnlyThread, QuietFor
<1>2. RefCntExact'
  <2> SUFFICES ASSUME NEW s \in Slots PROVE RefCnt'[s] = Holders(s)' + IoRefs(io'[s])
    BY DEF RefCntExact, Holders
  <2>1. RefCnt[s] = Holders(s) + IoRefs(io[s])
    BY DEF SesInv, RefCntExact, Holders
  <2>2. RefCnt'[s] - Held(t, s)' - IoRefs(io'[s]) = RefCnt[s] - Held(t, s) - IoRefs(io[s])
    BY DEF QuietFor
  <2>3. /\ RefCnt[s] \in Int /\ RefCnt'[s] \in Int /\ Held(t, s) \in Int /\ Held(t, s)' \in Int
        /\ IoRefs(io[s]) \in Nat /\ IoRefs(io'[s]) \in Nat
    BY IoRefsType DEF SesInv, SesTypeOK, NetTypeOK, Held, Bit
  <2> QED BY <2>1, <2>2, <2>3, HoldersChange
<1>3. OneOwner'
  <2>1. \A u \in Threads, s \in Slots : Opens(u, s)' = Opens(u, s) /\ Releases(u, s)' = Releases(u, s)
    BY DEF QuietFor, OnlyThread, Opens, Releases, Target, FindSession
  <2> QED BY <2>1 DEF SesInv, OneOwner
<1>4. NoUseAfterRelease'
  <2>1. \A u \in Threads \ {t}, s \in Slots : Uses(u, s)' = Uses(u, s)
    BY DEF OnlyThread, Uses, Target, FindSession
  <2> QED BY <2>1 DEF SesInv, NoUseAfterRelease, Uses, QuietFor
<1>5. GuardPinsSession'
  BY DEF SesInv, GuardPinsSession, OnlyThread, QuietFor, Target, FindSession
<1> QED BY <1>1, <1>2, <1>3, <1>4, <1>5 DEF SesInv

\* The call of t moves from l to m.
QuietCallStep(t, l, m) ==
  /\ l \in Op \ ({"none"} \cup ReleaseOp) /\ m \in Op \ ReleaseOp
  /\ InCall(t, l) /\ CallGoto(t, m)
  /\ UNCHANGED <<ReleaseFlag, SessionID, FreeSessionStack>>
  /\ \A s \in Slots \ {Target(t)} : RefCnt'[s] = RefCnt[s] /\ io'[s] = io[s]
  /\ RefCnt'[Target(t)] - RefCnt[Target(t)] =
       Bit(m \in HoldingOp) - Bit(l \in HoldingOp) + IoRefs(io'[Target(t)]) - IoRefs(io[Target(t)])
  /\ m \in GuardedOp => l \in GuardedOp \/ GuardHolds(t)
  /\ IoRefs(io'[Target(t)]) > 0 => IoRefs(io[Target(t)]) > 0 \/ l \in GuardedOp

\* A call that moves on, with the count following what it holds, keeps the invariant.
LEMMA QuietCall ==
  ASSUME SesInv, SesTypeOK', NEW t \in Threads, NEW l, NEW m, QuietCallStep(t, l, m)
  PROVE  SesInv'
<1> USE DEF QuietCallStep
<1>1. /\ op' = [op EXCEPT ![t] = m] /\ pc' = pc /\ at' = at /\ op[t] = l
      /\ m # "none" => arg' = arg
      /\ \A u \in Threads \ {t} : arg'[u] = arg[u]
  BY DEF CallGoto, InCall, SesInv, SesTypeOK, ThrTypeOK
<1>2. /\ op'[t] = m /\ pc'[t] = pc[t] /\ at'[t] = at[t]
      /\ m # "none" => Target(t)' = Target(t)
  BY <1>1 DEF SesInv, SesTypeOK, ThrTypeOK, Target, FindSession
<1>3. "none" \notin HoldingOp /\ "none" \notin GuardedOp /\ GuardedOp \subseteq HoldingOp
  BY DEF HoldingOp, GuardedOp
<1>4. /\ Target(t) \in Slots
      /\ \A s \in Slots : /\ RefCnt[s] \in Int /\ RefCnt'[s] \in Int
                          /\ IoRefs(io[s]) \in Nat /\ IoRefs(io'[s]) \in Nat
  BY IoRefsType DEF SesInv, SesTypeOK, NetTypeOK, ThrTypeOK, Target, FindSession
<1>5. OnlyThread(t)
  BY <1>1 DEF OnlyThread
<1>6. \A s \in Slots : Opens(t, s)' = Opens(t, s) /\ Releases(t, s)' = Releases(t, s)
  BY <1>1, <1>2 DEF Opens, Releases
<1>7. ASSUME NEW s \in Slots
      PROVE  RefCnt'[s] - Held(t, s)' - IoRefs(io'[s]) = RefCnt[s] - Held(t, s) - IoRefs(io[s])
  <2>1. /\ HoldsBase(t, s)' = HoldsBase(t, s) /\ HoldsPost(t, s)' = HoldsPost(t, s)
        /\ HoldsCall(t, s) <=> l \in HoldingOp /\ Target(t) = s
        /\ HoldsCall(t, s)' <=> m \in HoldingOp /\ Target(t) = s
    BY <1>1, <1>2, <1>3 DEF HoldsBase, HoldsPost, HoldsCall
  <2>2. CASE s = Target(t)
    <3>1. RefCnt'[s] - RefCnt[s] = Bit(m \in HoldingOp) - Bit(l \in HoldingOp)
                                     + IoRefs(io'[s]) - IoRefs(io[s])
      BY <2>2
    <3>2. RefCnt'[s] \in Int /\ RefCnt[s] \in Int /\ IoRefs(io[s]) \in Int /\ IoRefs(io'[s]) \in Int
      BY <1>4
    <3> QED BY ONLY <2>1, <2>2, <3>1, <3>2 DEF Held, Bit
  <2>3. CASE s # Target(t)
    <3>1. Held(t, s)' = Held(t, s) /\ Held(t, s) \in Int
      BY <2>1, <2>3 DEF Held, Bit
    <3> QED BY <1>4, <2>3, <3>1
  <2> QED BY <2>2, <2>3
<1>8. ASSUME NEW s \in Slots, Uses(t, s)' \/ IoRefs(io'[s]) > 0
      PROVE  ~ReleaseFlag[s]
  <2>1. Uses(t, s)' => Uses(t, s) \/ (s = Target(t) /\ GuardHolds(t))
    BY <1>1, <1>2, <1>3 DEF Uses
  <2>2. IoRefs(io'[s]) > 0 => IoRefs(io[s]) > 0 \/ Uses(t, s)
    BY <1>1, <1>4 DEF Uses
  <2> QED BY <1>8, <2>1, <2>2 DEF SesInv, NoUseAfterRelease, Uses, GuardHolds
<1>9. op'[t] \in GuardedOp => SessionID'[Target(t)'] = arg'[t][2]
  BY <1>1, <1>2, <1>3 DEF SesInv, GuardPinsSession, GuardHolds
<1>10. pc'[t] \in OpeningPC => t \in Openers /\ op'[t] = "none"
  BY <1>1 DEF SesInv, OpeningAlone
<1> QED BY <1>5, <1>6, <1>7, <1>8, <1>9, <1>10, QuietStep DEF QuietFor

\* The outer frame of t moves from l to m, at the same session.
QuietGotoStep(t, l, m) ==
  /\ l \in PC /\ m \in PC
  /\ Runs(t, l) /\ pc' = [pc EXCEPT ![t] = m] /\ UNCHANGED <<at, op, arg>>
  /\ UNCHANGED <<ReleaseFlag, SessionID, FreeSessionStack>>
  /\ \A s \in Slots \ {at[t]} : RefCnt'[s] = RefCnt[s] /\ io'[s] = io[s]
  /\ RefCnt'[at[t]] - RefCnt[at[t]] =
       Bit(m \in BasePC) + Bit(m \in PostPC) - Bit(l \in BasePC) - Bit(l \in PostPC)
         + IoRefs(io'[at[t]]) - IoRefs(io[at[t]])
  /\ m \in OpeningPC <=> l \in OpeningPC
  /\ m \in WorkingPC => l \in WorkingPC
  /\ IoRefs(io'[at[t]]) > 0 => IoRefs(io[at[t]]) > 0 \/ l \in WorkingPC

\* An outer frame that moves on, with the count following what it holds, keeps the
\* invariant.
LEMMA QuietGoto ==
  ASSUME SesInv, SesTypeOK', NEW t \in Threads, NEW l, NEW m, QuietGotoStep(t, l, m)
  PROVE  SesInv'
<1> USE DEF QuietGotoStep
<1>1. pc'[t] = m /\ pc[t] = l /\ op[t] = "none"
  BY DEF Runs, SesInv, SesTypeOK, ThrTypeOK
<1>2. "none" \notin HoldingOp /\ "none" \notin GuardedOp
  BY DEF HoldingOp, GuardedOp
<1>3. /\ at[t] \in Slots
      /\ \A s \in Slots : /\ RefCnt[s] \in Int /\ RefCnt'[s] \in Int
                          /\ IoRefs(io[s]) \in Nat /\ IoRefs(io'[s]) \in Nat
  BY IoRefsType DEF SesInv, SesTypeOK, NetTypeOK, ThrTypeOK
<1>4. OnlyThread(t)
  BY DEF OnlyThread, SesInv, SesTypeOK, ThrTypeOK
<1>5. \A s \in Slots : Opens(t, s)' = Opens(t, s) /\ Releases(t, s)' = Releases(t, s)
  BY <1>1 DEF Opens, Releases, Target
<1>6. ASSUME NEW s \in Slots
      PROVE  RefCnt'[s] - Held(t, s)' - IoRefs(io'[s]) = RefCnt[s] - Held(t, s) - IoRefs(io[s])
  <2>1. /\ HoldsCall(t, s)' = HoldsCall(t, s)
        /\ HoldsBase(t, s) <=> l \in BasePC /\ at[t] = s
        /\ HoldsPost(t, s) <=> l \in PostPC /\ at[t] = s
        /\ HoldsBase(t, s)' <=> m \in BasePC /\ at[t] = s
        /\ HoldsPost(t, s)' <=> m \in PostPC /\ at[t] = s
    BY <1>1 DEF HoldsBase, HoldsPost, HoldsCall, Target
  <2>2. CASE s = at[t]
    BY <1>3, <2>1, <2>2 DEF Held, Bit
  <2>3. CASE s # at[t]
    BY <1>3, <2>1, <2>3 DEF Held, Bit
  <2> QED BY <2>2, <2>3
<1>7. ASSUME NEW s \in Slots, Uses(t, s)' \/ IoRefs(io'[s]) > 0
      PROVE  ~ReleaseFlag[s]
  <2>1. Uses(t, s)' => Uses(t, s)
    BY <1>1 DEF Uses, Target
  <2>2. IoRefs(io'[s]) > 0 => IoRefs(io[s]) > 0 \/ Uses(t, s)
    BY <1>1, <1>3 DEF Uses
  <2> QED BY <1>7, <2>1, <2>2 DEF SesInv, NoUseAfterRelease, Uses
<1>8. op'[t] \in GuardedOp => SessionID'[Target(t)'] = arg'[t][2]
  BY <1>1, <1>2
<1>9. pc'[t] \in OpeningPC => t \in Openers /\ op'[t] = "none"
  BY <1>1 DEF SesInv, OpeningAlone
<1> QED BY <1>4, <1>5, <1>6, <1>7, <1>8, <1>9, QuietStep DEF QuietFor

\* A posted operation is one more reference of its slot, and of no other.
LEMMA IoPosted ==
  ASSUME NetTypeOK, NEW s \in Slots, NEW k \in IoKind, io' = [io EXCEPT ![s][k] = @ + 1]
  PROVE  /\ IoRefs(io'[s]) = IoRefs(io[s]) + 1
         /\ \A r \in Slots \ {s} : io'[r] = io[r]
<1>1. io[s] \in [IoKind -> Nat] /\ io'[s] = [io[s] EXCEPT ![k] = @ + 1]
  BY DEF NetTypeOK
<1>2. \A r \in Slots \ {s} : io'[r] = io[r]
  BY DEF NetTypeOK
<1> QED BY <1>1, <1>2 DEF IoRefs, IoKind

\* A completion that is taken is one reference less in the kernel's hands.
LEMMA IoTaken ==
  ASSUME NetTypeOK, NEW s \in Slots, NEW k \in IoKind, io[s][k] > 0,
         io' = [io EXCEPT ![s][k] = @ - 1]
  PROVE  /\ IoRefs(io'[s]) = IoRefs(io[s]) - 1 /\ IoRefs(io[s]) > 0
         /\ \A r \in Slots \ {s} : io'[r] = io[r]
<1>1. io[s] \in [IoKind -> Nat] /\ io'[s] = [io[s] EXCEPT ![k] = @ - 1]
  BY DEF NetTypeOK
<1>2. \A r \in Slots \ {s} : io'[r] = io[r]
  BY DEF NetTypeOK
<1> QED BY <1>1, <1>2 DEF IoRefs, IoKind

\* CancelIoEx moves no reference: what is cancelled still completes.
LEMMA IoCancelled ==
  ASSUME NetTypeOK, NEW s \in Slots, CancelIoEx(s)
  PROVE  /\ IoRefs(io'[s]) = IoRefs(io[s])
         /\ \A r \in Slots \ {s} : io'[r] = io[r]
<1>1. io[s] \in [IoKind -> Nat] /\ io'[s] = Cancelled(io[s])
  BY DEF NetTypeOK, CancelIoEx
<1>2. \A r \in Slots \ {s} : io'[r] = io[r]
  BY DEF NetTypeOK, CancelIoEx
<1> QED BY <1>1, <1>2 DEF IoRefs, IoKind, Cancelled

\* What an increment and a decrement of RefCnt do.
LEMMA CountingFacts ==
  ASSUME SesTypeOK, NEW s \in Slots
  PROVE  /\ RefCnt[s] \in Int /\ IoRefs(io[s]) \in Nat
         /\ IncrementSessionRef(s) =>
              RefCnt'[s] = RefCnt[s] + 1 /\ \A r \in Slots \ {s} : RefCnt'[r] = RefCnt[r]
         /\ DecrementSessionRef(s) =>
              RefCnt'[s] = RefCnt[s] - 1 /\ \A r \in Slots \ {s} : RefCnt'[r] = RefCnt[r]
  BY IoRefsType DEF SesTypeOK, NetTypeOK, IncrementSessionRef, DecrementSessionRef

\* A call of the public API, up to the point where it may release the session.
LEMMA CallInv ==
  ASSUME SesInv, NEW t \in Threads, CallStep(t), op[t] \notin ReleaseOp, op[t] # "cas"
  PROVE  SesInv'
<1>0. /\ SesTypeOK' /\ SesTypeOK /\ NetTypeOK /\ Target(t) \in Slots
      /\ RefCnt[Target(t)] \in Int /\ IoRefs(io[Target(t)]) \in Nat
  BY CallStepType, CountingFacts DEF SesInv, SesTypeOK, ThrTypeOK, Target, FindSession
<1>h. /\ HoldingOp = {"sendCheck", "sendEnqueue", "sendPost", "sendUndo",
                      "killCheck", "killUse", "killCancel", "killDec", "killUndo"}
      /\ GuardedOp = {"sendEnqueue", "sendPost", "killUse", "killCancel", "killDec"}
      /\ ReleaseOp = {"leave", "release", "push"}
  BY DEF HoldingOp, GuardedOp, ReleaseOp
<1> USE <1>0, <1>h, ProgramPoints DEF Bit, idVars, sendVars, netVars, histVars
<1>1. CASE SendPacketRef(t)
  <2>1. QuietCallStep(t, "send", "sendCheck")
    BY <1>1, CountingFacts DEF SendPacketRef, QuietCallStep
  <2> QED BY ONLY SesInv, <1>0, t \in Threads, <2>1, QuietCall
<1>2. CASE SendPacketCheck(t)
  <2>1. CASE GuardHolds(t)
    <3>1. QuietCallStep(t, "sendCheck", "sendEnqueue")
      BY <1>2, <2>1 DEF SendPacketCheck, QuietCallStep
    <3> QED BY ONLY SesInv, <1>0, t \in Threads, <3>1, QuietCall
  <2>2. CASE ~(GuardHolds(t))
    <3>1. QuietCallStep(t, "sendCheck", "sendUndo")
      BY <1>2, <2>2 DEF SendPacketCheck, QuietCallStep
    <3> QED BY ONLY SesInv, <1>0, t \in Threads, <3>1, QuietCall
  <2> QED BY <2>1, <2>2
<1>3. CASE SendPacketEnqueue(t)
  <2>1. QuietCallStep(t, "sendEnqueue", "sendPost")
    BY <1>3 DEF SendPacketEnqueue, QuietCallStep
  <2> QED BY ONLY SesInv, <1>0, t \in Threads, <2>1, QuietCall
<1>4. CASE SendPacketPost(t)
  <2>1. /\ IoRefs(io'[Target(t)]) = IoRefs(io[Target(t)]) + 1
        /\ \A r \in Slots \ {Target(t)} : io'[r] = io[r]
    BY <1>4, IoPosted DEF SendPacketPost, IoKind
  <2>2. QuietCallStep(t, "sendPost", "none")
    BY <1>4, <2>1 DEF SendPacketPost, QuietCallStep
  <2> QED BY ONLY SesInv, <1>0, t \in Threads, <2>2, QuietCall
<1>5. CASE SendPacketUndo(t)
  <2>1. QuietCallStep(t, "sendUndo", "none")
    BY <1>5, CountingFacts DEF SendPacketUndo, QuietCallStep
  <2> QED BY ONLY SesInv, <1>0, t \in Threads, <2>1, QuietCall
<1>6. CASE KillSessionRef(t)
  <2>1. QuietCallStep(t, "kill", "killCheck")
    BY <1>6, CountingFacts DEF KillSessionRef, QuietCallStep
  <2> QED BY ONLY SesInv, <1>0, t \in Threads, <2>1, QuietCall
<1>7. CASE KillSessionCheck(t)
  <2>1. CASE GuardHolds(t)
    <3>1. QuietCallStep(t, "killCheck", "killUse")
      BY <1>7, <2>1 DEF KillSessionCheck, QuietCallStep
    <3> QED BY ONLY SesInv, <1>0, t \in Threads, <3>1, QuietCall
  <2>2. CASE ~(GuardHolds(t))
    <3>1. QuietCallStep(t, "killCheck", "killUndo")
      BY <1>7, <2>2 DEF KillSessionCheck, QuietCallStep
    <3> QED BY ONLY SesInv, <1>0, t \in Threads, <3>1, QuietCall
  <2> QED BY <2>1, <2>2
<1>8. CASE KillSessionUse(t)
  <2>1. QuietCallStep(t, "killUse", "killCancel")
    BY <1>8 DEF KillSessionUse, QuietCallStep
  <2> QED BY ONLY SesInv, <1>0, t \in Threads, <2>1, QuietCall
<1>9. CASE KillSessionCancel(t)
  <2>1. QuietCallStep(t, "killCancel", "killDec")
    BY <1>9, IoCancelled DEF KillSessionCancel, QuietCallStep
  <2> QED BY ONLY SesInv, <1>0, t \in Threads, <2>1, QuietCall
<1>10. CASE KillSessionDec(t)
  <2>1. CASE RefCnt[Target(t)] = 1
    <3>1. QuietCallStep(t, "killDec", "cas")
      BY <1>10, <2>1, CountingFacts DEF KillSessionDec, QuietCallStep
    <3> QED BY ONLY SesInv, <1>0, t \in Threads, <3>1, QuietCall
  <2>2. CASE ~(RefCnt[Target(t)] = 1)
    <3>1. QuietCallStep(t, "killDec", "none")
      BY <1>10, <2>2, CountingFacts DEF KillSessionDec, QuietCallStep
    <3> QED BY ONLY SesInv, <1>0, t \in Threads, <3>1, QuietCall
  <2> QED BY <2>1, <2>2
<1>11. CASE KillSessionUndo(t)
  <2>1. QuietCallStep(t, "killUndo", "none")
    BY <1>11, CountingFacts DEF KillSessionUndo, QuietCallStep
  <2> QED BY ONLY SesInv, <1>0, t \in Threads, <2>1, QuietCall
<1>12. ~DisconnectCas(t) /\ ~OnClientLeave(t) /\ ~ReleaseSession(t) /\ ~ReleasePush(t)
  BY DEF DisconnectCas, DisconnectTo, OnClientLeave, ReleaseSession, ReleasePush, InCall
<1> QED BY ONLY CallStep(t), <1>1, <1>2, <1>3, <1>4, <1>5, <1>6, <1>7, <1>8, <1>9, <1>10,
           <1>11, <1>12 DEF CallStep

\* DisconnectSession: the compare-exchange needs RefCnt = 0, and a slot without
\* references has no user left.
LEMMA NoHolders ==
  ASSUME SesInv, NEW s \in Slots, RefCnt[s] = 0
  PROVE  /\ IoRefs(io[s]) = 0
         /\ \A t \in Threads : ~HoldsBase(t, s) /\ ~HoldsPost(t, s) /\ ~HoldsCall(t, s)
<1>1. /\ IoRefs(io[s]) \in Nat
      /\ RefCnt[s] = Cardinality(BaseHolders(s)) + Cardinality(PostHolders(s))
                       + Cardinality(CallHolders(s)) + IoRefs(io[s])
  BY CountingFacts DEF SesInv, RefCntExact
<1>2. /\ IoRefs(io[s]) = 0 /\ Cardinality(BaseHolders(s)) = 0
      /\ Cardinality(PostHolders(s)) = 0 /\ Cardinality(CallHolders(s)) = 0
  BY <1>1, HoldersFinite
<1>3. BaseHolders(s) = {} /\ PostHolders(s) = {} /\ CallHolders(s) = {}
  BY <1>2, HoldersFinite, FS_EmptySet
<1> QED BY <1>2, <1>3 DEF BaseHolders, PostHolders, CallHolders, HoldsBase, HoldsPost, HoldsCall

\* A step that leaves the counts and the thread's outer frame alone and moves a
\* call among "cas", the release operations and "none".
ReleaseMove(t, l, m) ==
  /\ l \in ReleaseOp \cup {"cas"} /\ m \in ReleaseOp \cup {"none"}
  /\ InCall(t, l) /\ CallGoto(t, m)
  /\ UNCHANGED <<RefCnt, io>>

\* What a step of DisconnectSession leaves as it was.
LEMMA ReleaseMoveParts ==
  ASSUME SesInv, SesTypeOK', NEW t \in Threads, NEW l, NEW m, ReleaseMove(t, l, m)
  PROVE  /\ OpeningAlone' /\ RefCntExact'
         /\ \A u \in Threads, s \in Slots :
              /\ (Uses(u, s)' <=> Uses(u, s)) /\ (Opens(u, s)' <=> Opens(u, s))
              /\ u # t => (Releases(u, s)' <=> Releases(u, s))
         /\ \A s \in Slots :
              /\ Releases(t, s) <=> l \in ReleaseOp /\ Target(t) = s
              /\ Releases(t, s)' <=> m \in ReleaseOp /\ Target(t) = s
         /\ \A u \in Threads : op'[u] \in GuardedOp =>
              u # t /\ op[u] \in GuardedOp /\ arg'[u] = arg[u] /\ Target(u)' = Target(u)
         /\ ~(\E s \in Slots : Opens(t, s))
<1> USE DEF ReleaseMove
<1>1. /\ op' = [op EXCEPT ![t] = m] /\ pc' = pc /\ at' = at /\ op[t] = l
      /\ m # "none" => arg' = arg
      /\ \A u \in Threads \ {t} : arg'[u] = arg[u]
  BY DEF CallGoto, InCall, SesInv, SesTypeOK, ThrTypeOK
<1>2. /\ op'[t] = m
      /\ m # "none" => Target(t)' = Target(t)
      /\ \A u \in Threads \ {t} : op'[u] = op[u] /\ Target(u)' = Target(u)
  BY <1>1 DEF SesInv, SesTypeOK, ThrTypeOK, Target, FindSession
<1>3. /\ l \notin HoldingOp /\ l \notin GuardedOp /\ l # "none"
      /\ m \notin HoldingOp /\ m \notin GuardedOp /\ "none" \notin ReleaseOp
  BY DEF HoldingOp, GuardedOp, ReleaseOp
<1>4. OpeningAlone' /\ pc[t] \notin OpeningPC
  BY <1>1, <1>2, <1>3 DEF SesInv, OpeningAlone
<1>5. RefCntExact'
  <2>1. \A s \in Slots : /\ BaseHolders(s)' = BaseHolders(s) /\ PostHolders(s)' = PostHolders(s)
                         /\ CallHolders(s)' = CallHolders(s)
    BY <1>1, <1>2, <1>3 DEF BaseHolders, PostHolders, CallHolders
  <2> QED BY <2>1 DEF SesInv, RefCntExact
<1>6. \A u \in Threads, s \in Slots :
        /\ (Uses(u, s)' <=> Uses(u, s)) /\ (Opens(u, s)' <=> Opens(u, s))
        /\ u # t => (Releases(u, s)' <=> Releases(u, s))
  BY <1>1, <1>2, <1>3 DEF Uses, Opens, Releases
<1> QED BY <1>1, <1>2, <1>3, <1>4, <1>5, <1>6 DEF Releases, Opens

\* The users of every slot, threads and kernel, stay the same.
UsesSame == io' = io /\ \A u \in Threads, s \in Slots : Uses(u, s)' <=> Uses(u, s)

\* ReleaseFlag changes only on slots without users.
ReleasesUnused ==
  \A s \in Slots : \/ ReleaseFlag'[s] = ReleaseFlag[s]
                   \/ IoRefs(io[s]) = 0 /\ \A u \in Threads : ~Uses(u, s)

\* Nothing works on a released session when the users are the same and a flag is
\* set only on a slot without users.
LEMMA UsesKept ==
  ASSUME SesInv, UsesSame, ReleasesUnused
  PROVE  NoUseAfterRelease'
<1> USE DEF UsesSame, ReleasesUnused
<1> SUFFICES ASSUME NEW s \in Slots, (\E u \in Threads : Uses(u, s)') \/ IoRefs(io'[s]) > 0
             PROVE  ReleaseFlag'[s] = FALSE
  BY DEF NoUseAfterRelease, Uses
<1>1. (\E u \in Threads : Uses(u, s)) \/ IoRefs(io[s]) > 0
  OBVIOUS
<1>2. ReleaseFlag[s] = FALSE
  BY <1>1 DEF SesInv, NoUseAfterRelease, Uses
<1>3. ReleaseFlag'[s] = ReleaseFlag[s]
  BY <1>1
<1> QED BY <1>2, <1>3

\* DisconnectSession: only the thread whose compare-exchange succeeded becomes the
\* owner of the slot, and it stays so until the Push.
LEMMA DisconnectInv ==
  ASSUME SesInv, NEW t \in Threads, CallStep(t), op[t] \in ReleaseOp \cup {"cas"}
  PROVE  SesInv'
<1>0. SesTypeOK' /\ Target(t) \in Slots /\ ReleaseFlag \in [Slots -> BOOLEAN]
      /\ SessionID \in [Slots -> Nat]
  BY CallStepType DEF SesInv, SesTypeOK, ThrTypeOK, IdTypeOK, Target, FindSession
<1>1. CASE DisconnectCas(t) /\ ~Releasable(Target(t))
  <2>1. ReleaseMove(t, "cas", "none") /\ UNCHANGED <<ReleaseFlag, SessionID, FreeSessionStack>>
    BY <1>1 DEF DisconnectCas, DisconnectTo, ReleaseMove, netVars
  <2>2. "cas" \notin ReleaseOp /\ "none" \notin ReleaseOp
    BY DEF ReleaseOp
  <2>3. \A u \in Threads, s \in Slots : (Opens(u, s)' <=> Opens(u, s)) /\ (Releases(u, s)' <=> Releases(u, s))
    BY <1>0, <2>1, <2>2, ReleaseMoveParts
  <2>4. OneOwner'
    BY <2>1, <2>3 DEF SesInv, OneOwner
  <2>5. NoUseAfterRelease'
    <3>1. UsesSame
      BY <1>0, <2>1, ReleaseMoveParts DEF ReleaseMove, UsesSame
    <3>2. ReleasesUnused
      BY <2>1 DEF ReleasesUnused
    <3> QED BY <3>1, <3>2, UsesKept
  <2>6. GuardPinsSession'
    BY <1>0, <2>1, ReleaseMoveParts DEF SesInv, GuardPinsSession
  <2> QED BY <1>0, <2>1, <2>4, <2>5, <2>6, ReleaseMoveParts DEF SesInv
<1>2. CASE DisconnectCas(t) /\ Releasable(Target(t))
  <2> DEFINE s == Target(t)
  <2>1. /\ ReleaseMove(t, "cas", "leave") /\ UNCHANGED <<SessionID, FreeSessionStack>>
        /\ ReleaseFlag' = [ReleaseFlag EXCEPT ![s] = TRUE]
        /\ ReleaseFlag[s] = FALSE /\ RefCnt[s] = 0
    BY <1>2 DEF DisconnectCas, DisconnectTo, ReleaseMove, Releasable, netVars, ReleaseOp
  <2>2. "cas" \notin ReleaseOp /\ "leave" \in ReleaseOp
    BY DEF ReleaseOp
  <2>3. s \in Slots /\ ReleaseFlag'[s] = TRUE /\ \A r \in Slots \ {s} : ReleaseFlag'[r] = ReleaseFlag[r]
    BY <1>0, <2>1
  <2>4. /\ s \notin FreeSessionStack
        /\ \A u \in Threads : ~Opens(u, s) /\ ~Releases(u, s)
    BY <2>1, <2>3 DEF SesInv, OneOwner
  <2>5. /\ \A u \in Threads, r \in Slots : (Opens(u, r)' <=> Opens(u, r))
        /\ \A u \in Threads, r \in Slots : Releases(u, r)' <=> Releases(u, r) \/ (u = t /\ r = s)
        /\ \A r \in Slots : ~Opens(t, r) /\ ~Releases(t, r)
    BY <1>0, <2>1, <2>2, ReleaseMoveParts
  <2>6. OneOwner'
    BY <2>1, <2>3, <2>4, <2>5 DEF SesInv, OneOwner
  <2>7. \A u \in Threads : ~Uses(u, s)
    BY <2>1, <2>3, NoHolders DEF Uses, HoldsBase, HoldsCall, BasePC, HoldingOp
  <2>8. NoUseAfterRelease'
    <3>1. UsesSame
      BY <1>0, <2>1, ReleaseMoveParts DEF ReleaseMove, UsesSame
    <3>2. ReleasesUnused
      BY <2>1, <2>3, <2>7, NoHolders DEF ReleasesUnused
    <3> QED BY <3>1, <3>2, UsesKept
  <2>9. GuardPinsSession'
    BY <1>0, <2>1, ReleaseMoveParts DEF SesInv, GuardPinsSession
  <2> QED BY <1>0, <2>1, <2>6, <2>8, <2>9, ReleaseMoveParts DEF SesInv
<1>3. CASE OnClientLeave(t)
  <2>1. ReleaseMove(t, "leave", "release") /\ UNCHANGED <<ReleaseFlag, SessionID, FreeSessionStack>>
    BY <1>3 DEF OnClientLeave, ReleaseMove, idVars, netVars, ReleaseOp
  <2>2. "leave" \in ReleaseOp /\ "release" \in ReleaseOp
    BY DEF ReleaseOp
  <2>3. \A u \in Threads, s \in Slots : (Opens(u, s)' <=> Opens(u, s)) /\ (Releases(u, s)' <=> Releases(u, s))
    BY <1>0, <2>1, <2>2, ReleaseMoveParts
  <2>4. OneOwner'
    BY <2>1, <2>3 DEF SesInv, OneOwner
  <2>5. NoUseAfterRelease'
    <3>1. UsesSame
      BY <1>0, <2>1, ReleaseMoveParts DEF ReleaseMove, UsesSame
    <3>2. ReleasesUnused
      BY <2>1 DEF ReleasesUnused
    <3> QED BY <3>1, <3>2, UsesKept
  <2>6. GuardPinsSession'
    BY <1>0, <2>1, ReleaseMoveParts DEF SesInv, GuardPinsSession
  <2> QED BY <1>0, <2>1, <2>4, <2>5, <2>6, ReleaseMoveParts DEF SesInv
<1>4. CASE ReleaseSession(t)
  <2> DEFINE s == Target(t)
  <2>1. ReleaseMove(t, "release", "push") /\ UNCHANGED <<ReleaseFlag, FreeSessionStack>>
        /\ SessionID' = [SessionID EXCEPT ![s] = 0]
    BY <1>4 DEF ReleaseSession, ReleaseMove, ReleaseOp
  <2>2. "release" \in ReleaseOp /\ "push" \in ReleaseOp
    BY DEF ReleaseOp
  <2>3. \A u \in Threads, r \in Slots : (Opens(u, r)' <=> Opens(u, r)) /\ (Releases(u, r)' <=> Releases(u, r))
    BY <1>0, <2>1, <2>2, ReleaseMoveParts
  <2>4. OneOwner'
    BY <2>1, <2>3 DEF SesInv, OneOwner
  <2>5. NoUseAfterRelease'
    <3>1. UsesSame
      BY <1>0, <2>1, ReleaseMoveParts DEF ReleaseMove, UsesSame
    <3>2. ReleasesUnused
      BY <2>1 DEF ReleasesUnused
    <3> QED BY <3>1, <3>2, UsesKept
  <2>6. Releases(t, s) /\ ReleaseFlag[s] = TRUE
    BY <1>0, <2>1, <2>2, ReleaseMoveParts DEF SesInv, OneOwner
  <2>7. \A u \in Threads : op[u] \in GuardedOp => Target(u) # s /\ Target(u) \in Slots
    BY <1>0, <2>6 DEF SesInv, SesTypeOK, ThrTypeOK, NoUseAfterRelease, Target, FindSession
  <2>8. GuardPinsSession'
    BY <1>0, <2>1, <2>7, ReleaseMoveParts DEF SesInv, GuardPinsSession
  <2> QED BY <1>0, <2>1, <2>4, <2>5, <2>8, ReleaseMoveParts DEF SesInv
<1>5. CASE ReleasePush(t)
  <2> DEFINE s == Target(t)
  <2>1. ReleaseMove(t, "push", "none") /\ UNCHANGED <<ReleaseFlag, SessionID>>
        /\ FreeSessionStack' = FreeSessionStack \cup {s}
    BY <1>5 DEF ReleasePush, ReleaseMove, ReleaseOp, netVars
  <2>2. "push" \in ReleaseOp /\ "none" \notin ReleaseOp
    BY DEF ReleaseOp
  <2>3. /\ \A u \in Threads, r \in Slots : (Opens(u, r)' <=> Opens(u, r))
        /\ \A u \in Threads, r \in Slots : Releases(u, r)' <=> Releases(u, r) /\ u # t
        /\ \A r \in Slots : Releases(t, r) <=> r = s
    BY <1>0, <2>1, <2>2, ReleaseMoveParts
  <2>4. OneOwner'
    <3>1. /\ s \in Slots /\ Releases(t, s) /\ ReleaseFlag[s] /\ s \notin FreeSessionStack
          /\ \A u \in Threads : ~Opens(u, s) /\ (Releases(u, s) => u = t)
      BY <1>0, <2>1, <2>3, ReleaseMoveParts DEF SesInv, OneOwner
    <3>2. ASSUME NEW r \in Slots, r # s
          PROVE  /\ r \in FreeSessionStack' <=> r \in FreeSessionStack
                 /\ \A u \in Threads : Releases(u, r)' <=> Releases(u, r)
      BY <2>1, <2>3, <3>2
    <3>3. ASSUME NEW r \in Slots
          PROVE  ReleaseFlag'[r] <=> \/ r \in FreeSessionStack'
                                   \/ \E u \in Threads : Opens(u, r)' \/ Releases(u, r)'
      <4>1. CASE r = s
        BY <2>1, <3>1, <4>1
      <4>2. CASE r # s
        BY <2>1, <2>3, <3>2, <4>2 DEF SesInv, OneOwner
      <4> QED BY <4>1, <4>2
    <3>4. ASSUME NEW r \in Slots, NEW u \in Threads, NEW v \in Threads
          PROVE  /\ Opens(u, r)' \/ Releases(u, r)' => r \notin FreeSessionStack'
                 /\ (Opens(u, r)' \/ Releases(u, r)') /\ (Opens(v, r)' \/ Releases(v, r)') => u = v
      <4>1. CASE r = s
        BY <2>3, <3>1, <4>1
      <4>2. CASE r # s
        BY <2>3, <3>2, <4>2 DEF SesInv, OneOwner
      <4> QED BY <4>1, <4>2
    <3> QED BY <3>3, <3>4 DEF OneOwner
  <2>5. NoUseAfterRelease'
    <3>1. UsesSame
      BY <1>0, <2>1, ReleaseMoveParts DEF ReleaseMove, UsesSame
    <3>2. ReleasesUnused
      BY <2>1 DEF ReleasesUnused
    <3> QED BY <3>1, <3>2, UsesKept
  <2>6. GuardPinsSession'
    BY <1>0, <2>1, ReleaseMoveParts DEF SesInv, GuardPinsSession
  <2> QED BY <1>0, <2>1, <2>4, <2>5, <2>6, ReleaseMoveParts DEF SesInv
<1>6. CASE op[t] \in {"cas", "leave", "release", "push"} /\ ~DisconnectCas(t) /\ ~OnClientLeave(t)
           /\ ~ReleaseSession(t) /\ ~ReleasePush(t)
  BY <1>6 DEF CallStep, InCall, SendPacketRef, SendPacketCheck, SendPacketEnqueue, SendPacketPost,
     SendPacketUndo, KillSessionRef, KillSessionCheck, KillSessionUse, KillSessionCancel,
     KillSessionDec, KillSessionUndo
<1> QED BY <1>1, <1>2, <1>3, <1>4, <1>5, <1>6 DEF ReleaseOp

\* What the program points of an outer frame hold and where they belong.
LEMMA PointFacts ==
  /\ \A l \in RecvPostPC \cup SendPostPC \cup {"parse", "sent", "sentUnlock", "final", "join"} :
       l \in PC /\ l \in WorkingPC /\ l \in BasePC /\ l \notin OpeningPC
  /\ \A l \in {"readID", "init", "initRef", "publish"} :
       l \in PC /\ l \notin WorkingPC /\ l \in OpeningPC /\ l \notin PostPC
  /\ \A l \in {"opened", "accept", "pop", "gqcs", "idle", "exited"} :
       l \in PC /\ l \notin WorkingPC /\ l \notin BasePC /\ l \notin OpeningPC /\ l \notin PostPC
  /\ \A l \in {"rpRecv", "rpUndo", "spUse", "spLock", "spSize", "spUnlock", "spRecheck",
               "spFill", "spSend", "spUndo"} : l \in PostPC
  /\ \A l \in {"rpUse", "rpRef", "rpCancel", "spRef", "spCancel", "parse", "sent",
               "sentUnlock", "final", "join"} : l \notin PostPC
  /\ "publish" \in BasePC /\ "readID" \notin BasePC /\ "init" \notin BasePC /\ "initRef" \notin BasePC
  /\ RecvPostPC = {"rpUse", "rpRef", "rpRecv", "rpUndo", "rpCancel"}
  /\ SendPostPC = {"spRef", "spUse", "spLock", "spSize", "spUnlock", "spRecheck",
                   "spFill", "spSend", "spUndo", "spCancel"}
  BY DEF PC, OpeningPC, WorkingPC, BasePC, PostPC, RecvPostPC, SendPostPC

\* RecvPost takes one more reference and passes it to the receive it posts.
LEMMA RecvPostInv ==
  ASSUME SesInv, NEW t \in Threads, RecvPostStep(t)
  PROVE  SesInv'
<1>0. /\ SesTypeOK' /\ SesTypeOK /\ NetTypeOK /\ at[t] \in Slots
      /\ RefCnt[at[t]] \in Int /\ IoRefs(io[at[t]]) \in Nat
  BY RecvPostType, CountingFacts DEF SesInv, SesTypeOK, ThrTypeOK
<1> USE <1>0, PointFacts DEF Bit, Goto, idVars, sendVars, netVars, histVars
<1>1. CASE RecvPostUse(t)
  <2>1. CASE SessionUseFlag[at[t]]
    <3>1. QuietGotoStep(t, "rpUse", "rpRef")
      BY <1>1, <2>1 DEF RecvPostUse, QuietGotoStep
    <3> QED BY ONLY SesInv, <1>0, t \in Threads, <3>1, QuietGoto
  <2>2. CASE ~SessionUseFlag[at[t]]
    <3>1. QuietGotoStep(t, "rpUse", "final")
      BY <1>1, <2>2 DEF RecvPostUse, QuietGotoStep
    <3> QED BY ONLY SesInv, <1>0, t \in Threads, <3>1, QuietGoto
  <2> QED BY <2>1, <2>2
<1>2. CASE RecvPostRef(t)
  <2>1. QuietGotoStep(t, "rpRef", "rpRecv")
    BY <1>2, CountingFacts DEF RecvPostRef, QuietGotoStep
  <2> QED BY ONLY SesInv, <1>0, t \in Threads, <2>1, QuietGoto
<1>3. CASE RecvPostRecv(t)
  <2>0. /\ IoRefs(io'[at[t]]) = IoRefs(io[at[t]]) + 1
        /\ \A r \in Slots \ {at[t]} : io'[r] = io[r]
    BY <1>3, IoPosted DEF RecvPostRecv, IoKind
  <2>1. QuietGotoStep(t, "rpRecv", "rpCancel")
    BY <1>3, <2>0 DEF RecvPostRecv, QuietGotoStep
  <2> QED BY ONLY SesInv, <1>0, t \in Threads, <2>1, QuietGoto
<1>4. CASE RecvPostFail(t)
  <2>1. QuietGotoStep(t, "rpRecv", "rpUndo")
    BY <1>4 DEF RecvPostFail, QuietGotoStep
  <2> QED BY ONLY SesInv, <1>0, t \in Threads, <2>1, QuietGoto
<1>5. CASE RecvPostUndo(t)
  <2>1. QuietGotoStep(t, "rpUndo", "final")
    BY <1>5, CountingFacts DEF RecvPostUndo, QuietGotoStep
  <2> QED BY ONLY SesInv, <1>0, t \in Threads, <2>1, QuietGoto
<1>6. CASE RecvPostCancel(t)
  <2>0. /\ IoRefs(io'[at[t]]) = IoRefs(io[at[t]])
        /\ \A r \in Slots \ {at[t]} : io'[r] = io[r]
    BY <1>6, IoCancelled DEF RecvPostCancel
  <2>1. QuietGotoStep(t, "rpCancel", "final")
    BY <1>6, <2>0 DEF RecvPostCancel, QuietGotoStep
  <2> QED BY ONLY SesInv, <1>0, t \in Threads, <2>1, QuietGoto
<1> QED BY ONLY RecvPostStep(t), <1>1, <1>2, <1>3, <1>4, <1>5, <1>6 DEF RecvPostStep

\* SendPost works inside the extra reference that its caller took and passes it
\* to the send it posts, or gives it back.
LEMMA SendPostInv ==
  ASSUME SesInv, NEW t \in Threads, SendPostStep(t)
  PROVE  SesInv'
<1>0. /\ SesTypeOK' /\ SesTypeOK /\ NetTypeOK /\ at[t] \in Slots
      /\ RefCnt[at[t]] \in Int /\ IoRefs(io[at[t]]) \in Nat
  BY SendPostType, CountingFacts DEF SesInv, SesTypeOK, ThrTypeOK
<1> USE <1>0, PointFacts DEF Bit, Goto, idVars, sendVars, netVars, histVars
<1>1. CASE SendPostRef(t)
  <2>1. QuietGotoStep(t, "spRef", "spUse")
    BY <1>1, CountingFacts DEF SendPostRef, QuietGotoStep
  <2> QED BY ONLY SesInv, <1>0, t \in Threads, <2>1, QuietGoto
<1>2. CASE SendPostUse(t)
  <2>1. CASE SessionUseFlag[at[t]]
    <3>1. QuietGotoStep(t, "spUse", "spLock")
      BY <1>2, <2>1 DEF SendPostUse, QuietGotoStep
    <3> QED BY ONLY SesInv, <1>0, t \in Threads, <3>1, QuietGoto
  <2>2. CASE ~SessionUseFlag[at[t]]
    <3>1. QuietGotoStep(t, "spUse", "spUndo")
      BY <1>2, <2>2 DEF SendPostUse, QuietGotoStep
    <3> QED BY ONLY SesInv, <1>0, t \in Threads, <3>1, QuietGoto
  <2> QED BY <2>1, <2>2
<1>3. CASE SendPostLock(t)
  <2>1. CASE SendFlag[at[t]] = 1
    <3>1. QuietGotoStep(t, "spLock", "spUndo")
      BY <1>3, <2>1 DEF SendPostLock, QuietGotoStep
    <3> QED BY ONLY SesInv, <1>0, t \in Threads, <3>1, QuietGoto
  <2>2. CASE SendFlag[at[t]] # 1
    <3>1. QuietGotoStep(t, "spLock", "spSize")
      BY <1>3, <2>2 DEF SendPostLock, QuietGotoStep
    <3> QED BY ONLY SesInv, <1>0, t \in Threads, <3>1, QuietGoto
  <2> QED BY <2>1, <2>2
<1>4. CASE SendPostSize(t)
  <2>1. CASE SendQ[at[t]] = 0
    <3>1. QuietGotoStep(t, "spSize", "spUnlock")
      BY <1>4, <2>1 DEF SendPostSize, QuietGotoStep
    <3> QED BY ONLY SesInv, <1>0, t \in Threads, <3>1, QuietGoto
  <2>2. CASE SendQ[at[t]] # 0
    <3>1. QuietGotoStep(t, "spSize", "spFill")
      BY <1>4, <2>2 DEF SendPostSize, QuietGotoStep
    <3> QED BY ONLY SesInv, <1>0, t \in Threads, <3>1, QuietGoto
  <2> QED BY <2>1, <2>2
<1>5. CASE SendPostUnlock(t)
  <2>1. QuietGotoStep(t, "spUnlock", "spRecheck")
    BY <1>5 DEF SendPostUnlock, QuietGotoStep
  <2> QED BY ONLY SesInv, <1>0, t \in Threads, <2>1, QuietGoto
<1>6. CASE SendPostRecheck(t)
  <2>1. CASE SendQ[at[t]] = 0
    <3>1. QuietGotoStep(t, "spRecheck", "spUndo")
      BY <1>6, <2>1 DEF SendPostRecheck, QuietGotoStep
    <3> QED BY ONLY SesInv, <1>0, t \in Threads, <3>1, QuietGoto
  <2>2. CASE SendQ[at[t]] # 0
    <3>1. QuietGotoStep(t, "spRecheck", "spLock")
      BY <1>6, <2>2 DEF SendPostRecheck, QuietGotoStep
    <3> QED BY ONLY SesInv, <1>0, t \in Threads, <3>1, QuietGoto
  <2> QED BY <2>1, <2>2
<1>7. CASE SendPostFill(t)
  <2>1. QuietGotoStep(t, "spFill", "spSend")
    BY <1>7 DEF SendPostFill, SendPostFillTo, QuietGotoStep
  <2> QED BY ONLY SesInv, <1>0, t \in Threads, <2>1, QuietGoto
<1>8. CASE SendPostSend(t)
  <2>0. /\ IoRefs(io'[at[t]]) = IoRefs(io[at[t]]) + 1
        /\ \A r \in Slots \ {at[t]} : io'[r] = io[r]
    BY <1>8, IoPosted DEF SendPostSend, IoKind
  <2>1. QuietGotoStep(t, "spSend", "spCancel")
    BY <1>8, <2>0 DEF SendPostSend, QuietGotoStep
  <2> QED BY ONLY SesInv, <1>0, t \in Threads, <2>1, QuietGoto
<1>9. CASE SendPostFail(t)
  <2>1. QuietGotoStep(t, "spSend", "spUndo")
    BY <1>9 DEF SendPostFail, QuietGotoStep
  <2> QED BY ONLY SesInv, <1>0, t \in Threads, <2>1, QuietGoto
<1>10. CASE SendPostCancel(t)
  <2>0. /\ IoRefs(io'[at[t]]) = IoRefs(io[at[t]])
        /\ \A r \in Slots \ {at[t]} : io'[r] = io[r]
    BY <1>10, IoCancelled DEF SendPostCancel
  <2>1. QuietGotoStep(t, "spCancel", "final")
    BY <1>10, <2>0 DEF SendPostCancel, QuietGotoStep
  <2> QED BY ONLY SesInv, <1>0, t \in Threads, <2>1, QuietGoto
<1>11. CASE SendPostUndo(t)
  <2>1. QuietGotoStep(t, "spUndo", "final")
    BY <1>11, CountingFacts DEF SendPostUndo, QuietGotoStep
  <2> QED BY ONLY SesInv, <1>0, t \in Threads, <2>1, QuietGoto
<1> QED BY ONLY SendPostStep(t), <1>1, <1>2, <1>3, <1>4, <1>5, <1>6, <1>7, <1>8, <1>9, <1>10, <1>11 DEF SendPostStep

\* Opening steps that only move the opener on, or take its reference.
LEMMA OpenQuietInv ==
  ASSUME SesInv, NEW t \in Threads, GenerateSessionID(t) \/ InitSessionRef(t) \/ PopNothing(t)
  PROVE  SesInv'
<1>0. /\ SesTypeOK' /\ SesTypeOK /\ NetTypeOK /\ at[t] \in Slots
      /\ RefCnt[at[t]] \in Int /\ IoRefs(io[at[t]]) \in Nat
  BY OpenStepType, CountingFacts DEF OpenStep, SesInv, SesTypeOK, ThrTypeOK
<1> USE <1>0, PointFacts DEF Bit, Goto, idVars, sendVars, netVars, histVars
<1>1. CASE GenerateSessionID(t)
  <2>1. QuietGotoStep(t, "readID", "init")
    BY <1>1 DEF GenerateSessionID, QuietGotoStep
  <2> QED BY ONLY SesInv, <1>0, t \in Threads, <2>1, QuietGoto
<1>2. CASE InitSessionRef(t)
  <2>1. QuietGotoStep(t, "initRef", "publish")
    BY <1>2, CountingFacts DEF InitSessionRef, QuietGotoStep
  <2> QED BY ONLY SesInv, <1>0, t \in Threads, <2>1, QuietGoto
<1>3. CASE PopNothing(t)
  <2>1. QuietGotoStep(t, "pop", "opened")
    BY <1>3 DEF PopNothing, QuietGotoStep
  <2> QED BY ONLY SesInv, <1>0, t \in Threads, <2>1, QuietGoto
<1> QED BY ONLY GenerateSessionID(t) \/ InitSessionRef(t) \/ PopNothing(t), <1>1, <1>2, <1>3

\* The worker's own handling of a completion, up to RecvPost or SendPost.
LEMMA HandleQuietInv ==
  ASSUME SesInv, NEW t \in Threads, ParseDone(t) \/ SendDoneFree(t) \/ SendDoneUnlock(t)
  PROVE  SesInv'
<1>0. /\ SesTypeOK' /\ SesTypeOK /\ NetTypeOK /\ at[t] \in Slots
      /\ RefCnt[at[t]] \in Int /\ IoRefs(io[at[t]]) \in Nat
  BY WorkStepType, CountingFacts DEF WorkStep, SesInv, SesTypeOK, ThrTypeOK
<1> USE <1>0, PointFacts DEF Bit, Goto, idVars, sendVars, netVars, histVars
<1>1. CASE ParseDone(t)
  <2>1. QuietGotoStep(t, "parse", "rpUse")
    BY <1>1 DEF ParseDone, QuietGotoStep
  <2> QED BY ONLY SesInv, <1>0, t \in Threads, <2>1, QuietGoto
<1>2. CASE SendDoneFree(t)
  <2>1. QuietGotoStep(t, "sent", "sentUnlock")
    BY <1>2 DEF SendDoneFree, QuietGotoStep
  <2> QED BY ONLY SesInv, <1>0, t \in Threads, <2>1, QuietGoto
<1>3. CASE SendDoneUnlock(t)
  <2>1. QuietGotoStep(t, "sentUnlock", "spRef")
    BY <1>3 DEF SendDoneUnlock, QuietGotoStep
  <2> QED BY ONLY SesInv, <1>0, t \in Threads, <2>1, QuietGoto
<1> QED BY ONLY ParseDone(t) \/ SendDoneFree(t) \/ SendDoneUnlock(t), <1>1, <1>2, <1>3

\* A callback, an application thread or Stop begins a call: nothing is held yet.
BeginsCall(t) ==
  /\ op[t] = "none" /\ op'[t] \in {"send", "kill", "none"}
  /\ OnlyThread(t)
  /\ at' = at
  /\ pc[t] \notin OpeningPC
  /\ pc'[t] = pc[t] \/ {pc[t], pc'[t]} \subseteq {"join", "parse", "rpUse"}
  /\ UNCHANGED <<RefCnt, io, ReleaseFlag, SessionID, FreeSessionStack>>

\* A thread that begins a call holds nothing more than before.
LEMMA BeginCallInv ==
  ASSUME SesInv, SesTypeOK', NEW t \in Threads, BeginsCall(t)
  PROVE  SesInv'
<1> USE DEF BeginsCall
<1>1. /\ op[t] \notin HoldingOp \cup GuardedOp \cup ReleaseOp
      /\ op'[t] \notin HoldingOp \cup GuardedOp \cup ReleaseOp
  BY DEF HoldingOp, GuardedOp, ReleaseOp
<1>2. /\ pc'[t] \in BasePC <=> pc[t] \in BasePC
      /\ pc'[t] \in PostPC <=> pc[t] \in PostPC
      /\ pc'[t] \in WorkingPC <=> pc[t] \in WorkingPC
      /\ pc'[t] \notin OpeningPC
  BY PointFacts
<1>3. /\ \A s \in Slots : Opens(t, s)' = Opens(t, s) /\ Releases(t, s)' = Releases(t, s)
      /\ \A s \in Slots : Held(t, s)' = Held(t, s)
      /\ \A s \in Slots : Uses(t, s)' => Uses(t, s)
  BY <1>1, <1>2 DEF Opens, Releases, Held, Bit, HoldsBase, HoldsPost, HoldsCall, Uses
<1>4. \A s \in Slots : RefCnt'[s] - Held(t, s)' - IoRefs(io'[s]) = RefCnt[s] - Held(t, s) - IoRefs(io[s])
  BY <1>3
<1>5. \A s \in Slots : Uses(t, s)' \/ IoRefs(io'[s]) > 0 => ~ReleaseFlag[s]
  BY <1>3 DEF SesInv, NoUseAfterRelease, Uses
<1> QED BY <1>1, <1>2, <1>3, <1>4, <1>5, QuietStep DEF QuietFor

\* A callback begins at most one call of the API.
LEMMA CallbackBegins ==
  ASSUME SesTypeOK, NEW t \in Threads, NEW ids, CallApi(t, ids) \/ UNCHANGED <<op, arg>>, op[t] = "none"
  PROVE  /\ op'[t] \in {"send", "kill", "none"}
         /\ \A u \in Threads \ {t} : op'[u] = op[u] /\ arg'[u] = arg[u]
  BY DEF CallApi, Call, SesTypeOK, ThrTypeOK

\* The callbacks and the application threads keep the invariant.
LEMMA CallbackInv ==
  ASSUME SesInv, NEW t \in Threads,
         OnClientJoin(t) \/ OnRecv(t) \/ ParseFail(t) \/ CallerCalls(t)
  PROVE  SesInv'
<1>0. SesTypeOK /\ pc \in [Threads -> PC]
  BY DEF SesInv, SesTypeOK, ThrTypeOK
<1> USE <1>0 DEF idVars, netVars
<1>1. CASE OnClientJoin(t)
  <2>1. SesTypeOK'
    BY <1>1, OpenStepType DEF OpenStep
  <2>2. op'[t] \in {"send", "kill", "none"} /\ \A u \in Threads \ {t} : op'[u] = op[u] /\ arg'[u] = arg[u]
    BY <1>1, CallbackBegins DEF OnClientJoin, Callback, Runs
  <2>3. BeginsCall(t)
    BY <1>1, <2>2, PointFacts DEF OnClientJoin, Runs, BeginsCall, OnlyThread
  <2> QED BY <2>1, <2>3, BeginCallInv
<1>2. CASE OnRecv(t)
  <2>1. SesTypeOK'
    BY <1>2, WorkerStepType
  <2>2. op'[t] \in {"send", "kill", "none"} /\ \A u \in Threads \ {t} : op'[u] = op[u] /\ arg'[u] = arg[u]
    BY <1>2, CallbackBegins DEF OnRecv, Callback, Runs
  <2>3. BeginsCall(t)
    BY <1>2, <2>2, PointFacts DEF OnRecv, Runs, BeginsCall, OnlyThread
  <2> QED BY <2>1, <2>3, BeginCallInv
<1>3. CASE ParseFail(t)
  <2>1. SesTypeOK'
    BY <1>3, WorkerStepType
  <2>2. op'[t] = "kill" /\ \A u \in Threads \ {t} : op'[u] = op[u] /\ arg'[u] = arg[u]
    BY <1>3 DEF ParseFail, Call, SesTypeOK, ThrTypeOK
  <2>3. BeginsCall(t)
    BY <1>3, <2>2, PointFacts DEF ParseFail, Runs, BeginsCall, OnlyThread
  <2> QED BY <2>1, <2>3, BeginCallInv
<1>4. CASE CallerCalls(t)
  <2>1. SesTypeOK'
    BY <1>4, CallerType
  <2>2. op'[t] \in {"send", "kill", "none"} /\ \A u \in Threads \ {t} : op'[u] = op[u] /\ arg'[u] = arg[u]
    BY <1>4, CallbackBegins DEF CallerCalls
  <2>3. pc[t] \notin OpeningPC
    BY <1>4, ThreadAssumption DEF CallerCalls, SesInv, OpeningAlone
  <2>4. BeginsCall(t)
    BY <1>4, <2>2, <2>3 DEF CallerCalls, BeginsCall, OnlyThread
  <2> QED BY <2>1, <2>4, BeginCallInv
<1> QED BY <1>1, <1>2, <1>3, <1>4

\* The end of the accept and worker loops gives the loop's own reference back.
LEMMA FinishInv ==
  ASSUME SesInv, NEW t \in Threads, Finish(t)
  PROVE  SesInv'
<1>0. SesTypeOK' /\ SesTypeOK /\ at[t] \in Slots
  BY WorkStepType DEF WorkStep, SesInv, SesTypeOK, ThrTypeOK
<1>1. /\ pc[t] = "final" /\ op[t] = "none" /\ pc'[t] \in {"gqcs", "opened"}
      /\ op'[t] \in {"none", "cas"}
      /\ OnlyThread(t)
      /\ UNCHANGED <<io, ReleaseFlag, SessionID, FreeSessionStack>>
  BY <1>0 DEF Finish, Runs, Home, Call, OnlyThread, SesTypeOK, ThrTypeOK, idVars, netVars
<1>2. {"none", "cas"} \cap (HoldingOp \cup GuardedOp \cup ReleaseOp) = {}
  BY DEF HoldingOp, GuardedOp, ReleaseOp
<1>3. \A s \in Slots : /\ Opens(t, s)' = Opens(t, s) /\ Releases(t, s)' = Releases(t, s)
                       /\ ~Uses(t, s)'
  BY <1>1, <1>2, PointFacts DEF Opens, Releases, Uses
<1>4. \A s \in Slots : Held(t, s)' = 0 /\ Held(t, s) = Bit(s = at[t])
  BY <1>1, <1>2, PointFacts DEF Held, HoldsBase, HoldsPost, HoldsCall, Bit
<1>5. \A s \in Slots : RefCnt'[s] = RefCnt[s] - Bit(s = at[t]) /\ RefCnt[s] \in Int
  BY <1>0 DEF Finish, DecrementSessionRef, Bit, SesTypeOK
<1>6. \A s \in Slots : RefCnt'[s] - Held(t, s)' - IoRefs(io'[s]) = RefCnt[s] - Held(t, s) - IoRefs(io[s])
  <2> TAKE s \in Slots
  <2>1. IoRefs(io[s]) \in Nat /\ io' = io
    BY <1>0, <1>1, CountingFacts
  <2>2. Bit(s = at[t]) \in Int
    BY DEF Bit
  <2> QED BY <1>4, <1>5, <2>1, <2>2
<1>7. \A s \in Slots : Uses(t, s)' \/ IoRefs(io'[s]) > 0 => ~ReleaseFlag[s]
  BY <1>1, <1>3 DEF SesInv, NoUseAfterRelease
<1> QED BY <1>0, <1>1, <1>2, <1>3, <1>6, <1>7, PointFacts, QuietStep DEF QuietFor

\* A worker takes over the reference of the completion it was given.
LEMMA GqcsInv ==
  ASSUME SesInv, NEW t \in Threads, GqcsStep(t)
  PROVE  SesInv'
<1>1. PICK s \in Slots, k \in IoKind, l \in {"parse", "sent", "spRef", "final"} : Gqcs(t, s, k, l)
  <2>1. {"recvOk", "sendOk", "wake", "recvErr", "sendErr"} \subseteq IoKind
    BY DEF IoKind
  <2> QED BY <2>1 DEF GqcsStep, GqcsServes, GqcsRecv, GqcsSend, GqcsWake, GqcsFailed
<1>2. SesTypeOK /\ SesTypeOK' /\ NetTypeOK
  BY WorkerStepType DEF SesInv, SesTypeOK
<1>3. /\ pc[t] = "gqcs" /\ op[t] = "none" /\ pc'[t] = l /\ op'[t] = "none" /\ at'[t] = s
      /\ OnlyThread(t)
      /\ UNCHANGED <<RefCnt, ReleaseFlag, SessionID, FreeSessionStack>>
  BY <1>1, <1>2 DEF Gqcs, Runs, OnlyThread, SesTypeOK, ThrTypeOK, idVars
<1>4. "none" \notin HoldingOp \cup GuardedOp \cup ReleaseOp
  BY DEF HoldingOp, GuardedOp, ReleaseOp
<1>5. /\ l \in BasePC /\ l \notin PostPC /\ l \notin OpeningPC
      /\ "gqcs" \notin BasePC \cup PostPC \cup OpeningPC
  BY PointFacts
<1>6. \A r \in Slots : /\ Opens(t, r)' = Opens(t, r) /\ Releases(t, r)' = Releases(t, r)
                       /\ Uses(t, r)' => r = s
  BY <1>3, <1>4, <1>5 DEF Opens, Releases, Uses
<1>7. \A r \in Slots : Held(t, r) = 0 /\ Held(t, r)' = Bit(r = s)
  BY <1>3, <1>4, <1>5 DEF Held, HoldsBase, HoldsPost, HoldsCall, Bit
<1>8. /\ IoRefs(io'[s]) = IoRefs(io[s]) - 1 /\ IoRefs(io[s]) > 0
      /\ \A r \in Slots \ {s} : io'[r] = io[r]
  BY <1>1, <1>2, IoTaken DEF Gqcs
<1>9. \A r \in Slots : RefCnt'[r] - Held(t, r)' - IoRefs(io'[r]) = RefCnt[r] - Held(t, r) - IoRefs(io[r])
  <2> TAKE r \in Slots
  <2>1. IoRefs(io[r]) \in Nat /\ RefCnt[r] \in Int /\ RefCnt'[r] = RefCnt[r]
    BY <1>2, <1>3, CountingFacts
  <2>2. CASE r = s
    BY <1>7, <1>8, <2>1, <2>2 DEF Bit
  <2>3. CASE r # s
    BY <1>7, <1>8, <2>1, <2>3 DEF Bit
  <2> QED BY <2>2, <2>3
<1>10. \A r \in Slots : Uses(t, r)' \/ IoRefs(io'[r]) > 0 => ~ReleaseFlag[r]
  <2>1. \A r \in Slots : Uses(t, r)' \/ IoRefs(io'[r]) > 0 => IoRefs(io[r]) > 0
    BY <1>6, <1>8
  <2> QED BY <2>1 DEF SesInv, NoUseAfterRelease
<1> QED BY <1>2, <1>3, <1>4, <1>5, <1>6, <1>9, <1>10, QuietStep DEF QuietFor

-----------------------------------------------------------------------------
\* Steps that change who owns a slot, or its ID.

\* GetFreeSession: the opener becomes the owner of a slot nobody owned.
LEMMA PopInv ==
  ASSUME SesInv, NEW t \in Openers, NEW s \in Slots, PopSession(t, s)
  PROVE  SesInv'
<1>0. t \in Threads /\ SesTypeOK /\ SesTypeOK'
  BY OpenStepType DEF OpenStep, Threads, SesInv
<1>1. /\ pc[t] = "pop" /\ op[t] = "none" /\ pc'[t] = "readID" /\ op'[t] = "none" /\ at'[t] = s
      /\ OnlyThread(t) /\ s \in FreeSessionStack /\ FreeSessionStack' = FreeSessionStack \ {s}
      /\ UNCHANGED <<RefCnt, io, ReleaseFlag, SessionID, op, arg>>
  BY <1>0 DEF PopSession, Runs, OnlyThread, SesTypeOK, ThrTypeOK, netVars
<1>2. "none" \notin HoldingOp \cup GuardedOp \cup ReleaseOp
  BY DEF HoldingOp, GuardedOp, ReleaseOp
<1>3. OpeningAlone'
  BY <1>1 DEF SesInv, OpeningAlone, OnlyThread
<1>4. RefCntExact'
  <2> SUFFICES ASSUME NEW r \in Slots PROVE RefCnt'[r] = Holders(r)' + IoRefs(io'[r])
    BY DEF RefCntExact, Holders
  <2>1. RefCnt[r] = Holders(r) + IoRefs(io[r])
    BY DEF SesInv, RefCntExact, Holders
  <2>2. Held(t, r) = 0 /\ Held(t, r)' = 0
    BY <1>1, <1>2, PointFacts DEF Held, HoldsBase, HoldsPost, HoldsCall, Bit
  <2>3. Holders(r)' = Holders(r)
    BY <1>0, <1>1, <2>2, HoldersChange
  <2> QED BY <1>1, <2>1, <2>3
<1>5. /\ \A u \in Threads \ {t}, r \in Slots : (Opens(u, r)' <=> Opens(u, r)) /\ (Releases(u, r)' <=> Releases(u, r))
      /\ \A r \in Slots : /\ ~Opens(t, r) /\ ~Releases(t, r) /\ ~Releases(t, r)'
                          /\ Opens(t, r)' <=> r = s
      /\ \A u \in Threads : ~Opens(u, s) /\ ~Releases(u, s)
  <2>1. \A u \in Threads \ {t}, r \in Slots : (Opens(u, r)' <=> Opens(u, r)) /\ (Releases(u, r)' <=> Releases(u, r))
    BY <1>1 DEF OnlyThread, Opens, Releases, Target, FindSession
  <2>2. \A r \in Slots : /\ ~Opens(t, r) /\ ~Releases(t, r) /\ ~Releases(t, r)'
                         /\ Opens(t, r)' <=> r = s
    BY <1>1, <1>2, PointFacts DEF Opens, Releases
  <2>3. \A u \in Threads : ~Opens(u, s) /\ ~Releases(u, s)
    BY <1>1 DEF SesInv, OneOwner
  <2> QED BY <2>1, <2>2, <2>3
<1>6. OneOwner'
  <2>1. ASSUME NEW r \in Slots
        PROVE  ReleaseFlag'[r] <=> \/ r \in FreeSessionStack'
                                 \/ \E u \in Threads : Opens(u, r)' \/ Releases(u, r)'
    <3>1. CASE r = s
      BY <1>0, <1>1, <1>5, <3>1 DEF SesInv, OneOwner
    <3>2. CASE r # s
      BY <1>0, <1>1, <1>5, <3>2 DEF SesInv, OneOwner
    <3> QED BY <3>1, <3>2
  <2>2. ASSUME NEW r \in Slots, NEW u \in Threads, NEW v \in Threads
        PROVE  /\ Opens(u, r)' \/ Releases(u, r)' => r \notin FreeSessionStack'
               /\ (Opens(u, r)' \/ Releases(u, r)') /\ (Opens(v, r)' \/ Releases(v, r)') => u = v
    <3>1. CASE r = s
      BY <1>0, <1>1, <1>5, <3>1
    <3>2. CASE r # s
      BY <1>0, <1>1, <1>5, <3>2 DEF SesInv, OneOwner
    <3> QED BY <3>1, <3>2
  <2> QED BY <2>1, <2>2 DEF OneOwner
<1>7. NoUseAfterRelease'
  <2>1. \A u \in Threads, r \in Slots : Uses(u, r)' => Uses(u, r)
    BY <1>0, <1>1, <1>2, PointFacts DEF OnlyThread, Uses, Target, FindSession
  <2> QED BY <1>1, <2>1 DEF SesInv, NoUseAfterRelease, Uses
<1>8. GuardPinsSession'
  BY <1>1 DEF SesInv, GuardPinsSession, Target, FindSession
<1> QED BY <1>0, <1>3, <1>4, <1>6, <1>7, <1>8 DEF SesInv

\* InitSession gives a new ID to a slot that no guarded call works on.
LEMMA InitSessionInv ==
  ASSUME SesInv, NEW t \in Threads, InitSession(t)
  PROVE  SesInv'
<1>0. SesTypeOK' /\ SesTypeOK /\ at[t] \in Slots
  BY OpenStepType DEF OpenStep, SesInv, SesTypeOK, ThrTypeOK
<1>1. /\ pc[t] = "init" /\ op[t] = "none" /\ pc'[t] = "initRef" /\ op'[t] = "none" /\ at' = at
      /\ OnlyThread(t)
      /\ UNCHANGED <<RefCnt, io, ReleaseFlag, FreeSessionStack, op, arg>>
      /\ \A r \in Slots \ {at[t]} : SessionID'[r] = SessionID[r]
  BY <1>0 DEF InitSession, Runs, OnlyThread, SesTypeOK, IdTypeOK, ThrTypeOK, netVars
<1>2. "none" \notin HoldingOp \cup GuardedOp \cup ReleaseOp
  BY DEF HoldingOp, GuardedOp, ReleaseOp
<1>3. ReleaseFlag[at[t]] = TRUE
  <2>1. Opens(t, at[t])
    BY <1>1, PointFacts DEF Opens
  <2> QED BY <1>0, <2>1 DEF SesInv, SesTypeOK, IdTypeOK, OneOwner
<1>4. \A u \in Threads : op[u] \in GuardedOp => SessionID'[Target(u)] = SessionID[Target(u)]
  <2> TAKE u \in Threads
  <2> HAVE op[u] \in GuardedOp
  <2>1. Target(u) \in Slots
    BY <1>0 DEF SesTypeOK, ThrTypeOK, Target, FindSession
  <2>2. Target(u) # at[t]
    BY <1>3, <2>1 DEF SesInv, NoUseAfterRelease
  <2> QED BY <1>1, <2>1, <2>2
<1>5. \A s \in Slots : /\ Opens(t, s)' = Opens(t, s) /\ Releases(t, s)' = Releases(t, s)
                       /\ ~Uses(t, s)' /\ Held(t, s) = 0 /\ Held(t, s)' = 0
  BY <1>1, <1>2, PointFacts DEF Opens, Releases, Uses, Held, HoldsBase, HoldsPost, HoldsCall, Bit
<1>6. \A s \in Slots : RefCnt'[s] - Held(t, s)' - IoRefs(io'[s]) = RefCnt[s] - Held(t, s) - IoRefs(io[s])
  BY <1>1, <1>5
<1>7. \A s \in Slots : Uses(t, s)' \/ IoRefs(io'[s]) > 0 => ~ReleaseFlag[s]
  BY <1>1, <1>5 DEF SesInv, NoUseAfterRelease
<1>8. t \in Openers
  BY <1>1, PointFacts DEF SesInv, OpeningAlone
<1> QED BY <1>0, <1>1, <1>2, <1>4, <1>5, <1>6, <1>7, <1>8, QuietStep DEF QuietFor

\* The last step of InitSession: the slot has its first user and no owner.
LEMMA PublishInv ==
  ASSUME SesInv, NEW t \in Threads, InitSessionPublish(t)
  PROVE  SesInv'
<1> DEFINE s == at[t]
<1>0. SesTypeOK' /\ SesTypeOK /\ s \in Slots
  BY OpenStepType DEF OpenStep, SesInv, SesTypeOK, ThrTypeOK
<1>1. /\ pc[t] = "publish" /\ op[t] = "none" /\ pc'[t] = "join" /\ op'[t] = "none" /\ at' = at
      /\ OnlyThread(t)
      /\ UNCHANGED <<RefCnt, io, SessionID, FreeSessionStack, op, arg>>
      /\ ReleaseFlag'[s] = FALSE /\ \A r \in Slots \ {s} : ReleaseFlag'[r] = ReleaseFlag[r]
  BY <1>0 DEF InitSessionPublish, Goto, Runs, OnlyThread, SesTypeOK, IdTypeOK, ThrTypeOK, netVars
<1>2. "none" \notin HoldingOp \cup GuardedOp \cup ReleaseOp
  BY DEF HoldingOp, GuardedOp, ReleaseOp
<1>3. OpeningAlone'
  BY <1>1, PointFacts DEF SesInv, OpeningAlone, OnlyThread
<1>4. RefCntExact'
  <2> SUFFICES ASSUME NEW r \in Slots PROVE RefCnt'[r] = Holders(r)' + IoRefs(io'[r])
    BY DEF RefCntExact, Holders
  <2>1. RefCnt[r] = Holders(r) + IoRefs(io[r])
    BY DEF SesInv, RefCntExact, Holders
  <2>2. Held(t, r)' = Held(t, r) /\ Held(t, r) \in Int
    BY <1>1, <1>2, PointFacts DEF Held, HoldsBase, HoldsPost, HoldsCall, Bit
  <2>3. Holders(r)' = Holders(r)
    BY <1>0, <1>1, <2>2, HoldersChange
  <2> QED BY <1>1, <2>1, <2>3
<1>5. /\ \A u \in Threads \ {t}, r \in Slots : (Opens(u, r)' <=> Opens(u, r)) /\ (Releases(u, r)' <=> Releases(u, r))
      /\ \A r \in Slots : ~Opens(t, r)' /\ ~Releases(t, r)' /\ (Opens(t, r) <=> r = s)
  <2>1. \A u \in Threads \ {t}, r \in Slots : (Opens(u, r)' <=> Opens(u, r)) /\ (Releases(u, r)' <=> Releases(u, r))
    BY <1>1 DEF OnlyThread, Opens, Releases, Target, FindSession
  <2>2. \A r \in Slots : ~Opens(t, r)' /\ ~Releases(t, r)' /\ (Opens(t, r) <=> r = s)
    BY <1>1, <1>2, PointFacts DEF Opens, Releases
  <2> QED BY <2>1, <2>2
<1>6. /\ s \notin FreeSessionStack
      /\ \A u \in Threads \ {t} : ~Opens(u, s) /\ ~Releases(u, s)
  BY <1>0, <1>5 DEF SesInv, OneOwner
<1>7. OneOwner'
  <2>1. ASSUME NEW r \in Slots
        PROVE  ReleaseFlag'[r] <=> \/ r \in FreeSessionStack'
                                 \/ \E u \in Threads : Opens(u, r)' \/ Releases(u, r)'
    <3>1. CASE r = s
      BY <1>0, <1>1, <1>5, <1>6, <3>1
    <3>2. CASE r # s
      <4>1. ~Releases(t, r)
        BY <1>1, <1>2 DEF Releases
      <4> QED BY <1>0, <1>1, <1>5, <3>2, <4>1 DEF SesInv, OneOwner
    <3> QED BY <3>1, <3>2
  <2>2. ASSUME NEW r \in Slots, NEW u \in Threads, NEW v \in Threads
        PROVE  /\ Opens(u, r)' \/ Releases(u, r)' => r \notin FreeSessionStack'
               /\ (Opens(u, r)' \/ Releases(u, r)') /\ (Opens(v, r)' \/ Releases(v, r)') => u = v
    BY <1>0, <1>1, <1>5 DEF SesInv, OneOwner
  <2> QED BY <2>1, <2>2 DEF OneOwner
<1>8. NoUseAfterRelease'
  <2>1. \A u \in Threads, r \in Slots : Uses(u, r)' => Uses(u, r) \/ r = s
    BY <1>0, <1>1, <1>2, PointFacts DEF OnlyThread, Uses, Target, FindSession
  <2> QED BY <1>0, <1>1, <2>1 DEF SesInv, NoUseAfterRelease, Uses
<1>9. GuardPinsSession'
  BY <1>1 DEF SesInv, GuardPinsSession, Target, FindSession
<1> QED BY <1>0, <1>3, <1>4, <1>7, <1>8, <1>9 DEF SesInv

\* Opening a session keeps the invariant.
LEMMA OpenInv ==
  ASSUME SesInv, NEW t \in Openers, OpenStep(t) \/ PopNothing(t)
  PROVE  SesInv'
<1>1. t \in Threads
  BY DEF Threads
<1> QED BY <1>1, PopInv, InitSessionInv, PublishInv, CallbackInv, OpenQuietInv DEF OpenStep

\* What a thread does by itself with a session keeps the invariant.
LEMMA WorkInv ==
  ASSUME SesInv, NEW t \in Threads, WorkStep(t)
  PROVE  SesInv'
  BY HandleQuietInv, RecvPostInv, SendPostInv, FinishInv DEF WorkStep

-----------------------------------------------------------------------------
\* A step that leaves the threads and the owners alone and no operation uncounted.
LEMMA KernelInv ==
  ASSUME SesInv, NEW s \in Slots, KernelStep(s)
  PROVE  SesInv'
<1>0. SesTypeOK' /\ SesTypeOK /\ NetTypeOK
  BY KernelStepType DEF SesInv, SesTypeOK
<1>1. /\ UNCHANGED <<idVars, RefCnt, thrVars>>
      /\ \A r \in Slots : IoRefs(io'[r]) = IoRefs(io[r])
  <2>1. ASSUME NEW from \in IoKind, NEW to \in IoKind, from # to, Complete(s, from, to)
        PROVE  \A r \in Slots : IoRefs(io'[r]) = IoRefs(io[r])
    <3>1. /\ io[s] \in [IoKind -> Nat] /\ io'[s] = [io[s] EXCEPT ![from] = @ - 1, ![to] = @ + 1]
          /\ \A r \in Slots \ {s} : io'[r] = io[r]
      BY <1>0, <2>1 DEF Complete, NetTypeOK
    <3>2. IoRefs(io'[s]) = IoRefs(io[s])
      BY <2>1, <3>1 DEF IoRefs, IoKind
    <3> QED BY <3>1, <3>2
  <2>2. {"recvPend", "recvOk", "recvErr", "sendPend", "sendOk", "sendErr"} \subseteq IoKind
    BY DEF IoKind
  <2> QED BY <2>1, <2>2 DEF KernelStep, DataArrives, RecvBreaks, SendCompletes, SendBreaks,
                            Complete, PeerGone
<1>2. /\ \A r \in Slots : /\ BaseHolders(r)' = BaseHolders(r) /\ PostHolders(r)' = PostHolders(r)
                          /\ CallHolders(r)' = CallHolders(r)
      /\ \A u \in Threads, r \in Slots : (Opens(u, r)' <=> Opens(u, r)) /\ (Releases(u, r)' <=> Releases(u, r))
      /\ \A u \in Threads : Target(u)' = Target(u)
  BY <1>1 DEF thrVars, BaseHolders, PostHolders, CallHolders, Opens, Releases, Target, FindSession
<1>3. OpeningAlone'
  BY <1>1 DEF thrVars, SesInv, OpeningAlone
<1>4. RefCntExact'
  BY <1>1, <1>2 DEF SesInv, RefCntExact
<1>5. OneOwner'
  BY <1>1, <1>2 DEF idVars, SesInv, OneOwner
<1>6. NoUseAfterRelease'
  BY <1>1, <1>2 DEF idVars, thrVars, SesInv, NoUseAfterRelease
<1>7. GuardPinsSession'
  BY <1>1, <1>2 DEF idVars, thrVars, SesInv, GuardPinsSession
<1> QED BY <1>0, <1>3, <1>4, <1>5, <1>6, <1>7 DEF SesInv

\* A step that touches no slot keeps the invariant.
LEMMA SesStutterInv ==
  ASSUME SesInv, UNCHANGED sesVars
  PROVE  SesInv'
<1>1. UNCHANGED <<idVars, RefCnt, sendVars, netVars, thrVars, histVars>>
  BY DEF sesVars
<1>2. SesTypeOK'
  BY <1>1 DEF SesInv, SesTypeOK, IdTypeOK, SendTypeOK, NetTypeOK, ThrTypeOK, HistTypeOK,
              idVars, sendVars, netVars, thrVars, histVars
<1>3. OpeningAlone'
  BY <1>1 DEF SesInv, OpeningAlone, thrVars
<1>4. RefCntExact'
  BY <1>1 DEF SesInv, RefCntExact, BaseHolders, PostHolders, CallHolders, Target, netVars, thrVars
<1>5. OneOwner'
  BY <1>1 DEF SesInv, OneOwner, Opens, Releases, Target, idVars, thrVars
<1>6. NoUseAfterRelease'
  BY <1>1 DEF SesInv, NoUseAfterRelease, Target, idVars, netVars, thrVars
<1>7. GuardPinsSession'
  BY <1>1 DEF SesInv, GuardPinsSession, Target, idVars, thrVars
<1> QED BY <1>2, <1>3, <1>4, <1>5, <1>6, <1>7 DEF SesInv

\* The constructor leaves every slot free and no reference taken.
LEMMA SesInitInv == SesInit => SesInv
<1> SUFFICES ASSUME SesInit PROVE SesInv
  OBVIOUS
<1>1. \A t \in Threads : /\ pc[t] \in {"opened", "gqcs", "idle"} /\ op[t] = "none"
  BY DEF SesInit
<1>2. "none" \notin HoldingOp \cup GuardedOp \cup ReleaseOp
  BY DEF HoldingOp, GuardedOp, ReleaseOp
<1>3. \A s \in Slots : IoRefs(io[s]) = 0
  BY DEF SesInit, NoIo, IoRefs, IoKind
<1>4. \A s \in Slots : BaseHolders(s) = {} /\ PostHolders(s) = {} /\ CallHolders(s) = {}
  BY <1>1, <1>2, PointFacts DEF BaseHolders, PostHolders, CallHolders
<1>5. RefCntExact
  BY <1>3, <1>4, FS_EmptySet DEF SesInit, RefCntExact
<1>6. OneOwner
  BY <1>1, <1>2, PointFacts DEF SesInit, OneOwner, Opens, Releases
<1>7. OpeningAlone
  BY <1>1, PointFacts DEF OpeningAlone
<1>8. NoUseAfterRelease
  BY <1>1, <1>2, <1>3, PointFacts DEF NoUseAfterRelease
<1>9. GuardPinsSession
  BY <1>1, <1>2 DEF GuardPinsSession
<1> QED BY <1>5, <1>6, <1>7, <1>8, <1>9, SesInitType DEF SesInv

\* A thread without a session moves on: the accept loop, a worker that leaves.
LEMMA IdleGotoInv ==
  ASSUME SesInv, SesTypeOK', NEW t \in Threads, UNCHANGED <<idVars, RefCnt, netVars>>,
         \E l \in {"opened", "accept", "gqcs"}, m \in {"exited", "accept", "pop", "opened"} :
           Runs(t, l) /\ Goto(t, m)
  PROVE  SesInv'
<1>1. PICK l \in {"opened", "accept", "gqcs"}, m \in {"exited", "accept", "pop", "opened"} :
        Runs(t, l) /\ Goto(t, m)
  OBVIOUS
<1>2. /\ at[t] \in Slots /\ RefCnt[at[t]] \in Int /\ IoRefs(io[at[t]]) \in Nat
  BY CountingFacts DEF SesInv, SesTypeOK, ThrTypeOK
<1>3. /\ l \in PC /\ l \notin WorkingPC /\ l \notin BasePC /\ l \notin OpeningPC /\ l \notin PostPC
      /\ m \in PC /\ m \notin WorkingPC /\ m \notin BasePC /\ m \notin OpeningPC /\ m \notin PostPC
  BY PointFacts
<1>4. UNCHANGED <<at, op, arg, RefCnt, io, ReleaseFlag, SessionID, FreeSessionStack>>
      /\ pc' = [pc EXCEPT ![t] = m] /\ Runs(t, l)
  BY <1>1 DEF Goto, idVars, netVars
<1>5. RefCnt'[at[t]] - RefCnt[at[t]] =
        Bit(m \in BasePC) + Bit(m \in PostPC) - Bit(l \in BasePC) - Bit(l \in PostPC)
          + IoRefs(io'[at[t]]) - IoRefs(io[at[t]])
  BY <1>2, <1>3, <1>4 DEF Bit
<1>6. QuietGotoStep(t, l, m)
  BY ONLY <1>3, <1>4, <1>5 DEF QuietGotoStep
<1> QED BY <1>6, QuietGoto
=============================================================================
