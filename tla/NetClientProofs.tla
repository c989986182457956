--------------------------- MODULE NetClientProofs ---------------------------
(***************************************************************************)
(* The theorems about the client: the session slots keep the invariant of  *)
(* NetSessionInvariant also when several threads open them, and what       *)
(* Connect returns is the session it announced unless that has ended.      *)
(***************************************************************************)
EXTENDS NetClient, NetSessionTraffic

\* The operators named after the functions of NetClient are the steps that the
\* lemmas about NetSession treat.
LEMMA SharedSteps ==
  ASSUME NEW t \in Threads, SessionWork(t)
  PROVE  CallStep(t) \/ WorkStep(t)
  BY DEF SessionWork, SendPacket, KillSession, DisconnectSession, RecvPost, SendPost,
         WorkerHandles, ReleaseSlot, CallStep, WorkStep

\* A Connect takes the steps of an opener, or it begins, or it returns.
LEMMA ConnectSteps ==
  ASSUME NEW t \in Openers, Connect(t)
  PROVE  \/ (OpenStep(t) \/ PopNothing(t)) /\ UNCHANGED stopVars
         \/ ConnectStart(t) \/ ConnectReturn(t)
  BY DEF Connect, GetFreeSession, InitSlot, ConnectAnnounce, OpenStep, clientVars

\* Moving one thread on keeps every variable well typed.
LEMMA MoveOnType ==
  ASSUME SesTypeOK, NEW t \in Threads, NEW l \in PC, Goto(t, l),
         UNCHANGED <<idVars, RefCnt, sendVars, netVars, histVars>>
  PROVE  SesTypeOK'
  BY GotoType DEF SesTypeOK, IdTypeOK, SendTypeOK, NetTypeOK, HistTypeOK,
     idVars, sendVars, netVars, histVars

\* The kill that Stop begins keeps every variable well typed.
LEMMA BeginKillType ==
  ASSUME SesTypeOK, NEW t \in Threads, NEW s \in Slots, Call(t, "kill", IdOf(s)),
         UNCHANGED <<idVars, RefCnt, sendVars, netVars, histVars, pc, at, tmp>>
  PROVE  SesTypeOK'
  BY ProgramPoints DEF Call, IdOf, SesTypeOK, IdTypeOK, SendTypeOK, NetTypeOK, ThrTypeOK,
     HistTypeOK, idVars, sendVars, netVars, histVars

\* A step that touches no slot keeps the slots well typed.
LEMMA NoStepType == ASSUME SesTypeOK, UNCHANGED sesVars PROVE SesTypeOK'
  BY DEF sesVars, SesTypeOK, IdTypeOK, SendTypeOK, NetTypeOK, ThrTypeOK, HistTypeOK,
     idVars, sendVars, netVars, thrVars, histVars

\* Every step of a Connect keeps every variable well typed.
LEMMA ConnectType ==
  ASSUME TypeOK, NEW t \in Openers, Connect(t)
  PROVE  TypeOK'
<1>0. t \in Threads /\ SesTypeOK /\ "pop" \in PC
  BY ProgramPoints DEF Threads, TypeOK
<1>1. CASE ConnectStart(t)
  <2>1. SesTypeOK'
    BY <1>0, <1>1, MoveOnType DEF ConnectStart
  <2> QED BY <1>1, <2>1 DEF ConnectStart, clientVars, stopVars, TypeOK
<1>2. CASE GetFreeSession(t)
  <2>1. SesTypeOK'
    BY <1>0, <1>2, OpenStepType DEF GetFreeSession, InitSlot, OpenStep
  <2> QED BY <1>2, <2>1 DEF GetFreeSession, clientVars, stopVars, TypeOK
<1>3. CASE ConnectAnnounce(t)
  <2>1. SesTypeOK'
    BY <1>0, <1>3, OpenStepType DEF ConnectAnnounce, OpenStep
  <2>2. IdOf(at[t]) \in Slots \X Nat
    BY <1>0 DEF IdOf, SesTypeOK, IdTypeOK, ThrTypeOK
  <2> QED BY <1>3, <2>1, <2>2 DEF ConnectAnnounce, stopVars, TypeOK
<1>4. CASE ConnectReturn(t)
  <2>1. SesTypeOK'
    BY <1>0, <1>4, NoStepType DEF ConnectReturn
  <2>2. NoID \in Slots \X Nat
    BY ZeroSlot DEF NoID
  <2> QED BY <1>4, <2>1, <2>2 DEF ConnectReturn, stopVars, TypeOK
<1> QED BY <1>1, <1>2, <1>3, <1>4 DEF Connect

\* Every step of Stop keeps every variable well typed.
LEMMA StopType ==
  ASSUME TypeOK, NEW t \in Stoppers, StopStep(t)
  PROVE  TypeOK'
<1>0. t \in Threads /\ SesTypeOK
  BY StopperAssumption DEF Threads, TypeOK
<1>1. CASE StopKill(t)
  <2>1. scan[t] \in Slots
    BY <1>1 DEF TypeOK, StopKill, StopAt
  <2>2. SesTypeOK'
    BY <1>0, <1>1, <2>1, BeginKillType DEF StopKill
  <2> QED BY <1>1, <2>1, <2>2, SlotAssumption DEF StopKill, StopGoto, TypeOK, Slots
<1>2. CASE StopScan(t)
  <2>1. SesTypeOK' /\ announced' \in [Openers -> Slots \X Nat] /\ Shutdown' \in BOOLEAN
        /\ Quit' \in Nat /\ IocpOpen' \in BOOLEAN
    BY <1>0, <1>2, NoStepType DEF StopScan, TypeOK
  <2>2. scan[t] \in 0 .. TotalSessionCnt /\ Slots = 0 .. (TotalSessionCnt - 1)
    BY DEF TypeOK, Slots
  <2>3. CASE scan[t] = TotalSessionCnt
    BY <1>2, <2>1, <2>3 DEF StopScan, StopGoto, TypeOK
  <2>4. CASE scan[t] # TotalSessionCnt /\ ReleaseFlag[scan[t]]
    <3>1. stop' = stop /\ scan' = [scan EXCEPT ![t] = @ + 1] /\ stop[t] # "kill"
      BY <1>2, <2>4 DEF StopScan, StopAt
    <3> QED BY <2>1, <2>2, <2>4, <3>1, SlotAssumption DEF TypeOK
  <2>5. CASE scan[t] # TotalSessionCnt /\ ~ReleaseFlag[scan[t]]
    <3>1. scan' = scan /\ stop' = [stop EXCEPT ![t] = "kill"] /\ scan[t] \in Slots
      BY <1>2, <2>2, <2>5, SlotAssumption DEF StopScan, StopGoto
    <3> QED BY <2>1, <3>1 DEF TypeOK
  <2> QED BY <2>3, <2>4, <2>5
<1>3. CASE StopPostQuit(t)
  <2>1. Cardinality(Workers) \in Nat
    BY ThreadAssumption, FS_Subset, FS_CardinalityType DEF Threads
  <2> QED BY <1>0, <1>3, <2>1, NoStepType DEF StopPostQuit, StopGoto, TypeOK
<1>4. CASE StopCall(t) \/ StopJoinWorkers(t)
  BY <1>0, <1>4, NoStepType DEF StopCall, StopJoinWorkers, StopGoto, TypeOK
<1> QED BY <1>1, <1>2, <1>3, <1>4 DEF StopStep

\* Every step keeps the type invariant.
LEMMA NextType == TypeOK /\ [Next]_vars => TypeOK'
<1> SUFFICES ASSUME TypeOK, [Next]_vars PROVE TypeOK'
  OBVIOUS
<1>0. SesTypeOK /\ Workers \subseteq Threads /\ Callers \subseteq Threads
  BY DEF TypeOK, Threads
<1>1. ASSUME SesTypeOK', UNCHANGED clientVars PROVE TypeOK'
  BY <1>1 DEF TypeOK, clientVars, stopVars
<1>2. ASSUME NEW t \in Openers, Connect(t) PROVE TypeOK'
  BY <1>2, ConnectType
<1>3. ASSUME NEW t \in Threads, Own(SessionWork(t)) PROVE TypeOK'
  BY <1>0, <1>1, <1>3, SharedSteps, CallStepType, WorkStepType DEF Own
<1>4. ASSUME NEW t \in Workers, Own(GqcsStep(t) \/ WorkerReceives(t)) PROVE TypeOK'
  BY <1>0, <1>1, <1>4, WorkerStepType DEF Own, WorkerReceives
<1>5. ASSUME NEW t \in Workers, WorkerQuit(t) PROVE TypeOK'
  <2>1. SesTypeOK'
    BY <1>0, <1>5, MoveOnType, ProgramPoints DEF WorkerQuit
  <2> QED BY <1>5, <2>1 DEF TypeOK, WorkerQuit
<1>6. ASSUME NEW t \in Callers \ Stoppers, Own(CallerCalls(t)) PROVE TypeOK'
  BY <1>0, <1>1, <1>6, CallerType DEF Own
<1>7. ASSUME NEW s \in Slots, Own(KernelStep(s)) PROVE TypeOK'
  BY <1>0, <1>1, <1>7, KernelStepType DEF Own
<1>8. ASSUME NEW t \in Stoppers, StopStep(t) PROVE TypeOK'
  BY <1>8, StopType
<1>9. CASE UNCHANGED vars
  BY <1>0, <1>1, <1>9, NoStepType DEF vars
<1> QED BY <1>2, <1>3, <1>4, <1>5, <1>6, <1>7, <1>8, <1>9 DEF Next

\* Every variable of the client keeps its type: no count of operations or
\* completions is negative, every thread, call and announcement names an existing
\* slot, and Stop never kills past the end of SessionArr.
THEOREM ClientTypeCorrect == Spec => []TypeOK
<1>1. Init => TypeOK
  <2> SUFFICES ASSUME Init PROVE TypeOK
    OBVIOUS
  <2>1. \A t \in Stoppers : stop[t] = "idle" /\ scan[t] = 0
    BY DEF Init
  <2>2. 0 \in 0 .. TotalSessionCnt /\ NoID \in Slots \X Nat
    BY SlotAssumption, ZeroSlot DEF NoID
  <2>3. scan \in [Stoppers -> 0 .. TotalSessionCnt] /\ announced \in [Openers -> Slots \X Nat]
    BY <2>2 DEF Init
  <2>4. stop \in [Stoppers -> {"idle"}]
    BY DEF Init
  <2> QED BY <2>1, <2>3, <2>4, SesInitType DEF Init, TypeOK
<1> QED BY <1>1, NextType, PTL DEF Spec

-----------------------------------------------------------------------------
\* Every step of the client keeps the invariant of the session slots.  Only the
\* begin of a Connect, the end of a worker and the kill of Stop are no steps of
\* NetSession.
LEMMA ClientStepInv ==
  ASSUME TypeOK, TypeOK', SesInv, [Next]_vars
  PROVE  SesInv'
<1>0. SesTypeOK /\ SesTypeOK' /\ Stoppers \subseteq Threads /\ Openers \subseteq Threads
      /\ Workers \subseteq Threads /\ Callers \subseteq Threads
  BY StopperAssumption DEF TypeOK, Threads
<1>1. ASSUME NEW t \in Threads, SessionWork(t) PROVE SesInv'
  <2>1. CallStep(t) \/ WorkStep(t)
    BY <1>1, SharedSteps
  <2>2. CASE op[t] \in ReleaseOp \cup {"cas"} /\ CallStep(t)
    BY <2>2, DisconnectInv
  <2>3. CASE op[t] \notin ReleaseOp \cup {"cas"} /\ CallStep(t)
    BY <2>3, CallInv
  <2> QED BY <2>1, <2>2, <2>3, WorkInv
<1>2. ASSUME NEW t \in Openers, Connect(t) PROVE SesInv'
  <2>1. CASE OpenStep(t) \/ PopNothing(t)
    BY <2>1, OpenInv
  <2>2. CASE ConnectStart(t)
    BY <1>0, <2>2, IdleGotoInv DEF ConnectStart, Outside
  <2>3. CASE ConnectReturn(t)
    BY <2>3, SesStutterInv DEF ConnectReturn
  <2> QED BY <1>2, <2>1, <2>2, <2>3, ConnectSteps
<1>3. ASSUME NEW t \in Workers, GqcsStep(t) \/ WorkerReceives(t) PROVE SesInv'
  BY <1>0, <1>3, GqcsInv, CallbackInv DEF WorkerReceives
<1>4. ASSUME NEW t \in Workers, WorkerQuit(t) PROVE SesInv'
  BY <1>0, <1>4, IdleGotoInv DEF WorkerQuit
<1>5. ASSUME NEW t \in Callers \ Stoppers, CallerCalls(t) PROVE SesInv'
  BY <1>0, <1>5, CallbackInv
<1>6. ASSUME NEW s \in Slots, KernelStep(s) PROVE SesInv'
  BY <1>6, KernelInv
<1>7. ASSUME NEW t \in Stoppers, StopKill(t) PROVE SesInv'
  <2>1. t \in Threads /\ t \notin Openers
    BY <1>0, ThreadAssumption, StopperAssumption
  <2>2. op'[t] = "kill" /\ \A u \in Threads \ {t} : op'[u] = op[u] /\ arg'[u] = arg[u]
    BY <1>0, <1>7, <2>1 DEF StopKill, Call, SesTypeOK, ThrTypeOK
  <2>3. pc[t] \notin OpeningPC
    BY <2>1 DEF SesInv, OpeningAlone
  <2>4. BeginsCall(t)
    BY <1>7, <2>2, <2>3 DEF StopKill, StopAt, BeginsCall, OnlyThread, idVars, netVars
  <2> QED BY <1>0, <2>1, <2>4, BeginCallInv
<1>8. ASSUME NEW t \in Stoppers, StopStep(t), ~StopKill(t) PROVE SesInv'
  BY <1>8, SesStutterInv DEF StopStep, StopCall, StopScan, StopPostQuit, StopJoinWorkers
<1>9. CASE UNCHANGED vars
  BY <1>9, SesStutterInv DEF vars
<1> QED BY <1>1, <1>2, <1>3, <1>4, <1>5, <1>6, <1>7, <1>8, <1>9 DEF Next, Own

\* The inductive invariant of the session slots holds for the client: exact
\* counts, one owner, no use of a released slot and IDs pinned behind the guard
\* do not depend on there being one accept thread.
THEOREM ClientSlotsInvariant == Spec => []SesInv
<1>1. Init => SesInv
  BY SesInitInv DEF Init
<1>2. TypeOK /\ TypeOK' /\ SesInv /\ [Next]_vars => SesInv'
  BY ClientStepInv
<1> QED BY <1>1, <1>2, ClientTypeCorrect, PTL DEF Spec

-----------------------------------------------------------------------------
(* What Connect returns.                                                   *)

\* A Connect at one of these points has announced nothing yet.
BeforeJoin == OpeningPC \cup {"pop", "join"}

\* An announced session is the one in the slot of its Connect and is not
\* released, until its OnDisconnect: the releaser stands before that callback
\* from the moment it sets ReleaseFlag.
AnnouncedStands ==
  \A t \in Openers :
    announced[t] # NoID =>
      /\ pc[t] \notin BeforeJoin
      /\ \/ announced[t] \in left
         \/ /\ IdOf(at[t]) = announced[t]
            /\ ReleaseFlag[at[t]] => \E u \in Threads : op[u] = "leave" /\ Target(u) = at[t]

\* A releaser that stands before its callback stays there.
LeaversStay == \A u \in Threads : op[u] = "leave" => op'[u] = "leave" /\ arg'[u] = arg[u]

\* An announcement that still stands was made before, and its thread stays at
\* its slot.
NothingAnnounced ==
  \A t \in Openers :
    announced'[t] # NoID =>
      announced'[t] = announced[t] /\ at'[t] = at[t] /\ pc'[t] \notin BeforeJoin

\* A step keeps what was announced if it neither announces nor takes a session
\* back behind its callback.
LEMMA StandsKept ==
  ASSUME SesTypeOK, AnnouncedStands, LeaversStay, NothingAnnounced, left \subseteq left',
         \A s \in Slots : SessionID'[s] = SessionID[s] /\ (ReleaseFlag'[s] => ReleaseFlag[s])
  PROVE  AnnouncedStands'
<1> SUFFICES ASSUME NEW t \in Openers, announced'[t] # NoID
             PROVE  /\ pc'[t] \notin BeforeJoin
                    /\ \/ announced'[t] \in left'
                       \/ /\ IdOf(at[t])' = announced'[t]
                          /\ ReleaseFlag'[at'[t]] =>
                               \E u \in Threads : op'[u] = "leave" /\ Target(u)' = at'[t]
  BY DEF AnnouncedStands
<1>1. t \in Threads /\ at[t] \in Slots
  BY DEF Threads, SesTypeOK, ThrTypeOK
<1>2. announced'[t] = announced[t] /\ at'[t] = at[t] /\ pc'[t] \notin BeforeJoin
  BY DEF NothingAnnounced
<1>3. CASE announced[t] \in left
  BY <1>2, <1>3
<1>4. CASE /\ IdOf(at[t]) = announced[t]
           /\ ReleaseFlag[at[t]] => \E u \in Threads : op[u] = "leave" /\ Target(u) = at[t]
  BY <1>1, <1>2, <1>4 DEF IdOf, LeaversStay, Target, FindSession
<1> QED BY <1>2, <1>3, <1>4 DEF AnnouncedStands

\* The steps of a public call and of ReleasePush.
LEMMA StandsCall ==
  ASSUME SesInv, AnnouncedStands, NEW t \in Threads, CallStep(t), announced' = announced,
         op[t] \notin {"cas", "leave", "release"}
  PROVE  AnnouncedStands'
<1>0. SesTypeOK
  BY DEF SesInv
<1>1. /\ op[t] # "leave" /\ UNCHANGED <<pc, at, left, SessionID, ReleaseFlag>>
      /\ \A u \in Threads \ {t} : op'[u] = op[u] /\ arg'[u] = arg[u]
  BY <1>0 DEF CallStep, SendPacketRef, SendPacketCheck, SendPacketEnqueue, SendPacketPost,
     SendPacketUndo, KillSessionRef, KillSessionCheck, KillSessionUse, KillSessionCancel,
     KillSessionDec, KillSessionUndo, ReleasePush, DisconnectCas, DisconnectTo, OnClientLeave,
     ReleaseSession, InCall, CallGoto, idVars, histVars, SesTypeOK, ThrTypeOK
<1>2. LeaversStay
  BY <1>1 DEF LeaversStay
<1>3. NothingAnnounced
  BY <1>1 DEF NothingAnnounced, AnnouncedStands
<1> QED BY <1>0, <1>1, <1>2, <1>3, StandsKept

\* The compare-exchange puts its thread before the callback.
LEMMA StandsCas ==
  ASSUME SesInv, AnnouncedStands, NEW t \in Threads, DisconnectCas(t), announced' = announced
  PROVE  AnnouncedStands'
<1>0. SesTypeOK /\ Target(t) \in Slots
  BY DEF SesInv, SesTypeOK, ThrTypeOK, Target, FindSession
<1>1. /\ op[t] = "cas" /\ UNCHANGED <<pc, at, left, SessionID>>
      /\ \A u \in Threads \ {t} : op'[u] = op[u] /\ arg'[u] = arg[u]
  BY <1>0 DEF DisconnectCas, DisconnectTo, InCall, CallGoto, histVars, SesTypeOK, ThrTypeOK
<1>2. LeaversStay /\ NothingAnnounced
  BY <1>1 DEF LeaversStay, NothingAnnounced, AnnouncedStands
<1>3. CASE ~Releasable(Target(t))
  BY <1>0, <1>1, <1>2, <1>3, StandsKept DEF DisconnectCas, DisconnectTo
<1>4. CASE Releasable(Target(t))
  <2>1. /\ op'[t] = "leave" /\ Target(t)' = Target(t)
        /\ \A s \in Slots : s # Target(t) => ReleaseFlag'[s] = ReleaseFlag[s]
    BY <1>0, <1>4 DEF DisconnectCas, DisconnectTo, CallGoto, Target, FindSession, SesTypeOK,
                      ThrTypeOK, IdTypeOK
  <2> SUFFICES ASSUME NEW v \in Openers, announced'[v] # NoID, announced'[v] \notin left'
               PROVE  /\ IdOf(at[v])' = announced'[v]
                      /\ ReleaseFlag'[at'[v]] =>
                           \E u \in Threads : op'[u] = "leave" /\ Target(u)' = at'[v]
    BY <1>2 DEF AnnouncedStands, NothingAnnounced
  <2>2. at'[v] = at[v] /\ at[v] \in Slots /\ announced[v] # NoID /\ announced[v] \notin left
    BY <1>0, <1>1 DEF SesTypeOK, ThrTypeOK, Threads
  <2>3. IdOf(at[v])' = announced'[v]
    BY <1>1, <2>2 DEF AnnouncedStands, IdOf
  <2>4. CASE at[v] = Target(t)
    BY <2>1, <2>2, <2>3, <2>4
  <2>5. CASE at[v] # Target(t)
    BY <1>2, <2>1, <2>2, <2>3, <2>5 DEF AnnouncedStands, LeaversStay, Target, FindSession
  <2> QED BY <2>4, <2>5
<1> QED BY <1>3, <1>4

\* OnDisconnect is told exactly the session that stood in the slot.
LEMMA StandsLeave ==
  ASSUME SesInv, AnnouncedStands, NEW t \in Threads, OnClientLeave(t), announced' = announced
  PROVE  AnnouncedStands'
<1>0. SesTypeOK
  BY DEF SesInv
<1>1. /\ UNCHANGED <<pc, at, SessionID, ReleaseFlag>> /\ left' = left \cup {IdOf(Target(t))}
      /\ \A u \in Threads \ {t} : op'[u] = op[u] /\ arg'[u] = arg[u]
  BY <1>0 DEF OnClientLeave, InCall, CallGoto, idVars, SesTypeOK, ThrTypeOK
<1> SUFFICES ASSUME NEW v \in Openers, announced'[v] # NoID, announced'[v] \notin left'
             PROVE  /\ IdOf(at[v])' = announced'[v]
                    /\ ReleaseFlag'[at'[v]] =>
                         \E u \in Threads : op'[u] = "leave" /\ Target(u)' = at'[v]
  BY <1>1 DEF AnnouncedStands
<1>2. IdOf(at[v]) = announced[v] /\ at'[v] = at[v] /\ announced'[v] = announced[v]
  BY <1>1 DEF AnnouncedStands
<1>3. at[v] # Target(t)
  BY <1>1, <1>2
<1>4. ReleaseFlag[at[v]] => \E u \in Threads : op[u] = "leave" /\ Target(u) = at[v]
  BY <1>1 DEF AnnouncedStands
<1> QED BY <1>1, <1>2, <1>3, <1>4 DEF IdOf, Target, FindSession

\* ReleaseSession clears the ID of a slot whose callback has been made: its
\* thread is the only releaser, so none stands before the callback.
LEMMA StandsRelease ==
  ASSUME SesInv, AnnouncedStands, NEW t \in Threads, ReleaseSession(t), announced' = announced
  PROVE  AnnouncedStands'
<1>0. SesTypeOK /\ Target(t) \in Slots /\ OneOwner
  BY DEF SesInv, SesTypeOK, ThrTypeOK, Target, FindSession
<1>1. /\ op[t] = "release" /\ UNCHANGED <<pc, at, left, ReleaseFlag>>
      /\ \A s \in Slots : s # Target(t) => SessionID'[s] = SessionID[s]
      /\ \A u \in Threads \ {t} : op'[u] = op[u] /\ arg'[u] = arg[u]
  BY <1>0 DEF ReleaseSession, InCall, CallGoto, histVars, SesTypeOK, ThrTypeOK, IdTypeOK
<1>2. Releases(t, Target(t)) /\ ReleaseFlag[Target(t)]
  BY <1>0, <1>1 DEF Releases, ReleaseOp, OneOwner
<1>3. \A u \in Threads : op[u] = "leave" => Target(u) # Target(t)
  BY <1>0, <1>1, <1>2 DEF OneOwner, Releases, ReleaseOp
<1> SUFFICES ASSUME NEW v \in Openers, announced'[v] # NoID, announced'[v] \notin left'
             PROVE  /\ IdOf(at[v])' = announced'[v]
                    /\ ReleaseFlag'[at'[v]] =>
                         \E u \in Threads : op'[u] = "leave" /\ Target(u)' = at'[v]
  BY <1>1 DEF AnnouncedStands
<1>4. /\ IdOf(at[v]) = announced[v] /\ at'[v] = at[v] /\ announced'[v] = announced[v]
      /\ ReleaseFlag[at[v]] => \E u \in Threads : op[u] = "leave" /\ Target(u) = at[v]
  BY <1>1 DEF AnnouncedStands
<1>5. at[v] # Target(t) /\ at[v] \in Slots
  BY <1>0, <1>2, <1>3, <1>4 DEF SesTypeOK, ThrTypeOK, Threads
<1> QED BY <1>1, <1>4, <1>5 DEF IdOf, Target, FindSession

\* InitSession writes the ID of a slot that nobody else opens or releases.
LEMMA StandsInit ==
  ASSUME SesInv, AnnouncedStands, NEW t \in Openers, InitSession(t), announced' = announced
  PROVE  AnnouncedStands'
<1>0. SesTypeOK /\ t \in Threads /\ at[t] \in Slots /\ OneOwner
  BY DEF SesInv, SesTypeOK, ThrTypeOK, Threads
<1>1. /\ pc[t] = "init" /\ op[t] = "none" /\ pc'[t] = "initRef" /\ UNCHANGED <<at, op, arg, left, ReleaseFlag>>
      /\ \A s \in Slots : s # at[t] => SessionID'[s] = SessionID[s]
      /\ \A u \in Threads \ {t} : pc'[u] = pc[u]
  BY <1>0 DEF InitSession, Runs, histVars, SesTypeOK, ThrTypeOK, IdTypeOK
<1>2. Opens(t, at[t]) /\ ReleaseFlag[at[t]] /\ announced[t] = NoID
  BY <1>0, <1>1, PointFacts DEF Opens, OneOwner, AnnouncedStands, BeforeJoin
<1>3. \A u \in Threads : op[u] = "leave" => Target(u) # at[t]
  BY <1>0, <1>1, <1>2 DEF OneOwner, Releases, ReleaseOp
<1> SUFFICES ASSUME NEW v \in Openers, announced'[v] # NoID
             PROVE  /\ pc'[v] \notin BeforeJoin
                    /\ \/ announced'[v] \in left'
                       \/ /\ IdOf(at[v])' = announced'[v]
                          /\ ReleaseFlag'[at'[v]] =>
                               \E u \in Threads : op'[u] = "leave" /\ Target(u)' = at'[v]
  BY DEF AnnouncedStands
<1>4. v # t /\ v \in Threads /\ announced[v] # NoID /\ at[v] \in Slots
  BY <1>0, <1>2 DEF Threads, SesTypeOK, ThrTypeOK
<1>5. pc'[v] \notin BeforeJoin
  BY <1>1, <1>4 DEF AnnouncedStands
<1>6. CASE announced[v] \in left
  BY <1>1, <1>5, <1>6
<1>7. CASE /\ IdOf(at[v]) = announced[v]
           /\ ReleaseFlag[at[v]] => \E u \in Threads : op[u] = "leave" /\ Target(u) = at[v]
  <2>1. at[v] # at[t]
    BY <1>2, <1>3, <1>7
  <2> QED BY <1>1, <1>4, <1>5, <1>7, <2>1 DEF IdOf, Target, FindSession
<1> QED BY <1>4, <1>6, <1>7 DEF AnnouncedStands

\* OnConnect is told the session in the slot, which its thread still holds.
LEMMA StandsAnnounce ==
  ASSUME TypeOK, SesInv, AnnouncedStands, NEW t \in Openers, ConnectAnnounce(t)
  PROVE  AnnouncedStands'
<1>0. SesTypeOK /\ t \in Threads /\ at[t] \in Slots
  BY DEF SesInv, SesTypeOK, ThrTypeOK, Threads
<1>1. /\ pc[t] = "join" /\ op[t] = "none" /\ pc'[t] = "rpUse"
      /\ UNCHANGED <<at, left, ReleaseFlag, SessionID>>
      /\ \A u \in Threads \ {t} : pc'[u] = pc[u]
      /\ announced' = [announced EXCEPT ![t] = IdOf(at[t])]
  BY <1>0 DEF ConnectAnnounce, OnClientJoin, Runs, idVars, SesTypeOK, ThrTypeOK
<1>2. \A u \in Threads \ {t} : op'[u] = op[u] /\ arg'[u] = arg[u]
  BY <1>0, <1>1, CallbackBegins DEF ConnectAnnounce, OnClientJoin, Callback
<1>3. ReleaseFlag[at[t]] = FALSE
  BY <1>0, <1>1, PointFacts DEF SesInv, NoUseAfterRelease
<1>4. "rpUse" \notin BeforeJoin
  BY PointFacts DEF BeforeJoin
<1> SUFFICES ASSUME NEW v \in Openers, announced'[v] # NoID
             PROVE  /\ pc'[v] \notin BeforeJoin
                    /\ \/ announced'[v] \in left'
                       \/ /\ IdOf(at[v])' = announced'[v]
                          /\ ReleaseFlag'[at'[v]] =>
                               \E u \in Threads : op'[u] = "leave" /\ Target(u)' = at'[v]
  BY DEF AnnouncedStands
<1>5. CASE v = t
  BY <1>0, <1>1, <1>3, <1>4, <1>5 DEF IdOf, TypeOK
<1>6. CASE v # t
  <2>1. v \in Threads /\ announced'[v] = announced[v] /\ pc'[v] \notin BeforeJoin
    BY <1>1, <1>6 DEF Threads, TypeOK, AnnouncedStands
  <2> QED BY <1>1, <1>2, <2>1 DEF AnnouncedStands, IdOf, Target, FindSession
<1> QED BY <1>5, <1>6

\* A thread's own work with a session, and the completions it takes.
LEMMA StandsWork ==
  ASSUME SesInv, AnnouncedStands, NEW t \in Threads,
         WorkStep(t) \/ (t \in Workers /\ (GqcsStep(t) \/ OnRecv(t) \/ ParseFail(t))),
         announced' = announced
  PROVE  AnnouncedStands'
<1>0. SesTypeOK /\ pc \in [Threads -> PC] /\ op \in [Threads -> Op]
  BY DEF SesInv, SesTypeOK, ThrTypeOK
<1>1. \A l \in {"final", "gqcs", "opened", "parse", "sent", "sentUnlock"} \cup RecvPostPC \cup SendPostPC :
        l \notin BeforeJoin
  BY PointFacts DEF BeforeJoin, RecvPostPC, SendPostPC
<1>2. CASE ParseDone(t) \/ SendDoneFree(t) \/ SendDoneUnlock(t)
  <2>1. /\ UNCHANGED <<at, op, arg, left, ReleaseFlag, SessionID>>
        /\ \E l \in {"final", "sentUnlock"} \cup RecvPostPC \cup SendPostPC : pc' = [pc EXCEPT ![t] = l]
    BY <1>2 DEF ParseDone, SendDoneFree, SendDoneUnlock, Goto, idVars, histVars, RecvPostPC, SendPostPC
  <2> QED BY <1>0, <1>1, <2>1, StandsKept DEF LeaversStay, NothingAnnounced, AnnouncedStands
<1>3. CASE RecvPostStep(t)
  <2>1. /\ UNCHANGED <<at, op, arg, left, ReleaseFlag, SessionID>>
        /\ \E l \in {"final"} \cup RecvPostPC : pc' = [pc EXCEPT ![t] = l]
    BY <1>3 DEF RecvPostStep, RecvPostUse, RecvPostRef, RecvPostRecv, RecvPostFail, RecvPostUndo,
       RecvPostCancel, Goto, idVars, histVars, RecvPostPC
  <2> QED BY <1>0, <1>1, <2>1, StandsKept DEF LeaversStay, NothingAnnounced, AnnouncedStands
<1>4. CASE SendPostStep(t)
  <2>1. /\ UNCHANGED <<at, op, arg, left, ReleaseFlag, SessionID>>
        /\ \E l \in {"final"} \cup SendPostPC : pc' = [pc EXCEPT ![t] = l]
    BY <1>4 DEF SendPostStep, SendPostRef, SendPostUse, SendPostLock, SendPostSize, SendPostUnlock,
       SendPostRecheck, SendPostFill, SendPostFillTo, SendPostSend, SendPostFail, SendPostCancel,
       SendPostUndo, Goto, idVars, histVars, SendPostPC
  <2> QED BY <1>0, <1>1, <2>1, StandsKept DEF LeaversStay, NothingAnnounced, AnnouncedStands
<1>5. CASE Finish(t)
  <2>1. /\ op[t] = "none" /\ UNCHANGED <<left, ReleaseFlag, SessionID>>
        /\ \E l \in {"gqcs", "opened"} : pc' = [pc EXCEPT ![t] = l]
        /\ \A u \in Threads \ {t} : op'[u] = op[u] /\ arg'[u] = arg[u]
        /\ t \in Openers => at' = at
        /\ \A u \in Threads \ {t} : at'[u] = at[u]
    BY <1>0, <1>5, ThreadAssumption DEF Finish, Runs, Call, Home, idVars, histVars, SesTypeOK, ThrTypeOK
  <2>2. LeaversStay /\ NothingAnnounced
    BY <1>0, <1>1, <2>1 DEF LeaversStay, NothingAnnounced, AnnouncedStands, Threads
  <2> QED BY <1>0, <2>1, <2>2, StandsKept
<1>6. CASE t \in Workers /\ GqcsStep(t)
  <2>1. /\ op[t] = "none" /\ UNCHANGED <<op, arg, left, ReleaseFlag, SessionID>>
        /\ \A u \in Threads \ {t} : at'[u] = at[u] /\ pc'[u] = pc[u]
    BY <1>0, <1>6 DEF GqcsStep, GqcsServes, GqcsRecv, GqcsSend, GqcsWake, GqcsFailed, Gqcs, Runs,
       idVars, histVars, SesTypeOK, ThrTypeOK
  <2>2. t \notin Openers
    BY <1>6, ThreadAssumption
  <2> QED BY <1>0, <2>1, <2>2, StandsKept DEF LeaversStay, NothingAnnounced, AnnouncedStands, Threads
<1>7. CASE t \in Workers /\ (OnRecv(t) \/ ParseFail(t))
  <2>1. /\ op[t] = "none" /\ UNCHANGED <<at, left, ReleaseFlag, SessionID>>
        /\ \A u \in Threads \ {t} : pc'[u] = pc[u]
    BY <1>0, <1>7 DEF OnRecv, ParseFail, Runs, Goto, idVars, histVars, SesTypeOK, ThrTypeOK
  <2>2. \A u \in Threads \ {t} : op'[u] = op[u] /\ arg'[u] = arg[u]
    BY <1>0, <1>7, <2>1, CallbackBegins DEF OnRecv, ParseFail, Callback, Call, SesTypeOK, ThrTypeOK
  <2>3. t \notin Openers
    BY <1>7, ThreadAssumption
  <2> QED BY <1>0, <2>1, <2>2, <2>3, StandsKept DEF LeaversStay, NothingAnnounced, AnnouncedStands, Threads
<1> QED BY <1>2, <1>3, <1>4, <1>5, <1>6, <1>7 DEF WorkStep

\* An opener that has announced nothing takes a slot, or gives up, or begins.
LEMMA StandsOpen ==
  ASSUME SesInv, AnnouncedStands, NEW t \in Openers,
         ConnectStart(t) \/ (GetFreeSession(t) /\ ~InitSession(t))
  PROVE  AnnouncedStands'
<1>0. SesTypeOK /\ t \in Threads /\ at[t] \in Slots
  BY DEF SesInv, SesTypeOK, ThrTypeOK, Threads
<1>1. /\ op[t] = "none" /\ announced' = announced
      /\ UNCHANGED <<op, arg, left, SessionID>>
      /\ \A u \in Threads \ {t} : at'[u] = at[u] /\ pc'[u] = pc[u]
      /\ \A s \in Slots : ReleaseFlag'[s] => ReleaseFlag[s]
  BY <1>0 DEF ConnectStart, Outside, GetFreeSession, InitSlot, PopSession, PopNothing, GenerateSessionID,
     InitSessionRef, InitSessionPublish, Runs, Goto, idVars, histVars, clientVars, SesTypeOK,
     ThrTypeOK, IdTypeOK
<1>2. announced[t] = NoID
  <2>1. CASE ConnectStart(t)
    BY <2>1 DEF ConnectStart, Outside
  <2>2. CASE GetFreeSession(t) /\ ~InitSession(t)
    <3>1. pc[t] \in {"pop", "readID", "initRef", "publish"}
      BY <2>2 DEF GetFreeSession, InitSlot, PopSession, PopNothing, GenerateSessionID, InitSessionRef,
                  InitSessionPublish, Runs
    <3> QED BY <3>1, PointFacts DEF AnnouncedStands, BeforeJoin
  <2> QED BY <2>1, <2>2
<1>3. LeaversStay /\ NothingAnnounced
  BY <1>1, <1>2 DEF LeaversStay, NothingAnnounced, AnnouncedStands, Threads
<1> QED BY <1>0, <1>1, <1>3, StandsKept

\* Connect returns, an application thread or Stop begins a call, the kernel or
\* Stop does something that no announcement depends on.
LEMMA StandsElse ==
  ASSUME SesTypeOK, AnnouncedStands, UNCHANGED <<idVars, histVars, pc, at>>,
         \A t \in Threads : op[t] # "none" => op'[t] = op[t] /\ arg'[t] = arg[t],
         \A t \in Openers : announced'[t] \in {announced[t], NoID}
  PROVE  AnnouncedStands'
<1>1. LeaversStay /\ NothingAnnounced
  BY DEF LeaversStay, NothingAnnounced, AnnouncedStands
<1> QED BY <1>1, StandsKept DEF idVars, histVars

\* Every step of the client keeps what its Connect calls announced.
LEMMA StandsStep ==
  ASSUME TypeOK, SesInv, AnnouncedStands, [Next]_vars
  PROVE  AnnouncedStands'
<1>0. SesTypeOK /\ Workers \subseteq Threads /\ Callers \subseteq Threads /\ Stoppers \subseteq Threads
  BY StopperAssumption DEF TypeOK, Threads
<1>1. ASSUME NEW t \in Threads, Own(SessionWork(t)) PROVE AnnouncedStands'
  <2>1. CallStep(t) \/ WorkStep(t)
    BY <1>1, SharedSteps DEF Own
  <2>2. announced' = announced
    BY <1>1 DEF Own, clientVars
  <2>3. CASE CallStep(t) /\ op[t] \in {"cas", "leave", "release"}
    <3>1. DisconnectCas(t) \/ OnClientLeave(t) \/ ReleaseSession(t)
      BY <2>3 DEF CallStep, SendPacketRef, SendPacketCheck, SendPacketEnqueue, SendPacketPost,
         SendPacketUndo, KillSessionRef, KillSessionCheck, KillSessionUse, KillSessionCancel,
         KillSessionDec, KillSessionUndo, ReleasePush, InCall
    <3> QED BY <2>2, <3>1, StandsCas, StandsLeave, StandsRelease
  <2>4. CASE CallStep(t) /\ op[t] \notin {"cas", "leave", "release"}
    BY <2>2, <2>4, StandsCall
  <2> QED BY <2>1, <2>2, <2>3, <2>4, StandsWork
<1>2. ASSUME NEW t \in Openers, Connect(t) PROVE AnnouncedStands'
  <2>1. CASE GetFreeSession(t) /\ InitSession(t)
    BY <2>1, StandsInit DEF GetFreeSession, clientVars
  <2>2. CASE ConnectReturn(t)
    BY <1>0, <2>2, StandsElse DEF ConnectReturn, sesVars, thrVars, TypeOK
  <2> QED BY <1>2, <2>1, <2>2, StandsOpen, StandsAnnounce DEF Connect
<1>3. ASSUME NEW t \in Workers, Own(GqcsStep(t) \/ WorkerReceives(t)) PROVE AnnouncedStands'
  BY <1>0, <1>3, StandsWork DEF Own, WorkerReceives, clientVars
<1>4. ASSUME NEW t \in Workers, WorkerQuit(t) PROVE AnnouncedStands'
  <2>1. t \in Threads /\ t \notin Openers
    BY <1>0, ThreadAssumption
  <2>2. /\ UNCHANGED <<at, op, arg, left, ReleaseFlag, SessionID, announced>>
        /\ \A u \in Threads \ {t} : pc'[u] = pc[u]
    BY <1>0, <1>4, <2>1 DEF WorkerQuit, Goto, idVars, histVars, SesTypeOK, ThrTypeOK
  <2>3. LeaversStay /\ NothingAnnounced
    BY <2>1, <2>2 DEF LeaversStay, NothingAnnounced, AnnouncedStands, Threads
  <2> QED BY <1>0, <2>2, <2>3, StandsKept
<1>5. ASSUME NEW t \in Callers \ Stoppers, Own(CallerCalls(t)) PROVE AnnouncedStands'
  <2>1. op[t] = "none" /\ UNCHANGED <<idVars, histVars, pc, at, announced>>
    BY <1>5 DEF Own, CallerCalls, clientVars
  <2>2. \A u \in Threads \ {t} : op'[u] = op[u] /\ arg'[u] = arg[u]
    BY <1>0, <1>5, <2>1, CallbackBegins DEF Own, CallerCalls
  <2> QED BY <1>0, <2>1, <2>2, StandsElse
<1>6. ASSUME NEW s \in Slots, Own(KernelStep(s)) PROVE AnnouncedStands'
  <2>1. UNCHANGED <<idVars, thrVars, histVars, announced>>
    BY <1>6 DEF Own, KernelStep, DataArrives, RecvBreaks, SendCompletes, SendBreaks, Complete,
                PeerGone, clientVars
  <2> QED BY <1>0, <2>1, StandsElse DEF thrVars
<1>7. ASSUME NEW t \in Stoppers, StopStep(t) PROVE AnnouncedStands'
  <2>1. CASE StopKill(t)
    <3>1. op[t] = "none" /\ UNCHANGED <<idVars, histVars, pc, at, announced>>
          /\ \A u \in Threads \ {t} : op'[u] = op[u] /\ arg'[u] = arg[u]
      BY <1>0, <2>1 DEF StopKill, StopAt, Call, SesTypeOK, ThrTypeOK
    <3> QED BY <1>0, <3>1, StandsElse
  <2>2. CASE ~StopKill(t)
    <3>1. UNCHANGED <<sesVars, announced>>
      BY <1>7, <2>2 DEF StopStep, StopCall, StopScan, StopPostQuit, StopJoinWorkers
    <3> QED BY <1>0, <3>1, StandsElse DEF sesVars, thrVars
  <2> QED BY <2>1, <2>2
<1>8. CASE UNCHANGED vars
  BY <1>0, <1>8, StandsElse DEF vars, sesVars, thrVars, clientVars
<1> QED BY <1>1, <1>2, <1>3, <1>4, <1>5, <1>6, <1>7, <1>8 DEF Next

\* Connect reads the slot's ID after it gave its reference back, and still
\* returns the session it announced unless OnDisconnect was called for that
\* session: with any number of slots, threads and sessions.
THEOREM ConnectCorrect == Spec => []ConnectReturnsOpen
<1>1. Init => AnnouncedStands
  BY DEF Init, AnnouncedStands
<1>2. TypeOK /\ SesInv /\ AnnouncedStands /\ [Next]_vars => AnnouncedStands'
  BY StandsStep
<1>3. AnnouncedStands => ConnectReturnsOpen
  BY DEF AnnouncedStands, ConnectReturnsOpen, Returning
<1> QED BY <1>1, <1>2, <1>3, ClientTypeCorrect, ClientSlotsInvariant, PTL DEF Spec
-----------------------------------------------------------------------------
(* What travels through the client's slots.                                *)

\* Every step of the client keeps the invariant of what travels through the slots.
LEMMA ClientStepTraffic ==
  ASSUME TypeOK, TypeOK', SesInv, TrafficInv, [Next]_vars
  PROVE  TrafficInv'
<1>0. SesTypeOK /\ SesTypeOK' /\ Stoppers \subseteq Threads /\ Openers \subseteq Threads
      /\ Workers \subseteq Threads /\ Callers \subseteq Threads
  BY StopperAssumption DEF TypeOK, Threads
<1>1. ASSUME NEW t \in Threads, SessionWork(t) PROVE TrafficInv'
  BY <1>0, <1>1, SharedSteps, CallTraffic, WorkTraffic
<1>2. ASSUME NEW t \in Openers, Connect(t) PROVE TrafficInv'
  <2>1. CASE OpenStep(t) \/ PopNothing(t)
    BY <1>0, <2>1, OpenTraffic
  <2>2. CASE ConnectStart(t)
    BY <1>0, <2>2, AsideTraffic DEF ConnectStart, Outside, Runs, Goto
  <2>3. CASE ConnectReturn(t)
    BY <2>3, TrafficStutter DEF ConnectReturn
  <2> QED BY <1>2, <2>1, <2>2, <2>3, ConnectSteps
<1>3. ASSUME NEW t \in Workers, GqcsStep(t) \/ WorkerReceives(t) PROVE TrafficInv'
  BY <1>0, <1>3, ServeTraffic DEF WorkerReceives
<1>4. ASSUME NEW t \in Workers, WorkerQuit(t) PROVE TrafficInv'
  BY <1>0, <1>4, AsideTraffic DEF WorkerQuit, Runs, Goto
<1>5. ASSUME NEW t \in Callers \ Stoppers, CallerCalls(t) PROVE TrafficInv'
  BY <1>0, <1>5, ServeTraffic
<1>6. ASSUME NEW s \in Slots, KernelStep(s) PROVE TrafficInv'
  BY <1>0, <1>6, KernelTraffic
<1>7. ASSUME NEW t \in Stoppers, StopKill(t) PROVE TrafficInv'
  BY <1>0, <1>7, AsideTraffic DEF StopKill, StopAt
<1>8. ASSUME NEW t \in Stoppers, StopStep(t), ~StopKill(t) PROVE TrafficInv'
  BY <1>8, TrafficStutter DEF StopStep, StopCall, StopScan, StopPostQuit, StopJoinWorkers
<1>9. CASE UNCHANGED vars
  BY <1>9, TrafficStutter DEF vars
<1> QED BY <1>1, <1>2, <1>3, <1>4, <1>5, <1>6, <1>7, <1>8, <1>9 DEF Next, Own

\* The client's receives and sends are serialised, its packets accounted for, its
\* wake-ups and cancels not missed and its callbacks not forgotten, with any number
\* of threads in Connect.
THEOREM ClientTrafficInvariant == Spec => []TrafficInv
<1>1. Init => TrafficInv
  BY TrafficInit DEF Init
<1>2. TypeOK /\ TypeOK' /\ SesInv /\ TrafficInv /\ [Next]_vars => TrafficInv'
  BY ClientStepTraffic
<1> QED BY <1>1, <1>2, ClientTypeCorrect, ClientSlotsInvariant, PTL DEF Spec

\* What the server's six theorems say of its slots holds of the client's.
THEOREM ClientTrafficCorrect ==
  Spec => [](SerialIO /\ SendBufferStable /\ PacketsReturned
               /\ CancelNotMissed /\ SendNotStranded /\ FreeMeansLeft)
<1>1. SesInv /\ TrafficInv => SerialIO /\ SendBufferStable /\ PacketsReturned
                                /\ CancelNotMissed /\ SendNotStranded /\ FreeMeansLeft
  BY TrafficFacts
<1> QED BY <1>1, ClientSlotsInvariant, ClientTrafficInvariant, PTL
=============================================================================
