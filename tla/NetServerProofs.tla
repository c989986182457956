--------------------------- MODULE NetServerProofs ---------------------------
(***************************************************************************)
(* The theorems about the server: type correctness, and the safety         *)
(* properties of the session slots and of what travels through them, as    *)
(* theorems of Spec.                                                       *)
(***************************************************************************)
EXTENDS NetServer, NetSessionTraffic

\* The kill that Stop begins keeps every variable well typed.
LEMMA StopKillType ==
  ASSUME SesTypeOK, NEW t \in Threads, NEW s \in Slots, Call(t, "kill", IdOf(s)),
         UNCHANGED <<idVars, RefCnt, sendVars, netVars, histVars, pc, at, tmp>>
  PROVE  SesTypeOK'
  BY ProgramPoints DEF Call, IdOf, SesTypeOK, IdTypeOK, SendTypeOK, NetTypeOK, ThrTypeOK,
     HistTypeOK, idVars, sendVars, netVars, histVars

\* The accept loop and a leaving worker keep every variable well typed.
LEMMA GotoStepType ==
  ASSUME SesTypeOK, NEW t \in Threads, NEW l \in PC, Goto(t, l),
         UNCHANGED <<idVars, RefCnt, sendVars, netVars, histVars>>
  PROVE  SesTypeOK'
  BY GotoType DEF SesTypeOK, IdTypeOK, SendTypeOK, NetTypeOK, HistTypeOK,
     idVars, sendVars, netVars, histVars

\* A step that touches no slot keeps the slots well typed.
LEMMA StutterType == ASSUME SesTypeOK, UNCHANGED sesVars PROVE SesTypeOK'
  BY DEF sesVars, SesTypeOK, IdTypeOK, SendTypeOK, NetTypeOK, ThrTypeOK, HistTypeOK,
     idVars, sendVars, netVars, thrVars, histVars

\* Every step on a session keeps the slots well typed.
LEMMA SessionStepType == SesTypeOK /\ SessionStep => SesTypeOK'
<1> SUFFICES ASSUME SesTypeOK, SessionStep PROVE SesTypeOK'
  OBVIOUS
<1>1. Openers \cup Workers \cup Callers = Threads /\ Callers \ Stoppers \subseteq Threads
  BY DEF Threads
<1>2. ASSUME NEW t \in Threads, CallStep(t) \/ WorkStep(t) PROVE SesTypeOK'
  BY <1>2, CallStepType, WorkStepType
<1>3. ASSUME NEW t \in Openers, OpenStep(t) \/ PopNothing(t) PROVE SesTypeOK'
  BY <1>1, <1>3, OpenStepType
<1>4. ASSUME NEW t \in Workers, GqcsStep(t) \/ OnRecv(t) \/ ParseFail(t) PROVE SesTypeOK'
  BY <1>1, <1>4, WorkerStepType
<1>5. ASSUME NEW t \in Callers \ Stoppers, CallerCalls(t) PROVE SesTypeOK'
  BY <1>1, <1>5, CallerType
<1>6. ASSUME NEW s \in Slots, KernelStep(s) PROVE SesTypeOK'
  BY <1>6, KernelStepType
<1> QED BY <1>2, <1>3, <1>4, <1>5, <1>6 DEF SessionStep

\* Every variable of the server keeps its type: no count of operations or
\* completions is negative, every thread and call names an existing slot and ID,
\* and Stop never kills past the end of SessionArr.
THEOREM TypeCorrect == Spec => []TypeOK
<1>1. Init => TypeOK
  <2> SUFFICES ASSUME Init PROVE TypeOK
    OBVIOUS
  <2>1. \A t \in Stoppers : stop[t] = "idle" /\ scan[t] = 0
    BY DEF Init
  <2>2. 0 \in 0 .. TotalSessionCnt
    BY SlotAssumption
  <2>3. scan \in [Stoppers -> 0 .. TotalSessionCnt]
    BY <2>2 DEF Init
  <2>4. stop \in [Stoppers -> {"idle"}]
    BY DEF Init
  <2> QED BY <2>1, <2>3, <2>4, SesInitType DEF Init, TypeOK
<1>2. TypeOK /\ [Next]_vars => TypeOK'
  <2> SUFFICES ASSUME TypeOK, [Next]_vars PROVE TypeOK'
    OBVIOUS
  <2>0. Stoppers \subseteq Threads /\ SesTypeOK
    BY StopperAssumption DEF Threads, TypeOK
  <2>1. CASE SessionStep /\ UNCHANGED stopVars
    BY <2>1, SessionStepType DEF TypeOK, stopVars
  <2>2. ASSUME NEW t \in Openers, AcceptStep(t) PROVE TypeOK'
    <3>1. t \in Threads
      BY DEF Threads
    <3>2. \E l \in PC : Goto(t, l)
      BY <2>2, ProgramPoints DEF AcceptStep, AcceptLoop, AcceptClient, AcceptRefused, AcceptClosed
    <3>3. UNCHANGED <<idVars, RefCnt, sendVars, netVars, histVars, stopVars>>
      BY <2>2 DEF AcceptStep, AcceptLoop, AcceptClient, AcceptRefused, AcceptClosed
    <3> QED BY <2>0, <3>1, <3>2, <3>3, GotoStepType DEF TypeOK, stopVars
  <2>3. ASSUME NEW t \in Workers, WorkerQuit(t) PROVE TypeOK'
    <3>1. t \in Threads /\ "exited" \in PC
      BY ProgramPoints DEF Threads
    <3>2. SesTypeOK'
      BY <2>0, <2>3, <3>1, GotoStepType DEF WorkerQuit
    <3> QED BY <2>3, <3>2 DEF TypeOK, WorkerQuit
  <2>4. ASSUME NEW t \in Stoppers, StopStep(t) PROVE TypeOK'
    <3>1. CASE StopKill(t)
      <4>1. scan[t] \in Slots
        BY <3>1 DEF TypeOK, StopKill, StopAt
      <4>2. SesTypeOK'
        BY <2>0, <3>1, <4>1, StopKillType DEF StopKill
      <4> QED BY <3>1, <4>1, <4>2, SlotAssumption DEF StopKill, StopGoto, TypeOK, Slots
    <3>2. CASE StopScan(t)
      <4>1. SesTypeOK' /\ Shutdown' \in BOOLEAN /\ ListenOpen' \in BOOLEAN /\ Quit' \in Nat
            /\ IocpOpen' \in BOOLEAN
        BY <2>0, <3>2, StutterType DEF StopScan, TypeOK
      <4>2. scan[t] \in 0 .. TotalSessionCnt /\ Slots = 0 .. (TotalSessionCnt - 1)
        BY DEF TypeOK, Slots
      <4>3. CASE scan[t] = TotalSessionCnt
        BY <3>2, <4>1, <4>3 DEF StopScan, StopGoto, TypeOK
      <4>4. CASE scan[t] # TotalSessionCnt /\ ReleaseFlag[scan[t]]
        <5>1. stop' = stop /\ scan' = [scan EXCEPT ![t] = @ + 1] /\ stop[t] # "kill"
          BY <3>2, <4>4 DEF StopScan, StopAt
        <5> QED BY <4>1, <4>2, <4>4, <5>1, SlotAssumption DEF TypeOK
      <4>5. CASE scan[t] # TotalSessionCnt /\ ~ReleaseFlag[scan[t]]
        <5>1. scan' = scan /\ stop' = [stop EXCEPT ![t] = "kill"] /\ scan[t] \in Slots
          BY <3>2, <4>2, <4>5, SlotAssumption DEF StopScan, StopGoto
        <5> QED BY <4>1, <5>1 DEF TypeOK
      <4> QED BY <4>3, <4>4, <4>5
    <3>3. CASE StopJoinAccept(t)
      <4>1. Cardinality(Workers) \in Nat
        BY ThreadAssumption, FS_Subset, FS_CardinalityType DEF Threads
      <4> QED BY <2>0, <3>3, <4>1, StutterType DEF StopJoinAccept, StopGoto, TypeOK
    <3>4. CASE StopCall(t) \/ StopDrained(t) \/ StopTimeout(t) \/ StopClose(t) \/ StopJoinWorkers(t)
      BY <2>0, <3>4, StutterType
         DEF StopCall, StopDrained, StopTimeout, StopClose, StopJoinWorkers, StopGoto, TypeOK
    <3> QED BY <2>4, <3>1, <3>2, <3>3, <3>4 DEF StopStep
  <2>5. CASE UNCHANGED vars
    BY <2>0, <2>5, StutterType DEF vars, stopVars, TypeOK
  <2> QED BY <2>1, <2>2, <2>3, <2>4, <2>5 DEF Next
<1> QED BY <1>1, <1>2, PTL DEF Spec

-----------------------------------------------------------------------------
\* Every step of the server keeps the invariant of the session slots.  The
\* accept loop and a worker's exit only move a thread on; StopKill begins a
\* call; the other steps of Stop do not touch the slots.
LEMMA ServerStepInv ==
  ASSUME TypeOK, TypeOK', SesInv, [Next]_vars
  PROVE  SesInv'
<1>0. SesTypeOK /\ SesTypeOK' /\ Stoppers \subseteq Callers /\ Stoppers \subseteq Threads
  BY StopperAssumption DEF TypeOK, Threads
<1>1. CASE SessionStep
  <2>1. ASSUME NEW t \in Threads, CallStep(t) \/ WorkStep(t) PROVE SesInv'
    <3>1. CASE op[t] \in ReleaseOp \cup {"cas"} /\ CallStep(t)
      BY <3>1, DisconnectInv
    <3>2. CASE op[t] \notin ReleaseOp \cup {"cas"} /\ CallStep(t)
      BY <3>2, CallInv
    <3> QED BY <2>1, <3>1, <3>2, WorkInv
  <2>2. ASSUME NEW t \in Openers, OpenStep(t) \/ PopNothing(t) PROVE SesInv'
    BY <2>2, OpenInv
  <2>3. ASSUME NEW t \in Workers, GqcsStep(t) \/ OnRecv(t) \/ ParseFail(t) PROVE SesInv'
    <3>1. t \in Threads
      BY DEF Threads
    <3> QED BY <2>3, <3>1, GqcsInv, CallbackInv
  <2>4. ASSUME NEW t \in Callers \ Stoppers, CallerCalls(t) PROVE SesInv'
    <3>1. t \in Threads
      BY DEF Threads
    <3> QED BY <2>4, <3>1, CallbackInv
  <2>5. ASSUME NEW s \in Slots, KernelStep(s) PROVE SesInv'
    BY <2>5, KernelInv
  <2> QED BY <1>1, <2>1, <2>2, <2>3, <2>4, <2>5 DEF SessionStep
<1>2. ASSUME NEW t \in Openers, AcceptStep(t) PROVE SesInv'
  <2>1. t \in Threads
    BY DEF Threads
  <2>2. UNCHANGED <<idVars, RefCnt, netVars>>
        /\ \E l \in {"opened", "accept"}, m \in {"exited", "accept", "pop", "opened"} : Runs(t, l) /\ Goto(t, m)
    BY <1>2 DEF AcceptStep, AcceptLoop, AcceptClient, AcceptRefused, AcceptClosed
  <2> QED BY <1>0, <2>1, <2>2, IdleGotoInv
<1>3. ASSUME NEW t \in Workers, WorkerQuit(t) PROVE SesInv'
  <2>1. t \in Threads
    BY DEF Threads
  <2>2. UNCHANGED <<idVars, RefCnt, netVars>> /\ Runs(t, "gqcs") /\ Goto(t, "exited")
    BY <1>3 DEF WorkerQuit
  <2> QED BY <1>0, <2>1, <2>2, IdleGotoInv
<1>4. ASSUME NEW t \in Stoppers, StopKill(t) PROVE SesInv'
  <2>1. t \in Threads /\ t \notin Openers
    BY <1>0, ThreadAssumption
  <2>2. op'[t] = "kill" /\ \A u \in Threads \ {t} : op'[u] = op[u] /\ arg'[u] = arg[u]
    BY <1>0, <1>4, <2>1 DEF StopKill, Call, SesTypeOK, ThrTypeOK
  <2>3. pc[t] \notin OpeningPC
    BY <2>1 DEF SesInv, OpeningAlone
  <2>4. BeginsCall(t)
    BY <1>4, <2>2, <2>3 DEF StopKill, StopAt, BeginsCall, OnlyThread, idVars, netVars
  <2> QED BY <1>0, <2>1, <2>4, BeginCallInv
<1>5. ASSUME NEW t \in Stoppers, StopStep(t), ~StopKill(t) PROVE SesInv'
  <2>1. UNCHANGED sesVars
    BY <1>5 DEF StopStep, StopCall, StopScan, StopDrained, StopTimeout, StopClose,
                StopJoinAccept, StopJoinWorkers
  <2> QED BY <2>1, SesStutterInv
<1>6. CASE UNCHANGED vars
  BY <1>6, SesStutterInv DEF vars
<1> QED BY <1>1, <1>2, <1>3, <1>4, <1>5, <1>6 DEF Next

\* The inductive invariant of the session slots holds in every state.
THEOREM SlotsInvariant == Spec => []SesInv
<1>1. Init => SesInv
  BY SesInitInv DEF Init
<1>2. TypeOK /\ TypeOK' /\ SesInv /\ [Next]_vars => SesInv'
  BY ServerStepInv
<1> QED BY <1>1, <1>2, TypeCorrect, PTL DEF Spec

\* RefCnt of every slot is at any time exactly the number of threads, calls
\* and kernel operations that hold a reference (IncrementSessionRef,
\* DecrementSessionRef and the hand-over to posted operations), whatever the
\* number of slots, threads, packets and sessions.
THEOREM RefCountCorrect == Spec => []RefCntExact
<1>1. SesInv => RefCntExact
  BY DEF SesInv
<1> QED BY <1>1, SlotsInvariant, PTL

\* DisconnectSession's compare-exchange and the free stack give every slot to
\* one opener or one releaser at a time, and lose none.
THEOREM OwnerCorrect == Spec => []OneOwner
<1>1. SesInv => OneOwner
  BY DEF SesInv
<1> QED BY <1>1, SlotsInvariant, PTL

\* No thread of the accept and worker loops, no guarded SendPacket or
\* KillSession and no posted operation is left when ReleaseFlag is set.
THEOREM ReleaseCorrect == Spec => []NoUseAfterRelease
<1>1. SesInv => NoUseAfterRelease
  BY DEF SesInv
<1> QED BY <1>1, SlotsInvariant, PTL

\* Once SendPacket or KillSession has passed its guard, the slot keeps the ID
\* the caller named until the call has given its reference away.
THEOREM GuardCorrect == Spec => []GuardPinsSession
<1>1. SesInv => GuardPinsSession
  BY DEF SesInv
<1> QED BY <1>1, SlotsInvariant, PTL

-----------------------------------------------------------------------------
\* Every step of the server keeps the invariant of what travels through the slots.
LEMMA ServerStepTraffic ==
  ASSUME TypeOK, TypeOK', SesInv, TrafficInv, [Next]_vars
  PROVE  TrafficInv'
<1>0. SesTypeOK /\ SesTypeOK' /\ Stoppers \subseteq Threads /\ Openers \subseteq Threads
      /\ Workers \subseteq Threads /\ Callers \subseteq Threads
  BY StopperAssumption DEF TypeOK, Threads
<1>1. CASE SessionStep
  BY <1>0, <1>1, CallTraffic, WorkTraffic, OpenTraffic, ServeTraffic, KernelTraffic DEF SessionStep
<1>2. ASSUME NEW t \in Openers, AcceptStep(t) PROVE TrafficInv'
  <2>1. UNCHANGED <<idVars, sendVars, netVars, histVars>>
        /\ \E l \in {"opened", "accept"}, m \in {"opened", "accept", "pop", "exited"} : Runs(t, l) /\ Goto(t, m)
    BY <1>2 DEF AcceptStep, AcceptLoop, AcceptClient, AcceptRefused, AcceptClosed
  <2> QED BY <1>0, <2>1, AsideTraffic DEF Runs, Goto
<1>3. ASSUME NEW t \in Workers, WorkerQuit(t) PROVE TrafficInv'
  BY <1>0, <1>3, AsideTraffic DEF WorkerQuit, Runs, Goto
<1>4. ASSUME NEW t \in Stoppers, StopKill(t) PROVE TrafficInv'
  BY <1>0, <1>4, AsideTraffic DEF StopKill, StopAt
<1>5. ASSUME NEW t \in Stoppers, StopStep(t), ~StopKill(t) PROVE TrafficInv'
  BY <1>5, TrafficStutter DEF StopStep, StopCall, StopScan, StopDrained, StopTimeout, StopClose,
     StopJoinAccept, StopJoinWorkers
<1>6. CASE UNCHANGED vars
  BY <1>6, TrafficStutter DEF vars
<1> QED BY <1>1, <1>2, <1>3, <1>4, <1>5, <1>6 DEF Next

\* The invariant of receives, sends, packets, wake-ups, cancels and callbacks holds
\* in every state.
THEOREM TrafficInvariant == Spec => []TrafficInv
<1>1. Init => TrafficInv
  BY TrafficInit DEF Init
<1>2. TypeOK /\ TypeOK' /\ SesInv /\ TrafficInv /\ [Next]_vars => TrafficInv'
  BY ServerStepTraffic
<1> QED BY <1>1, <1>2, TypeCorrect, SlotsInvariant, PTL DEF Spec

\* A session has one receive (RecvPost, its completion, the parse loop) and one send
\* (the holder of SendFlag, its WSASend, the completion) at a time.
THEOREM SerialCorrect == Spec => []SerialIO
<1>1. SesInv /\ TrafficInv => SerialIO
  BY TrafficFacts
<1> QED BY <1>1, SlotsInvariant, TrafficInvariant, PTL

\* SendBuffer keeps its packets while a WSASend is under way, and SendPost dequeues
\* no more than it counted in the queue.
THEOREM SendBufferCorrect == Spec => []SendBufferStable
<1>1. SesInv /\ TrafficInv => SendBufferStable
  BY TrafficFacts
<1> QED BY <1>1, SlotsInvariant, TrafficInvariant, PTL

\* Every reference SendPacket takes on a packet is in the queue or in SendBuffer, and
\* ReleaseSession has given all back when the slot is pushed.
THEOREM PacketsCorrect == Spec => []PacketsReturned
<1>1. SesInv /\ TrafficInv => PacketsReturned
  BY TrafficFacts
<1> QED BY <1>1, SlotsInvariant, TrafficInvariant, PTL

\* A receive or send posted while KillSession runs is cancelled by the killer's
\* CancelIoEx or by the second look at SessionUseFlag after WSARecv and WSASend.
THEOREM CancelCorrect == Spec => []CancelNotMissed
<1>1. SesInv /\ TrafficInv => CancelNotMissed
  BY TrafficFacts
<1> QED BY <1>1, SlotsInvariant, TrafficInvariant, PTL

\* No packet is left in the queue of a usable session with nobody to send it: whoever
\* gives SendFlag up looks at the queue again.
THEOREM WakeCorrect == Spec => []SendNotStranded
<1>1. SesInv /\ TrafficInv => SendNotStranded
  BY TrafficFacts
<1> QED BY <1>1, SlotsInvariant, TrafficInvariant, PTL

\* A slot on the free stack, which is what Stop waits for, owes no OnClientLeave.
THEOREM LeaveCorrect == Spec => []FreeMeansLeft
<1>1. SesInv /\ TrafficInv => FreeMeansLeft
  BY TrafficFacts
<1> QED BY <1>1, SlotsInvariant, TrafficInvariant, PTL

-----------------------------------------------------------------------------
(* The callbacks of SessionCallbacks.  The one accept thread counts IDs up *)
(* to MaxID and announces each before it counts the next; a session that   *)
(* is live, or whose releaser stands before OnClientLeave, is announced    *)
(* and has not left, but for the one the accept thread is announcing.      *)
Announcing(s) == \E t \in Openers : pc[t] = "join" /\ at[t] = s

Stands(s) ==
  \/ ~ReleaseFlag[s] /\ ~Announcing(s)
  \/ \E t \in Threads : op[t] = "leave" /\ Target(t) = s

Opening(t) ==
  /\ pc[t] \in {"pop", "readID", "init"} => SessionIDCnt < MaxID
  /\ pc[t] = "init" => tmp[t] = SessionIDCnt + 1
  /\ pc[t] \in {"initRef", "publish", "join"} =>
       /\ SessionIDCnt > 0
       /\ SessionID[at[t]] = SessionIDCnt
       /\ \A id \in joined : id[2] < SessionIDCnt

AnnounceInv ==
  /\ SessionIDCnt <= MaxID
  /\ left \subseteq joined
  /\ \A id \in joined : id[2] \in 1 .. SessionIDCnt
  /\ \A t \in Openers : Opening(t)
  /\ \A s \in Slots : Stands(s) => IdOf(s) \in joined \ left

\* An opener stays, or leaves the accept loop's way to OnClientJoin, or goes on along
\* it without writing what others see.
OpenerKeeps(t) ==
  \/ pc'[t] = pc[t] /\ at'[t] = at[t] /\ tmp'[t] = tmp[t]
  \/ /\ pc[t] # "join"
     /\ \/ pc'[t] \notin {"pop", "readID", "init", "initRef", "publish", "join"}
        \/ pc'[t] \in {"pop", "readID"} /\ SessionIDCnt < MaxID
        \/ pc[t] = "readID" /\ pc'[t] = "init" /\ tmp'[t] = SessionIDCnt + 1
        \/ pc[t] = "initRef" /\ pc'[t] = "publish" /\ at'[t] = at[t]

\* A step that writes no ID, no flag and no callback.
LEMMA QuietAnnounce ==
  ASSUME AnnounceInv, UNCHANGED <<joined, left, SessionID, SessionIDCnt, ReleaseFlag>>,
         \A t \in Openers : OpenerKeeps(t),
         \A t \in Threads : op'[t] = "leave" => op[t] = "leave" /\ Target(t)' = Target(t)
  PROVE  AnnounceInv'
<1>1. ASSUME NEW t \in Openers PROVE Opening(t)'
  BY DEF AnnounceInv, Opening, OpenerKeeps
<1>2. ASSUME NEW s \in Slots, Stands(s)' PROVE IdOf(s)' \in joined' \ left'
  <2>1. Announcing(s) => Announcing(s)'
    BY DEF Announcing, OpenerKeeps
  <2>2. Stands(s)
    BY <1>2, <2>1 DEF Stands
  <2> QED BY <2>2 DEF AnnounceInv, IdOf
<1> QED BY <1>1, <1>2 DEF AnnounceInv

\* No reference is held on a slot that DisconnectSession may release.
LEMMA ReleasableAlone ==
  ASSUME SesInv, NEW s \in Slots, Releasable(s)
  PROVE  ~Announcing(s)
<1>1. /\ Cardinality(BaseHolders(s)) \in Nat /\ Cardinality(PostHolders(s)) \in Nat
      /\ Cardinality(CallHolders(s)) \in Nat /\ IsFiniteSet(BaseHolders(s))
  BY ThreadAssumption, FS_Subset, FS_CardinalityType DEF BaseHolders, PostHolders, CallHolders
<1>2. IoRefs(io[s]) \in Nat
  BY CountingFacts DEF SesInv
<1>3. 0 = Cardinality(BaseHolders(s)) + Cardinality(PostHolders(s)) + Cardinality(CallHolders(s)) + IoRefs(io[s])
  BY DEF SesInv, RefCntExact, Releasable
<1>4. Cardinality(BaseHolders(s)) = 0
  BY <1>1, <1>2, <1>3
<1>5. BaseHolders(s) = {}
  BY <1>1, <1>4, FS_EmptySet
<1> QED BY <1>5, PointFacts DEF Announcing, BaseHolders, Threads

\* DisconnectSession and OnClientLeave: one callback for the ID, before it is cleared.
LEMMA DisconnectAnnounce ==
  ASSUME SesInv, AnnounceInv, NEW t \in Threads,
         DisconnectCas(t) \/ OnClientLeave(t) \/ ReleaseSession(t)
  PROVE  AnnounceInv'
<1> DEFINE s == Target(t)
<1>0. /\ SesTypeOK /\ s \in Slots /\ op \in [Threads -> Op] /\ arg \in [Threads -> Slots \X Nat]
      /\ ReleaseFlag \in [Slots -> BOOLEAN] /\ SessionID \in [Slots -> Nat]
      /\ \A u \in Threads : Target(u) \in Slots /\ at[u] \in Slots
  BY DEF SesInv, SesTypeOK, ThrTypeOK, IdTypeOK, Target, FindSession
<1>1. /\ UNCHANGED <<pc, at, tmp, joined, SessionIDCnt>> /\ OnlyThread(t)
  BY <1>0 DEF DisconnectCas, DisconnectTo, OnClientLeave, ReleaseSession, CallGoto, OnlyThread, idVars, histVars
<1>2. \A r \in Slots : Announcing(r)' = Announcing(r)
  BY <1>1 DEF Announcing
<1>3. CASE DisconnectCas(t)
  <2>1. CASE ~Releasable(s)
    <3>1. UNCHANGED <<left, SessionID, ReleaseFlag>> /\ op'[t] = "none"
      BY <1>0, <1>3, <2>1 DEF DisconnectCas, DisconnectTo, CallGoto, histVars
    <3> QED BY <1>0, <1>1, <3>1, QuietAnnounce DEF OpenerKeeps, OnlyThread, Target, FindSession
  <2>2. CASE Releasable(s)
    <3>1. /\ UNCHANGED <<left, SessionID>> /\ op'[t] = "leave" /\ Target(t)' = s /\ ~ReleaseFlag[s]
          /\ \A r \in Slots \ {s} : ReleaseFlag'[r] = ReleaseFlag[r]
      BY <1>0, <1>3, <2>2 DEF DisconnectCas, DisconnectTo, CallGoto, histVars, Releasable, Target, FindSession
    <3>2. Stands(s)
      BY <1>0, <2>2, <3>1, ReleasableAlone DEF Stands
    <3>3. \A u \in Threads : op'[u] = "leave" => (op[u] = "leave" /\ Target(u)' = Target(u)) \/ Target(u)' = s
      BY <1>1, <3>1 DEF OnlyThread, Target, FindSession
    <3>4. ASSUME NEW r \in Slots, Stands(r)' PROVE Stands(r)
      BY <1>2, <3>1, <3>2, <3>3, <3>4 DEF Stands
    <3> QED BY <1>1, <3>1, <3>4 DEF AnnounceInv, Opening, IdOf
  <2> QED BY <2>1, <2>2
<1>4. CASE OnClientLeave(t) \/ ReleaseSession(t)
  <2>1. op[t] \in {"leave", "release"} /\ ReleaseFlag' = ReleaseFlag /\ op'[t] # "leave"
    BY <1>0, <1>4 DEF OnClientLeave, ReleaseSession, InCall, CallGoto, idVars
  <2>2. ReleaseFlag[s] /\ \A u \in Threads \ {t} : ~Releases(u, s) /\ ~Opens(u, s)
    <3>1. Releases(t, s)
      BY <2>1 DEF Releases, ReleaseOp
    <3> QED BY <1>0, <3>1 DEF SesInv, OneOwner
  <2>3. ASSUME NEW r \in Slots, Stands(r)' PROVE r # s /\ Stands(r)
    <3>1. \A u \in Threads : op'[u] = "leave" => u # t /\ op[u] = "leave" /\ Target(u)' = Target(u)
      BY <1>1, <2>1 DEF OnlyThread, Target, FindSession
    <3>2. \A u \in Threads : u # t /\ op[u] = "leave" => Target(u) # s
      BY <2>2 DEF Releases, ReleaseOp
    <3> QED BY <1>2, <2>1, <2>2, <2>3, <3>1, <3>2 DEF Stands
  <2>4. CASE OnClientLeave(t)
    <3>1. /\ UNCHANGED SessionID /\ left' = left \cup {<<s, SessionID[s]>>} /\ op[t] = "leave"
      BY <2>4 DEF OnClientLeave, InCall, idVars, IdOf
    <3>2. <<s, SessionID[s]>> \in joined
      BY <1>0, <3>1 DEF AnnounceInv, Stands, IdOf
    <3>3. ASSUME NEW r \in Slots, Stands(r)' PROVE IdOf(r)' \in joined' \ left'
      <4>1. r # s /\ <<r, SessionID[r]>> \in joined \ left
        BY <2>3, <3>3 DEF AnnounceInv, IdOf
      <4> QED BY <1>1, <3>1, <4>1 DEF IdOf
    <3>4. \A u \in Openers : Opening(u)'
      BY <1>1, <3>1 DEF AnnounceInv, Opening
    <3> QED BY <1>1, <3>1, <3>2, <3>3, <3>4 DEF AnnounceInv
  <2>5. CASE ReleaseSession(t)
    <3>1. /\ UNCHANGED left /\ op[t] = "release"
          /\ \A r \in Slots \ {s} : SessionID'[r] = SessionID[r]
      BY <1>0, <2>5 DEF ReleaseSession, InCall, histVars
    <3>2. ASSUME NEW r \in Slots, Stands(r)' PROVE IdOf(r)' \in joined' \ left'
      BY <1>1, <2>3, <3>1, <3>2 DEF AnnounceInv, IdOf
    <3>3. ASSUME NEW u \in Openers, pc[u] \in {"initRef", "publish", "join"} PROVE at[u] # s
      <4>1. u \in Threads
        BY DEF Threads
      <4>2. CASE pc[u] = "join"
        BY <2>2, <4>1, <4>2, WorkedOn, PointFacts
      <4>3. CASE pc[u] # "join"
        <5>1. pc[u] \in OpeningPC
          BY <3>3, <4>3, PointFacts
        <5>2. u # t
          BY <3>1, <4>1, <5>1 DEF SesInv, OpeningAlone
        <5> QED BY <2>2, <4>1, <5>1, <5>2 DEF Opens
      <4> QED BY <4>2, <4>3
    <3>4. \A u \in Openers : at[u] \in Slots
      BY <1>0 DEF Threads
    <3>5. \A u \in Openers : Opening(u)'
      BY <1>1, <3>1, <3>3, <3>4 DEF AnnounceInv, Opening
    <3> QED BY <1>1, <3>1, <3>2, <3>5 DEF AnnounceInv
  <2> QED BY <1>4, <2>4, <2>5
<1> QED BY <1>3, <1>4

\* The accept thread's way from the free stack to OnClientJoin.
LEMMA OpenAnnounce ==
  ASSUME SesInv, SesTypeOK', AnnounceInv, NEW t \in Openers, OpenStep(t) \/ PopNothing(t)
  PROVE  AnnounceInv'
<1> DEFINE s == at[t]
<1>0. /\ SesTypeOK /\ t \in Threads /\ s \in Slots /\ \A u \in Openers : u = t
      /\ pc \in [Threads -> PC] /\ at \in [Threads -> Slots] /\ tmp \in [Threads -> Nat]
      /\ ReleaseFlag \in [Slots -> BOOLEAN] /\ SessionID \in [Slots -> Nat]
      /\ SessionIDCnt \in Nat /\ joined \subseteq Slots \X Nat /\ MaxID \in Nat
  BY AcceptAssumption, BoundAssumption DEF SesInv, SesTypeOK, ThrTypeOK, IdTypeOK, HistTypeOK, Threads
<1>1. /\ op[t] = "none" /\ left' = left /\ Opening(t)
      /\ \A u \in Threads : op'[u] = "leave" => op[u] = "leave" /\ Target(u)' = Target(u)
  <2>1. CASE OnClientJoin(t)
    BY <1>0, <2>1, CallbackBegins DEF OnClientJoin, Runs, Callback, AnnounceInv, Target, FindSession
  <2>2. CASE ~OnClientJoin(t)
    BY <2>2 DEF OpenStep, PopSession, GenerateSessionID, InitSession, InitSessionRef, InitSessionPublish,
       PopNothing, Runs, Goto, histVars, AnnounceInv, Target, FindSession
  <2> QED BY <2>1, <2>2
<1>2. CASE (\E a \in Slots : PopSession(t, a)) \/ GenerateSessionID(t) \/ InitSessionRef(t) \/ PopNothing(t)
  <2>1. UNCHANGED <<joined, left, SessionID, SessionIDCnt, ReleaseFlag>>
    BY <1>2 DEF PopSession, GenerateSessionID, InitSessionRef, PopNothing, idVars, histVars
  <2>2. OpenerKeeps(t)
    BY <1>0, <1>1, <1>2 DEF PopSession, GenerateSessionID, InitSessionRef, PopNothing, Runs, Goto, Opening, OpenerKeeps
  <2> QED BY <1>0, <1>1, <2>1, <2>2, QuietAnnounce
<1>3. CASE InitSession(t) \/ InitSessionPublish(t)
  <2>1. Opens(t, s) /\ joined' = joined /\ at' = at /\ pc[t] \in {"init", "publish"}
    BY <1>3, PointFacts DEF InitSession, InitSessionPublish, Runs, Goto, Opens, histVars
  <2>2. /\ ReleaseFlag[s] /\ \A u \in Threads : op[u] = "leave" => Target(u) # s
    <3>1. ReleaseFlag[s] /\ \A u \in Threads \ {t} : ~Releases(u, s)
      BY <1>0, <2>1 DEF SesInv, OneOwner
    <3> QED BY <1>1, <3>1 DEF Releases, ReleaseOp
  <2>3. CASE InitSession(t)
    <3>1. /\ pc[t] = "init" /\ pc'[t] = "initRef" /\ ReleaseFlag' = ReleaseFlag /\ SessionIDCnt' = tmp[t]
          /\ \A r \in Slots : SessionID'[r] = IF r = s THEN tmp[t] ELSE SessionID[r]
      BY <1>0, <2>3 DEF InitSession, Runs
    <3>2. SessionIDCnt' = SessionIDCnt + 1 /\ SessionIDCnt < MaxID
      BY <1>1, <3>1 DEF Opening
    <3>3. \A r \in Slots : Stands(r)' => r # s /\ Stands(r)
      BY <1>0, <1>1, <2>1, <2>2, <3>1 DEF Stands, Announcing
    <3>4. ASSUME NEW r \in Slots, Stands(r)' PROVE IdOf(r)' \in joined' \ left'
      BY <1>1, <2>1, <3>1, <3>3, <3>4 DEF AnnounceInv, IdOf
    <3>5. \A id \in joined : id[2] \in 1 .. SessionIDCnt /\ id[2] \in Nat
      BY <1>0 DEF AnnounceInv
    <3>6. \A id \in joined : id[2] \in 1 .. SessionIDCnt' /\ id[2] < SessionIDCnt'
      BY <1>0, <3>2, <3>5
    <3>7. Opening(t)' /\ SessionIDCnt' <= MaxID
      BY <1>0, <2>1, <3>1, <3>2, <3>6 DEF Opening
    <3> QED BY <1>0, <1>1, <2>1, <3>4, <3>6, <3>7 DEF AnnounceInv
  <2>4. CASE InitSessionPublish(t)
    <3>1. /\ pc[t] = "publish" /\ pc'[t] = "join" /\ UNCHANGED <<SessionID, SessionIDCnt>>
          /\ \A r \in Slots \ {s} : ReleaseFlag'[r] = ReleaseFlag[r]
      BY <1>0, <2>4 DEF InitSessionPublish, Runs, Goto
    <3>2. \A r \in Slots : Stands(r)' => r # s /\ Stands(r)
      BY <1>0, <1>1, <2>1, <2>2, <3>1 DEF Stands, Announcing
    <3>3. ASSUME NEW r \in Slots, Stands(r)' PROVE IdOf(r)' \in joined' \ left'
      BY <1>1, <2>1, <3>1, <3>2, <3>3 DEF AnnounceInv, IdOf
    <3>4. Opening(t)'
      BY <1>1, <2>1, <3>1 DEF Opening
    <3> QED BY <1>0, <1>1, <2>1, <3>1, <3>3, <3>4 DEF AnnounceInv
  <2> QED BY <1>3, <2>3, <2>4
<1>4. CASE OnClientJoin(t)
  <2>1. /\ pc[t] = "join" /\ pc'[t] = "rpUse" /\ at' = at
        /\ UNCHANGED <<SessionID, SessionIDCnt, ReleaseFlag>>
        /\ joined' = joined \cup {<<s, SessionID[s]>>}
    BY <1>0, <1>4 DEF OnClientJoin, Runs, idVars, IdOf
  <2>2. SessionID[s] = SessionIDCnt /\ SessionIDCnt > 0 /\ \A id \in joined : id[2] < SessionIDCnt
    BY <1>1, <2>1 DEF Opening
  <2>3. <<s, SessionID[s]>> \notin left
    <3>1. SUFFICES <<s, SessionID[s]>> \notin joined
      BY DEF AnnounceInv
    <3> QED BY <1>0, <2>2
  <2>4. ASSUME NEW r \in Slots, Stands(r)' PROVE IdOf(r)' \in joined' \ left'
    <3>1. r = s \/ Stands(r)
      BY <1>0, <1>1, <2>1, <2>4 DEF Stands, Announcing
    <3> QED BY <1>1, <2>1, <2>3, <3>1 DEF AnnounceInv, IdOf
  <2>5. \A id \in joined' : id[2] \in 1 .. SessionIDCnt'
    BY <1>0, <2>1, <2>2 DEF AnnounceInv
  <2>6. Opening(t)'
    BY <2>1 DEF Opening
  <2> QED BY <1>0, <1>1, <2>1, <2>4, <2>5, <2>6 DEF AnnounceInv
<1> QED BY <1>2, <1>3, <1>4 DEF OpenStep

\* Every step of the server keeps what it announced.
LEMMA ServerStepAnnounce ==
  ASSUME TypeOK, TypeOK', SesInv, AnnounceInv, [Next]_vars
  PROVE  AnnounceInv'
<1>0. /\ SesTypeOK /\ SesTypeOK' /\ Stoppers \subseteq Threads /\ Openers \subseteq Threads
      /\ Workers \subseteq Threads /\ Callers \subseteq Threads
      /\ pc \in [Threads -> PC] /\ op \in [Threads -> Op] /\ at \in [Threads -> Slots]
      /\ arg \in [Threads -> Slots \X Nat] /\ tmp \in [Threads -> Nat]
  BY StopperAssumption DEF TypeOK, Threads, SesTypeOK, ThrTypeOK
<1>1. ASSUME NEW t \in Threads, UNCHANGED <<joined, left, SessionID, SessionIDCnt, ReleaseFlag>>,
             \A u \in Threads \ {t} : /\ pc'[u] = pc[u] /\ at'[u] = at[u] /\ tmp'[u] = tmp[u]
                                      /\ op'[u] = op[u] /\ arg'[u] = arg[u],
             t \in Openers => OpenerKeeps(t),
             op'[t] # "leave"
      PROVE  AnnounceInv'
  <2>1. \A u \in Openers : OpenerKeeps(u)
    BY <1>0, <1>1 DEF OpenerKeeps
  <2>2. \A u \in Threads : op'[u] = "leave" => op[u] = "leave" /\ Target(u)' = Target(u)
    BY <1>1 DEF Target, FindSession
  <2> QED BY <1>1, <2>1, <2>2, QuietAnnounce
<1>2. ASSUME NEW t \in Threads, CallStep(t) PROVE AnnounceInv'
  <2>1. CASE DisconnectCas(t) \/ OnClientLeave(t) \/ ReleaseSession(t)
    BY <2>1, DisconnectAnnounce
  <2>2. CASE ~(DisconnectCas(t) \/ OnClientLeave(t) \/ ReleaseSession(t))
    <3>1. /\ UNCHANGED <<joined, left, SessionID, SessionIDCnt, ReleaseFlag, pc, at, tmp>>
          /\ op'[t] # "leave" /\ \A u \in Threads \ {t} : op'[u] = op[u] /\ arg'[u] = arg[u]
      BY <1>0, <1>2, <2>2 DEF CallStep, SendPacketRef, SendPacketCheck, SendPacketEnqueue, SendPacketPost,
         SendPacketUndo, KillSessionRef, KillSessionCheck, KillSessionUse, KillSessionCancel,
         KillSessionDec, KillSessionUndo, ReleasePush, CallGoto, idVars, histVars
    <3> QED BY <1>1, <3>1 DEF OpenerKeeps
  <2> QED BY <2>1, <2>2
<1>3. ASSUME NEW t \in Threads, WorkStep(t) PROVE AnnounceInv'
  <2>1. /\ UNCHANGED <<joined, left, SessionID, SessionIDCnt, ReleaseFlag>> /\ op[t] = "none"
        /\ pc[t] # "join"
        /\ pc'[t] \notin {"pop", "readID", "init", "initRef", "publish", "join"}
    BY <1>0, <1>3 DEF WorkStep, ParseDone, SendDoneFree, SendDoneUnlock, Finish, Home, RecvPostStep, RecvPostUse,
       RecvPostRef, RecvPostRecv, RecvPostFail, RecvPostUndo, RecvPostCancel, SendPostStep, SendPostRef,
       SendPostUse, SendPostLock, SendPostSize, SendPostUnlock, SendPostRecheck, SendPostFill,
       SendPostFillTo, SendPostSend, SendPostFail, SendPostCancel, SendPostUndo, Goto, Runs, idVars, histVars
  <2>2. \A u \in Threads \ {t} : pc'[u] = pc[u] /\ at'[u] = at[u] /\ tmp'[u] = tmp[u]
    BY <1>0, <1>3 DEF WorkStep, ParseDone, SendDoneFree, SendDoneUnlock, Finish, RecvPostStep, RecvPostUse,
       RecvPostRef, RecvPostRecv, RecvPostFail, RecvPostUndo, RecvPostCancel, SendPostStep, SendPostRef,
       SendPostUse, SendPostLock, SendPostSize, SendPostUnlock, SendPostRecheck, SendPostFill,
       SendPostFillTo, SendPostSend, SendPostFail, SendPostCancel, SendPostUndo, Goto
  <2>3. op'[t] # "leave" /\ \A u \in Threads \ {t} : op'[u] = op[u] /\ arg'[u] = arg[u]
    <3>1. CASE Finish(t)
      BY <1>0, <3>1 DEF Finish, Call, Runs
    <3>2. CASE ~Finish(t)
      BY <1>0, <1>3, <2>1, <3>2 DEF WorkStep, ParseDone, SendDoneFree, SendDoneUnlock, RecvPostStep, RecvPostUse,
         RecvPostRef, RecvPostRecv, RecvPostFail, RecvPostUndo, RecvPostCancel, SendPostStep, SendPostRef,
         SendPostUse, SendPostLock, SendPostSize, SendPostUnlock, SendPostRecheck, SendPostFill,
         SendPostFillTo, SendPostSend, SendPostFail, SendPostCancel, SendPostUndo, Goto
    <3> QED BY <3>1, <3>2
  <2> QED BY <1>1, <2>1, <2>2, <2>3 DEF OpenerKeeps
<1>4. ASSUME NEW t \in Workers, GqcsStep(t) \/ OnRecv(t) \/ ParseFail(t) \/ WorkerQuit(t) PROVE AnnounceInv'
  <2>1. t \notin Openers /\ t \in Threads
    BY <1>0, ThreadAssumption
  <2>2. /\ UNCHANGED <<joined, left, SessionID, SessionIDCnt, ReleaseFlag, tmp>> /\ op[t] = "none"
        /\ \A u \in Threads \ {t} : pc'[u] = pc[u] /\ at'[u] = at[u]
    BY <1>0, <1>4 DEF GqcsStep, GqcsServes, GqcsRecv, GqcsSend, GqcsWake, GqcsFailed, Gqcs, OnRecv, ParseFail,
       WorkerQuit, Runs, Goto, idVars, histVars
  <2>3. op'[t] # "leave" /\ \A u \in Threads \ {t} : op'[u] = op[u] /\ arg'[u] = arg[u]
    <3>1. CASE OnRecv(t)
      BY <1>0, <2>1, <2>2, <3>1, CallbackBegins DEF OnRecv, Callback
    <3>2. CASE ~OnRecv(t)
      BY <1>0, <1>4, <2>1, <2>2, <3>2 DEF GqcsStep, GqcsServes, GqcsRecv, GqcsSend, GqcsWake, GqcsFailed, Gqcs,
         ParseFail, Call, WorkerQuit, Goto
    <3> QED BY <3>1, <3>2
  <2> QED BY <1>1, <2>1, <2>2, <2>3
<1>5. ASSUME NEW t \in Callers, CallerCalls(t) \/ (t \in Stoppers /\ StopKill(t)) PROVE AnnounceInv'
  <2>1. /\ UNCHANGED <<joined, left, SessionID, SessionIDCnt, ReleaseFlag, pc, at, tmp>> /\ op[t] = "none"
    BY <1>5 DEF CallerCalls, StopKill, StopAt, idVars, histVars
  <2>2. op'[t] # "leave" /\ \A u \in Threads \ {t} : op'[u] = op[u] /\ arg'[u] = arg[u]
    <3>1. CASE CallerCalls(t)
      BY <1>0, <2>1, <3>1, CallbackBegins DEF CallerCalls
    <3>2. CASE StopKill(t)
      BY <1>0, <3>2 DEF StopKill, Call
    <3> QED BY <1>5, <3>1, <3>2
  <2> QED BY <1>0, <1>1, <2>1, <2>2 DEF OpenerKeeps
<1>6. ASSUME UNCHANGED <<joined, left, SessionID, SessionIDCnt, ReleaseFlag, pc, at, tmp, op, arg>> PROVE AnnounceInv'
  BY <1>6, QuietAnnounce DEF OpenerKeeps, Target, FindSession
<1>7. ASSUME NEW s \in Slots, KernelStep(s) PROVE AnnounceInv'
  BY <1>6, <1>7 DEF KernelStep, DataArrives, RecvBreaks, SendCompletes, SendBreaks, Complete, PeerGone,
     idVars, thrVars, histVars
<1>8. ASSUME UNCHANGED sesVars PROVE AnnounceInv'
  BY <1>6, <1>8 DEF sesVars, idVars, thrVars, histVars
<1>9. ASSUME NEW t \in Openers, AcceptStep(t) PROVE AnnounceInv'
  <2>1. /\ UNCHANGED <<joined, left, SessionID, SessionIDCnt, ReleaseFlag, at, tmp, op, arg>> /\ op[t] = "none"
        /\ pc[t] \in {"opened", "accept"} /\ \A u \in Threads \ {t} : pc'[u] = pc[u]
        /\ pc'[t] \in {"opened", "accept", "exited"} \/ (pc'[t] = "pop" /\ SessionIDCnt < MaxID)
    BY <1>0, <1>9 DEF AcceptStep, AcceptLoop, AcceptClient, AcceptRefused, AcceptClosed, Runs, Goto, idVars, histVars
  <2>2. OpenerKeeps(t)
    BY <2>1 DEF OpenerKeeps
  <2> QED BY <1>0, <1>1, <2>1, <2>2
<1>10. CASE SessionStep
  BY <1>0, <1>2, <1>3, <1>4, <1>5, <1>7, <1>10, OpenAnnounce DEF SessionStep
<1>11. ASSUME NEW t \in Stoppers, StopStep(t) PROVE AnnounceInv'
  <2>1. CASE ~StopKill(t)
    BY <1>8, <1>11, <2>1 DEF StopStep, StopCall, StopScan, StopDrained, StopTimeout, StopClose,
       StopJoinAccept, StopJoinWorkers
  <2> QED BY <1>5, <1>11, <2>1, StopperAssumption
<1> QED BY <1>4, <1>8, <1>9, <1>10, <1>11 DEF Next, vars

\* Nothing is announced at the start, and every step keeps AnnounceInv.
THEOREM AnnounceInvariant == Spec => []AnnounceInv
<1>1. Init => AnnounceInv
  <2> SUFFICES ASSUME Init PROVE AnnounceInv
    OBVIOUS
  <2>1. /\ SessionIDCnt = 0 /\ joined = {} /\ left = {} /\ MaxID \in Nat
        /\ \A t \in Openers : pc[t] = "opened"
        /\ \A s \in Slots : ~Stands(s)
    BY BoundAssumption DEF Init, SesInit, Stands, Threads
  <2> QED BY <2>1 DEF AnnounceInv, Opening
<1>2. TypeOK /\ TypeOK' /\ SesInv /\ AnnounceInv /\ [Next]_vars => AnnounceInv'
  BY ServerStepAnnounce
<1> QED BY <1>1, <1>2, TypeCorrect, SlotsInvariant, PTL DEF Spec

\* The sessions an OnRecv is running for.
Reading == {IdOf(at[t]) : t \in {u \in Workers : pc[u] = "parse"}}

\* A thread that handles received data is the session's only one, and nothing
\* received waits in the port meanwhile.
LEMMA ReceiverAlone ==
  ASSUME SesTypeOK, SerialRecv, NEW s \in Slots, NEW t \in Threads, HasRecv(t, s)
  PROVE  io[s]["recvOk"] = 0 /\ \A u \in Threads : HasRecv(u, s) => u = t
<1>1. /\ io[s] \in [IoKind -> Nat] /\ {"recvPend", "recvOk", "recvErr"} \subseteq IoKind
      /\ RecvIo(io[s]) \in Nat /\ RecvIo(io[s]) + Cardinality(RecvHolders(s)) <= 1
  BY TrafficType, SerialNamed DEF SesTypeOK, IoKind
<1>2. IsFiniteSet(RecvHolders(s)) /\ Cardinality(RecvHolders(s)) \in Nat /\ t \in RecvHolders(s)
  BY TrafficFinite DEF RecvHolders, HasRecv
<1>3. IsFiniteSet(RecvHolders(s) \ {t}) /\ Cardinality(RecvHolders(s) \ {t}) = Cardinality(RecvHolders(s)) - 1
  BY <1>2, FS_RemoveElement
<1>4. Cardinality(RecvHolders(s) \ {t}) \in Nat
  BY <1>3, FS_CardinalityType
<1>5. RecvIo(io[s]) = 0 /\ Cardinality(RecvHolders(s) \ {t}) = 0
  BY <1>1, <1>2, <1>3, <1>4
<1>6. RecvHolders(s) \ {t} = {}
  BY <1>3, <1>5, FS_EmptySet
<1>7. io[s]["recvOk"] = 0
  BY <1>1, <1>5 DEF RecvIo
<1> QED BY <1>6, <1>7 DEF RecvHolders, HasRecv

\* What a worker between its completion and RecvPost works on.
LEMMA ReadingFacts ==
  ASSUME SesInv, NEW u \in Workers, pc[u] = "parse"
  PROVE  u \in Threads /\ at[u] \in Slots /\ ~ReleaseFlag[at[u]] /\ HasRecv(u, at[u])
<1>1. u \in Threads
  BY DEF Threads
<1> QED BY <1>1, WorkedOn, PointFacts DEF HasRecv, RecvPC

\* The end of an OnRecv.
LEMMA RecvEnds ==
  ASSUME SesInv, AnnounceInv, SerialRecv, NEW t \in Workers, pc[t] = "parse", pc'[t] # "parse",
         UNCHANGED <<joined, left, SessionID, at>>,
         \A u \in Threads \ {t} : pc'[u] = pc[u]
  PROVE  Callbacks!Next
<1>0. SesTypeOK /\ Workers \subseteq Threads
  BY DEF SesInv, Threads
<1>1. /\ t \in Threads /\ at[t] \in Slots /\ ~ReleaseFlag[at[t]] /\ HasRecv(t, at[t])
  BY ReadingFacts
<1>2. \A u \in Workers : pc[u] = "parse" /\ at[u] = at[t] => u = t
  BY <1>0, <1>1, ReceiverAlone, ReadingFacts
<1>3. Reading' = Reading \ {IdOf(at[t])}
  <2>1. Reading' = {IdOf(at[u]) : u \in {v \in Workers : v # t /\ pc[v] = "parse"}}
    BY <1>0 DEF Reading, IdOf
  <2>2. \A u \in Workers : pc[u] = "parse" /\ u # t => IdOf(at[u]) # IdOf(at[t])
    BY <1>2 DEF IdOf
  <2> QED BY <2>1, <2>2 DEF Reading
<1>4. IdOf(at[t]) \in Reading
  BY DEF Reading
<1>5. ~Announcing(at[t])
  <2>1. ASSUME NEW u \in Openers, pc[u] = "join", at[u] = at[t] PROVE FALSE
    <3>1. u \in Threads /\ HasRecv(u, at[t]) /\ u # t
      BY <2>1 DEF HasRecv, RecvPC, Threads
    <3> QED BY <1>0, <1>1, <3>1, ReceiverAlone
  <2> QED BY <2>1 DEF Announcing
<1>6. IdOf(at[t]) \in joined
  BY <1>1, <1>5 DEF AnnounceInv, Stands
<1>7. PICK id \in joined : id = IdOf(at[t])
  BY <1>6
<1>8. Callbacks!RecvEnd(id)
  BY <1>3, <1>4, <1>7 DEF Callbacks!RecvEnd, Reading
<1> QED BY <1>7, <1>8 DEF Callbacks!Next

\* The begin of an OnRecv.
LEMMA RecvBegins ==
  ASSUME SesInv, AnnounceInv, SerialRecv, NEW t \in Workers, NEW s \in Slots, GqcsRecv(t, s)
  PROVE  Callbacks!Next
<1>0. /\ SesTypeOK /\ t \in Threads /\ Workers \subseteq Threads
      /\ pc \in [Threads -> PC] /\ at \in [Threads -> Slots]
  BY DEF SesInv, Threads, SesTypeOK, ThrTypeOK
<1>1. /\ io[s]["recvOk"] > 0 /\ UNCHANGED <<joined, left, SessionID>>
      /\ pc[t] = "gqcs" /\ pc'[t] = "parse" /\ at'[t] = s
      /\ \A u \in Threads \ {t} : pc'[u] = pc[u] /\ at'[u] = at[u]
  BY <1>0 DEF GqcsRecv, Gqcs, Runs, idVars, histVars
<1>2. \A u \in Threads : ~HasRecv(u, s)
  BY <1>0, <1>1, ReceiverAlone
<1>3. ~ReleaseFlag[s]
  <2>1. io[s] \in [IoKind -> Nat] /\ {"recvPend", "recvOk", "recvErr"} \subseteq IoKind
    BY <1>0 DEF SesTypeOK, NetTypeOK, IoKind
  <2>2. RecvIo(io[s]) > 0
    BY <1>1, <2>1 DEF RecvIo
  <2> QED BY <2>2, ReleasedIdle
<1>4. ~Announcing(s)
  BY <1>2 DEF Announcing, HasRecv, RecvPC, Threads
<1>5. IdOf(s) \in joined \ left
  BY <1>3, <1>4 DEF AnnounceInv, Stands
<1>6. IdOf(s) \notin Reading
  <2>1. \A u \in Workers : pc[u] = "parse" => at[u] # s
    BY <1>0, <1>2 DEF HasRecv, RecvPC
  <2> QED BY <2>1 DEF Reading, IdOf
<1>7. Reading' = Reading \cup {IdOf(s)}
  <2>1. {v \in Workers : pc'[v] = "parse"} = {v \in Workers : pc[v] = "parse"} \cup {t}
    BY <1>0, <1>1
  <2>2. \A u \in Workers : pc[u] = "parse" => u # t /\ IdOf(at[u])' = IdOf(at[u])
    BY <1>0, <1>1 DEF IdOf
  <2>3. IdOf(at[t])' = IdOf(s)
    BY <1>1 DEF IdOf
  <2> QED BY <2>1, <2>2, <2>3 DEF Reading
<1>8. PICK id \in joined : id = IdOf(s)
  BY <1>5
<1>9. Callbacks!RecvBegin(id)
  BY <1>1, <1>5, <1>6, <1>7, <1>8 DEF Callbacks!RecvBegin, Reading
<1> QED BY <1>8, <1>9 DEF Callbacks!Next

\* A step in which no OnRecv begins or ends and no ID under an OnRecv changes.
LEMMA ReadingKept ==
  ASSUME SesInv, NEW s \in Slots,
         \/ SessionID' = SessionID
         \/ ReleaseFlag[s] /\ \A r \in Slots \ {s} : SessionID'[r] = SessionID[r],
         \A u \in Workers : /\ pc'[u] = "parse" <=> pc[u] = "parse"
                            /\ pc[u] = "parse" => at'[u] = at[u]
  PROVE  Reading' = Reading
<1>1. \A u \in Workers : pc[u] = "parse" => SessionID'[at[u]] = SessionID[at[u]]
  BY ReadingFacts
<1> QED BY <1>1 DEF Reading, IdOf

\* The release of a session: OnClientLeave is its Leave, the rest is silent.
LEMMA LeaveCallback ==
  ASSUME SesInv, AnnounceInv, NEW t \in Threads, OnClientLeave(t) \/ ReleaseSession(t)
  PROVE  [Callbacks!Next]_(Callbacks!callbackVars)
<1> DEFINE s == Target(t)
<1>0. /\ s \in Slots /\ op[t] \in {"leave", "release"} /\ pc' = pc /\ at' = at /\ joined' = joined
      /\ SessionID \in [Slots -> Nat]
  BY DEF SesInv, SesTypeOK, ThrTypeOK, IdTypeOK, Target, FindSession, OnClientLeave, ReleaseSession,
     InCall, CallGoto, histVars
<1>1. ReleaseFlag[s]
  <2>1. Releases(t, s)
    BY <1>0 DEF Releases, ReleaseOp
  <2> QED BY <1>0, <2>1 DEF SesInv, OneOwner
<1>2. \A r \in Slots \ {s} : SessionID'[r] = SessionID[r]
  BY <1>0 DEF OnClientLeave, ReleaseSession, idVars
<1>3. Reading' = Reading
  BY ONLY <1>0, <1>1, <1>2, SesInv, ReadingKept
<1>4. CASE ReleaseSession(t)
  BY <1>0, <1>3, <1>4 DEF ReleaseSession, histVars, Callbacks!callbackVars, Reading
<1>5. CASE OnClientLeave(t)
  <2>1. op[t] = "leave" /\ left' = left \cup {IdOf(s)}
    BY <1>5 DEF OnClientLeave, InCall
  <2>2. IdOf(s) \in joined \ left
    BY <1>0, <2>1 DEF AnnounceInv, Stands
  <2>3. IdOf(s) \notin Reading
    BY <1>1, ReadingFacts DEF Reading, IdOf
  <2>4. PICK id \in joined : id = IdOf(s)
    BY <2>2
  <2>5. Callbacks!Leave(id)
    BY <1>0, <1>3, <2>1, <2>2, <2>3, <2>4 DEF Callbacks!Leave, Reading
  <2> QED BY <2>4, <2>5 DEF Callbacks!Next
<1> QED BY <1>4, <1>5

\* The opening of a session: OnClientJoin is its Join, the rest is silent.
LEMMA JoinCallback ==
  ASSUME SesInv, AnnounceInv, LeaveInv, NEW t \in Openers, OpenStep(t) \/ PopNothing(t)
  PROVE  [Callbacks!Next]_(Callbacks!callbackVars)
<1> DEFINE s == at[t]
<1>0. /\ t \in Threads /\ s \in Slots /\ t \notin Workers /\ Workers \subseteq Threads
      /\ pc \in [Threads -> PC] /\ at \in [Threads -> Slots] /\ SessionID \in [Slots -> Nat]
      /\ joined \subseteq Slots \X Nat /\ SessionIDCnt \in Nat
  BY ThreadAssumption DEF SesInv, SesTypeOK, ThrTypeOK, IdTypeOK, HistTypeOK, Threads
<1>1. /\ left' = left
      /\ \A u \in Threads \ {t} : pc'[u] = pc[u] /\ at'[u] = at[u]
      /\ \/ SessionID' = SessionID
         \/ ReleaseFlag[s] /\ \A r \in Slots \ {s} : SessionID'[r] = SessionID[r]
  <2>1. CASE InitSession(t)
    <3>1. Opens(t, s)
      BY <2>1, PointFacts DEF InitSession, Runs, Opens
    <3>2. ReleaseFlag[s]
      BY <1>0, <3>1 DEF SesInv, OneOwner
    <3> QED BY <1>0, <2>1, <3>2 DEF InitSession, histVars
  <2>2. CASE ~InitSession(t)
    BY <1>0, <2>2 DEF OpenStep, PopSession, GenerateSessionID, InitSessionRef, InitSessionPublish,
       OnClientJoin, PopNothing, Goto, idVars, histVars
  <2> QED BY <2>1, <2>2
<1>2. Reading' = Reading
  <2>1. \A u \in Workers : pc'[u] = pc[u] /\ at'[u] = at[u]
    BY <1>0, <1>1
  <2> QED BY ONLY <1>0, <1>1, <2>1, SesInv, ReadingKept
<1>3. CASE ~OnClientJoin(t)
  <2>1. joined' = joined
    BY <1>3 DEF OpenStep, PopSession, GenerateSessionID, InitSession, InitSessionRef, InitSessionPublish,
       PopNothing, histVars
  <2> QED BY <1>1, <1>2, <2>1 DEF Callbacks!callbackVars, Reading
<1>4. CASE OnClientJoin(t)
  <2>1. pc[t] = "join" /\ joined' = joined \cup {IdOf(s)}
    BY <1>4 DEF OnClientJoin, Runs
  <2>2. SessionID[s] = SessionIDCnt /\ SessionIDCnt > 0 /\ \A id \in joined : id[2] < SessionIDCnt
    BY <2>1 DEF AnnounceInv, Opening
  <2>3. \A other \in joined : other[2] < SessionID[s]
    BY <2>2
  <2>4. \A other \in joined \ left : other[1] # s
    BY <1>0, <2>3 DEF LeaveInv, LeaveDue, FindSession
  <2>5. SessionID[s] \in 1 .. MaxID
    BY <1>0, <2>2, BoundAssumption DEF AnnounceInv
  <2>6. PICK id \in Slots \X (1 .. MaxID) : id = IdOf(s)
    BY <1>0, <2>5 DEF IdOf
  <2>7. id[1] = s /\ id[2] = SessionID[s]
    BY <2>6 DEF IdOf
  <2>8. Callbacks!Join(id)
    BY <1>1, <1>2, <2>1, <2>3, <2>4, <2>6, <2>7 DEF Callbacks!Join, Reading
  <2> QED BY <2>6, <2>8 DEF Callbacks!Next
<1> QED BY <1>3, <1>4

\* Every step of the server is a step of SessionCallbacks or none.
LEMMA ServerStepCallbacks ==
  ASSUME TypeOK, SesInv, SerialRecv, LeaveInv, AnnounceInv, [Next]_vars
  PROVE  [Callbacks!Next]_(Callbacks!callbackVars)
<1>0. /\ SesTypeOK /\ Stoppers \subseteq Threads /\ Openers \subseteq Threads
      /\ Workers \subseteq Threads /\ Callers \subseteq Threads
      /\ 0 \in Slots /\ pc \in [Threads -> PC] /\ at \in [Threads -> Slots]
  BY StopperAssumption, ZeroSlot DEF TypeOK, Threads, SesTypeOK, ThrTypeOK
<1>1. ASSUME UNCHANGED <<joined, left, SessionID>>,
             \A u \in Workers : /\ pc'[u] = "parse" <=> pc[u] = "parse"
                                /\ pc[u] = "parse" => at'[u] = at[u]
      PROVE  [Callbacks!Next]_(Callbacks!callbackVars)
  <2>1. Reading' = Reading
    BY ONLY <1>0, <1>1, SesInv, ReadingKept
  <2> QED BY <1>1, <2>1 DEF Callbacks!callbackVars, Reading
<1>2. ASSUME NEW t \in Threads, CallStep(t) PROVE [Callbacks!Next]_(Callbacks!callbackVars)
  <2>1. CASE OnClientLeave(t) \/ ReleaseSession(t)
    BY <2>1, LeaveCallback
  <2>2. CASE ~(OnClientLeave(t) \/ ReleaseSession(t))
    <3>1. UNCHANGED <<joined, left, SessionID, pc, at>>
      BY <1>2, <2>2 DEF CallStep, SendPacketRef, SendPacketCheck, SendPacketEnqueue, SendPacketPost,
         SendPacketUndo, KillSessionRef, KillSessionCheck, KillSessionUse, KillSessionCancel,
         KillSessionDec, KillSessionUndo, DisconnectCas, DisconnectTo, ReleasePush, CallGoto, idVars, histVars
    <3> QED BY <1>1, <3>1
  <2> QED BY <2>1, <2>2
<1>3. ASSUME NEW t \in Workers, ParseDone(t) \/ ParseFail(t) PROVE [Callbacks!Next]_(Callbacks!callbackVars)
  <2>1. /\ pc[t] = "parse" /\ pc'[t] # "parse" /\ UNCHANGED <<joined, left, SessionID, at>>
        /\ \A u \in Threads \ {t} : pc'[u] = pc[u]
    BY <1>0, <1>3 DEF ParseDone, ParseFail, Runs, Goto, idVars, histVars
  <2> QED BY <1>3, <2>1, RecvEnds
<1>4. ASSUME NEW t \in Threads, WorkStep(t) PROVE [Callbacks!Next]_(Callbacks!callbackVars)
  <2>1. CASE ParseDone(t)
    <3>1. CASE t \in Workers
      BY <1>3, <2>1, <3>1
    <3>2. CASE t \notin Workers
      <4>1. UNCHANGED <<joined, left, SessionID, at>> /\ \A u \in Workers : pc'[u] = pc[u]
        BY <1>0, <2>1, <3>2 DEF ParseDone, Goto, idVars, histVars
      <4> QED BY <1>1, <4>1
    <3> QED BY <3>1, <3>2
  <2>2. CASE ~ParseDone(t)
    <3>1. /\ UNCHANGED <<joined, left, SessionID>> /\ pc[t] # "parse" /\ pc'[t] # "parse"
      BY <1>0, <1>4, <2>2 DEF WorkStep, SendDoneFree, SendDoneUnlock, Finish, Home, RecvPostStep, RecvPostUse,
         RecvPostRef, RecvPostRecv, RecvPostFail, RecvPostUndo, RecvPostCancel, SendPostStep, SendPostRef,
         SendPostUse, SendPostLock, SendPostSize, SendPostUnlock, SendPostRecheck, SendPostFill,
         SendPostFillTo, SendPostSend, SendPostFail, SendPostCancel, SendPostUndo, Goto, Runs, idVars, histVars
    <3>2. \A u \in Threads \ {t} : pc'[u] = pc[u] /\ at'[u] = at[u]
      BY <1>0, <1>4, <2>2 DEF WorkStep, SendDoneFree, SendDoneUnlock, Finish, RecvPostStep, RecvPostUse,
         RecvPostRef, RecvPostRecv, RecvPostFail, RecvPostUndo, RecvPostCancel, SendPostStep, SendPostRef,
         SendPostUse, SendPostLock, SendPostSize, SendPostUnlock, SendPostRecheck, SendPostFill,
         SendPostFillTo, SendPostSend, SendPostFail, SendPostCancel, SendPostUndo, Goto
    <3> QED BY <1>0, <1>1, <3>1, <3>2
  <2> QED BY <2>1, <2>2
<1>5. ASSUME NEW t \in Workers, GqcsStep(t) PROVE [Callbacks!Next]_(Callbacks!callbackVars)
  <2>1. PICK s \in Slots : GqcsServes(t, s)
    BY <1>5 DEF GqcsStep
  <2>2. CASE GqcsRecv(t, s)
    <3>1. Callbacks!Next
      BY <2>2, RecvBegins
    <3> QED BY <3>1
  <2>3. CASE ~GqcsRecv(t, s)
    <3>1. /\ UNCHANGED <<joined, left, SessionID>> /\ pc[t] # "parse" /\ pc'[t] # "parse"
          /\ \A u \in Threads \ {t} : pc'[u] = pc[u] /\ at'[u] = at[u]
      BY <1>0, <2>1, <2>3 DEF GqcsServes, GqcsSend, GqcsWake, GqcsFailed, Gqcs, Runs, idVars, histVars
    <3> QED BY <1>0, <1>1, <3>1
  <2> QED BY <2>2, <2>3
<1>6. ASSUME NEW t \in Threads, OnRecv(t) \/ CallerCalls(t) \/ StopKill(t)
      PROVE  [Callbacks!Next]_(Callbacks!callbackVars)
  BY <1>1, <1>6 DEF OnRecv, CallerCalls, StopKill, idVars, histVars
<1>7. ASSUME NEW s \in Slots, KernelStep(s) PROVE [Callbacks!Next]_(Callbacks!callbackVars)
  BY <1>1, <1>7 DEF KernelStep, DataArrives, RecvBreaks, SendCompletes, SendBreaks, Complete, PeerGone,
     idVars, thrVars, histVars
<1>8. ASSUME UNCHANGED sesVars PROVE [Callbacks!Next]_(Callbacks!callbackVars)
  BY <1>1, <1>8 DEF sesVars, idVars, thrVars, histVars
<1>9. ASSUME NEW t \in Threads, AcceptStep(t) \/ WorkerQuit(t) PROVE [Callbacks!Next]_(Callbacks!callbackVars)
  <2>1. /\ UNCHANGED <<joined, left, SessionID, at>> /\ pc[t] # "parse" /\ pc'[t] # "parse"
        /\ \A u \in Threads \ {t} : pc'[u] = pc[u]
    BY <1>0, <1>9 DEF AcceptStep, AcceptLoop, AcceptClient, AcceptRefused, AcceptClosed, WorkerQuit,
       Runs, Goto, idVars, histVars
  <2> QED BY <1>0, <1>1, <2>1
<1>10. CASE SessionStep
  BY <1>0, <1>2, <1>3, <1>4, <1>5, <1>6, <1>7, <1>10, JoinCallback DEF SessionStep
<1>11. ASSUME NEW t \in Stoppers, StopStep(t) PROVE [Callbacks!Next]_(Callbacks!callbackVars)
  <2>1. CASE ~StopKill(t)
    BY <1>8, <1>11, <2>1 DEF StopStep, StopCall, StopScan, StopDrained, StopTimeout, StopClose,
       StopJoinAccept, StopJoinWorkers
  <2> QED BY <1>0, <1>6, <1>11, <2>1
<1> QED BY <1>0, <1>8, <1>9, <1>10, <1>11 DEF Next, vars

\* The server implements SessionCallbacks: each ID is announced once, above all
\* before it and while no open session holds its slot; OnRecv runs for open
\* sessions only, one at a time for each; OnClientLeave comes once and never
\* during an OnRecv of that session.
THEOREM CallbacksImplemented == Spec => ImplementsCallbacks
<1>1. Init => Callbacks!Init
  <2> SUFFICES ASSUME Init PROVE Callbacks!Init
    OBVIOUS
  <2>1. joined = {} /\ left = {} /\ \A t \in Workers : pc[t] # "parse"
    BY ThreadAssumption DEF Init, SesInit, Threads
  <2> QED BY <2>1 DEF Callbacks!Init
<1>2. TypeOK /\ SesInv /\ TrafficInv /\ AnnounceInv /\ [Next]_vars
        => [Callbacks!Next]_(Callbacks!callbackVars)
  BY ServerStepCallbacks DEF TrafficInv
<1> QED
  BY <1>1, <1>2, TypeCorrect, SlotsInvariant, TrafficInvariant, AnnounceInvariant, PTL
  DEF Spec, ImplementsCallbacks, Callbacks!Spec

-----------------------------------------------------------------------------
(* NoLostRelease, where calls name open sessions only.  A callback's call  *)
(* for its own session always passes the guard, since the thread's own     *)
(* reference keeps the session; so nobody comes to the decrement that is   *)
(* not looked at.                                                          *)
CheckedOp == {"send", "sendCheck", "kill", "killCheck"}

OwnCall(t) ==
  /\ op[t] \in CheckedOp => pc[t] \in WorkingPC /\ arg[t] = IdOf(at[t])
  /\ op[t] \notin {"sendUndo", "killUndo"}

OwnCalls == \A t \in Threads : OwnCall(t)

\* What RefCntExact says of the sign of a count.
Counted ==
  \A s \in Slots :
    /\ RefCnt[s] \in Nat
    /\ (\E t \in Threads : pc[t] \in BasePC /\ at[t] = s) => RefCnt[s] > 0

\* A thread that works on a session is one of the holders its count counts.
LEMMA SesInvCounted == SesInv => Counted
<1> SUFFICES ASSUME SesInv, NEW s \in Slots
             PROVE  /\ RefCnt[s] \in Nat
                    /\ (\E t \in Threads : pc[t] \in BasePC /\ at[t] = s) => RefCnt[s] > 0
  BY DEF Counted
<1>1. /\ Cardinality(BaseHolders(s)) \in Nat /\ Cardinality(PostHolders(s)) \in Nat
      /\ Cardinality(CallHolders(s)) \in Nat /\ IsFiniteSet(BaseHolders(s))
  BY ThreadAssumption, FS_Subset, FS_CardinalityType DEF BaseHolders, PostHolders, CallHolders
<1>2. IoRefs(io[s]) \in Nat
  BY CountingFacts DEF SesInv
<1>3. RefCnt[s] = Cardinality(BaseHolders(s)) + Cardinality(PostHolders(s)) + Cardinality(CallHolders(s)) + IoRefs(io[s])
  BY DEF SesInv, RefCntExact
<1>4. ASSUME NEW t \in Threads, pc[t] \in BasePC /\ at[t] = s PROVE Cardinality(BaseHolders(s)) # 0
  <2>1. BaseHolders(s) # {}
    BY <1>4 DEF BaseHolders
  <2> QED BY <1>1, <2>1, FS_EmptySet
<1> QED BY <1>1, <1>2, <1>3, <1>4

\* A step of one thread that leaves the calls of the others alone.
LEMMA OwnCallsKept ==
  ASSUME SesInv, OwnCalls, NEW t \in Threads, NEW s \in Slots,
         \/ SessionID' = SessionID
         \/ ReleaseFlag[s] /\ \A r \in Slots \ {s} : SessionID'[r] = SessionID[r],
         \A u \in Threads \ {t} : pc'[u] = pc[u] /\ at'[u] = at[u] /\ op'[u] = op[u] /\ arg'[u] = arg[u],
         OwnCall(t)'
  PROVE  OwnCalls'
<1>1. ASSUME NEW u \in Threads \ {t} PROVE OwnCall(u)'
  <2>1. pc[u] \in WorkingPC => at[u] \in Slots /\ ~ReleaseFlag[at[u]]
    BY WorkedOn
  <2>2. pc[u] \in WorkingPC => SessionID'[at[u]] = SessionID[at[u]]
    BY <2>1
  <2>3. OwnCall(u)
    BY DEF OwnCalls
  <2> QED BY <2>2, <2>3 DEF OwnCall, IdOf
<1> QED BY <1>1 DEF OwnCalls

\* A step that brings no count to zero but before its own DisconnectSession.
LEMMA NoLostKept ==
  ASSUME NoLostRelease, NEW t \in Threads, op[t] # "cas",
         \A u \in Threads \ {t} : op'[u] = op[u] /\ arg'[u] = arg[u],
         \A s \in Slots : ~ReleaseFlag'[s] /\ RefCnt'[s] = 0 =>
           \/ ~ReleaseFlag[s] /\ RefCnt[s] = 0
           \/ op'[t] = "cas" /\ Target(t)' = s
  PROVE  NoLostRelease'
<1> SUFFICES ASSUME NEW s \in Slots, ~ReleaseFlag'[s], RefCnt'[s] = 0
             PROVE  \E u \in Threads : op'[u] = "cas" /\ Target(u)' = s
  BY DEF NoLostRelease
<1>1. CASE op'[t] = "cas" /\ Target(t)' = s
  BY <1>1
<1>2. CASE ~ReleaseFlag[s] /\ RefCnt[s] = 0
  <2>1. PICK u \in Threads : op[u] = "cas" /\ Target(u) = s
    BY <1>2 DEF NoLostRelease
  <2> QED BY <2>1 DEF Target, FindSession
<1> QED BY <1>1, <1>2

\* What is under way inside SendPacket, KillSession or DisconnectSession.
LEMMA CallNoLost ==
  ASSUME SesInv, Counted, OwnCalls, NoLostRelease, NEW t \in Threads, CallStep(t)
  PROVE  OwnCalls' /\ NoLostRelease'
<1> DEFINE s == Target(t)
<1>0. /\ SesTypeOK /\ s \in Slots /\ op \in [Threads -> Op] /\ arg \in [Threads -> Slots \X Nat]
      /\ RefCnt \in [Slots -> Nat] /\ ReleaseFlag \in [Slots -> BOOLEAN] /\ SessionID \in [Slots -> Nat]
      /\ OwnCall(t)
  BY DEF SesInv, SesTypeOK, ThrTypeOK, IdTypeOK, Target, FindSession, Counted, OwnCalls
<1>1. /\ UNCHANGED <<pc, at>>
      /\ \A u \in Threads \ {t} : op'[u] = op[u] /\ arg'[u] = arg[u]
  BY <1>0 DEF CallStep, SendPacketRef, SendPacketCheck, SendPacketEnqueue, SendPacketPost, SendPacketUndo,
     KillSessionRef, KillSessionCheck, KillSessionUse, KillSessionCancel, KillSessionDec, KillSessionUndo,
     DisconnectCas, DisconnectTo, OnClientLeave, ReleaseSession, ReleasePush, CallGoto
<1>2. CASE SendPacketRef(t) \/ KillSessionRef(t)
  <2>1. /\ op[t] \in {"send", "kill"} /\ op'[t] \in {"sendCheck", "killCheck"} /\ arg'[t] = arg[t]
        /\ UNCHANGED <<ReleaseFlag, SessionID>>
        /\ \A r \in Slots : RefCnt'[r] = IF r = s THEN RefCnt[r] + 1 ELSE RefCnt[r]
    BY <1>0, <1>2 DEF SendPacketRef, KillSessionRef, InCall, CallGoto, IncrementSessionRef, idVars
  <2>2. OwnCall(t)'
    BY <1>0, <1>1, <2>1 DEF OwnCall, CheckedOp, IdOf
  <2>3. NoLostRelease'
    BY <1>0, <1>1, <2>1, NoLostKept
  <2> QED BY <1>0, <1>1, <2>1, <2>2, <2>3, OwnCallsKept
<1>3. CASE SendPacketCheck(t) \/ KillSessionCheck(t)
  <2>1. op[t] \in CheckedOp /\ UNCHANGED <<ReleaseFlag, SessionID, RefCnt>>
    BY <1>3 DEF SendPacketCheck, KillSessionCheck, InCall, CheckedOp, idVars
  <2>2. pc[t] \in WorkingPC /\ arg[t] = <<at[t], SessionID[at[t]]>>
    BY <1>0, <2>1 DEF OwnCall, IdOf
  <2>3. GuardHolds(t)
    BY <2>2, WorkedOn DEF GuardHolds, Target, FindSession
  <2>4. op[t] # "cas" /\ op'[t] \in {"sendEnqueue", "killUse"}
    BY <1>0, <1>3, <2>3 DEF SendPacketCheck, KillSessionCheck, InCall, CallGoto
  <2>5. OwnCall(t)'
    BY <2>4 DEF OwnCall, CheckedOp
  <2>6. NoLostRelease'
    BY <1>0, <1>1, <2>1, <2>4, NoLostKept
  <2> QED BY <1>0, <1>1, <2>1, <2>5, <2>6, OwnCallsKept
<1>4. CASE SendPacketEnqueue(t) \/ SendPacketPost(t) \/ KillSessionUse(t) \/ KillSessionCancel(t)
             \/ OnClientLeave(t) \/ ReleasePush(t)
  <2>1. /\ UNCHANGED <<ReleaseFlag, SessionID, RefCnt>> /\ op[t] # "cas"
        /\ op'[t] \in {"sendPost", "none", "killCancel", "killDec", "release"}
    BY <1>0, <1>4 DEF SendPacketEnqueue, SendPacketPost, KillSessionUse, KillSessionCancel, OnClientLeave,
       ReleasePush, InCall, CallGoto, idVars
  <2>2. OwnCall(t)'
    BY <2>1 DEF OwnCall, CheckedOp
  <2>3. NoLostRelease'
    BY <1>0, <1>1, <2>1, NoLostKept
  <2> QED BY <1>0, <1>1, <2>1, <2>2, <2>3, OwnCallsKept
<1>5. CASE KillSessionDec(t)
  <2>1. /\ UNCHANGED <<ReleaseFlag, SessionID>> /\ op[t] = "killDec"
        /\ \A r \in Slots : RefCnt'[r] = IF r = s THEN RefCnt[r] - 1 ELSE RefCnt[r]
        /\ op'[t] = (IF RefCnt[s] = 1 THEN "cas" ELSE "none")
        /\ RefCnt[s] = 1 => arg'[t] = arg[t]
    BY <1>0, <1>5 DEF KillSessionDec, InCall, CallGoto, DecrementSessionRef, idVars
  <2>2. OwnCall(t)'
    BY <2>1 DEF OwnCall, CheckedOp
  <2>3. RefCnt[s] = 1 => Target(t)' = s
    BY <2>1 DEF Target, FindSession
  <2>4. ASSUME NEW r \in Slots, ~ReleaseFlag'[r], RefCnt'[r] = 0
        PROVE  (~ReleaseFlag[r] /\ RefCnt[r] = 0) \/ (op'[t] = "cas" /\ Target(t)' = r)
    BY <1>0, <2>1, <2>3, <2>4
  <2>5. NoLostRelease'
    BY <1>1, <2>1, <2>4, NoLostKept
  <2> QED BY <1>0, <1>1, <2>1, <2>2, <2>5, OwnCallsKept
<1>6. CASE SendPacketUndo(t) \/ KillSessionUndo(t)
  BY <1>0, <1>6 DEF SendPacketUndo, KillSessionUndo, InCall, OwnCall
<1>7. CASE DisconnectCas(t)
  <2>1. /\ UNCHANGED <<RefCnt, SessionID>> /\ op[t] = "cas" /\ op'[t] \in {"leave", "none"}
        /\ \A r \in Slots : ReleaseFlag'[r] = (ReleaseFlag[r] \/ (r = s /\ RefCnt[s] = 0))
    BY <1>0, <1>7 DEF DisconnectCas, DisconnectTo, Releasable, InCall, CallGoto
  <2>2. OwnCall(t)'
    BY <2>1 DEF OwnCall, CheckedOp
  <2>3. ASSUME NEW r \in Slots, ~ReleaseFlag'[r], RefCnt'[r] = 0
        PROVE  \E u \in Threads : op'[u] = "cas" /\ Target(u)' = r
    <3>1. ~ReleaseFlag[r] /\ RefCnt[r] = 0 /\ r # s
      BY <2>1, <2>3
    <3>2. PICK u \in Threads : op[u] = "cas" /\ Target(u) = r
      BY <3>1 DEF NoLostRelease
    <3> QED BY <1>1, <3>1, <3>2 DEF Target, FindSession
  <2>4. NoLostRelease'
    BY <2>3 DEF NoLostRelease
  <2> QED BY <1>0, <1>1, <2>1, <2>2, <2>4, OwnCallsKept
<1>8. CASE ReleaseSession(t)
  <2>1. /\ UNCHANGED <<ReleaseFlag, RefCnt>> /\ op[t] = "release" /\ op'[t] = "push"
        /\ \A r \in Slots \ {s} : SessionID'[r] = SessionID[r]
    BY <1>0, <1>8 DEF ReleaseSession, InCall, CallGoto
  <2>2. ReleaseFlag[s]
    <3>1. Releases(t, s)
      BY <2>1 DEF Releases, ReleaseOp
    <3> QED BY <1>0, <3>1 DEF SesInv, OneOwner
  <2>3. OwnCall(t)'
    BY <2>1 DEF OwnCall, CheckedOp
  <2>4. NoLostRelease'
    BY <1>0, <1>1, <2>1, NoLostKept
  <2> QED BY <1>0, <1>1, <2>1, <2>2, <2>3, <2>4, OwnCallsKept
<1> QED BY <1>2, <1>3, <1>4, <1>5, <1>6, <1>7, <1>8 DEF CallStep

\* What a thread does between its completion and the end of its loop.
LEMMA WorkNoLost ==
  ASSUME SesInv, Counted, Counted', OwnCalls, NoLostRelease, NEW t \in Threads, WorkStep(t)
  PROVE  OwnCalls' /\ NoLostRelease'
<1> DEFINE s == at[t]
<1>0. /\ s \in Slots /\ pc \in [Threads -> PC] /\ at \in [Threads -> Slots]
      /\ op \in [Threads -> Op] /\ arg \in [Threads -> Slots \X Nat]
      /\ RefCnt \in [Slots -> Nat] /\ SesTypeOK
  BY DEF SesInv, SesTypeOK, ThrTypeOK, Counted
<1>1. /\ op[t] = "none" /\ UNCHANGED <<ReleaseFlag, SessionID>>
      /\ \A u \in Threads \ {t} : pc'[u] = pc[u] /\ at'[u] = at[u] /\ op'[u] = op[u] /\ arg'[u] = arg[u]
  <2>1. CASE Finish(t)
    BY <1>0, <2>1 DEF Finish, Runs, Call, idVars
  <2>2. CASE ~Finish(t)
    BY <1>0, <2>2 DEF WorkStep, ParseDone, SendDoneFree, SendDoneUnlock, RecvPostStep, RecvPostUse,
       RecvPostRef, RecvPostRecv, RecvPostFail, RecvPostUndo, RecvPostCancel, SendPostStep, SendPostRef,
       SendPostUse, SendPostLock, SendPostSize, SendPostUnlock, SendPostRecheck, SendPostFill,
       SendPostFillTo, SendPostSend, SendPostFail, SendPostCancel, SendPostUndo, Goto, Runs, idVars
  <2> QED BY <2>1, <2>2
<1>2. CASE Finish(t)
  <2>1. /\ op'[t] = (IF RefCnt[s] = 1 THEN "cas" ELSE "none")
        /\ RefCnt[s] = 1 => arg'[t] = <<s, 0>>
        /\ \A r \in Slots : RefCnt'[r] = IF r = s THEN RefCnt[r] - 1 ELSE RefCnt[r]
    BY <1>0, <1>1, <1>2 DEF Finish, Runs, Call, DecrementSessionRef
  <2>2. OwnCall(t)'
    BY <2>1 DEF OwnCall, CheckedOp
  <2>3. RefCnt[s] = 1 => Target(t)' = s
    BY <2>1 DEF Target, FindSession
  <2>4. ASSUME NEW r \in Slots, ~ReleaseFlag'[r], RefCnt'[r] = 0
        PROVE  (~ReleaseFlag[r] /\ RefCnt[r] = 0) \/ (op'[t] = "cas" /\ Target(t)' = r)
    BY <1>0, <1>1, <2>1, <2>3, <2>4
  <2>5. NoLostRelease'
    BY <1>1, <2>4, NoLostKept
  <2> QED BY <1>0, <1>1, <2>2, <2>5, OwnCallsKept
<1>3. CASE ~Finish(t)
  <2>1. op'[t] = "none"
    BY <1>0, <1>1, <1>3 DEF WorkStep, ParseDone, SendDoneFree, SendDoneUnlock, RecvPostStep, RecvPostUse,
       RecvPostRef, RecvPostRecv, RecvPostFail, RecvPostUndo, RecvPostCancel, SendPostStep, SendPostRef,
       SendPostUse, SendPostLock, SendPostSize, SendPostUnlock, SendPostRecheck, SendPostFill,
       SendPostFillTo, SendPostSend, SendPostFail, SendPostCancel, SendPostUndo, Goto
  <2>2. OwnCall(t)'
    BY <2>1 DEF OwnCall, CheckedOp
  <2>3. ASSUME NEW r \in Slots, RefCnt'[r] = 0 PROVE RefCnt[r] = 0
    <3>1. CASE RecvPostUndo(t) \/ SendPostUndo(t)
      <4>1. pc'[t] = "final" /\ at'[t] = s
        BY <1>0, <3>1 DEF RecvPostUndo, SendPostUndo, Goto
      <4>2. RefCnt'[s] > 0
        BY <1>0, <4>1, PointFacts DEF Counted
      <4>3. r # s
        BY <2>3, <4>2
      <4> QED BY <1>0, <2>3, <3>1, <4>3 DEF RecvPostUndo, SendPostUndo, DecrementSessionRef
    <3>2. CASE RecvPostRef(t) \/ SendPostRef(t)
      BY <1>0, <2>3, <3>2 DEF RecvPostRef, SendPostRef, IncrementSessionRef
    <3>3. CASE ~(RecvPostUndo(t) \/ SendPostUndo(t) \/ RecvPostRef(t) \/ SendPostRef(t))
      <4>1. RefCnt' = RefCnt
        BY <1>3, <3>3 DEF WorkStep, ParseDone, SendDoneFree, SendDoneUnlock, RecvPostStep, RecvPostUse,
           RecvPostRecv, RecvPostFail, RecvPostCancel, SendPostStep, SendPostUse, SendPostLock, SendPostSize,
           SendPostUnlock, SendPostRecheck, SendPostFill, SendPostFillTo, SendPostSend, SendPostFail,
           SendPostCancel
      <4> QED BY <2>3, <4>1
    <3> QED BY <3>1, <3>2, <3>3
  <2>4. NoLostRelease'
    BY <1>1, <2>3, NoLostKept
  <2> QED BY <1>0, <1>1, <2>2, <2>4, OwnCallsKept
<1> QED BY <1>2, <1>3

\* What a callback that names open sessions only may call.
LEMMA OwnCallback ==
  ASSUME CallbackIDs # "any", SesTypeOK, OwnCalls, NEW t \in Threads, op[t] = "none",
         Callback(t, at[t]), at[t] \in Slots,
         SessionID' = SessionID, at'[t] = at[t], pc'[t] \in WorkingPC
  PROVE  OwnCall(t)' /\ op'[t] # "cas" /\ \A u \in Threads \ {t} : op'[u] = op[u] /\ arg'[u] = arg[u]
<1>0. /\ op \in [Threads -> Op] /\ arg \in [Threads -> Slots \X Nat]
      /\ \A id \in Reach(at[t]) : id = IdOf(at[t])
  BY BoundAssumption DEF SesTypeOK, ThrTypeOK, Reach
<1>1. CASE UNCHANGED <<op, arg>>
  BY <1>1 DEF OwnCall, CheckedOp
<1>2. CASE ~UNCHANGED <<op, arg>>
  <2>1. PICK id \in Reach(at[t]) : Call(t, "send", id) \/ Call(t, "kill", id)
    BY <1>2 DEF Callback, CallApi
  <2>2. op'[t] \in {"send", "kill"} /\ arg'[t] = IdOf(at[t])
    BY <1>0, <2>1 DEF Call
  <2>3. IdOf(at[t])' = IdOf(at[t])
    BY DEF IdOf
  <2>4. OwnCall(t)'
    BY <2>2, <2>3 DEF OwnCall
  <2> QED BY <1>0, <2>1, <2>2, <2>4 DEF Call
<1> QED BY <1>1, <1>2

\* The accept thread opening a session.
LEMMA OpenNoLost ==
  ASSUME CallbackIDs # "any", SesInv, Counted, Counted', OwnCalls, NoLostRelease,
         NEW t \in Openers, OpenStep(t) \/ PopNothing(t)
  PROVE  OwnCalls' /\ NoLostRelease'
<1> DEFINE s == at[t]
<1>0. /\ s \in Slots /\ t \in Threads /\ pc \in [Threads -> PC] /\ at \in [Threads -> Slots]
      /\ op \in [Threads -> Op] /\ arg \in [Threads -> Slots \X Nat]
      /\ RefCnt \in [Slots -> Nat] /\ SesTypeOK
      /\ SessionID \in [Slots -> Nat] /\ ReleaseFlag \in [Slots -> BOOLEAN]
  BY DEF SesInv, SesTypeOK, ThrTypeOK, IdTypeOK, Counted, Threads
<1>1. /\ op[t] = "none"
      /\ \A u \in Threads \ {t} : pc'[u] = pc[u] /\ at'[u] = at[u]
      /\ \A r \in Slots \ {s} : ReleaseFlag'[r] = ReleaseFlag[r]
  BY <1>0 DEF OpenStep, PopSession, GenerateSessionID, InitSession, InitSessionRef, InitSessionPublish,
     OnClientJoin, PopNothing, Runs, Goto, idVars
<1>2. OwnCall(t)' /\ op'[t] # "cas" /\ \A u \in Threads \ {t} : op'[u] = op[u] /\ arg'[u] = arg[u]
  <2>1. CASE OnClientJoin(t)
    <3>1. pc'[t] \in WorkingPC /\ SessionID' = SessionID /\ at'[t] = at[t] /\ Callback(t, at[t])
      BY <1>0, <2>1, PointFacts DEF OnClientJoin, RecvPostPC, idVars
    <3> QED BY <1>0, <1>1, <3>1, OwnCallback
  <2>2. CASE ~OnClientJoin(t)
    <3>1. UNCHANGED <<op, arg>>
      BY <2>2 DEF OpenStep, PopSession, GenerateSessionID, InitSession, InitSessionRef, InitSessionPublish,
         PopNothing, Goto
    <3> QED BY <1>1, <3>1 DEF OwnCall, CheckedOp
  <2> QED BY <2>1, <2>2
<1>3. /\ \/ SessionID' = SessionID
         \/ ReleaseFlag[s] /\ \A r \in Slots \ {s} : SessionID'[r] = SessionID[r]
  <2>1. CASE InitSession(t)
    <3>1. Opens(t, s)
      BY <2>1, PointFacts DEF InitSession, Runs, Opens
    <3>2. ReleaseFlag[s]
      BY <1>0, <3>1 DEF SesInv, OneOwner
    <3> QED BY <1>0, <2>1, <3>2 DEF InitSession
  <2>2. CASE ~InitSession(t)
    BY <2>2 DEF OpenStep, PopSession, GenerateSessionID, InitSessionRef, InitSessionPublish,
       OnClientJoin, PopNothing, idVars
  <2> QED BY <2>1, <2>2
<1>4. ASSUME NEW r \in Slots, ~ReleaseFlag'[r], RefCnt'[r] = 0 PROVE ~ReleaseFlag[r] /\ RefCnt[r] = 0
  <2>1. CASE InitSessionPublish(t)
    <3>1. pc'[t] = "join" /\ at'[t] = s /\ RefCnt' = RefCnt
      BY <1>0, <2>1 DEF InitSessionPublish, Goto
    <3>2. RefCnt'[s] > 0
      BY <1>0, <3>1, PointFacts DEF Counted
    <3> QED BY <1>1, <1>4, <3>1, <3>2
  <2>2. CASE InitSessionRef(t)
    BY <1>0, <1>4, <2>2 DEF InitSessionRef, IncrementSessionRef, idVars
  <2>3. CASE ~InitSessionPublish(t) /\ ~InitSessionRef(t)
    <3>1. UNCHANGED <<ReleaseFlag, RefCnt>>
      BY <2>3 DEF OpenStep, PopSession, GenerateSessionID, InitSession, OnClientJoin, PopNothing, idVars
    <3> QED BY <1>4, <3>1
  <2> QED BY <2>1, <2>2, <2>3
<1>5. OwnCalls'
  BY <1>0, <1>1, <1>2, <1>3, OwnCallsKept
<1>6. NoLostRelease'
  BY <1>0, <1>1, <1>2, <1>4, NoLostKept
<1> QED BY <1>5, <1>6

\* The steps of a server whose application names open sessions only.
LEMMA ServerStepNoLost ==
  ASSUME Callers = {}, CallbackIDs # "any",
         TypeOK, SesInv, Counted, Counted', OwnCalls, NoLostRelease, [Next]_vars
  PROVE  OwnCalls' /\ NoLostRelease'
<1>0. /\ SesTypeOK /\ Stoppers = {} /\ Openers \subseteq Threads /\ Workers \subseteq Threads
      /\ 0 \in Slots /\ pc \in [Threads -> PC] /\ at \in [Threads -> Slots] /\ op \in [Threads -> Op]
  BY StopperAssumption, ZeroSlot DEF TypeOK, SesTypeOK, ThrTypeOK, Threads
<1>1. ASSUME NEW t \in Threads, UNCHANGED <<ReleaseFlag, SessionID, RefCnt>>, op[t] # "cas",
             \A u \in Threads \ {t} : pc'[u] = pc[u] /\ at'[u] = at[u] /\ op'[u] = op[u] /\ arg'[u] = arg[u],
             OwnCall(t)'
      PROVE  OwnCalls' /\ NoLostRelease'
  <2>1. OwnCalls'
    BY <1>0, <1>1, OwnCallsKept
  <2>2. NoLostRelease'
    BY <1>1, NoLostKept
  <2> QED BY <2>1, <2>2
<1>2. ASSUME NEW t \in Threads, CallStep(t) \/ WorkStep(t) PROVE OwnCalls' /\ NoLostRelease'
  BY <1>2, CallNoLost, WorkNoLost
<1>3. ASSUME NEW t \in Workers, GqcsStep(t) \/ WorkerQuit(t) PROVE OwnCalls' /\ NoLostRelease'
  <2>1. /\ UNCHANGED <<ReleaseFlag, SessionID, RefCnt, op, arg>> /\ op[t] = "none"
        /\ \A u \in Threads \ {t} : pc'[u] = pc[u] /\ at'[u] = at[u]
    BY <1>0, <1>3 DEF GqcsStep, GqcsServes, GqcsRecv, GqcsSend, GqcsWake, GqcsFailed, Gqcs, WorkerQuit,
       Runs, Goto, idVars
  <2>2. OwnCall(t)'
    BY <2>1 DEF OwnCall, CheckedOp
  <2> QED BY <1>0, <1>1, <2>1, <2>2
<1>4. ASSUME NEW t \in Workers, OnRecv(t) PROVE OwnCalls' /\ NoLostRelease'
  <2>1. /\ UNCHANGED <<ReleaseFlag, SessionID, RefCnt, pc, at>> /\ op[t] = "none" /\ pc[t] \in WorkingPC
        /\ Callback(t, at[t])
    BY <1>4, PointFacts DEF OnRecv, Runs, idVars
  <2>2. OwnCall(t)' /\ \A u \in Threads \ {t} : op'[u] = op[u] /\ arg'[u] = arg[u]
    BY <1>0, <2>1, OwnCallback
  <2> QED BY <1>0, <1>1, <2>1, <2>2
<1>5. ASSUME NEW t \in Workers, ParseFail(t) PROVE OwnCalls' /\ NoLostRelease'
  <2>1. /\ UNCHANGED <<ReleaseFlag, SessionID, RefCnt, at>> /\ op[t] = "none" /\ pc'[t] \in WorkingPC
        /\ \A u \in Threads \ {t} : pc'[u] = pc[u] /\ op'[u] = op[u] /\ arg'[u] = arg[u]
    BY <1>0, <1>5, PointFacts DEF ParseFail, Runs, Call, RecvPostPC, idVars
  <2>2. op'[t] = "kill" /\ arg'[t] = IdOf(at[t])'
    BY <1>0, <1>5, <2>1 DEF ParseFail, Call, IdOf, SesTypeOK, ThrTypeOK
  <2>3. OwnCall(t)'
    BY <2>1, <2>2 DEF OwnCall
  <2> QED BY <1>0, <1>1, <2>1, <2>3
<1>6. ASSUME NEW t \in Openers, AcceptStep(t) PROVE OwnCalls' /\ NoLostRelease'
  <2>1. /\ UNCHANGED <<ReleaseFlag, SessionID, RefCnt, at, op, arg>> /\ op[t] = "none"
        /\ \A u \in Threads \ {t} : pc'[u] = pc[u]
    BY <1>0, <1>6 DEF AcceptStep, AcceptLoop, AcceptClient, AcceptRefused, AcceptClosed, Runs, Goto, idVars
  <2>2. OwnCall(t)'
    BY <2>1 DEF OwnCall, CheckedOp
  <2> QED BY <1>0, <1>1, <2>1, <2>2
<1>7. ASSUME UNCHANGED <<ReleaseFlag, SessionID, RefCnt, pc, at, op, arg>> PROVE OwnCalls' /\ NoLostRelease'
  BY <1>7 DEF OwnCalls, OwnCall, IdOf, NoLostRelease, Target, FindSession
<1>8. ASSUME NEW s \in Slots, KernelStep(s) PROVE OwnCalls' /\ NoLostRelease'
  BY <1>7, <1>8 DEF KernelStep, DataArrives, RecvBreaks, SendCompletes, SendBreaks, Complete, PeerGone,
     idVars, thrVars
<1>9. CASE UNCHANGED vars
  BY <1>7, <1>9 DEF vars, sesVars, idVars, thrVars
<1>10. CASE SessionStep
  BY <1>0, <1>2, <1>3, <1>4, <1>5, <1>8, <1>10, OpenNoLost DEF SessionStep
<1> QED BY <1>0, <1>3, <1>6, <1>9, <1>10 DEF Next

\* A slot whose last reference is gone has somebody about to disconnect it, as
\* long as SendPacket and KillSession are called with IDs of open sessions only.
THEOREM OwnedReleaseNoticed ==
  ASSUME Callers = {}, CallbackIDs # "any"
  PROVE  Spec => []NoLostRelease
<1>1. Init => OwnCalls /\ NoLostRelease
  BY DEF Init, SesInit, OwnCalls, OwnCall, CheckedOp, NoLostRelease
<1>2. SesInv => Counted
  BY SesInvCounted
<1>3. TypeOK /\ SesInv /\ Counted /\ Counted' /\ OwnCalls /\ NoLostRelease /\ [Next]_vars
        => OwnCalls' /\ NoLostRelease'
  BY ServerStepNoLost
<1> QED BY <1>1, <1>2, <1>3, TypeCorrect, SlotsInvariant, PTL DEF Spec

-----------------------------------------------------------------------------
(* QuietAfterStop.  Stop closes the port when the accept thread and every  *)
(* worker have left their loops, and a thread leaves its loop outside of   *)
(* any call; what is left to call back is a caller's own release.          *)
ServerThreads == Openers \cup Workers

Exits ==
  /\ \A u \in ServerThreads : pc[u] = "exited" => op[u] = "none"
  /\ \A t \in Stoppers : stop[t] = "joinWorkers" => \A u \in Openers : pc[u] = "exited"
  /\ ~IocpOpen => \A u \in ServerThreads : pc[u] = "exited"

\* A thread that has left its loop takes no step.
LEMMA ExitedStays ==
  ASSUME SesTypeOK, SessionStep, NEW u \in ServerThreads
  PROVE  /\ pc'[u] = "exited" <=> pc[u] = "exited"
         /\ pc[u] = "exited" /\ op[u] = "none" => op'[u] = "none"
<1>0. /\ u \in Threads /\ u \notin Callers /\ Workers \subseteq Threads /\ Openers \subseteq Threads
      /\ Callers \subseteq Threads
      /\ pc \in [Threads -> PC] /\ op \in [Threads -> Op]
  BY ThreadAssumption DEF SesTypeOK, ThrTypeOK, Threads, ServerThreads
<1>1. ASSUME NEW t \in Threads, CallStep(t) PROVE pc' = pc /\ op[t] # "none" /\ \A v \in Threads \ {t} : op'[v] = op[v]
  BY <1>0, <1>1 DEF CallStep, SendPacketRef, SendPacketCheck, SendPacketEnqueue, SendPacketPost, SendPacketUndo,
     KillSessionRef, KillSessionCheck, KillSessionUse, KillSessionCancel, KillSessionDec, KillSessionUndo,
     DisconnectCas, DisconnectTo, OnClientLeave, ReleaseSession, ReleasePush, CallGoto, InCall
<1>2. ASSUME NEW t \in Threads, WorkStep(t)
      PROVE  /\ pc[t] # "exited" /\ pc'[t] # "exited"
             /\ \A v \in Threads \ {t} : pc'[v] = pc[v] /\ op'[v] = op[v]
  <2>1. CASE Finish(t)
    BY <1>0, <2>1 DEF Finish, Runs, Call, Home
  <2>2. CASE ~Finish(t)
    BY <1>0, <1>2, <2>2 DEF WorkStep, ParseDone, SendDoneFree, SendDoneUnlock, RecvPostStep, RecvPostUse,
       RecvPostRef, RecvPostRecv, RecvPostFail, RecvPostUndo, RecvPostCancel, SendPostStep, SendPostRef,
       SendPostUse, SendPostLock, SendPostSize, SendPostUnlock, SendPostRecheck, SendPostFill,
       SendPostFillTo, SendPostSend, SendPostFail, SendPostCancel, SendPostUndo, Goto, Runs
  <2> QED BY <2>1, <2>2
<1>3. ASSUME NEW t \in Openers, OpenStep(t) \/ PopNothing(t)
      PROVE  /\ pc[t] # "exited" /\ pc'[t] # "exited"
             /\ \A v \in Threads \ {t} : pc'[v] = pc[v] /\ op'[v] = op[v]
  <2>1. CASE OnClientJoin(t)
    BY <1>0, <2>1, CallbackBegins DEF OnClientJoin, Callback, Runs
  <2>2. CASE ~OnClientJoin(t)
    BY <1>0, <1>3, <2>2 DEF OpenStep, PopSession, GenerateSessionID, InitSession, InitSessionRef,
       InitSessionPublish, PopNothing, Runs, Goto
  <2> QED BY <2>1, <2>2
<1>4. ASSUME NEW t \in Workers, GqcsStep(t) \/ OnRecv(t) \/ ParseFail(t)
      PROVE  /\ pc[t] # "exited" /\ pc'[t] # "exited"
             /\ \A v \in Threads \ {t} : pc'[v] = pc[v] /\ op'[v] = op[v]
  <2>1. CASE OnRecv(t)
    BY <1>0, <2>1, CallbackBegins DEF OnRecv, Callback, Runs
  <2>2. CASE ~OnRecv(t)
    BY <1>0, <1>4, <2>2 DEF GqcsStep, GqcsServes, GqcsRecv, GqcsSend, GqcsWake, GqcsFailed, Gqcs, ParseFail,
       Call, Runs
  <2> QED BY <2>1, <2>2
<1>5. ASSUME NEW t \in Callers, CallerCalls(t) PROVE pc' = pc /\ \A v \in Threads \ {t} : op'[v] = op[v]
  BY <1>0, <1>5, CallbackBegins DEF CallerCalls
<1>6. ASSUME NEW s \in Slots, KernelStep(s) PROVE pc' = pc /\ op' = op
  BY <1>6 DEF KernelStep, DataArrives, RecvBreaks, SendCompletes, SendBreaks, Complete, PeerGone, thrVars
<1> QED BY <1>0, <1>1, <1>2, <1>3, <1>4, <1>5, <1>6 DEF SessionStep

\* Every step of the server keeps the order of its exits.
LEMMA ExitsKept ==
  ASSUME TypeOK, Exits, [Next]_vars
  PROVE  Exits'
<1>0. /\ SesTypeOK /\ pc \in [Threads -> PC] /\ op \in [Threads -> Op]
      /\ ServerThreads \subseteq Threads /\ Stoppers \cap ServerThreads = {}
      /\ Openers \subseteq ServerThreads /\ Workers \subseteq ServerThreads
      /\ \A t \in Stoppers : t \in Callers
      /\ stop \in [Stoppers -> {"idle", "scan", "kill", "wait", "close", "joinAccept",
                                "joinWorkers", "returned", "skipped"}]
  BY ThreadAssumption, StopperAssumption DEF TypeOK, SesTypeOK, ThrTypeOK, Threads, ServerThreads
<1>1. CASE SessionStep /\ UNCHANGED stopVars
  <2>1. UNCHANGED <<stop, IocpOpen>>
    BY <1>1 DEF stopVars
  <2>2. \A u \in ServerThreads : /\ pc'[u] = "exited" <=> pc[u] = "exited"
                                 /\ pc[u] = "exited" /\ op[u] = "none" => op'[u] = "none"
    BY <1>0, <1>1, ExitedStays
  <2> QED BY <1>0, <2>1, <2>2 DEF Exits
<1>2. ASSUME NEW t \in ServerThreads,
             (t \in Openers /\ AcceptStep(t)) \/ (t \in Workers /\ WorkerQuit(t))
      PROVE  Exits'
  <2>1. /\ UNCHANGED <<op, stop, IocpOpen>> /\ op[t] = "none" /\ pc[t] # "exited"
        /\ \A u \in ServerThreads \ {t} : pc'[u] = pc[u]
        /\ t \in Openers => AcceptStep(t) \/ WorkerQuit(t)
    BY <1>0, <1>2 DEF AcceptStep, AcceptLoop, AcceptClient, AcceptRefused, AcceptClosed, WorkerQuit, Runs, Goto,
       stopVars
  <2>2. IocpOpen
    BY <2>1 DEF Exits
  <2>3. ASSUME NEW v \in Stoppers, stop'[v] = "joinWorkers", NEW u \in Openers PROVE pc'[u] = "exited"
    BY <1>0, <2>1, <2>3 DEF Exits
  <2>4. \A u \in ServerThreads : pc'[u] = "exited" => op'[u] = "none"
    BY <2>1 DEF Exits
  <2> QED BY <2>1, <2>2, <2>3, <2>4 DEF Exits
<1>3. ASSUME NEW t \in Stoppers, StopStep(t) PROVE Exits'
  <2>1. /\ pc' = pc /\ \A u \in ServerThreads : op'[u] = op[u]
    BY <1>0, <1>3 DEF StopStep, StopCall, StopScan, StopKill, StopDrained, StopTimeout, StopClose, StopJoinAccept,
       StopJoinWorkers, Call, sesVars, thrVars
  <2>2. CASE StopJoinWorkers(t)
    <3>1. /\ stop[t] = "joinWorkers" /\ \A u \in Workers : pc[u] = "exited"
          /\ \A v \in Stoppers : stop'[v] = "joinWorkers" => stop[v] = "joinWorkers"
      BY <1>0, <2>2 DEF StopJoinWorkers, StopAt, StopGoto
    <3> QED BY <2>1, <3>1 DEF Exits, ServerThreads
  <2>3. CASE ~StopJoinWorkers(t)
    <3>1. /\ IocpOpen' = IocpOpen
          /\ \A v \in Stoppers : stop'[v] = "joinWorkers" =>
               stop[v] = "joinWorkers" \/ \A u \in Openers : pc[u] = "exited"
      BY <1>0, <1>3, <2>3 DEF StopStep, StopCall, StopScan, StopKill, StopDrained, StopTimeout, StopClose,
         StopJoinAccept, StopAt, StopGoto
    <3> QED BY <2>1, <3>1 DEF Exits
  <2> QED BY <2>2, <2>3
<1>4. CASE UNCHANGED vars
  BY <1>4 DEF vars, sesVars, thrVars, stopVars, Exits
<1> QED BY <1>0, <1>1, <1>2, <1>3, <1>4 DEF Next

\* With the server's threads gone only a caller's release calls back.
LEMMA QuietStop ==
  ASSUME SesTypeOK, Exits, [Next]_vars, ~IocpOpen
  PROVE  /\ joined' = joined
         /\ left' # left => \E t \in Callers : op[t] = "leave"
<1>0. \A t \in ServerThreads : pc[t] = "exited" /\ op[t] = "none"
  BY DEF Exits
<1>1. ASSUME NEW t \in Threads, CallStep(t)
      PROVE  /\ joined' = joined
             /\ left' # left => \E u \in Callers : op[u] = "leave"
  <2>1. joined' = joined /\ op[t] # "none"
    BY <1>1 DEF CallStep, SendPacketRef, SendPacketCheck, SendPacketEnqueue, SendPacketPost, SendPacketUndo,
       KillSessionRef, KillSessionCheck, KillSessionUse, KillSessionCancel, KillSessionDec, KillSessionUndo,
       DisconnectCas, DisconnectTo, OnClientLeave, ReleaseSession, ReleasePush, InCall, histVars
  <2>2. t \in Callers
    BY <1>0, <2>1 DEF Threads, ServerThreads
  <2>3. left' # left => op[t] = "leave"
    BY <1>1 DEF CallStep, SendPacketRef, SendPacketCheck, SendPacketEnqueue, SendPacketPost, SendPacketUndo,
       KillSessionRef, KillSessionCheck, KillSessionUse, KillSessionCancel, KillSessionDec, KillSessionUndo,
       DisconnectCas, DisconnectTo, OnClientLeave, ReleaseSession, ReleasePush, InCall, histVars
  <2> QED BY <2>1, <2>2, <2>3
<1>2. ASSUME NEW t \in Threads, WorkStep(t) PROVE UNCHANGED <<joined, left>>
  BY <1>2 DEF WorkStep, ParseDone, SendDoneFree, SendDoneUnlock, Finish, RecvPostStep, RecvPostUse,
     RecvPostRef, RecvPostRecv, RecvPostFail, RecvPostUndo, RecvPostCancel, SendPostStep, SendPostRef,
     SendPostUse, SendPostLock, SendPostSize, SendPostUnlock, SendPostRecheck, SendPostFill,
     SendPostFillTo, SendPostSend, SendPostFail, SendPostCancel, SendPostUndo, histVars
<1>3. ASSUME NEW t \in Openers PROVE ~OpenStep(t) /\ ~PopNothing(t)
  <2>1. pc[t] = "exited"
    BY <1>0 DEF ServerThreads
  <2> QED BY <2>1 DEF OpenStep, PopSession, GenerateSessionID, InitSession, InitSessionRef, InitSessionPublish,
     OnClientJoin, PopNothing, Runs
<1>4. ASSUME NEW t \in Threads, GqcsStep(t) \/ OnRecv(t) \/ ParseFail(t) \/ CallerCalls(t) \/ AcceptStep(t) \/ WorkerQuit(t)
      PROVE  UNCHANGED <<joined, left>>
  BY <1>4 DEF GqcsStep, GqcsServes, GqcsRecv, GqcsSend, GqcsWake, GqcsFailed, Gqcs, OnRecv, ParseFail, CallerCalls,
     AcceptStep, AcceptLoop, AcceptClient, AcceptRefused, AcceptClosed, WorkerQuit, histVars
<1>5. ASSUME NEW s \in Slots, KernelStep(s) PROVE UNCHANGED <<joined, left>>
  BY <1>5 DEF KernelStep, DataArrives, RecvBreaks, SendCompletes, SendBreaks, Complete, PeerGone, histVars
<1>6. ASSUME NEW t \in Stoppers, StopStep(t) PROVE UNCHANGED <<joined, left>>
  BY <1>6 DEF StopStep, StopCall, StopScan, StopKill, StopDrained, StopTimeout, StopClose, StopJoinAccept,
     StopJoinWorkers, sesVars, histVars
<1>7. CASE UNCHANGED vars
  BY <1>7 DEF vars, sesVars, histVars
<1>8. Openers \subseteq Threads /\ Workers \subseteq Threads /\ Callers \subseteq Threads
  BY DEF Threads
<1>9. CASE SessionStep
  BY <1>1, <1>2, <1>3, <1>4, <1>5, <1>8, <1>9 DEF SessionStep
<1> QED BY <1>4, <1>6, <1>7, <1>8, <1>9 DEF Next

\* Once Stop has closed the port, no thread of the server calls back any more.
THEOREM StopQuiet == Spec => QuietAfterStop
<1>1. Init => Exits
  <2> SUFFICES ASSUME Init PROVE Exits
    OBVIOUS
  <2>1. /\ IocpOpen /\ \A t \in Stoppers : stop[t] = "idle"
        /\ \A u \in ServerThreads : pc[u] # "exited"
    BY ThreadAssumption DEF Init, SesInit, Threads, ServerThreads
  <2> QED BY <2>1 DEF Exits
<1>2. TypeOK /\ Exits /\ [Next]_vars => Exits'
  BY ExitsKept
<1>3. TypeOK /\ Exits /\ [Next]_vars =>
        [~IocpOpen => /\ joined' = joined
                      /\ left' # left => \E t \in Callers : op[t] = "leave"]_vars
  BY QuietStop DEF TypeOK
<1> QED BY <1>1, <1>2, <1>3, TypeCorrect, PTL DEF Spec, QuietAfterStop
=============================================================================
