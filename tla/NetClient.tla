------------------------------ MODULE NetClient ------------------------------
(***************************************************************************)
(* NetClient: the sessions of NetSession, opened by Connect on application *)
(* threads.  NetClient.cpp repeats the session code of NetServer.cpp; the  *)
(* operators named after its functions group the steps of NetSession that  *)
(* each of them takes.                                                     *)
(*                                                                         *)
(* A Connect call stands in the outer frame of its thread: "opened" is     *)
(* outside, and once OnConnect was called, between the disconnect check    *)
(* and the return.                                                         *)
(*                                                                         *)
(* Operators named ..._bug are no part of the model: each is the operator  *)
(* after it with a plausible programming error.                            *)
(***************************************************************************)
EXTENDS NetSession

CONSTANTS
  Stoppers,      \* the callers that call Stop(), each once
  WaitTimesOut   \* FALSE: the wait of Stop ends within its five seconds

ASSUME StopperAssumption == Stoppers \subseteq Callers /\ WaitTimesOut \in BOOLEAN

VARIABLES
  announced,      \* the ID a running Connect has called OnConnect with
  Shutdown,       \* the flag Stop exchanges
  Quit,           \* null completions posted to end the workers
  IocpOpen,       \* IOCP # nullptr
  stop,           \* where each stopper stands in Stop()
  scan            \* the loop index of its kill scan

stopVars   == <<Shutdown, Quit, IocpOpen, stop, scan>>
clientVars == <<announced, stopVars>>
vars       == <<sesVars, clientVars>>

Init ==
  /\ SesInit
  /\ announced = [t \in Openers |-> NoID]
  /\ Shutdown = FALSE
  /\ Quit = 0
  /\ IocpOpen = TRUE
  /\ stop = [t \in Stoppers |-> "idle"]
  /\ scan = [t \in Stoppers |-> 0]

-----------------------------------------------------------------------------
(* Connect(serverIP, serverPort) *)

\* A thread has no Connect under way.
Outside(t) == Runs(t, "opened") /\ announced[t] = NoID

\* connect() succeeded; one that fails returns 0 and touches no session.  The
\* application connects only while the client is not stopped; MaxID bounds how
\* often.
ConnectStart(t) ==
  /\ Outside(t)
  /\ ~Shutdown
  /\ SessionIDCnt < MaxID
  /\ Goto(t, "pop")
  /\ UNCHANGED <<idVars, RefCnt, sendVars, netVars, histVars, clientVars>>

\* InitSession(session)
InitSlot(t) ==
  \/ GenerateSessionID(t) \/ InitSession(t) \/ InitSessionRef(t) \/ InitSessionPublish(t)

\* The nullptr of an empty stack is not answered.
GetFreeSession_bug(t) ==
  /\ (\E s \in Slots : PopSession(t, s)) \/ InitSlot(t)
  /\ UNCHANGED clientVars

\* Pop, then InitSession; without a free slot Connect returns 0.
GetFreeSession(t) ==
  /\ (\E s \in Slots : PopSession(t, s)) \/ PopNothing(t) \/ InitSlot(t)
  /\ UNCHANGED clientVars

ConnectAnnounce(t) ==
  /\ OnClientJoin(t)
  /\ announced' = [announced EXCEPT ![t] = IdOf(at[t])]
  /\ UNCHANGED stopVars

\* return session->SessionID, read after the thread's reference was given back.
ConnectReturn(t) ==
  /\ Runs(t, "opened")
  /\ announced[t] # NoID
  /\ announced' = [announced EXCEPT ![t] = NoID]
  /\ UNCHANGED <<sesVars, stopVars>>

-----------------------------------------------------------------------------
(* The functions NetClient shares, line for line, with NetServer.          *)
SendPacket(t) ==
  \/ SendPacketRef(t) \/ SendPacketCheck(t) \/ SendPacketEnqueue(t)
  \/ SendPacketPost(t) \/ SendPacketUndo(t)

\* KillSession and Disconnect, which calls it.
KillSession(t) ==
  \/ KillSessionRef(t) \/ KillSessionCheck(t) \/ KillSessionUse(t)
  \/ KillSessionCancel(t) \/ KillSessionDec(t) \/ KillSessionUndo(t)

\* ReleaseSession(session)
ReleaseSlot(t) == ReleaseSession(t) \/ ReleasePush(t)

DisconnectSession(t) == DisconnectCas(t) \/ OnClientLeave(t) \/ ReleaseSlot(t)

RecvPost(t) == RecvPostStep(t)

SendPost(t) == SendPostStep(t)

\* What a worker does with a completion outside RecvPost and SendPost; Connect
\* ends like the worker's loop.
WorkerReceives(t) == OnRecv(t) \/ ParseFail(t)

WorkerHandles(t) == ParseDone(t) \/ SendDoneFree(t) \/ SendDoneUnlock(t) \/ Finish(t)

\* The steps any thread may find itself in.
SessionWork(t) ==
  \/ SendPacket(t) \/ KillSession(t) \/ DisconnectSession(t)
  \/ RecvPost(t) \/ SendPost(t) \/ WorkerHandles(t)

-----------------------------------------------------------------------------
(* Stop() *)

StopGoto(t, l) == stop' = [stop EXCEPT ![t] = l]
StopAt(t, l)   == stop[t] = l /\ op[t] = "none"

\* Shutdown.exchange(1): a caller that is not the first returns at once.
StopCall(t) ==
  /\ StopAt(t, "idle")
  /\ StopGoto(t, IF Shutdown THEN "skipped" ELSE "scan")
  /\ Shutdown' = TRUE
  /\ UNCHANGED <<sesVars, announced, Quit, IocpOpen, scan>>

\* i <= TotalSessionCnt, and what lies behind the array does not look released.
StopScan_bug(t) ==
  /\ StopAt(t, "scan")
  /\ IF scan[t] < TotalSessionCnt /\ ReleaseFlag[scan[t]]
     THEN scan' = [scan EXCEPT ![t] = @ + 1] /\ UNCHANGED stop
     ELSE StopGoto(t, "kill") /\ UNCHANGED scan
  /\ UNCHANGED <<sesVars, announced, Shutdown, Quit, IocpOpen>>

\* The kill scan: a released slot is passed over, after the last one the wait
\* begins.
StopScan(t) ==
  /\ StopAt(t, "scan")
  /\ IF scan[t] = TotalSessionCnt
     THEN StopGoto(t, "wait") /\ UNCHANGED scan
     ELSE IF ReleaseFlag[scan[t]]
          THEN scan' = [scan EXCEPT ![t] = @ + 1] /\ UNCHANGED stop
          ELSE StopGoto(t, "kill") /\ UNCHANGED scan
  /\ UNCHANGED <<sesVars, announced, Shutdown, Quit, IocpOpen>>

\* KillSession(session->SessionID), the ID read without a reference.
StopKill(t) ==
  /\ StopAt(t, "kill")
  /\ Call(t, "kill", IdOf(scan[t]))
  /\ scan' = [scan EXCEPT ![t] = @ + 1]
  /\ StopGoto(t, "scan")
  /\ UNCHANGED <<idVars, RefCnt, sendVars, netVars, histVars, pc, at, tmp>>
  /\ UNCHANGED <<announced, Shutdown, Quit, IocpOpen>>

\* One worker gets no null completion.
StopPostQuit_bug(t) ==
  /\ StopAt(t, "wait")
  /\ FreeSessionStack = Slots \/ WaitTimesOut
  /\ Quit' = Quit + Cardinality(Workers) - 1
  /\ StopGoto(t, "joinWorkers")
  /\ UNCHANGED <<sesVars, announced, Shutdown, IocpOpen, scan>>

\* Every session is back, or five seconds are over: one null completion for
\* each worker.
StopPostQuit(t) ==
  /\ StopAt(t, "wait")
  /\ FreeSessionStack = Slots \/ WaitTimesOut
  /\ Quit' = Quit + Cardinality(Workers)
  /\ StopGoto(t, "joinWorkers")
  /\ UNCHANGED <<sesVars, announced, Shutdown, IocpOpen, scan>>

StopJoinWorkers(t) ==
  /\ StopAt(t, "joinWorkers")
  /\ \A u \in Workers : pc[u] = "exited"
  /\ IocpOpen' = FALSE
  /\ StopGoto(t, "returned")
  /\ UNCHANGED <<sesVars, announced, Shutdown, Quit, scan>>

\* A worker takes a null completion; it leaves because Shutdown is set.
WorkerQuit(t) ==
  /\ Runs(t, "gqcs")
  /\ Quit > 0
  /\ Shutdown
  /\ Quit' = Quit - 1
  /\ Goto(t, "exited")
  /\ UNCHANGED <<idVars, RefCnt, sendVars, netVars, histVars>>
  /\ UNCHANGED <<announced, Shutdown, IocpOpen, stop, scan>>

-----------------------------------------------------------------------------
Own(A) == A /\ UNCHANGED clientVars

Connect(t) == ConnectStart(t) \/ GetFreeSession(t) \/ ConnectAnnounce(t) \/ ConnectReturn(t)

StopStep(t) ==
  StopCall(t) \/ StopScan(t) \/ StopKill(t) \/ StopPostQuit(t) \/ StopJoinWorkers(t)

Next ==
  \/ \E t \in Openers : Connect(t)
  \/ \E t \in Threads : Own(SessionWork(t))
  \/ \E t \in Workers : Own(GqcsStep(t) \/ WorkerReceives(t)) \/ WorkerQuit(t)
  \/ \E t \in Callers \ Stoppers : Own(CallerCalls(t))
  \/ \E s \in Slots : Own(KernelStep(s))
  \/ \E t \in Stoppers : StopStep(t)

Spec == Init /\ [][Next]_vars

-----------------------------------------------------------------------------
(* Fairness, for the reasons given in NetServer.  A Connect that has begun *)
(* goes on; nobody has to begin one.                                       *)
Progress(t) ==
  \/ Own(SessionWork(t))
  \/ t \in Openers /\ (GetFreeSession(t) \/ ConnectAnnounce(t) \/ ConnectReturn(t))

FairSpec ==
  /\ Spec
  /\ \A t \in Threads : WF_vars(Progress(t))
  /\ \A t \in Workers : SF_vars(Own(ParseDone(t)))
  /\ \A s \in Slots : SF_vars(Own(\E t \in Workers : GqcsServes(t, s)))
  /\ \A s \in Slots : WF_vars(Own(RecvBreaks(s))) /\ WF_vars(Own(SendCompletes(s)))
  /\ \A t \in Stoppers : WF_vars(StopStep(t))
  /\ \A t \in Workers : SF_vars(WorkerQuit(t))

TypeOK ==
  /\ SesTypeOK
  /\ announced \in [Openers -> Slots \X Nat]
  /\ Shutdown \in BOOLEAN
  /\ Quit \in Nat
  /\ IocpOpen \in BOOLEAN
  /\ stop \in [Stoppers -> {"idle", "scan", "kill", "wait", "joinWorkers", "returned", "skipped"}]
  /\ scan \in [Stoppers -> 0 .. TotalSessionCnt]
  /\ \A t \in Stoppers : stop[t] = "kill" => scan[t] \in Slots

-----------------------------------------------------------------------------
Returning(t) == Runs(t, "opened") /\ announced[t] # NoID

\* What Connect does guarantee: unless OnDisconnect was already called for the
\* session that it announced, the ID it returns is that session's.
ConnectReturnsOpen ==
  \A t \in Openers : Returning(t) /\ announced[t] \notin left => IdOf(at[t]) = announced[t]

\* A Connect that found a connection returns, whatever becomes of the session,
\* and also while the client is being stopped.
ConnectEnds == \A t \in Openers : pc[t] = "pop" ~> Outside(t)

\* Stop() comes to its end although Connect calls go on meanwhile.
StopReturns == \A t \in Stoppers : stop[t] = "scan" ~> stop[t] = "returned"
=============================================================================
