------------------------------ MODULE NetServer ------------------------------
(***************************************************************************)
(* NetServer: the accept thread that opens sessions, the worker threads of *)
(* NetSession, the application threads that send and kill, and Stop.       *)
(*                                                                         *)
(* Operators named ..._bug are no part of the model: each is the operator  *)
(* after it with a plausible programming error.                            *)
(***************************************************************************)
EXTENDS NetSession

CONSTANTS
  Stoppers,      \* the callers that call Stop(), each once
  WaitTimesOut   \* FALSE: every wait of Stop ends within its five seconds

ASSUME StopperAssumption == Stoppers \subseteq Callers /\ WaitTimesOut \in BOOLEAN
\* Start creates one accept thread.
ASSUME AcceptAssumption  == \A t, u \in Openers : t = u

VARIABLES
  Shutdown,       \* the flag Stop exchanges
  ListenOpen,     \* ListenSocket # INVALID_SOCKET
  Quit,           \* null completions posted to end the workers
  IocpOpen,       \* IOCP # nullptr
  stop,           \* where each stopper stands in Stop()
  scan            \* the loop index of its kill scan

stopVars == <<Shutdown, ListenOpen, Quit, IocpOpen, stop, scan>>
vars     == <<sesVars, stopVars>>

Init ==
  /\ SesInit
  /\ Shutdown = FALSE
  /\ ListenOpen = TRUE
  /\ Quit = 0
  /\ IocpOpen = TRUE
  /\ stop = [t \in Stoppers |-> "idle"]
  /\ scan = [t \in Stoppers |-> 0]

-----------------------------------------------------------------------------
(* AcceptThread *)

\* while (!server->Shutdown)
AcceptLoop(t) ==
  /\ Runs(t, "opened")
  /\ Goto(t, IF Shutdown THEN "exited" ELSE "accept")
  /\ UNCHANGED <<idVars, RefCnt, sendVars, netVars, histVars, stopVars>>

\* accept() returns a client and OnConnectionRequest lets it in; MaxID bounds
\* how many.  Shutdown is not looked at again.
AcceptClient(t) ==
  /\ Runs(t, "accept")
  /\ ListenOpen
  /\ SessionIDCnt < MaxID
  /\ Goto(t, "pop")
  /\ UNCHANGED <<idVars, RefCnt, sendVars, netVars, histVars, stopVars>>

\* OnConnectionRequest turns the client away.
AcceptRefused(t) ==
  /\ Runs(t, "accept")
  /\ ListenOpen
  /\ Goto(t, "opened")
  /\ UNCHANGED <<idVars, RefCnt, sendVars, netVars, histVars, stopVars>>

\* accept() fails on the closed socket; Shutdown was set before.
AcceptClosed(t) ==
  /\ Runs(t, "accept")
  /\ ~ListenOpen
  /\ Goto(t, "exited")
  /\ UNCHANGED <<idVars, RefCnt, sendVars, netVars, histVars, stopVars>>

-----------------------------------------------------------------------------
(* Stop() *)

StopGoto(t, l) == stop' = [stop EXCEPT ![t] = l]
StopAt(t, l)   == stop[t] = l /\ op[t] = "none"

\* Shutdown.exchange(1): a caller that is not the first returns at once.
StopCall(t) ==
  /\ StopAt(t, "idle")
  /\ StopGoto(t, IF Shutdown THEN "skipped" ELSE "scan")
  /\ Shutdown' = TRUE
  /\ UNCHANGED <<sesVars, ListenOpen, Quit, IocpOpen, scan>>

StopScan(t) ==
  /\ StopAt(t, "scan")
  /\ IF scan[t] = TotalSessionCnt
     THEN StopGoto(t, "wait") /\ UNCHANGED scan
     ELSE IF ReleaseFlag[scan[t]]
          THEN scan' = [scan EXCEPT ![t] = @ + 1] /\ UNCHANGED stop
          ELSE StopGoto(t, "kill") /\ UNCHANGED scan
  /\ UNCHANGED <<sesVars, Shutdown, ListenOpen, Quit, IocpOpen>>

\* KillSession(session->SessionID), the ID read without a reference.
StopKill(t) ==
  /\ StopAt(t, "kill")
  /\ Call(t, "kill", IdOf(scan[t]))
  /\ scan' = [scan EXCEPT ![t] = @ + 1]
  /\ StopGoto(t, "scan")
  /\ UNCHANGED <<idVars, RefCnt, sendVars, netVars, histVars, pc, at, tmp>>
  /\ UNCHANGED <<Shutdown, ListenOpen, Quit, IocpOpen>>

\* GetConnectedSessionCnt() == 0
StopDrained(t) ==
  /\ StopAt(t, "wait")
  /\ FreeSessionStack = Slots
  /\ StopGoto(t, "close")
  /\ UNCHANGED <<sesVars, Shutdown, ListenOpen, Quit, IocpOpen, scan>>

\* Five seconds are over and sessions remain.
StopTimeout(t) ==
  /\ StopAt(t, "wait")
  /\ WaitTimesOut
  /\ FreeSessionStack # Slots
  /\ StopGoto(t, "close")
  /\ UNCHANGED <<sesVars, Shutdown, ListenOpen, Quit, IocpOpen, scan>>

StopClose(t) ==
  /\ StopAt(t, "close")
  /\ ListenOpen' = FALSE
  /\ StopGoto(t, "joinAccept")
  /\ UNCHANGED <<sesVars, Shutdown, Quit, IocpOpen, scan>>

\* One worker is forgotten.
StopJoinAccept_bug(t) ==
  /\ StopAt(t, "joinAccept")
  /\ \A u \in Openers : pc[u] = "exited"
  /\ Quit' = Quit + Cardinality(Workers) - 1
  /\ StopGoto(t, "joinWorkers")
  /\ UNCHANGED <<sesVars, Shutdown, ListenOpen, IocpOpen, scan>>

\* The accept thread is joined, then one null completion per worker is posted.
StopJoinAccept(t) ==
  /\ StopAt(t, "joinAccept")
  /\ \A u \in Openers : pc[u] = "exited"
  /\ Quit' = Quit + Cardinality(Workers)
  /\ StopGoto(t, "joinWorkers")
  /\ UNCHANGED <<sesVars, Shutdown, ListenOpen, IocpOpen, scan>>

\* The workers are not waited for.
StopJoinWorkers_bug(t) ==
  /\ StopAt(t, "joinWorkers")
  /\ IocpOpen' = FALSE
  /\ StopGoto(t, "returned")
  /\ UNCHANGED <<sesVars, Shutdown, ListenOpen, Quit, scan>>

StopJoinWorkers(t) ==
  /\ StopAt(t, "joinWorkers")
  /\ \A u \in Workers : pc[u] = "exited"
  /\ IocpOpen' = FALSE
  /\ StopGoto(t, "returned")
  /\ UNCHANGED <<sesVars, Shutdown, ListenOpen, Quit, scan>>

\* A worker takes a null completion and leaves its loop.
WorkerQuit(t) ==
  /\ Runs(t, "gqcs")
  /\ Quit > 0
  /\ Quit' = Quit - 1
  /\ Goto(t, "exited")
  /\ UNCHANGED <<idVars, RefCnt, sendVars, netVars, histVars>>
  /\ UNCHANGED <<Shutdown, ListenOpen, IocpOpen, stop, scan>>

-----------------------------------------------------------------------------
AcceptStep(t) == AcceptLoop(t) \/ AcceptClient(t) \/ AcceptRefused(t) \/ AcceptClosed(t)

StopStep(t) ==
  \/ StopCall(t) \/ StopScan(t) \/ StopKill(t) \/ StopDrained(t) \/ StopTimeout(t)
  \/ StopClose(t) \/ StopJoinAccept(t) \/ StopJoinWorkers(t)

SessionStep ==
  \/ \E t \in Threads : CallStep(t) \/ WorkStep(t)
  \/ \E t \in Openers : OpenStep(t) \/ PopNothing(t)
  \/ \E t \in Workers : GqcsStep(t) \/ OnRecv(t) \/ ParseFail(t)
  \/ \E t \in Callers \ Stoppers : CallerCalls(t)
  \/ \E s \in Slots : KernelStep(s)

Next ==
  \/ SessionStep /\ UNCHANGED stopVars
  \/ \E t \in Openers : AcceptStep(t)
  \/ \E t \in Stoppers : StopStep(t)
  \/ \E t \in Workers : WorkerQuit(t)

Spec == Init /\ [][Next]_vars

-----------------------------------------------------------------------------
(* Fairness.  The operating system runs every thread that can run.  The    *)
(* completion port is a queue, so some worker serves a slot that keeps     *)
(* having completions; a receive holds finitely many messages, so the      *)
(* parse loop ends; the kernel ends a receive on a broken connection and,  *)
(* the peer reading or not, a send.  Clients, callers and peers may do     *)
(* nothing at all.                                                         *)
Own(A) == A /\ UNCHANGED stopVars

Progress(t) ==
  \/ CallStep(t) \/ WorkStep(t)
  \/ t \in Openers /\ (OpenStep(t) \/ PopNothing(t))

ThreadFairness ==
  /\ \A t \in Threads : WF_vars(Own(Progress(t)))
  /\ \A t \in Workers : SF_vars(Own(ParseDone(t)))
  /\ \A s \in Slots : SF_vars(Own(\E t \in Workers : GqcsServes(t, s)))

KernelFairness ==
  \A s \in Slots : WF_vars(Own(RecvBreaks(s))) /\ WF_vars(Own(SendCompletes(s)))

StopFairness ==
  /\ \A t \in Stoppers : WF_vars(StopStep(t))
  /\ \A t \in Openers : WF_vars(AcceptLoop(t)) /\ WF_vars(AcceptClosed(t))
  /\ \A t \in Workers : SF_vars(WorkerQuit(t))

FairSpec == Spec /\ ThreadFairness /\ KernelFairness /\ StopFairness

TypeOK ==
  /\ SesTypeOK
  /\ Shutdown \in BOOLEAN
  /\ ListenOpen \in BOOLEAN
  /\ Quit \in Nat
  /\ IocpOpen \in BOOLEAN
  /\ stop \in [Stoppers -> {"idle", "scan", "kill", "wait", "close", "joinAccept",
                            "joinWorkers", "returned", "skipped"}]
  /\ scan \in [Stoppers -> 0 .. TotalSessionCnt]
  /\ \A t \in Stoppers : stop[t] = "kill" => scan[t] \in Slots

-----------------------------------------------------------------------------
\* A session whose connection broke, or that KillSession marked unusable, is
\* given its OnClientLeave in the end.
BrokenLeaves ==
  \A s \in Slots : \A n \in 1 .. MaxID :
    (/\ <<s, n>> \in joined \ left
     /\ gone[s] \/ ~SessionUseFlag[s])
      ~> <<s, n>> \in left

\* The callbacks the application sees are those of SessionCallbacks.
Callbacks == INSTANCE SessionCallbacks WITH
  SessionIDs <- Slots \X (1 .. MaxID),
  opened  <- joined,
  closed  <- left,
  reading <- {IdOf(at[t]) : t \in {u \in Workers : pc[u] = "parse"}}
ImplementsCallbacks == Callbacks!Spec

\* Stop() comes to its end: the kill scan, the wait, the joins of the accept
\* thread and of the workers cannot wait for each other for ever.
StopReturns == \A t \in Stoppers : stop[t] = "scan" ~> stop[t] = "returned"

\* Once Stop has closed the completion port the server's own threads run no
\* callback any more: the only one an application can still see is the
\* OnClientLeave that its own KillSession, under way meanwhile, brings about.
QuietAfterStop ==
  [][~IocpOpen => /\ joined' = joined
                  /\ left' # left => \E t \in Callers : op[t] = "leave"]_vars

\* NetServer.h:64: Stop gives every active session its OnClientLeave before it
\* returns.
StopServesEverySession == \A t \in Stoppers : stop[t] = "returned" => joined = left
=============================================================================
