--------------------------- MODULE NetSessionTraffic ---------------------------
(***************************************************************************)
(* What travels through a session slot: its receive and its sends, the     *)
(* packets of its queue and the callbacks of its IDs.  The invariant here  *)
(* stands on SesInv (NetSessionInvariant), which says who works on a slot. *)
(*                                                                         *)
(* SerialIO is the base: whoever holds SendFlag is alone, so SendBuffer    *)
(* and the queue's consumer side are its own (BufferInv), so packets are   *)
(* neither lost nor freed twice (PacketInv).  A flag that is held is       *)
(* answered for by its holder (WakeInv), a posted operation of a killed    *)
(* session by its poster or its killer (CancelInv), and an announced ID is *)
(* live or was given its last callback (LeaveInv).                         *)
(*                                                                         *)
(* More than half of the steps only move a thread on; Moves says what they *)
(* have in common and what they looked at, and each part of the invariant  *)
(* treats them once.                                                       *)
(***************************************************************************)
EXTENDS NetSessionInvariant

RecvPC == {"join", "parse", "rpUse", "rpRef", "rpRecv"}
SendPC == {"spSize", "spUnlock", "spFill", "spSend", "sent", "sentUnlock"}

\* The calls that owe the slot something: a wake-up, a cancel, a callback, a slot.
OwingOp == {"sendPost", "killCancel", "leave", "push"}

\* From l to m without a change of the session, and why m was chosen.
MovesFrom(t, l, m) ==
  \/ m = l
  \/ l \in {"opened", "accept", "pop", "gqcs"} /\ m \in {"opened", "accept", "pop", "exited"}
  \/ l = "readID" /\ m = "init"
  \/ l = "initRef" /\ m = "publish"
  \/ l = "parse" /\ m = "rpUse"
  \/ l = "rpUse" /\ m \in {"rpRef", "final"}
  \/ l = "rpRef" /\ m = "rpRecv"
  \/ l = "rpRecv" /\ m = "rpUndo"
  \/ l = "rpUndo" /\ m = "final"
  \/ l = "spRef" /\ m = "spUse"
  \/ l = "spUse" /\ m = "spLock"
  \/ l = "spUse" /\ m = "spUndo" /\ ~SessionUseFlag[at[t]]
  \/ l = "spSize" /\ m = "spUnlock" /\ SendQ[at[t]] = 0
  \/ l = "spSize" /\ m = "spFill" /\ SendQ[at[t]] # 0 /\ tmp'[t] = SendQ[at[t]]
  \/ l = "spRecheck" /\ m = "spUndo" /\ SendQ[at[t]] = 0
  \/ l = "spRecheck" /\ m = "spLock"
  \/ l = "spSend" /\ m = "spUndo" /\ gone[at[t]]
  \/ l = "spUndo" /\ m = "final"
  \/ l = "final" /\ m \in {"gqcs", "opened"}

\* A step of t that writes nothing of the slots but a reference count.
Moves(t) ==
  /\ OnlyThread(t)
  /\ \A u \in Threads \ {t} : tmp'[u] = tmp[u]
  /\ UNCHANGED <<idVars, sendVars, netVars, histVars>>
  /\ \/ op'[t] = op[t] /\ arg'[t] = arg[t]
     \/ op[t] \notin OwingOp /\ op'[t] \notin OwingOp
  /\ MovesFrom(t, pc[t], pc'[t])
  /\ pc[t] # "final" => at'[t] = at[t]
  /\ pc[t] = "spFill" => pc'[t] = "spFill" /\ tmp'[t] = tmp[t]

\* A call that only moves on.
CallMoves(t) ==
  \/ SendPacketRef(t) \/ SendPacketCheck(t) \/ SendPacketUndo(t)
  \/ KillSessionRef(t) \/ KillSessionCheck(t) \/ KillSessionDec(t) \/ KillSessionUndo(t)

\* A frame that only moves on, or begins a call.
FrameMoves(t) ==
  \/ PopNothing(t) \/ GenerateSessionID(t) \/ InitSessionRef(t)
  \/ RecvPostUse(t) \/ RecvPostRef(t) \/ RecvPostFail(t) \/ RecvPostUndo(t)
  \/ SendPostRef(t) \/ SendPostUse(t) \/ SendPostSize(t) \/ SendPostRecheck(t)
  \/ SendPostFail(t) \/ SendPostUndo(t)
  \/ ParseDone(t) \/ OnRecv(t) \/ ParseFail(t) \/ Finish(t) \/ CallerCalls(t)

\* The quiet steps of a called frame move only their thread.
LEMMA CallMovesMove ==
  ASSUME SesTypeOK, NEW t \in Threads, CallMoves(t)
  PROVE  Moves(t)
<1> USE DEF CallGoto, InCall, Moves, MovesFrom, OnlyThread, OwingOp, SesTypeOK, ThrTypeOK
<1>1. CASE SendPacketRef(t) \/ SendPacketCheck(t) \/ SendPacketUndo(t)
  BY <1>1 DEF SendPacketRef, SendPacketCheck, SendPacketUndo
<1>2. CASE KillSessionRef(t) \/ KillSessionCheck(t) \/ KillSessionDec(t) \/ KillSessionUndo(t)
  BY <1>2 DEF KillSessionRef, KillSessionCheck, KillSessionDec, KillSessionUndo
<1> QED BY <1>1, <1>2 DEF CallMoves

\* The quiet steps of an outer frame move only their thread.
LEMMA FrameMovesMove ==
  ASSUME SesTypeOK, NEW t \in Threads, FrameMoves(t)
  PROVE  Moves(t)
<1> USE DEF Goto, Runs, Moves, OnlyThread, SesTypeOK, ThrTypeOK
<1>0. "none" \notin OwingOp /\ "cas" \notin OwingOp /\ "send" \notin OwingOp /\ "kill" \notin OwingOp
  BY DEF OwingOp
<1>1. CASE PopNothing(t) \/ GenerateSessionID(t) \/ InitSessionRef(t)
  BY <1>1 DEF PopNothing, GenerateSessionID, InitSessionRef, MovesFrom
<1>2. CASE RecvPostUse(t) \/ RecvPostRef(t) \/ RecvPostFail(t) \/ RecvPostUndo(t)
  BY <1>2 DEF RecvPostUse, RecvPostRef, RecvPostFail, RecvPostUndo, MovesFrom
<1>3. CASE SendPostRef(t) \/ SendPostUse(t) \/ SendPostSize(t)
  BY <1>3 DEF SendPostRef, SendPostUse, SendPostSize, MovesFrom
<1>4. CASE SendPostRecheck(t) \/ SendPostFail(t) \/ SendPostUndo(t)
  BY <1>4 DEF SendPostRecheck, SendPostFail, SendPostUndo, MovesFrom
<1>5. CASE ParseDone(t)
  BY <1>5 DEF ParseDone, MovesFrom
<1>6. CASE OnRecv(t)
  <2>1. op'[t] \in {"send", "kill", "none"} /\ \A u \in Threads \ {t} : op'[u] = op[u] /\ arg'[u] = arg[u]
    BY <1>6, CallbackBegins DEF OnRecv, Callback
  <2> QED BY <1>0, <1>6, <2>1 DEF OnRecv, MovesFrom
<1>7. CASE ParseFail(t)
  BY <1>0, <1>7 DEF ParseFail, Call, MovesFrom
<1>8. CASE Finish(t)
  <2>1. op[t] = "none" /\ op'[t] \in {"none", "cas"} /\ \A u \in Threads \ {t} : op'[u] = op[u] /\ arg'[u] = arg[u]
    BY <1>8 DEF Finish, Call
  <2>2. pc[t] = "final" /\ pc'[t] \in {"gqcs", "opened"} /\ \A u \in Threads \ {t} : pc'[u] = pc[u] /\ at'[u] = at[u]
    BY <1>8 DEF Finish, Home
  <2> QED BY <1>0, <1>8, <2>1, <2>2 DEF Finish, MovesFrom
<1>9. CASE CallerCalls(t)
  <2>1. op[t] = "none" /\ op'[t] \in {"send", "kill", "none"} /\ \A u \in Threads \ {t} : op'[u] = op[u] /\ arg'[u] = arg[u]
    BY <1>9, CallbackBegins DEF CallerCalls
  <2> QED BY <1>0, <1>9, <2>1 DEF CallerCalls, MovesFrom
<1> QED BY <1>1, <1>2, <1>3, <1>4, <1>5, <1>6, <1>7, <1>8, <1>9 DEF FrameMoves

-----------------------------------------------------------------------------
(* SerialIO.  The share of a thread and the kernel in a slot's one receive *)
(* and its one send.                                                       *)
RecvIo(r) == r["recvPend"] + r["recvOk"] + r["recvErr"]
SendIo(r) == r["sendPend"] + r["sendOk"] + r["sendErr"]

RecvHolders(s) == {t \in Threads : pc[t] \in RecvPC /\ at[t] = s}
SendHolders(s) == {t \in Threads : pc[t] \in SendPC /\ at[t] = s}

HasRecv(t, s) == pc[t] \in RecvPC /\ at[t] = s
HasSend(t, s) == pc[t] \in SendPC /\ at[t] = s

\* SerialIO with its sets and sums named.
LEMMA SerialNamed ==
  /\ SerialRecv <=> \A s \in Slots : RecvIo(io[s]) + Cardinality(RecvHolders(s)) <= 1
  /\ SerialSend <=> \A s \in Slots : SendIo(io[s]) + Cardinality(SendHolders(s)) <= SendFlag[s]
  BY DEF SerialRecv, SerialSend, RecvIo, SendIo, RecvHolders, SendHolders, RecvPC, SendPC

\* The same after a step.
LEMMA SerialNamedNext ==
  /\ SerialRecv' <=> \A s \in Slots : RecvIo(io'[s]) + Cardinality(RecvHolders(s)') <= 1
  /\ SerialSend' <=> \A s \in Slots : SendIo(io'[s]) + Cardinality(SendHolders(s)') <= SendFlag'[s]
  BY DEF SerialRecv, SerialSend, RecvIo, SendIo, RecvHolders, SendHolders, RecvPC, SendPC

\* Holders of a slot's receive and send are sets of threads, so they can be counted.
LEMMA TrafficFinite ==
  ASSUME NEW s \in Slots
  PROVE  /\ IsFiniteSet(RecvHolders(s)) /\ Cardinality(RecvHolders(s)) \in Nat
         /\ IsFiniteSet(SendHolders(s)) /\ Cardinality(SendHolders(s)) \in Nat
         /\ IsFiniteSet(RecvHolders(s)') /\ Cardinality(RecvHolders(s)') \in Nat
         /\ IsFiniteSet(SendHolders(s)') /\ Cardinality(SendHolders(s)') \in Nat
  BY ThreadAssumption, FS_Subset, FS_CardinalityType DEF RecvHolders, SendHolders

\* The sums of a slot's I/O are natural numbers.
LEMMA TrafficType ==
  ASSUME NetTypeOK, NEW s \in Slots
  PROVE  /\ io[s] \in [IoKind -> Nat]
         /\ RecvIo(io[s]) \in Nat /\ SendIo(io[s]) \in Nat
         /\ IoRefs(io[s]) >= RecvIo(io[s]) /\ IoRefs(io[s]) >= SendIo(io[s])
<1>1. io[s] \in [IoKind -> Nat]
  BY DEF NetTypeOK
<1> QED BY <1>1 DEF RecvIo, SendIo, IoRefs, IoKind

\* When only t moves, and what it and the kernel have of a slot's receive does not
\* grow, and of its send not more than the flag, receives and sends stay serial.
LEMMA SharesKeepSerial ==
  ASSUME SesTypeOK, SesTypeOK', SerialRecv, SerialSend, NEW t \in Threads, OnlyThread(t),
         \A s \in Slots : RecvIo(io'[s]) + Bit(HasRecv(t, s))' <= RecvIo(io[s]) + Bit(HasRecv(t, s)),
         \A s \in Slots : SendIo(io'[s]) + Bit(HasSend(t, s))' - SendFlag'[s]
                            <= SendIo(io[s]) + Bit(HasSend(t, s)) - SendFlag[s]
  PROVE  SerialRecv' /\ SerialSend'
<1>1. ASSUME NEW s \in Slots
      PROVE  /\ Cardinality(RecvHolders(s)') = Cardinality(RecvHolders(s)) - Bit(HasRecv(t, s)) + Bit(HasRecv(t, s))'
             /\ Cardinality(SendHolders(s)') = Cardinality(SendHolders(s)) - Bit(HasSend(t, s)) + Bit(HasSend(t, s))'
  <2>1. RecvHolders(s) \ {t} = RecvHolders(s)' \ {t} /\ SendHolders(s) \ {t} = SendHolders(s)' \ {t}
    BY DEF RecvHolders, SendHolders, OnlyThread
  <2>2. /\ (t \in RecvHolders(s) <=> HasRecv(t, s)) /\ (t \in RecvHolders(s)' <=> HasRecv(t, s)')
        /\ (t \in SendHolders(s) <=> HasSend(t, s)) /\ (t \in SendHolders(s)' <=> HasSend(t, s)')
    BY DEF RecvHolders, SendHolders, HasRecv, HasSend
  <2>3. Cardinality(RecvHolders(s)') = Cardinality(RecvHolders(s)) - Bit(t \in RecvHolders(s)) + Bit(t \in RecvHolders(s)')
    BY <2>1, TrafficFinite, CardChange
  <2>4. Cardinality(SendHolders(s)') = Cardinality(SendHolders(s)) - Bit(t \in SendHolders(s)) + Bit(t \in SendHolders(s)')
    BY <2>1, TrafficFinite, CardChange
  <2> QED BY <2>2, <2>3, <2>4 DEF Bit
<1>2. ASSUME NEW s \in Slots
      PROVE  /\ RecvIo(io'[s]) + Cardinality(RecvHolders(s)') <= 1
             /\ SendIo(io'[s]) + Cardinality(SendHolders(s)') <= SendFlag'[s]
  <2>1. /\ RecvIo(io[s]) \in Nat /\ SendIo(io[s]) \in Nat /\ RecvIo(io'[s]) \in Nat /\ SendIo(io'[s]) \in Nat
    BY TrafficType DEF SesTypeOK, NetTypeOK, RecvIo, SendIo, IoKind
  <2>2. /\ SendFlag[s] \in Int /\ SendFlag'[s] \in Int
        /\ Bit(HasRecv(t, s)) \in Int /\ Bit(HasRecv(t, s))' \in Int
        /\ Bit(HasSend(t, s)) \in Int /\ Bit(HasSend(t, s))' \in Int
    BY DEF SesTypeOK, SendTypeOK, Bit
  <2>3. /\ RecvIo(io[s]) + Cardinality(RecvHolders(s)) <= 1
        /\ SendIo(io[s]) + Cardinality(SendHolders(s)) <= SendFlag[s]
    BY SerialNamed
  <2>4. /\ RecvIo(io'[s]) + Bit(HasRecv(t, s))' <= RecvIo(io[s]) + Bit(HasRecv(t, s))
        /\ SendIo(io'[s]) + Bit(HasSend(t, s))' - SendFlag'[s]
             <= SendIo(io[s]) + Bit(HasSend(t, s)) - SendFlag[s]
    OBVIOUS
  <2> HIDE DEF RecvIo, SendIo, HasRecv, HasSend, RecvHolders, SendHolders
  <2>5. RecvIo(io'[s]) + Cardinality(RecvHolders(s)') <= 1
    BY ONLY <1>1, <2>1, <2>2, <2>3, <2>4, TrafficFinite, s \in Slots
  <2>6. SendIo(io'[s]) + Cardinality(SendHolders(s)') <= SendFlag'[s]
    BY ONLY <1>1, <2>1, <2>2, <2>3, <2>4, TrafficFinite, s \in Slots
  <2> QED BY <2>5, <2>6
<1> QED BY <1>2, SerialNamedNext

\* What a step of the outer frame from l to m, at the same slot, does to the shares.
LEMMA SharesOf ==
  ASSUME NEW t \in Threads, NEW s \in Slots
  PROVE  /\ Bit(HasRecv(t, s)) = IF pc[t] \in RecvPC /\ at[t] = s THEN 1 ELSE 0
         /\ Bit(HasSend(t, s)) = IF pc[t] \in SendPC /\ at[t] = s THEN 1 ELSE 0
         /\ Bit(HasRecv(t, s))' = IF pc'[t] \in RecvPC /\ at'[t] = s THEN 1 ELSE 0
         /\ Bit(HasSend(t, s))' = IF pc'[t] \in SendPC /\ at'[t] = s THEN 1 ELSE 0
  BY DEF Bit, HasRecv, HasSend

\* Steps that only move a thread on keep receives and sends serial.
LEMMA MovesSerial ==
  ASSUME SesTypeOK, SesTypeOK', SerialRecv, SerialSend, NEW t \in Threads, Moves(t)
  PROVE  SerialRecv' /\ SerialSend'
<1>1. /\ pc'[t] \in RecvPC => pc[t] \in RecvPC /\ at'[t] = at[t]
      /\ pc'[t] \in SendPC => pc[t] \in SendPC /\ at'[t] = at[t]
  BY DEF Moves, MovesFrom, RecvPC, SendPC
<1>2. io' = io /\ SendFlag' = SendFlag /\ OnlyThread(t)
  BY DEF Moves, netVars, sendVars
<1>3. ASSUME NEW s \in Slots
      PROVE  Bit(HasRecv(t, s))' <= Bit(HasRecv(t, s)) /\ Bit(HasSend(t, s))' <= Bit(HasSend(t, s))
  BY <1>1, SharesOf
<1>4. ASSUME NEW s \in Slots
      PROVE  /\ RecvIo(io[s]) \in Int /\ SendIo(io[s]) \in Int /\ SendFlag[s] \in Int
             /\ Bit(HasRecv(t, s)) \in Int /\ Bit(HasRecv(t, s))' \in Int
             /\ Bit(HasSend(t, s)) \in Int /\ Bit(HasSend(t, s))' \in Int
  BY TrafficType DEF SesTypeOK, SendTypeOK, Bit
<1>5. ASSUME NEW s \in Slots
      PROVE  /\ RecvIo(io'[s]) + Bit(HasRecv(t, s))' <= RecvIo(io[s]) + Bit(HasRecv(t, s))
             /\ SendIo(io'[s]) + Bit(HasSend(t, s))' - SendFlag'[s]
                  <= SendIo(io[s]) + Bit(HasSend(t, s)) - SendFlag[s]
  BY ONLY <1>2, <1>3, <1>4, s \in Slots
<1> QED BY <1>2, <1>5, SharesKeepSerial

\* What the steps that write I/O do to it, kind by kind.
LEMMA IoSteps ==
  ASSUME NetTypeOK, NEW s \in Slots
  PROVE  /\ \A k \in IoKind : io' = [io EXCEPT ![s][k] = @ + 1] =>
              /\ \A r \in Slots \ {s} : io'[r] = io[r]
              /\ \A j \in IoKind : io'[s][j] = io[s][j] + Bit(j = k)
         /\ \A k \in IoKind : io' = [io EXCEPT ![s][k] = @ - 1] =>
              /\ \A r \in Slots \ {s} : io'[r] = io[r]
              /\ \A j \in IoKind : io'[s][j] = io[s][j] - Bit(j = k)
         /\ CancelIoEx(s) =>
              /\ \A r \in Slots \ {s} : io'[r] = io[r]
              /\ RecvIo(io'[s]) = RecvIo(io[s]) /\ SendIo(io'[s]) = SendIo(io[s])
              /\ io'[s]["recvPend"] = 0 /\ io'[s]["sendPend"] = 0
              /\ io'[s]["wake"] = io[s]["wake"] /\ io'[s]["sendOk"] = io[s]["sendOk"]
         /\ \A k, l \in IoKind : k # l /\ Complete(s, k, l) =>
              /\ \A r \in Slots \ {s} : io'[r] = io[r]
              /\ \A j \in IoKind : io'[s][j] = io[s][j] - Bit(j = k) + Bit(j = l)
<1>0. io[s] \in [IoKind -> Nat]
  BY DEF NetTypeOK
<1>1. ASSUME NEW k \in IoKind, io' = [io EXCEPT ![s][k] = @ + 1]
      PROVE  /\ \A r \in Slots \ {s} : io'[r] = io[r]
             /\ \A j \in IoKind : io'[s][j] = io[s][j] + Bit(j = k)
  BY <1>0, <1>1 DEF Bit, NetTypeOK
<1>2. ASSUME NEW k \in IoKind, io' = [io EXCEPT ![s][k] = @ - 1]
      PROVE  /\ \A r \in Slots \ {s} : io'[r] = io[r]
             /\ \A j \in IoKind : io'[s][j] = io[s][j] - Bit(j = k)
  BY <1>0, <1>2 DEF Bit, NetTypeOK
<1>3. ASSUME CancelIoEx(s)
      PROVE  /\ \A r \in Slots \ {s} : io'[r] = io[r]
             /\ RecvIo(io'[s]) = RecvIo(io[s]) /\ SendIo(io'[s]) = SendIo(io[s])
             /\ io'[s]["recvPend"] = 0 /\ io'[s]["sendPend"] = 0
             /\ io'[s]["wake"] = io[s]["wake"] /\ io'[s]["sendOk"] = io[s]["sendOk"]
  <2>1. io'[s] = Cancelled(io[s]) /\ \A r \in Slots \ {s} : io'[r] = io[r]
    BY <1>3 DEF CancelIoEx, NetTypeOK
  <2> QED BY <1>0, <2>1 DEF Cancelled, RecvIo, SendIo, IoKind
<1>4. ASSUME NEW k \in IoKind, NEW l \in IoKind, k # l, Complete(s, k, l)
      PROVE  /\ \A r \in Slots \ {s} : io'[r] = io[r]
             /\ \A j \in IoKind : io'[s][j] = io[s][j] - Bit(j = k) + Bit(j = l)
  <2>1. io'[s] = [io[s] EXCEPT ![k] = @ - 1, ![l] = @ + 1] /\ \A r \in Slots \ {s} : io'[r] = io[r]
    BY <1>4 DEF Complete, NetTypeOK
  <2> QED BY <1>0, <1>4, <2>1 DEF Bit
<1> QED BY <1>1, <1>2, <1>3, <1>4

\* A step of t's frame from l to m at slot s that writes that slot's I/O and flag.
LEMMA FrameSerial ==
  ASSUME SesTypeOK, SesTypeOK', SerialRecv, SerialSend, NEW t \in Threads, OnlyThread(t),
         NEW s \in Slots, NEW l, NEW m,
         pc[t] = l, pc'[t] = m, at'[t] = s, at[t] = s \/ l \notin RecvPC \cup SendPC,
         \A r \in Slots \ {s} : io'[r] = io[r] /\ SendFlag'[r] = SendFlag[r],
         RecvIo(io'[s]) + Bit(m \in RecvPC) <= RecvIo(io[s]) + Bit(l \in RecvPC),
         SendIo(io'[s]) + Bit(m \in SendPC) - SendFlag'[s]
           <= SendIo(io[s]) + Bit(l \in SendPC) - SendFlag[s]
  PROVE  SerialRecv' /\ SerialSend'
<1>1. ASSUME NEW r \in Slots
      PROVE  /\ Bit(HasRecv(t, r)) = IF l \in RecvPC /\ r = s THEN 1 ELSE 0
             /\ Bit(HasSend(t, r)) = IF l \in SendPC /\ r = s THEN 1 ELSE 0
             /\ Bit(HasRecv(t, r))' = IF m \in RecvPC /\ r = s THEN 1 ELSE 0
             /\ Bit(HasSend(t, r))' = IF m \in SendPC /\ r = s THEN 1 ELSE 0
  BY SharesOf
<1>2. ASSUME NEW r \in Slots
      PROVE  /\ RecvIo(io[r]) \in Int /\ SendIo(io[r]) \in Int
             /\ SendFlag[r] \in Int /\ SendFlag'[r] \in Int
  BY TrafficType DEF SesTypeOK, SendTypeOK
<1>3. ASSUME NEW r \in Slots
      PROVE  /\ RecvIo(io'[r]) + Bit(HasRecv(t, r))' <= RecvIo(io[r]) + Bit(HasRecv(t, r))
             /\ SendIo(io'[r]) + Bit(HasSend(t, r))' - SendFlag'[r]
                  <= SendIo(io[r]) + Bit(HasSend(t, r)) - SendFlag[r]
  <2>1. CASE r = s
    BY <1>1, <2>1 DEF Bit
  <2>2. CASE r # s
    BY <1>1, <1>2, <2>2
  <2> QED BY <2>1, <2>2
<1> QED BY <1>3, SharesKeepSerial

\* Where the frames stand that the two serial activities count.
LEMMA SerialPoints ==
  /\ RecvPC = {"join", "parse", "rpUse", "rpRef", "rpRecv"}
  /\ SendPC = {"spSize", "spUnlock", "spFill", "spSend", "sent", "sentUnlock"}
  /\ RecvPC \subseteq WorkingPC /\ SendPC \subseteq WorkingPC
  BY DEF RecvPC, SendPC, WorkingPC, RecvPostPC, SendPostPC

\* A released slot has neither a receive nor a send.
LEMMA ReleasedIdle ==
  ASSUME SesInv, NEW s \in Slots, ReleaseFlag[s]
  PROVE  /\ RecvIo(io[s]) = 0 /\ SendIo(io[s]) = 0 /\ IoRefs(io[s]) = 0
         /\ \A u \in Threads : at[u] = s => pc[u] \notin WorkingPC
         /\ \A u \in Threads : Target(u) = s => op[u] \notin GuardedOp
         /\ RecvHolders(s) = {} /\ SendHolders(s) = {}
<1>1. NetTypeOK /\ IoRefs(io[s]) \in Nat /\ ~(IoRefs(io[s]) > 0)
  BY CountingFacts DEF SesInv, SesTypeOK, NoUseAfterRelease
<1>2. RecvIo(io[s]) = 0 /\ SendIo(io[s]) = 0 /\ IoRefs(io[s]) = 0
  BY <1>1, TrafficType
<1>3. /\ \A u \in Threads : at[u] = s => pc[u] \notin WorkingPC
      /\ \A u \in Threads : Target(u) = s => op[u] \notin GuardedOp
  BY DEF SesInv, NoUseAfterRelease
<1> QED BY <1>2, <1>3, SerialPoints DEF RecvHolders, SendHolders

\* The calls of the public API write no flag and post neither receive nor send.
LEMMA CallSerial ==
  ASSUME SesTypeOK, SesTypeOK', SerialRecv, SerialSend, NEW t \in Threads, CallStep(t)
  PROVE  SerialRecv' /\ SerialSend'
<1>1. /\ pc' = pc /\ at' = at /\ SendFlag' = SendFlag
  BY DEF CallStep, CallGoto, SendPacketRef, SendPacketCheck, SendPacketEnqueue, SendPacketPost,
         SendPacketUndo, KillSessionRef, KillSessionCheck, KillSessionUse, KillSessionCancel,
         KillSessionDec, KillSessionUndo, DisconnectCas, DisconnectTo, OnClientLeave,
         ReleaseSession, ReleasePush, sendVars
<1>2. \A s \in Slots : RecvIo(io'[s]) = RecvIo(io[s]) /\ SendIo(io'[s]) = SendIo(io[s])
  <2>0. NetTypeOK /\ Target(t) \in Slots
    BY DEF SesTypeOK, ThrTypeOK, Target, FindSession
  <2>1. CASE SendPacketPost(t)
    <3>1. /\ \A r \in Slots \ {Target(t)} : io'[r] = io[r]
          /\ \A j \in IoKind : io'[Target(t)][j] = io[Target(t)][j] + Bit(j = "wake")
      BY <2>0, <2>1, IoSteps DEF SendPacketPost, IoKind
    <3>2. io[Target(t)] \in [IoKind -> Nat]
      BY <2>0, TrafficType
    <3> QED BY <3>1, <3>2 DEF RecvIo, SendIo, IoKind, Bit
  <2>2. CASE KillSessionCancel(t)
    BY <2>0, <2>2, IoSteps DEF KillSessionCancel
  <2>3. CASE ~SendPacketPost(t) /\ ~KillSessionCancel(t)
    BY <2>3 DEF CallStep, SendPacketRef, SendPacketCheck, SendPacketEnqueue,
         SendPacketUndo, KillSessionRef, KillSessionCheck, KillSessionUse,
         KillSessionDec, KillSessionUndo, DisconnectCas, DisconnectTo, OnClientLeave,
         ReleaseSession, ReleasePush, netVars
  <2> QED BY <2>1, <2>2, <2>3
<1>3. \A s \in Slots : RecvHolders(s)' = RecvHolders(s) /\ SendHolders(s)' = SendHolders(s)
  BY <1>1 DEF RecvHolders, SendHolders
<1> QED BY <1>1, <1>2, <1>3, SerialNamed, SerialNamedNext

\* The steps of RecvPost and SendPost that write, and what follows a send.
LEMMA PostSerial ==
  ASSUME SesTypeOK, SesTypeOK', SerialRecv, SerialSend, NEW t \in Threads,
         \/ RecvPostRecv(t) \/ RecvPostCancel(t)
         \/ SendPostLock(t) \/ SendPostUnlock(t) \/ SendPostFill(t)
         \/ SendPostSend(t) \/ SendPostCancel(t) \/ SendDoneFree(t) \/ SendDoneUnlock(t)
  PROVE  SerialRecv' /\ SerialSend'
<1> DEFINE s == at[t]
<1>0. /\ s \in Slots /\ NetTypeOK /\ io[s] \in [IoKind -> Nat]
      /\ SendFlag[s] \in {0, 1} /\ SendFlag \in [Slots -> {0, 1}]
      /\ pc \in [Threads -> PC] /\ RecvIo(io[s]) \in Int /\ SendIo(io[s]) \in Int
  BY TrafficType DEF SesTypeOK, ThrTypeOK, SendTypeOK
<1> USE <1>0, SerialPoints DEF Goto, Runs, OnlyThread, Bit
<1>1. CASE RecvPostRecv(t)
  <2>1. /\ \A r \in Slots \ {s} : io'[r] = io[r]
        /\ \A j \in IoKind : io'[s][j] = io[s][j] + Bit(j = "recvPend")
    BY <1>1, IoSteps DEF RecvPostRecv, IoKind
  <2>2. RecvIo(io'[s]) = RecvIo(io[s]) + 1 /\ SendIo(io'[s]) = SendIo(io[s])
    BY <2>1 DEF RecvIo, SendIo, IoKind
  <2> QED BY <1>1, <2>1, <2>2, FrameSerial DEF RecvPostRecv, sendVars
<1>2. CASE RecvPostCancel(t)
  <2>1. /\ \A r \in Slots \ {s} : io'[r] = io[r]
        /\ RecvIo(io'[s]) = RecvIo(io[s]) /\ SendIo(io'[s]) = SendIo(io[s])
    BY <1>2, IoSteps DEF RecvPostCancel
  <2> QED BY <1>2, <2>1, FrameSerial DEF RecvPostCancel, sendVars
<1>3. CASE SendPostLock(t)
  BY <1>3, FrameSerial DEF SendPostLock, netVars
<1>4. CASE SendPostUnlock(t)
  BY <1>4, FrameSerial DEF SendPostUnlock, netVars
<1>5. CASE SendPostFill(t)
  BY <1>5, FrameSerial DEF SendPostFill, SendPostFillTo, netVars
<1>6. CASE SendPostSend(t)
  <2>1. /\ \A r \in Slots \ {s} : io'[r] = io[r]
        /\ \A j \in IoKind : io'[s][j] = io[s][j] + Bit(j = "sendPend")
    BY <1>6, IoSteps DEF SendPostSend, IoKind
  <2>2. RecvIo(io'[s]) = RecvIo(io[s]) /\ SendIo(io'[s]) = SendIo(io[s]) + 1
    BY <2>1 DEF RecvIo, SendIo, IoKind
  <2> QED BY <1>6, <2>1, <2>2, FrameSerial DEF SendPostSend, sendVars
<1>7. CASE SendPostCancel(t)
  <2>1. /\ \A r \in Slots \ {s} : io'[r] = io[r]
        /\ RecvIo(io'[s]) = RecvIo(io[s]) /\ SendIo(io'[s]) = SendIo(io[s])
    BY <1>7, IoSteps DEF SendPostCancel
  <2> QED BY <1>7, <2>1, FrameSerial DEF SendPostCancel, sendVars
<1>8. CASE SendDoneFree(t)
  BY <1>8, FrameSerial DEF SendDoneFree, netVars
<1>9. CASE SendDoneUnlock(t)
  BY <1>9, FrameSerial DEF SendDoneUnlock, netVars
<1> QED BY ONLY <1>1, <1>2, <1>3, <1>4, <1>5, <1>6, <1>7, <1>8, <1>9,
      \/ RecvPostRecv(t) \/ RecvPostCancel(t)
      \/ SendPostLock(t) \/ SendPostUnlock(t) \/ SendPostFill(t)
      \/ SendPostSend(t) \/ SendPostCancel(t) \/ SendDoneFree(t) \/ SendDoneUnlock(t)

\* Opening a session: the slot has no receive and no send until the opener, about to
\* join it, is the holder of its first receive.
LEMMA OpenSerial ==
  ASSUME SesInv, SesTypeOK', SerialRecv, SerialSend, NEW t \in Threads, NEW a \in Slots,
         PopSession(t, a) \/ InitSession(t) \/ InitSessionPublish(t) \/ OnClientJoin(t)
  PROVE  SerialRecv' /\ SerialSend'
<1> DEFINE s == at[t]
<1>0. /\ SesTypeOK /\ s \in Slots /\ NetTypeOK
      /\ SendFlag \in [Slots -> {0, 1}] /\ pc \in [Threads -> PC] /\ at \in [Threads -> Slots]
      /\ \A r \in Slots : RecvIo(io[r]) \in Int /\ SendIo(io[r]) \in Int
  BY TrafficType DEF SesInv, SesTypeOK, ThrTypeOK, SendTypeOK
<1>1. CASE PopSession(t, a)
  <2>1. /\ OnlyThread(t) /\ pc[t] = "pop" /\ pc'[t] = "readID" /\ at'[t] = a
        /\ io' = io /\ SendFlag' = SendFlag
    BY <1>0, <1>1 DEF PopSession, Runs, OnlyThread, netVars, sendVars
  <2> QED BY <1>0, <2>1, FrameSerial, SerialPoints DEF Bit
<1>2. CASE OnClientJoin(t)
  <2>1. \A u \in Threads \ {t} : op'[u] = op[u] /\ arg'[u] = arg[u]
    BY <1>0, <1>2, CallbackBegins DEF OnClientJoin, Callback, Runs
  <2>2. /\ OnlyThread(t) /\ pc[t] = "join" /\ pc'[t] = "rpUse" /\ at'[t] = at[t]
        /\ io' = io /\ SendFlag' = SendFlag
    BY <1>0, <1>2, <2>1 DEF OnClientJoin, Runs, OnlyThread, netVars, sendVars
  <2> QED BY <1>0, <2>2, FrameSerial, SerialPoints DEF Bit
<1>3. ASSUME InitSession(t) \/ InitSessionPublish(t)
      PROVE  /\ RecvIo(io[s]) = 0 /\ SendIo(io[s]) = 0
             /\ RecvHolders(s) = {} /\ SendHolders(s) = {}
  <2>1. Opens(t, s)
    BY <1>3, PointFacts DEF InitSession, InitSessionPublish, Runs, Opens
  <2>2. ReleaseFlag[s]
    BY <1>0, <2>1 DEF SesInv, OneOwner
  <2> QED BY <1>0, <2>2, ReleasedIdle
<1>4. CASE InitSession(t)
  <2>1. /\ \A u \in Threads : pc'[u] = IF u = t THEN "initRef" ELSE pc[u]
        /\ at' = at /\ io' = io /\ pc[t] = "init"
        /\ \A r \in Slots : SendFlag'[r] = IF r = s THEN 0 ELSE SendFlag[r]
    BY <1>0, <1>4 DEF InitSession, Runs, netVars
  <2>2. \A r \in Slots : RecvHolders(r)' = RecvHolders(r) /\ SendHolders(r)' = SendHolders(r)
    BY <2>1, SerialPoints DEF RecvHolders, SendHolders
  <2>3. Cardinality(SendHolders(s)) = 0
    BY <1>3, <1>4, FS_EmptySet
  <2> QED BY <1>3, <1>4, <2>1, <2>2, <2>3, SerialNamed, SerialNamedNext
<1>5. CASE InitSessionPublish(t)
  <2>1. /\ \A u \in Threads : pc'[u] = IF u = t THEN "join" ELSE pc[u]
        /\ at' = at /\ io' = io /\ pc[t] = "publish" /\ SendFlag' = SendFlag
    BY <1>0, <1>5 DEF InitSessionPublish, Runs, Goto, netVars, sendVars
  <2>2. /\ \A r \in Slots \ {s} : RecvHolders(r)' = RecvHolders(r)
        /\ \A r \in Slots : SendHolders(r)' = SendHolders(r)
    BY <2>1, SerialPoints DEF RecvHolders, SendHolders
  <2>3. RecvHolders(s)' = {t}
    BY <1>3, <1>5, <2>1, SerialPoints DEF RecvHolders
  <2>4. Cardinality(RecvHolders(s)') = 1
    BY <2>3, FS_Singleton
  <2> QED BY <1>3, <1>5, <2>1, <2>2, <2>4, SerialNamed, SerialNamedNext
<1> QED BY <1>1, <1>2, <1>4, <1>5

\* A worker takes a completion over.
LEMMA GqcsSerial ==
  ASSUME SesTypeOK, SesTypeOK', SerialRecv, SerialSend, NEW t \in Threads, GqcsStep(t)
  PROVE  SerialRecv' /\ SerialSend'
<1>1. PICK s \in Slots : GqcsServes(t, s)
  BY DEF GqcsStep
<1>0. /\ NetTypeOK /\ io[s] \in [IoKind -> Nat] /\ RecvIo(io[s]) \in Int /\ SendIo(io[s]) \in Int
      /\ pc \in [Threads -> PC] /\ at \in [Threads -> Slots] /\ SendFlag[s] \in {0, 1}
  BY TrafficType DEF SesTypeOK, ThrTypeOK, SendTypeOK
<1>2. ASSUME NEW k \in IoKind, NEW l, Gqcs(t, s, k, l),
             Bit(l \in RecvPC) <= Bit(k \in {"recvPend", "recvOk", "recvErr"}),
             Bit(l \in SendPC) <= Bit(k \in {"sendPend", "sendOk", "sendErr"})
      PROVE  SerialRecv' /\ SerialSend'
  <2>1. /\ \A r \in Slots \ {s} : io'[r] = io[r]
        /\ \A j \in IoKind : io'[s][j] = io[s][j] - Bit(j = k)
    BY <1>0, <1>2, IoSteps DEF Gqcs
  <2>2. /\ RecvIo(io'[s]) = RecvIo(io[s]) - Bit(k \in {"recvPend", "recvOk", "recvErr"})
        /\ SendIo(io'[s]) = SendIo(io[s]) - Bit(k \in {"sendPend", "sendOk", "sendErr"})
    BY <1>0, <2>1 DEF RecvIo, SendIo, IoKind, Bit
  <2>3. /\ OnlyThread(t) /\ pc[t] = "gqcs" /\ pc'[t] = l /\ at'[t] = s /\ SendFlag' = SendFlag
    BY <1>0, <1>2 DEF Gqcs, Runs, OnlyThread, sendVars
  <2>4. "gqcs" \notin RecvPC \cup SendPC
    BY SerialPoints
  <2>5. /\ RecvIo(io'[s]) + Bit(l \in RecvPC) <= RecvIo(io[s]) + Bit("gqcs" \in RecvPC)
        /\ SendIo(io'[s]) + Bit(l \in SendPC) - SendFlag'[s]
             <= SendIo(io[s]) + Bit("gqcs" \in SendPC) - SendFlag[s]
    BY <1>0, <1>2, <2>2, <2>3, <2>4 DEF Bit
  <2> QED BY <2>1, <2>3, <2>4, <2>5, FrameSerial
<1>3. {"recvOk", "recvErr", "sendOk", "sendErr", "wake"} \subseteq IoKind
  BY DEF IoKind
<1>4. Gqcs(t, s, "recvOk", "parse") => SerialRecv' /\ SerialSend'
  BY <1>2, <1>3, SerialPoints DEF Bit
<1>5. Gqcs(t, s, "sendOk", "sent") => SerialRecv' /\ SerialSend'
  BY <1>2, <1>3, SerialPoints DEF Bit
<1>6. Gqcs(t, s, "wake", "spRef") => SerialRecv' /\ SerialSend'
  BY <1>2, <1>3, SerialPoints DEF Bit
<1>7. Gqcs(t, s, "recvErr", "final") \/ Gqcs(t, s, "sendErr", "final") => SerialRecv' /\ SerialSend'
  BY <1>2, <1>3, SerialPoints DEF Bit
<1> QED BY <1>1, <1>4, <1>5, <1>6, <1>7 DEF GqcsServes, GqcsRecv, GqcsSend, GqcsWake, GqcsFailed

\* The kernel completes what was posted.
LEMMA KernelSerial ==
  ASSUME SesTypeOK, SerialRecv, SerialSend, NEW s \in Slots, KernelStep(s)
  PROVE  SerialRecv' /\ SerialSend'
<1>0. NetTypeOK /\ io[s] \in [IoKind -> Nat]
  BY TrafficType DEF SesTypeOK
<1>1. UNCHANGED <<pc, at, SendFlag>>
  BY DEF KernelStep, DataArrives, RecvBreaks, SendCompletes, SendBreaks, Complete, PeerGone,
         thrVars, sendVars
<1>2. \A r \in Slots : RecvHolders(r)' = RecvHolders(r) /\ SendHolders(r)' = SendHolders(r)
  BY <1>1 DEF RecvHolders, SendHolders
<1>3. \A r \in Slots : RecvIo(io'[r]) = RecvIo(io[r]) /\ SendIo(io'[r]) = SendIo(io[r])
  <2>1. ASSUME NEW k \in IoKind, NEW l \in IoKind, k # l, Complete(s, k, l),
               {k, l} \subseteq {"recvPend", "recvOk", "recvErr"}
                 \/ {k, l} \subseteq {"sendPend", "sendOk", "sendErr"}
        PROVE  \A r \in Slots : RecvIo(io'[r]) = RecvIo(io[r]) /\ SendIo(io'[r]) = SendIo(io[r])
    <3>1. /\ \A r \in Slots \ {s} : io'[r] = io[r]
          /\ \A j \in IoKind : io'[s][j] = io[s][j] - Bit(j = k) + Bit(j = l)
      BY <1>0, <2>1, IoSteps
    <3>2. RecvIo(io'[s]) = RecvIo(io[s]) /\ SendIo(io'[s]) = SendIo(io[s])
      BY <1>0, <2>1, <3>1 DEF RecvIo, SendIo, IoKind, Bit
    <3> QED BY <3>1, <3>2
  <2>2. {"recvPend", "recvOk", "recvErr", "sendPend", "sendOk", "sendErr"} \subseteq IoKind
    BY DEF IoKind
  <2>3. CASE PeerGone(s)
    BY <2>3 DEF PeerGone
  <2> QED BY <2>1, <2>2, <2>3 DEF KernelStep, DataArrives, RecvBreaks, SendCompletes, SendBreaks
<1> QED BY <1>1, <1>2, <1>3, SerialNamed, SerialNamedNext

-----------------------------------------------------------------------------
(* SendBuffer, the send queue and the packets they refer to.               *)
Unsent(r) == r["sendPend"] + r["sendOk"]
Empty(s) == SendQ[s] = 0 /\ SendPacketCnt[s] = 0

\* SendPacketCnt is what the holder of SendFlag takes it to be, and the queue still
\* has what SendPost counted.
BufferInv ==
  /\ \A s \in Slots : Unsent(io[s]) > 0 => SendPacketCnt[s] > 0
  /\ \A s \in Slots : SendFlag[s] = 0 => SendPacketCnt[s] = 0
  /\ \A t \in Threads :
       /\ pc[t] \in {"spSize", "spUnlock", "spFill", "sentUnlock"} => SendPacketCnt[at[t]] = 0
       /\ pc[t] = "spSend" => SendPacketCnt[at[t]] > 0
       /\ pc[t] = "spFill" => tmp[t] \in 1 .. SendQ[at[t]]

\* Every packet reference of a slot is in its queue or its SendBuffer, and both are
\* empty while the slot is nobody's, being opened, or given back.
PacketInv ==
  /\ \A s \in Slots : pktRefs[s] = SendQ[s] + SendPacketCnt[s]
  /\ \A s \in FreeSessionStack : SessionID[s] = 0 /\ Empty(s)
  /\ \A t \in Threads :
       /\ pc[t] \in OpeningPC => Empty(at[t])
       /\ pc[t] \in {"initRef", "publish"} => SendFlag[at[t]] = 0
       /\ op[t] = "push" => SessionID[Target(t)] = 0 /\ Empty(Target(t))

\* The holder of SendFlag: nobody else sends for the slot.
LEMMA SenderAlone ==
  ASSUME SesTypeOK, SerialSend, NEW t \in Threads, pc[t] \in SendPC
  PROVE  /\ SendFlag[at[t]] = 1 /\ SendIo(io[at[t]]) = 0
         /\ \A u \in Threads \ {t} : at[u] = at[t] => pc[u] \notin SendPC
<1> DEFINE s == at[t]
<1>1. /\ s \in Slots /\ SendFlag[s] \in {0, 1} /\ SendIo(io[s]) \in Nat
      /\ SendIo(io[s]) + Cardinality(SendHolders(s)) <= SendFlag[s]
  BY TrafficType, SerialNamed DEF SesTypeOK, SendTypeOK, ThrTypeOK
<1>2. IsFiniteSet(SendHolders(s)) /\ Cardinality(SendHolders(s)) \in Nat /\ t \in SendHolders(s)
  BY <1>1, TrafficFinite DEF SendHolders
<1>3. /\ IsFiniteSet(SendHolders(s) \ {t})
      /\ Cardinality(SendHolders(s) \ {t}) = Cardinality(SendHolders(s)) - 1
  BY <1>2, FS_RemoveElement
<1>4. Cardinality(SendHolders(s) \ {t}) \in Nat
  BY <1>3, FS_CardinalityType
<1>5. SendFlag[s] = 1 /\ SendIo(io[s]) = 0 /\ Cardinality(SendHolders(s) \ {t}) = 0
  BY <1>1, <1>2, <1>3, <1>4
<1>6. SendHolders(s) \ {t} = {}
  BY <1>3, <1>5, FS_EmptySet
<1> QED BY <1>5, <1>6 DEF SendHolders

\* Steps that only move a thread on.
LEMMA MovesBuffer ==
  ASSUME SesTypeOK, SesTypeOK', BufferInv, PacketInv, NEW t \in Threads, Moves(t)
  PROVE  BufferInv' /\ PacketInv'
<1>0. /\ UNCHANGED <<SendFlag, SendQ, SendPacketCnt, pktRefs, SessionID, FreeSessionStack, io>>
      /\ OnlyThread(t) /\ \A u \in Threads \ {t} : tmp'[u] = tmp[u]
      /\ at[t] \in Slots /\ SendQ[at[t]] \in Nat
  BY DEF Moves, idVars, sendVars, netVars, SesTypeOK, ThrTypeOK, SendTypeOK
<1>1. \A u \in Threads :
        /\ pc'[u] \in {"spSize", "spUnlock", "spFill", "sentUnlock"} => SendPacketCnt[at'[u]] = 0
        /\ pc'[u] = "spSend" => SendPacketCnt[at'[u]] > 0
        /\ pc'[u] = "spFill" => tmp'[u] \in 1 .. SendQ[at'[u]]
  BY <1>0 DEF Moves, MovesFrom, BufferInv, OnlyThread
<1>2. \A u \in Threads :
        /\ pc'[u] \in OpeningPC => Empty(at'[u])
        /\ pc'[u] \in {"initRef", "publish"} => SendFlag[at'[u]] = 0
  BY <1>0 DEF Moves, MovesFrom, PacketInv, OnlyThread, OpeningPC
<1>3. \A u \in Threads : op'[u] = "push" => op[u] = "push" /\ Target(u)' = Target(u)
  BY <1>0 DEF Moves, OnlyThread, OwingOp, Target, FindSession
<1>4. BufferInv'
  BY <1>0, <1>1 DEF BufferInv
<1>5. PacketInv'
  BY <1>0, <1>2, <1>3 DEF PacketInv, Empty
<1> QED BY <1>4, <1>5

\* Steps that write neither queue nor buffer, add nothing to what is to be sent, and
\* end at a point of the program that asks nothing of them.
LEMMA QuietBuffer ==
  ASSUME SesTypeOK, SesTypeOK', BufferInv, PacketInv, NEW t \in Threads, OnlyThread(t),
         \A u \in Threads \ {t} : tmp'[u] = tmp[u],
         UNCHANGED <<SendFlag, SendQ, SendPacketCnt, pktRefs, SessionID>>,
         FreeSessionStack' \subseteq FreeSessionStack,
         \A s \in Slots : Unsent(io'[s]) > 0 => Unsent(io[s]) > 0,
         \/ pc'[t] = pc[t] /\ at'[t] = at[t] /\ tmp'[t] = tmp[t]
         \/ pc'[t] \notin {"spSize", "spUnlock", "spFill", "sentUnlock", "spSend"} \cup OpeningPC,
         op'[t] # "push"
  PROVE  BufferInv' /\ PacketInv'
<1>1. BufferInv'
  BY DEF BufferInv, OnlyThread
<1>2. \A u \in Threads : op'[u] = "push" => op[u] = "push" /\ Target(u)' = Target(u)
  BY DEF OnlyThread, Target, FindSession
<1>3. \A u \in Threads : pc'[u] \in OpeningPC => pc'[u] = pc[u] /\ at'[u] = at[u]
  BY DEF OnlyThread
<1>4. "initRef" \in OpeningPC /\ "publish" \in OpeningPC
  BY DEF OpeningPC
<1>5. PacketInv'
  BY <1>2, <1>3, <1>4 DEF PacketInv, Empty
<1> QED BY <1>1, <1>5

\* What the writing steps add to the unsent operations of a slot.
LEMMA UnsentSteps ==
  ASSUME NetTypeOK, NEW s \in Slots
  PROVE  /\ \A k \in IoKind \ {"sendPend", "sendOk"} : io' = [io EXCEPT ![s][k] = @ + 1] =>
              \A r \in Slots : Unsent(io'[r]) = Unsent(io[r])
         /\ \A k \in IoKind : io' = [io EXCEPT ![s][k] = @ - 1] =>
              \A r \in Slots : Unsent(io'[r]) <= Unsent(io[r])
         /\ CancelIoEx(s) => \A r \in Slots : Unsent(io'[r]) <= Unsent(io[r])
         /\ io' = [io EXCEPT ![s]["sendPend"] = @ + 1] =>
              \A r \in Slots \ {s} : io'[r] = io[r]
         /\ \A r \in Slots : Unsent(io[r]) \in Nat /\ Unsent(io[r]) <= SendIo(io[r])
<1>1. \A r \in Slots : io[r] \in [IoKind -> Nat]
  BY DEF NetTypeOK
<1>2. {"sendPend", "sendOk", "sendErr"} \subseteq IoKind
  BY DEF IoKind
<1>3. \A r \in Slots : Unsent(io[r]) \in Nat /\ Unsent(io[r]) <= SendIo(io[r])
  BY <1>1, <1>2 DEF Unsent, SendIo
<1>4. ASSUME NEW k \in IoKind \ {"sendPend", "sendOk"}, io' = [io EXCEPT ![s][k] = @ + 1]
      PROVE  \A r \in Slots : Unsent(io'[r]) = Unsent(io[r])
  <2>1. /\ \A r \in Slots \ {s} : io'[r] = io[r]
        /\ \A j \in IoKind : io'[s][j] = io[s][j] + Bit(j = k)
    BY <1>4, IoSteps
  <2>2. Unsent(io'[s]) = Unsent(io[s])
    BY <1>1, <1>2, <2>1 DEF Unsent, Bit
  <2> QED BY <2>1, <2>2
<1>5. ASSUME NEW k \in IoKind, io' = [io EXCEPT ![s][k] = @ - 1]
      PROVE  \A r \in Slots : Unsent(io'[r]) <= Unsent(io[r])
  <2>1. /\ \A r \in Slots \ {s} : io'[r] = io[r]
        /\ \A j \in IoKind : io'[s][j] = io[s][j] - Bit(j = k)
    BY <1>5, IoSteps
  <2>2. Unsent(io'[s]) <= Unsent(io[s])
    BY <1>1, <1>2, <2>1 DEF Unsent, Bit
  <2> QED BY <1>3, <2>1, <2>2
<1>6. ASSUME CancelIoEx(s)
      PROVE  \A r \in Slots : Unsent(io'[r]) <= Unsent(io[r])
  <2>1. /\ \A r \in Slots \ {s} : io'[r] = io[r]
        /\ io'[s]["sendPend"] = 0 /\ io'[s]["sendOk"] = io[s]["sendOk"]
    BY <1>6, IoSteps
  <2>2. Unsent(io'[s]) <= Unsent(io[s])
    BY <1>1, <1>2, <2>1 DEF Unsent
  <2> QED BY <1>3, <2>1, <2>2
<1>7. io' = [io EXCEPT ![s]["sendPend"] = @ + 1] => \A r \in Slots \ {s} : io'[r] = io[r]
  BY <1>2, IoSteps
<1> QED BY <1>3, <1>4, <1>5, <1>6, <1>7

\* The calls of the public API, from the enqueue of a packet to the push of the slot.
LEMMA CallBuffer ==
  ASSUME SesInv, SesTypeOK', BufferInv, PacketInv, NEW t \in Threads,
         \/ SendPacketEnqueue(t) \/ SendPacketPost(t) \/ KillSessionUse(t) \/ KillSessionCancel(t)
         \/ DisconnectCas(t) \/ OnClientLeave(t) \/ ReleaseSession(t) \/ ReleasePush(t)
  PROVE  BufferInv' /\ PacketInv'
<1> DEFINE s == Target(t)
<1>0. /\ SesTypeOK /\ NetTypeOK /\ s \in Slots /\ op[t] \in Op /\ arg[t] \in Slots \X Nat
      /\ \A r \in Slots : Unsent(io[r]) \in Nat
      /\ \A u \in Threads : at[u] \in Slots /\ tmp[u] \in Nat
      /\ \A r \in Slots : SendQ[r] \in Nat /\ SendPacketCnt[r] \in Nat /\ pktRefs[r] \in Int
      /\ FreeSessionStack \subseteq Slots
  BY UnsentSteps DEF SesInv, SesTypeOK, ThrTypeOK, SendTypeOK, IdTypeOK, Target, FindSession
<1>f. UNCHANGED <<pc, at, tmp, SendFlag>> /\ OnlyThread(t)
  BY <1>0 DEF SendPacketEnqueue, SendPacketPost, KillSessionUse, KillSessionCancel, DisconnectCas, DisconnectTo, OnClientLeave,
         ReleaseSession, ReleasePush, CallGoto, OnlyThread, sendVars, SesTypeOK, ThrTypeOK
<1>1. CASE SendPacketEnqueue(t)
  <2>1. ~ReleaseFlag[s]
    BY <1>0, <1>1 DEF SendPacketEnqueue, InCall, SesInv, NoUseAfterRelease, GuardedOp
  <2>2. s \notin FreeSessionStack /\ \A u \in Threads : ~Opens(u, s) /\ ~Releases(u, s)
    BY <1>0, <2>1 DEF SesInv, OneOwner
  <2>3. /\ \A r \in Slots : SendQ'[r] = IF r = s THEN SendQ[r] + 1 ELSE SendQ[r]
        /\ \A r \in Slots : pktRefs'[r] = IF r = s THEN pktRefs[r] + 1 ELSE pktRefs[r]
        /\ UNCHANGED <<io, SendPacketCnt, SessionID, FreeSessionStack>>
        /\ op'[t] = "sendPost"
    BY <1>0, <1>1 DEF SendPacketEnqueue, CallGoto, idVars, netVars, SesTypeOK, SendTypeOK, ThrTypeOK
  <2>4. BufferInv'
    BY <1>0, <1>f, <2>3 DEF BufferInv
  <2>5. \A u \in Threads : op'[u] = "push" => op[u] = "push" /\ Target(u)' = Target(u) /\ Target(u) # s
    BY <1>f, <2>2, <2>3 DEF OnlyThread, Target, FindSession, Releases, ReleaseOp
  <2>6. \A u \in Threads : pc[u] \in OpeningPC => at[u] # s
    BY <2>2 DEF Opens
  <2>7. ASSUME NEW r \in Slots PROVE pktRefs'[r] = SendQ'[r] + SendPacketCnt'[r]
    <3>1. pktRefs[r] = SendQ[r] + SendPacketCnt[r] /\ SendQ[r] \in Int /\ SendPacketCnt[r] \in Int
      BY <1>0 DEF PacketInv
    <3> HIDE DEF s
    <3> QED BY ONLY <2>3, <3>1, r \in Slots
  <2>8. \A r \in FreeSessionStack : SendQ'[r] = SendQ[r]
    BY <1>0, <2>2, <2>3
  <2>9. \A u \in Threads : pc[u] \in OpeningPC => SendQ'[at[u]] = SendQ[at[u]]
    BY <1>0, <2>3, <2>6
  <2>10. \A u \in Threads : op'[u] = "push" => SendQ'[Target(u)] = SendQ[Target(u)] /\ Target(u) \in Slots
    BY <1>0, <2>3, <2>5 DEF SesTypeOK, ThrTypeOK, Target, FindSession
  <2>11. PacketInv'
    BY <1>f, <2>3, <2>5, <2>7, <2>8, <2>9, <2>10 DEF PacketInv, Empty
  <2> QED BY <2>4, <2>11
<1>2. CASE SendPacketPost(t)
  <2>1. \A r \in Slots : Unsent(io'[r]) = Unsent(io[r])
    BY <1>0, <1>2, UnsentSteps DEF SendPacketPost, IoKind
  <2> QED BY <1>0, <1>2, <1>f, <2>1, QuietBuffer DEF SendPacketPost, CallGoto, idVars, sendVars, SesTypeOK, ThrTypeOK
<1>3. CASE KillSessionUse(t) \/ DisconnectCas(t) \/ OnClientLeave(t)
  <2>1. /\ UNCHANGED <<SendFlag, SendQ, SendPacketCnt, pktRefs, SessionID, FreeSessionStack, io>> /\ op'[t] # "push"
    BY <1>0, <1>3 DEF KillSessionUse, DisconnectCas, DisconnectTo, OnClientLeave, CallGoto,
       idVars, sendVars, netVars, SesTypeOK, ThrTypeOK
  <2> QED BY <1>0, <1>f, <2>1, QuietBuffer
<1>4. CASE KillSessionCancel(t)
  <2>1. \A r \in Slots : Unsent(io'[r]) <= Unsent(io[r])
    BY <1>0, <1>4, UnsentSteps DEF KillSessionCancel
  <2>2. \A r \in Slots : Unsent(io'[r]) > 0 => Unsent(io[r]) > 0
    <3>1. NetTypeOK'
      BY DEF SesTypeOK
    <3>2. \A r \in Slots : Unsent(io'[r]) \in Nat
      BY <3>1 DEF Unsent, NetTypeOK, IoKind
    <3> QED BY <1>0, <2>1, <3>2
  <2> QED BY <1>0, <1>4, <1>f, <2>2, QuietBuffer DEF KillSessionCancel, CallGoto, idVars, sendVars, SesTypeOK, ThrTypeOK
<1>5. CASE ReleaseSession(t)
  <2>1. Releases(t, s) /\ ReleaseFlag[s]
    BY <1>0, <1>5 DEF ReleaseSession, InCall, Releases, ReleaseOp, SesInv, OneOwner
  <2>2. /\ Unsent(io[s]) = 0 /\ s \notin FreeSessionStack
        /\ \A u \in Threads : at[u] = s => pc[u] \notin WorkingPC \cup OpeningPC
        /\ \A u \in Threads \ {t} : ~Releases(u, s)
    <3>1. SendIo(io[s]) = 0 /\ \A u \in Threads : at[u] = s => pc[u] \notin WorkingPC
      BY <1>0, <2>1, ReleasedIdle
    <3>2. Unsent(io[s]) = 0
      BY <1>0, <3>1, UnsentSteps
    <3>3. s \notin FreeSessionStack /\ \A u \in Threads \ {t} : ~Releases(u, s) /\ ~Opens(u, s)
      BY <1>0, <2>1 DEF SesInv, OneOwner
    <3>4. ~Opens(t, s)
      BY <1>5 DEF ReleaseSession, InCall, Opens, SesInv, OpeningAlone
    <3> QED BY <3>1, <3>2, <3>3, <3>4 DEF Opens
  <2>3. /\ \A r \in Slots : SendQ'[r] = IF r = s THEN 0 ELSE SendQ[r]
        /\ \A r \in Slots : SendPacketCnt'[r] = IF r = s THEN 0 ELSE SendPacketCnt[r]
        /\ \A r \in Slots : SessionID'[r] = IF r = s THEN 0 ELSE SessionID[r]
        /\ \A r \in Slots \ {s} : pktRefs'[r] = pktRefs[r]
        /\ pktRefs'[s] = pktRefs[s] - SendQ[s] - SendPacketCnt[s]
        /\ UNCHANGED <<io, FreeSessionStack, arg>>
    BY <1>0, <1>5 DEF ReleaseSession, CallGoto, SesTypeOK, SendTypeOK, IdTypeOK
  <2>4. \A u \in Threads : pc[u] \in WorkingPC \cup OpeningPC => at[u] \in Slots \ {s}
    BY <1>0, <2>2
  <2>5. {"spSize", "spUnlock", "spFill", "sentUnlock", "spSend"} \subseteq WorkingPC
        /\ {"initRef", "publish"} \subseteq OpeningPC
    BY PointFacts
  <2>6. BufferInv'
    BY <1>0, <1>f, <2>2, <2>3, <2>4, <2>5 DEF BufferInv
  <2>7. pktRefs'[s] = 0
    BY <1>0, <2>3 DEF PacketInv
  <2>8. \A r \in Slots : pktRefs'[r] = SendQ'[r] + SendPacketCnt'[r]
    BY <1>0, <2>3, <2>7 DEF PacketInv
  <2>9. \A r \in FreeSessionStack' : SessionID'[r] = 0 /\ Empty(r)'
    BY <1>0, <2>2, <2>3 DEF PacketInv, Empty
  <2>10. \A u \in Threads : /\ pc'[u] \in OpeningPC => Empty(at[u])'
                            /\ pc'[u] \in {"initRef", "publish"} => SendFlag'[at'[u]] = 0
    BY <1>f, <2>3, <2>4 DEF PacketInv, Empty
  <2>11. \A u \in Threads : op'[u] = "push" => SessionID'[Target(u)'] = 0 /\ Empty(Target(u))'
    <3> TAKE u \in Threads
    <3>1. CASE u = t
      BY <1>0, <2>3, <3>1 DEF Empty, Target, FindSession
    <3>2. CASE u # t /\ op'[u] = "push"
      <4>1. op[u] = "push" /\ Target(u)' = Target(u) /\ Target(u) \in Slots
        BY <1>0, <1>f, <3>2 DEF OnlyThread, Target, FindSession, SesTypeOK, ThrTypeOK
      <4> QED BY <2>3, <4>1 DEF PacketInv, Empty
    <3> QED BY <3>1, <3>2
  <2>12. PacketInv'
    BY <2>8, <2>9, <2>10, <2>11 DEF PacketInv
  <2> QED BY <2>6, <2>12
<1>6. CASE ReleasePush(t)
  <2>1. /\ op[t] = "push" /\ op'[t] = "none"
        /\ FreeSessionStack' = FreeSessionStack \cup {s}
        /\ UNCHANGED <<SendQ, SendPacketCnt, pktRefs, SessionID, io>>
    BY <1>0, <1>6 DEF ReleasePush, InCall, CallGoto, sendVars, netVars, SesTypeOK, ThrTypeOK
  <2>2. BufferInv'
    BY <1>f, <2>1 DEF BufferInv
  <2>3. \A u \in Threads : op'[u] = "push" => op[u] = "push" /\ Target(u)' = Target(u)
    BY <1>f, <2>1 DEF OnlyThread, Target, FindSession
  <2>4. PacketInv'
    BY <1>f, <2>1, <2>3 DEF PacketInv, Empty
  <2> QED BY <2>2, <2>4
<1> QED BY <1>1, <1>2, <1>3, <1>4, <1>5, <1>6

\* A slot that a thread works on is neither free nor being opened or released.
LEMMA WorkedOn ==
  ASSUME SesInv, NEW t \in Threads, pc[t] \in WorkingPC
  PROVE  /\ at[t] \in Slots /\ ~ReleaseFlag[at[t]] /\ at[t] \notin FreeSessionStack
         /\ \A u \in Threads : pc[u] \in OpeningPC => at[u] # at[t]
         /\ \A u \in Threads : op[u] \in ReleaseOp => Target(u) # at[t]
<1>1. at[t] \in Slots /\ ~ReleaseFlag[at[t]]
  BY DEF SesInv, SesTypeOK, ThrTypeOK, NoUseAfterRelease
<1> QED BY <1>1 DEF SesInv, OneOwner, Opens, Releases

\* Opening a session: its slot is empty until it is published.
LEMMA OpenBuffer ==
  ASSUME SesInv, SesTypeOK', BufferInv, PacketInv, NEW t \in Threads, NEW a \in Slots,
         PopSession(t, a) \/ InitSession(t) \/ InitSessionPublish(t) \/ OnClientJoin(t)
  PROVE  BufferInv' /\ PacketInv'
<1> DEFINE s == at[t]
<1>0. /\ SesTypeOK /\ s \in Slots /\ NetTypeOK /\ FreeSessionStack \subseteq Slots
      /\ pc \in [Threads -> PC] /\ at \in [Threads -> Slots] /\ op \in [Threads -> Op]
      /\ \A r \in Slots : SendQ[r] \in Nat /\ SendPacketCnt[r] \in Nat /\ pktRefs[r] \in Int
      /\ \A u \in Threads : Target(u) \in Slots
  BY DEF SesInv, SesTypeOK, ThrTypeOK, SendTypeOK, IdTypeOK, Target, FindSession
<1>p. /\ "join" \notin OpeningPC /\ "rpUse" \notin OpeningPC
      /\ {"spSize", "spUnlock", "spFill", "sentUnlock", "spSend"} \subseteq WorkingPC
      /\ {"init", "initRef", "publish", "readID"} = OpeningPC
  BY PointFacts DEF OpeningPC
<1>1. CASE PopSession(t, a)
  <2>1. /\ OnlyThread(t) /\ pc'[t] = "readID" /\ at'[t] = a /\ op'[t] = "none" /\ a \in FreeSessionStack
        /\ FreeSessionStack' \subseteq FreeSessionStack
        /\ UNCHANGED <<io, SendFlag, SendQ, SendPacketCnt, pktRefs, SessionID, tmp, op, arg>>
    BY <1>0, <1>1 DEF PopSession, Runs, OnlyThread, netVars, sendVars
  <2>2. BufferInv'
    BY <2>1 DEF BufferInv, OnlyThread
  <2>3. \A u \in Threads : op'[u] = "push" => op[u] = "push" /\ Target(u)' = Target(u)
    BY <2>1 DEF Target, FindSession
  <2>4. PacketInv'
    BY <2>1, <2>3 DEF PacketInv, OnlyThread, Empty
  <2> QED BY <2>2, <2>4
<1>2. CASE OnClientJoin(t)
  <2>1. op'[t] \in {"send", "kill", "none"} /\ \A u \in Threads \ {t} : op'[u] = op[u] /\ arg'[u] = arg[u]
    BY <1>0, <1>2, CallbackBegins DEF OnClientJoin, Callback, Runs
  <2>2. /\ OnlyThread(t) /\ pc'[t] = "rpUse" /\ op'[t] # "push"
        /\ UNCHANGED <<io, SendFlag, SendQ, SendPacketCnt, pktRefs, SessionID, FreeSessionStack, tmp>>
    BY <1>0, <1>2, <2>1 DEF OnClientJoin, OnlyThread, netVars, sendVars, idVars
  <2> QED BY <1>0, <1>p, <2>2, QuietBuffer
<1>3. CASE InitSessionPublish(t)
  <2>1. /\ OnlyThread(t) /\ pc'[t] = "join" /\ op'[t] # "push"
        /\ UNCHANGED <<io, SendFlag, SendQ, SendPacketCnt, pktRefs, SessionID, FreeSessionStack, tmp>>
    BY <1>0, <1>3 DEF InitSessionPublish, Goto, Runs, OnlyThread, netVars, sendVars
  <2> QED BY <1>0, <1>p, <2>1, QuietBuffer
<1>4. CASE InitSession(t)
  <2>1. Opens(t, s) /\ ReleaseFlag[s] /\ Empty(s)
    <3>1. Opens(t, s)
      BY <1>4, <1>p DEF InitSession, Runs, Opens
    <3> QED BY <1>0, <3>1 DEF SesInv, OneOwner, PacketInv, Opens
  <2>2. /\ s \notin FreeSessionStack
        /\ \A u \in Threads : at[u] = s => pc[u] \notin WorkingPC
        /\ \A u \in Threads \ {t} : at[u] = s => pc[u] \notin OpeningPC
        /\ \A u \in Threads : op[u] = "push" => Target(u) # s
    <3>1. \A u \in Threads : ~Releases(u, s)
      <4>1. ~Releases(t, s)
        BY <1>4 DEF InitSession, Runs, Releases, ReleaseOp
      <4> QED BY <1>0, <2>1, <4>1 DEF SesInv, OneOwner
    <3>2. s \notin FreeSessionStack /\ \A u \in Threads \ {t} : ~Opens(u, s)
      BY <1>0, <2>1 DEF SesInv, OneOwner
    <3> QED BY <1>0, <2>1, <3>1, <3>2, ReleasedIdle DEF Opens, Releases, ReleaseOp
  <2>3. /\ OnlyThread(t) /\ pc'[t] = "initRef" /\ op'[t] = "none" /\ pc[t] = "init"
        /\ \A u \in Threads \ {t} : tmp'[u] = tmp[u]
        /\ UNCHANGED <<io, FreeSessionStack, pktRefs, op, arg, at>>
        /\ \A r \in Slots : /\ SendQ'[r] = IF r = s THEN 0 ELSE SendQ[r]
                            /\ SendPacketCnt'[r] = IF r = s THEN 0 ELSE SendPacketCnt[r]
                            /\ SendFlag'[r] = IF r = s THEN 0 ELSE SendFlag[r]
        /\ \A r \in Slots \ {s} : SessionID'[r] = SessionID[r]
    BY <1>0, <1>4 DEF InitSession, Runs, OnlyThread, netVars, SesTypeOK, SendTypeOK, IdTypeOK, ThrTypeOK
  <2>4. \A r \in Slots : SendQ'[r] = SendQ[r] /\ SendPacketCnt'[r] = SendPacketCnt[r]
    BY <2>1, <2>3 DEF Empty
  <2>5. \A u \in Threads : pc'[u] \in WorkingPC => u # t /\ at[u] \in Slots
    BY <1>0, <1>p, <2>3, PointFacts
  <2>6. BufferInv'
    BY <1>0, <1>p, <2>3, <2>4, <2>5 DEF BufferInv, OnlyThread
  <2>7. \A u \in Threads : op'[u] = "push" => op[u] = "push" /\ Target(u)' = Target(u) /\ Target(u) \in Slots \ {s}
    BY <1>0, <2>2, <2>3 DEF Target, FindSession
  <2>8. \A u \in Threads : pc'[u] \in OpeningPC => at[u] \in Slots /\ Empty(at[u])
    BY <1>0, <1>p, <2>1, <2>3 DEF PacketInv, OnlyThread
  <2>9. \A u \in Threads : pc'[u] \in {"initRef", "publish"} => SendFlag'[at'[u]] = 0
    BY <1>0, <1>p, <2>3 DEF PacketInv, OnlyThread
  <2>10. \A r \in FreeSessionStack : r # s /\ r \in Slots
    BY <1>0, <2>2
  <2>11. PacketInv'
    BY <2>3, <2>4, <2>7, <2>8, <2>9, <2>10 DEF PacketInv, Empty
  <2> QED BY <2>6, <2>11
<1> QED BY <1>1, <1>2, <1>3, <1>4

\* RecvPost, SendPost and what follows a send.
LEMMA PostBuffer ==
  ASSUME SesInv, SesTypeOK', SerialSend, BufferInv, PacketInv, NEW t \in Threads,
         \/ RecvPostRecv(t) \/ RecvPostCancel(t)
         \/ SendPostLock(t) \/ SendPostUnlock(t) \/ SendPostFill(t)
         \/ SendPostSend(t) \/ SendPostCancel(t) \/ SendDoneFree(t) \/ SendDoneUnlock(t)
  PROVE  BufferInv' /\ PacketInv'
<1> DEFINE s == at[t]
<1>0. /\ SesTypeOK /\ s \in Slots /\ NetTypeOK /\ FreeSessionStack \subseteq Slots
      /\ pc \in [Threads -> PC] /\ at \in [Threads -> Slots] /\ op \in [Threads -> Op]
      /\ \A r \in Slots : SendQ[r] \in Nat /\ SendPacketCnt[r] \in Nat /\ pktRefs[r] \in Int
      /\ \A r \in Slots : SendFlag[r] \in {0, 1} /\ Unsent(io[r]) \in Nat /\ Unsent(io[r]) <= SendIo(io[r])
      /\ \A u \in Threads : Target(u) \in Slots /\ at[u] \in Slots /\ tmp[u] \in Nat
  BY UnsentSteps DEF SesInv, SesTypeOK, ThrTypeOK, SendTypeOK, IdTypeOK, Target, FindSession
<1>u. \A r \in Slots : Unsent(io'[r]) \in Nat
  BY DEF SesTypeOK, NetTypeOK, Unsent, IoKind
<1>p. /\ {"rpCancel", "final", "spUndo", "spRecheck", "spCancel", "spRef"} \cap
           ({"spSize", "spUnlock", "spFill", "sentUnlock", "spSend"} \cup OpeningPC) = {}
      /\ {"spSize", "spUnlock", "spFill", "sentUnlock", "spSend", "sent"} \subseteq SendPC
      /\ {"spSize", "spUnlock", "spFill", "sentUnlock", "spSend", "sent"} \cap OpeningPC = {}
      /\ {"rpRecv", "rpCancel", "spLock", "spUnlock", "spFill", "spSend", "spCancel", "sent", "sentUnlock"} \subseteq WorkingPC
      /\ {"initRef", "publish"} \subseteq OpeningPC
  BY PointFacts, SerialPoints DEF OpeningPC
<1>w. /\ pc[t] \in {"rpRecv", "rpCancel", "spLock", "spUnlock", "spFill", "spSend", "spCancel", "sent", "sentUnlock"}
      /\ op[t] = "none" /\ op' = op /\ arg' = arg /\ at' = at
      /\ \E m \in {"rpCancel", "final", "spUndo", "spSize", "spRecheck", "spSend", "spCancel", "sentUnlock", "spRef"} :
           pc' = [pc EXCEPT ![t] = m]
      /\ UNCHANGED <<SessionID, FreeSessionStack>>
      /\ \A u \in Threads \ {t} : tmp'[u] = tmp[u]
  BY <1>0 DEF RecvPostRecv, RecvPostCancel, SendPostLock, SendPostUnlock, SendPostFill, SendPostFillTo,
     SendPostSend, SendPostCancel, SendDoneFree, SendDoneUnlock, Goto, Runs, idVars, SesTypeOK, ThrTypeOK
<1>h. /\ s \notin FreeSessionStack /\ OnlyThread(t) /\ op'[t] # "push"
      /\ \A u \in Threads : pc[u] \in OpeningPC => at[u] # s
      /\ \A u \in Threads : op[u] = "push" => Target(u) # s /\ Target(u)' = Target(u)
      /\ pc'[t] \notin OpeningPC
  <2>1. \A u \in Threads : op[u] = "push" => Target(u) # s
    BY <1>p, <1>w, WorkedOn DEF ReleaseOp
  <2>2. pc'[t] \notin OpeningPC
    BY <1>0, <1>p, <1>w
  <2>3. s \notin FreeSessionStack /\ \A u \in Threads : pc[u] \in OpeningPC => at[u] # s
    BY <1>p, <1>w, WorkedOn
  <2>4. OnlyThread(t)
    BY <1>0, <1>w DEF OnlyThread
  <2> QED BY <1>w, <2>1, <2>2, <2>3, <2>4 DEF Target, FindSession
\* Whatever the step does to the buffer of its own slot, PacketInv asks only this.
<1>k. ASSUME \A r \in Slots \ {s} : /\ SendQ'[r] = SendQ[r] /\ SendPacketCnt'[r] = SendPacketCnt[r]
                                    /\ pktRefs'[r] = pktRefs[r] /\ SendFlag'[r] = SendFlag[r],
             pktRefs'[s] = SendQ'[s] + SendPacketCnt'[s]
      PROVE  PacketInv'
  <2>1. \A u \in Threads : pc'[u] \in OpeningPC => pc[u] = pc'[u] /\ at[u] # s /\ at[u] \in Slots
    BY <1>0, <1>h DEF OnlyThread
  <2>2. \A r \in Slots : pktRefs'[r] = SendQ'[r] + SendPacketCnt'[r]
    BY <1>k DEF PacketInv
  <2>3. \A r \in FreeSessionStack : r \in Slots \ {s}
    BY <1>0, <1>h
  <2> QED BY <1>0, <1>p, <1>w, <1>h, <1>k, <2>1, <2>2, <2>3 DEF PacketInv, Empty
<1>1. CASE RecvPostRecv(t)
  <2>1. \A r \in Slots : Unsent(io'[r]) = Unsent(io[r])
    BY <1>0, <1>1, UnsentSteps DEF RecvPostRecv, IoKind
  <2> QED BY <1>0, <1>1, <1>p, <1>w, <1>h, <2>1, QuietBuffer DEF RecvPostRecv, Goto, sendVars
<1>2. CASE RecvPostCancel(t) \/ SendPostCancel(t)
  <2>1. \A r \in Slots : Unsent(io'[r]) <= Unsent(io[r])
    BY <1>0, <1>2, UnsentSteps DEF RecvPostCancel, SendPostCancel
  <2>2. /\ pc'[t] = "final" /\ UNCHANGED <<SendFlag, SendQ, SendPacketCnt, pktRefs>>
    BY <1>0, <1>2 DEF RecvPostCancel, SendPostCancel, Goto, sendVars
  <2>3. \A r \in Slots : Unsent(io'[r]) > 0 => Unsent(io[r]) > 0
    BY <1>0, <1>u, <2>1
  <2> QED BY <1>0, <1>p, <1>w, <1>h, <2>2, <2>3, QuietBuffer
<1>3. CASE SendPostLock(t)
  <2>1. /\ pc[t] = "spLock" /\ pc'[t] = IF SendFlag[s] = 1 THEN "spUndo" ELSE "spSize"
        /\ UNCHANGED <<io, SendQ, SendPacketCnt, pktRefs>>
        /\ \A r \in Slots : SendFlag'[r] = IF r = s THEN 1 ELSE SendFlag[r]
    BY <1>0, <1>3 DEF SendPostLock, Runs, Goto, netVars, SesTypeOK, SendTypeOK
  <2>2. pc'[t] # "spUndo" => SendPacketCnt[s] = 0
    BY <1>0, <2>1 DEF BufferInv
  <2>3. BufferInv'
    BY <1>w, <1>h, <2>1, <2>2 DEF BufferInv, OnlyThread
  <2>4. PacketInv'
    BY <1>0, <1>k, <2>1 DEF PacketInv
  <2> QED BY <2>3, <2>4
<1>4. CASE SendPostUnlock(t) \/ SendDoneUnlock(t)
  <2>1. /\ pc[t] \in {"spUnlock", "sentUnlock"} /\ pc'[t] \in {"spRecheck", "spRef"}
        /\ UNCHANGED <<io, SendQ, SendPacketCnt, pktRefs>>
        /\ \A r \in Slots : SendFlag'[r] = IF r = s THEN 0 ELSE SendFlag[r]
    BY <1>0, <1>4 DEF SendPostUnlock, SendDoneUnlock, Runs, Goto, netVars, SesTypeOK, SendTypeOK
  <2>2. SendPacketCnt[s] = 0
    BY <2>1 DEF BufferInv
  <2>3. BufferInv'
    BY <1>w, <1>h, <2>1, <2>2 DEF BufferInv, OnlyThread
  <2>4. PacketInv'
    BY <1>0, <1>k, <2>1 DEF PacketInv
  <2> QED BY <2>3, <2>4
<1>5. CASE SendPostFill(t)
  <2>1. /\ pc[t] = "spFill" /\ pc'[t] = "spSend" /\ tmp[t] \in 1 .. SendQ[s] /\ SendPacketCnt[s] = 0
        /\ UNCHANGED <<io, SendFlag, pktRefs>>
        /\ \A r \in Slots \ {s} : SendQ'[r] = SendQ[r] /\ SendPacketCnt'[r] = SendPacketCnt[r]
        /\ SendQ'[s] = SendQ[s] - tmp[t] /\ SendPacketCnt'[s] = tmp[t]
    BY <1>0, <1>5 DEF SendPostFill, SendPostFillTo, Runs, netVars, SesTypeOK, SendTypeOK, ThrTypeOK, BufferInv
  <2>2. SendFlag[s] = 1 /\ SendIo(io[s]) = 0 /\ \A u \in Threads \ {t} : at[u] = s => pc[u] \notin SendPC
    BY <1>0, <1>p, <2>1, SenderAlone
  <2>3. \A u \in Threads \ {t} : pc[u] \in SendPC => at[u] \in Slots \ {s}
    BY <1>0, <2>2
  <2>4. BufferInv'
    BY <1>0, <1>p, <1>w, <1>h, <2>1, <2>2, <2>3 DEF BufferInv, OnlyThread
  <2>5. pktRefs'[s] = SendQ'[s] + SendPacketCnt'[s]
    <3>1. pktRefs[s] = SendQ[s] + SendPacketCnt[s] /\ SendQ[s] \in Int /\ tmp[t] \in Int
      BY <1>0 DEF PacketInv
    <3> HIDE DEF s
    <3> QED BY ONLY <2>1, <3>1
  <2>6. PacketInv'
    BY <1>k, <2>1, <2>5
  <2> QED BY <2>4, <2>6
<1>6. CASE SendPostSend(t)
  <2>1. /\ pc[t] = "spSend" /\ pc'[t] = "spCancel" /\ SendPacketCnt[s] > 0
        /\ UNCHANGED <<SendFlag, SendQ, SendPacketCnt, pktRefs>>
        /\ \A r \in Slots \ {s} : io'[r] = io[r]
    BY <1>0, <1>6, UnsentSteps DEF SendPostSend, Runs, Goto, sendVars, BufferInv
  <2>2. BufferInv'
    BY <1>w, <1>h, <2>1 DEF BufferInv, OnlyThread
  <2>3. PacketInv'
    BY <1>0, <1>k, <2>1 DEF PacketInv
  <2> QED BY <2>2, <2>3
<1>7. CASE SendDoneFree(t)
  <2>1. /\ pc[t] = "sent" /\ pc'[t] = "sentUnlock"
        /\ UNCHANGED <<io, SendFlag, SendQ>>
        /\ \A r \in Slots \ {s} : pktRefs'[r] = pktRefs[r] /\ SendPacketCnt'[r] = SendPacketCnt[r]
        /\ pktRefs'[s] = pktRefs[s] - SendPacketCnt[s] /\ SendPacketCnt'[s] = 0
    BY <1>0, <1>7 DEF SendDoneFree, Runs, Goto, netVars, SesTypeOK, SendTypeOK
  <2>2. SendIo(io[s]) = 0 /\ \A u \in Threads \ {t} : at[u] = s => pc[u] \notin SendPC
    BY <1>0, <1>p, <2>1, SenderAlone
  <2>3. Unsent(io[s]) = 0 /\ \A u \in Threads \ {t} : pc[u] \in SendPC => at[u] \in Slots \ {s}
    BY <1>0, <2>2
  <2>4. BufferInv'
    BY <1>0, <1>p, <1>w, <1>h, <2>1, <2>3 DEF BufferInv, OnlyThread
  <2>5. pktRefs'[s] = SendQ'[s] + SendPacketCnt'[s]
    <3>1. pktRefs[s] = SendQ[s] + SendPacketCnt[s] /\ SendQ[s] \in Int /\ SendPacketCnt[s] \in Int
      BY <1>0 DEF PacketInv
    <3> HIDE DEF s
    <3> QED BY ONLY <2>1, <3>1
  <2>6. PacketInv'
    BY <1>k, <2>1, <2>5
  <2> QED BY <2>4, <2>6
<1> QED BY ONLY <1>1, <1>2, <1>3, <1>4, <1>5, <1>6, <1>7,
      \/ RecvPostRecv(t) \/ RecvPostCancel(t)
      \/ SendPostLock(t) \/ SendPostUnlock(t) \/ SendPostFill(t)
      \/ SendPostSend(t) \/ SendPostCancel(t) \/ SendDoneFree(t) \/ SendDoneUnlock(t)

\* A worker takes a completion over.
LEMMA GqcsBuffer ==
  ASSUME SesTypeOK, SesTypeOK', BufferInv, PacketInv, NEW t \in Threads, GqcsStep(t)
  PROVE  BufferInv' /\ PacketInv'
<1>1. PICK s \in Slots, k \in IoKind, l \in {"parse", "sent", "spRef", "final"} : Gqcs(t, s, k, l)
  <2>1. {"recvOk", "sendOk", "wake", "recvErr", "sendErr"} \subseteq IoKind
    BY DEF IoKind
  <2> QED BY <2>1 DEF GqcsStep, GqcsServes, GqcsRecv, GqcsSend, GqcsWake, GqcsFailed
<1>2. \A r \in Slots : Unsent(io'[r]) <= Unsent(io[r])
  BY <1>1, UnsentSteps DEF Gqcs, SesTypeOK
<1>3. \A r \in Slots : Unsent(io[r]) \in Nat /\ Unsent(io'[r]) \in Nat
  BY DEF SesTypeOK, NetTypeOK, Unsent, IoKind
<1>4. \A r \in Slots : Unsent(io'[r]) > 0 => Unsent(io[r]) > 0
  BY <1>2, <1>3
<1>5. /\ OnlyThread(t) /\ pc'[t] = l /\ op'[t] = "none"
      /\ UNCHANGED <<SendFlag, SendQ, SendPacketCnt, pktRefs, SessionID, FreeSessionStack, tmp>>
  BY <1>1 DEF Gqcs, Runs, OnlyThread, idVars, sendVars, SesTypeOK, ThrTypeOK
<1>6. l \notin {"spSize", "spUnlock", "spFill", "sentUnlock", "spSend"} \cup OpeningPC
  BY PointFacts
<1> QED BY <1>4, <1>5, <1>6, QuietBuffer

\* The kernel completes what was posted, and sends nothing that was not.
LEMMA KernelBuffer ==
  ASSUME SesTypeOK, SesTypeOK', BufferInv, PacketInv, NEW s \in Slots, KernelStep(s)
  PROVE  BufferInv' /\ PacketInv'
<1>1. UNCHANGED <<pc, at, op, arg, tmp, SendFlag, SendQ, SendPacketCnt, pktRefs, SessionID, FreeSessionStack>>
  BY DEF KernelStep, DataArrives, RecvBreaks, SendCompletes, SendBreaks, Complete, PeerGone,
         thrVars, sendVars, idVars
<1>2. \A r \in Slots : Unsent(io'[r]) > 0 => Unsent(io[r]) > 0
  <2>0. NetTypeOK /\ io[s] \in [IoKind -> Nat]
    BY DEF SesTypeOK, NetTypeOK
  <2>1. ASSUME NEW k \in IoKind, NEW l \in IoKind, k # l, Complete(s, k, l),
               l \in {"sendPend", "sendOk"} => k \in {"sendPend", "sendOk"}
        PROVE  \A r \in Slots : Unsent(io'[r]) > 0 => Unsent(io[r]) > 0
    <3>1. /\ \A r \in Slots \ {s} : io'[r] = io[r]
          /\ \A j \in IoKind : io'[s][j] = io[s][j] - Bit(j = k) + Bit(j = l)
      BY <2>0, <2>1, IoSteps
    <3>2. Unsent(io'[s]) <= Unsent(io[s]) /\ Unsent(io'[s]) \in Int /\ Unsent(io[s]) \in Int
      BY <2>0, <2>1, <3>1 DEF Unsent, IoKind, Bit
    <3>3. Unsent(io'[s]) > 0 => Unsent(io[s]) > 0
      BY <3>2
    <3> QED BY <3>1, <3>3
  <2>2. {"recvPend", "recvOk", "recvErr", "sendPend", "sendOk", "sendErr"} \subseteq IoKind
    BY DEF IoKind
  <2>3. CASE PeerGone(s)
    BY <2>3 DEF PeerGone
  <2> QED BY <2>1, <2>2, <2>3 DEF KernelStep, DataArrives, RecvBreaks, SendCompletes, SendBreaks
<1>3. BufferInv'
  BY <1>1, <1>2 DEF BufferInv
<1>4. PacketInv'
  BY <1>1 DEF PacketInv, Empty, Target, FindSession
<1> QED BY <1>3, <1>4

-----------------------------------------------------------------------------
(* What a killed session still owes: somebody will cancel what is pending. *)
CancelInv ==
  /\ CancelNotMissed
  /\ \A t \in Threads : op[t] = "killCancel" => ~SessionUseFlag[Target(t)]

Pending(r) == r["recvPend"] + r["sendPend"]

\* Thread t will cancel what is pending for slot s, if the session is unusable then.
Cancels(t, s) ==
  \/ op[t] = "killCancel" /\ Target(t) = s
  \/ pc[t] \in {"rpCancel", "spCancel"} /\ at[t] = s

\* CancelInv in terms of what is pending and who will cancel it.
LEMMA CancelNamed ==
  CancelInv <=> /\ \A s \in Slots : ~SessionUseFlag[s] /\ Pending(io[s]) > 0 => \E t \in Threads : Cancels(t, s)
                /\ \A t \in Threads : op[t] = "killCancel" => ~SessionUseFlag[Target(t)]
  BY DEF CancelInv, CancelNotMissed, Cancels, Pending

\* The same after a step.
LEMMA CancelNamedNext ==
  CancelInv' <=> /\ \A s \in Slots : ~SessionUseFlag'[s] /\ Pending(io'[s]) > 0 => \E t \in Threads : Cancels(t, s)'
                 /\ \A t \in Threads : op'[t] = "killCancel" => ~SessionUseFlag'[Target(t)']
  BY DEF CancelInv, CancelNotMissed, Cancels, Pending

\* A step that leaves the flag alone, posts nothing without a second look at it and
\* lets nobody leave who is still to cancel.
LEMMA QuietCancel ==
  ASSUME SesTypeOK, CancelInv, NEW t \in Threads, OnlyThread(t), UNCHANGED SessionUseFlag,
         \A s \in Slots : Pending(io'[s]) > 0 => Pending(io[s]) > 0 \/ Cancels(t, s)',
         \A s \in Slots : Cancels(t, s) => Cancels(t, s)' \/ ~(Pending(io'[s]) > 0) \/ SessionUseFlag[s],
         op'[t] = "killCancel" => op[t] = "killCancel" /\ arg'[t] = arg[t]
  PROVE  CancelInv'
<1>1. \A u \in Threads \ {t}, s \in Slots : Cancels(u, s)' = Cancels(u, s)
  BY DEF OnlyThread, Cancels, Target, FindSession
<1>2. ASSUME NEW s \in Slots, ~SessionUseFlag'[s], Pending(io'[s]) > 0
      PROVE  \E u \in Threads : Cancels(u, s)'
  <2>1. CASE Cancels(t, s)'
    BY <2>1
  <2>2. CASE ~Cancels(t, s)'
    <3>1. PICK u \in Threads : Cancels(u, s)
      BY <1>2, <2>2, CancelNamed
    <3> QED BY <1>1, <1>2, <2>2, <3>1
  <2> QED BY <2>1, <2>2
<1>3. \A u \in Threads : op'[u] = "killCancel" => op[u] = "killCancel" /\ Target(u)' = Target(u)
  BY DEF OnlyThread, Target, FindSession
<1>4. \A u \in Threads : op'[u] = "killCancel" => ~SessionUseFlag'[Target(u)']
  BY <1>3, CancelNamed
<1> QED BY <1>2, <1>4, CancelNamedNext

\* A quiet step leaves what is pending, and who will cancel it, alone.
LEMMA MovesCancel ==
  ASSUME SesTypeOK, CancelInv, NEW t \in Threads, Moves(t)
  PROVE  CancelInv'
<1>1. UNCHANGED <<io, SessionUseFlag>> /\ OnlyThread(t)
  BY DEF Moves, netVars, idVars
<1>2. \A s \in Slots : Cancels(t, s)' = Cancels(t, s)
  BY DEF Moves, MovesFrom, OwingOp, Cancels, Target, FindSession
<1>3. op'[t] = "killCancel" => op[t] = "killCancel" /\ arg'[t] = arg[t]
  BY DEF Moves, OwingOp
<1> QED BY <1>1, <1>2, <1>3, QuietCancel

\* What the writing steps do to the pending operations.
LEMMA PendingSteps ==
  ASSUME NetTypeOK, NEW s \in Slots
  PROVE  /\ io' = [io EXCEPT ![s]["wake"] = @ + 1] => \A r \in Slots : Pending(io'[r]) = Pending(io[r])
         /\ \A k \in IoKind : io' = [io EXCEPT ![s][k] = @ + 1] => \A r \in Slots \ {s} : io'[r] = io[r]
         /\ \A k \in IoKind : io' = [io EXCEPT ![s][k] = @ - 1] /\ io[s][k] > 0 =>
              \A r \in Slots : Pending(io'[r]) > 0 => Pending(io[r]) > 0
         /\ CancelIoEx(s) => Pending(io'[s]) = 0 /\ \A r \in Slots \ {s} : io'[r] = io[r]
         /\ \A k, l \in IoKind : k # l /\ Complete(s, k, l) /\ l \notin {"recvPend", "sendPend"} =>
              \A r \in Slots : Pending(io'[r]) > 0 => Pending(io[r]) > 0
<1>0. io[s] \in [IoKind -> Nat] /\ {"recvPend", "sendPend", "wake"} \subseteq IoKind
  BY DEF NetTypeOK, IoKind
<1>1. ASSUME io' = [io EXCEPT ![s]["wake"] = @ + 1]
      PROVE  \A r \in Slots : Pending(io'[r]) = Pending(io[r])
  <2>1. /\ \A r \in Slots \ {s} : io'[r] = io[r]
        /\ \A j \in IoKind : io'[s][j] = io[s][j] + Bit(j = "wake")
    BY <1>0, <1>1, IoSteps
  <2>2. Pending(io'[s]) = Pending(io[s])
    BY <1>0, <2>1 DEF Pending, Bit
  <2> QED BY <2>1, <2>2
<1>2. \A k \in IoKind : io' = [io EXCEPT ![s][k] = @ + 1] => \A r \in Slots \ {s} : io'[r] = io[r]
  BY IoSteps
<1>3. ASSUME NEW k \in IoKind, io' = [io EXCEPT ![s][k] = @ - 1]
      PROVE  \A r \in Slots : Pending(io'[r]) > 0 => Pending(io[r]) > 0
  <2>1. /\ \A r \in Slots \ {s} : io'[r] = io[r]
        /\ \A j \in IoKind : io'[s][j] = io[s][j] - Bit(j = k)
    BY <1>3, IoSteps
  <2>2. Pending(io'[s]) <= Pending(io[s]) /\ Pending(io'[s]) \in Int /\ Pending(io[s]) \in Int
    BY <1>0, <2>1 DEF Pending, Bit
  <2>3. Pending(io'[s]) > 0 => Pending(io[s]) > 0
    BY <2>2
  <2> QED BY <2>1, <2>3
<1>4. ASSUME CancelIoEx(s)
      PROVE  Pending(io'[s]) = 0 /\ \A r \in Slots \ {s} : io'[r] = io[r]
  BY <1>4, IoSteps DEF Pending
<1>5. ASSUME NEW k \in IoKind, NEW l \in IoKind, k # l, Complete(s, k, l), l \notin {"recvPend", "sendPend"}
      PROVE  \A r \in Slots : Pending(io'[r]) > 0 => Pending(io[r]) > 0
  <2>1. /\ \A r \in Slots \ {s} : io'[r] = io[r]
        /\ \A j \in IoKind : io'[s][j] = io[s][j] - Bit(j = k) + Bit(j = l)
    BY <1>5, IoSteps
  <2>2. Pending(io'[s]) <= Pending(io[s]) /\ Pending(io'[s]) \in Int /\ Pending(io[s]) \in Int
    BY <1>0, <1>5, <2>1 DEF Pending, Bit
  <2>3. Pending(io'[s]) > 0 => Pending(io[s]) > 0
    BY <2>2
  <2> QED BY <2>1, <2>3
<1> QED BY <1>1, <1>2, <1>3, <1>4, <1>5

\* The calls of the public API.
LEMMA CallCancel ==
  ASSUME SesInv, SesTypeOK', CancelInv, NEW t \in Threads,
         \/ SendPacketEnqueue(t) \/ SendPacketPost(t) \/ KillSessionUse(t) \/ KillSessionCancel(t)
         \/ DisconnectCas(t) \/ OnClientLeave(t) \/ ReleaseSession(t) \/ ReleasePush(t)
  PROVE  CancelInv'
<1> DEFINE s == Target(t)
<1>0. /\ SesTypeOK /\ NetTypeOK /\ s \in Slots /\ op \in [Threads -> Op] /\ arg \in [Threads -> Slots \X Nat]
      /\ SessionUseFlag \in [Slots -> BOOLEAN]
      /\ \A u \in Threads : Target(u) \in Slots
  BY DEF SesInv, SesTypeOK, ThrTypeOK, IdTypeOK, Target, FindSession
<1>f. UNCHANGED <<pc, at>> /\ OnlyThread(t)
  BY <1>0 DEF SendPacketEnqueue, SendPacketPost, KillSessionUse, KillSessionCancel, DisconnectCas,
     DisconnectTo, OnClientLeave, ReleaseSession, ReleasePush, CallGoto, OnlyThread
<1>1. CASE SendPacketEnqueue(t) \/ DisconnectCas(t) \/ OnClientLeave(t) \/ ReleaseSession(t) \/ ReleasePush(t)
  <2>1. /\ UNCHANGED <<io, SessionUseFlag>> /\ op[t] # "killCancel" /\ op'[t] # "killCancel"
    BY <1>0, <1>1 DEF SendPacketEnqueue, DisconnectCas, DisconnectTo, OnClientLeave, ReleaseSession,
       ReleasePush, CallGoto, InCall, idVars, netVars
  <2>2. \A r \in Slots : Cancels(t, r)' = Cancels(t, r)
    BY <1>f, <2>1 DEF Cancels
  <2> QED BY <1>0, <1>f, <2>1, <2>2, QuietCancel
<1>2. CASE SendPacketPost(t)
  <2>1. /\ UNCHANGED SessionUseFlag /\ op[t] # "killCancel" /\ op'[t] # "killCancel"
        /\ \A r \in Slots : Pending(io'[r]) = Pending(io[r])
    BY <1>0, <1>2, PendingSteps DEF SendPacketPost, CallGoto, InCall, idVars
  <2>2. \A r \in Slots : Cancels(t, r)' = Cancels(t, r)
    BY <1>f, <2>1 DEF Cancels
  <2> QED BY <1>0, <1>f, <2>1, <2>2, QuietCancel
<1>3. CASE KillSessionCancel(t)
  <2>1. /\ UNCHANGED SessionUseFlag /\ op[t] = "killCancel" /\ op'[t] # "killCancel"
        /\ Pending(io'[s]) = 0 /\ \A r \in Slots \ {s} : io'[r] = io[r]
    BY <1>0, <1>3, PendingSteps DEF KillSessionCancel, CallGoto, InCall, idVars
  <2>2. \A r \in Slots : Cancels(t, r) => Cancels(t, r)' \/ ~(Pending(io'[r]) > 0)
    BY <1>f, <2>1 DEF Cancels
  <2>3. \A r \in Slots : Pending(io'[r]) > 0 => Pending(io[r]) > 0
    BY <2>1
  <2> QED BY <1>0, <1>f, <2>1, <2>2, <2>3, QuietCancel
<1>4. CASE KillSessionUse(t)
  <2>1. /\ op[t] = "killUse" /\ op'[t] = "killCancel" /\ Target(t)' = s
        /\ io' = io /\ \A r \in Slots : SessionUseFlag'[r] = IF r = s THEN FALSE ELSE SessionUseFlag[r]
    BY <1>0, <1>4 DEF KillSessionUse, CallGoto, InCall, netVars, Target, FindSession
  <2>2. \A u \in Threads, r \in Slots : Cancels(u, r) => Cancels(u, r)'
    BY <1>f, <2>1 DEF Cancels, OnlyThread, Target, FindSession
  <2>3. Cancels(t, s)'
    BY <2>1 DEF Cancels
  <2>4. \A r \in Slots : ~SessionUseFlag'[r] /\ Pending(io'[r]) > 0 => \E u \in Threads : Cancels(u, r)'
    BY <2>1, <2>2, <2>3, CancelNamed
  <2>5. \A u \in Threads : op'[u] = "killCancel" => ~SessionUseFlag'[Target(u)']
    <3> TAKE u \in Threads
    <3>1. CASE u = t
      BY <1>0, <2>1, <3>1
    <3>2. CASE u # t
      <4>1. op'[u] = op[u] /\ Target(u)' = Target(u) /\ Target(u) \in Slots
        BY <1>0, <1>f, <3>2 DEF OnlyThread, Target, FindSession
      <4> QED BY <2>1, <4>1, CancelNamed
    <3> QED BY <3>1, <3>2
  <2> QED BY <2>4, <2>5, CancelNamedNext
<1> QED BY <1>1, <1>2, <1>3, <1>4

\* Opening a session makes its slot usable.
LEMMA OpenCancel ==
  ASSUME SesInv, SesTypeOK', CancelInv, NEW t \in Threads, NEW a \in Slots,
         PopSession(t, a) \/ InitSession(t) \/ InitSessionPublish(t) \/ OnClientJoin(t)
  PROVE  CancelInv'
<1> DEFINE s == at[t]
<1>0. /\ SesTypeOK /\ s \in Slots /\ pc \in [Threads -> PC] /\ at \in [Threads -> Slots]
      /\ SessionUseFlag \in [Slots -> BOOLEAN] /\ \A u \in Threads : Target(u) \in Slots
  BY DEF SesInv, SesTypeOK, ThrTypeOK, IdTypeOK, Target, FindSession
<1>1. CASE PopSession(t, a) \/ InitSessionPublish(t) \/ OnClientJoin(t)
  <2>1. op'[t] \in {"send", "kill", "none"} /\ \A u \in Threads \ {t} : op'[u] = op[u] /\ arg'[u] = arg[u]
    <3>1. CASE OnClientJoin(t)
      BY <1>0, <3>1, CallbackBegins DEF OnClientJoin, Callback, Runs
    <3>2. CASE PopSession(t, a) \/ InitSessionPublish(t)
      BY <3>2 DEF PopSession, InitSessionPublish, Goto, Runs
    <3> QED BY <1>1, <3>1, <3>2
  <2>2. /\ UNCHANGED <<io, SessionUseFlag>> /\ OnlyThread(t)
        /\ op[t] = "none" /\ pc[t] \notin {"rpCancel", "spCancel"}
    BY <1>0, <1>1, <2>1 DEF PopSession, InitSessionPublish, OnClientJoin, Goto, Runs, OnlyThread, idVars, netVars
  <2>3. \A r \in Slots : ~Cancels(t, r)
    BY <2>2 DEF Cancels
  <2> QED BY <1>0, <2>1, <2>2, <2>3, QuietCancel
<1>2. CASE InitSession(t)
  <2>1. /\ UNCHANGED <<io, op, arg, at>> /\ pc[t] = "init" /\ op[t] = "none"
        /\ \A r \in Slots : SessionUseFlag'[r] = IF r = s THEN TRUE ELSE SessionUseFlag[r]
        /\ \A u \in Threads \ {t} : pc'[u] = pc[u]
    BY <1>0, <1>2 DEF InitSession, Runs, netVars
  <2>2. Opens(t, s)
    BY <2>1, PointFacts DEF Opens
  <2>3. ReleaseFlag[s]
    BY <1>0, <2>2 DEF SesInv, OneOwner
  <2>4. \A u \in Threads : op[u] = "killCancel" => Target(u) # s /\ Target(u)' = Target(u)
    BY <1>0, <2>1, <2>3, ReleasedIdle DEF GuardedOp, Target, FindSession
  <2>5. \A u \in Threads, r \in Slots : Cancels(u, r) => Cancels(u, r)'
    <3> TAKE u \in Threads, r \in Slots
    <3>1. CASE u = t
      BY <2>1, <3>1 DEF Cancels
    <3>2. CASE u # t
      BY <2>1, <3>2 DEF Cancels, Target, FindSession
    <3> QED BY <3>1, <3>2
  <2>6. \A r \in Slots : ~SessionUseFlag'[r] /\ Pending(io'[r]) > 0 => \E u \in Threads : Cancels(u, r)'
    BY <2>1, <2>5, CancelNamed
  <2>7. \A u \in Threads : op'[u] = "killCancel" => ~SessionUseFlag'[Target(u)']
    BY <1>0, <2>1, <2>4, CancelNamed
  <2> QED BY <2>6, <2>7, CancelNamedNext
<1> QED BY <1>1, <1>2

\* RecvPost and SendPost look at the flag again after they have posted.
LEMMA PostCancel ==
  ASSUME SesInv, SesTypeOK', CancelInv, NEW t \in Threads,
         \/ RecvPostRecv(t) \/ RecvPostCancel(t)
         \/ SendPostLock(t) \/ SendPostUnlock(t) \/ SendPostFill(t)
         \/ SendPostSend(t) \/ SendPostCancel(t) \/ SendDoneFree(t) \/ SendDoneUnlock(t)
  PROVE  CancelInv'
<1> DEFINE s == at[t]
<1>0. /\ SesTypeOK /\ NetTypeOK /\ s \in Slots /\ pc \in [Threads -> PC] /\ at \in [Threads -> Slots]
  BY DEF SesInv, SesTypeOK, ThrTypeOK
<1>1. /\ UNCHANGED <<SessionUseFlag, op, arg, at>> /\ op[t] = "none"
      /\ \A u \in Threads \ {t} : pc'[u] = pc[u]
  BY <1>0 DEF RecvPostRecv, RecvPostCancel, SendPostLock, SendPostUnlock, SendPostFill, SendPostFillTo,
     SendPostSend, SendPostCancel, SendDoneFree, SendDoneUnlock, Goto, Runs, idVars
<1>2. OnlyThread(t) /\ op'[t] # "killCancel"
  BY <1>1 DEF OnlyThread
<1>3. CASE RecvPostRecv(t) \/ SendPostSend(t)
  <2>1. /\ pc[t] \in {"rpRecv", "spSend"} /\ pc'[t] \in {"rpCancel", "spCancel"}
        /\ \A r \in Slots \ {s} : io'[r] = io[r]
    BY <1>0, <1>3, PendingSteps DEF RecvPostRecv, SendPostSend, Runs, Goto, IoKind
  <2>2. Cancels(t, s)' /\ \A r \in Slots : ~Cancels(t, r)
    BY <1>1, <2>1 DEF Cancels
  <2> QED BY <1>0, <1>1, <1>2, <2>1, <2>2, QuietCancel
<1>4. CASE RecvPostCancel(t) \/ SendPostCancel(t)
  <2>1. \A r \in Slots : Cancels(t, r) => r = s
    BY <1>1 DEF Cancels
  <2>2. CASE SessionUseFlag[s]
    <3>1. io' = io
      BY <1>4, <2>2 DEF RecvPostCancel, SendPostCancel
    <3> QED BY <1>0, <1>1, <1>2, <2>1, <2>2, <3>1, QuietCancel
  <2>3. CASE ~SessionUseFlag[s]
    <3>1. Pending(io'[s]) = 0 /\ \A r \in Slots \ {s} : io'[r] = io[r]
      BY <1>0, <1>4, <2>3, PendingSteps DEF RecvPostCancel, SendPostCancel
    <3> QED BY <1>0, <1>1, <1>2, <2>1, <3>1, QuietCancel
  <2> QED BY <2>2, <2>3
<1>5. CASE \/ SendPostLock(t) \/ SendPostUnlock(t) \/ SendPostFill(t)
           \/ SendDoneFree(t) \/ SendDoneUnlock(t)
  <2>1. io' = io /\ pc[t] \notin {"rpCancel", "spCancel"}
    BY <1>0, <1>5 DEF SendPostLock, SendPostUnlock, SendPostFill, SendPostFillTo, SendDoneFree,
       SendDoneUnlock, Runs, netVars
  <2>2. \A r \in Slots : ~Cancels(t, r)
    BY <1>1, <2>1 DEF Cancels
  <2> QED BY <1>0, <1>1, <1>2, <2>1, <2>2, QuietCancel
<1> QED BY <1>3, <1>4, <1>5

\* A worker takes a completion over; the kernel completes.
LEMMA GqcsCancel ==
  ASSUME SesTypeOK, CancelInv, NEW t \in Threads, GqcsStep(t)
  PROVE  CancelInv'
<1>1. PICK s \in Slots, k \in IoKind, l \in {"parse", "sent", "spRef", "final"} : Gqcs(t, s, k, l)
  <2>1. {"recvOk", "sendOk", "wake", "recvErr", "sendErr"} \subseteq IoKind
    BY DEF IoKind
  <2> QED BY <2>1 DEF GqcsStep, GqcsServes, GqcsRecv, GqcsSend, GqcsWake, GqcsFailed
<1>2. \A r \in Slots : Pending(io'[r]) > 0 => Pending(io[r]) > 0
  BY <1>1, PendingSteps DEF Gqcs, SesTypeOK
<1>3. /\ OnlyThread(t) /\ op[t] = "none" /\ pc[t] = "gqcs" /\ op' = op /\ UNCHANGED SessionUseFlag
  BY <1>1 DEF Gqcs, Runs, OnlyThread, idVars, SesTypeOK, ThrTypeOK
<1>4. \A r \in Slots : ~Cancels(t, r)
  BY <1>3 DEF Cancels
<1> QED BY <1>2, <1>3, <1>4, QuietCancel

\* The kernel only takes pending operations away.
LEMMA KernelCancel ==
  ASSUME SesTypeOK, CancelInv, NEW s \in Slots, KernelStep(s)
  PROVE  CancelInv'
<1>1. UNCHANGED <<pc, at, op, arg, SessionUseFlag>>
  BY DEF KernelStep, DataArrives, RecvBreaks, SendCompletes, SendBreaks, Complete, PeerGone, thrVars, idVars
<1>2. \A r \in Slots : Pending(io'[r]) > 0 => Pending(io[r]) > 0
  <2>1. {"recvPend", "recvOk", "recvErr", "sendPend", "sendOk", "sendErr"} \subseteq IoKind
    BY DEF IoKind
  <2>2. CASE PeerGone(s)
    BY <2>2 DEF PeerGone
  <2>3. CASE ~PeerGone(s)
    BY <2>1, <2>3, PendingSteps DEF SesTypeOK, KernelStep, DataArrives, RecvBreaks, SendCompletes, SendBreaks
  <2> QED BY <2>2, <2>3
<1>3. \A u \in Threads, r \in Slots : Cancels(u, r)' = Cancels(u, r)
  BY <1>1 DEF Cancels, Target, FindSession
<1>4. \A r \in Slots : ~SessionUseFlag'[r] /\ Pending(io'[r]) > 0 => \E u \in Threads : Cancels(u, r)'
  BY <1>1, <1>2, <1>3, CancelNamed
<1>5. \A u \in Threads : op'[u] = "killCancel" => ~SessionUseFlag'[Target(u)']
  BY <1>1, CancelNamed DEF Target, FindSession
<1> QED BY <1>4, <1>5, CancelNamedNext

-----------------------------------------------------------------------------
(* No packet waits for ever.  The flag of a live session is held by a      *)
(* SendPost, by a send under way, or by whoever handles its completion; so *)
(* a worker that finds it taken may leave the queue to the holder.         *)
Live(s) == ~ReleaseFlag[s] /\ SessionUseFlag[s] /\ ~gone[s]

AnswerPC == {"sent", "sentUnlock", "spRef", "spUse", "spLock", "spSize", "spUnlock", "spRecheck",
             "spFill", "spSend"}

Answers(t, s) ==
  \/ op[t] = "sendPost" /\ Target(t) = s
  \/ pc[t] \in AnswerPC /\ at[t] = s

FlagAnswered ==
  \A s \in Slots : Live(s) /\ SendFlag[s] = 1 => Unsent(io[s]) > 0 \/ \E t \in Threads : HasSend(t, s)

WakeInv == FlagAnswered /\ SendNotStranded

Waking(r) == r["wake"] + Unsent(r)

\* SendNotStranded in terms of wake-ups under way and threads that will answer.
LEMMA StrandedNamed ==
  ASSUME SesTypeOK
  PROVE  SendNotStranded <=>
           \A s \in Slots : Live(s) /\ SendQ[s] > 0 => Waking(io[s]) > 0 \/ \E t \in Threads : Answers(t, s)
<1>1. \A s \in Slots : Waking(io[s]) = io[s]["wake"] + io[s]["sendPend"] + io[s]["sendOk"]
  BY DEF SesTypeOK, NetTypeOK, IoKind, Waking, Unsent
<1>2. ASSUME NEW s \in Slots
      PROVE  (\E t \in Threads : Answers(t, s)) <=>
               \/ \E t \in Threads : op[t] = "sendPost" /\ Target(t) = s
               \/ \E t \in Threads : pc[t] \in AnswerPC /\ at[t] = s
  BY DEF Answers
<1> QED BY <1>1, <1>2 DEF SendNotStranded, Live, AnswerPC

\* The same after a step.
LEMMA StrandedNamedNext ==
  ASSUME SesTypeOK'
  PROVE  SendNotStranded' <=>
           \A s \in Slots : Live(s)' /\ SendQ'[s] > 0 => Waking(io'[s]) > 0 \/ \E t \in Threads : Answers(t, s)'
<1>1. \A s \in Slots : Waking(io'[s]) = io'[s]["wake"] + io'[s]["sendPend"] + io'[s]["sendOk"]
  BY DEF SesTypeOK, NetTypeOK, IoKind, Waking, Unsent
<1>2. ASSUME NEW s \in Slots
      PROVE  (\E t \in Threads : Answers(t, s)') <=>
               \/ \E t \in Threads : op'[t] = "sendPost" /\ Target(t)' = s
               \/ \E t \in Threads : pc'[t] \in AnswerPC /\ at'[t] = s
  BY DEF Answers
<1> QED BY <1>1, <1>2 DEF SendNotStranded, Live, AnswerPC

\* What a step of t must leave in place for slot s, if s is live after it: an answer
\* for the flag when it is taken, an answer for the queue when it is not.
WakesFor(t, s) ==
  /\ Live(s) \/ (SendFlag'[s] = 0 /\ SendQ'[s] = 0)
  /\ SendFlag'[s] = 1 =>
       /\ SendFlag[s] = 1 \/ HasSend(t, s)'
       /\ Unsent(io[s]) > 0 => Unsent(io'[s]) > 0 \/ HasSend(t, s)'
       /\ HasSend(t, s) => Unsent(io'[s]) > 0 \/ HasSend(t, s)'
  /\ SendQ'[s] > 0 /\ SendFlag'[s] = 0 =>
       /\ SendQ[s] > 0 \/ Answers(t, s)'
       /\ Waking(io[s]) > 0 => Waking(io'[s]) > 0 \/ Answers(t, s)'
       /\ Answers(t, s) => Waking(io'[s]) > 0 \/ Answers(t, s)'

\* A step of one thread keeps WakeInv when it strands no slot it touches.
LEMMA WakeStep ==
  ASSUME SesTypeOK, SesTypeOK', WakeInv, NEW t \in Threads, OnlyThread(t),
         \A s \in Slots : Live(s)' => WakesFor(t, s)
  PROVE  WakeInv'
<1>1. \A u \in Threads \ {t}, s \in Slots : HasSend(u, s)' = HasSend(u, s) /\ Answers(u, s)' = Answers(u, s)
  BY DEF OnlyThread, HasSend, Answers, Target, FindSession
<1>2. ASSUME NEW s \in Slots, Live(s)', SendFlag'[s] = 1
      PROVE  Unsent(io'[s]) > 0 \/ \E u \in Threads : HasSend(u, s)'
  <2>1. WakesFor(t, s) /\ Live(s)
    BY <1>2 DEF WakesFor
  <2>2. CASE HasSend(t, s)'
    BY <2>2
  <2>3. CASE ~HasSend(t, s)'
    <3>1. SendFlag[s] = 1
      BY <1>2, <2>1, <2>3 DEF WakesFor
    <3>2. Unsent(io[s]) > 0 \/ \E u \in Threads : HasSend(u, s)
      BY <2>1, <3>1 DEF WakeInv, FlagAnswered
    <3> QED BY <1>1, <1>2, <2>1, <2>3, <3>2 DEF WakesFor
  <2> QED BY <2>2, <2>3
<1>3. FlagAnswered'
  BY <1>2 DEF FlagAnswered
<1>4. ASSUME NEW s \in Slots, Live(s)', SendQ'[s] > 0
      PROVE  Waking(io'[s]) > 0 \/ \E u \in Threads : Answers(u, s)'
  <2>1. WakesFor(t, s) /\ Live(s)
    BY <1>4 DEF WakesFor
  <2>2. CASE SendFlag'[s] = 1
    <3>1. Unsent(io'[s]) > 0 => Waking(io'[s]) > 0
      BY DEF SesTypeOK, NetTypeOK, IoKind, Waking, Unsent
    <3>2. \A u \in Threads : HasSend(u, s)' => Answers(u, s)'
      BY SerialPoints DEF HasSend, Answers, AnswerPC
    <3> QED BY <1>2, <1>4, <2>2, <3>1, <3>2
  <2>3. CASE SendFlag'[s] # 1
    <3>0. SendFlag'[s] = 0
      BY <2>3 DEF SesTypeOK, SendTypeOK
    <3>1. CASE Answers(t, s)'
      BY <3>1
    <3>2. CASE ~Answers(t, s)'
      <4>1. SendQ[s] > 0
        BY <1>4, <2>1, <3>0, <3>2 DEF WakesFor
      <4>2. Waking(io[s]) > 0 \/ \E u \in Threads : Answers(u, s)
        BY <2>1, <4>1, StrandedNamed DEF WakeInv
      <4> QED BY <1>1, <1>4, <2>1, <3>0, <3>2, <4>2 DEF WakesFor
    <3> QED BY <3>1, <3>2
  <2> QED BY <2>2, <2>3
<1>5. SendNotStranded'
  BY <1>4, StrandedNamedNext
<1> QED BY <1>3, <1>5 DEF WakeInv

\* A quiet step takes no wake-up away.
LEMMA MovesWake ==
  ASSUME SesTypeOK, SesTypeOK', WakeInv, NEW t \in Threads, Moves(t)
  PROVE  WakeInv'
<1>0. UNCHANGED <<ReleaseFlag, SessionUseFlag, gone, SendFlag, SendQ, io>> /\ OnlyThread(t)
  BY DEF Moves, idVars, sendVars, netVars
<1>1. ASSUME NEW s \in Slots, Live(s)' PROVE WakesFor(t, s)
  <2>1. Live(s) /\ (at[t] = s => SessionUseFlag[at[t]] /\ ~gone[at[t]])
    BY <1>0, <1>1 DEF Live
  <2>2. HasSend(t, s) => HasSend(t, s)'
    BY <2>1, SerialPoints DEF Moves, MovesFrom, HasSend
  <2>3. SendQ[s] > 0 /\ Answers(t, s) => Answers(t, s)'
    <3>1. op[t] = "sendPost" => op'[t] = op[t] /\ arg'[t] = arg[t]
      BY DEF Moves, OwingOp
    <3>2. SendQ[s] > 0 /\ pc[t] \in AnswerPC /\ at[t] = s => pc'[t] \in AnswerPC /\ at'[t] = s
      BY <2>1 DEF Moves, MovesFrom, AnswerPC
    <3> QED BY <3>1, <3>2 DEF Answers, Target, FindSession
  <2> QED BY <1>0, <2>1, <2>2, <2>3 DEF WakesFor
<1> QED BY <1>0, <1>1, WakeStep

\* Points at which a thread answers for its slot, and points at which it does not.
LEMMA AnswerPoints ==
  /\ SendPC \subseteq AnswerPC
  /\ {"sent", "sentUnlock", "spRef", "spSize", "spUnlock", "spRecheck", "spFill", "spSend", "spLock"} \subseteq AnswerPC
  /\ {"pop", "readID", "init", "initRef", "publish", "join", "rpUse", "rpRecv", "rpCancel", "spCancel",
      "gqcs", "parse", "final", "spUndo"} \cap AnswerPC = {}
  BY SerialPoints DEF AnswerPC

\* The calls of the public API: an enqueued packet is answered for by its caller
\* until the wake-up is posted; a kill ends the session's life.
LEMMA CallWake ==
  ASSUME SesInv, SesTypeOK', CancelInv, WakeInv, NEW t \in Threads,
         \/ SendPacketEnqueue(t) \/ SendPacketPost(t) \/ KillSessionUse(t) \/ KillSessionCancel(t)
         \/ DisconnectCas(t) \/ OnClientLeave(t) \/ ReleaseSession(t) \/ ReleasePush(t)
  PROVE  WakeInv'
<1> DEFINE s == Target(t)
<1>0. /\ SesTypeOK /\ NetTypeOK /\ s \in Slots /\ op \in [Threads -> Op] /\ arg \in [Threads -> Slots \X Nat]
      /\ SessionUseFlag \in [Slots -> BOOLEAN] /\ gone \in [Slots -> BOOLEAN] /\ ReleaseFlag \in [Slots -> BOOLEAN]
  BY DEF SesInv, SesTypeOK, NetTypeOK, ThrTypeOK, IdTypeOK, Target, FindSession
<1>f. UNCHANGED <<pc, at, SendFlag>> /\ OnlyThread(t) /\ \A r \in Slots : HasSend(t, r)' = HasSend(t, r)
  BY <1>0 DEF SendPacketEnqueue, SendPacketPost, KillSessionUse, KillSessionCancel, DisconnectCas,
     DisconnectTo, OnClientLeave, ReleaseSession, ReleasePush, CallGoto, OnlyThread, sendVars, HasSend
<1>1. CASE SendPacketEnqueue(t)
  <2>1. /\ UNCHANGED <<io, ReleaseFlag, SessionUseFlag, gone>> /\ op'[t] = "sendPost" /\ Target(t)' = s
        /\ op[t] = "sendEnqueue"
        /\ \A r \in Slots \ {s} : SendQ'[r] = SendQ[r]
    BY <1>0, <1>1 DEF SendPacketEnqueue, CallGoto, InCall, idVars, netVars, Target, FindSession
  <2>2. Answers(t, s)' /\ \A r \in Slots : Answers(t, r) => Answers(t, r)'
    BY <1>f, <2>1 DEF Answers
  <2>3. \A r \in Slots : Live(r)' => WakesFor(t, r)
    BY <1>f, <2>1, <2>2 DEF WakesFor, Live
  <2> QED BY <1>0, <1>f, <2>3, WakeStep
<1>2. CASE SendPacketPost(t)
  <2>1. /\ UNCHANGED <<SendQ, ReleaseFlag, SessionUseFlag, gone>> /\ op[t] = "sendPost"
        /\ \A r \in Slots \ {s} : io'[r] = io[r]
        /\ \A j \in IoKind : io'[s][j] = io[s][j] + Bit(j = "wake")
    BY <1>0, <1>2, IoSteps DEF SendPacketPost, InCall, idVars, sendVars, IoKind
  <2>2. Waking(io'[s]) > 0 /\ Unsent(io'[s]) = Unsent(io[s])
    BY <1>0, <2>1 DEF Waking, Unsent, Bit, NetTypeOK, IoKind
  <2>3. \A r \in Slots \ {s} : Answers(t, r) => Answers(t, r)'
    BY <1>f DEF Answers
  <2>4. \A r \in Slots : Live(r)' => WakesFor(t, r)
    BY <1>f, <2>1, <2>2, <2>3 DEF WakesFor, Live
  <2> QED BY <1>0, <1>f, <2>4, WakeStep
<1>3. CASE KillSessionUse(t) \/ DisconnectCas(t) \/ OnClientLeave(t) \/ ReleasePush(t)
  <2>1. /\ UNCHANGED <<SendQ, io, gone>> /\ op[t] # "sendPost"
    BY <1>0, <1>3 DEF KillSessionUse, DisconnectCas, DisconnectTo, OnClientLeave, ReleasePush, InCall, sendVars, netVars
  <2>2. \A r \in Slots : Live(r)' => Live(r)
    BY <1>0, <1>3 DEF KillSessionUse, DisconnectCas, DisconnectTo, OnClientLeave, ReleasePush, idVars, netVars, Live
  <2>3. \A r \in Slots : Answers(t, r) => Answers(t, r)'
    BY <1>f, <2>1 DEF Answers
  <2>4. \A r \in Slots : Live(r)' => WakesFor(t, r)
    BY <1>f, <2>1, <2>2, <2>3 DEF WakesFor
  <2> QED BY <1>0, <1>f, <2>4, WakeStep
<1>4. CASE KillSessionCancel(t)
  <2>1. /\ UNCHANGED <<SendQ, ReleaseFlag, SessionUseFlag, gone>> /\ op[t] = "killCancel"
        /\ \A r \in Slots \ {s} : io'[r] = io[r]
    BY <1>0, <1>4, IoSteps DEF KillSessionCancel, InCall, idVars, sendVars
  <2>2. \A r \in Slots : Live(r)' => r # s
    BY <2>1 DEF Live, CancelInv
  <2>3. \A r \in Slots : Answers(t, r) => Answers(t, r)'
    BY <1>f, <2>1 DEF Answers
  <2>4. \A r \in Slots : Live(r)' => WakesFor(t, r)
    BY <1>f, <2>1, <2>2, <2>3 DEF WakesFor, Live
  <2> QED BY <1>0, <1>f, <2>4, WakeStep
<1>5. CASE ReleaseSession(t)
  <2>1. /\ UNCHANGED <<io, ReleaseFlag, SessionUseFlag>> /\ op[t] = "release"
        /\ \A r \in Slots \ {s} : SendQ'[r] = SendQ[r] /\ gone'[r] = gone[r]
    BY <1>0, <1>5 DEF ReleaseSession, InCall
  <2>2. \A r \in Slots : Live(r)' => r # s
    <3>1. Releases(t, s)
      BY <2>1 DEF Releases, ReleaseOp
    <3>2. ReleaseFlag[s]
      BY <1>0, <3>1 DEF SesInv, OneOwner
    <3> QED BY <2>1, <3>2 DEF Live
  <2>3. \A r \in Slots : Answers(t, r) => Answers(t, r)'
    BY <1>f, <2>1 DEF Answers
  <2>4. \A r \in Slots : Live(r)' => WakesFor(t, r)
    BY <1>f, <2>1, <2>2, <2>3 DEF WakesFor, Live
  <2> QED BY <1>0, <1>f, <2>4, WakeStep
<1> QED BY <1>1, <1>2, <1>3, <1>4, <1>5

\* Opening a session: when it is published its queue is empty and its flag is free.
LEMMA OpenWake ==
  ASSUME SesInv, SesTypeOK', PacketInv, WakeInv, NEW t \in Threads, NEW a \in Slots,
         PopSession(t, a) \/ InitSession(t) \/ InitSessionPublish(t) \/ OnClientJoin(t)
  PROVE  WakeInv'
<1> DEFINE s == at[t]
<1>0. /\ SesTypeOK /\ s \in Slots /\ pc \in [Threads -> PC] /\ at \in [Threads -> Slots]
      /\ SessionUseFlag \in [Slots -> BOOLEAN] /\ ReleaseFlag \in [Slots -> BOOLEAN]
  BY DEF SesInv, SesTypeOK, ThrTypeOK, IdTypeOK
<1>1. /\ op[t] = "none" /\ pc[t] \in {"pop", "init", "publish", "join"}
      /\ io' = io /\ gone' = gone
      /\ \A u \in Threads \ {t} : pc'[u] = pc[u] /\ at'[u] = at[u]
  BY <1>0 DEF PopSession, InitSession, InitSessionPublish, OnClientJoin, Goto, Runs, netVars
<1>2. OnlyThread(t)
  <2>1. CASE OnClientJoin(t)
    BY <1>0, <1>1, <2>1, CallbackBegins DEF OnClientJoin, Callback, OnlyThread
  <2>2. CASE ~OnClientJoin(t)
    BY <1>1, <2>2 DEF PopSession, InitSession, InitSessionPublish, Goto, OnlyThread
  <2> QED BY <2>1, <2>2
<1>3. \A r \in Slots : ~HasSend(t, r) /\ ~Answers(t, r)
  BY <1>1, SerialPoints, AnswerPoints DEF HasSend, Answers
<1>4. CASE PopSession(t, a) \/ OnClientJoin(t)
  <2>1. UNCHANGED <<ReleaseFlag, SessionUseFlag, SendFlag, SendQ>>
    BY <1>4 DEF PopSession, OnClientJoin, idVars, sendVars
  <2>2. \A r \in Slots : Live(r)' => WakesFor(t, r)
    BY <1>1, <1>3, <2>1 DEF WakesFor, Live
  <2> QED BY <1>0, <1>2, <2>2, WakeStep
<1>5. CASE InitSessionPublish(t)
  <2>1. /\ UNCHANGED <<SessionUseFlag, SendFlag, SendQ>> /\ SendQ[s] = 0 /\ SendFlag[s] = 0
        /\ \A r \in Slots \ {s} : ReleaseFlag'[r] = ReleaseFlag[r]
    BY <1>0, <1>5, PointFacts DEF InitSessionPublish, Runs, sendVars, PacketInv, Empty
  <2>2. \A r \in Slots : Live(r)' => WakesFor(t, r)
    BY <1>1, <1>3, <2>1 DEF WakesFor, Live
  <2> QED BY <1>0, <1>2, <2>2, WakeStep
<1>6. CASE InitSession(t)
  <2>1. /\ ReleaseFlag' = ReleaseFlag
        /\ \A r \in Slots \ {s} : /\ SessionUseFlag'[r] = SessionUseFlag[r]
                                  /\ SendQ'[r] = SendQ[r] /\ SendFlag'[r] = SendFlag[r]
    BY <1>0, <1>6 DEF InitSession
  <2>2. \A r \in Slots : Live(r)' => r # s
    <3>1. Opens(t, s)
      BY <1>6, PointFacts DEF InitSession, Runs, Opens
    <3>2. ReleaseFlag[s]
      BY <1>0, <3>1 DEF SesInv, OneOwner
    <3> QED BY <2>1, <3>2 DEF Live
  <2>3. \A r \in Slots : Live(r)' => WakesFor(t, r)
    BY <1>1, <1>3, <2>1, <2>2 DEF WakesFor, Live
  <2> QED BY <1>0, <1>2, <2>3, WakeStep
<1> QED BY <1>4, <1>5, <1>6

\* RecvPost, SendPost and what follows a send.
LEMMA PostWake ==
  ASSUME SesInv, SesTypeOK', WakeInv, NEW t \in Threads,
         \/ RecvPostRecv(t) \/ RecvPostCancel(t)
         \/ SendPostLock(t) \/ SendPostUnlock(t) \/ SendPostFill(t)
         \/ SendPostSend(t) \/ SendPostCancel(t) \/ SendDoneFree(t) \/ SendDoneUnlock(t)
  PROVE  WakeInv'
<1> DEFINE s == at[t]
<1>0. /\ SesTypeOK /\ NetTypeOK /\ s \in Slots /\ pc \in [Threads -> PC] /\ at \in [Threads -> Slots]
      /\ io[s] \in [IoKind -> Nat] /\ SendFlag \in [Slots -> {0, 1}]
      /\ \A r \in Slots : SendQ[r] \in Nat /\ tmp[t] \in Nat
  BY DEF SesInv, SesTypeOK, NetTypeOK, SendTypeOK, ThrTypeOK
<1>1. /\ UNCHANGED <<ReleaseFlag, SessionUseFlag, gone, op, arg, at>> /\ op[t] = "none"
      /\ \A u \in Threads \ {t} : pc'[u] = pc[u]
  BY <1>0 DEF RecvPostRecv, RecvPostCancel, SendPostLock, SendPostUnlock, SendPostFill, SendPostFillTo,
     SendPostSend, SendPostCancel, SendDoneFree, SendDoneUnlock, Goto, Runs, idVars, netVars
<1>2. OnlyThread(t) /\ \A r \in Slots : Live(r)' = Live(r)
  BY <1>1 DEF OnlyThread, Live
<1>3. \A r \in Slots : /\ HasSend(t, r) <=> pc[t] \in SendPC /\ s = r
                       /\ HasSend(t, r)' <=> pc'[t] \in SendPC /\ s = r
                       /\ Answers(t, r) <=> pc[t] \in AnswerPC /\ s = r
                       /\ Answers(t, r)' <=> pc'[t] \in AnswerPC /\ s = r
  BY <1>1 DEF HasSend, Answers
<1>4. CASE RecvPostRecv(t)
  <2>1. /\ UNCHANGED <<SendFlag, SendQ>> /\ pc[t] = "rpRecv"
        /\ \A r \in Slots \ {s} : io'[r] = io[r]
        /\ \A j \in IoKind : io'[s][j] = io[s][j] + Bit(j = "recvPend")
    BY <1>0, <1>4, IoSteps DEF RecvPostRecv, Runs, sendVars, IoKind
  <2>2. Waking(io'[s]) = Waking(io[s]) /\ Unsent(io'[s]) = Unsent(io[s])
    BY <1>0, <2>1 DEF Waking, Unsent, Bit, IoKind
  <2>3. pc[t] \notin SendPC /\ pc[t] \notin AnswerPC
    BY <2>1, SerialPoints, AnswerPoints
  <2>4. \A r \in Slots : Live(r)' => WakesFor(t, r)
    BY <1>2, <1>3, <2>1, <2>2, <2>3 DEF WakesFor
  <2> QED BY <1>0, <1>2, <2>4, WakeStep
<1>5. CASE RecvPostCancel(t) \/ SendPostCancel(t)
  <2>1. /\ UNCHANGED <<SendFlag, SendQ>> /\ pc[t] \in {"rpCancel", "spCancel"}
        /\ \A r \in Slots \ {s} : io'[r] = io[r]
        /\ io' # io => ~SessionUseFlag[s]
    BY <1>0, <1>5, IoSteps DEF RecvPostCancel, SendPostCancel, Runs, sendVars
  <2>2. pc[t] \notin SendPC /\ pc[t] \notin AnswerPC
    BY <2>1, SerialPoints, AnswerPoints
  <2>3. ASSUME NEW r \in Slots, Live(r)' PROVE io'[r] = io[r]
    BY <1>2, <2>1, <2>3 DEF Live
  <2>4. \A r \in Slots : Live(r)' => WakesFor(t, r)
    BY <1>2, <1>3, <2>1, <2>2, <2>3 DEF WakesFor
  <2> QED BY <1>0, <1>2, <2>4, WakeStep
<1>6. CASE SendPostLock(t)
  <2>1. /\ UNCHANGED <<io, SendQ>> /\ pc[t] = "spLock"
        /\ pc'[t] = IF SendFlag[s] = 1 THEN "spUndo" ELSE "spSize"
        /\ \A r \in Slots : SendFlag'[r] = IF r = s THEN 1 ELSE SendFlag[r]
    BY <1>0, <1>6 DEF SendPostLock, Runs, Goto, netVars
  <2>2. pc[t] \notin SendPC /\ (SendFlag[s] # 1 => pc'[t] \in SendPC)
    BY <2>1, SerialPoints
  <2>3. \A r \in Slots : Live(r)' => WakesFor(t, r)
    BY <1>2, <1>3, <2>1, <2>2 DEF WakesFor
  <2> QED BY <1>0, <1>2, <2>3, WakeStep
<1>7. CASE SendPostUnlock(t) \/ SendDoneUnlock(t)
  <2>1. /\ UNCHANGED <<io, SendQ>> /\ pc'[t] \in {"spRecheck", "spRef"}
        /\ \A r \in Slots : SendFlag'[r] = IF r = s THEN 0 ELSE SendFlag[r]
    BY <1>0, <1>7 DEF SendPostUnlock, SendDoneUnlock, Runs, Goto, netVars
  <2>2. pc'[t] \in AnswerPC
    BY <2>1, AnswerPoints
  <2>3. \A r \in Slots : Live(r)' => WakesFor(t, r)
    BY <1>2, <1>3, <2>1, <2>2 DEF WakesFor
  <2> QED BY <1>0, <1>2, <2>3, WakeStep
<1>8. CASE SendPostFill(t) \/ SendDoneFree(t)
  <2>0. /\ UNCHANGED <<io, SendFlag>> /\ pc[t] \in {"spFill", "sent"} /\ pc'[t] \in {"spSend", "sentUnlock"}
        /\ \A r \in Slots : SendQ'[r] = SendQ[r] \/ SendQ'[r] = SendQ[r] - tmp[t]
    BY <1>0, <1>8 DEF SendPostFill, SendPostFillTo, SendDoneFree, Runs, Goto, netVars, SesTypeOK, SendTypeOK
  <2>1. /\ UNCHANGED <<io, SendFlag>> /\ pc[t] \in {"spFill", "sent"} /\ pc'[t] \in {"spSend", "sentUnlock"}
        /\ \A r \in Slots : SendQ'[r] > 0 => SendQ[r] > 0
    BY <1>0, <2>0
  <2>2. pc'[t] \in SendPC /\ pc'[t] \in AnswerPC
    BY <2>1, SerialPoints, AnswerPoints
  <2>3. \A r \in Slots : Live(r)' => WakesFor(t, r)
    BY <1>2, <1>3, <2>1, <2>2 DEF WakesFor
  <2> QED BY <1>0, <1>2, <2>3, WakeStep
<1>9. CASE SendPostSend(t)
  <2>1. /\ UNCHANGED <<SendFlag, SendQ>> /\ pc[t] = "spSend"
        /\ \A r \in Slots \ {s} : io'[r] = io[r]
        /\ \A j \in IoKind : io'[s][j] = io[s][j] + Bit(j = "sendPend")
    BY <1>0, <1>9, IoSteps DEF SendPostSend, Runs, sendVars, IoKind
  <2>2. Waking(io'[s]) > 0 /\ Unsent(io'[s]) > 0
    BY <1>0, <2>1 DEF Waking, Unsent, Bit, IoKind
  <2>3. \A r \in Slots : Live(r)' => WakesFor(t, r)
    BY <1>2, <1>3, <2>1, <2>2 DEF WakesFor
  <2> QED BY <1>0, <1>2, <2>3, WakeStep
<1> QED BY ONLY <1>4, <1>5, <1>6, <1>7, <1>8, <1>9,
      \/ RecvPostRecv(t) \/ RecvPostCancel(t)
      \/ SendPostLock(t) \/ SendPostUnlock(t) \/ SendPostFill(t)
      \/ SendPostSend(t) \/ SendPostCancel(t) \/ SendDoneFree(t) \/ SendDoneUnlock(t)

\* A completed send or a wake-up passes from the port to the worker that takes it.
LEMMA GqcsWakes ==
  ASSUME SesTypeOK, SesTypeOK', WakeInv, NEW t \in Threads, GqcsStep(t)
  PROVE  WakeInv'
<1>1. PICK s \in Slots : GqcsServes(t, s)
  BY DEF GqcsStep
<1>2. PICK k \in IoKind, l \in {"parse", "sent", "spRef", "final"} :
        Gqcs(t, s, k, l) /\ (k = "sendOk" => l = "sent") /\ (k = "wake" => l = "spRef") /\ k # "sendPend"
  <2>1. {"recvOk", "sendOk", "wake", "recvErr", "sendErr"} \subseteq IoKind
    BY DEF IoKind
  <2> QED BY <1>1, <2>1 DEF GqcsServes, GqcsRecv, GqcsSend, GqcsWake, GqcsFailed
<1>3. /\ OnlyThread(t) /\ op[t] = "none" /\ pc[t] = "gqcs" /\ pc'[t] = l /\ at'[t] = s
      /\ UNCHANGED <<ReleaseFlag, SessionUseFlag, gone, SendFlag, SendQ>>
  BY <1>2 DEF Gqcs, Runs, OnlyThread, idVars, sendVars, SesTypeOK, ThrTypeOK
<1>4. /\ \A r \in Slots \ {s} : io'[r] = io[r]
      /\ \A j \in IoKind : io'[s][j] = io[s][j] - Bit(j = k)
  BY <1>2, IoSteps DEF Gqcs, SesTypeOK
<1>5. io[s] \in [IoKind -> Nat] /\ {"wake", "sendPend", "sendOk"} \subseteq IoKind
  BY DEF SesTypeOK, NetTypeOK, IoKind
<1>6. /\ k # "sendOk" => Unsent(io'[s]) = Unsent(io[s])
      /\ k \notin {"sendOk", "wake"} => Waking(io'[s]) = Waking(io[s])
  BY <1>2, <1>4, <1>5 DEF Unsent, Waking, Bit
<1>7. /\ \A r \in Slots : ~HasSend(t, r) /\ ~Answers(t, r)
      /\ k = "sendOk" => HasSend(t, s)' /\ Answers(t, s)'
      /\ k = "wake" => Answers(t, s)'
  BY <1>2, <1>3, SerialPoints, AnswerPoints DEF HasSend, Answers
<1>8. ASSUME NEW r \in Slots, Live(r)' PROVE WakesFor(t, r)
  <2>1. Live(r)
    BY <1>3, <1>8 DEF Live
  <2>2. CASE r = s
    BY <1>3, <1>6, <1>7, <2>1, <2>2 DEF WakesFor
  <2>3. CASE r # s
    BY <1>3, <1>4, <1>7, <2>1, <2>3 DEF WakesFor
  <2> QED BY <2>2, <2>3
<1> QED BY <1>3, <1>8, WakeStep

\* The kernel drops a send unsent only on a broken connection, which ends the
\* session's life.
LEMMA KernelWake ==
  ASSUME SesTypeOK, SesTypeOK', WakeInv, NEW s \in Slots, KernelStep(s)
  PROVE  WakeInv'
<1>1. UNCHANGED <<pc, at, op, arg, SendFlag, SendQ, ReleaseFlag, SessionUseFlag>>
  BY DEF KernelStep, DataArrives, RecvBreaks, SendCompletes, SendBreaks, Complete, PeerGone,
         thrVars, sendVars, idVars
<1>2. \A r \in Slots : Live(r)' => Live(r)
  BY <1>1 DEF KernelStep, DataArrives, RecvBreaks, SendCompletes, SendBreaks, Complete, PeerGone,
         Live, SesTypeOK, NetTypeOK
<1>3. ASSUME NEW r \in Slots, Live(r)'
      PROVE  Unsent(io'[r]) = Unsent(io[r]) /\ Waking(io'[r]) = Waking(io[r])
  <2>0. NetTypeOK /\ io[s] \in [IoKind -> Nat] /\ ~gone'[r]
        /\ {"recvPend", "recvOk", "recvErr", "sendPend", "sendOk", "sendErr", "wake"} \subseteq IoKind
    BY <1>3 DEF SesTypeOK, NetTypeOK, IoKind, Live
  <2>1. ASSUME NEW k \in IoKind, NEW l \in IoKind, k # l, Complete(s, k, l),
               (k = "sendPend" /\ l = "sendOk") \/ {k, l} \cap {"sendPend", "sendOk", "wake"} = {}
        PROVE  Unsent(io'[r]) = Unsent(io[r]) /\ Waking(io'[r]) = Waking(io[r])
    <3>1. /\ \A q \in Slots \ {s} : io'[q] = io[q]
          /\ \A j \in IoKind : io'[s][j] = io[s][j] - Bit(j = k) + Bit(j = l)
      BY <2>0, <2>1, IoSteps
    <3>2. Unsent(io'[s]) = Unsent(io[s]) /\ Waking(io'[s]) = Waking(io[s])
      <4>1. k # "wake" /\ l # "wake"
        BY <2>1
      <4>2. io'[s]["wake"] = io[s]["wake"]
        <5>1. io'[s]["wake"] = io[s]["wake"] - Bit("wake" = k) + Bit("wake" = l) /\ io[s]["wake"] \in Int
          BY <2>0, <3>1
        <5> QED BY <4>1, <5>1 DEF Bit
      <4>3. /\ io'[s]["sendPend"] = io[s]["sendPend"] - Bit("sendPend" = k) + Bit("sendPend" = l)
            /\ io'[s]["sendOk"] = io[s]["sendOk"] - Bit("sendOk" = k) + Bit("sendOk" = l)
            /\ io[s]["sendPend"] \in Int /\ io[s]["sendOk"] \in Int
        BY <2>0, <3>1
      <4>4. CASE k = "sendPend" /\ l = "sendOk"
        BY <4>2, <4>3, <4>4 DEF Unsent, Waking, Bit
      <4>5. CASE {k, l} \cap {"sendPend", "sendOk", "wake"} = {}
        <5>1. k # "sendPend" /\ l # "sendPend" /\ k # "sendOk" /\ l # "sendOk"
          BY <4>5
        <5> QED BY <4>2, <4>3, <5>1 DEF Unsent, Waking, Bit
      <4> QED BY <2>1, <4>4, <4>5
    <3> QED BY <3>1, <3>2
  <2>2. CASE DataArrives(s)
    BY <2>0, <2>1, <2>2 DEF DataArrives
  <2>3. CASE RecvBreaks(s)
    BY <2>0, <2>1, <2>3 DEF RecvBreaks
  <2>4. CASE SendCompletes(s)
    BY <2>0, <2>1, <2>4 DEF SendCompletes
  <2>5. CASE SendBreaks(s)
    <3>1. r # s
      BY <2>0, <2>5 DEF SendBreaks, Complete
    <3>2. io'[r] = io[r]
      BY <2>0, <2>5, <3>1, IoSteps DEF SendBreaks
    <3> QED BY <3>2
  <2>6. CASE PeerGone(s)
    BY <2>6 DEF PeerGone
  <2> QED BY <2>2, <2>3, <2>4, <2>5, <2>6 DEF KernelStep
<1>4. \A u \in Threads, r \in Slots : HasSend(u, r)' = HasSend(u, r) /\ Answers(u, r)' = Answers(u, r)
  BY <1>1 DEF HasSend, Answers, Target, FindSession
<1>5. FlagAnswered'
  BY <1>1, <1>2, <1>3, <1>4 DEF WakeInv, FlagAnswered
<1>6. SendNotStranded'
  BY <1>1, <1>2, <1>3, <1>4, StrandedNamed, StrandedNamedNext DEF WakeInv
<1> QED BY <1>5, <1>6 DEF WakeInv

-----------------------------------------------------------------------------
(* Every announced ID is the slot's own and alive, about to be given its   *)
(* OnClientLeave, or was given it.                                         *)
LeaveDue(id) ==
  /\ id[2] = SessionID[FindSession(id)]
  /\ \/ ~ReleaseFlag[FindSession(id)]
     \/ \E t \in Threads : op[t] = "leave" /\ Target(t) = FindSession(id)

LeaveInv == \A id \in joined : id \in left \/ LeaveDue(id)

\* A step that announces nobody, keeps IDs and flags, and lets no thread leave
\* before its callback.
LEMMA QuietLeave ==
  ASSUME LeaveInv, NEW t \in Threads, OnlyThread(t),
         UNCHANGED <<joined, left, SessionID, ReleaseFlag>>,
         op[t] = "leave" => op'[t] = op[t] /\ arg'[t] = arg[t]
  PROVE  LeaveInv'
<1>1. \A u \in Threads : op[u] = "leave" => op'[u] = "leave" /\ Target(u)' = Target(u)
  BY DEF OnlyThread, Target, FindSession
<1>2. \A id \in joined : LeaveDue(id) => LeaveDue(id)'
  BY <1>1 DEF LeaveDue, FindSession
<1> QED BY <1>2 DEF LeaveInv

\* Steps that only move a thread on.
LEMMA MovesLeave ==
  ASSUME LeaveInv, NEW t \in Threads, Moves(t)
  PROVE  LeaveInv'
<1>1. OnlyThread(t) /\ UNCHANGED <<joined, left, SessionID, ReleaseFlag>>
  BY DEF Moves, idVars, histVars
<1>2. op[t] = "leave" => op'[t] = op[t] /\ arg'[t] = arg[t]
  BY DEF Moves, OwingOp
<1> QED BY <1>1, <1>2, QuietLeave

\* While nobody is to call back for a released slot, its IDs have all left.
LEMMA NothingDue ==
  ASSUME LeaveInv, NEW s \in Slots, ReleaseFlag[s],
         \A t \in Threads : op[t] = "leave" => Target(t) # s
  PROVE  \A id \in joined : FindSession(id) = s => id \in left
  BY DEF LeaveInv, LeaveDue

\* From the compare-exchange to the push: the callback runs before the ID is cleared.
LEMMA CallLeave ==
  ASSUME SesInv, SesTypeOK', LeaveInv, NEW t \in Threads,
         \/ SendPacketEnqueue(t) \/ SendPacketPost(t) \/ KillSessionUse(t) \/ KillSessionCancel(t)
         \/ DisconnectCas(t) \/ OnClientLeave(t) \/ ReleaseSession(t) \/ ReleasePush(t)
  PROVE  LeaveInv'
<1>0. /\ SesTypeOK /\ op \in [Threads -> Op] /\ arg \in [Threads -> Slots \X Nat]
      /\ ReleaseFlag \in [Slots -> BOOLEAN] /\ SessionID \in [Slots -> Nat]
      /\ joined \subseteq Slots \X Nat
      /\ \A u \in Threads : Target(u) \in Slots
  BY DEF SesInv, SesTypeOK, ThrTypeOK, IdTypeOK, HistTypeOK, Target, FindSession
<1>f. OnlyThread(t)
  BY <1>0 DEF SendPacketEnqueue, SendPacketPost, KillSessionUse, KillSessionCancel, DisconnectCas,
     DisconnectTo, OnClientLeave, ReleaseSession, ReleasePush, CallGoto, OnlyThread
<1>1. CASE SendPacketEnqueue(t) \/ SendPacketPost(t) \/ KillSessionUse(t) \/ KillSessionCancel(t) \/ ReleasePush(t)
  <2>1. op[t] # "leave" /\ UNCHANGED <<joined, left, SessionID, ReleaseFlag>>
    BY <1>1 DEF SendPacketEnqueue, SendPacketPost, KillSessionUse, KillSessionCancel, ReleasePush,
       InCall, idVars, histVars
  <2> QED BY <1>f, <2>1, QuietLeave
<1>2. CASE DisconnectCas(t)
  <2>1. CASE Releasable(Target(t))
    <3>1. /\ UNCHANGED <<joined, left, SessionID>> /\ op[t] # "leave" /\ op'[t] = "leave"
          /\ Target(t)' = Target(t)
          /\ \A r \in Slots \ {Target(t)} : ReleaseFlag'[r] = ReleaseFlag[r]
      BY <1>0, <1>2, <2>1 DEF DisconnectCas, DisconnectTo, CallGoto, InCall, histVars, Target, FindSession
    <3>2. \A u \in Threads : op[u] = "leave" => op'[u] = "leave" /\ Target(u)' = Target(u)
      BY <1>f, <3>1 DEF OnlyThread, Target, FindSession
    <3>3. ASSUME NEW id \in joined, LeaveDue(id) PROVE LeaveDue(id)'
      <4>1. FindSession(id) \in Slots /\ FindSession(id)' = FindSession(id)
        BY <1>0 DEF FindSession
      <4>2. CASE FindSession(id) = Target(t)
        BY <3>1, <3>3, <4>1, <4>2 DEF LeaveDue
      <4>3. CASE FindSession(id) # Target(t)
        BY <3>1, <3>2, <3>3, <4>1, <4>3 DEF LeaveDue
      <4> QED BY <4>2, <4>3
    <3> QED BY <3>1, <3>3 DEF LeaveInv
  <2>2. CASE ~Releasable(Target(t))
    <3>1. op[t] # "leave" /\ UNCHANGED <<joined, left, SessionID, ReleaseFlag>>
      BY <1>2, <2>2 DEF DisconnectCas, DisconnectTo, InCall, histVars
    <3> QED BY <1>f, <3>1, QuietLeave
  <2> QED BY <2>1, <2>2
<1>3. CASE OnClientLeave(t)
  <2>1. /\ UNCHANGED <<joined, SessionID, ReleaseFlag>> /\ op[t] = "leave"
        /\ left' = left \cup {<<Target(t), SessionID[Target(t)]>>}
    BY <1>3 DEF OnClientLeave, InCall, idVars, IdOf
  <2>2. ASSUME NEW id \in joined, LeaveDue(id) PROVE id \in left' \/ LeaveDue(id)'
    <3>1. /\ FindSession(id) \in Slots /\ FindSession(id)' = FindSession(id)
          /\ id = <<FindSession(id), SessionID[FindSession(id)]>>
      BY <1>0, <2>2 DEF FindSession, LeaveDue
    <3>2. CASE FindSession(id) = Target(t)
      BY <2>1, <3>1, <3>2
    <3>3. CASE FindSession(id) # Target(t)
      <4>1. \A u \in Threads : op[u] = "leave" /\ Target(u) = FindSession(id) =>
              op'[u] = "leave" /\ Target(u)' = FindSession(id)
        BY <1>f, <3>3 DEF OnlyThread, Target, FindSession
      <4> QED BY <2>1, <2>2, <3>1, <4>1 DEF LeaveDue
    <3> QED BY <3>2, <3>3
  <2> QED BY <2>1, <2>2 DEF LeaveInv
<1>4. CASE ReleaseSession(t)
  <2>1. /\ UNCHANGED <<joined, left, ReleaseFlag>> /\ op[t] = "release"
        /\ \A r \in Slots \ {Target(t)} : SessionID'[r] = SessionID[r]
    BY <1>0, <1>4 DEF ReleaseSession, InCall, histVars
  <2>2. \A id \in joined : FindSession(id) = Target(t) => id \in left
    <3>1. Releases(t, Target(t))
      BY <2>1 DEF Releases, ReleaseOp
    <3>2. ReleaseFlag[Target(t)] /\ \A u \in Threads \ {t} : ~Releases(u, Target(t))
      BY <1>0, <3>1 DEF SesInv, OneOwner
    <3>3. \A u \in Threads : op[u] = "leave" => Target(u) # Target(t)
      BY <2>1, <3>2 DEF Releases, ReleaseOp
    <3> QED BY <1>0, <3>2, <3>3, NothingDue
  <2>3. ASSUME NEW id \in joined, LeaveDue(id), FindSession(id) # Target(t) PROVE LeaveDue(id)'
    <3>1. FindSession(id) \in Slots /\ FindSession(id)' = FindSession(id)
      BY <1>0 DEF FindSession
    <3>2. \A u \in Threads : op[u] = "leave" => op'[u] = "leave" /\ Target(u)' = Target(u)
      BY <1>f, <2>1 DEF OnlyThread, Target, FindSession
    <3> QED BY <2>1, <2>3, <3>1, <3>2 DEF LeaveDue
  <2> QED BY <2>1, <2>2, <2>3 DEF LeaveInv
<1> QED BY <1>1, <1>2, <1>3, <1>4

\* A session is announced while it is live, and its slot was owed nothing before.
LEMMA OpenLeave ==
  ASSUME SesInv, SesTypeOK', LeaveInv, NEW t \in Threads, NEW a \in Slots,
         PopSession(t, a) \/ InitSession(t) \/ InitSessionPublish(t) \/ OnClientJoin(t)
  PROVE  LeaveInv'
<1>0. /\ SesTypeOK /\ at[t] \in Slots
      /\ ReleaseFlag \in [Slots -> BOOLEAN] /\ SessionID \in [Slots -> Nat]
      /\ joined \subseteq Slots \X Nat
  BY DEF SesInv, SesTypeOK, ThrTypeOK, IdTypeOK, HistTypeOK
<1>1. op[t] = "none" /\ left' = left /\ OnlyThread(t)
  <2>1. CASE OnClientJoin(t)
    BY <1>0, <2>1, CallbackBegins DEF OnClientJoin, Runs, Callback, OnlyThread, SesTypeOK, ThrTypeOK
  <2>2. CASE PopSession(t, a) \/ InitSession(t) \/ InitSessionPublish(t)
    BY <1>0, <2>2 DEF PopSession, InitSession, InitSessionPublish, Runs, Goto, OnlyThread, histVars,
       SesTypeOK, ThrTypeOK
  <2> QED BY <2>1, <2>2
<1>2. \A u \in Threads : op[u] = "leave" => op'[u] = "leave" /\ Target(u)' = Target(u)
  BY <1>1 DEF OnlyThread, Target, FindSession
<1>3. CASE PopSession(t, a)
  BY <1>1, <1>3, QuietLeave DEF PopSession, histVars
<1>4. CASE InitSession(t)
  <2>1. /\ UNCHANGED <<joined, ReleaseFlag>> /\ pc[t] = "init"
        /\ \A r \in Slots \ {at[t]} : SessionID'[r] = SessionID[r]
    BY <1>0, <1>4 DEF InitSession, Runs, histVars
  <2>2. \A id \in joined : FindSession(id) = at[t] => id \in left
    <3>1. Opens(t, at[t])
      BY <2>1, PointFacts DEF Opens
    <3>2. ReleaseFlag[at[t]] /\ \A u \in Threads \ {t} : ~Releases(u, at[t])
      BY <1>0, <3>1 DEF SesInv, OneOwner
    <3>3. \A u \in Threads : op[u] = "leave" => Target(u) # at[t]
      BY <1>1, <3>2 DEF Releases, ReleaseOp
    <3> QED BY <1>0, <3>2, <3>3, NothingDue
  <2>3. ASSUME NEW id \in joined, LeaveDue(id), FindSession(id) # at[t] PROVE LeaveDue(id)'
    <3>1. FindSession(id) \in Slots /\ FindSession(id)' = FindSession(id)
      BY <1>0 DEF FindSession
    <3> QED BY <1>2, <2>1, <2>3, <3>1 DEF LeaveDue
  <2> QED BY <1>1, <2>1, <2>2, <2>3 DEF LeaveInv
<1>5. CASE InitSessionPublish(t)
  <2>1. /\ UNCHANGED <<joined, SessionID>>
        /\ \A r \in Slots : ~ReleaseFlag[r] => ~ReleaseFlag'[r]
    BY <1>0, <1>5 DEF InitSessionPublish, histVars
  <2>2. ASSUME NEW id \in joined, LeaveDue(id) PROVE LeaveDue(id)'
    <3>1. FindSession(id) \in Slots /\ FindSession(id)' = FindSession(id)
      BY <1>0 DEF FindSession
    <3> QED BY <1>2, <2>1, <2>2, <3>1 DEF LeaveDue
  <2> QED BY <1>1, <2>1, <2>2 DEF LeaveInv
<1>6. CASE OnClientJoin(t)
  <2>1. /\ UNCHANGED <<SessionID, ReleaseFlag>> /\ pc[t] = "join"
        /\ joined' = joined \cup {<<at[t], SessionID[at[t]]>>}
    BY <1>6 DEF OnClientJoin, Runs, idVars, IdOf
  <2>2. ~ReleaseFlag[at[t]]
    BY <2>1, WorkedOn, PointFacts
  <2>3. \A id \in joined : LeaveDue(id) => LeaveDue(id)'
    BY <1>2, <2>1 DEF LeaveDue, FindSession
  <2>4. \A id \in joined' : id \in joined \/ (id[2] = SessionID'[FindSession(id)] /\ ~ReleaseFlag'[FindSession(id)])
    BY <2>1, <2>2 DEF FindSession
  <2>5. \A id \in joined' : id \in joined \/ LeaveDue(id)'
    BY <2>4 DEF LeaveDue, FindSession
  <2> QED BY <1>1, <2>3, <2>5 DEF LeaveInv
<1> QED BY <1>3, <1>4, <1>5, <1>6

\* The port and the kernel know nothing of IDs.
LEMMA TransferLeave ==
  ASSUME LeaveInv, UNCHANGED <<joined, left, SessionID, ReleaseFlag, op, arg>>
  PROVE  LeaveInv'
<1>1. \A id \in joined : LeaveDue(id) => LeaveDue(id)'
  BY DEF LeaveDue, Target, FindSession
<1> QED BY <1>1 DEF LeaveInv

-----------------------------------------------------------------------------
(* The whole invariant, and what each group of steps does to it.           *)
TrafficInv ==
  /\ SerialRecv /\ SerialSend
  /\ BufferInv
  /\ PacketInv
  /\ CancelInv
  /\ WakeInv
  /\ LeaveInv

\* Nothing travels at the start.
LEMMA TrafficInit == SesInit => TrafficInv
<1> SUFFICES ASSUME SesInit PROVE TrafficInv
  OBVIOUS
<1>0. /\ \A t \in Threads : pc[t] \in {"opened", "gqcs", "idle"} /\ op[t] = "none"
      /\ \A s \in Slots : /\ io[s] = NoIo /\ SendFlag[s] = 0 /\ SendQ[s] = 0 /\ SendPacketCnt[s] = 0
                          /\ pktRefs[s] = 0 /\ SessionID[s] = 0 /\ ReleaseFlag[s]
      /\ FreeSessionStack = Slots /\ joined = {}
  BY DEF SesInit
<1>1. \A s \in Slots : RecvIo(io[s]) = 0 /\ SendIo(io[s]) = 0 /\ Unsent(io[s]) = 0 /\ Pending(io[s]) = 0
  BY <1>0 DEF NoIo, IoKind, RecvIo, SendIo, Unsent, Pending
<1>2. \A s \in Slots : RecvHolders(s) = {} /\ SendHolders(s) = {}
  BY <1>0, SerialPoints DEF RecvHolders, SendHolders
<1>3. SerialRecv /\ SerialSend
  <2>1. \A s \in Slots : /\ RecvIo(io[s]) + Cardinality(RecvHolders(s)) = 0
                         /\ SendIo(io[s]) + Cardinality(SendHolders(s)) = 0
    BY <1>1, <1>2, FS_EmptySet
  <2>2. \A s \in Slots : /\ RecvIo(io[s]) + Cardinality(RecvHolders(s)) <= 1
                         /\ SendIo(io[s]) + Cardinality(SendHolders(s)) <= SendFlag[s]
    BY <1>0, <2>1
  <2> QED BY <2>2, SerialNamed
<1>4. BufferInv
  BY <1>0, <1>1 DEF BufferInv
<1>5. PacketInv
  BY <1>0, PointFacts DEF PacketInv, Empty
<1>6. CancelInv
  BY <1>0, <1>1, CancelNamed
<1>7. WakeInv
  BY <1>0, <1>1 DEF WakeInv, FlagAnswered, SendNotStranded, Live
<1>8. LeaveInv
  BY <1>0 DEF LeaveInv
<1> QED BY <1>3, <1>4, <1>5, <1>6, <1>7, <1>8 DEF TrafficInv

\* A step that touches no slot and no thread.
LEMMA TrafficStutter == ASSUME TrafficInv, UNCHANGED sesVars PROVE TrafficInv'
<1> USE DEF sesVars, idVars, sendVars, netVars, thrVars, histVars
<1>1. SerialRecv' /\ SerialSend'
  BY DEF TrafficInv, SerialRecv, SerialSend
<1>2. BufferInv' /\ PacketInv'
  BY DEF TrafficInv, BufferInv, PacketInv, Empty, Target, FindSession
<1>3. CancelInv'
  BY DEF TrafficInv, CancelInv, CancelNotMissed, Target, FindSession
<1>4. WakeInv'
  BY DEF TrafficInv, WakeInv, FlagAnswered, SendNotStranded, Live, HasSend, Target, FindSession
<1>5. LeaveInv'
  BY DEF TrafficInv, LeaveInv, LeaveDue, Target, FindSession
<1> QED BY <1>1, <1>2, <1>3, <1>4, <1>5 DEF TrafficInv

\* Steps that only move a thread on.
LEMMA MovesTraffic ==
  ASSUME SesTypeOK, SesTypeOK', TrafficInv, NEW t \in Threads, Moves(t)
  PROVE  TrafficInv'
  BY MovesSerial, MovesBuffer, MovesCancel, MovesWake, MovesLeave DEF TrafficInv

\* Every step of SendPacket, KillSession and DisconnectSession.
LEMMA CallTraffic ==
  ASSUME SesInv, SesTypeOK', TrafficInv, NEW t \in Threads, CallStep(t)
  PROVE  TrafficInv'
<1>0. SesTypeOK
  BY DEF SesInv
<1>1. CASE CallMoves(t)
  BY <1>0, <1>1, CallMovesMove, MovesTraffic
<1>2. CASE ~CallMoves(t)
  <2>1. \/ SendPacketEnqueue(t) \/ SendPacketPost(t) \/ KillSessionUse(t) \/ KillSessionCancel(t)
        \/ DisconnectCas(t) \/ OnClientLeave(t) \/ ReleaseSession(t) \/ ReleasePush(t)
    BY <1>2 DEF CallStep, CallMoves
  <2>2. SerialRecv' /\ SerialSend'
    BY <1>0, CallSerial DEF TrafficInv
  <2>3. BufferInv' /\ PacketInv'
    BY <2>1, CallBuffer DEF TrafficInv
  <2>4. CancelInv'
    BY <2>1, CallCancel DEF TrafficInv
  <2>5. WakeInv'
    BY <2>1, CallWake DEF TrafficInv
  <2>6. LeaveInv'
    BY <2>1, CallLeave DEF TrafficInv
  <2> QED BY <2>2, <2>3, <2>4, <2>5, <2>6 DEF TrafficInv
<1> QED BY <1>1, <1>2

\* The steps of a thread with a completion in its hands.
LEMMA WorkTraffic ==
  ASSUME SesInv, SesTypeOK', TrafficInv, NEW t \in Threads, WorkStep(t)
  PROVE  TrafficInv'
<1>0. SesTypeOK
  BY DEF SesInv
<1>1. CASE FrameMoves(t)
  BY <1>0, <1>1, FrameMovesMove, MovesTraffic
<1>2. CASE ~FrameMoves(t)
  <2>1. \/ RecvPostRecv(t) \/ RecvPostCancel(t)
        \/ SendPostLock(t) \/ SendPostUnlock(t) \/ SendPostFill(t)
        \/ SendPostSend(t) \/ SendPostCancel(t) \/ SendDoneFree(t) \/ SendDoneUnlock(t)
    BY <1>2 DEF WorkStep, RecvPostStep, SendPostStep, FrameMoves
  <2>2. SerialRecv' /\ SerialSend'
    BY <1>0, <2>1, PostSerial DEF TrafficInv
  <2>3. BufferInv' /\ PacketInv'
    BY <2>1, PostBuffer DEF TrafficInv
  <2>4. CancelInv'
    BY <2>1, PostCancel DEF TrafficInv
  <2>5. WakeInv'
    BY <2>1, PostWake DEF TrafficInv
  <2>6. UNCHANGED <<joined, left, SessionID, ReleaseFlag, op, arg>>
    BY <2>1 DEF RecvPostRecv, RecvPostCancel, SendPostLock, SendPostUnlock, SendPostFill, SendPostFillTo,
       SendPostSend, SendPostCancel, SendDoneFree, SendDoneUnlock, Goto, idVars, histVars
  <2>7. LeaveInv'
    BY <2>6, TransferLeave DEF TrafficInv
  <2> QED BY <2>2, <2>3, <2>4, <2>5, <2>7 DEF TrafficInv
<1> QED BY <1>1, <1>2

\* The steps that open a session.
LEMMA OpenTraffic ==
  ASSUME SesInv, SesTypeOK', TrafficInv, NEW t \in Threads, OpenStep(t) \/ PopNothing(t)
  PROVE  TrafficInv'
<1>0. SesTypeOK /\ at[t] \in Slots
  BY DEF SesInv, SesTypeOK, ThrTypeOK
<1>1. CASE FrameMoves(t)
  BY <1>0, <1>1, FrameMovesMove, MovesTraffic
<1>2. CASE ~FrameMoves(t)
  <2>1. PICK a \in Slots : PopSession(t, a) \/ InitSession(t) \/ InitSessionPublish(t) \/ OnClientJoin(t)
    BY <1>0, <1>2 DEF OpenStep, FrameMoves
  <2>2. SerialRecv' /\ SerialSend'
    BY <2>1, OpenSerial DEF TrafficInv
  <2>3. BufferInv' /\ PacketInv'
    BY <2>1, OpenBuffer DEF TrafficInv
  <2>4. CancelInv'
    BY <2>1, OpenCancel DEF TrafficInv
  <2>5. WakeInv'
    BY <2>1, OpenWake DEF TrafficInv
  <2>6. LeaveInv'
    BY <2>1, OpenLeave DEF TrafficInv
  <2> QED BY <2>2, <2>3, <2>4, <2>5, <2>6 DEF TrafficInv
<1> QED BY <1>1, <1>2

\* A worker takes a completion, or calls back with a message; a caller calls.
LEMMA ServeTraffic ==
  ASSUME SesTypeOK, SesTypeOK', TrafficInv, NEW t \in Threads,
         GqcsStep(t) \/ OnRecv(t) \/ ParseFail(t) \/ CallerCalls(t)
  PROVE  TrafficInv'
<1>1. CASE OnRecv(t) \/ ParseFail(t) \/ CallerCalls(t)
  BY <1>1, FrameMovesMove, MovesTraffic DEF FrameMoves
<1>2. CASE GqcsStep(t)
  <2>1. UNCHANGED <<joined, left, SessionID, ReleaseFlag, op, arg>>
    BY <1>2 DEF GqcsStep, GqcsServes, GqcsRecv, GqcsSend, GqcsWake, GqcsFailed, Gqcs, idVars, histVars
  <2>2. LeaveInv'
    BY <2>1, TransferLeave DEF TrafficInv
  <2> QED BY <1>2, <2>2, GqcsSerial, GqcsBuffer, GqcsCancel, GqcsWakes DEF TrafficInv
<1> QED BY <1>1, <1>2

\* The kernel completes, and peers leave.
LEMMA KernelTraffic ==
  ASSUME SesTypeOK, SesTypeOK', TrafficInv, NEW s \in Slots, KernelStep(s)
  PROVE  TrafficInv'
<1>1. UNCHANGED <<joined, left, SessionID, ReleaseFlag, op, arg>>
  BY DEF KernelStep, DataArrives, RecvBreaks, SendCompletes, SendBreaks, Complete, PeerGone,
     idVars, thrVars, histVars
<1>2. LeaveInv'
  BY <1>1, TransferLeave DEF TrafficInv
<1> QED BY <1>2, KernelSerial, KernelBuffer, KernelCancel, KernelWake DEF TrafficInv

\* A thread that works on no session goes on, or begins a kill.
LEMMA AsideTraffic ==
  ASSUME SesTypeOK, SesTypeOK', TrafficInv, NEW t \in Threads, op[t] = "none",
         UNCHANGED <<idVars, sendVars, netVars, histVars, tmp>>,
         \/ /\ pc[t] \in {"opened", "accept", "gqcs"}
            /\ \E l \in {"opened", "accept", "pop", "exited"} : Goto(t, l)
         \/ \E id : Call(t, "kill", id) /\ UNCHANGED <<pc, at>>
  PROVE  TrafficInv'
<1>1. "none" \notin OwingOp /\ "kill" \notin OwingOp
  BY DEF OwingOp
<1>2. /\ OnlyThread(t) /\ op'[t] \in {"none", "kill"} /\ at'[t] = at[t]
  BY DEF Goto, Call, OnlyThread, SesTypeOK, ThrTypeOK
<1>3. MovesFrom(t, pc[t], pc'[t]) /\ (pc[t] = "spFill" => pc'[t] = "spFill")
  BY DEF Goto, Call, MovesFrom, SesTypeOK, ThrTypeOK
<1>4. Moves(t)
  BY <1>1, <1>2, <1>3 DEF Moves
<1> QED BY <1>4, MovesTraffic

-----------------------------------------------------------------------------
(* What the invariants say together.                                       *)

\* A slot on the stack is idle and empty, and owes no callback.
LEMMA TrafficFacts ==
  ASSUME SesInv, TrafficInv
  PROVE  SerialIO /\ SendBufferStable /\ PacketsReturned /\ CancelNotMissed /\ SendNotStranded /\ FreeMeansLeft
<1>0. SesTypeOK /\ FreeSessionStack \subseteq Slots
  BY DEF SesInv, SesTypeOK, IdTypeOK
<1>1. SerialIO /\ CancelNotMissed /\ SendNotStranded
  BY DEF TrafficInv, SerialIO, CancelInv, WakeInv
<1>2. SendBufferStable
  BY DEF TrafficInv, BufferInv, SendBufferStable, Unsent
<1>3. \A s \in FreeSessionStack : ReleaseFlag[s] /\ \A t \in Threads : ~Releases(t, s)
  BY <1>0 DEF SesInv, OneOwner
<1>4. PacketsReturned
  <2>1. \A s \in FreeSessionStack : pktRefs[s] = 0
    BY <1>0 DEF TrafficInv, PacketInv, Empty
  <2>2. \A s \in FreeSessionStack : IoRefs(io[s]) = 0
    BY <1>0, <1>3, ReleasedIdle
  <2> QED BY <1>0, <2>1, <2>2 DEF TrafficInv, PacketInv, Empty, PacketsReturned
<1>5. FreeMeansLeft
  <2>1. \A s \in FreeSessionStack, t \in Threads : op[t] = "leave" => Target(t) # s
    BY <1>3 DEF Releases, ReleaseOp
  <2> QED BY <1>0, <1>3, <2>1, NothingDue DEF TrafficInv, FreeMeansLeft
<1> QED BY <1>1, <1>2, <1>4, <1>5
=============================================================================
