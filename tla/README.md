# NetworkLibrary in TLA+

NetworkLibrary is a Windows IOCP network library in C++: a server and a client
class that keep their sessions in a fixed array of slots, count references to
them instead of locking, and carry packets through lock-free queues and pools.
These modules model it, and the chat server that is its main example, so that
its interleavings can be checked with TLC and the properties that matter most
proved with TLAPS.

Paths below are relative to `src/`.

## 1. The system

| component | state | operations | who calls whom |
|---|---|---|---|
| NetServer (`NetworkLibrary/src/NetServer.cpp`) | `SessionArr` of `Session`: `SessionUseFlag`, `ReleaseFlag` + `RefCnt` (one 16 byte word, compared and exchanged together), `SessionID`, `SendFlag`, `SendBuffer` + `SendPacketCnt`, `SendQ`, `RecvQ`, socket; `FreeSessionStack`, `SessionIDCnt`, `Shutdown`, `ListenSocket`, `IOCP` | accept thread, worker threads; `SendPacket`, `KillSession`, `Stop` from any thread | workers and the accept thread call `OnConnectionRequest`, `OnClientJoin`, `OnRecv`, `OnClientLeave` of the application, which call back |
| NetClient (`NetworkLibrary/src/NetClient.cpp`) | the same slots | `Connect` on application threads instead of the accept thread | as above |
| LockFreeQueue (`BaseLibrary/include/LockFreeQueue.h`) | nodes linked by tagged pointers, with a reference count and a delete flag | `Enqueue`, `Dequeue`, `Clear` | send queues, the chat server's job queue |
| LockFreeStack (`BaseLibrary/include/LockFreeStack.h`) | cells linked by tagged pointers, a size beside them | `Push`, `Pop` | free slots, the stack of chunks |
| Memory pools (`LockFreeMemoryPool.h`, `TLSMemoryPool.h`) | a lock-free list of free nodes; a list of free nodes per thread, chunks shared through a stack | `Alloc`, `Free` | packets, queue nodes, stack cells, jobs, characters |
| Packet, XorPacketEncoder | buffer with `Front` and `Rear`, `RefCnt`, `EncodeFlag`, `SRWEncode` | `AllocPacket`, `FreePacket`, `Encode`, `Decode`, the ring operations of `RecvQ` | send and receive paths |
| ChatServer (`Examples/ChatServer`) | `CharacterMap`, `SectorList`, `JobQueue`, `JobEvent` | callbacks and the heartbeat timer enqueue jobs, one content thread consumes them | an application of NetServer |
| ChatDummyClient (`Examples/ChatDummyClient`) | sessions with a state, a socket and a send buffer | connect, login, move, chat, heartbeat, random disconnect | the chat server's clients |
| Config, Logger, CrashDump, MonitoringTool, Statistics | files, counters | parsing and output | everybody |
| TestServer, TestClient, NetworkLibraryTests | echo server, load generator, unit tests | | |

**What is hard.** There is no lock around a session. A slot is released by
whichever thread gives back the last of up to five kinds of reference: the
thread that works on the session, a receive, a send, a wake-up in the
completion port, a public call. A released slot is opened again at once for
another client, while other threads still hold IDs of the former session.
`KillSession` must cancel operations that other threads are just posting;
`SendPost` may only run once per session but must not leave a packet behind;
`Stop` works against all of this from outside. The stack and the queue use
nodes again while other threads still look at them; the pools let nodes change
their thread. A packet that is sent to many sessions is encoded by one of its
senders while the others look on. The chat server's tables are kept by one
thread from jobs that many threads make. `PROJECT.json` lists these points
under `hazards`, each at its line, with the properties that answer it.

**What makes the parts correct.**

* slots: counts are exact; one owner at a time; nothing works on a released
  session; an ID never reaches another session; each last reference is noticed;
* sending: one sender per session; every queued packet has somebody answering
  for it; packets are given back exactly once;
* receiving: one receive per session, so `OnRecv` never overlaps itself;
* callbacks: join, receives, leave, each session once;
* Stop: it ends; afterwards the server's threads call nothing;
* stack, queue, pools: a node is in one place; nothing is handed out twice; the
  counts that are kept beside the lists promise nothing that is not there;
* packets: encoded once, kept while somebody refers to them; what `Encode`
  writes `Decode` reads; a message is delivered when complete, in order;
* chat: jobs reach the content thread in an order that it survives; its tables
  agree; who left is forgotten; nobody sleeps on a job.

## 2. Modules

| module | is |
|---|---|
| `NetSession` | one slot from `InitSession` to `ReleaseSession`, with the public calls, the worker's handling of completions and the completion port |
| `NetServer EXTENDS NetSession` | accept thread, `Stop`, the next-state relation, fairness |
| `NetClient EXTENDS NetSession` | `Connect`, the client's `Stop` |
| `SessionCallbacks` | the abstract specification of what an application sees; `NetServer` implements it, `ChatServer` is built on it |
| `LockFreeQueue`, `FifoQueue` | the queue of nodes access by access, and what it promises |
| `LockFreeMemoryPool`, `LockFreeStack EXTENDS` it | the lock-free list of free cells and the stack that takes its cells from it, access by access |
| `TLSMemoryPool` | the thread-local pools over a stack of chunks whose operations take one step |
| `MemoryPools EXTENDS LockFreeStack, TLSMemoryPool` | the pools over the lock-free stack, which implement `TLSMemoryPool` |
| `PoolThreads` | the threads these share |
| `PacketEncoder` | `XorPacketEncoder`: header, checksum, the two XOR passes |
| `SharedPacket EXTENDS PacketEncoder` | packets from `AllocPacket` to the last `FreePacket`, sent by several threads to several sessions |
| `PacketFlow EXTENDS SharedPacket` | the byte stream and the peer, who takes it apart again in `RecvQ` |
| `ChatServer` | callbacks, job queue, content thread, heartbeat timer, over `SessionCallbacks` |
| `ChatDummyClient` | the clients |
| `Chat EXTENDS ChatServer, ChatDummyClient` | both, with the accept thread, slots and connections between them |
| `MCNetServer`, `MCNetClient`, `MCLockFreeQueue`, `MCMemoryPools`, `MCPacketFlow`, `MCChat` | the instances for TLC |
| `NetSessionInvariant`, `NetSessionTraffic`, `NetServerProofs`, `NetClientProofs`, `LockFreeQueueProofs`, `MemoryPoolsProofs`, `PacketFlowProofs`, `ChatProofs` | the proofs |

Operators named `..._bug` are no part of a model: each is the definition
after it with a plausible programming error, and shows that the property named
in `PROJECT.json` notices that error.

### Sessions

State:

* `SessionUseFlag`, `ReleaseFlag`, `RefCnt`, `SendFlag`, `SendPacketCnt`,
  `FreeSessionStack`, `SessionIDCnt`, `Shutdown` are the fields of that name.
  A session ID is the pair of its upper 16 bits (slot) and lower 48 (count);
  `SessionID[s]` holds the count, 0 after `ReleaseSession` cleared it.
* `SendQ` counts the packets of the queue; `pktRefs` counts the packet
  references that `SendPacket` has taken for a slot and nobody gave back.
* `io[s][k]` counts the operations and completions of slot `s` by kind:
  receive and send pending, completed, failed; `wake` are the completions that
  `SendPacket` posts. `gone[s]` says that the peer has closed the connection.
* A thread has two frames. `pc[t]` is its own loop, at the session `at[t]`;
  `op[t]` is the `SendPacket`, `KillSession` or `DisconnectSession` it has
  called, for the ID `arg[t]`. While `op[t] # "none"` the loop waits. `tmp[t]`
  is the one local that lives across steps (`SendPost`'s packet count,
  `GenerateSessionID`'s number).
* `ListenOpen`, `IocpOpen`, `Quit` stand for the socket, the port and the null
  completions that end the workers; `stop[t]`, `scan[t]` for a thread in `Stop`.
* `joined`, `left` are history: the IDs given to `OnClientJoin`/`OnClientLeave`
  (in the client, `OnConnect`/`OnDisconnect`).
* In `NetClient`, `announced[t]` is the ID that the `Connect` under way on `t`
  has called `OnConnect` with, `NoID` outside or before that.

One action is one access to state that other threads can see, named after its
function: `SendPacketRef`, `SendPacketCheck`, `SendPacketEnqueue`,
`SendPacketPost`, `SendPacketUndo` are the five steps of `SendPacket`. Several
accesses share an action only where all but one touch state that no other
thread can see then: `ReleaseSession` up to the `Push` (the slot belongs to the
releaser, theorem `OwnerCorrect`), `InitSession` up to its increment (the slot
belongs to the opener). Reading and writing `SessionIDCnt` are two steps
(`GenerateSessionID`, `InitSession`), as in the code.

`DisconnectCas` is the 128 bit compare-exchange of `{FALSE, 0}` by `{TRUE, 0}`;
`Finish` is the `if (DecrementSessionRef() == 0) DisconnectSession(...)` at the
end of both loops; the else branches of `SendPacket` and `KillSession`
decrement and look at nothing, as the code does.

`NetClient.cpp` repeats the session code of `NetServer.cpp` function by
function. `NetClient` has an operator for each of its functions (`SendPacket`,
`KillSession`, `DisconnectSession`, `RecvPost`, `SendPost`, `InitSlot`,
`ReleaseSlot`, ...) that groups the steps of `NetSession` it consists of, and
the actions of its own: `Connect` begins where `connect()` has succeeded
(`ConnectStart`), pops and initialises a slot, calls `OnConnect`
(`ConnectAnnounce`), posts the receive, gives its reference back, and in a step
of its own reads the ID that it returns (`ConnectReturn`). The client's `Stop`
has no accept thread to join and posts the workers' end straight after the wait.

**External** (modelled from how the code uses it): the completion port, which
hands every completion to one worker -- in any order, because a worker may be
suspended between taking a completion and its first access to the session;
`CancelIoEx`, which makes pending operations complete with failure; the peer;
the application, whose callbacks call nothing or one `SendPacket`/`KillSession`,
and whose threads call them with any ID ever announced.

`FreeSessionStack` is a set: `Push` and `Pop` are atomic, and a pop takes any
element. Beside a free slot a pop may fail too, if there is another opener that
stands outside (`PopNothing`): a `Pop` of `LockFreeStack` that fails has lowered `Size`
and raises it again as its last step, so that one may have yet to raise it. The guard of
`SendPacket` and `KillSession` reads `ReleaseArr` and `SessionID`, one after the
other; `GuardHolds` is one step, at the second read, because after a first
read of `FALSE` under the call's own reference nobody can release the slot before the
second. A failed `WSARecv`/`WSASend` is possible when the connection is broken.

### LockFreeQueue

`head`, `tail`, `Size`, `TagCnt` are the members of the class (`Head` and `Tail`
are operators of TLA+); `Next`, `Data`, `RefCnt`, `DeleteFlag` the fields of a
node, one value per node. `FreeNodes` is the pool, which gives out any node it
has and does not construct it again. `old`, `cur`, `node`, `nxt`, `tag`, `val` are the
locals of a thread's `Enqueue` or `Dequeue`, `pc` the access that comes next.
Each action is one access to shared memory, in the order of the code; preparing
a new node is one, because the node is private until it is linked. That
`Next = Tail->Next` reads `Tail` a second time is kept (`EnqueueReadAgain`,
`EnqueueReadNext`). `Clear` is one action that runs when no other call does, as
in `InitSession`. The branch of `Dequeue` that moves `Tail` (line 179) is part of
`DequeueCheck`; `ItemBeforeTail` shows that it is never taken, because `Size` is
raised only after `Tail` was moved.

The mapping to `FifoQueue`: the queue is the data of the nodes behind `head`
(`Contents`), so that linking a node is the enqueue and moving `Head` the dequeue.
`FifoQueue` also says what each call has yet to do (`doing`, here `Stages`, from `pc`
and `node`): a call that enqueues must link exactly one node before it
returns, one that dequeues takes one or none, and only `Clear`, when nobody is in a
call, may drop the list.

### Stack and pools

`LockFreeMemoryPool` has the pool's `HeadFreeNode` with its tag, the links
`FreeNext` of free cells, `FreeCellCnt` and `UseCellCnt` for its counters, and
per thread where it stands (`pc`), the top and link it has read (`old`, `nxt`),
its cell, and how many cells `NewNode` has yet to make (`left`). A *cell* is
what the code calls a node of the stack; a *node* is one of the thread-local
pool. `LockFreeStack` adds `Top`, `Next`, `Data`, `Size`. Each action is one
access to shared memory (`PushLink`, `PushCas`, `PopReserve`, `PopUndo`,
`PopCas`, ...); `Pop` lowers `Size` before it looks at the list, `Push` raises
it after linking. The 16 bit tag is abstracted to *some tag that no thread
holds*: a wrap within one suspended operation is out of the model.

In `TLSMemoryPool` a thread's list is the sequence of nodes that its `Next`
fields run through, a chunk is the sequence that can be reached from its first
node -- so that a chunk cut in the wrong place has the wrong length --, `hand` is
the chunk a thread has taken or is about to give, `used` what the program has,
`deleted` what went with a thread (`EndThread`, the destructor of its pool).
`TakeChunck` and `GiveChunck` are `ChunckStack.Pop` and `Push`.

`MemoryPools` puts `LockFreeStack` in their place: the compare-exchange of `Push`
is the step at which `chunks` gets the chunk, that of `Pop` the step at which it
loses it, and the thread has then what it *read* (`val`), which
`StackKeepsChunks` compares with what the abstract stack says. `ImplementsPool`
is the refinement: the same variables satisfy `PoolSpec`.

### Packets

`PacketEncoder` states the loops of `Encode` and `Decode` by the equations
between neighbouring bytes (`Chained`, `Unchained`), the checksum by its partial
sums. A byte has `ByteSize` values, and the two bytes of `Len`, which nothing
looks at one by one, count as one.

`SharedPacket`: `refCnt`, `encodeFlag`, `lock` are `RefCnt`, `EncodeFlag`,
`SRWEncode`; `data` is what is between `Front` and `Rear`; `pc` is the place in
`SendPacket` (`Look`: `IsEncoded` without the lock; `LockPacket` with the second
`IsEncoded`; `Encode`; `UnlockPacket`, which sets the flag; `Enqueue`). A thread
`holds` packets outside `SendPacket` and may hand them over. `SendPost`,
`Transmit` (the kernel reads a packet, at any time before the send is complete)
and `SendDone` take turns for a session; that they do is `NetSession`'s business.

`PacketFlow`: `wire` is the stream of a session; `RecvCompletes` puts a piece of
it behind `Rear`, `HandleMessage` is one round of the worker's parse loop,
`RecvPost` what `RecvPost` does with the buffer. `GetFreeSize` offers the kernel
`RecvSize - used`, but in a cleared buffer `Front` stands at `kHeaderDefault`:
more bytes may come than there is room for behind `Rear`. The overrun is
undefined behaviour; the model of that session stops there (`overrun`).

### Chat

A job is a record in `JobQueue`; each callback is its enqueue, and setting
`JobEvent` (an auto-reset event) is a step of its own (`signalling`). The content
thread takes a job and handles it in one step (`HandleJob`), because all that
others see of it are packets and kills; finding no job, beginning to wait and
waking are three steps (`FindNoJob`, `StartWaiting`, `WakeUp`). `characters` is
`CharacterMap`; `SectorList` counts how often each character is on a sector's list,
so that a character put on twice, or left on, can be seen. `SectorY`, which
`CreateCharacter` does not set, is `Unset`. The `Crash` calls of the code set
`crashed`, that of `MessageControl` for a text that does not fit its buffer
(`Content.cpp:235-239`) included; such texts are the set `LongTexts`, which none of
`ChatDummyClient`'s is in. Before the first move `SectorX` is -1.

`JobQueue` is a sequence. `LockFreeQueue` is the code behind it, but as every
callback thread enqueues here it is used beyond what is proved of the queue, and
with three producers beyond what holds (finding 3): that the job queue loses and
swaps nothing is an assumption of `ChatServer`.

`ServerSpec` lets clients send any message at any time; `Chat` restricts that to
what `ChatDummyClient` sends. There, a client's session has the states of the
code (`kConnecting`, in which nothing is done, left out), `up` is the stream to
the server, `gone` and `refused` are closed connections. The accept thread asks
`OnConnectionRequest`, which compares the number of characters, as the code does, and
not of sessions (`Accept`), and in a later step gives the connection (`accepted`) a
session and calls `OnClientJoin` (`OpenSession`). The code takes the slot that came
back last; the model takes any free one. The client's buffers are sequences
without a limit: the code drops a packet for which `sendBuf` has no room, which is
then not asked, and disconnects when `recvBuf` is full or a packet fails its checks, which
the packets of `ChatServer` do not.

## 3. What is checked

`server_...` are runs of `MCNetServer`, `client_...` of `MCNetClient`, `queue_...`
of `MCLockFreeQueue`, `pools` of `MCMemoryPools`, `packet_flow` of `MCPacketFlow`,
`chat` of `MCChat`.

| run | instance | properties | shows |
|---|---|---|---|
| `server_safety` | 1 slot opened twice, 2 workers, 1 application thread, 1 packet | `TypeOK`, `RefCntExact`, `OneOwner`, `NoUseAfterRelease`, `GuardPinsSession`, `SerialIO`, `SendBufferStable`, `PacketsReturned`, `CancelNotMissed`, `SendNotStranded` | the counting, ownership, sending, receiving and cancelling discipline in every interleaving of two workers with a thread that uses present and stale IDs |
| `server_owned` | 1 session, 2 workers, callbacks call with their own ID | `NoLostRelease`, `BrokenLeaves` | when only IDs of open sessions are used, the last reference is always noticed, and every broken or killed session gets its `OnClientLeave` |
| `server_callbacks` | 2 slots, 2 workers, callbacks kill any session ever announced | `ImplementsCallbacks` | the callbacks implement `SessionCallbacks` |
| `server_stop` | 1 slot opened twice, a worker, a caller, a stopper, `WaitTimesOut = TRUE` | `FreeMeansLeft`, `StopReturns`, `QuietAfterStop` | Stop ends, joins nobody who waits for it, and silences the server's threads |
| `server_leak` | as `server_safety`, one worker | `NoLostRelease` | violated, see findings |
| `server_stop_late` | as `server_stop`, no timeout | `StopServesEverySession` | violated, see findings |
| `client_connect` | 1 slot, 2 threads in `Connect`, a worker, a stopper, `WaitTimesOut = TRUE` | `TypeOK`, `ConnectReturnsOpen`, `ConnectEnds`, `StopReturns` | Connect and Stop end whatever the other does; the ID returned is that of the announced session unless it has ended |
| `queue_fifo` | 3 nodes; a thread that enqueues and dequeues once, one that enqueues twice, one that dequeues (or clears) once | `SizeExact`, `TailInList`, `HeldNodeKept`, `ItemBeforeTail`, `ImplementsFifo`, `OperationsEnd` | the list is a FIFO queue although nodes are used again, and the thread `t1` may stop anywhere without holding up the others |
| `queue_free` | 4 nodes, two threads that enqueue once, one that enqueues and dequeues three times | `HeldNodeKept` | violated, see findings |
| `pools` | 3 threads, 10 nodes, chunks of two, 4 cells made one at a time | `ListsCounted`, `NodeOnce`, `CountsKeepPromises`, `CellOnce`, `StackKeepsChunks`, `ImplementsPool` | the thread-local pools over the lock-free stack are the pools over an atomic one; nothing is in two places though cells and nodes go round while a thread stands inside `Pop` |
| `packet_flow` | 2 threads, 2 packets that are used again, 2 sessions, one with its peer, pieces of 2 and 7 bytes | `RefsExact`, `QueuedEncoded`, `ReceivedAsSent`, `EverythingArrives` | a shared packet is encoded once and kept while it is referred to; what was sent arrives whole and in order, unless a receive overruns the buffer |
| `chat` | 1 client with 2 connections, 2 slots, a heartbeat check | `NeverCrashes`, `WorldConsistent`, `AnsweredInOrder`, `LeftAreForgotten` | with the repository's own clients the content thread survives a session that comes back while the last one is still being taken apart; answers come in order; who left is forgotten |

### Bounds

*Sessions.* `MaxID` is the number of sessions opened: 2 is the smallest number at
which a slot has a former and a present session, which is what stale IDs need;
`server_owned` needs one. In the client it limits when a `Connect` may begin, so
with `MaxID = 1` two that overlap still open the slot one after the other, with
two sessions. `MaxQueue` limits the packets and wake-ups a slot may
have when a call to `SendPacket` *starts*, so more can be reached by calls that
overlap; 0 switches sending off where a run is about something else. One slot
is enough for all that happens inside a slot, because slots share only the free
stack and the ID counter; `server_callbacks` has two. Two workers are the least
number that can handle a receive and a send of one session at once, the most
that its operations allow apart from wake-ups. `CallbackIDs` says which IDs
callbacks use. Workers are symmetric; the runs with liveness use no symmetry.

*Queue.* Three enqueues on three nodes, one of them the dummy, use
a node again, which is what references and tags are for. `queue_free` needs
three threads in `Enqueue` at once; its constraint `Staggered` lets them start one
after the other, which shortens the search and cannot make a behaviour up.

*Pools.* An ABA in `Pop` needs a chunk on the stack that is taken, and its cell
pushed again, while another thread has read it. `t1` gives three chunks away
(`Lead` frees), then `t2` and `t3` each begin one `Alloc` against `t1`'s last calls,
which take a chunk and give one back; `t1` may end when its calls are made. Four
cells with `MemoryAllocSize = 1` make every way through `NewNode` and through a
used cell happen. Which new node the heap gives, and which used node is freed,
makes no difference, so one is chosen. `t2` and `t3` are symmetric.

*Packets.* Bytes of two bits, with a real XOR of them; payloads of no and of two
bytes, so that messages of one header and of more than one piece occur. The
buffer takes 8 bytes with `HeaderDefault` 2: a piece of 2 leaves a message in
parts, one of 7 holds a message and the beginning of the next, and overruns a
cleared buffer. The second session is there for the packet that is shared; its
peer would only repeat the first's. `MaxPayloadLen` is 3, so acceptable and
never met; a peer that sends something else is not in the model.

*Chat.* The second connection of one client may be accepted, join and log in
while the first's messages and leave are still on their way, on another slot or
on the same; that is the hard case for the order of jobs. The first connection
has one message beyond login and move, the second none. `MaxUser` is 2, so that both
connections may be in and `OnConnectionRequest` refuses nobody. Three things
are therefore left to the theorems, which bound nothing: tables with more
characters than `MaxUser`, and the leaving of one sector for another, since each
connection moves once (both `ServerConsistent`), and the order of several texts of one
connection, since there is one at most (`AnswersCorrect`). `LongTexts` is
empty, because the clients' texts fit. `MaxSignalling = 1` lets one callback at a
time stand between its job and its event; more would set the same flag.

### Deadlock and fairness

Deadlock checking is off where the system may really come to rest: all clients
served and gone, `Stop` completed, or the bounds used up.

Fairness is what the code's scheduling gives. *Sessions* (`FairSpec`): each
thread that can run does (weak fairness of its own steps, `Progress`). The
completion port is a queue, so a slot that keeps having completions is served in
the end (strong fairness per slot). A receive holds finitely many messages, so a
worker does not stay in the parse loop (strong fairness of `ParseDone`). The
kernel ends a receive on a broken connection and every send. A worker that keeps
coming back to the port finds its null completion (strong fairness of
`WorkerQuit`; the null completions are in the same queue). Peers, clients and
application threads may do nothing at all. The accept thread is fair only in
leaving its loop, a `Connect` only once it has begun. The client's application is
assumed not to begin a `Connect` after `Stop` has set `Shutdown`; one under way
goes on.

*Queue:* the threads in `Running` are scheduled in the end (weak fairness of an
operation once begun); nothing is assumed of the others. An operation may have
to repeat its loop whenever another one succeeds: `OperationsEnd` holds for
finitely many operations, as lock freedom promises no more. *Packets:* a
`SendPacket` that has begun goes on, and so do the kernel and the workers of both
ends. *Chat:* a callback that has queued its job sets the event, and the content
thread is scheduled; clients, accept thread and timer may do nothing.

### Findings

1. **A stale ID can make a session immortal** (`server_leak`,
   `NetServer.cpp:376` and `:551`). `SendPacket` and `KillSession` increment
   `RefCnt` before they compare the ID. With the ID of a released session they
   touch the slot's next session for a moment; if that session's own last
   decrement happens in this moment, the count reaches zero by the decrement in
   the else branch, whose result nobody looks at. `DisconnectSession` is then
   never called: no `OnClientLeave`, the slot is lost. Until then every other
   property holds: the leak loses the session, it corrupts nothing. `Stop`'s
   own scan reads `SessionID` without a reference and can play the stale
   caller. ChatServer's content thread sends with IDs taken from a job queue,
   so stale IDs occur in a real program.
2. **Stop does not give every session its OnClientLeave** (`server_stop_late`).
   The accept thread looks at `Shutdown` only at the head of its loop, and
   `ListenSocket` is closed after the kill scan and the wait: a session opened
   in between is killed by nobody, although `NetServer.h:64` guarantees its
   `OnClientLeave`.
3. **A referenced queue node can be freed** (`queue_free`,
   `LockFreeQueue.h:149`). The brief (`docs/NetworkLibrary-brief.md:149`) says that
   a node that is referenced is not freed. Dropping a reference to zero and
   looking at `DeleteFlag` are two steps. An `Enqueue` whose reference was stale --
   taken on a node already in the pool -- drops it to zero and is suspended;
   the node is allocated and linked again, referenced by another `Enqueue`, and
   taken out by a `Dequeue`, which sets `DeleteFlag` for the reference that
   remains. The suspended thread now finds the flag and frees the node. The
   other `Enqueue` goes on to use a node of the pool, which is the situation the
   brief describes as closed. It takes three threads in `Enqueue`; with two,
   `queue_fifo` finds nothing.

Also seen while modelling, in the models or in the code, and run by nothing:

* *Stop is synchronous for its first caller only.* `NetServer.h:65` promises that
  all threads have ended on return; a second caller returns while the first
  still waits (`StopCall` has this).
* *Connect may return something else than its session's ID* (`NetClient.cpp:276`).
  It reads `SessionID` after giving its reference back: if the session has been
  released by then it returns the slot number alone -- 0, "failure", only for
  slot 0 -- or the ID of the session that another `Connect` has opened there.
  `NetClient.h:71` promises the session's ID or 0. What holds is
  `ConnectReturnsOpen`: it goes wrong only for sessions whose `OnDisconnect` has
  been called.
* *`TestClient` can lose a connection to the same window.* Its sender stores the ID
  that `Connect` returned, and clears `disconnected`, only after the call
  (`TestClient/main.cpp:227-230`). An `OnDisconnect` that comes before the first store
  finds no state to mark (`:55`), one between the two stores is overwritten (`:230`).
  The state then counts as connected for ever: in mode 2 it calls `Disconnect` for a
  session that is gone whenever its lifetime ends and never reconnects, against the
  comment at `:28-29`.
* A `KillSession` under way on an application thread can call `OnClientLeave` after
  `Stop` has returned. `QuietAfterStop` states exactly this exception.
* `GetFreeSize` counts the room before `Front`: after `Clear`, a receive is offered
  `kHeaderDefault` (20) bytes more than there are behind `Rear` (`overrun` in
  `PacketFlow`; both packet properties are stated for streams without one).
* A message whose payload is empty is not looked at before the next one's first
  byte has come (`CheckPacketMessageComplete` wants *more* than a header);
  `Missing` states exactly this exception to `EverythingArrives`.
* More users than `MaxUser` may be let in (`Content.cpp:37`), although
  `ChatConfig.ini:10` calls it "최대 유저 수", the largest number of users, and the session
  pool has twice as many. `OnConnectionRequest` compares it with the number of
  characters, which the content thread creates later, from the join jobs: connections
  accepted in between are not counted. With `MaxUser = 1` and two clients `Accept`,
  `OpenSession`, `Accept` lets both in. Only the slots bound the characters
  (`OneCharacterPerSlot`); the tables stay consistent (`ServerConsistent`).
* A login that comes after a move crashes the
  server, and so would any client that does not keep `ChatDummyClient`'s order. A text
  said by an old connection of an account may be heard by its new one.
* `brief.md:157` speaks of a buffer of 4096 bytes by default; `kBufferDefault` is 1024,
  and it is `RecvQ` that is made with 4096. `MaxPayloadLen` may be larger than a
  packet from the pool can hold.

## 4. What is proved

Eight modules hold theorems. None assumes a bound: any number of threads,
slots, sessions, packets, nodes, bytes.

### Sessions

Assumed: `TotalSessionCnt` is positive, there are finitely many threads,
application threads are neither openers nor workers, threads in `Stop` are
application threads, the server has one accept thread (`Start` creates one;
`AcceptAssumption`, which the client does not make).

| theorem (`NetServerProofs`) | says |
|---|---|
| `TypeCorrect` | `Spec => []TypeOK`; counts of operations never become negative, `Stop` kills no slot past the end |
| `RefCountCorrect` | `Spec => []RefCntExact` |
| `OwnerCorrect` | `Spec => []OneOwner` |
| `ReleaseCorrect` | `Spec => []NoUseAfterRelease` |
| `GuardCorrect` | `Spec => []GuardPinsSession` |
| `SerialCorrect` | `Spec => []SerialIO`: one receive, one sender per session |
| `SendBufferCorrect` | `Spec => []SendBufferStable` |
| `PacketsCorrect` | `Spec => []PacketsReturned` |
| `CancelCorrect` | `Spec => []CancelNotMissed` |
| `WakeCorrect` | `Spec => []SendNotStranded` |
| `LeaveCorrect` | `Spec => []FreeMeansLeft` |
| `CallbacksImplemented` | `Spec => ImplementsCallbacks`: the server implements `SessionCallbacks`, step by step |
| `OwnedReleaseNoticed` | `Spec => []NoLostRelease` if `Callers = {}` and callbacks name their own session |
| `StopQuiet` | `Spec => QuietAfterStop` |

and in `NetClientProofs`, assuming nothing more:

| theorem | says |
|---|---|
| `ClientTypeCorrect` | `Spec => []TypeOK` of the client |
| `ClientSlotsInvariant` | `Spec => []SesInv`: the same invariant with many openers |
| `ConnectCorrect` | `Spec => []ConnectReturnsOpen` |
| `ClientTrafficCorrect` | the six properties from `SerialIO` to `FreeMeansLeft`, for the client |

The inductive invariant is `SesInv` (`NetSessionInvariant`, theorem
`SlotsInvariant`): the four properties and `OpeningAlone`, that an opener makes
no call before its slot is published. None of the four is inductive alone. That
nothing works on a released session needs the count to be exact, because the
compare-exchange tests the count; that an opener may write the slot's ID
without disturbing a guarded call needs `NoUseAfterRelease`; that the releaser
stays alone needs `OneOwner`.

The argument. `RefCntExact` compares a number with cardinalities of sets of
threads. `HoldersChange` says that when one thread moves, the cardinalities
change by what this thread holds (`Held`); a step is *quiet* (`QuietFor`) when
count, thread and kernel change by matching amounts, ownership stays, and the
thread uses only what is not released. `QuietStep` proves the invariant for
quiet steps, `QuietCall` and `QuietGoto` specialise it to a thread's two frames,
and most actions are instances. The others have their own proofs:
`DisconnectInv` (the compare-exchange finds no holder, `NoHolders`), `PopInv`,
`InitSessionInv`, `PublishInv`, `GqcsInv` (a completion's reference passes to
the worker), `FinishInv`, `KernelInv`.

*Traffic.* The six properties about what a session sends and receives need
more than `SesInv`: `TrafficInv` (`NetSessionTraffic`, theorem
`TrafficInvariant`; `ClientTrafficInvariant`). Most steps only move one thread
from a place to a place that counts the same; `Moves` says so, and one lemma for
each part treats them all. What is left:

* `SerialRecv` and `SerialSend` count holders, as `RefCntExact` does
  (`SharesKeepSerial`); the initialisation of a slot may reset `SendFlag` because
  a released slot has no I/O and no thread (`ReleasedIdle`).
* `BufferInv` knows where the packets of `SendBuffer` are while one sender is under
  way, and that the queue holds at least what this sender counted: nobody else
  dequeues (`SenderAlone`). `PacketInv` adds up references, queue and buffer.
* `CancelInv`: an operation that is pending on a session marked unusable has a
  `KillSession` before its `CancelIoEx`, or a thread before its second look.
* `WakeInv`: while `SendFlag` of a live session is set somebody answers for it
  (`FlagAnswered`); so whoever finds it set may leave the packet to him.
* `LeaveInv`: an announced ID has left, or is its slot's present one and the
  slot is live or its releaser stands before `OnClientLeave`.

*Callbacks.* The refinement needs `AnnounceInv` besides: what stands (is live and
not just being announced, or about to leave) is announced and has not left; the
ID on its way to `OnClientJoin` is greater than all announced. Greater is where
the single accept thread is used: `++SessionIDCnt` is a read and a write, and two
threads would announce the same count. `Join` then follows from `LeaveInv` -- an
earlier ID of the slot that had not left would be the slot's present one --,
`RecvBegin` and `RecvEnd` from `SerialRecv`, `Leave` from the reference that a
thread in `OnRecv` holds. All else is a stutter (`ServerStepCallbacks`).

*Lost releases.* A callback that names its own session always passes the guard,
because its thread's reference keeps the session and its ID (`OwnCalls`). So no
call comes to the decrement whose result is not looked at; the other decrements
either look (`Finish`, `KillSessionDec`) or are made under the thread's own
reference (`Counted`). Without the restriction the property is false, see
finding 1.

*Stop.* `Exits`: a thread leaves its loop outside of any call, the accept thread
before the workers are told to, all of them before the port is closed.

`ConnectCorrect` needs one more conjunct, `AnnouncedStands`: an announced
session that has not left is in its Connect's slot, and if that slot is released
then its releaser still stands before `OnDisconnect`. `StandsKept` treats the
steps that touch neither IDs nor releasers; `OneOwner` does the rest, because
whoever writes a slot's ID owns the slot alone, and `NoUseAfterRelease` makes
it true at the announcement.

### Queue (`LockFreeQueueProofs`)

Assumed, beside finitely many threads and nodes:

* `OneProducer`: only one thread enqueues; any number dequeue. It is how
  `ChatServer` uses its send queues, because only its content thread calls
  `SendPacket` (`Content.cpp:164`, `:217`, `:356`), while any worker may dequeue in
  `SendPost`. The job queue of `ChatServer`, into which every worker enqueues, is not
  covered: with three threads in `Enqueue` at once `HeldNodeKept` is false (finding 3).
* `FreshTag`: no `Dequeue` is handed a tag that `Head`, or another `Dequeue` that
  still compares with it, carries. The tag has 16 bits (`LockFreeQueue.h:69`), so
  this fails if an operation is suspended while 65536 tags are drawn. Nothing in the
  code prevents that; the model's bounds never get there.

| theorem | says |
|---|---|
| `QueueInvariant` | `Spec /\ [][FreshTag]_vars => []Inv`, the inductive invariant |
| `SizeIsExact` | `SizeExact`: `Size`, changed apart from the list, and the operations under way give the number of items |
| `TailIsInList` | `TailInList` |
| `HeldNodeIsKept` | `HeldNodeKept`: nodes are used again, but not the one to which an `Enqueue` links |
| `ItemIsBeforeTail` | `ItemBeforeTail`: a `Dequeue` that `Size` promised an item finds it |
| `QueueIsFifo` | `ImplementsFifo`: the list implements `FifoQueue`, step by step; every `Enqueue` links one item before it returns, and only `Clear` drops any |

`Inv` says that the nodes from `head` on are `f[a], ..., f[b]` for some sequence `f`, each
once, and that the rest of the state agrees with them (`QueueOK`). So a step
of the list is a step of `a` (a `Dequeue`), of `b` (an `Enqueue`) or of both (`Clear`). `ProducerOK`:
`tail` is the last node, or the last but one while the producer has linked its
node and not moved `tail`; what it has read of `tail` is still so, because nobody
else moves it. `RefsOK`: `RefCnt` of a node is one for whoever owns it (the list, the
`Enqueue` that made it, the `Dequeue` that took it out) and one for the `Enqueue` that
holds it, and `DeleteFlag` is set exactly where the last to drop its reference has
to free it. `DequeuersOK`: what a `Dequeue` has read is so as long as `head` is what it
read, because its own tag, which `head` gets if it succeeds, is in no other use.
`SizeOK` is `SizeExact` in terms of `a` and `b`, and that `Size` is negative by no
more than the decrements about to be undone.

They need each other. A `Dequeue` that is promised an item by `Size` finds one that is
already counted (`ActiveHasItem`): `Size` is raised only after `tail` was moved, so the
item is before that of an `Enqueue` still under way, and `tail` is not at `head`
(`TailBehindHead`). That is why no `Dequeue` moves `tail`, and so why the producer
finds `tail` where it was, which is what keeps the node that it holds in the list until
it has linked its own.

The refinement also maps where each thread stands to what its call has yet to do
(`StagesArePhases`): whoever still has its node has not linked it. `StagesStep` says
that a step which neither links nor takes out a node begins a call, ends one that has
nothing left to do, or leaves the stages alone.

`ChainIsList` shows that `Chain`, `Linked` and `Contents`, in which the properties are
stated, find this list, by the least-number argument of the pools' `CellsFromList`.

### Pools (`MemoryPoolsProofs`)

Assumed: `ChunckSize` is positive, the nodes are finitely many.

| theorem | says |
|---|---|
| `PoolInvariantHolds` | `PoolSpec => []PoolInvariant`, the inductive invariant |
| `CountsCorrect` | `PoolSpec => []ListsCounted`: what `Alloc` trusts |
| `NodesApart` | `PoolSpec => []NodeOnce` |

`ListsCounted` and `NodeOnce` need `EmptyBesideChunck`: a thread that takes or gives
a chunk has an empty list. That is why a chunk cut off at `ChunckSize` nodes
takes the whole list with it, nothing following it that another thread could
reach, and why `NewNodeList` and `UseChunck` may overwrite `Head`. `MovedWithin`
treats the steps that move nodes between what one thread reaches.

### Pools over the lock-free stack (`MemoryPoolsProofs`)

Assumed besides: the cells are finitely many.

| theorem | says |
|---|---|
| `PoolsInvariantHolds` | `Spec => []PoolsInvariant`, the inductive invariant |
| `PromisesKept` | `Spec => []CountsKeepPromises`: the counts, changed apart from the lists, never promise what is not there |
| `CellsOnce` | `Spec => []CellOnce` |
| `ChuncksKept` | `Spec => []StackKeepsChunks`: last in, first out, nothing lost or changed |
| `PoolImplemented` | `Spec => ImplementsPool`: the pool over the stack implements the pool of `TLSMemoryPool`, step by step |
| `ListsCountedOverStack`, `NodeOnceOverStack` | what is proved of `TLSMemoryPool` holds here, through the refinement |

`PoolsInvariant` has six parts about cells (`CellInvariant`): types; what each
place of a thread implies (`PlacesOK`); what a thread has read is still so if its
compare-exchange succeeds (`ReadsOK`); both linked lists are lists without
repetition (`ListsOK`); every cell is in one of them or with one thread
(`CellsApart`); the counts are the lengths plus what threads are about to add or
take (`CountsOK`). `ReadsOK` is where the tag is used: a head that carries the
tag that was read has not been changed since, because every change of the head
draws a tag that no word in sight carries. That is an assumption of the model, a
16 bit tag that does not wrap within one operation (section 5).

`CellsFrom` computes a list along the links. `CellsFromList` shows that it finds the
list, if there is one: the library's induction theorems cannot be used, but of
two functions that differ somewhere the least place where they do can be taken
(`Least`, from the well-foundedness of the natural numbers). The steps then speak
of sequences only: a successful push puts a cell before the list, a pop takes it away.

### Packets (`PacketFlowProofs`)

Assumed: bytes are `0 .. ByteSize - 1`, `Xor` of bytes is a byte and undoes itself
(`XorAssumption`), finitely many threads, packets and sessions.

| theorem | says |
|---|---|
| `DecodeInvertsEncode` | whatever `Encode` makes of a payload is one message, whose magic, length and checksum the receiver accepts and whose decoding is the payload |
| `SenderInvariantHolds` | `SenderSpec => []SenderInvariant`, the inductive invariant |
| `ReferencesExact` | `SenderSpec => []RefsExact`: a packet is in the pool exactly when nothing refers to it |
| `QueuesEncoded` | `SenderSpec => []QueuedEncoded`: `IsEncoded` may be called without the lock |

`DecodeInvertsEncode` goes byte by byte: `Unchained` finds each byte from the chain's
own bytes, because `Decode` runs from the last byte to the first and reads the
one before as it was received. No induction is needed, since a chain is stated by
its equations; that every payload has one would need induction, and is what TLC
does when `Encode` fires.

`RefsExact` counts places in two sequences. The references to a packet that one
session holds are two rows (`Row`), of its queue and of its posted buffer; the
rest (`Elsewhere`) does not change when the session moves. `RowSize` gives the rows'
sizes by a bijection to the places, `TailPlaces` says how they change when the head
is taken. `QueuedEncoded` needs `EncodingOrder`: the lock is held by the thread
between `LockPacket` and `UnlockPacket` (`LockHeld`); a flagged packet carries its
encoding, an unflagged and unlocked one still its payload (`DataKnown`); what a
thread in `SendPacket` knows of its packet (`CallKnows`); all that is queued is
flagged (`QueuedFlagged`). `RefsExact` is what keeps a queued packet from being
allocated and cleared.

*To the peer.* With the hypothesis that no payload is longer than the receiver's
`MaxPayloadLen` (`PayloadsAccepted`; with a longer one the receiver would kill
the session, as it is meant to), and for streams that cut the bytes anywhere:

| theorem | says |
|---|---|
| `FlowInvariantHolds` | `Spec => []FlowInvariant`, the inductive invariant |
| `MessagesArrive` | `Spec => []ReceivedAsSent`: in order, whole, and no session killed |
| `SenderCorrectInFlow` | `Spec => [](RefsExact /\ QueuedEncoded)`, without the hypothesis |

`Flow` says of a session that what was sent is what was received, then what flies,
then what waits (`Waiting`: the unread packets of `SendBuffer`, then `SendQ`), and
that `RecvQ` with the bytes on their way is made of the messages that fly, one
after the other (`Framed`). `Framed` gives the end of each message by a function,
so that adding a message at the end (`FramedAppend`) and taking the first one
(`FramedFirst`) need no induction. `FirstMessage` is why `HandleMessage` may look at
a header while the rest has not come: magic and length are those of the message
that the sender made, and once `Len` says it is complete its bytes are. A session
whose buffer was overrun makes no further step; nothing is claimed of its bytes.

### Chat server and its clients (`ChatProofs`)

Assumed: the sizes of the grid are natural numbers, session IDs are pairs of
them. Of the server alone, with whatever clients (`ServerSpec`):

| theorem | says |
|---|---|
| `ServerConsistent` | `ServerSpec => []WorldConsistent`: lists and characters agree, one character per slot, every message and leave job finds its character |
| `ContentThreadWakes` | `ServerSpec => []WakeUpComes`: the content thread does not sleep on a job |

`JobsFindCharacters` looks only at the head of the queue; inductive is the order of
all of it (`JobsInOrder`): a session's join comes first and once, messages between
join and leave, a leave last and once, every session that closed and is known has
its leave queued, and a slot's next session joins behind the last one's leave. The
last of these gives `OneCharacterPerSlot`. That `SessionCallbacks` is the order of
callbacks is assumed here and proved of `NetServer` (`CallbacksImplemented`).

With the clients of `ChatDummyClient` (`Spec` of `Chat`), assumed that the sessions
are the pairs of slots and connections, and that the messages include what these
clients send, their texts being short enough for the server's buffer
(`MessageAssumption`):

| theorem | says |
|---|---|
| `NoCrash` | `Spec => []NeverCrashes`: no job finds its session or character missing |
| `ChatInvariantHolds` | `Spec => []ChatInvariant`, the inductive invariant |
| `AnswersCorrect` | `Spec => []AnsweredInOrder`: what a session is told besides the texts of others are the answers to what its client asked, each once, in order and without a gap; texts come once and in the order said |
| `ServerAmongClients` | `Spec => ServerSpec`: what is proved of the server holds beside these clients |

The content thread crashes on a job whose character is missing, and when it places in a
sector a character that has one: a login after another message of its connection.
`LoginComesFirst` follows a connection from its end at the client to the content thread: while a client has
connected and not yet sent its login, nothing of the connection is in `sendBuf`, on the way,
queued, and none of its messages has placed a character; a login in `sendBuf`, on its way or in the job queue is the first
message of its connection there, nothing of the connection is ahead of it, and no
message has placed the connection's character in a sector yet. `SocketsOK`: a client is without a
connection exactly when it is `Disconnected`, no two clients share one, and nothing is on
its way on a connection not yet made.

`AnswerInvariant` follows every request from `sendBuf` to its answer. What is asked on a connection is
numbered (`RequestsNumbered`: a login, a move, then texts), and answers and texts
carry the number of their request. For every connection there are `h` and `r`
(`InStep`): the first `h` requests were handled and the first `r` received; the rest is in
order on the way and in `sendBuf` (`OnTheWay`); the job queue holds requests between
`h` and `r` only, in order, and all of them while the session is open (`InQueue`,
`AllQueued`); answers and texts are of the first `h`, in order (`AnswersHandled`,
`TextsHandled`), and while the session is open and not about to be killed none is missing
(`AllAnswered`), but for a text of a session without a sector, which is not near itself.
No such text is followed by an answer: a client moves once, before it talks. That a client
moves only after its login was answered, and so knows that the session is the one it is
connected to, is `StagesOK`; that the grid has the sector, `PlacedInGrid`.

### Only model-checked

* The properties of `LockFreeQueue` where several threads enqueue, as the job queue's
  do. `HeldNodeKept` is false for three (finding of `queue_free`: a node may be freed
  while a third thread holds its address); for two, `queue_fifo` checks all of them
  on its instance.
* Liveness (`BrokenLeaves`, `StopReturns`, `ConnectEnds`, `OperationsEnd`,
  `EverythingArrives`, `LeftAreForgotten`) depends on fairness and ENABLED, which the
  prover does not treat.

## 5. What is not modelled

* A `SendPacket` after `Stop` has closed the port: its wake-up stays unserved, as in the
  code, but the run with `Stop` sends nothing, and no document says what becomes
  of such a packet.
* The bytes of a `RecvQ` that was overrun: the model of that session stops there.
* `SendBuffer`'s limit of 1000 packets: nothing in the code keeps a queue below it.
* Nagle and linger options, the transmit counters and all logging; `Start`'s
  failure paths (it returns false before any thread exists, or crashes the
  process).
* `ShiftDataToFront` copies ranges that may overlap with `memcpy`; the model has
  the bytes arrive unchanged, as the x64 runtime's `memcpy`, which is its `memmove`, gives. `EncodeFlag` is a plain
  `bool` read without the lock; on the x64 builds of the solution reads and writes
  of it are atomic and ordered, and so they are here.
* A wrap of a 16 bit tag within one suspended operation; that the stack's
  operations end (the queue's are checked).
* The operators `<<` and `>>` of `Packet`, one field each; `ClearMemoryPool` and the
  guard words around a pool's node.
* A peer that sends what no encoder made. `HandleMessage` has the branch that kills
  the session; no run takes a message there, as the property says.
* `main.cpp` of the examples: settings, start and printing. `ChatServer` starts
  without its heartbeat timer by default (`heartBeatFlag`); the run includes it.
* `TestServer` and `TestClient` reach the library only through the calls modelled
  here; the sender loop of `TestClient`, with the race of section 3, is not. `Config`, `Logger`, `CrashDump`, `MonitoringTool` and `Statistics` are
  sequential I/O without a protocol.
* `External/Catch2` is a vendored test framework; it is four fifths of the
  repository's C++ lines and no part of the program.

## 6. Plan

1. (done) sessions, server, client: `NetSession`, `NetServer`, `NetClient`,
   `SessionCallbacks`; theorems about counting, ownership, release, guard, `Connect`.
2. (done) `LockFreeQueue` against `FifoQueue`.
3. (done) `LockFreeStack`, the memory pools, their composition; theorems about the
   thread-local pools.
4. (done) `PacketEncoder`, `SharedPacket`, `PacketFlow`; theorems about encoding,
   references and queued packets.
5. (done) `ChatServer`, `ChatDummyClient`, `Chat`; theorems about the content thread.
6. (done) theorems about what a session sends and receives, for server and
   client; the refinement of `SessionCallbacks`; `NoLostRelease` where it holds.
7. (done) the pools over the lock-free stack, list by list, and their refinement;
   the way of a message from `SendPacket` to `OnRecv`; the chat server beside its
   clients.
8. (done) the answers of the chat server, `AnsweredInOrder`, as a theorem.
9. (done) the theorems about `LockFreeQueue` with one producer and any number of
   consumers, its refinement of `FifoQueue` among them. Left: two producers, for which
   the model check finds nothing.
