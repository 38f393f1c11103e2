# TLA+ models of longda

longda is a C++ framework for servers: a SEDA library (stages, events, thread
pools, timers), a network layer built on epoll and non-blocking sockets, and
a communication stage that turns requests into messages and answers. This
directory holds TLA+ models of it, the TLC configurations that check them, and
TLAPS proofs. Paths below are relative to `src/lfutil/`; `include/` and `src/`
hold the header and the source of each part.

1. [The system](#1-the-system)
2. [Modules](#2-modules)
3. [Runs](#3-runs)
4. [Fairness](#4-fairness)
5. [Proofs](#5-proofs)
6. [What the models found](#6-what-the-models-found)
7. [Not modelled](#7-not-modelled)
8. [Plan](#8-plan)

## 1. The system

| Part | State | Operations | Interacts with |
|---|---|---|---|
| **Stage** (`seda/stage`) | `eventList` (FIFO), `connected`, `eventRef` (outstanding events), `thPool`, next stages; under `listMutex`, with `disconnectCond` | `addEvent`, `removeEvent`, `releaseEvent`, `connect`, `disconnect`; hooks `initialize`, `disconnectPrepare`, `cleanup`, `handleEvent`, `callbackEvent` | asks its pool to `schedule` it once per event |
| **StageEvent, CompletionCallback** (`seda/stageevent`, `seda/callback`) | stack of callbacks `compCB`, mark `cbFlag`, timeout, history | `pushCallback`, `done`, `doneImmediate`, `completeEvent` | `done` sends the event back to the stage on top of its stack |
| **Threadpool, KillThreadStage** (`seda/threadpool`, `seda/killthread`) | `runQueue`, `nIdles` under `runMutex` with `runCond`; `nthreads`, `threadsToKill` under `threadMutex` with `threadCond`; a private killer stage | `schedule`, `runThread`, `addThreads`, `killThreads`, `threadKill`, constructor and destructor | runs every stage; shrinks by sending itself kill events through the killer stage |
| **TimerStage** (`seda/timerstage`) | `timer_queue` ordered by (time, nonce), `num_events`, `shutdown` under `timer_mutex` with `timer_condv`; its own thread | register and cancel events; `checkTimer`, `triggerTimerCheck`; `initialize`, `disconnectPrepare` | completes the callback events of clients |
| **EventDispatcher** (`seda/eventdispatcher`) | `eventStore`: events waiting per key | `handleEvent`, `wakeupEvent`, `initialize`, `cleanup` | abstract; passes events to the next stage |
| **SedaConfig** (`seda/sedaconfig`, factories) | maps of stages (by name) and pools, list of names | `init`, `start`, `cleanup`, `initThreadPool`, `initStages`, `genNextStages`, `clearconfig` | creates, connects, disconnects, deletes stages and pools |
| **SedaStats, SedaStatsStage** (`seda/sedastats*`) | static flags per category, a static pointer to the one stage; stores by category and identifier | objects that measure from construction to destruction, `recordCount`; `storeStats`, `dumpStats`, `clearStats`, `enableCategory`, `disableCategory`; `makeStage`, destructor | any thread sends it events |
| **Conn, IoVec** (`net/conn`, `net/conncb`, `net/iovec`, `net/iovutil`) | send and receive queues, current vector, event map, `mRefCount`, `mCleaning`, `mReadyToSend`, next part to receive, callback parameter | `acquire`, `release`, `postSend`, `postRecv`, `sendProgress`, `recvProgress`, `cleanup`; receive callbacks for header, message, attachment, file, drain | called by the data threads and by CommStage |
| **ConnMgr** (`net/connmgr`) | maps end point to connection and socket to connection | `find` (with acquire), `insert`, `remove`, `removeInactive` | Net |
| **Net, NetServer** (`net/net`, `net/netserver`) | epoll sets, receive and send threads, a socket queue per data thread | `getConn`, `addConn`, `delConn`, `removeConn`, `setup`, `shutdown`; epoll loops, `handlingData` | sockets, ConnMgr, Conn |
| **CommStage, CommEvent** (`comm/*`) | request counter; status, request, response, connection of an event | `sendRequest`, `sendResponse`, `callbackEvent`, failure paths | Stage, Net |
| **TimeoutInfo** (`time/timeoutinfo`) | reference count, deadline | `attach`, `detach`, `has_timed_out` | StageEvent |
| **Support** (`os`, `conf`, `trace`, `io`, `lang`, `math`, `mm`) | files, process, properties, log | sequential utilities | all |

### Behaviours that are hard, and what makes each part correct

* **Stage and pool.** `addEvent` counts an event under `listMutex` and calls
  `schedule` after the unlock; `connect` does the same with its whole backlog.
  A stage may be in the run queue several times and be served by several
  threads. Correct when `eventRef` counts exactly what is outstanding, every
  place in the run queue finds an event, no accepted event is forgotten, and
  `disconnect` returns exactly when the accepted events have been handled.
* **Wakeups.** `schedule` leaves out the signal when one of the pool's own
  threads finds the run queue empty, and trusts `nIdles`, a number that is
  behind by every thread that has been signalled but does not have `runMutex`
  back. Correct when no entry waits while every thread that could take it
  sleeps.
* **Callbacks.** An event goes down the stages and comes back along its
  callback stack, through the same queues. Correct when each callback reaches
  the stage that pushed it and an event is in one place only.
* **Shrinking the pool.** Victims are chosen by whoever takes a kill event;
  `killThreads` sleeps on `threadCond` and then disconnects the killer stage.
  Correct when the counts stay exact, nothing is left in the killer stage
  when the call returns, and the call returns.
* **Timers.** Cancel races the timer thread; a registration at the head of the
  queue must wake a thread that has already computed its timeout; shutdown
  joins the thread with the stage's own lock held. Correct when a timer fires
  or is cancelled, never both, in order and not before its time, and the thread
  is never asleep past a deadline.
* **Connections.** `cleanup` is deferred while references are held and done by
  the last `release`; a broken connection may be noticed by four threads at
  once and is removed by a socket number that may have a new owner. Correct
  when a connection is freed once, after its last use, and the maps of ConnMgr
  never give one away that is being removed.
* **Requests.** The answer, a send error, a receive error, the cleanup of the
  connection and `cleanupFailedReq` may each complete the event of a request.
  Correct when exactly one of them does.
* **Receiving.** A stream cut anywhere is put together into header, message,
  attachments, file and bytes to be drained; each callback posts the vectors for
  what comes next. Correct when those vectors are exactly what is missing, the
  next header is read where the last message ended, and what is handed on is what
  was sent.
* **Serving.** The answer to a request finds its connection again by socket
  number; the sockets are edge-triggered, so an edge that is missed does not come
  again; descriptors run out. Correct when each event is completed once, an
  answer goes to who asked, and neither a client in the backlog nor an answer in
  a queue is forgotten.
* **Threads of Net.** Epoll threads hand sockets to data threads through vectors
  and queues that setup fills and shutdown takes apart while they run. Correct
  when a running Net never uses what is not there, a socket is handled by one
  thread, and shutdown ends all threads.
* **Configurations.** Any step of `init` may fail, and stages are taken down one
  by one, in the order of their names, while events travel among them. Correct
  when no event is lost or left to a deleted stage, nothing half built stays, and
  cleanup ends.
* **Statistics.** Flags are read without a lock, the pointer under one, and the
  stage comes and goes, also under a manager's call. Correct when no measurement is
  added to a deleted stage, averages are possible values, and persistent statistics
  stay.

`PROJECT.json` lists the hazards at their lines, with the properties that
cover them or the reason why none does.

## 2. Modules

```
StagePromise  <---- implemented by ---- SedaPool <-- SedaPoolProofs
      ^                                    ^
      | INSTANCE (its event queue)         | EXTENDS
TimerStage <-- TimerStageProofs        MCSedaPool (symmetry)

OneReply      <---- implemented by ---- CommRequest <-- MCCommRequest
                                        CommRequest <-- CommRequestProofs

NetServer  <-- MCNetServer, NetServerProofs      SedaConfig <-- MCSedaConfig, SedaConfigProofs
NetThreads <-- MCNetThreads, NetThreadsProofs    ConnStream <-- MCConnStream, ConnStreamProofs
SedaStats  <-- MCSedaStats, SedaStatsProofs
```

The network is cut along the questions asked of it. CommRequest has the client
(requests, references, removal), NetServer the server (accepting, readiness,
answers), ConnStream the bytes of one direction of one connection, NetThreads
the life of the threads. What is state in one is a choice in the others: that a
vector is complete, for instance, is computed in ConnStream and free in
CommRequest and NetServer.

### SedaPool

Stage, StageEvent with its callback stack, Threadpool and KillThreadStage, for
one pool. An action is one critical section, of `runMutex`, of a `listMutex`
or of `threadMutex`, or one stretch of a handler between two of them: what the
code does under one lock is one step, and all that it does after an unlock is
another.

* Threads are the members of `Workers` (pool threads), `Producers` (other
  callers of `addEvent`), `Controllers` (callers of `connect` and `disconnect`)
  and `Reapers` (callers of `addThreads` and `killThreads`). `pc` says where
  each one is.
* A call of `addEvent` on a connected stage leaves the thread at `"sched"` with
  one `schedule` call owed; `connect` owes one per event of the backlog. Other
  threads run in between, as after the unlock in the code.
* `COND_WAIT` is split in three: asleep (`"wait"`), signalled but without the
  mutex (`"woken"`), and running again. `COND_SIGNAL` wakes an arbitrary
  sleeper; every wait may also end spuriously (for `threadCond` only if
  `SpuriousThreadCond` says so, see section 6).
* Handlers may do what the interface lets them: forward their event, complete
  it (`done`), or create others first, each with a callback or without. A
  handler keeps no event. Event objects come from the finite set `Events` and
  return to it when deleted, so addresses are reused.
* `connect` and `disconnect` are called under their documented preconditions,
  and by one thread at a time per stage: the code asserts them.
* The killer stage is one more stage in `eventList`, `connected`, `eventRef`.
  `killThreads` keeps `threadMutex` while it generates kill events and while it
  disconnects the killer stage, and gives it up in its wait.

### StagePromise

What a stage promises its clients, without pool, run queue or reference
counts: an event added to an open stage is accepted and handled in arrival
order; an event added to a stage that is not open is parked until the next
connect; disconnect returns when all accepted events have been handled.
`SedaPool` maps its state to it (`Promise`): the accepted events are
the first `eventRef - (events in hand)` of the list. So the mapping itself
depends on the reference count, and an error in the count breaks the
refinement. TimerStage is built on this promise and not on the pool.

### TimerStage

Handler threads take registrations and cancellations from the stage's queue
(`Queue`, an instance of StagePromise), the timer thread collects what is due
and completes it one by one with `timer_mutex` held, and a controller connects
and disconnects. Critical sections of `timer_mutex` are one action each; the
token is made before, the reply and the signal to the timer thread come after,
as steps of their own. The stage's `listMutex`, which `disconnect` holds while
it joins the timer thread, is the flag `joining`. Each timer is registered
once, for a deadline in `0..MaxTime` (in the past, too, which the code
accepts). The clock and the waits are on `CLOCK_MONOTONIC`, as the constructor
of TimerStage sets up the condition variable.

### CommRequest

The client's side of the network, from `sendRequest` to the completion of the
event: CommStage, ConnMgr, Conn, and the data and epoll threads of Net. An
action is one critical section or one stretch between two of them; a cleanup
without references is one action, since nobody else has, or can get, a pointer
to the connection.

* A connection is named by its socket. The number is free again once `cleanup`
  has closed it, so a thread that remembers only a number (`RecvRemove`,
  `HandleError`, the queues of the data threads) may meet a new connection.
* `cpc`, `spc` and `rpc` say where `sendRequest`, a send thread and a receive
  thread are; `cconn`, `sconn`, `rconn` the connection each one has acquired.
  `mRefCount` is the code's counter, and `RefExact` compares it with those.
* A request is one IoVec, or two when it has an attachment: only the last has
  the callback parameter (`iovutil.cpp:192`). `Refused` requests are those the
  server cannot deserialize: it answers after the message, while the client
  still has the attachment to send.
* `::send` may succeed, find the socket full (`SendUnavail`) or fail; what is sent
  after the peer has gone is lost. `Break` is the peer going away at any time,
  or a pending connect that fails.
* `EventDone` comes with its wait on the status, and `SendCallback` is a step
  after the `::send`, as in the code; `reply` records every completion, `"twice"` a
  second one.

Left out: `mReadyToSend` (an IoVec may be unavailable at any time; NetServer has
it); the order of `sockQ`, a set here (NetThreads has it); sending a file from the
send callback (ConnStream has it); failed allocations after the answer has been matched; the wrap of
`mSendCounter`. `delConn` has no caller in the repository and is modelled as
part of Net's interface, called at any time.

### OneReply

What CommStage promises: the event of a request is completed once, with an
answer, which presupposes that the server had the request, or with an error.
CommRequest implements it for the requests that are not in `Refused`
(`KeepsOneReply`).

### ConnStream

One direction of a connection: the sender's queue, what is on the wire, and the
receiver from `recvvecProgress` through all receive callbacks.

* A message has a kind (request, response, a response nobody waits for, one that
  cannot be deserialized, one that is neither, one with an alien header), an
  attachment length and a file length. Units on the wire know which message and
  part they belong to, so reading at the wrong place is visible: a header vector
  that holds anything else is a misread header (`MisreadHeader`).
* `RecvVec` fills the current vector with any part of what is there; TCP may cut
  anywhere. When it is full, `Callback` runs the callback of `mNextRecvPart`, each
  an operator of its own, with what it allocates, counts (`remainVecs`, `drainLen`)
  and posts.
* Block arithmetic is that of the code, with a block of `gMaxBlockSize` units:
  `BlockSizes` has the last block with the rest or whole, the drain has
  `drainLen % gMaxBlockSize`, which may be 0.
* A response is cut to the buffers the client posted (`CutTo`, `RspSizes`).
* The sender may find that it cannot read a file it has announced (`SendFile`), and
  may close at any time. `Cleanup` is what the receiver's connection does then.

### NetServer

The server while Net runs: `acceptConns` and `removeInactive` with a limited number
of descriptors, both epoll threads, send and receive threads, `mReadyToSend`, and a
request from its connection to the next stage and back through `sendResponse`.

* Clients connect, ask, read and leave as they like, by closing, by a reset, or by one after
  the other. A socket number is free again
  once closed; `peer` is who is behind it now, `cevSock` the number an event
  remembers.
* Epoll is edge-triggered: `recvReady` and `sendReady` are the edges that are
  pending, and one `epoll_wait` fetches them all (`recvEvents`, `sendEvents`), so that a
  fetched event may be stale when it is handled.
* The window between EAGAIN and the clearing of `mReadyToSend` is a place of its own
  (`"eagain"`). An edge that is handled in it sets a mark which is then cleared;
  `overrun` records that.
* A request is one part or two (message, attachment), so that a connection may go
  with an event half received. A client sends both parts of a request before it begins
  another. A malformed one is answered with an error, or dropped when not even its number can
  be read (`RecvDropped`). The parts that wait in a socket are a set: the order in which a client's
  requests are read is left out, so the server may take any that has arrived.

### NetThreads

The life of Net's threads, from `setup` with a failure at any step to the end of
`shutdown`. A data thread's element is in `dataThreads` (the two vectors), its queue in
`sockQ`, and `deleted` if it has been freed; a division by an empty vector's size, a
read of a vector that is being extended, and a use of a freed element all end in
`crashed`, with the phase in which they happen. Handing a socket over is the whole of
`prepareSend` or `prepareRecv`. Epoll reports one socket per turn, several being several
turns. Not here: `sockQ` is popped without its mutex, and only a queue shorter than a
node of `std::deque` keeps the two ends apart; `MaxReports` keeps it so.

### SedaConfig

SedaConfig and EventDispatcher. A stage is its queue, `eventRef`, callbacks and the
events that threads of its pool have taken; the wakeups of the pool are SedaPool's
business. Every step of `init` may fail where the code has an error path; `start`
connects stages in the order of `mStages`, which is by name, and `cleanup` disconnects
them in that order, one at a time, each as soon as its accepted events are handled. A
handler passes its event on to the next stage, completes it, or, if its stage is a
dispatcher, stores it; `Wakeup` takes one out again, which waits while its own dispatcher is
drained (`listMutex`), but not for another's. An event that reaches a stage that is
not connected stays in its queue and is deleted with the stage (`late`).
Left out: a callback of a stored event that leads back to the dispatcher that is being
cleaned up (it would lock `listMutex` twice).

### SedaStats

The way of a measurement from a SedaStats object through the static flags and the
static pointer to the stage and its stores; the stage's life; and a manager that enables,
disables, clears and dumps. A call of the manager goes through the steps of the code
(`call`): `TestPointer`; `ReadPointer`, which reads it once more, both without a lock;
`LockStores`, the mutex of the object it has read; and then what it does with the stores.
`makes` numbers the stages, so that what a call has read can be a stage that is deleted
meanwhile, even if another is there by then; the destructor does not take that mutex, so a
stage may also go while the call uses it (`CallOnDead`). Nothing is stored while a call has the
mutex. Number 0 (`All`) stands for all categories that are not valid: what is measured under
it is sent and then dropped. Integers wrap at
`TimeWords` and `CounterWords`, so that the restart of an overflowing total and the
unsigned division of a counter are what the code does. What an event carries is chosen when
it is stored, since nothing looks at it before.

### Modules of proofs

SedaPoolProofs (types, wakeups, number of threads, reference counts, `killThreads`, places
of events, the implementation of StagePromise), TimerStageProofs, CommRequestProofs (also
the implementation of OneReply), NetServerProofs, NetThreadsProofs, SedaStatsProofs,
SedaConfigProofs and ConnStreamProofs. What they prove is in section 5.

## 3. Runs

| Run | Instance | Checks |
|---|---|---|
| `pool_core` | 2 stages, 2 events, 2 pool threads, 1 producer, 1 controller, callback stacks up to 1; symmetry | `TypeOK`, `RefBalance`, `NoLostWakeup`, `CallbackAtOwner`, refinement `KeepsPromise` |
| `pool_kill` | 1 stage, 2 events, 3 pool threads, 1 producer, 1 controller, 2 reapers, kills of 0, 1 and 2, spurious wakeups of `threadCond`; symmetry | `ThreadsExact`, `KillReturnsDrained` |
| `pool_live` | 1 stage, 1 event, 2 pool threads, 1 producer, 1 controller, 1 reaper, fairness | `EventServed`, `DisconnectReturns`, `KillReturns` |
| `timer` | 2 timers, 2 handler threads, clock 0..1, 1 cancel per timer and one more after it fired, fairness | `CancelIsFinal`, `NumEventsExact`, `NeverOversleeps`, `FiresInOrder`, `TimerFires` |
| `comm_request` | 2 requests, one refused, 1 end point, 1 socket number, 1 send and 1 receive thread, 1 epoll thread, fairness | `RefExact`, `NoRequestLost`, refinement `KeepsOneReply`, `BrokenConnFails` |
| `comm_two` | 2 requests, 2 socket numbers, no epoll errors; symmetry | `HeldConnAlive`, `MapsAgree` |
| `comm_freed` | 2 requests, 1 socket number | violates `EventOutlivesCallback` |
| `stream` | 2 messages of 12 shapes, a block of 2 units, 2 units on the wire, 4 sets of response buffers, fairness | `VectorsExact`, `BoundariesKept`, `Intact`, `SettledOnce`, `BrokenRequestSettles` |
| `server` | 2 clients, 1 request of one or two parts, 2 socket numbers, 1 thread of each kind; symmetry | `EventOnce`, `HeldExact`, `AnswerToAsker`, `RecvWakeup`, `SendWakeup` |
| `net_threads` | 2 data threads in each direction, 2 sockets that share one, 3 reports, failures of setup, fairness | `SafeOnceUp`, `ShutdownEnds` |
| `config` | 4 stages in a row, of which 2 dispatchers, 2 pools, 3 events, initialized twice, failures at every step, fairness | `EventInOnePlace`, `OnlyLateDeleted`, `FailureLeavesNoStage`, `CleanupEnds` |
| `stats` | 2 measurements, of 1 category or of none that is stored, 1 identifier, times whose total wraps at 4, counts of both signs, a stage made twice; symmetry | `AverageInRange`, `SentToLivingStage`, `PersistentKept` |

The type invariants of the modules other than SedaPool are the first conjunct of one
of their other invariants, which says so.

What they show:

* `RefBalance` and `KeepsPromise` together say that the split of `addEvent` and
  `connect` at the unlock is harmless: a place in the run queue may be used for an
  event that came later, but counts agree and order is kept. The two assertions of
  the code, "stage has events" in `schedule` and `removeEvent`, follow from its
  part on events not yet spent, and its last part says that no one sleeps in
  `disconnect` with nothing outstanding, so that the last `releaseEvent` is always
  still to come.
* `NoLostWakeup` is the claim the missing signal rests on. It holds because
  the caller itself counts as awake: it comes back to the run queue after its
  handler.
* `KillReturnsDrained` matters for `~Threadpool`, which frees the killer stage
  and the pool right after `killThreads`: no victim is between `threadKill` and
  its `releaseEvent` any more, and until then the kills under way are counted
  exactly (`KillAccounting`).
* `CancelIsFinal`, `NumEventsExact`: a timer that left the queue for the timer
  thread's batch is not found by a cancel, and is counted until it is
  triggered.
* `NeverOversleeps`: the check requested by a registration is not lost although
  the handler lets go of `timer_mutex` between the insertion and the signal.
* `RefExact`, `HeldConnAlive`: every `acquire` has its `release` on
  every path, so a connection is deleted after its last use and not kept
  beyond it.
* `MapsAgree`: `remove` takes a connection out of both maps in the critical section
  that starts its cleanup, so a removal by a stale number does harm only to the
  connection that has the number now, and that one is removed completely.
* `NoRequestLost`: whatever order the send callback, the answer and the removal
  come in, a request not yet completed is in the map, or is the one being
  received, of exactly one connection that exists. Posting to a connection that
  is already being cleaned up is harmless: the last `release` is still to come.
* `KeepsOneReply`: the removal from the event map is what decides who completes a
  request. `BrokenConnFails`: a broken connection fails all it has, although
  nobody but its last holder may be left to clean it up.
* `VectorsExact`, `BoundariesKept`, `Intact`: the counting of vectors by one callback
  and the posting of vectors by another agree for every length around the block size,
  for any cut of the stream and any buffers of the client. Two exceptions are named in
  the properties: a drain of several whole blocks, and a file that was announced and not
  sent. `SettledOnce` and `BrokenRequestSettles`: wherever the connection breaks, each
  request of the client is completed, and not twice.
* `EventOnce`, `HeldExact`: an answer, a malformed message, a hang-up fetched too early, a
  removal of inactive connections and the reuse of a number may meet on one connection
  without losing or doubling an event or a reference.
* `RecvWakeup`, `SendWakeup`: the places where an edge must not be missed. Each names
  the one case in which it is (section 6).
* `AnswerToAsker`: that the number is the right one as long as the asker's connection
  exists rests on `getConn` finding the connection by number and not by end point.
* `SafeOnceUp`: from the end of setup to the begin of shutdown nothing that is missing or
  freed is used, and a socket has one thread. `ShutdownEnds`: the quit entry is reached
  although epoll threads go on handing over sockets while data threads are joined.
* `EventInOnePlace`, `OnlyLateDeleted`: what a stage accepted is handled before it is
  taken down; only what comes to a stage already disconnected (stages go by name, not by
  the flow of events) is deleted. `FailureLeavesNoStage`, `CleanupEnds`: also after a failure
  half-way.
* `AverageInRange`: the restart of an overflowing total keeps total and number together.
  `SentToLivingStage`: clearing the pointer first makes a late measurement meet a null pointer at
  worst, and only if it is persistent or the stage is going; `addStatsEvent` uses the pointer
  under its lock. It says nothing of the manager's calls, which do not (section 6).
  `PersistentKept`: a persistent statistic of an enabled category changes only when a
  measurement of its own is stored, and then its times and its counts grow, or its count is
  set by a measurement that brings a time (`Grows`).

### Bounds

Two pool threads are needed for one to sleep while the other decides not to
signal, and three for two kill events and a survivor. Two events are needed
for order and for a stage that is in the run queue twice; two stages for
forwarding, for a callback to another stage and for the interplay of their
locks with `runMutex`. In `pool_core` an event is created by the producer or by a
handler, so both events can be under way from different callers. A callback
stack of 1 separates "own stage" from "other stage"; a deeper stack repeats the
same step. In the timer run the clock has two values, so deadlines can be past,
present and future; ties are decided by the nonce; two handlers race each other
and the timer thread. `MaxCancels = 1` gives two cancel requests per timer
(`Cancel` counts the registration as the first of `asked`).

For connections, two requests are needed to share one, and one socket number is
enough for its reuse: a removal by number then meets the next connection. A
second number (`comm_two`) lets a connection under cleanup live beside its
successor. All requests have the same end point, the case in which they
interfere. One epoll thread stands for both, which treat an error alike;
`comm_two` has none, and connections there are removed by the receive thread and
by `delConn`.

For the stream, a block of 2 units puts the lengths 1 to 4 below, at, above and at twice
a block; two messages are needed because an error in the first shows at the header of
the second; a wire of 2 units cuts every vector everywhere. For the server, two numbers let
one be reused while the other is in use, or make descriptors run out; the second client is
who gets the number of the first, asks nothing and leaves by a reset, so that its hang-up may
be handled against the first. Of four stages in a row the two in the middle are dispatchers,
so that one may send on what it has stored while the other is drained; two initializations
show what a failed one leaves. Two
measurements are a value and one that overflows the total, sets the count or comes late, and
may meet a first and a second stage. For
Net's threads, two data threads make the remainder matter, sockets 1 and 3 share a thread and
differ from the one that is alone at first, and three reports allow a repeated socket with another
between.

Symmetry is used in `pool_core`, `pool_kill`, `comm_two`, `server` and `stats`, over sets whose
members neither `Init`, `Next` nor a checked formula names, and never in a run with liveness.
`CHECK_DEADLOCK FALSE` stands where the system really stops: in `pool_kill` (a call of
`killThreads` with nobody to kill blocks for ever), in `stream` (all messages have been received, or
the receiver waits for a file that does not come), in `stats` (all measurements
are done and the stage is gone) and in `net_threads` (Net is down, or the program has
crashed). All other passing runs are checked for deadlock.

### Mutants

A definition preceded by a variant of itself (`SignalsFirstOnly` before
`Signals`, for instance) is there to see what a property depends on: with the
variant in its place TLC finds the property violated. `PROJECT.json` lists one
for each property of each run.

## 4. Fairness

Assumed for liveness only, of threads and never of clients.

* WF for every step a runnable thread takes by itself: a pool thread that is
  not asleep, a `schedule` that is owed, the timer thread, the clock, the steps
  of `killThreads` and `disconnect` once begun. This is the scheduler's.
* SF for the end of a handler, since it may create events before it ends; the
  code of a stage is expected to return.
* SF for a step that needs a mutex which others take again and again
  (`ThreadKill` and `DisconnectKiller` for `threadMutex`; handler steps of the
  timer stage, which also compete for the next event of the queue). A pthread mutex
  is not fair by contract, but a thread that asks for ever does get it.
* WF for `sendRequest` once begun, for the data threads, and for an epoll thread that
  has fetched an error. WF of `PollError` says that epoll reports a socket whose
  peer is gone, which it does for every socket that is still open. Nothing
  else is assumed of the network: neither that an answer comes nor that a
  socket becomes ready.
* Stream: WF for sending and receiving while the socket allows it and for the removal of
  a connection that was found broken; nothing for closing. Configuration: WF for the thread that
  builds and cleans up, for taking an event, and for a handler's next step. Threads of Net: WF
  for each data and epoll thread and for a shutdown once begun; nothing for sockets that
  become ready and for malformed messages.
* Nothing for spurious wakeups, producers, controllers, reapers, cancels: no
  property relies on a client acting.

`EventServed` and `DisconnectReturns` of SedaPool are conditional on a pool
that is not left without threads: `killThreads` may take the last one, and then
nothing is served, in the code as in the model.

## 5. Proofs

The theorems hold for every value of the constants: any number of stages, events, threads,
timers, connections, clients and requests, any depth of callback stacks and any bound. Each is
proved from an inductive invariant `I`: `Init => I`, `I /\ [Next]_vars => I'`, `I => P`. TLC
has agreed to each `I` on the instances of section 3, and to that of NetServer with two
requests on one connection, before it was proved. A proof of `I'` has a lemma per action or per
kind of step, and lemmas that say what the steps not concerned with a part leave alone.

### Assumptions

The constants are only assumed to be what the code makes them:

* SedaPool: the kinds of threads are disjoint and finite in number (`ThreadsAssumption`), the
  killer stage is no stage of the program, kill events are no events of the program, `Nil`
  is none of these (`DataAssumption`). The sets of events and stages may be infinite.
* TimerStage: finitely many timers, natural bounds, `Never` is not a time.
* CommRequest: requests and sockets are finite sets, each request has an end point,
  `NetThreadCount` is positive, `Nil` is nobody (`CommAssumption`).
* NetServer: requests and sockets are finite sets, each request has an owner, each socket a
  pair of data threads, `NumRemoveInactive` is positive (`NetAssumption`). The number of
  clients and of data threads is free.
* NetThreads: at least one data thread, sockets are natural numbers (`ThreadsAssumption`).
* SedaStats: times are less than `TimeWords`, counts are integers, and the name of a manager's call
  is no measurement (`StatsAssumption`). Only `AveragesArePossible` has a hypothesis more, `CountsFit`:
  finitely many measurements, twice a count fits in a counter, and so does a count times the
  number of measurements. The run's values satisfy it. Without it the property is false: the
  total of a counter, unlike that of the times, is not restarted when it overflows.

* SedaConfig: names are a finite set of numbers (the stages are stopped in that order), events are
  finite, the configured stages and their next stages are among the names, and the next stages
  of a configured stage are configured (`ConfigAssumption`; `initStages` fails otherwise).
* ConnStream: a message has a kind and natural lengths, a block is not empty, the client's buffers
  have natural sizes, `Nil` is neither a number nor a vector (`StreamAssumption`). How many messages
  are sent and how much the wire holds (`MaxMessages`, `WireMax`) is free.

Finiteness is needed because `Cardinality` counts what the code counts.

### SedaPool

* `SedaPoolProofs!TypeCorrect`: `TypeOK`, inductive as it stands. Its part `Fits` ties the
  stage and event a thread holds to where it is (a thread at `"handle"` has an event of
  the program and not a kill event, so `done` is never called on one); its part on
  `cbFlag` says that an event marked as a callback has a callback to pop.
* `SedaPoolProofs!WakeupCorrect`: `IdleCount /\ NoLostWakeup`. `NoLostWakeup` alone is
  not inductive: `schedule` signals only if `nIdles > 0`, so it takes `IdleCount` to know
  that a sleeping thread makes `nIdles` positive. For `schedule` by a pool thread on an
  empty queue the proof shows that the caller is one of the awake threads (`Available`);
  in the other cases awake threads and queue grow together or there are no sleepers.
* `SedaPoolProofs!ThreadsCorrect`: `ThreadsExact`, inductive relative to `TypeOK`. A victim
  is counted out once, by its own `threadKill`, before it exits.
* `SedaPoolProofs!RefCountExact`: `RefBalance`, from `RefInvariant`. The equations of
  `RefBalance` are not inductive alone: that a `schedule` owed belongs to a thread at
  `"sched"` (`OwedExact`), that one controller at a time connects or disconnects a stage and
  waits only for one that is not connected (`Controlled`), and that one call of
  `killThreads` at most has the killer stage connected (`Reaped`) are what keeps the
  backlog that `connect` adopts from being counted twice.
* `SedaPoolProofs!KillThreadsDrains`: `KillReturnsDrained`, from `KillInvariant`: the kill
  events generated, queued and taken add up to the victims asked for (`KillsCounted`), and
  nobody else schedules the killer stage (`AimsExact`). That the call returns with nothing
  left follows with `RefBalance`: `eventRef` 0 means no queue entry and no thread.
* `SedaPoolProofs!EventsInOnePlace`: `CallbackAtOwner`, from `PlaceInvariant`: an event is in
  one queue, in one hand, or deleted, and one marked as a callback lies with the stage on top
  of its stack.
* `SedaPoolProofs!StageKeepsPromise`: `KeepsPromise`, the implementation of StagePromise, step
  by step under the mapping `Promise`. `addEvent`, taking an event, the end of a handler,
  `connect` and the end of `disconnect` are steps of the abstract stage, all others stutter.
  It is here that a wrong count would show: the accepted events are the first
  `eventRef - (events in hand)` of the list.

### TimerStage

`TimerInvariant`: a registration is in one place until it is inserted (`Once`), a timer has one
life (`Life`) and one token (`Tokens`), and the batch is due, in order and before the rest of
the queue (`BatchOrder`). From it:

* `NumEventsAreExact`: `num_events`, also half way through a batch.
* `CancelledForGood`: `CancelIsFinal`. A timer fires or is cancelled, once.
* `TimersFireInOrder`: `FiresInOrder`, an action property. `checkTimer` lists what is due in
  order; that finite sets under a strict order can be listed is shown by a smallest
  counterexample (`SmallestCounterexample`), since induction is out of reach.
* `NoOversleeping`: `NeverOversleeps`. While the timer thread sleeps, its timeout is the first
  deadline or an earlier one, or the handler that inserted an earlier timer is still to signal.
  The property is inductive relative to `TimerInvariant`.

### CommRequest

* `ConnInvariant`: types, `mRefCount` as the number of holders, and `ConnMgr`. With it
  `CountsAreExact` (`RefExact`), `NobodyUsesADeletedConn` (`HeldConnAlive`) and
  `ConnMgrMapsAgree` (`MapsAgree`). That a connection under cleanup is in neither map is
  what stops the count from rising again, so that the last `release` deletes it once.
* `RequestsAreKept`: `NoRequestLost`, from `PlacedInv`: a request that was posted and has no reply
  is in the event map of one open connection, or is the one it is receiving; while its
  thread has not returned, of the connection that thread holds.
* `CommStageKeepsOneReply`: `KeepsOneReply`, the implementation of OneReply, for the requests that
  are not refused. `OneWayInv` follows each of them from the send queue over the wire to the
  receiver: it is in the event map as long as any of it is queued or on its way, so that the
  removal from the map decides who completes it, and what is answered has been served.

### NetServer

`NetInvariant` has: references and the life of a connection (`Refs`, `ConnLives`); a client
has one connection and what opens a request is read once, from its owner (`Peers`, `Asked`);
the place of each event (`Where`); and the wakeups. These depend on each other: that an answer
is in one send queue takes that its event was made once, and that takes that its first part
was in one inbox. `Marked` is the strengthening that the answers need: a socket which is not
marked as ready has an edge on its way, or the mark was overrun. The steps that may delete
connections (`FreeingStep`) are reduced to one (`Frees`): what cannot be found any more goes,
the rest stays as it was.

* `HeldIsExact` (`HeldExact`), `EventsAreAnsweredOnce` (`EventOnce`): a send queue holds no
  event twice and is not longer than there are requests (`QueueBound`, by a pigeonhole).
* `AnswersReachTheAsker` (`AnswerToAsker`).
* `NothingArrivesUnseen` (`RecvWakeup`), `AnswersAreSentOn` (`SendWakeup`): the two claims
  edge-triggered epoll rests on.

### NetThreads

* `UpIsSafe`: `SafeOnceUp`, from `NetThreadsInvariant`. What the vectors hold is tied to the step of
  `startThreads` or `cleanupThreads` the caller is at (`Elements`, `Sizes`); a thread that
  has not been created cannot have its element deleted under it (`Unstarted`, `Undeleted`).
  `Placed` gives every socket the one data thread of a direction it belongs to, the remainder
  by `NetThreadCount`, or, after a failed start, by what is left in the vector; it holds
  unless a socket was handed over while the vectors grew.

### SedaStats

`StatsInvariant` has the life of the stage (`StageLife`), where a measurement may be while the
stage is in which state (`OnItsWay`), and bounds for each store (`StoresOK`).

* `NeverToADeadStage` (`SentToLivingStage`): rests on the destructor's order, the flag, the
  pointer, then what the stage owns. It is a theorem about measurements; the manager's
  calls have no such protection.
* `PersistentStays` (`PersistentKept`, an action property): a call of the manager removes or
  resets nothing persistent in an enabled category whatever stage it has read, and storing
  changes one statistic, by `Grows`.
* `AveragesArePossible` (`AverageInRange`): an average is not inductive, but the total lies between
  `numEffective` times the least and the greatest time (`TimesOK`), also after a restart, and
  likewise for counters (`CountsOK`). A store has no more counts than measurements are
  finished, so its total fits.

### SedaConfig

`ConfigInvariant` has three parts. `PhaseInv`: which stages exist and in which state, for each step
of the builder (`Phases`); a stage that is being disconnected may still be used, one
that is deleted may not, because all stages are down before any goes. `RefInv`: `eventRef` counts
the events a stage has accepted and not finished, and the events that came late are the tail
of its queue (`LateTail`); so a stage may be taken down only when what is left is late.
`PlaceInv`: no list holds an event twice and an event is in one list, store or hand.

* `EventInOnePlaceAlways` (`EventInOnePlace`), `OnlyLateDeletedAlways` (`OnlyLateDeleted`),
  `FailureLeavesNoStageAlways` (`FailureLeavesNoStage`).

### ConnStream

`StreamInvariant` follows the lengths from the header to the vectors, in parts that need each
other. `VectorsInv`: what the posted vectors hold and lack is what is missing of the
attachments (`Sized`), and there are as many as `remainVecs` counts (`Counted`). `UnitsInv`: what is
queued and on the wire was posted. `PairsInv`: a message comes right after its header, whoever
cuts the stream and wherever the sender stops, so that the lengths in the callback's parameter are
those of the message that is read with them. `AnnouncedInv`: the event in the parameter is there
exactly while attachments or a file are received. `SettledInv`: a request waits in the map or in
that parameter, or is settled.

* `VectorsExactAlways` (`VectorsExact`): for every block size and every choice of buffers. The sum of
  the sizes of any sequence of vectors (`RoomTo`) is a recursive function; what it gives for a
  sequence that is cut, extended, or filled with blocks is proved by induction over the
  numbers, as the least number for which it fails (`InductiveSet`), since the library's
  induction theorems, which take an operator, cannot be used.
* `SettledOnceAlways` (`SettledOnce`).

`OrderInvariant` adds the order of the units. Every unit has a place in its message (`UnitAt`, `Place`),
and what `Follows` a place is the next unit, or the next message's header after the last one
that is sent, which is the last attachment when the file is never sent.

* `SenderOrder`: the blocks of the send queue and the units of the file being sent are
  contiguous, each unit on the wire follows the one before it, and what the sender writes next
  follows the last one on the wire.
* `RecvOk`: while the receiver has a vector it is at a place (`At`) that is followed by what comes
  next, and as far in its message as `mNextRecvPart`, the vectors and `cbp` say (`Aligned`): at a
  header or right behind one, behind the attachment and file units it holds, or behind the
  blocks drained so far (`AtDrain`; `DrainedOf` is the arithmetic of the blocks). What
  has been handed on is then all that is usable up to there (`UpTo`). After an announced file
  that was not sent nothing of this is claimed for the messages that follow (`Broken`); and a
  header may be read inside a message whose drain ends early (`EndsEarly`).
* `Results`: the two properties themselves, which the place alone does not give when
  the connection has ended.

Two theorems follow from it:

* `BoundariesKeptAlways` (`BoundariesKept`) and `IntactAlways` (`Intact`): for every cut of the stream,
  any shapes of messages, block size and buffers. A file of several blocks is never handed on
  (its second block gets no vector), so that `Intact` says of files that one block of them
  arrives whole.

### Only model-checked

Every liveness property: fairness and `ENABLED` are out of the prover's reach. Each invariant
and action property of the runs that pass has a theorem.

## 6. What the models found

* **An event completed under its send callback** (`comm_freed`). `eventDone` waits
  while the status is `PENDING`, so that the send callback is done with the event
  first (`conncb.cpp:851`). But `recvRspMsg` has just changed that status itself
  (`conncb.cpp:759`), so it never waits, and the callback may set the status of
  an event that is completed and deleted.

Seen while modelling, without a run of their own. The models have these behaviours unless
it is said otherwise, and the properties say in their statement what they leave out.

Pool, stages, timers:

* Two calls of `killThreads`. The guard against a second transaction is
  `threadsToKill > 0` (`threadpool.cpp:151`), and the comment above it says "allow only one
  thread kill transaction at a time". The last victim sets it to 0 and signals; a
  second caller may take `threadMutex` before the first one wakes. It passes the
  guard, and `setPool` and `connect` of the killer stage, which is still connected,
  fail their assertions.
* Nobody to kill. With no victim (0 asked for, or an empty pool, which is what
  `~Threadpool` meets after all threads were killed) no thread signals `threadCond`, and
  `killThreads` waits for ever (`threadpool.cpp:170`).
* The wait of `killThreads` on `threadCond` is not in a loop. After a spurious wakeup it
  disconnects the killer stage with `threadMutex` held, and the victims need
  `threadMutex` in `threadKill` before they release their events: a deadlock. `pool_kill`
  allows such wakeups and shows that no count is wrong; `pool_live` excludes them.
* `~Threadpool` relies on `killThreads(numThreads())`, which returns 0 at once if
  another transaction is pending.
* The postcondition of `addEvent` in `stage.h`, "event ref count on stage is
  incremented", is not true of a stage that is not connected; `connect` counts
  such events later.
* Reconnecting a TimerStage. `shutdown` is set by `disconnectPrepare`
  (`timerstage.cpp:346`) and never reset. After the next connect the new timer thread ends
  at its first check, and nothing registered fires; `stage.h:91` says that a stage can be
  repeatedly disconnected and connected.

Client and stream:

* A refused request is completed by its answer while its attachment is still to be
  sent. If sending it then fails, the send callback completes the event again
  (`conncb.cpp:1254`): `eventDone` of `cb_param_t` is that of the send callback's own
  parameter and still false. This is why `KeepsOneReply` leaves `Refused` out.
* After a message that ends with an attachment the vector reposted for the next
  header is a `USER_ALLOC` one, and an assertion on its type fails (`conncb.cpp:348`, reposted at
  `conncb.cpp:412` and `:713`). `ended` is then `"assert"`.
* `recvFile` counts a block down without posting the vector for the next
  (`conncb.cpp:1005`): a file longer than a block stops the connection.
* The last vector of a drain has `drainLen % gMaxBlockSize` bytes (`conncb.cpp:1031`): a drain
  of two or more whole blocks ends a block too early and what is left is read as a
  header.
* A response that announces a file is not completed for its client.

Server and threads of Net:

* `sendvecProgress` clears `mReadyToSend` (`conn.cpp:509`) without a lock that the epoll
  thread shares; the readiness set since EAGAIN is lost, and the answer waits for
  another send on that connection. `overrun` marks it.
* `acceptConns` gives up when no descriptor can be freed (`netserver.cpp:185`), and the
  listening socket is edge-triggered: the clients in the backlog wait for the next
  client. `shortOfFds` marks it. A failed connection callback ends it as well, without
  closing the new socket (`netserver.cpp:212`).
* `sendResponse` finds the connection by its number (`commstage.cpp:381`): when the asker has
  gone and the number has a new owner, that one gets the answer.
* A hang-up that was fetched before its connection went is handled against the number's
  new owner (`net.cpp:857`), which is removed.
* The epoll threads start before there are data threads (`net.cpp:180`): a socket that is ready
  then is divided by 0, or by a number that still grows, so that a socket may be handled by two
  threads. The vectors also grow under their readers (`net.cpp:143`).
* A receive thread that cannot be created pops an element of the send threads
  (`net.cpp:166`) and leaves its own, freed, in the vector; `CommStage::initialize` fails, but
  nothing stops the threads that run.
* `Net::shutdown` deletes the data threads' elements before the epoll threads have been
  told to end (`net.cpp:272`), and the send threads' while receive threads may still answer
  a malformed message.
* Sockets behind a quit entry are dropped. `sockQ` is popped without its mutex (`net.cpp:595`;
  not modelled).
* `shutdownFlag` stays set, so a Net that is set up again is never shut down;
  CommStage makes a new Net each time.
* `~ConnMgr` runs callbacks that use `mNet` while it is being deleted (`commstage.cpp:155`;
  not modelled).

Configuration and statistics:

* A second `init` after `cleanup` finds the names of the first in `mStageNames`. A failed
  `initThreadPool` leaves its pools although the header says that they are empty. A class that
  cannot make a stage hits an assertion before `INITFAIL` is returned.
* Events that come late are deleted without their callbacks.
* A callback of a stored event that leads to the dispatcher being cleaned up locks
  `listMutex` twice (`eventdispatcher.cpp:120`; not modelled).
* `SedaQueueInfo::dump` pairs the names in one order with the lengths in another.
* A persistent statistic is set like any other by a measurement with `resetCount`:
  `SedaStatsMapStoreStats` never looks at `persistent` (`sedastatsstage.cpp:891`). `sedastats.h:202`
  calls it "A flag determining if the can be reset by the `SedaStatsEvent::resetCount` flag".
  `Grows` in `PersistentKept` allows it (`CountSet`).
* A persistent statistic is deleted when its category is not enabled, by `disableCategory` and by
  `clearStats` of all (`sedastatsstage.cpp:722`, `:685`), although it "will not be cleared even
  if all statistics are reset" (`sedastats.h:203`). `PersistentKept` is about enabled categories.
* The average of a counter with a negative total divides that total as an unsigned number
  (`sedastatsstage.h:513`).
* `addStatsEvent` uses the pointer without a test (`sedastatsstage.cpp:762`): it is null for
  persistent statistics without a stage, and for what outlives it.
* The static calls test the pointer and read it again without its lock
  (`sedastatsstage.cpp:612`, `:619`, `:629`, `:666`), then lock a mutex inside the object, which
  the destructor does not take: they may use a null pointer or a deleted stage.
* An event on its way when its category is disabled creates its store again.

## 7. Not modelled

* In the modelled parts: event history, the compiled-out timeouts of stages, pthread
  errors other than a failed thread creation, several pools at once (another pool's
  threads are producers to this one), a timer whose callback event targets the timer
  stage itself, the conversions between clocks, settings of sockets, counters of
  messages, and what a message contains.
* SedaConfig: `parse` and `instantiateCfg`, which read settings, and the factories, maps that are
  filled before `main`. SedaMetric samples queue lengths to print them. The management
  requests of SedaStatsStage are compiled out (`SEDASTATS_MANAGE`).
* ConnMgr's destructor, which deletes what is left when Net is gone.
* EndPoint and Sock wrap socket calls; what a call may return is a choice of the models.
* TimeoutInfo: nothing in the repository sets one on an event. (`setTimeoutInfo` given the
  object it has, as the last reference, would free it first: `stageevent.cpp:162`.)
* Not built in the repository: the memory tracer (`*.skip`).
* Sequential code around the core, for which a state machine says little: log,
  process start-up, pid file, signals, the ini file, file helpers, strings, MD5, DateTime.

## 8. Plan

Models:

1. Composition of NetServer and SedaPool: the next stage of a request is a stage of a pool, so
   that shutting down stages and the network in the order of SedaConfig is one behaviour.
2. ConnMgr's destructor with NetThreads' shutdown.

Proofs, after TLC has agreed to each invariant:

* SedaConfig: the order in which a stage takes its events.
