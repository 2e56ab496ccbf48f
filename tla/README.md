# Verification of simple-muduo

simple-muduo is a C++ network library in the manner of muduo: one event loop
per thread, level-triggered epoll, connections handed to IO threads, callbacks
for user code. This directory holds TLA+ modules that model it, TLC
configurations that check them on small instances, and proofs that TLAPS
checks for every value of the constants.

    tlc -workers 2 -config MCEventLoop.cfg MCEventLoop.tla
    tlapm EventLoopProofs.tla

## 1. The system

| Component | State it keeps | Operations | Talks to |
|---|---|---|---|
| `EventLoop` | `looping_`, `quit_`, `callingPendingFunctors_`, `pendingFunctors_` (under `mutex_`), the eventfd, `activeChannels_` | `loop`, `quit`, `queueInLoop`, `runInLoop`, `wakeup`, `handleRead`, `doPendingFunctors` | its poller; every thread that holds a pointer to it |
| `Poller`, `EPollPoller` | `channels_`, `epollEvents_`, the kernel's tree | `updateChannel`, `removeChannel`, `poll`, `fillActiveChannels` | channels, by raw pointer |
| `Channel` | `events_`, `revents_`, `index_`, `tie_` | `enable*/disable*`, `remove`, `handleEvent` | its loop; its owner's callbacks |
| `TcpConnection` | `state_` (atomic), `channel_`, `socket_`, the two buffers | `send`, `shutdown`, `connectEstablished`, `connectDestroyed`, `handleRead/Write/Close/Error`, `sendInLoop`, `shutdownInLoop` | its IO loop, the server, user callbacks, user threads |
| `TcpServer` | `connectionMap_`, `started_`, `nextConnId_` | `start`, `newConnection`, `removeConnection(InLoop)`, destructor | acceptor, pool, connections |
| `Acceptor`, `Socket` | the listening socket and its channel | `listenFd`, `handleRead` | base loop, server |
| `EventLoopThreadPool` | the threads, `eventLoops_`, `numThreads_`, `next_` | `start`, `getNextLoop` | server |
| `EventLoopThread`, `Thread` | `loop_` (under `mutex_`), `started_`, `joined_` | `startLoop`, `threadFunc`, destructor | the loop on the thread's stack |
| `Buffer` | bytes, `readerIndex_`, `writerIndex_` | `append`, `retrieve*`, `makeSpace`, `readFd`, `writeFd` | connections |
| `Logger`, `InetAddress`, `Timestamp`, `CurrentThread`, ... | none that matters | formatting | all |

A thread reaches a loop only through `queueInLoop`, `quit` and `wakeup`;
everything else happens in the loop's own thread, in callbacks of channels or
in functors. A connection is owned by `shared_ptr`s: the server's map, user
code, and functors in two loops. The poller and the functors of `send` and
`shutdown` hold bare pointers.

### What is hard

* *Wakeups.* A functor or a `quit` comes in between any two instructions of the
  loop, the swap and `epoll_wait` above all. Nothing but the eventfd and the
  flag `callingPendingFunctors_` keeps it from waiting ten seconds.
* *Three records of one fact.* `index_`, `channels_` and the kernel's tree, with
  raw pointers to objects that die and descriptors that come back.
* *The end of a connection.* FIN, RST, `shutdown`, the server's destructor and
  `removeConnection` in two loops and any number of threads, with `state_`
  tested in one step and set in another.
* *Output.* Partial writes, EAGAIN, a buffer in between, a shutdown that has to
  wait for it.
* *Threads that start and stop*, where `quit` may come before `loop`.
* *A reference that changes hands.* What keeps a connection alive passes from
  the acceptor to the map, to a functor of the base loop, to a functor of the IO
  loop, and any of these loops may be about to quit.
* *The end of the server*, member by member: the map, then the threads one by
  one, while IO loops still close connections and call back.
* *Limits.* No descriptor left to accept with; a round-robin index that wraps; a
  vector that has to grow or to move its bytes.

### What makes each component correct

* EventLoop: accepted functors run once, in order, one at a time and without
  waiting for the poll timeout; `quit` ends the loop; functors cannot starve
  descriptors.
* EPollPoller and Channel: the three records agree; `epoll_ctl` never fails; no
  pointer dangles; a descriptor that is ready is dispatched.
* TcpConnection: the peer receives what was accepted, in order; the FIN is last;
  the user hears of the end once; the channel leaves the poller before the
  object goes; what was begun is finished.
* TcpServer, pool, threads: every connection in the map is destroyed in its own
  loop, and alive as long as a poller knows its channel; the user hears of every
  end; loops are chosen in turn; nobody outlives the server who could call it; a
  closed connection gives its descriptor back and a waiting peer gets it.
* Buffer: a FIFO of bytes whatever the indices do, in a vector that does not grow
  with the length of the stream.

`PROJECT.json` lists the hazards behind these, each at its line, with the
properties that cover it.

## 2. The modules

| Module | Models | Theorems |
|---|---|---|
| `TaskQueue` | what `queueInLoop` promises: a FIFO of functors | |
| `EventLoop` | `EventLoop.cpp`, cut at atomics, critical sections and eventfd accesses | |
| `EventLoopProofs` | | type invariant, two safety properties, refinement of `TaskQueue` |
| `EventLoopThread` | `EventLoopThread.cpp` and its `Thread`, composed with `EventLoop` | |
| `EventLoopThreadProofs` | | type invariant, three properties of it, and that its loop is an `EventLoop` |
| `Channel` | `index_`, the choice of the `epoll_ctl` operation; shared by the next three | |
| `EPollPoller` | `EPollPoller.cpp`, `Poller.cpp`, `Channel.cpp`, epoll | |
| `EPollPollerProofs` | | type invariant, three safety properties |
| `TcpConnection` | `TcpConnection.cpp`, and what `TcpServer.cpp` does to one connection | |
| `TcpConnectionProofs` | | type invariant, six safety properties, and what users can do to be safe |
| `TcpServer` | `TcpServer.cpp`, `Accept.cpp`, `EventLoopThreadPool.cpp`: many connections over many loops | |
| `TcpServerProofs` | | no loop outlives the server |
| `TcpServerConnProofs` | | type invariant, what becomes of connections, the loops' shares |
| `ByteQueue` | what a buffer promises: a FIFO of bytes | |
| `Buffer` | `Buffer.h`, `Buffer.cpp` | |
| `BufferProofs` | | type invariant, bounded growth, refinement of `ByteQueue` |
| `MC...` | the instances TLC checks | |

Each module writes a mutated form of a definition right before the definition
("Mutation: ..."): replacing the one by the other must break the property it
was written for. They are no part of the specification.

### EventLoop

One action per piece of code between two points where threads can see each
other. `QueueInLoop` is the critical section of `queueInLoop`,
`QueueInLoopWakeup` the two conditions and the `write` that follow; `Quit` and
`QuitWakeup` likewise. `loopAt` is the program counter of `loop` and
`doPendingFunctors`: `EnterLoop`, `ResetQuit` (`quit_ = false`), `TestQuit`,
`PollEvents` or `PollTimeout`, `HandleRead` (the eventfd) and `HandleEvent` (any
other channel), `StartPending` (the flag), `SwapFunctors`, `RunFunctor`,
`FunctorReturns`, `FinishPending`, `ExitLoop`. At `created`, `callback`,
`functor` and `exited` user code runs in the loop's thread and may call what any
thread may, at `exited` `loop()` itself once more. `inCall` is where a thread is
in a call. The counter of the eventfd is kept as zero or not: the code uses no
more of it. `PollEvents` may leave the eventfd out although it is readable, as
`epoll_wait` may when `epollEvents_` is full.

`TaskQueue` knows neither threads nor batches. The refinement maps its queue to
the rest of the batch followed by `pendingFunctors_`.

### EventLoopThread

Composes `EventLoop` (as `Loop`, over the same variables) with the thread that
has it on its stack and the owner of that thread. `threadAt` follows
`threadFunc`: `callback` (the loop is built, `callback_` runs), `loop` (after
`Publish`), `cleared` (after `Clear`, with `mutex_` still locked), `gone` (after
`Return`, which unlocks and destroys the loop). `ownerAt` follows `startLoop`
(`StartLoop`, `TestLoop`, `SpuriousWakeup`) and the destructor (`Destroy`,
`DestroyQuits`, `Join`). The other critical sections are single steps.
`sleep(1)` is a delay and orders nothing. Steps of the loop happen while the
thread is in `loop`; calls begin only while the caller may hold the pointer and
the destructor has not been entered, and may end when the loop is gone: `faults`
records that, the null pointer the destructor's second read of `loop_` may find,
and the mutex unlocked after its owner was destroyed. `UsersQuit` says whether
anyone but the destructor quits the loop.

### Channel and EPollPoller

`EPollPoller` has objects (`Channels`) and descriptor numbers (`Fds`) that are
both reused, the poller's map, the kernel's tree with `data.ptr`, and readiness.
Interest changes are any sequence of the five calls of `Channel.h`; `Remove` is
`removeChannel`; `Destroy` is the owner's destructor with the `close` that makes
the kernel forget the descriptor. No destructor asks whether the channel was
removed, and `Destroy` does not either: a channel may go while it is registered,
and leaves its entry in `channels_`. It does so in one step, in the loop's thread.
A connection deleted by another thread while it is registered has a window between
the end of `channel_` and that of `socket_` (`TcpConnection.h:67-68`) in which
the loop may still be told of it; `TcpConnection` has that one (`HandleEvent` on a
connection that is not `Alive`). `Remove` requires an empty dispatch list, because
its callers (`~EventLoop`, `~Acceptor`, `connectDestroyed`) are destructors and a
functor, and functors run after the dispatch. EPOLLIN and EPOLLPRI go together, as
in `kReadEvent`; `hup` stands for EPOLLHUP and EPOLLERR, which nobody can refuse,
and has the branches of both in `Callbacks`. `activeChannels_` has `revents_` as the code fills
it next to what `epoll_wait` reported.

### TcpConnection

Actors: the IO loop (`loopAt`, `revents`, `frame`, `batch`), the base loop
(`RemoveConnectionInLoop`, `DestroyServer`), threads (`calls`), the peer. The IO
loop's queue is used as `TaskQueue` allows, in the batches of the code. A
handler is one step unless it calls the user (`frame`); `send` and `shutdown`
from threads are cut between the test of `state_`, the store and the enqueueing.
User code in the IO thread may send and shut down any number of times, inline.
`Alive` is the reference count: the connection exists while the map, a thread, a
functor with a `shared_ptr`, or the handler being executed holds it. A functor
holds it from when it is queued to the end of its batch, because
`doPendingFunctors` keeps the batch in a local vector until all of it has run
(`keeps`). Functors of `send` and `shutdown` hold a bare `this` and do not count. Bytes are
pairs of message and position, so that order and repetition show. `WriteFails`
covers EPIPE and ECONNRESET, a full socket EAGAIN. `writeCompleteCallback_` and
`highWaterMarkCallback_` are set, as the case with more behaviour.

`KeepsReferences` says whether the users hold on to the connection until their
calls were executed. Nothing in the library asks for it, so the run that shows
the consequence sets it FALSE; the safety run sets it TRUE to show all that
holds even so. The strings given to `send` are taken to live as long.

### TcpServer

`TcpConnection` has one connection and every race on its `state_`; `TcpServer` has
several, and keeps of each what decides about its life: `state_`, its loop, its
channel's `index_`, what `connectionCallback_` was told, and whether the peer has
closed. `Alive` is the reference count: the map, or a functor in some loop, has
a pointer. A batch of `doPendingFunctors` keeps its references until all of it
has run, so `functors` keeps the batch and `ran` counts.

A loop is its queue and its place in a round: `Poll`, the dispatch of what was
ready (`Accept` or `AcceptFails` for the listening socket, `HandleClose` for a
connection), `SwapFunctors`, the functors one at a time, `EndRound`. An IO loop
that ends is destroyed with what was queued since its last swap; `dropped`
records whose functors these were. All ready channels are reported, and idle
rounds are left out. How a wakeup gets through is `EventLoop`'s to say, and what
`startLoop` does inside is `EventLoopThread`'s: `PoolStarts` is one step, and no
`quit` comes so early that `loop()` forgets it.

`start()` is called from the base loop's thread before `loop()`, or from another
one; only the first call counts. Connections come from `GetNextLoop`.
`RemoveConnection` hops to the base loop unless it is there. The destructor goes
as C++ does it: the body (`DestroyConnection`, an entry of the map at a time),
then the members: the pool (`PoolQuits` and join, in the order of the vector)
and the acceptor. `FreeBaseLoop` comes after, as in `test_TcpServer.cpp`, whose
assumptions the model shares: the user keeps no connection, quits no IO loop, and
destroys the server in the base loop's thread after that loop has ended.
Descriptors are counted, not numbered; peers connect only while it listens.

### Buffer

The operations are operators on a record of the three members, one for each
function of the class: `MakeSpace` resizes or moves, `Appended` ensures room and
fills, `FilledFromFd` fills the room and appends what spilled into `extrabuf`.
The actions are the public calls (`AppendBytes`, `ReadFd`, `Retrieve`,
`RetrieveAsString`, `WriteFd` with the `retrieve` its caller adds). Bytes are
numbered in the order of arrival. `peak` is a history variable: the most that was
ever readable at once. `FromPeek` may read what is no byte of the queue, as
`retrieveAsString` does when it is asked for more than there is; `ByteQueue`
promises nothing about those bytes (`TakeTooMuch`). The refinement maps the queue
to `Contents(buf)`, the bytes between the indices.

## 3. What is checked

| Run | Instance | Result |
|---|---|---|
| `eventloop` | 2 threads, 3 functors, one of them queued outside `loop()`, which may be called again | all hold, 8,894 states |
| `poller` | 2 channel objects, 2 descriptors, `epollEvents_` of 1 | all hold, 779,399 states |
| `connection` | 2 threads, 2 messages of 2 bytes, socket with room for 1 byte, high water mark 3 | all hold, 1,468,523 states |
| `connection_live` | the same with 1 thread that may drop its reference early | all hold, 285,675 states |
| `thread` | owner and one user, 2 functors, one of them queued by `callback_`; the user may quit | all hold, 5,336 states |
| `server` | 0 to 2 IO loops, 3 peers, descriptors for 2, 2 calls of `start` | all hold, 171,819 states |
| `buffer` | 9 bytes, room for 3 at first, 1 byte in front, 2 in `extrabuf` | all hold, 145,305 states |
| `thread_join` | as `thread`, only the destructor quits | `DestructorEnds` violated |
| `poller_revents` | as `poller` | `ReventsAreReported` violated |
| `connection_fin` | as `connection` | `NoWriteAfterFin` violated |
| `connection_freed` | 1 thread, `KeepsReferences = FALSE` | `NoUseAfterFree` violated |
| `connection_removed` | as `connection` | `RemovedForGood` violated |

**EventLoop.** `NoLostWakeup`, `NoLostQuit`: the loop is never in `epoll_wait`
with work or a quit pending and no wakeup there or coming. `ImplementsTaskQueue`:
refinement. `QueuedTasksRun`, `PollsForever`: progress without the poll timeout
(that a quit ends the loop is `QuitThenJoinEnds`, below). `EarlyTasksRun`: a
functor that the loop's own thread queues outside `loop()` wakes nobody, since
both conditions of `queueInLoop` are false; it runs after a timeout at the
latest, and the property says so by assuming fairness of `PollTimeout` for this
case only.

**EventLoopThread.** `LoopPointerValid`, `StartLoopReturnsLoop`,
`NoLoopLeftRunning`, and the liveness properties `StartLoopReturns` (no lost
notification, unless the loop ends first) and `QuitThenJoinEnds` (the destructor
ends if its `quit` came after `quit_ = false`). That condition is needed:
`thread_join`.

**EPollPoller.** `RecordsAgree`: the three records agree on every channel that
exists, and the kernel's tree points to no other, whether or not channels are
removed before they are destroyed. `EpollCtlSucceeds` (the `LOG_FATAL` of `update`
is unreachable), `NoStarvation`. `NoEventMissed`: for
reading and writing, taking the watched events for the reported ones costs
spurious callbacks, no missed ones. Hang-ups are missed: `ReventsAreReported`.

**TcpConnection.** `StreamIntact`, `FinIsLast`, `WatchesIffOutput`,
`ClosedOnce`, `PollerPointsToAlive`, and the liveness properties
`ShutdownCompletes`, `CloseCompletes`, `OutputDrains`. `NoMessageAfterDown`: once
the user was told of the end, no message reaches him, not even if the channel is
put back into the poller (`connection_removed`): a closed channel stops watching
for reading, and nothing that is left turns this on again.

**TcpServer.** `PollersHoldLiveChannels`: no poller and no list of channels to
dispatch has a raw pointer to the channel of a connection that is gone, through
every hand-over of the reference.
`EndIsTold`: when the server is gone the user has been told "down" of every
connection, with the two exceptions the code makes: a `connectDestroyed` queued
behind the last swap of an IO loop that quits, and a connection in
`kDisconnecting`, of which `connectDestroyed` says nothing.
`ServerOutlivesItsUsers`: the bare `this` in `closeCallback_` and in functors is
never used after the destructor. `Balanced`: round robin, seen from the loops.
`ClosedIsReleased`: a closed connection is forgotten by the map, by every loop and
by the poller, and its descriptor comes back, unless the base loop quits first.
`PendingIsAccepted`: a failed `accept` is made good, because epoll is level
triggered. The type invariant also says that `next_` is always an index into
`eventLoops_`.

**Buffer.** The type invariant is the order of the indices, in bounds:
no copy leaves the vector. `GrowthBounded`: the vector never exceeds twice the
most it had to hold, however long the stream, since it grows only where moving
is not enough. `ImplementsByteQueue`: refinement.

Deadlock is checked for the loop, the poller and the buffer. A connection, a
thread or a server whose life is over stops, so their configurations switch the
deadlock check off.

### What the violations show

1. `poller_revents`. `EPollPoller.cpp:130` stores the watched events in
   `revents_`. Callbacks run without cause, and the EPOLLHUP branch of
   `Channel.cpp:67` never runs. `test_EPoller.cpp:193` relies on it: it asserts that the
   read callback runs when only writing is ready.
2. `connection_fin`. `sendInLoop` refuses `kDisconnected` only, so that a queued
   send which an inline `shutdown` overtakes writes to a socket that is shut
   down; nothing ignores SIGPIPE.
3. `connection_freed`. Functors of `send` and `shutdown` hold a bare `this`. It
   takes two batches: a thread is inside `shutdown` or `send`, past the test of
   `state_`; `connectDestroyed` runs and its batch ends; the thread queues the
   functor and drops the last reference; the next batch runs it on a deleted
   connection.
4. `connection_removed`. A thread inside `shutdown` has tested `state_` when
   `connectDestroyed` stores `kDisconnected` and removes the channel, and overwrites
   that with `kDisconnecting`; a send queued behind `connectDestroyed` is then not
   refused and registers the channel again. `RemovedForGood` speaks of connections
   that were closed and removed, so that this store over `kDisconnected` is the only
   way to break it. (There is another way back into the poller: a connection that is
   `kDisconnecting` when the server is destroyed is left so by `connectDestroyed`.)
   What holds even then is `NoMessageAfterDown`.
5. `thread_join`. `loop()` clears `quit_` after `threadFunc` has published the
   loop: a destructor in between has its `quit` forgotten and joins for ever.

### Bounds

`Tasks` bounds the functors in flight, not those of a behaviour: a functor that
has run may be queued again, so that the loop goes on for ever. Two other
threads give every pair of calls that can overlap, and the loop's own thread
makes calls of its own. Two channels on two descriptors exchange both, and a
one-element `epollEvents_` has to grow once. In a connection the number of
messages (`MaxSends`) is bounded, two of them being the least with one to
overtake the other; two bytes and room for one give partial writes and EAGAIN,
and a mark of three is crossed by the second message only. Calls of `shutdown`,
releases, closes and resets need no bound. The peer sends no particular data:
`inbound` says that there is some.

In the server, two IO loops are the least between which connections are shared
out, and the third connection is the one for which `next_` has wrapped; with two
descriptors it waits until one is released. Runs without an IO loop (everything
on the base loop) are behaviours of the same instance, `numThreads_` being chosen
at the start. In the buffer nine bytes cross the initial three several times:
moves, growth with and without spare room, and reads that spill.

### Fairness

* EventLoop: weak fairness of the loop's own steps in `loop()`, of `epoll_wait` while the
  eventfd is readable, and of the end of a call that has begun: threads are
  scheduled. Strong fairness of the end of user code, which may make calls for
  ever in the model but returns. No fairness of other descriptors or of calls.
* EventLoopThread: that of the loop, both threads are scheduled, `callback_`
  returns. Nobody need call the destructor; no wakeup need be spurious.
* EPollPoller: the loop polls and dispatches; which descriptors a full
  `epollEvents_` gets is left open.
* TcpConnection: both loops run, calls that have begun end, the peer reads. The
  liveness properties except the end of the server, whose destructor quits the
  IO loops.
* TcpServer: a `start()` that has begun goes on, the base thread enters `loop()`,
  each loop takes its steps (weak fairness). Nobody need connect, close, start or
  quit, and nothing is assumed of the destructor.
* Buffer: none, and no liveness property.

## 4. What is proved

`EventLoopProofs`, for any `Threads`, `Tasks`, `EarlyTasks`, finite or not, from
the two assumptions on constants in `EventLoop`:

* `TypeCorrect`: `Spec => []TypeOK`;
* `NoWakeupIsLost`, `NoQuitIsLost`: the two safety properties of the run;
* `LoopImplementsTaskQueue`: the refinement, an initial state and a step at a
  time.

`NoLostWakeup` is not inductive: it speaks of `epoll_wait` only, and says nothing
of the way there. `IInv` adds, as named parts,

* `FlagIInv`: `callingPendingFunctors_` is set exactly from the swap to the end
  of the batch. This is why the second condition of `queueInLoop` works;
* `BatchIInv`: a batch exists, and a functor runs, only inside
  `doPendingFunctors`; the refinement needs it at the swap;
* `CallIInv`: the loop's own thread is in a call only where user code runs;
* `WakeupIInv`: wherever the loop is, a queued functor has the eventfd set, or a
  thread on the way to `wakeup`, or the loop before its swap, or the running
  functor itself about to call `wakeup`.

`IInv` was checked as an invariant with TLC before it was proved. Each step lemma
has one case per action.

`EventLoopThreadProofs`, for any users and functors: `LoopNeverDangles`,
`DestructorLeavesNoLoop` and `StartLoopIsRight`. Their invariant relates the
pointer to the thread (`PointerIInv`: `loop_` is set exactly in `loop`) and the
owner to the thread (`OwnerIInv`: who has got past `startLoop` has a thread that
has published its loop; a destructor that has ended met one that was not started
or has left it). The steps of the loop and of its users leave all of that alone.

`ThreadRunsEventLoop` is about the composition: a behaviour of the thread, its owner
and its users, looked at through the variables of the loop, is a behaviour of
`EventLoop` (`Spec => Loop!Spec`). Calls that go on after the thread has ended its loop
are steps of `EventLoop` too, or leave its variables alone. `ThreadLoopIsWoken`
then takes `NoLostWakeup` and `NoLostQuit` over from `EventLoopProofs`, for a loop
that is started, shared and destroyed as `EventLoopThread.cpp` does it. They speak
of a `quit_` that is still set; one that `loop()` has cleared is lost, as
`thread_join` shows. `TypeCorrect` takes over the loop's types.

`EPollPollerProofs`, for any channel objects, descriptors and initial size of
`epollEvents_`: `RecordsAlwaysAgree`, `EpollCtlAlwaysSucceeds`,
`NoReportedEventIsMissed` and `TypeCorrect`, all the safety properties of the run. `RecordsAgree` is not inductive: an entry of the
tree whose `data.ptr` is some channel, but not under that channel's descriptor,
would survive the channel. `TreeIInv` says that every entry is under the descriptor of
its channel, which is `kAdded` and watches what the entry says, and that every such
channel has one; `MapIInv` says that every channel that is not `kNew` is in `channels_`,
and nothing of the entries that destroyed channels leave there; `FdIInv` says that an
open descriptor has one channel. Together (`OffTree`) they let `index_` decide what
`epoll_ctl` finds, and `UpdateTree` concludes that it never fails. A channel that is
destroyed while it is registered takes its entry of the tree with it, because its
descriptor is closed; what it leaves in `channels_` is overwritten by the next channel
with that number, which begins as `kNew`. The watched events cover the
reported ones when `poll` fills the list, because the tree's interest is the channel's.

`BufferProofs`, for all sizes: `TypeCorrect`, `GrowthIsBounded` and
`BufferImplementsByteQueue`. Every operation is made of four: resize, move, fill,
retrieve. For each a lemma says which indices and which contents it leaves
(`ResizedKeeps`, `MovedKeeps`, `FilledKeeps`, `RetrievedKeeps`), and the rest
composes these as the code composes its calls; `FilledFromFdKeeps` is the longest,
with the room first and then an append that may itself move or grow. The
invariant is `TypeOK /\ GrowthBounded`, inductive as it stands: a vector that grows
does so to less than twice what it then holds. The bytes a
taker is given lie inside the vector because the indices do, which is where the
refinement needs the type invariant.

`TcpConnectionProofs`, for any threads, number and length of strings, room in the
socket and high water mark, and whether or not the threads keep their references:
`StreamArrives`, `FinFollowsOutput`, `WatchesOutput`, `EndsOnce`, `PollerSafe`,
`SilentAfterDown` and `TypeCorrect`, all the safety properties of the run `connection`. Bytes
and output are carried by three of the properties themselves, which support each other:
`StreamIntact` needs that nothing is written past `outputBuffer_`, which
`WatchesIffOutput` says by way of the channel's interest, and `FinIsLast` that a
`shutdown` waits for the same interest. They are inductive only over the control part:

* `Ordered` and `BirthIInv`: in the IO loop's queue `connectEstablished` comes first and
  is the only thing to run while `state_` is `kConnecting`; `connectDestroyed` is queued
  once. A `connectEstablished` that ran late would register a closed channel again;
* `RoundIInv`: events are dispatched only in the round whose poll reported them, before
  the functors, and nothing takes the channel out of the poller in between;
* `CloseIInv`: a closed channel does not read any more, which is why `handleClose` comes
  once and `SilentAfterDown` holds, and `state_` remembers it, which is why `connectDestroyed` does not tell the user
  again. The store of `shutdown` over `kDisconnected` leaves it at `kDisconnecting`:
  enough for that test, not for the one in `sendInLoop`;
* `TokenIInv`: one reference passes from the map to the queued `connectDestroyed` to its
  execution, and is never there twice. `PollerPointsToAlive` is this, and `ClosedOnce`
  the fact that it is used up;
* `MapIInv`: `closeCallback_` asks once that the map let go, and as long as the server
  exists nothing else takes the connection out.

Concatenation is hidden behind `Cat` and a few laws about it; `Whole` puts what was
received, what is in the socket and what is buffered together, and the lemmas on writing
say what each operator does to the whole.

Three claims fail in the runs `connection_fin`, `connection_freed` and
`connection_removed`. `SafeInItsOwnLoop` says what that takes: if no other thread uses
the connection (`Threads = {}`), `NoWriteAfterFin` and `NoUseAfterFree` hold and no
removed channel is put back (`~PutBack`, stronger than `RemovedForGood`), whatever the peer, the base loop and the server's destructor do
and whatever the callbacks send and shut down. `OwnIInv` is its invariant: no functor in
the queue has a bare `this`, and after a FIN, a close or the removal `state_` is no longer
`kConnected`, so that the only `send` and `shutdown` left, which test it in the same
thread, do nothing.

`FunctorsFindConnection` is about the remedy on the side of the user. With
`KeepsReferences`, any number of threads may send and shut down, and no functor ever
runs on a deleted connection (`RunDangling` is never taken). The loop may still
dispatch to one, but only if its channel was put back after `connectDestroyed`: a late
`sendInLoop` does that, and the poller reports the channel while its last holder lets go
(TLC finds such a behaviour with `MCTcpConnection.cfg` and `NoUseAfterFree` as the
invariant). `UsedIInv` is the invariant: who is in a call, or has one queued, has the
connection held. Holding references thus repairs one of the two defects and not the
other.

`TcpServerProofs`, for any number of threads, peers and descriptors:
`ServerOutlives`. The property says nothing before the server is gone; the
invariant follows the loops from the start: only as many are started as the pool
has threads (`PoolIInv`), the destructor begins when the base loop has returned
and no `start()` is under way (`EndIInv`), and the acceptor goes when every thread
has been joined (`JoinIInv`). A loop that has ended never runs again.

`TcpServerConnProofs` builds on that invariant, for the same constants:
`PollersPointToLive`, `EndIsAlwaysTold`, `LoadsBalanced` and `TypeCorrect`, the rest of
the safety properties of the run. The argument is about `Todo(l)`, what loop `l` has
still to run: the rest of its batch, then `pendingFunctors_`. A swap leaves it as it is,
running takes its head, queueing adds a last element; `TodoRuns` and `TodoQueue` say
so once, and the proofs of the actions no longer speak of batches and indices. The
parts of `ConnIInv` are

* `PlaceIInv` and `OrderIInv`: each functor is in the loop it belongs to, and
  `connectEstablished` is queued once and never behind the `connectDestroyed` of its
  connection. Without the second a destroyed channel could be registered again;
* `HoldIInv`: a channel that is registered, or is about to be, has the map or an unrun
  `connectDestroyed` to hold its connection. Since what is unrun is held by the loop
  (`UnrunIsHeld`), this is `PollersHoldLiveChannels`;
* `TellIInv` and `StateIInv`: a connection whose end has not been told of is in the
  map, or has its `connectDestroyed` before it, or lost a functor; `told` is a function
  of `state_`. At the end the map is empty (`GoneIInv`) and no IO loop has anything
  left to run (`OverIInv`), so only the last is left;
* `StartedIInv`: nobody is accepted before every thread of the pool runs its loop,
  which is why a loop that has connections is joined and not merely absent;
* `ActiveIInv` and `RoundIInv`: what is to be dispatched is still registered. An IO
  loop's own thread is the only one that can take it off. With `HoldIInv` this gives the
  part of `PollersHoldLiveChannels` that speaks of the dispatch.

`BalIInv` is the invariant of the round robin: a loop's connections, and one for those
still waiting for theirs in this turn, are the same number for every loop.

Every safety property and every action property of the passing runs is thus stated by a
theorem. Only model-checked: the liveness properties (`QueuedTasksRun`, `EarlyTasksRun`,
`PollsForever`, `NoStarvation`, `StartLoopReturns`, `QuitThenJoinEnds`,
`ShutdownCompletes`, `CloseCompletes`, `OutputDrains`, `ClosedIsReleased`,
`PendingIsAccepted`), which are beyond the prover, since they rest on fairness and so on
`ENABLED`; and the five violated claims, which are refuted by a counterexample.

## 5. What is not modelled, and the plan

Not modelled, for good: `Logger`, `InetAddress`, `Timestamp`, `CurrentThread`,
`DefaultPoller`, the option setters of `Socket` (formatting or system calls
without state of their own; the logger's level is an unsynchronised integer that
only decides what is printed); failing `eventfd`, `epoll_create1` and `socket`
(they end the process); calling `startLoop()` a second time, which
`Thread.cpp:42` warns against; `Thread` without an `EventLoopThread`; the lifetime
of the string whose address `send` queues; a descriptor 0.

In `TcpConnection`, the IO loop is another one than the base loop, and it keeps
running after the server's destructor as far as safety goes. In `TcpServer`, the
server is not destroyed while the base loop runs, and the pool's thread-init
callback is left out: with threads `EventLoopThreadPool::start` does not pass it
on, without them it is user code in the caller of `start()`.

What is left:

1. `SafeInItsOwnLoop` covers users without threads, `FunctorsFindConnection` users whose
   threads hold on. Which discipline of threads (say, no `shutdown` but from the loop)
   keeps removed channels out of the poller is not stated; the server's destructor is
   in the way, since `connectDestroyed` leaves a `kDisconnecting` as it is.
2. `TcpServer` takes over what `EventLoopThread` and `EventLoop` promise in words; for
   the thread and its loop the composition is a theorem (`ThreadRunsEventLoop`), for the
   server and its loops it is not.
3. Hazards no property covers (see `PROJECT.json`): the use of a loop right after the
   store or the push that lets it end, functors that are dropped with a loop and a
   `kDisconnecting` connection of whose end the user is not told (`EndIsTold` has both as
   exceptions, since nothing says what was intended), `retrieveAsString` of more than there
   is, a thread that is detached, descriptor 0, and the initialisation callback that is
   not passed on.
