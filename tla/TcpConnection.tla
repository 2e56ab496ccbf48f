---------------------------- MODULE TcpConnection ----------------------------
(***************************************************************************)
(* One TcpConnection (TcpConnection.cpp) from newConnection to its         *)
(* destruction: the loop that owns it (an IO loop), the base loop with the *)
(* server's map of connections, the user's threads that send and shut      *)
(* down through a shared_ptr, and the socket with its peer.                *)
(*                                                                         *)
(* The IO loop is the queue that TaskQueue specifies, run in the batches   *)
(* of EventLoop::loop: poll, dispatch, swap, functors. A handler runs in   *)
(* one step, except where user code is called from the middle of it and    *)
(* where another thread can get between a test of state_ and what follows. *)
(***************************************************************************)
EXTENDS Channel, Sequences, FiniteSets, Functions

CONSTANTS
    Threads,        \* the user's threads, other than the IO loop's
    MaxSends,       \* bound: how many strings are given to send
    MsgLen,         \* their length
    SendRoom,       \* the room in the socket's send buffer
    highWaterMark_,
    KeepsReferences \* threads release the connection after their calls were executed

ASSUME SizesAssumption ==
    /\ MaxSends \in Nat
    /\ MsgLen \in Nat \ {0}
    /\ SendRoom \in Nat \ {0}
    /\ highWaterMark_ \in Nat \ {0}
ASSUME FlagsAssumption == KeepsReferences \in BOOLEAN

VARIABLES
    state_,
    index, events,  \* of channel_
    outputBuffer_,
    sent,           \* written to the socket, not read by the peer yet
    received,       \* read by the peer
    finSent,        \* shutdownWrite was done
    peer,           \* what the peer has done to the connection
    inbound,        \* whether the socket holds data from the peer
    inMap,          \* whether connectionMap_ holds the connection
    serverUp,       \* the base loop runs and the TcpServer exists
    baseQueue,      \* removeConnectionInLoop calls queued in the base loop
    ioQueue,        \* functors queued in the IO loop that concern this connection
    batch,          \* how many of them doPendingFunctors has swapped out
    keeps,          \* whether that batch has a functor bound to a shared_ptr, run or not
    loopAt,         \* where the IO loop is
    revents,        \* what handleEvent has still to test in revents_
    frame,          \* where the IO loop has left the connection's code for a callback
    calls,          \* what each user thread is in the middle of
    holders,        \* the user threads that hold a shared_ptr
    sends,          \* how many strings were given to send while connected
    accepted,       \* history: what sendInLoop put on its way to the peer
    downs,          \* history: calls of connectionCallback_ for a closed connection
    destroyed,      \* history: completed connectDestroyed calls
    faults          \* history: what went wrong

channelVars == <<index, events>>
socketVars == <<sent, received, finSent, peer, inbound>>
serverVars == <<inMap, serverUp, baseQueue>>
loopVars == <<batch, keeps, loopAt, revents, frame>>
userVars == <<calls, holders, sends>>
historyVars == <<accepted, downs, destroyed, faults>>
vars == <<state_, channelVars, outputBuffer_, socketVars, serverVars, ioQueue,
          loopVars, userVars, historyVars>>

States == {"kConnecting", "kConnected", "kDisconnecting", "kDisconnected"}

\* The strings given to send, in the order of the calls.
Msgs == 1..MaxSends
NoMsg == 0

\* Mutation: connectDestroyed is bound to a bare `this` too.
OwningUntilRemoved == {"connectEstablished", "writeComplete", "highWater"}

\* Functors bound to a shared_ptr, and functors bound to a bare `this`.
Owning == {"connectEstablished", "connectDestroyed", "writeComplete", "highWater"}
Bare == {"sendInLoop", "shutdownInLoop"}

Functor(run) == [run |-> run, msg |-> NoMsg]
Functors == [run : Owning \cup Bare, msg : Msgs \cup {NoMsg}]

Idle == [at |-> "none", msg |-> NoMsg]

Bytes(msg) == [i \in 1..MsgLen |-> <<msg, i>>]
Lower(m, n) == IF m < n THEN m ELSE n
Rest(seq, n) == SubSeq(seq, n + 1, Len(seq))

\* The connection exists while anyone holds a shared_ptr: the map, a thread, a functor
\* of either loop, run or not as long as its batch lasts, or the handler being executed
\* (tie_'s guard). The base loop's batch may end as soon as removeConnectionInLoop has.
Alive ==
    \/ inMap
    \/ holders # {}
    \/ baseQueue > 0
    \/ frame # "none"
    \/ loopAt = "dispatch" /\ revents # {}
    \/ keeps
    \/ \E i \in 1..Len(ioQueue) : ioQueue[i].run \in Owning

-----------------------------------------------------------------------------
(* TcpServer::newConnection: constructed, in the map, connectEstablished   *)
(* queued in the IO loop.                                                  *)

Init ==
    /\ state_ = "kConnecting"
    /\ index = kNew /\ events = kNoneEvent
    /\ outputBuffer_ = <<>>
    /\ sent = <<>> /\ received = <<>>
    /\ finSent = FALSE
    /\ peer = "open"
    /\ inbound = FALSE
    /\ inMap = TRUE /\ serverUp = TRUE
    /\ baseQueue = 0
    /\ ioQueue = <<Functor("connectEstablished")>>
    /\ batch = 0 /\ keeps = FALSE
    /\ loopAt = "poll"
    /\ revents = {}
    /\ frame = "none"
    /\ calls = [t \in Threads |-> Idle]
    /\ holders = {}
    /\ sends = 0
    /\ accepted = <<>>
    /\ downs = 0
    /\ destroyed = 0
    /\ faults = {}

-----------------------------------------------------------------------------
(* Writing. These operators run in the IO loop's thread; queue is its      *)
(* queue as the caller leaves it.                                          *)

SetEvents(interest) ==
    /\ events' = interest
    /\ index' = IndexAfterUpdate(index, interest)

\* write() and writev() answer -1: EPIPE, with SIGPIPE, or once ECONNRESET.
WriteFails == finSent \/ peer \in {"reset", "gone"}

WriteError ==
    /\ peer' = IF peer = "reset" THEN "gone" ELSE peer
    /\ faults' = IF finSent /\ peer # "reset" THEN faults \cup {"writeAfterFin"} ELSE faults

Room == SendRoom - Len(sent)

\* Mutation: the whole message is buffered although its beginning was written.
BufferAll(data, n) == data

\* What is left of a message after n bytes of it were written.
Unwritten(data, n) == Rest(data, n)

CrossesHighWater(n) ==
    Len(outputBuffer_) < highWaterMark_ /\ Len(outputBuffer_) + n >= highWaterMark_

\* Mutation: the channel is not told to watch for room.
BufferUnwatched(rest, queue) ==
    /\ outputBuffer_' = outputBuffer_ \o rest
    /\ ioQueue' = IF CrossesHighWater(Len(rest))
                  THEN Append(queue, Functor("highWater")) ELSE queue
    /\ UNCHANGED channelVars

\* The end of sendInLoop: the rest goes to outputBuffer_ and the channel watches.
BufferRest(rest, queue) ==
    /\ outputBuffer_' = outputBuffer_ \o rest
    /\ ioQueue' = IF CrossesHighWater(Len(rest))
                  THEN Append(queue, Functor("highWater")) ELSE queue
    /\ IF "out" \in events
       THEN UNCHANGED channelVars
       ELSE SetEvents(events \cup kWriteEvent)

\* Mutation: a message is written at once even if earlier ones are still buffered.
WritesAlways == TRUE

WritesNow == "out" \notin events /\ outputBuffer_ = <<>>

Refuses == state_ = "kDisconnected"

\* sendInLoop.
SendInLoop(data, queue) ==
    \/ /\ Refuses
       /\ ioQueue' = queue
       /\ UNCHANGED <<channelVars, outputBuffer_, sent, peer, accepted, faults>>
    \/ /\ ~Refuses
       /\ WritesNow /\ WriteFails
       /\ WriteError
       /\ ioQueue' = queue
       /\ UNCHANGED <<channelVars, outputBuffer_, sent, accepted>>
    \/ /\ ~Refuses
       /\ WritesNow /\ ~WriteFails
       /\ LET n == Lower(Len(data), Room)
              rest == Unwritten(data, n)
          IN  /\ sent' = sent \o SubSeq(data, 1, n)
              /\ IF n = Len(data)
                 THEN /\ ioQueue' = Append(queue, Functor("writeComplete"))
                      /\ UNCHANGED <<channelVars, outputBuffer_>>
                 ELSE BufferRest(rest, queue)
       /\ accepted' = accepted \o data
       /\ UNCHANGED <<peer, faults>>
    \/ /\ ~Refuses
       /\ ~WritesNow
       /\ BufferRest(data, queue)
       /\ accepted' = accepted \o data
       /\ UNCHANGED <<sent, peer, faults>>

\* Mutation: the socket is shut down whether or not output is left.
ShutdownAtOnce(interest) == finSent' = (finSent \/ peer \notin {"reset", "gone"})

\* shutdownInLoop, with what the channel watches: shutdown(2) fails on a dead socket.
ShutdownInLoop(interest) ==
    finSent' = (finSent \/ ("out" \notin interest /\ peer \notin {"reset", "gone"}))

-----------------------------------------------------------------------------
(* EventLoop::loop in the IO loop's thread.                                *)

Readable == inbound \/ peer # "open"
Writable == Room > 0 \/ WriteFails

\* epoll_wait returns the channel; errors and hang-ups need no interest.
Active ==
    /\ Alive
    /\ index = kAdded
    /\ \/ "in" \in events /\ Readable
       \/ "out" \in events /\ Writable
       \/ peer \in {"reset", "gone"}
       \/ finSent /\ peer # "open"

\* revents_ is what the channel watches (see EPollPoller!Filled), so that handleEvent
\* runs the read callback, then the write callback, whichever of the two is due.
Poll ==
    /\ loopAt = "poll"
    /\ Active \/ ioQueue # <<>>
    /\ loopAt' = IF Active THEN "active" ELSE "dispatch"
    /\ revents' = IF Active THEN events ELSE {}
    /\ UNCHANGED <<state_, channelVars, outputBuffer_, socketVars, serverVars, ioQueue,
                   batch, keeps, frame, userVars, historyVars>>

\* Channel::handleEvent takes its guard. The active channel is part of the connection:
\* by then both may be gone.
HandleEvent ==
    /\ loopAt = "active"
    /\ loopAt' = "dispatch"
    /\ revents' = IF Alive THEN revents ELSE {}
    /\ faults' = IF Alive THEN faults ELSE faults \cup {"useAfterFree"}
    /\ UNCHANGED <<state_, channelVars, outputBuffer_, socketVars, serverVars, ioQueue,
                   batch, keeps, frame, userVars, accepted, downs, destroyed>>

Swap ==
    /\ loopAt = "dispatch" /\ revents = {} /\ frame = "none"
    /\ loopAt' = "functors"
    /\ batch' = Len(ioQueue)
    /\ keeps' = \E i \in 1..Len(ioQueue) : ioQueue[i].run \in Owning
    /\ UNCHANGED <<state_, channelVars, outputBuffer_, socketVars, serverVars, ioQueue,
                   revents, frame, userVars, historyVars>>

\* The end of doPendingFunctors: its local vector goes, with what the functors held.
FunctorsDone ==
    /\ loopAt = "functors" /\ batch = 0 /\ frame = "none"
    /\ loopAt' = "poll"
    /\ keeps' = FALSE
    /\ UNCHANGED <<state_, channelVars, outputBuffer_, socketVars, serverVars, ioQueue,
                   batch, revents, frame, userVars, historyVars>>

-----------------------------------------------------------------------------
(* The callbacks of the channel.                                           *)

HandlesRead ==
    /\ loopAt = "dispatch" /\ frame = "none"
    /\ "in" \in revents
    /\ revents' = revents \ {"in"}

\* handleRead, n > 0: messageCallback_ is user code. All that is there fits inputBuffer_.
HandleReadMessage ==
    /\ HandlesRead
    /\ inbound
    /\ inbound' = FALSE
    /\ frame' = "user"
    /\ UNCHANGED <<state_, channelVars, outputBuffer_, sent, received, finSent, peer,
                   serverVars, ioQueue, batch, keeps, loopAt, userVars, historyVars>>

\* handleRead, n < 0: ECONNRESET once, or EAGAIN because only room was reported.
HandleReadError ==
    /\ HandlesRead
    /\ ~inbound /\ peer \in {"open", "reset"}
    /\ peer' = IF peer = "reset" THEN "gone" ELSE peer
    /\ UNCHANGED <<state_, channelVars, outputBuffer_, sent, received, finSent, inbound,
                   serverVars, ioQueue, batch, keeps, loopAt, frame, userVars, historyVars>>

\* handleRead, n = 0: handleClose as far as connectionCallback_.
HandleClose ==
    /\ HandlesRead
    /\ ~inbound /\ peer \in {"halfClosed", "gone"}
    /\ state_' = "kDisconnected"
    /\ SetEvents(kNoneEvent)
    /\ downs' = downs + 1
    /\ frame' = "closing"
    /\ UNCHANGED <<outputBuffer_, socketVars, serverVars, ioQueue, batch, keeps, loopAt,
                   userVars, accepted, destroyed, faults>>

\* Mutation: handleClose does not call closeCallback_.
CloseCallbackMissing ==
    /\ frame = "closing"
    /\ frame' = "none"
    /\ UNCHANGED <<state_, channelVars, outputBuffer_, socketVars, serverVars, ioQueue,
                   batch, keeps, loopAt, revents, userVars, historyVars>>

\* The end of handleClose: closeCallback_ is TcpServer::removeConnection.
CloseCallback ==
    /\ frame = "closing"
    /\ frame' = "none"
    /\ baseQueue' = baseQueue + 1
    /\ UNCHANGED <<state_, channelVars, outputBuffer_, socketVars, inMap, serverUp,
                   ioQueue, batch, keeps, loopAt, revents, userVars, historyVars>>

HandlesWrite ==
    /\ loopAt = "dispatch" /\ frame = "none"
    /\ revents = {"out"}
    /\ revents' = {}
    /\ UNCHANGED <<state_, received, inbound, serverVars, batch, keeps, loopAt, frame,
                   userVars, accepted, downs, destroyed>>

\* handleWrite when the read callback has just disabled writing, or with n <= 0.
HandleWriteNothing ==
    /\ HandlesWrite
    /\ \/ "out" \notin events /\ UNCHANGED <<peer, faults>>
       \/ "out" \in events /\ WriteFails /\ WriteError
       \/ "out" \in events /\ ~WriteFails /\ Room = 0 /\ UNCHANGED <<peer, faults>>
    /\ UNCHANGED <<channelVars, outputBuffer_, sent, finSent, ioQueue>>

\* Mutation: the channel goes on watching for room.
DrainedKeepsWatching(rest) ==
    /\ ioQueue' = Append(ioQueue, Functor("writeComplete"))
    /\ IF state_ = "kDisconnecting"
       THEN ShutdownInLoop(kNoneEvent)
       ELSE UNCHANGED finSent
    /\ UNCHANGED channelVars

\* Mutation: the pending shutdown is forgotten.
DrainedForgetsShutdown(rest) ==
    /\ SetEvents(events \ kWriteEvent)
    /\ ioQueue' = Append(ioQueue, Functor("writeComplete"))
    /\ UNCHANGED finSent

\* The part of handleWrite that an emptied outputBuffer_ entails.
Drained(rest) ==
    /\ SetEvents(events \ kWriteEvent)
    /\ ioQueue' = Append(ioQueue, Functor("writeComplete"))
    /\ IF state_ = "kDisconnecting"
       THEN ShutdownInLoop(events \ kWriteEvent)
       ELSE UNCHANGED finSent

HandleWrite ==
    /\ HandlesWrite
    /\ "out" \in events
    /\ ~WriteFails /\ Room > 0 /\ outputBuffer_ # <<>>
    /\ LET n == Lower(Len(outputBuffer_), Room)
           rest == Rest(outputBuffer_, n)
       IN  /\ sent' = sent \o SubSeq(outputBuffer_, 1, n)
           /\ outputBuffer_' = rest
           /\ IF rest = <<>>
              THEN Drained(rest)
              ELSE UNCHANGED <<channelVars, ioQueue, finSent>>
    /\ UNCHANGED <<peer, faults>>

-----------------------------------------------------------------------------
(* User code called from the connection, in the IO loop's thread: the      *)
(* connection and message callbacks, and the two queued ones. What it      *)
(* calls runs inline, ahead of what other threads have queued.             *)

LoopSend ==
    /\ frame = "user"
    /\ state_ = "kConnected"
    /\ sends < MaxSends
    /\ sends' = sends + 1
    /\ SendInLoop(Bytes(sends'), ioQueue)
    /\ UNCHANGED <<state_, received, finSent, inbound, serverVars, loopVars, calls,
                   holders, downs, destroyed>>

LoopShutdown ==
    /\ frame = "user"
    /\ state_ = "kConnected"
    /\ state_' = "kDisconnecting"
    /\ ShutdownInLoop(events)
    /\ UNCHANGED <<channelVars, outputBuffer_, sent, received, peer, inbound, serverVars,
                   ioQueue, loopVars, userVars, historyVars>>

CallbackReturns ==
    /\ frame = "user"
    /\ frame' = "none"
    /\ UNCHANGED <<state_, channelVars, outputBuffer_, socketVars, serverVars, ioQueue,
                   batch, keeps, loopAt, revents, userVars, historyVars>>

-----------------------------------------------------------------------------
(* The functors, as doPendingFunctors comes to them.                       *)

Runs(run) ==
    /\ loopAt = "functors" /\ frame = "none"
    /\ batch > 0
    /\ Head(ioQueue).run = run
    /\ batch' = batch - 1
    /\ UNCHANGED <<keeps, loopAt, revents, received, inbound>>

\* A functor bound to `this` runs after the connection was deleted.
RunDangling ==
    /\ \E run \in Bare : Runs(run)
    /\ ~Alive
    /\ ioQueue' = Tail(ioQueue)
    /\ faults' = faults \cup {"useAfterFree"}
    /\ UNCHANGED <<state_, channelVars, outputBuffer_, sent, finSent, peer, serverVars,
                   frame, userVars, accepted, downs, destroyed>>

\* The functor holds a pointer into the string of send's caller, who is taken to keep it.
RunSendInLoop ==
    /\ Runs("sendInLoop")
    /\ Alive
    /\ SendInLoop(Bytes(Head(ioQueue).msg), Tail(ioQueue))
    /\ UNCHANGED <<state_, finSent, serverVars, frame, userVars, downs, destroyed>>

RunShutdownInLoop ==
    /\ Runs("shutdownInLoop")
    /\ Alive
    /\ ioQueue' = Tail(ioQueue)
    /\ ShutdownInLoop(events)
    /\ UNCHANGED <<state_, channelVars, outputBuffer_, sent, peer, serverVars, frame,
                   userVars, historyVars>>

\* connectEstablished; the user's connection callback may give the connection to
\* other threads.
RunConnectEstablished ==
    /\ Runs("connectEstablished")
    /\ ioQueue' = Tail(ioQueue)
    /\ state_' = "kConnected"
    /\ SetEvents(events \cup kReadEvent)
    /\ frame' = "user"
    /\ holders' = Threads
    /\ UNCHANGED <<outputBuffer_, sent, finSent, peer, serverVars, calls, sends,
                   historyVars>>

\* writeCompleteCallback_ and highWaterMarkCallback_.
RunUserCallback ==
    /\ Runs("writeComplete") \/ Runs("highWater")
    /\ ioQueue' = Tail(ioQueue)
    /\ frame' = "user"
    /\ UNCHANGED <<state_, channelVars, outputBuffer_, sent, finSent, peer, serverVars,
                   userVars, historyVars>>

\* Mutation: connectDestroyed does not look at state_.
DestroyAlways == TRUE

\* The test of state_ in connectDestroyed.
DestroyClosesFirst == state_ = "kConnected"

\* connectDestroyed up to the test of state_; without it, down to the end.
RunConnectDestroyed ==
    /\ Runs("connectDestroyed")
    /\ ioQueue' = Tail(ioQueue)
    /\ \/ /\ DestroyClosesFirst
          /\ frame' = "destroying"
          /\ UNCHANGED <<index, destroyed>>
       \/ /\ ~DestroyClosesFirst
          /\ index' = kNew
          /\ destroyed' = destroyed + 1
          /\ UNCHANGED frame
    /\ UNCHANGED <<state_, events, outputBuffer_, sent, finSent, peer, serverVars,
                   userVars, accepted, downs, faults>>

\* Mutation: connectDestroyed relies on remove() and leaves the interest as it is.
DestroyClosesWatching ==
    /\ frame = "destroying"
    /\ state_' = "kDisconnected"
    /\ downs' = downs + 1
    /\ frame' = "destroyed"
    /\ UNCHANGED <<channelVars, outputBuffer_, socketVars, serverVars, ioQueue, batch,
                   keeps, loopAt, revents, userVars, accepted, destroyed, faults>>

\* The branch of connectDestroyed, as far as connectionCallback_.
DestroyCloses ==
    /\ frame = "destroying"
    /\ state_' = "kDisconnected"
    /\ SetEvents(kNoneEvent)
    /\ downs' = downs + 1
    /\ frame' = "destroyed"
    /\ UNCHANGED <<outputBuffer_, socketVars, serverVars, ioQueue, batch, keeps, loopAt,
                   revents, userVars, accepted, destroyed, faults>>

\* The rest of it.
DestroyRemoves ==
    /\ frame = "destroyed"
    /\ index' = kNew
    /\ destroyed' = destroyed + 1
    /\ frame' = "none"
    /\ UNCHANGED <<state_, events, outputBuffer_, socketVars, serverVars, ioQueue, batch,
                   keeps, loopAt, revents, userVars, accepted, downs, faults>>

-----------------------------------------------------------------------------
(* The base loop.                                                          *)

\* removeConnectionInLoop.
RemoveConnectionInLoop ==
    /\ serverUp
    /\ baseQueue > 0
    /\ baseQueue' = baseQueue - 1
    /\ inMap' = FALSE
    /\ ioQueue' = Append(ioQueue, Functor("connectDestroyed"))
    /\ UNCHANGED <<state_, channelVars, outputBuffer_, socketVars, serverUp, loopVars,
                   userVars, historyVars>>

\* ~TcpServer, in the base loop's thread after it has left loop(): functors still
\* queued in the base loop are never run.
DestroyServer ==
    /\ serverUp
    /\ serverUp' = FALSE
    /\ inMap' = FALSE
    /\ ioQueue' = IF inMap THEN Append(ioQueue, Functor("connectDestroyed")) ELSE ioQueue
    /\ UNCHANGED <<state_, channelVars, outputBuffer_, socketVars, baseQueue, loopVars,
                   userVars, historyVars>>

-----------------------------------------------------------------------------
(* The user's threads. Each call tests state_ and acts on it later.        *)

CallGoes(t, from, to) ==
    /\ calls[t] = from
    /\ calls' = [calls EXCEPT ![t] = to]
    /\ UNCHANGED <<channelVars, outputBuffer_, socketVars, serverVars, loopVars,
                   historyVars>>

At(place) == [at |-> place, msg |-> NoMsg]
Sending(msg) == [at |-> "sending", msg |-> msg]

Send(t) ==
    /\ t \in holders
    /\ state_ = "kConnected"
    /\ sends < MaxSends
    /\ sends' = sends + 1
    /\ CallGoes(t, Idle, Sending(sends'))
    /\ UNCHANGED <<state_, ioQueue, holders>>

SendQueues(t) ==
    \E msg \in Msgs :
        /\ CallGoes(t, Sending(msg), Idle)
        /\ ioQueue' = Append(ioQueue, [run |-> "sendInLoop", msg |-> msg])
        /\ UNCHANGED <<state_, holders, sends>>

Shutdown(t) ==
    /\ t \in holders
    /\ state_ = "kConnected"
    /\ CallGoes(t, Idle, At("shutdown"))
    /\ UNCHANGED <<state_, ioQueue, holders, sends>>

ShutdownSets(t) ==
    /\ CallGoes(t, At("shutdown"), At("shutdownSet"))
    /\ state_' = "kDisconnecting"
    /\ UNCHANGED <<ioQueue, holders, sends>>

ShutdownQueues(t) ==
    /\ CallGoes(t, At("shutdownSet"), Idle)
    /\ ioQueue' = Append(ioQueue, Functor("shutdownInLoop"))
    /\ UNCHANGED <<state_, holders, sends>>

\* The thread drops its shared_ptr.
Release(t) ==
    /\ t \in holders
    /\ calls[t] = Idle
    /\ KeepsReferences => \A i \in 1..Len(ioQueue) : ioQueue[i].run \notin Bare
    /\ holders' = holders \ {t}
    /\ UNCHANGED <<state_, channelVars, outputBuffer_, socketVars, serverVars, ioQueue,
                   loopVars, calls, sends, historyVars>>

-----------------------------------------------------------------------------
(* The peer.                                                               *)

PeerActs ==
    UNCHANGED <<state_, channelVars, outputBuffer_, finSent, serverVars, ioQueue,
                loopVars, userVars, historyVars>>

PeerSends ==
    /\ peer = "open"
    /\ inbound' = TRUE
    /\ UNCHANGED <<sent, received, peer>> /\ PeerActs

PeerReads ==
    /\ peer \in {"open", "halfClosed"}
    /\ sent # <<>>
    /\ received' = Append(received, Head(sent))
    /\ sent' = Tail(sent)
    /\ UNCHANGED <<peer, inbound>> /\ PeerActs

\* A FIN arrives: the peer has closed its end, or its half of it.
PeerCloses ==
    /\ peer = "open"
    /\ peer' = "halfClosed"
    /\ UNCHANGED <<sent, received, inbound>> /\ PeerActs

\* A RST arrives and the kernel drops what it had to send.
PeerResets ==
    /\ peer \in {"open", "halfClosed"}
    /\ peer' = "reset"
    /\ sent' = <<>>
    /\ UNCHANGED <<received, inbound>> /\ PeerActs

-----------------------------------------------------------------------------
DispatchStep ==
    \/ HandleReadMessage \/ HandleReadError \/ HandleClose
    \/ HandleWriteNothing \/ HandleWrite
    \/ CloseCallback

FunctorStep ==
    \/ RunDangling \/ RunSendInLoop \/ RunShutdownInLoop
    \/ RunConnectEstablished \/ RunUserCallback
    \/ RunConnectDestroyed \/ DestroyCloses \/ DestroyRemoves

LoopStep ==
    \/ Poll \/ HandleEvent \/ Swap \/ FunctorsDone
    \/ DispatchStep \/ FunctorStep \/ CallbackReturns

CallStep(t) == SendQueues(t) \/ ShutdownSets(t) \/ ShutdownQueues(t)

Next ==
    \/ LoopStep
    \/ LoopSend \/ LoopShutdown
    \/ RemoveConnectionInLoop \/ DestroyServer
    \/ \E t \in Threads :
           \/ Send(t) \/ Shutdown(t) \/ CallStep(t) \/ Release(t)
    \/ PeerSends \/ PeerReads \/ PeerCloses \/ PeerResets

Spec == Init /\ [][Next]_vars

\* Both loops run, calls that have begun end, and the peer reads what it is sent.
FairSpec ==
    /\ Spec
    /\ WF_vars(LoopStep)
    /\ WF_vars(RemoveConnectionInLoop)
    /\ \A t \in Threads : WF_vars(CallStep(t))
    /\ WF_vars(PeerReads)

-----------------------------------------------------------------------------
(* Invariants.                                                             *)

Byte == Msgs \X (1..MsgLen)

TypeOK ==
    /\ state_ \in States
    /\ index \in {kNew, kAdded, kDeleted}
    /\ events \subseteq kReadEvent \cup kWriteEvent
    /\ outputBuffer_ \in Seq(Byte)
    /\ sent \in Seq(Byte) /\ Len(sent) <= SendRoom
    /\ received \in Seq(Byte)
    /\ finSent \in BOOLEAN
    /\ peer \in {"open", "halfClosed", "reset", "gone"}
    /\ inbound \in BOOLEAN
    /\ inMap \in BOOLEAN /\ serverUp \in BOOLEAN
    /\ baseQueue \in Nat
    /\ ioQueue \in Seq(Functors)
    /\ batch \in 0..Len(ioQueue) /\ keeps \in BOOLEAN
    /\ loopAt \in {"poll", "active", "dispatch", "functors"}
    /\ revents \subseteq kReadEvent \cup kWriteEvent
    /\ frame \in {"none", "user", "closing", "destroying", "destroyed"}
    /\ calls \in [Threads -> {Idle, At("shutdown"), At("shutdownSet")}
                             \cup {Sending(msg) : msg \in Msgs}]
    /\ holders \subseteq Threads
    /\ sends \in 0..MaxSends
    /\ accepted \in Seq(Byte)
    /\ downs \in Nat /\ destroyed \in Nat
    /\ faults \subseteq {"writeAfterFin", "useAfterFree"}

\* The user hears of the end of a connection at most once, and the connection is taken
\* out of the poller for good at most once, whichever of the peer, the user, the base
\* loop and the server's destructor are involved and however they overlap.
ClosedOnce == downs <= 1 /\ destroyed <= 1

\* Bytes are neither lost, repeated nor reordered between sendInLoop and the peer:
\* partial writes, EAGAIN and the buffer in between do not show.
StreamIntact ==
    /\ SubSeq(accepted, 1, Len(received)) = received
    /\ peer \in {"open", "halfClosed"} => received \o sent \o outputBuffer_ = accepted

\* While the connection has not been closed, the channel watches for room exactly when
\* there is something to write: no output is stuck, and no callback runs for nothing.
WatchesIffOutput ==
    (downs = 0 /\ destroyed = 0) => ("out" \in events <=> outputBuffer_ # <<>>)

\* The FIN follows everything sendInLoop accepted before it: while the connection has
\* not been closed, a socket that is shut down has no output behind it.
FinIsLast == (finSent /\ downs = 0 /\ destroyed = 0) => outputBuffer_ = <<>>

\* The poller never points to a channel that was deleted: until connectDestroyed has
\* removed the channel, somebody holds the connection.
PollerPointsToAlive == (index # kNew /\ destroyed = 0) => Alive

\* connectDestroyed removes the channel of a closed connection for good
\* (TcpConnection.cpp:194, Channel.h:58). It does not: shutdown() sets state_ after testing
\* it, so that it may overwrite kDisconnected, and a sendInLoop that is still queued then
\* enables writing again.
RemovedForGood == (downs > 0 /\ destroyed > 0) => index = kNew

\* sendInLoop does not write once the connection was shut down (TcpConnection.cpp:61,
\* 77-79). It does: the only state it refuses is kDisconnected.
NoWriteAfterFin == "writeAfterFin" \notin faults

\* A functor never runs on a connection that was deleted, if no user removes it from
\* the server (TcpConnection.cpp:60, 62). It does, without any such user.
NoUseAfterFree == "useAfterFree" \notin faults

-----------------------------------------------------------------------------
(* Properties of behaviours.                                               *)

\* After the user was told of the end of the connection no message reaches it any more,
\* though data of the peer may be left in the socket, and though sends queued before the
\* end may put the channel back into the poller (see RemovedForGood).
NoMessageAfterDown == [][(downs > 0 /\ inbound) => inbound']_vars

\* The end of the connection, or of the server: its destructor quits the IO loops, which
\* need not run what is queued then.
Ends == downs > 0 \/ destroyed > 0 \/ ~serverUp

\* shutdown() leads to a FIN, after whatever output was pending, unless the connection
\* or the server ends first.
ShutdownCompletes == (state_ = "kDisconnecting") ~> (finSent \/ Ends)

\* Once the peer has closed or reset the connection, the map lets go of it and its
\* channel leaves the poller, unless the server goes down in between.
CloseCompletes == (peer # "open") ~> ((destroyed > 0 /\ ~inMap) \/ ~serverUp)

\* Output that is buffered gets written if the peer keeps reading.
OutputDrains == (outputBuffer_ # <<>>) ~> (outputBuffer_ = <<>> \/ Ends)
=============================================================================
