------------------------------ MODULE TcpServer ------------------------------
(***************************************************************************)
(* TcpServer with its Acceptor, its EventLoopThreadPool and the loops they *)
(* run on (TcpServer.cpp, Accept.cpp, Socket.cpp, EventLoopThreadPool.cpp):*)
(* which loop a connection belongs to, who holds a reference to it, and    *)
(* how it leaves: the peer closes it, or the server is destroyed.          *)
(*                                                                         *)
(* A loop is a queue and a place in its round; that no wakeup is lost is   *)
(* EventLoop's to show. Messages, and the race of the two ends to close a  *)
(* connection, are TcpConnection's. The user keeps no connection, quits no *)
(* loop but the base loop, and destroys the server in the base loop's      *)
(* thread once that loop has ended, as test_TcpServer.cpp does.            *)
(***************************************************************************)
EXTENDS Integers, Sequences, FiniteSets, Functions, Channel

CONSTANTS
    MaxThreads,     \* setThreadNum is given at most this
    MaxFds,         \* how many connections the descriptor limit leaves room for
    MaxConns,       \* bound: how many peers connect
    MaxStarts       \* bound: how often start() is called

ASSUME LimitsAssumption ==
    /\ MaxThreads \in Nat
    /\ MaxFds \in Nat \ {0}
    /\ MaxConns \in Nat
    /\ MaxStarts \in Nat

VARIABLES
    numThreads_, next_,     \* of the pool
    started_, listenning_,
    conns,                  \* the connections made so far, by the number in their name
    connectionMap_,         \* the numbers of those the map holds
    starter,                \* the thread inside the first start(), or "none"
    serverAt,               \* "up", "destroying" or "gone"
    backlog,                \* how many peers wait to be accepted
    loopAt, quit_, active, pendingFunctors_,
    functors, ran,          \* the batch of doPendingFunctors, and how much of it has run
    dropped                 \* history: connections a functor of which a loop took with it

serverVars == <<numThreads_, next_, started_, listenning_, connectionMap_, starter, serverAt>>
loopVars == <<loopAt, quit_, active, pendingFunctors_, functors, ran, dropped>>
vars == <<serverVars, conns, backlog, loopVars>>

Base == 0
Loops == 0..MaxThreads
IOLoops == 1..numThreads_
ConnIds == 1..Len(conns)
Acceptor == 0           \* acceptChannel_, where a connection's number stands for its channel

Functor(run, c) == [run |-> run, conn |-> c]

\* The functors a loop holds. doPendingFunctors destroys its batch when all of it has run.
Held(l) == Range(pendingFunctors_[l]) \cup Range(functors[l])

\* A connection lives while the map or a functor points to it; its destructor closes its
\* descriptor.
Alive(c) == c \in connectionMap_ \/ \E l \in Loops : \E f \in Held(l) : f.conn = c
FdsInUse == Cardinality({c \in ConnIds : Alive(c)})

\* Whether accept4 finds a descriptor.
DescriptorLeft == FdsInUse < MaxFds

Init ==
    /\ numThreads_ \in 0..MaxThreads
    /\ next_ = 0
    /\ started_ = 0
    /\ listenning_ = FALSE
    /\ conns = <<>>
    /\ connectionMap_ = {}
    /\ starter = "none"
    /\ serverAt = "up"
    /\ backlog = 0
    /\ loopAt = [l \in Loops |-> "none"]
    /\ quit_ = [l \in Loops |-> FALSE]
    /\ active = [l \in Loops |-> {}]
    /\ pendingFunctors_ = [l \in Loops |-> <<>>]
    /\ functors = [l \in Loops |-> <<>>]
    /\ ran = [l \in Loops |-> 0]
    /\ dropped = {}

-----------------------------------------------------------------------------
(* What a connection's own code does to it, on its loop.                   *)

Established(cs, c) ==
    [cs EXCEPT ![c].state_ = "kConnected",
               ![c].index = IndexAfterUpdate(@, kReadEvent),
               ![c].told = Append(@, "up")]

Destroyed(cs, c) ==
    IF cs[c].state_ = "kConnected"
    THEN [cs EXCEPT ![c].state_ = "kDisconnected",
                    ![c].index = kNew,
                    ![c].told = Append(@, "down")]
    ELSE [cs EXCEPT ![c].index = kNew]

\* handleClose up to closeCallback_.
Closed(cs, c) ==
    [cs EXCEPT ![c].state_ = "kDisconnected",
               ![c].index = IndexAfterUpdate(@, kNoneEvent),
               ![c].told = Append(@, "down")]

\* Functors are queued, in order, on loop l.
Queue(l, fs) == pendingFunctors_' = [pendingFunctors_ EXCEPT ![l] = @ \o fs]

-----------------------------------------------------------------------------
(* start(), and the base loop's thread before loop().                      *)

\* started_++ == 0: only the first call does anything.
Start(thread) ==
    /\ serverAt = "up"
    /\ started_ < MaxStarts
    /\ thread = "base" => loopAt[Base] = "none" /\ starter # "base"
    /\ started_' = started_ + 1
    /\ starter' = IF started_ = 0 THEN thread ELSE starter
    /\ UNCHANGED <<numThreads_, next_, listenning_, connectionMap_, serverAt,
                   conns, backlog, loopVars>>

\* EventLoopThreadPool::start: startLoop returns once the loop is there.
PoolStarts(l) ==
    /\ starter # "none"
    /\ loopAt[l] = "none"
    /\ \A k \in IOLoops : k < l => loopAt[k] # "none"
    /\ loopAt' = [loopAt EXCEPT ![l] = "poll"]
    /\ UNCHANGED <<serverVars, conns, backlog, quit_, active, pendingFunctors_,
                   functors, ran, dropped>>

\* The end of start(): runInLoop(listenFd).
StartListening ==
    /\ starter # "none"
    /\ \A l \in IOLoops : loopAt[l] # "none"
    /\ starter' = "none"
    /\ IF starter = "base"
       THEN listenning_' = TRUE /\ UNCHANGED pendingFunctors_
       ELSE Queue(Base, <<Functor("listenFd", Acceptor)>>) /\ UNCHANGED listenning_
    /\ UNCHANGED <<numThreads_, next_, started_, connectionMap_, serverAt, conns,
                   backlog, loopAt, quit_, active, functors, ran, dropped>>

EnterLoop ==
    /\ loopAt[Base] = "none"
    /\ starter # "base"
    /\ loopAt' = [loopAt EXCEPT ![Base] = "poll"]
    /\ UNCHANGED <<serverVars, conns, backlog, quit_, active, pendingFunctors_,
                   functors, ran, dropped>>

-----------------------------------------------------------------------------
(* A round of a loop.                                                      *)

\* The channels epoll_wait reports. The listening socket is reported as long as a peer
\* waits, a connection as long as its peer has closed it and it watches.
Ready(l) ==
    {c \in ConnIds : conns[c].loop = l /\ conns[c].index = kAdded /\ conns[c].peerClosed}
        \cup {a \in {Acceptor} : l = Base /\ listenning_ /\ backlog > 0}

\* Rounds in which there is nothing to do are left out.
Poll(l) ==
    /\ loopAt[l] = "poll"
    /\ Ready(l) # {} \/ pendingFunctors_[l] # <<>> \/ quit_[l]
    /\ loopAt' = [loopAt EXCEPT ![l] = "dispatch"]
    /\ active' = [active EXCEPT ![l] = Ready(l)]
    /\ UNCHANGED <<serverVars, conns, backlog, quit_, pendingFunctors_, functors, ran, dropped>>

Dispatches(l, channel) ==
    /\ loopAt[l] = "dispatch"
    /\ channel \in active[l]
    /\ active' = [active EXCEPT ![l] = @ \ {channel}]

\* Mutation: the first loop is always taken.
GetNextLoopFirst == IF numThreads_ = 0 THEN <<Base, next_>> ELSE <<1, next_>>

\* Mutation: the index is wrapped one connection late.
GetNextLoopLate ==
    IF numThreads_ = 0 THEN <<Base, next_>>
    ELSE <<next_ + 1, IF next_ + 1 > numThreads_ THEN 0 ELSE next_ + 1>>

\* getNextLoop: the loop, and next_ after it.
GetNextLoop ==
    IF numThreads_ = 0 THEN <<Base, next_>>
    ELSE <<next_ + 1, IF next_ + 1 >= numThreads_ THEN 0 ELSE next_ + 1>>

\* newConnection: the connection is in the map before its loop knows of it.
NewConnection ==
    LET io == GetNextLoop[1]
        c == Len(conns) + 1
        made == Append(conns, [state_ |-> "kConnecting", loop |-> io, index |-> kNew,
                               told |-> <<>>, peerClosed |-> FALSE])
    IN  /\ next_' = GetNextLoop[2]
        /\ connectionMap_' = connectionMap_ \cup {c}
        /\ IF io = Base
           THEN conns' = Established(made, c) /\ UNCHANGED pendingFunctors_
           ELSE conns' = made /\ Queue(io, <<Functor("connectEstablished", c)>>)

\* Acceptor::handleRead takes one peer a round.
Accept ==
    /\ Dispatches(Base, Acceptor)
    /\ DescriptorLeft
    /\ NewConnection
    /\ backlog' = backlog - 1
    /\ UNCHANGED <<numThreads_, started_, listenning_, starter, serverAt, loopAt, quit_,
                   functors, ran, dropped>>

\* Mutation: an acceptor without descriptors stops listening.
AcceptFailsForGood ==
    /\ Dispatches(Base, Acceptor)
    /\ ~DescriptorLeft
    /\ listenning_' = FALSE
    /\ UNCHANGED <<numThreads_, next_, started_, connectionMap_, starter, serverAt, conns,
                   backlog, loopAt, quit_, pendingFunctors_, functors, ran, dropped>>

\* accept fails with EMFILE: the peer goes on waiting and the socket goes on being ready.
AcceptFails ==
    /\ Dispatches(Base, Acceptor)
    /\ ~DescriptorLeft
    /\ UNCHANGED <<serverVars, conns, backlog, loopAt, quit_, pendingFunctors_,
                   functors, ran, dropped>>

\* Mutation: erase is all that removing takes.
RemovedWithoutDestroying(c) ==
    /\ connectionMap_' = connectionMap_ \ {c}
    /\ UNCHANGED pendingFunctors_

\* removeConnectionInLoop: the reference passes from the map to the connection's loop.
RemoveConnectionInLoop(c) ==
    /\ connectionMap_' = connectionMap_ \ {c}
    /\ Queue(conns[c].loop, <<Functor("connectDestroyed", c)>>)

\* Mutation: nobody set closeCallback_.
RemoveConnectionMissing(l, c) == UNCHANGED <<connectionMap_, pendingFunctors_>>

\* removeConnection, called in loop l.
RemoveConnection(l, c) ==
    IF l = Base
    THEN RemoveConnectionInLoop(c)
    ELSE Queue(Base, <<Functor("removeConnectionInLoop", c)>>) /\ UNCHANGED connectionMap_

\* A connection's channel finds that its peer has closed: TcpConnection::handleClose.
HandleClose(l, c) ==
    /\ Dispatches(l, c)
    /\ c # Acceptor
    /\ conns' = Closed(conns, c)
    /\ RemoveConnection(l, c)
    /\ UNCHANGED <<numThreads_, next_, started_, listenning_, starter, serverAt, backlog,
                   loopAt, quit_, functors, ran, dropped>>

SwapFunctors(l) ==
    /\ loopAt[l] = "dispatch"
    /\ active[l] = {}
    /\ loopAt' = [loopAt EXCEPT ![l] = "functors"]
    /\ functors' = [functors EXCEPT ![l] = pendingFunctors_[l]]
    /\ pendingFunctors_' = [pendingFunctors_ EXCEPT ![l] = <<>>]
    /\ UNCHANGED <<serverVars, conns, backlog, quit_, active, ran, dropped>>

\* The next functor of the batch is run, on connection c.
Runs(l, run, c) ==
    /\ loopAt[l] = "functors"
    /\ ran[l] < Len(functors[l])
    /\ functors[l][ran[l] + 1] = Functor(run, c)
    /\ ran' = [ran EXCEPT ![l] = @ + 1]
    /\ UNCHANGED <<numThreads_, next_, started_, starter, serverAt, backlog,
                   loopAt, quit_, active, functors, dropped>>

RunListenFd(l) ==
    /\ Runs(l, "listenFd", Acceptor)
    /\ listenning_' = TRUE
    /\ UNCHANGED <<conns, connectionMap_, pendingFunctors_>>

RunConnectEstablished(l, c) ==
    /\ Runs(l, "connectEstablished", c)
    /\ conns' = Established(conns, c)
    /\ UNCHANGED <<listenning_, connectionMap_, pendingFunctors_>>

RunConnectDestroyed(l, c) ==
    /\ Runs(l, "connectDestroyed", c)
    /\ conns' = Destroyed(conns, c)
    /\ UNCHANGED <<listenning_, connectionMap_, pendingFunctors_>>

RunRemoveConnection(l, c) ==
    /\ Runs(l, "removeConnectionInLoop", c)
    /\ RemoveConnectionInLoop(c)
    /\ UNCHANGED <<listenning_, conns>>

\* The end of a round. An IO loop that leaves loop() is destroyed with its thread's
\* function, and what was queued since its last swap with it.
EndRound(l) ==
    /\ loopAt[l] = "functors"
    /\ ran[l] = Len(functors[l])
    /\ functors' = [functors EXCEPT ![l] = <<>>]
    /\ ran' = [ran EXCEPT ![l] = 0]
    /\ loopAt' = [loopAt EXCEPT ![l] = IF quit_[l] THEN "ended" ELSE "poll"]
    /\ IF quit_[l] /\ l # Base
       THEN /\ pendingFunctors_' = [pendingFunctors_ EXCEPT ![l] = <<>>]
            /\ dropped' = dropped \cup {f.conn : f \in Range(pendingFunctors_[l])}
       ELSE UNCHANGED <<pendingFunctors_, dropped>>
    /\ UNCHANGED <<serverVars, conns, backlog, quit_, active>>

-----------------------------------------------------------------------------
(* The end of the server.                                                  *)

QuitBase ==
    /\ loopAt[Base] \notin {"none", "ended", "freed"}
    /\ ~quit_[Base]
    /\ quit_' = [quit_ EXCEPT ![Base] = TRUE]
    /\ UNCHANGED <<serverVars, conns, backlog, loopAt, active, pendingFunctors_,
                   functors, ran, dropped>>

Destroy ==
    /\ serverAt = "up"
    /\ loopAt[Base] = "ended"
    /\ starter = "none"
    /\ serverAt' = "destroying"
    /\ UNCHANGED <<numThreads_, next_, started_, listenning_, connectionMap_, starter,
                   conns, backlog, loopVars>>

\* Mutation: the destructor leaves the map to destroy its references.
DestroyConnectionDropping(c) ==
    /\ serverAt = "destroying"
    /\ c \in connectionMap_
    /\ connectionMap_' = connectionMap_ \ {c}
    /\ UNCHANGED <<numThreads_, next_, started_, listenning_, starter, serverAt, conns,
                   backlog, loopVars>>

\* One turn of ~TcpServer's loop over the map: runInLoop(connectDestroyed).
DestroyConnection(c) ==
    /\ serverAt = "destroying"
    /\ c \in connectionMap_
    /\ connectionMap_' = connectionMap_ \ {c}
    /\ IF conns[c].loop = Base
       THEN conns' = Destroyed(conns, c) /\ UNCHANGED pendingFunctors_
       ELSE Queue(conns[c].loop, <<Functor("connectDestroyed", c)>>) /\ UNCHANGED conns
    /\ UNCHANGED <<numThreads_, next_, started_, listenning_, starter, serverAt, backlog,
                   loopAt, quit_, active, functors, ran, dropped>>

\* Mutation: ~EventLoopThread does not join.
PoolHasEndedUpToUnjoined(n) == \A l \in 1..n : loopAt[l] = "none" \/ quit_[l]

\* The first n threads of the pool are joined (or were never started).
PoolHasEndedUpTo(n) == \A l \in 1..n : loopAt[l] \in {"none", "ended"}

\* The pool is destroyed after the map: ~EventLoopThread of one thread after the other.
PoolQuits(l) ==
    /\ serverAt = "destroying"
    /\ connectionMap_ = {}
    /\ loopAt[l] # "none"
    /\ ~quit_[l]
    /\ PoolHasEndedUpTo(l - 1)
    /\ quit_' = [quit_ EXCEPT ![l] = TRUE]
    /\ UNCHANGED <<serverVars, conns, backlog, loopAt, active, pendingFunctors_,
                   functors, ran, dropped>>

\* The acceptor goes last, with its channel and its socket.
DestroyAcceptor ==
    /\ serverAt = "destroying"
    /\ connectionMap_ = {}
    /\ PoolHasEndedUpTo(numThreads_)
    /\ serverAt' = "gone"
    /\ listenning_' = FALSE
    /\ UNCHANGED <<numThreads_, next_, started_, connectionMap_, starter, conns, backlog,
                   loopVars>>

FreeBaseLoop ==
    /\ serverAt = "gone"
    /\ loopAt[Base] = "ended"
    /\ loopAt' = [loopAt EXCEPT ![Base] = "freed"]
    /\ pendingFunctors_' = [pendingFunctors_ EXCEPT ![Base] = <<>>]
    /\ UNCHANGED <<serverVars, conns, backlog, quit_, active, functors, ran, dropped>>

-----------------------------------------------------------------------------
(* The peers, and the user.                                                *)

\* Before listen() and after the socket is closed the kernel refuses.
PeerConnects ==
    /\ listenning_
    /\ Len(conns) + backlog < MaxConns
    /\ backlog' = backlog + 1
    /\ UNCHANGED <<serverVars, conns, loopVars>>

PeerCloses(c) ==
    /\ Alive(c)
    /\ ~conns[c].peerClosed
    /\ conns' = [conns EXCEPT ![c].peerClosed = TRUE]
    /\ UNCHANGED <<serverVars, backlog, loopVars>>

\* TcpConnection::shutdown.
Shutdown(c) ==
    /\ Alive(c)
    /\ conns[c].state_ = "kConnected"
    /\ conns' = [conns EXCEPT ![c].state_ = "kDisconnecting"]
    /\ UNCHANGED <<serverVars, backlog, loopVars>>

-----------------------------------------------------------------------------

Starting ==
    \/ \E l \in IOLoops : PoolStarts(l)
    \/ StartListening

LoopStep(l) ==
    \/ Poll(l)
    \/ l = Base /\ (Accept \/ AcceptFails)
    \/ RunListenFd(l)
    \/ \E c \in ConnIds :
           \/ HandleClose(l, c)
           \/ RunConnectEstablished(l, c)
           \/ RunConnectDestroyed(l, c)
           \/ RunRemoveConnection(l, c)
    \/ SwapFunctors(l)
    \/ EndRound(l)

Destroying ==
    \/ Destroy
    \/ \E c \in connectionMap_ : DestroyConnection(c)
    \/ \E l \in IOLoops : PoolQuits(l)
    \/ DestroyAcceptor
    \/ FreeBaseLoop

Next ==
    \/ \E thread \in {"base", "other"} : Start(thread)
    \/ Starting
    \/ EnterLoop
    \/ \E l \in Loops : LoopStep(l)
    \/ QuitBase
    \/ Destroying
    \/ PeerConnects
    \/ \E c \in ConnIds : PeerCloses(c) \/ Shutdown(c)

Spec == Init /\ [][Next]_vars

\* Every thread that has something to do does it: a start that has begun, the base
\* thread on its way into loop(), and each loop. Nobody need connect, close, call
\* start() or quit, and nothing is assumed of the destructor.
Fairness ==
    /\ WF_vars(Starting)
    /\ WF_vars(EnterLoop)
    /\ \A l \in Loops : WF_vars(LoopStep(l))

FairSpec == Spec /\ Fairness

-----------------------------------------------------------------------------
(* Properties.                                                             *)

Connection ==
    [state_ : {"kConnecting", "kConnected", "kDisconnecting", "kDisconnected"},
     loop : Base..numThreads_,
     index : {kNew, kAdded, kDeleted},
     told : {<<>>, <<"up">>, <<"up", "down">>},
     peerClosed : BOOLEAN]

Functors ==
    [run : {"listenFd", "connectEstablished", "connectDestroyed", "removeConnectionInLoop"},
     conn : {Acceptor} \cup ConnIds]

\* Besides types: the user is told "up" once, then "down" at most once, whatever closes
\* the connection; getNextLoop never indexes past eventLoops_ (EventLoopThreadPool.cpp:39).
TypeOK ==
    /\ numThreads_ \in 0..MaxThreads
    /\ next_ \in 0..MaxThreads
    /\ numThreads_ > 0 => next_ < numThreads_
    /\ started_ \in 0..MaxStarts
    /\ listenning_ \in BOOLEAN
    /\ conns \in Seq(Connection)
    /\ connectionMap_ \in SUBSET ConnIds
    /\ starter \in {"none", "base", "other"}
    /\ serverAt \in {"up", "destroying", "gone"}
    /\ backlog \in 0..MaxConns
    /\ loopAt \in [Loops -> {"none", "poll", "dispatch", "functors", "ended", "freed"}]
    /\ quit_ \in [Loops -> BOOLEAN]
    /\ active \in [Loops -> SUBSET ({Acceptor} \cup ConnIds)]
    /\ pendingFunctors_ \in [Loops -> Seq(Functors)]
    /\ functors \in [Loops -> Seq(Functors)]
    /\ ran \in [Loops -> Nat]
    /\ dropped \in SUBSET ConnIds

\* As long as a loop is there, the channels its poller knows are those of connections
\* that live, and so are those it still has to dispatch, whatever ran in between: the
\* reference that removeConnectionInLoop and ~TcpServer hand to the loop outlives the
\* channel's registration (TcpServer.cpp:49, 126, EventLoop.cpp:91-97).
PollersHoldLiveChannels ==
    /\ \A c \in ConnIds :
          (conns[c].index # kNew /\ loopAt[conns[c].loop] \notin {"ended", "freed"})
              => Alive(c)
    /\ \A l \in Loops : \A c \in active[l] \ {Acceptor} : Alive(c)

\* When the server is gone, the user has been told of the end of every connection.
\* Two exceptions are the code's: a loop that quits drops the connectDestroyed that was
\* queued after its last swap (EventLoop.cpp:101), and connectDestroyed says nothing of
\* a connection that is shutting down (TcpConnection.cpp:186).
EndIsTold ==
    serverAt = "gone" =>
        \A c \in ConnIds :
            \/ conns[c].told = <<"up", "down">>
            \/ c \in dropped
            \/ conns[c].state_ = "kDisconnecting"

\* closeCallback_ and the functors of the base loop hold the server's bare this
\* (TcpServer.cpp:107, 116): once it is gone, no loop runs that could use it.
ServerOutlivesItsUsers ==
    serverAt = "gone" => \A l \in Loops : loopAt[l] \in {"none", "ended", "freed"}

Load(l) == Cardinality({c \in ConnIds : conns[c].loop = l})

\* The loops of the pool get the same number of connections, give or take one.
Balanced ==
    \A k, l \in IOLoops : Load(k) <= Load(l) + 1

\* A connection whose peer has closed is forgotten by everyone and its descriptor is
\* free again, unless the base loop quits first.
ClosedIsReleased ==
    \A c \in 1..MaxConns :
        (c \in ConnIds /\ conns[c].peerClosed) ~> (~Alive(c) \/ quit_[Base])

\* A peer that waits while there is a descriptor for it is accepted, even after accepts
\* that failed for want of one.
PendingIsAccepted ==
    (backlog > 0 /\ DescriptorLeft) ~> (backlog = 0 \/ ~DescriptorLeft \/ quit_[Base])
=============================================================================
