----------------------------- MODULE EPollPoller -----------------------------
(***************************************************************************)
(* EPollPoller (EPollPoller.cpp, Poller.cpp) with the channels registered  *)
(* in it (Channel.h, Channel.cpp) and the kernel's epoll instance. All of  *)
(* it runs in the thread of one loop; the sockets change by themselves.    *)
(*                                                                         *)
(* Three records of the same fact have to agree: index_ in the channel,    *)
(* channels_ in the poller, and the tree in the kernel.                    *)
(***************************************************************************)
EXTENDS Channel, FiniteSets, FiniteSetsExt, Functions

CONSTANTS
    Channels,             \* names for Channel objects; a name is reused by a later object
    Fds,                  \* descriptor numbers; the kernel hands a closed one out again
    kInitEventListSize    \* the initial size of epollEvents_

ASSUME SizeAssumption == kInitEventListSize \in Nat \ {0}

\* EPOLLHUP and EPOLLERR, which a reset brings together, are reported without being
\* asked for: one event stands for both.
Unasked == {"hup"}
Events == kReadEvent \cup kWriteEvent \cup Unasked

VARIABLES
    channel,        \* the Channel objects that exist: their fd_, events_ and index_
    channels_,      \* the poller's map from descriptors to channels
    tree,           \* the kernel's: descriptor -> interest and data.ptr
    ready,          \* the kernel's: the events each descriptor is ready for
    listSize,       \* epollEvents_.size()
    activeChannels_,\* the channels poll returned and the loop has not dispatched yet,
                    \* with their revents_ and the events epoll_wait reported
    ctlFailed       \* epoll_ctl failed for an ADD or a MOD: LOG_FATAL

vars == <<channel, channels_, tree, ready, listSize, activeChannels_, ctlFailed>>

owned == DOMAIN channel
active == DOMAIN activeChannels_
fd(c) == channel[c].fd

Without(map, x) == Restrict(map, DOMAIN map \ {x})
With(map, x, value) == [y \in DOMAIN map \cup {x} |-> IF y = x THEN value ELSE map[y]]

-----------------------------------------------------------------------------
Init ==
    /\ channel = <<>>
    /\ channels_ = <<>>
    /\ tree = <<>>
    /\ ready = [f \in Fds |-> {}]
    /\ listSize = kInitEventListSize
    /\ activeChannels_ = <<>>
    /\ ctlFailed = FALSE

-----------------------------------------------------------------------------
(* The owners of channels.                                                 *)

\* The constructor, for a descriptor that is open and has no channel yet.
Construct(c, f) ==
    /\ c \notin owned
    /\ \A d \in owned : fd(d) # f
    /\ channel' = With(channel, c, [fd |-> f, events |-> kNoneEvent, index |-> kNew])
    /\ UNCHANGED <<channels_, tree, ready, listSize, activeChannels_, ctlFailed>>

\* EPollPoller::update: epoll_ctl with the channel's descriptor, interest and address.
EpollCtl(operation, c, interest) ==
    IF (operation = "ADD") = (fd(c) \in DOMAIN tree)
    THEN /\ ctlFailed' = (ctlFailed \/ operation # "DEL")
         /\ UNCHANGED tree
    ELSE /\ tree' = IF operation = "DEL"
                    THEN Without(tree, fd(c))
                    ELSE With(tree, fd(c), [interest |-> interest, ptr |-> c])
         /\ UNCHANGED ctlFailed

\* Channel::update after events_ was set: EPollPoller::updateChannel.
Update(c, interest) ==
    LET index == channel[c].index
    IN  /\ channel' = [channel EXCEPT ![c].events = interest,
                                      ![c].index = IndexAfterUpdate(index, interest)]
        /\ channels_' = IF index = kNew THEN With(channels_, fd(c), c) ELSE channels_
        /\ EpollCtl(Operation(index, interest), c, interest)
        /\ UNCHANGED <<ready, listSize, activeChannels_>>

EnableReading(c) == Update(c, channel[c].events \cup kReadEvent)
DisableReading(c) == Update(c, channel[c].events \ kReadEvent)
EnableWriting(c) == Update(c, channel[c].events \cup kWriteEvent)
DisableWriting(c) == Update(c, channel[c].events \ kWriteEvent)
DisableAll(c) == Update(c, kNoneEvent)

\* Mutation: removeChannel leaves the epoll tree alone.
RemoveFromMapOnly(c) ==
    /\ active = {}
    /\ channels_' = Without(channels_, fd(c))
    /\ channel' = [channel EXCEPT ![c].index = kNew]
    /\ UNCHANGED <<ready, listSize, activeChannels_, tree, ctlFailed>>

\* EPollPoller::removeChannel. Its callers are destructors and connectDestroyed, a
\* functor: none of them runs while the loop dispatches active channels.
Remove(c) ==
    /\ active = {}
    /\ channels_' = Without(channels_, fd(c))
    /\ channel' = [channel EXCEPT ![c].index = kNew]
    /\ IF channel[c].index = kAdded
       THEN EpollCtl("DEL", c, channel[c].events)
       ELSE UNCHANGED <<tree, ctlFailed>>
    /\ UNCHANGED <<ready, listSize, activeChannels_>>

\* The owner (the loop, the acceptor, a connection) destroys the channel and closes its
\* descriptor, which the kernel then drops from the tree. No destructor asks whether the
\* channel was removed, nor whether the loop is about to dispatch it. As everything
\* here, it happens in the loop's thread: no poll comes in between.
Destroy(c) ==
    /\ channel' = Without(channel, c)
    /\ tree' = Without(tree, fd(c))
    /\ ready' = [ready EXCEPT ![fd(c)] = {}]
    /\ UNCHANGED <<channels_, ctlFailed, listSize, activeChannels_>>

-----------------------------------------------------------------------------
(* epoll_wait and the dispatch.                                            *)

Ready(f) == ready[f] \cap (tree[f].interest \cup Unasked)

ReadyFds == {f \in DOMAIN tree : Ready(f) # {}}

\* Mutation: fillActiveChannels takes one of the two interests only.
FilledReadOnly(c, returned) == channel[c].events \cap kReadEvent

\* The revents_ fillActiveChannels gives a channel: the events it watches, not the
\* events epoll_wait returned for it.
Filled(c, returned) == channel[c].events

\* Mutation: epollEvents_ keeps its size.
GrownNever(numEvents) == listSize

Grown(numEvents) == IF numEvents = listSize THEN numEvents * 2 ELSE listSize

\* poll with at least one event: the kernel picks which descriptors it returns when
\* epollEvents_ has no room for all of them.
Poll(fds) ==
    /\ active = {}
    /\ fds # {}
    /\ fds \subseteq ReadyFds
    /\ fds = ReadyFds \/ Cardinality(fds) = listSize
    /\ Cardinality(fds) <= listSize
    /\ activeChannels_' =
           [c \in {tree[f].ptr : f \in fds} |->
               LET returned == UNION {Ready(f) : f \in {g \in fds : tree[g].ptr = c}}
               IN  [revents |-> Filled(c, returned), reported |-> returned]]
    /\ listSize' = Grown(Cardinality(fds))
    /\ UNCHANGED <<channel, channels_, tree, ready, ctlFailed>>

\* The callbacks handleEventWithGuard runs for revents_.
Callbacks(revents) ==
    (IF "hup" \in revents /\ "in" \notin revents THEN {"close"} ELSE {})
    \cup (IF "hup" \in revents THEN {"error"} ELSE {})
    \cup (IF "in" \in revents THEN {"read"} ELSE {})
    \cup (IF "out" \in revents THEN {"write"} ELSE {})

\* Channel::handleEvent. What its callbacks do to channels are the actions above. That the
\* channel still exists is for its owner to see to (TcpConnection, TcpServer).
HandleEvent(c) ==
    /\ c \in active
    /\ activeChannels_' = Without(activeChannels_, c)
    /\ UNCHANGED <<channel, channels_, tree, ready, listSize, ctlFailed>>

-----------------------------------------------------------------------------
(* The sockets: data and room come and go; a hang-up stays and is readable. *)

SocketChanges(f, e) ==
    /\ \E c \in owned : fd(c) = f
    /\ e \notin Unasked
    /\ e = "in" => "hup" \notin ready[f]
    /\ ready' = [ready EXCEPT ![f] = IF e \in @ THEN @ \ {e} ELSE @ \cup {e}]
    /\ UNCHANGED <<channel, channels_, tree, listSize, activeChannels_, ctlFailed>>

SocketHangsUp(f) ==
    /\ \E c \in owned : fd(c) = f
    /\ "hup" \notin ready[f]
    /\ ready' = [ready EXCEPT ![f] = @ \cup {"in", "hup"}]
    /\ UNCHANGED <<channel, channels_, tree, listSize, activeChannels_, ctlFailed>>

-----------------------------------------------------------------------------
Owner(c) ==
    \/ EnableReading(c) \/ DisableReading(c)
    \/ EnableWriting(c) \/ DisableWriting(c)
    \/ DisableAll(c)
    \/ Remove(c)
    \/ Destroy(c)

LoopStep ==
    \/ \E fds \in SUBSET Fds : Poll(fds)
    \/ \E c \in active : HandleEvent(c)

Next ==
    \/ \E c \in Channels, f \in Fds : Construct(c, f)
    \/ \E c \in owned : Owner(c)
    \/ LoopStep
    \/ \E f \in Fds, e \in Events : SocketChanges(f, e)
    \/ \E f \in Fds : SocketHangsUp(f)

Spec == Init /\ [][Next]_vars

\* The loop keeps polling and dispatching. Nothing is assumed of the order in which
\* the kernel returns descriptors.
FairSpec == Spec /\ WF_vars(LoopStep)

-----------------------------------------------------------------------------
TypeOK ==
    /\ owned \subseteq Channels
    /\ Range(channel) \subseteq [fd : Fds, events : SUBSET (kReadEvent \cup kWriteEvent),
                                 index : {kNew, kAdded, kDeleted}]
    /\ DOMAIN channels_ \subseteq Fds /\ Range(channels_) \subseteq Channels
    /\ DOMAIN tree \subseteq Fds
    /\ Range(tree) \subseteq [interest : SUBSET Events, ptr : Channels]
    /\ ready \in [Fds -> SUBSET Events]
    /\ listSize \in Nat \ {0}
    /\ active \subseteq Channels
    /\ Range(activeChannels_) \subseteq [revents : SUBSET Events, reported : SUBSET Events]
    /\ ctlFailed \in BOOLEAN

\* index_, channels_ and the kernel's tree tell the same story: exactly the channels
\* that are kAdded are on the tree, under their descriptor, with their current events_;
\* every channel that is not kNew is in channels_; and the tree holds no pointer to a
\* channel that no longer exists, in whatever order channels are removed or not, objects
\* destroyed, and addresses and descriptors used again. (channels_ may hold one: nothing
\* follows it, and the next channel on the descriptor replaces it.)
RecordsAgree ==
    /\ \A c \in owned :
        /\ channel[c].index = kAdded <=>
               /\ fd(c) \in DOMAIN tree
               /\ tree[fd(c)] = [interest |-> channel[c].events, ptr |-> c]
        /\ channel[c].index # kNew => fd(c) \in DOMAIN channels_ /\ channels_[fd(c)] = c
    /\ \A f \in DOMAIN tree : tree[f].ptr \in owned /\ fd(tree[f].ptr) = f

\* updateChannel never meets EEXIST or ENOENT: its LOG_FATAL, which ends the process,
\* is out of reach for any order of legal calls.
EpollCtlSucceeds == ~ctlFailed

CallbacksOf(c) == Callbacks(activeChannels_[c].revents)

\* handleEvent misses no readiness epoll_wait reported: data run the read callback and
\* room the write callback, although revents_ holds something else than the report.
NoEventMissed ==
    \A c \in active :
        /\ "in" \in activeChannels_[c].reported => "read" \in CallbacksOf(c)
        /\ "out" \in activeChannels_[c].reported => "write" \in CallbacksOf(c)

\* revents_ holds the events that occurred (EPollPoller.cpp:129, Channel.h:37). It does
\* not: a channel is told of events that have not happened and never of a hang-up.
ReventsAreReported ==
    \A c \in active : activeChannels_[c].revents = activeChannels_[c].reported

\* A descriptor that stays ready is dispatched, however many others are ready and
\* whichever the kernel prefers: a full epollEvents_ doubles until all of them fit.
NoStarvation ==
    \A f \in Fds :
        \/ []<>(f \notin ReadyFds)
        \/ []<>(\E c \in active \cap owned : fd(c) = f)
=============================================================================
