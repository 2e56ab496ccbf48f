------------------------- MODULE EPollPollerProofs -------------------------
(***************************************************************************)
(* Proofs about EPollPoller, for any channel objects, any descriptors and  *)
(* any size of epollEvents_: the three records of a registration agree,    *)
(* epoll_ctl never fails, and revents_ hides no readiness.                 *)
(***************************************************************************)
EXTENDS EPollPoller, TLAPS

(* The inductive invariant. *)

\* A descriptor that is open has one channel.
FdIInv == \A c, d \in owned : fd(c) = fd(d) => c = d

\* What is on the tree is a channel that is kAdded, under its own descriptor and with
\* what it watches; and such a channel is there.
TreeIInv ==
    /\ \A f \in DOMAIN tree :
          /\ tree[f].ptr \in owned
          /\ fd(tree[f].ptr) = f
          /\ channel[tree[f].ptr].index = kAdded
          /\ tree[f].interest = channel[tree[f].ptr].events
    /\ \A c \in owned : channel[c].index = kAdded =>
          fd(c) \in DOMAIN tree /\ tree[fd(c)].ptr = c

\* A channel that is not kNew is in channels_. Nothing is said of the other entries,
\* which a destroyed channel may have left there.
MapIInv == \A c \in owned : channel[c].index # kNew =>
    fd(c) \in DOMAIN channels_ /\ channels_[fd(c)] = c

IInv ==
    /\ TypeOK
    /\ FdIInv
    /\ TreeIInv
    /\ MapIInv
    /\ EpollCtlSucceeds
    /\ NoEventMissed

-----------------------------------------------------------------------------
(* What the types say of a single entry.                                   *)

ChannelType == [fd : Fds, events : SUBSET (kReadEvent \cup kWriteEvent),
                index : {kNew, kAdded, kDeleted}]
EntryType == [interest : SUBSET Events, ptr : Channels]

LEMMA EntryTypes ==
    ASSUME TypeOK
    PROVE  /\ \A c \in owned : c \in Channels /\ channel[c] \in ChannelType
           /\ \A f \in DOMAIN tree : f \in Fds /\ tree[f] \in EntryType
           /\ \A f \in DOMAIN channels_ : f \in Fds /\ channels_[f] \in Channels
           /\ \A c \in active : activeChannels_[c] \in
                  [revents : SUBSET Events, reported : SUBSET Events]
  BY DEF TypeOK, Range, ChannelType, EntryType, owned, active

\* A channel that is not kAdded has nothing on the tree under its descriptor.
LEMMA OffTree ==
    ASSUME FdIInv, TreeIInv, NEW c \in owned
    PROVE  fd(c) \in DOMAIN tree <=> channel[c].index = kAdded
  BY DEF FdIInv, TreeIInv

-----------------------------------------------------------------------------
LEMMA InvInit == Init => IInv
<1> SUFFICES ASSUME Init
             PROVE  IInv
  OBVIOUS
<1>1. owned = {} /\ active = {} /\ DOMAIN tree = {} /\ DOMAIN channels_ = {}
  BY DEF Init, owned, active
<1>2. TypeOK
  BY <1>1, SizeAssumption DEF Init, TypeOK, owned, active, Range
<1>3. FdIInv /\ TreeIInv /\ MapIInv
  BY <1>1 DEF FdIInv, TreeIInv, MapIInv
<1>4. EpollCtlSucceeds /\ NoEventMissed
  BY <1>1 DEF Init, EpollCtlSucceeds, NoEventMissed
<1> QED
  BY <1>2, <1>3, <1>4 DEF IInv

LEMMA ConstructStep ==
    ASSUME IInv, NEW c \in Channels, NEW f \in Fds, Construct(c, f)
    PROVE  IInv'
<1> DEFINE new == [fd |-> f, events |-> kNoneEvent, index |-> kNew]
<1>1. /\ channel' = With(channel, c, new)
      /\ c \notin owned
      /\ \A d \in owned : fd(d) # f
      /\ UNCHANGED <<channels_, tree, ready, listSize, activeChannels_, ctlFailed>>
  BY DEF Construct
<1>2. /\ owned' = owned \cup {c}
      /\ channel'[c] = new
      /\ \A d \in owned : channel'[d] = channel[d]
      /\ Range(channel') \subseteq Range(channel) \cup {new}
  <2> HIDE DEF new
  <2>1. \A d \in owned : d # c
    BY <1>1
  <2>2. channel' = With(channel, c, new)
    BY <1>1
  <2> QED
    BY <2>1, <2>2 DEF With, owned, Range
<1>3. TypeOK'
  <2>1. new \in ChannelType
    BY DEF ChannelType, kNoneEvent
  <2> HIDE DEF new
  <2>2. TypeOK
    BY DEF IInv
  <2>3. owned' \subseteq Channels /\ Range(channel') \subseteq ChannelType
    BY <1>2, <2>1, <2>2 DEF TypeOK, ChannelType
  <2> QED
    BY <1>1, <2>2, <2>3 DEF TypeOK, active, ChannelType
<1>4. FdIInv'
  BY <1>1, <1>2 DEF IInv, FdIInv, fd
<1>5. TreeIInv'
  BY <1>1, <1>2 DEF IInv, TreeIInv, fd, kNew, kAdded
<1>6. MapIInv'
  BY <1>1, <1>2 DEF IInv, MapIInv, fd
<1>7. EpollCtlSucceeds' /\ NoEventMissed'
  BY <1>1, <1>2 DEF IInv, EpollCtlSucceeds, NoEventMissed, CallbacksOf, active
<1> QED
  BY <1>3, <1>4, <1>5, <1>6, <1>7 DEF IInv

\* What a call of Channel::update does to the tree, whatever index_ was: the operation
\* it chooses is never refused.
LEMMA UpdateTree ==
    ASSUME IInv, NEW c \in owned, NEW interest \in SUBSET (kReadEvent \cup kWriteEvent),
           Update(c, interest)
    PROVE  /\ UNCHANGED ctlFailed
           /\ tree' = IF channel[c].index = kAdded /\ interest = kNoneEvent
                      THEN Without(tree, fd(c))
                      ELSE With(tree, fd(c), [interest |-> interest, ptr |-> c])
<1> DEFINE index == channel[c].index
<1>1. index \in {kNew, kAdded, kDeleted}
  BY EntryTypes DEF IInv, ChannelType
<1>2. fd(c) \in DOMAIN tree <=> index = kAdded
  BY OffTree DEF IInv
<1>3. EpollCtl(Operation(index, interest), c, interest)
  BY DEF Update
<1>4. CASE index # kAdded
  <2>1. Operation(index, interest) = "ADD"
    BY <1>1, <1>4 DEF Operation
  <2> QED
    BY <1>2, <1>3, <1>4, <2>1 DEF EpollCtl
<1>5. CASE index = kAdded /\ interest = kNoneEvent
  <2>1. Operation(index, interest) = "DEL"
    BY <1>5 DEF Operation, kNew, kAdded, kDeleted
  <2> QED
    BY <1>2, <1>3, <1>5, <2>1 DEF EpollCtl
<1>6. CASE index = kAdded /\ interest # kNoneEvent
  <2>1. Operation(index, interest) = "MOD"
    BY <1>6 DEF Operation, kNew, kAdded, kDeleted
  <2> QED
    BY <1>2, <1>3, <1>6, <2>1 DEF EpollCtl
<1> QED
  BY <1>4, <1>5, <1>6

LEMMA UpdateStep ==
    ASSUME IInv, NEW c \in owned, NEW interest \in SUBSET (kReadEvent \cup kWriteEvent),
           Update(c, interest)
    PROVE  IInv'
<1> DEFINE after == IndexAfterUpdate(channel[c].index, interest)
           new == [fd |-> fd(c), events |-> interest, index |-> after]
           entry == [interest |-> interest, ptr |-> c]
<1>1. /\ after \in {kAdded, kDeleted}
      /\ after = kAdded <=> ~(channel[c].index = kAdded /\ interest = kNoneEvent)
  BY DEF IndexAfterUpdate, kAdded, kDeleted
<1>2. /\ c \in Channels
      /\ channel[c] \in ChannelType
      /\ fd(c) \in Fds
  BY EntryTypes DEF IInv, ChannelType, fd
<1> HIDE DEF after
<1>3. /\ owned' = owned
      /\ channel'[c] = new
      /\ \A d \in owned : d # c => channel'[d] = channel[d]
      /\ Range(channel') \subseteq Range(channel) \cup {new}
  BY <1>2 DEF Update, owned, Range, fd, ChannelType, after
<1> HIDE DEF new
<1>4. UNCHANGED <<ready, listSize, activeChannels_, ctlFailed>>
  BY UpdateTree DEF Update
<1>5. new \in ChannelType
  BY <1>1, <1>2 DEF new, ChannelType
<1>6. \A d \in owned : fd(d)' = fd(d)
  BY <1>3 DEF fd, new
<1>7. FdIInv'
  BY <1>3, <1>6 DEF IInv, FdIInv
<1>8. EpollCtlSucceeds' /\ NoEventMissed'
  BY <1>1, <1>3, <1>4
  DEF IInv, EpollCtlSucceeds, NoEventMissed, CallbacksOf, active, new,
      kNew, kAdded, kDeleted
<1>9. TreeIInv' /\ DOMAIN tree' \subseteq Fds /\ Range(tree') \subseteq EntryType
  <2>1. TypeOK /\ FdIInv /\ TreeIInv
    BY DEF IInv
  <2>2. \A f \in DOMAIN tree : f \in Fds /\ tree[f] \in EntryType
    BY <2>1, EntryTypes
  <2>3. CASE after = kAdded
    <3>1. tree' = With(tree, fd(c), entry)
      BY <1>1, <2>3, UpdateTree
    <3>2. /\ DOMAIN tree' = DOMAIN tree \cup {fd(c)}
          /\ tree'[fd(c)] = entry
          /\ \A f \in DOMAIN tree : f # fd(c) => tree'[f] = tree[f]
      BY <3>1 DEF With
    <3>3. entry \in EntryType
      BY <1>2 DEF EntryType, Events
    <3>4. \A f \in DOMAIN tree' : f \in Fds /\ tree'[f] \in EntryType
      BY <1>2, <2>2, <3>2, <3>3
    <3>5. TreeIInv'
      BY <1>3, <1>6, <2>1, <2>3, <3>2 DEF TreeIInv, FdIInv, new
    <3> QED
      BY <3>4, <3>5 DEF Range
  <2>4. CASE after # kAdded
    <3>1. tree' = Without(tree, fd(c))
      BY <1>1, <2>4, UpdateTree
    <3>2. /\ DOMAIN tree' = DOMAIN tree \ {fd(c)}
          /\ \A f \in DOMAIN tree \ {fd(c)} : tree'[f] = tree[f]
      BY <3>1 DEF Without, Restrict
    <3>3. \A f \in DOMAIN tree' : f \in Fds /\ tree'[f] \in EntryType
      BY <2>2, <3>2
    <3>4. TreeIInv'
      BY <1>3, <1>6, <2>1, <2>4, <3>2 DEF TreeIInv, FdIInv, new
    <3> QED
      BY <3>3, <3>4 DEF Range
  <2> QED
    BY <2>3, <2>4
<1>10. MapIInv' /\ DOMAIN channels_' \subseteq Fds /\ Range(channels_') \subseteq Channels
  <2>1. TypeOK /\ FdIInv /\ MapIInv
    BY DEF IInv
  <2>2. \A f \in DOMAIN channels_ : f \in Fds /\ channels_[f] \in Channels
    BY <2>1, EntryTypes
  <2>3. after # kNew
    BY <1>1 DEF kNew, kAdded, kDeleted
  <2>4. CASE channel[c].index = kNew
    <3>1. channels_' = With(channels_, fd(c), c)
      BY <2>4 DEF Update
    <3>2. /\ DOMAIN channels_' = DOMAIN channels_ \cup {fd(c)}
          /\ channels_'[fd(c)] = c
          /\ \A f \in DOMAIN channels_ : f # fd(c) => channels_'[f] = channels_[f]
      BY <3>1 DEF With
    <3>3. \A f \in DOMAIN channels_' : f \in Fds /\ channels_'[f] \in Channels
      BY <1>2, <2>2, <3>2
    <3>4. MapIInv'
      BY <1>3, <1>6, <2>1, <2>3, <2>4, <3>2 DEF MapIInv, FdIInv, new
    <3> QED
      BY <3>3, <3>4 DEF Range
  <2>5. CASE channel[c].index # kNew
    <3>1. channels_' = channels_
      BY <2>5 DEF Update
    <3>2. MapIInv'
      BY <1>3, <1>6, <2>1, <2>3, <2>5, <3>1 DEF MapIInv, FdIInv, new
    <3> QED
      BY <2>1, <3>1, <3>2 DEF TypeOK
  <2> QED
    BY <2>4, <2>5
<1>11. TypeOK'
  BY <1>3, <1>4, <1>5, <1>9, <1>10 DEF IInv, TypeOK, active, ChannelType, EntryType
<1> QED
  BY <1>7, <1>8, <1>9, <1>10, <1>11 DEF IInv

LEMMA RemoveStep ==
    ASSUME IInv, NEW c \in owned, Remove(c)
    PROVE  IInv'
<1> DEFINE new == [channel[c] EXCEPT !.index = kNew]
<1>1. TypeOK /\ FdIInv /\ TreeIInv /\ MapIInv
  BY DEF IInv
<1>2. channel[c] \in ChannelType /\ fd(c) \in Fds
  BY <1>1, EntryTypes DEF ChannelType, fd
<1>3. new \in ChannelType /\ new.fd = fd(c) /\ new.index = kNew
  BY <1>2 DEF ChannelType, fd
<1>4. /\ owned' = owned
      /\ channel'[c] = new
      /\ \A d \in owned : d # c => channel'[d] = channel[d]
      /\ Range(channel') \subseteq Range(channel) \cup {new}
  BY DEF Remove, owned, Range
<1> HIDE DEF new
<1>5. /\ active = {}
      /\ UNCHANGED <<ready, listSize, activeChannels_>>
      /\ channels_' = Without(channels_, fd(c))
  BY DEF Remove
<1>6. /\ UNCHANGED ctlFailed
      /\ DOMAIN tree' = DOMAIN tree \ {fd(c)}
      /\ \A f \in DOMAIN tree \ {fd(c)} : tree'[f] = tree[f]
  <2>1. fd(c) \in DOMAIN tree <=> channel[c].index = kAdded
    BY <1>1, OffTree
  <2>2. CASE channel[c].index = kAdded
    <3>1. UNCHANGED ctlFailed /\ tree' = Without(tree, fd(c))
      BY <2>1, <2>2 DEF Remove, EpollCtl
    <3> QED
      BY <3>1 DEF Without, Restrict
  <2>3. CASE channel[c].index # kAdded
    BY <2>1, <2>3 DEF Remove
  <2> QED
    BY <2>2, <2>3
<1>7. /\ DOMAIN channels_' = DOMAIN channels_ \ {fd(c)}
      /\ \A f \in DOMAIN channels_ \ {fd(c)} : channels_'[f] = channels_[f]
  BY <1>5 DEF Without, Restrict
<1>8. \A d \in owned : fd(d)' = fd(d)
  BY <1>3, <1>4 DEF fd
<1>9. FdIInv'
  BY <1>1, <1>4, <1>8 DEF FdIInv
<1>10. TreeIInv'
  BY <1>1, <1>3, <1>4, <1>6, <1>8 DEF TreeIInv, FdIInv, kNew, kAdded
<1>11. MapIInv'
  BY <1>1, <1>3, <1>4, <1>7, <1>8 DEF MapIInv, FdIInv
<1>12. EpollCtlSucceeds' /\ NoEventMissed'
  BY <1>5, <1>6 DEF IInv, EpollCtlSucceeds, NoEventMissed, active
<1>13. /\ DOMAIN tree' \subseteq Fds /\ Range(tree') \subseteq EntryType
       /\ DOMAIN channels_' \subseteq Fds /\ Range(channels_') \subseteq Channels
  BY <1>1, <1>6, <1>7, EntryTypes DEF Range
<1>14. TypeOK'
  BY <1>1, <1>3, <1>4, <1>5, <1>6, <1>13 DEF TypeOK, active, ChannelType, EntryType
<1> QED
  BY <1>9, <1>10, <1>11, <1>12, <1>14 DEF IInv

\* The kernel forgets a descriptor that is closed, so that a channel that was never
\* removed leaves the tree when it is destroyed; the other channels have descriptors of
\* their own.
LEMMA DestroyStep ==
    ASSUME IInv, NEW c \in owned, Destroy(c)
    PROVE  IInv'
<1>1. TypeOK /\ FdIInv /\ TreeIInv /\ MapIInv
  BY DEF IInv
<1>2. fd(c) \in Fds
  BY <1>1, EntryTypes DEF ChannelType, fd
<1>3. /\ owned' = owned \ {c}
      /\ \A d \in owned \ {c} : channel'[d] = channel[d]
      /\ Range(channel') \subseteq Range(channel)
  BY DEF Destroy, Without, Restrict, owned, Range
<1>4. UNCHANGED <<channels_, ctlFailed, listSize, activeChannels_>>
  BY DEF Destroy
<1>5. /\ DOMAIN tree' = DOMAIN tree \ {fd(c)}
      /\ \A f \in DOMAIN tree \ {fd(c)} : tree'[f] = tree[f]
  BY DEF Destroy, Without, Restrict
<1>6. ready' \in [Fds -> SUBSET Events]
  BY <1>1, <1>2 DEF Destroy, TypeOK
<1>7. \A d \in owned' : fd(d)' = fd(d)
  BY <1>3 DEF fd
<1>8. FdIInv'
  BY <1>1, <1>3, <1>7 DEF FdIInv
<1>9. TreeIInv'
  BY <1>1, <1>3, <1>5, <1>7 DEF TreeIInv, FdIInv
<1>10. MapIInv'
  BY <1>1, <1>3, <1>4, <1>7 DEF MapIInv
<1>11. EpollCtlSucceeds' /\ NoEventMissed'
  BY <1>4 DEF IInv, EpollCtlSucceeds, NoEventMissed, CallbacksOf, active
<1>12. DOMAIN tree' \subseteq Fds /\ Range(tree') \subseteq EntryType
  BY <1>1, <1>5, EntryTypes DEF Range
<1>13. TypeOK'
  BY <1>1, <1>3, <1>4, <1>6, <1>12 DEF TypeOK, active, ChannelType, EntryType
<1> QED
  BY <1>8, <1>9, <1>10, <1>11, <1>13 DEF IInv

-----------------------------------------------------------------------------
(* Polling and dispatching.                                                *)

LEMMA PollStep ==
    ASSUME IInv, NEW fds \in SUBSET Fds, Poll(fds)
    PROVE  IInv'
<1> DEFINE found == {tree[f].ptr : f \in fds}
           returned(c) == UNION {Ready(f) : f \in {g \in fds : tree[g].ptr = c}}
<1>1. TypeOK /\ FdIInv /\ TreeIInv /\ MapIInv
  BY DEF IInv
<1>2. UNCHANGED <<channel, channels_, tree, ready, ctlFailed>>
  BY DEF Poll
<1>3. /\ active' = found
      /\ \A c \in found : activeChannels_'[c] =
             [revents |-> channel[c].events, reported |-> returned(c)]
  BY DEF Poll, active, Filled
<1>4. fds \subseteq DOMAIN tree
  BY DEF Poll, ReadyFds
<1>5. listSize' \in Nat \ {0}
  BY <1>1 DEF Poll, Grown, TypeOK
<1>6. \A c \in found : c \in owned
  BY <1>1, <1>4 DEF TreeIInv
<1>7. ASSUME NEW c \in found
      PROVE  /\ returned(c) \subseteq Events
             /\ returned(c) \subseteq channel[c].events \cup Unasked
  <2>1. \A f \in fds : ready[f] \subseteq Events
    BY <1>1 DEF TypeOK
  <2>2. \A f \in fds : tree[f].ptr = c => tree[f].interest = channel[c].events
    BY <1>1, <1>4 DEF TreeIInv
  <2>3. ASSUME NEW e \in returned(c)
        PROVE  e \in Events /\ e \in channel[c].events \cup Unasked
    <3>1. PICK f \in fds : tree[f].ptr = c /\ e \in Ready(f)
      BY <2>3
    <3> QED
      BY <2>1, <2>2, <3>1 DEF Ready
  <2> QED
    BY <2>3
<1> HIDE DEF returned
<1>8. \A c \in found :
          /\ activeChannels_'[c].revents = channel[c].events
          /\ activeChannels_'[c].reported \subseteq Events
          /\ activeChannels_'[c].reported \subseteq channel[c].events \cup Unasked
          /\ activeChannels_'[c] \in [revents : SUBSET Events, reported : SUBSET Events]
  <2>1. SUFFICES ASSUME NEW c \in found
                 PROVE  /\ activeChannels_'[c].revents = channel[c].events
                        /\ activeChannels_'[c].reported = returned(c)
                        /\ activeChannels_'[c] \in
                               [revents : SUBSET Events, reported : SUBSET Events]
    BY <1>7
  <2>2. activeChannels_'[c] = [revents |-> channel[c].events, reported |-> returned(c)]
    BY <1>3
  <2>3. channel[c].events \subseteq Events
    BY <1>1, <1>6, EntryTypes DEF ChannelType, Events
  <2>4. returned(c) \subseteq Events
    BY <1>7
  <2> QED
    BY <2>2, <2>3, <2>4
<1> HIDE DEF found
<1>9. TypeOK'
  <2>1. active' \subseteq Channels
    BY <1>1, <1>3, <1>6, EntryTypes
  <2>2. Range(activeChannels_') \subseteq [revents : SUBSET Events, reported : SUBSET Events]
    BY <1>3, <1>8 DEF Range, active
  <2> QED
    BY <1>1, <1>2, <1>5, <2>1, <2>2 DEF TypeOK, owned
<1>10. NoEventMissed'
  <2>1. \A c \in found :
            /\ "in" \in activeChannels_'[c].reported => "in" \in activeChannels_'[c].revents
            /\ "out" \in activeChannels_'[c].reported => "out" \in activeChannels_'[c].revents
    BY <1>8 DEF Unasked
  <2> QED
    BY <1>3, <2>1 DEF NoEventMissed, CallbacksOf, Callbacks
<1>11. FdIInv' /\ TreeIInv' /\ MapIInv' /\ EpollCtlSucceeds'
  BY <1>1, <1>2 DEF IInv, FdIInv, TreeIInv, MapIInv, EpollCtlSucceeds, fd, owned
<1> QED
  BY <1>9, <1>10, <1>11 DEF IInv

LEMMA HandleEventStep ==
    ASSUME IInv, NEW c \in active, HandleEvent(c)
    PROVE  IInv'
<1>1. UNCHANGED <<channel, channels_, tree, ready, listSize, ctlFailed>>
  BY DEF HandleEvent
<1>2. /\ active' = active \ {c}
      /\ \A d \in active \ {c} : activeChannels_'[d] = activeChannels_[d]
      /\ Range(activeChannels_') \subseteq Range(activeChannels_)
  BY DEF HandleEvent, Without, Restrict, active, Range
<1>3. TypeOK'
  BY <1>1, <1>2 DEF IInv, TypeOK, owned
<1>4. NoEventMissed'
  BY <1>1, <1>2 DEF IInv, NoEventMissed, CallbacksOf, owned
<1>5. FdIInv' /\ TreeIInv' /\ MapIInv' /\ EpollCtlSucceeds'
  BY <1>1 DEF IInv, FdIInv, TreeIInv, MapIInv, EpollCtlSucceeds, fd, owned
<1> QED
  BY <1>3, <1>4, <1>5 DEF IInv

\* What happens to the sockets between two polls is no concern of the records.
LEMMA SocketStep ==
    ASSUME IInv, ready' \in [Fds -> SUBSET Events],
           UNCHANGED <<channel, channels_, tree, listSize, activeChannels_, ctlFailed>>
    PROVE  IInv'
  BY DEF IInv, TypeOK, FdIInv, TreeIInv, MapIInv, EpollCtlSucceeds,
         NoEventMissed, CallbacksOf, fd, owned, active

LEMMA InvStep == IInv /\ [Next]_vars => IInv'
<1> SUFFICES ASSUME IInv, [Next]_vars
             PROVE  IInv'
  OBVIOUS
<1>0. ready \in [Fds -> SUBSET Events]
  BY DEF IInv, TypeOK
<1>1. ASSUME NEW c \in Channels, NEW f \in Fds, Construct(c, f)
      PROVE  IInv'
  BY <1>1, ConstructStep
<1>2. ASSUME NEW c \in owned, Owner(c)
      PROVE  IInv'
  <2>1. channel[c].events \in SUBSET (kReadEvent \cup kWriteEvent)
    BY EntryTypes DEF IInv, ChannelType
  <2>2. CASE EnableReading(c)
    BY <2>1, <2>2, UpdateStep DEF EnableReading
  <2>3. CASE DisableReading(c)
    BY <2>1, <2>3, UpdateStep DEF DisableReading
  <2>4. CASE EnableWriting(c)
    BY <2>1, <2>4, UpdateStep DEF EnableWriting
  <2>5. CASE DisableWriting(c)
    BY <2>1, <2>5, UpdateStep DEF DisableWriting
  <2>6. CASE DisableAll(c)
    BY <2>6, UpdateStep DEF DisableAll, kNoneEvent
  <2>7. CASE Remove(c)
    BY <2>7, RemoveStep
  <2>8. CASE Destroy(c)
    BY <2>8, DestroyStep
  <2> QED
    BY <1>2, <2>2, <2>3, <2>4, <2>5, <2>6, <2>7, <2>8 DEF Owner
<1>3. ASSUME NEW c \in active, HandleEvent(c)
      PROVE  IInv'
  BY <1>3, HandleEventStep
<1>4. ASSUME NEW fds \in SUBSET Fds, Poll(fds)
      PROVE  IInv'
  BY <1>4, PollStep
<1>5. ASSUME NEW f \in Fds, NEW e \in Events, SocketChanges(f, e)
      PROVE  IInv'
  <2>1. ready' \in [Fds -> SUBSET Events]
    BY <1>0, <1>5 DEF SocketChanges
  <2> QED
    BY <1>5, <2>1, SocketStep DEF SocketChanges
<1>6. ASSUME NEW f \in Fds, SocketHangsUp(f)
      PROVE  IInv'
  <2>1. ready' \in [Fds -> SUBSET Events]
    BY <1>0, <1>6 DEF SocketHangsUp, Events, kReadEvent, kWriteEvent, Unasked
  <2> QED
    BY <1>6, <2>1, SocketStep DEF SocketHangsUp
<1>7. CASE UNCHANGED vars
  BY <1>0, <1>7, SocketStep DEF vars
<1> QED
  BY <1>1, <1>2, <1>3, <1>4, <1>5, <1>6, <1>7 DEF Next, LoopStep

LEMMA Invariance == Spec => []IInv
  BY InvInit, InvStep, PTL DEF Spec

-----------------------------------------------------------------------------
(* The theorems.                                                           *)

\* Every record keeps its type through all orders of calls, polls and reuses.
THEOREM TypeCorrect == Spec => []TypeOK
<1>1. IInv => TypeOK
  BY DEF IInv
<1> QED
  BY <1>1, Invariance, PTL

\* index_, channels_ and the kernel's tree agree on every channel, and epoll_wait returns
\* no pointer to one that is gone (updateChannel, removeChannel, close).
THEOREM RecordsAlwaysAgree == Spec => []RecordsAgree
<1>1. IInv => RecordsAgree
  <2> SUFFICES ASSUME IInv
               PROVE  RecordsAgree
    OBVIOUS
  <2>1. TypeOK /\ FdIInv /\ TreeIInv /\ MapIInv
    BY DEF IInv
  <2>2. ASSUME NEW c \in owned
        PROVE  channel[c].index = kAdded <=>
                   /\ fd(c) \in DOMAIN tree
                   /\ tree[fd(c)] = [interest |-> channel[c].events, ptr |-> c]
    <3>1. fd(c) \in DOMAIN tree <=> channel[c].index = kAdded
      BY <2>1, OffTree
    <3>2. fd(c) \in DOMAIN tree => tree[fd(c)] \in EntryType
      BY <2>1, EntryTypes
    <3> QED
      BY <2>1, <3>1, <3>2 DEF TreeIInv, EntryType
  <2>3. \A c \in owned : channel[c].index # kNew =>
            fd(c) \in DOMAIN channels_ /\ channels_[fd(c)] = c
    BY <2>1 DEF MapIInv
  <2>4. \A f \in DOMAIN tree : tree[f].ptr \in owned /\ fd(tree[f].ptr) = f
    BY <2>1 DEF TreeIInv
  <2> QED
    BY <2>2, <2>3, <2>4 DEF RecordsAgree
<1> QED
  BY <1>1, Invariance, PTL

\* epoll_ctl answers neither EEXIST nor ENOENT: the LOG_FATAL of EPollPoller::update is
\* dead code.
THEOREM EpollCtlAlwaysSucceeds == Spec => []EpollCtlSucceeds
<1>1. IInv => EpollCtlSucceeds
  BY DEF IInv
<1> QED
  BY <1>1, Invariance, PTL

\* Although fillActiveChannels stores what a channel watches instead of what happened,
\* data and room that epoll_wait reported run their callbacks.
THEOREM NoReportedEventIsMissed == Spec => []NoEventMissed
<1>1. IInv => NoEventMissed
  BY DEF IInv
<1> QED
  BY <1>1, Invariance, PTL
=============================================================================
