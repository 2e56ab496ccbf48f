------------------------------- MODULE Channel -------------------------------
(***************************************************************************)
(* What a Channel (Channel.h) asks of the poller it is registered with     *)
(* (EPollPoller.cpp): the states index_ takes, and what one call of        *)
(* update() does for each of them. Both the poller and the connections are *)
(* written with these operators.                                           *)
(***************************************************************************)
EXTENDS Integers

kNew == -1      \* neither in channels_ nor on the epoll tree
kAdded == 1     \* in channels_ and on the tree
kDeleted == 2   \* in channels_ only

\* EPOLLIN and EPOLLPRI are always set and cleared together: one event.
kNoneEvent == {}
kReadEvent == {"in"}
kWriteEvent == {"out"}

\* Mutation: a channel that watches nothing any more is modified instead of deleted,
\* and recorded as deleted all the same.
OperationModifies(index, events) ==
    IF index \in {kNew, kDeleted} THEN "ADD" ELSE "MOD"

\* The epoll_ctl operation updateChannel chooses.
Operation(index, events) ==
    IF index \in {kNew, kDeleted} THEN "ADD"
    ELSE IF events = kNoneEvent THEN "DEL" ELSE "MOD"

\* Mutation: index_ as a flag, on the tree or not.
IndexAsFlag(index, events) ==
    IF index = kAdded /\ events = kNoneEvent THEN 0 ELSE 1

\* index_ after updateChannel. A channel that was off the tree is put on it, even to
\* watch nothing.
IndexAfterUpdate(index, events) ==
    IF index = kAdded /\ events = kNoneEvent THEN kDeleted ELSE kAdded
=============================================================================
