------------------------------ MODULE TaskQueue ------------------------------
(***************************************************************************)
(* What an EventLoop promises to the callers of queueInLoop: a functor is  *)
(* accepted once, functors are executed in the order of acceptance, each   *)
(* of them once, and one at a time (a queued functor never starts inside   *)
(* another one).  Threads, locks, the wakeup descriptor and the batches of *)
(* doPendingFunctors do not appear here.                                   *)
(***************************************************************************)
EXTENDS Sequences

CONSTANTS
    Tasks,      \* the functors in flight
    NoTask      \* no functor is being executed

VARIABLES
    waiting,    \* the functors accepted and not yet started, oldest first
    running     \* the functor being executed, or NoTask

tqVars == <<waiting, running>>

TQInit ==
    /\ waiting = <<>>
    /\ running = NoTask

Accept(task) ==
    /\ waiting' = Append(waiting, task)
    /\ UNCHANGED running

Start ==
    /\ running = NoTask
    /\ waiting # <<>>
    /\ running' = Head(waiting)
    /\ waiting' = Tail(waiting)

Finish ==
    /\ running # NoTask
    /\ running' = NoTask
    /\ UNCHANGED waiting

TQNext ==
    \/ \E task \in Tasks : Accept(task)
    \/ Start
    \/ Finish

TQSpec == TQInit /\ [][TQNext]_tqVars
=============================================================================
