------------------------------ MODULE EventLoop ------------------------------
(***************************************************************************)
(* EventLoop (EventLoop.h, EventLoop.cpp): one thread that alternates      *)
(* between epoll_wait, the callbacks of the channels that became active    *)
(* and the functors that any thread queued with queueInLoop.               *)
(*                                                                         *)
(* Steps are cut where another thread can see or change something: at each *)
(* store to an atomic, at each critical section of mutex_ and at each read *)
(* or write of the eventfd.                                                *)
(***************************************************************************)
EXTENDS Naturals, Sequences, Functions

CONSTANTS
    LoopThread,  \* threadId_: the thread that constructed the loop and runs loop()
    Threads,     \* the other threads that hold a pointer to the loop
    Tasks,       \* names for the functors in flight
    EarlyTasks,  \* those the loop's own thread queues outside loop()
    NoTask

ASSUME ThreadsAssumption == LoopThread \notin Threads
ASSUME TasksAssumption == EarlyTasks \subseteq Tasks /\ NoTask \notin Tasks

VARIABLES
    looping_,                \* atomic_bool
    quit_,                   \* atomic_bool
    callingPendingFunctors_, \* atomic_bool
    pendingFunctors_,        \* the queue mutex_ protects
    wakeupFd_,               \* whether the counter of the eventfd is above zero
    activeChannels_,         \* channels poll returned and loop() has not dispatched yet
    functors,                \* the rest of the batch doPendingFunctors swapped out
    running,                 \* the functor doPendingFunctors is executing, or NoTask
    loopAt,                  \* where the loop's thread is in loop()
    inCall                   \* the call a thread is in the middle of

queueVars == <<pendingFunctors_, functors, running>>
vars == <<looping_, quit_, callingPendingFunctors_, pendingFunctors_, wakeupFd_,
          activeChannels_, functors, running, loopAt, inCall>>

AllThreads == Threads \cup {LoopThread}

\* The wakeup channel, and the channels of all other descriptors taken as one.
Channels == {"wakeup", "io"}

Locations == {"created", "entered", "while", "poll", "dispatch", "callback",
              "swap", "run", "functor", "exit", "exited"}

\* Where code other than EventLoop's runs in the loop's thread: before loop(), in
\* the callback of a channel, in a functor, and after loop() has returned.
UserCode == {"created", "callback", "functor", "exited"}

\* Before loop(), and between one call of it and the next.
OutsideLoop == loopAt \in {"created", "exited"}

InFlight == Range(pendingFunctors_) \cup Range(functors) \cup {running}

-----------------------------------------------------------------------------
(* The constructor. Its enableReading puts the wakeup channel in the poller. *)

Init ==
    /\ looping_ = FALSE
    /\ quit_ = FALSE
    /\ callingPendingFunctors_ = FALSE
    /\ pendingFunctors_ = <<>>
    /\ wakeupFd_ = FALSE
    /\ activeChannels_ = {}
    /\ functors = <<>>
    /\ running = NoTask
    /\ loopAt = "created"
    /\ inCall = [t \in AllThreads |-> "none"]

-----------------------------------------------------------------------------
(* The calls any thread may make.                                          *)

CanCall(t) ==
    /\ inCall[t] = "none"
    /\ t = LoopThread => loopAt \in UserCode

\* Mutation: the functor is queued after it was moved from.
QueueInLoopMovedFrom(t, task) ==
    /\ CanCall(t)
    /\ task \notin InFlight
    /\ task \in EarlyTasks <=> (t = LoopThread /\ OutsideLoop)
    /\ pendingFunctors_' = Append(pendingFunctors_, NoTask)
    /\ inCall' = [inCall EXCEPT ![t] = "queueInLoop"]
    /\ UNCHANGED <<looping_, quit_, callingPendingFunctors_, wakeupFd_,
                   activeChannels_, functors, running, loopAt>>

\* The critical section of queueInLoop. runInLoop from another thread is this call;
\* runInLoop from the loop's own thread calls the functor and touches no state here.
QueueInLoop(t, task) ==
    /\ CanCall(t)
    /\ task \notin InFlight
    /\ task \in EarlyTasks <=> (t = LoopThread /\ OutsideLoop)
    /\ pendingFunctors_' = Append(pendingFunctors_, task)
    /\ inCall' = [inCall EXCEPT ![t] = "queueInLoop"]
    /\ UNCHANGED <<looping_, quit_, callingPendingFunctors_, wakeupFd_,
                   activeChannels_, functors, running, loopAt>>

\* Mutation: the second wakeup condition is dropped.
NeedsWakeupFromOutside(t) == t # LoopThread

NeedsWakeup(t) == t # LoopThread \/ callingPendingFunctors_

\* The end of queueInLoop: the wakeup conditions and wakeup().
QueueInLoopWakeup(t) ==
    /\ inCall[t] = "queueInLoop"
    /\ wakeupFd_' = (wakeupFd_ \/ NeedsWakeup(t))
    /\ inCall' = [inCall EXCEPT ![t] = "none"]
    /\ UNCHANGED <<looping_, quit_, callingPendingFunctors_, activeChannels_,
                   queueVars, loopAt>>

Quit(t) ==
    /\ CanCall(t)
    /\ quit_' = TRUE
    /\ inCall' = [inCall EXCEPT ![t] = "quit"]
    /\ UNCHANGED <<looping_, callingPendingFunctors_, wakeupFd_, activeChannels_,
                   queueVars, loopAt>>

\* Mutation: quit() only stores the flag.
QuitWakeupMissing(t) ==
    /\ inCall[t] = "quit"
    /\ inCall' = [inCall EXCEPT ![t] = "none"]
    /\ UNCHANGED <<looping_, quit_, callingPendingFunctors_, wakeupFd_,
                   activeChannels_, queueVars, loopAt>>

\* The end of quit(): another thread wakes the loop up.
QuitWakeup(t) ==
    /\ inCall[t] = "quit"
    /\ wakeupFd_' = (wakeupFd_ \/ t # LoopThread)
    /\ inCall' = [inCall EXCEPT ![t] = "none"]
    /\ UNCHANGED <<looping_, quit_, callingPendingFunctors_, activeChannels_,
                   queueVars, loopAt>>

\* wakeup() called by itself: a write of the eventfd.
Wakeup(t) ==
    /\ CanCall(t)
    /\ wakeupFd_' = TRUE
    /\ UNCHANGED <<looping_, quit_, callingPendingFunctors_, activeChannels_,
                   queueVars, loopAt, inCall>>

-----------------------------------------------------------------------------
(* The loop's own thread, in loop().                                       *)

LoopGoes(from, to) ==
    /\ loopAt = from
    /\ loopAt' = to

\* loop() may be called again once it has returned.
EnterLoop(from) ==
    /\ LoopGoes(from, "entered")
    /\ inCall[LoopThread] = "none"
    /\ looping_' = TRUE
    /\ UNCHANGED <<quit_, callingPendingFunctors_, wakeupFd_, activeChannels_,
                   queueVars, inCall>>

ResetQuit ==
    /\ LoopGoes("entered", "while")
    /\ quit_' = FALSE
    /\ UNCHANGED <<looping_, callingPendingFunctors_, wakeupFd_, activeChannels_,
                   queueVars, inCall>>

\* The condition of the while loop.
TestQuit ==
    /\ LoopGoes("while", IF quit_ THEN "exit" ELSE "poll")
    /\ UNCHANGED <<looping_, quit_, callingPendingFunctors_, wakeupFd_,
                   activeChannels_, queueVars, inCall>>

\* epoll_wait returns some of the descriptors that are ready: with more ready
\* descriptors than epollEvents_ holds, the eventfd may miss a round.
PollEvents(ready) ==
    /\ ready # {}
    /\ "wakeup" \in ready => wakeupFd_
    /\ LoopGoes("poll", "dispatch")
    /\ activeChannels_' = ready
    /\ UNCHANGED <<looping_, quit_, callingPendingFunctors_, wakeupFd_,
                   queueVars, inCall>>

\* Mutation: a round in which nothing was ready skips doPendingFunctors.
PollTimeoutContinues ==
    /\ ~wakeupFd_
    /\ LoopGoes("poll", "while")
    /\ UNCHANGED <<looping_, quit_, callingPendingFunctors_, wakeupFd_,
                   activeChannels_, queueVars, inCall>>

\* kPollTimeMs have passed with nothing ready, or a signal interrupted the wait.
PollTimeout ==
    /\ ~wakeupFd_
    /\ LoopGoes("poll", "dispatch")
    /\ UNCHANGED <<looping_, quit_, callingPendingFunctors_, wakeupFd_,
                   activeChannels_, queueVars, inCall>>

\* EventLoop::handleRead, the callback of the wakeup channel: the read resets the
\* counter of the eventfd.
HandleRead ==
    /\ LoopGoes("dispatch", "dispatch")
    /\ "wakeup" \in activeChannels_
    /\ wakeupFd_' = FALSE
    /\ activeChannels_' = activeChannels_ \ {"wakeup"}
    /\ UNCHANGED <<looping_, quit_, callingPendingFunctors_, queueVars, inCall>>

\* Any other channel: its callback is user code.
HandleEvent ==
    /\ LoopGoes("dispatch", "callback")
    /\ "io" \in activeChannels_
    /\ activeChannels_' = activeChannels_ \ {"io"}
    /\ UNCHANGED <<looping_, quit_, callingPendingFunctors_, wakeupFd_,
                   queueVars, inCall>>

CallbackReturns ==
    /\ LoopGoes("callback", "dispatch")
    /\ inCall[LoopThread] = "none"
    /\ UNCHANGED <<looping_, quit_, callingPendingFunctors_, wakeupFd_,
                   activeChannels_, queueVars, inCall>>

\* doPendingFunctors: the flag is raised before the lock is taken.
StartPending ==
    /\ LoopGoes("dispatch", "swap")
    /\ activeChannels_ = {}
    /\ callingPendingFunctors_' = TRUE
    /\ UNCHANGED <<looping_, quit_, wakeupFd_, activeChannels_, queueVars, inCall>>

SwapFunctors ==
    /\ LoopGoes("swap", "run")
    /\ functors' = pendingFunctors_
    /\ pendingFunctors_' = <<>>
    /\ UNCHANGED <<looping_, quit_, callingPendingFunctors_, wakeupFd_,
                   activeChannels_, running, inCall>>

RunFunctor ==
    /\ LoopGoes("run", "functor")
    /\ functors # <<>>
    /\ running' = Head(functors)
    /\ functors' = Tail(functors)
    /\ UNCHANGED <<looping_, quit_, callingPendingFunctors_, pendingFunctors_,
                   wakeupFd_, activeChannels_, inCall>>

FunctorReturns ==
    /\ LoopGoes("functor", "run")
    /\ inCall[LoopThread] = "none"
    /\ running' = NoTask
    /\ UNCHANGED <<looping_, quit_, callingPendingFunctors_, pendingFunctors_,
                   wakeupFd_, activeChannels_, functors, inCall>>

\* Mutation: the queue is cleared after its functors ran, instead of before.
FinishPendingClearing ==
    /\ LoopGoes("run", "while")
    /\ functors = <<>>
    /\ callingPendingFunctors_' = FALSE
    /\ pendingFunctors_' = <<>>
    /\ UNCHANGED <<looping_, quit_, wakeupFd_, activeChannels_, functors, running,
                   inCall>>

\* Mutation: doPendingFunctors goes on until the queue is empty.
FinishPendingDraining ==
    /\ LoopGoes("run", IF pendingFunctors_ = <<>> THEN "while" ELSE "swap")
    /\ functors = <<>>
    /\ callingPendingFunctors_' = (pendingFunctors_ # <<>>)
    /\ UNCHANGED <<looping_, quit_, wakeupFd_, activeChannels_, queueVars, inCall>>

FinishPending ==
    /\ LoopGoes("run", "while")
    /\ functors = <<>>
    /\ callingPendingFunctors_' = FALSE
    /\ UNCHANGED <<looping_, quit_, wakeupFd_, activeChannels_, queueVars, inCall>>

ExitLoop ==
    /\ LoopGoes("exit", "exited")
    /\ looping_' = FALSE
    /\ UNCHANGED <<quit_, callingPendingFunctors_, wakeupFd_, activeChannels_,
                   queueVars, inCall>>

-----------------------------------------------------------------------------

Call(t) ==
    \/ \E task \in Tasks : QueueInLoop(t, task)
    \/ Quit(t)
    \/ Wakeup(t)

FinishCall(t) == QueueInLoopWakeup(t) \/ QuitWakeup(t)

Poll == (\E ready \in SUBSET Channels : PollEvents(ready)) \/ PollTimeout

\* What the loop's thread does by itself, outside epoll_wait and user code.
LoopStep ==
    \/ ResetQuit \/ TestQuit
    \/ HandleRead \/ HandleEvent
    \/ StartPending \/ SwapFunctors \/ RunFunctor \/ FinishPending
    \/ ExitLoop

\* User code in the loop's thread gets to its end, after as many calls as it likes.
UserCodeReturns == EnterLoop("created") \/ CallbackReturns \/ FunctorReturns

Next ==
    \/ \E t \in AllThreads : Call(t) \/ FinishCall(t)
    \/ Poll
    \/ LoopStep
    \/ UserCodeReturns
    \/ EnterLoop("exited")

Spec == Init /\ [][Next]_vars

(***************************************************************************)
(* Fairness. Every thread is scheduled, so a call that has begun ends and  *)
(* the loop goes on; epoll_wait returns while the eventfd is readable; the *)
(* code before loop(), the callbacks and the functors get to their end,    *)
(* however many calls they make (hence strong fairness). No other          *)
(* descriptor need ever become ready, no call need be made, nobody need    *)
(* call loop() a second time, and PollTimeout is not fair: what holds here *)
(* does not depend on the ten seconds of kPollTimeMs.                      *)
(***************************************************************************)
WakeupPoll == wakeupFd_ /\ \E ready \in SUBSET Channels : PollEvents(ready)

Fairness ==
    /\ WF_vars(LoopStep)
    /\ WF_vars(WakeupPoll)
    /\ SF_vars(UserCodeReturns)
    /\ \A t \in AllThreads : WF_vars(FinishCall(t))

FairSpec == Spec /\ Fairness

-----------------------------------------------------------------------------
(* Invariants.                                                             *)

TypeOK ==
    /\ looping_ \in BOOLEAN
    /\ quit_ \in BOOLEAN
    /\ callingPendingFunctors_ \in BOOLEAN
    /\ pendingFunctors_ \in Seq(Tasks)
    /\ wakeupFd_ \in BOOLEAN
    /\ activeChannels_ \in SUBSET Channels
    /\ functors \in Seq(Tasks)
    /\ running \in Tasks \cup {NoTask}
    /\ loopAt \in Locations
    /\ inCall \in [AllThreads -> {"none", "queueInLoop", "quit"}]

InCall(call) == \E t \in Threads : inCall[t] = call

\* No lost wakeup: the loop is never parked in epoll_wait with a functor in its
\* queue unless the eventfd is readable or a thread is about to write it. Early
\* functors are excepted: nobody wakes the loop up for them (see EarlyTasksRun).
NoLostWakeup ==
    (loopAt = "poll" /\ Range(pendingFunctors_) \ EarlyTasks # {})
        => wakeupFd_ \/ InCall("queueInLoop")

\* No lost quit: once loop() has cleared the flag, the loop is never parked in
\* epoll_wait with quit_ set unless the eventfd is readable or about to be.
NoLostQuit ==
    (loopAt = "poll" /\ quit_) => wakeupFd_ \/ InCall("quit")

-----------------------------------------------------------------------------
(* Properties of behaviours.                                               *)

\* The queue implements the abstract one: batches, wakeups and threads only reorder
\* nothing, lose nothing, repeat nothing and nest nothing.
TQ == INSTANCE TaskQueue WITH waiting <- functors \o pendingFunctors_

ImplementsTaskQueue == TQ!TQSpec

Stopped == loopAt \in {"exit", "exited"}

\* A queued functor runs, without any help from the poll timeout, unless the loop
\* leaves loop() first.
QueuedTasksRun ==
    \A task \in Tasks \ EarlyTasks :
        task \in Range(pendingFunctors_) ~> (running = task \/ Stopped)

\* A functor that the loop's own thread queued outside loop() runs too, but there it
\* takes the poll timeout: queueInLoop wakes nobody up for it.
EarlyTasksRun ==
    WF_vars(PollTimeout) =>
        \A task \in EarlyTasks :
            task \in Range(pendingFunctors_) ~> (running = task \/ Stopped)

\* Functors that queue functors for ever do not keep the loop from its descriptors:
\* the swap bounds every batch.
PollsForever == []<>(Stopped \/ loopAt = "poll")
=============================================================================
