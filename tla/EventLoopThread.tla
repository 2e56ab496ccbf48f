--------------------------- MODULE EventLoopThread ---------------------------
(***************************************************************************)
(* EventLoopThread (EventLoopThread.cpp) with its Thread (Thread.cpp) and  *)
(* the EventLoop on the stack of threadFunc: the handshake of startLoop,   *)
(* the destructor, and users of the loop while both are under way.         *)
(*                                                                         *)
(* The loop is EventLoop itself; here it gets a beginning and an end. The  *)
(* one-second sleep of startLoop delays and orders nothing.                *)
(***************************************************************************)
EXTENDS Naturals, Sequences

CONSTANTS
    LoopThread, Threads, Tasks, EarlyTasks, NoTask,     \* of EventLoop
    Owner,       \* the thread that constructs, starts and destroys the EventLoopThread
    UsersQuit    \* anyone but the destructor calls quit()

\* As in EventLoop.
ASSUME ThreadsAssumption == LoopThread \notin Threads
ASSUME TasksAssumption == EarlyTasks \subseteq Tasks /\ NoTask \notin Tasks
ASSUME OwnerAssumption == Owner \in Threads
ASSUME UsersQuitAssumption == UsersQuit \in BOOLEAN

VARIABLES
    looping_, quit_, callingPendingFunctors_, pendingFunctors_, wakeupFd_,
    activeChannels_, functors, running, loopAt, inCall, \* of EventLoop
    loop_,      \* whether the pointer is set; mutex_ is held by whoever changes it
    ownerAt,    \* where the owner is in startLoop and in the destructor
    threadAt,   \* where the thread is in threadFunc
    faults      \* history: what was used after it was destroyed

Loop == INSTANCE EventLoop

loopVars == <<looping_, quit_, callingPendingFunctors_, pendingFunctors_, wakeupFd_,
              activeChannels_, functors, running, loopAt, inCall>>
threadVars == <<loop_, ownerAt, threadAt, faults>>
vars == <<loopVars, threadVars>>

\* "cleared" is the only place where a step ends with mutex_ held.
mutexFree == threadAt # "cleared"

\* The EventLoop is a local variable of threadFunc.
LoopExists == threadAt \in {"callback", "loop", "cleared"}

Init ==
    /\ Loop!Init
    /\ loop_ = FALSE
    /\ ownerAt = "constructed"
    /\ threadAt = "none"
    /\ faults = {}

-----------------------------------------------------------------------------
(* The owner: startLoop.                                                   *)

OwnerGoes(from, to) ==
    /\ ownerAt = from
    /\ ownerAt' = to
    /\ UNCHANGED <<loop_, faults>>

\* Thread::start: it returns when the thread has posted the semaphore.
StartLoop ==
    /\ OwnerGoes("constructed", "locking")
    /\ threadAt' = "callback"
    /\ UNCHANGED loopVars

\* With mutex_ locked: `while (loop_ == nullptr) cond_.wait(lock)`.
TestLoop ==
    /\ mutexFree
    /\ OwnerGoes("locking", IF loop_ THEN "started" ELSE "waiting")
    /\ UNCHANGED <<loopVars, threadAt>>

\* Mutation: the wait is an `if`, so that a spurious wakeup ends it.
SpuriousWakeupReturns ==
    /\ OwnerGoes("waiting", "started")
    /\ UNCHANGED <<loopVars, threadAt>>

SpuriousWakeup ==
    /\ OwnerGoes("waiting", "locking")
    /\ UNCHANGED <<loopVars, threadAt>>

-----------------------------------------------------------------------------
(* The owner: the destructor.                                              *)

\* loop_ is read without mutex_. A thread whose loop has left is detached.
Destroy ==
    /\ \E from \in {"constructed", "started"} :
           OwnerGoes(from, IF loop_ THEN "quitting" ELSE "destroyed")
    /\ inCall[Owner] = "none"
    /\ UNCHANGED <<loopVars, threadAt>>

\* loop_ is read again for quit().
DestroyQuits ==
    /\ loop_
    /\ OwnerGoes("quitting", "joining")
    /\ Loop!Quit(Owner)
    /\ UNCHANGED threadAt

\* It has become null meanwhile.
DestroyQuitsNull ==
    /\ ownerAt = "quitting"
    /\ ~loop_
    /\ ownerAt' = "crashed"
    /\ faults' = faults \cup {"nullLoop"}
    /\ UNCHANGED <<loopVars, loop_, threadAt>>

\* Mutation: the destructor does not wait for the thread.
JoinDetaches ==
    /\ inCall[Owner] = "none"
    /\ OwnerGoes("joining", "destroyed")
    /\ UNCHANGED <<loopVars, threadAt>>

Join ==
    /\ inCall[Owner] = "none"
    /\ threadAt = "gone"
    /\ OwnerGoes("joining", "destroyed")
    /\ UNCHANGED <<loopVars, threadAt>>

-----------------------------------------------------------------------------
(* The thread: threadFunc.                                                 *)

ThreadGoes(from, to) ==
    /\ threadAt = from
    /\ threadAt' = to
    /\ UNCHANGED loopVars

\* Mutation: nobody is notified.
PublishSilently ==
    /\ ThreadGoes("callback", "loop")
    /\ inCall[LoopThread] = "none"
    /\ loop_' = TRUE
    /\ UNCHANGED <<ownerAt, faults>>

\* callback_ has returned: loop_ is set and the owner notified, with mutex_ locked.
Publish ==
    /\ ThreadGoes("callback", "loop")
    /\ inCall[LoopThread] = "none"
    /\ loop_' = TRUE
    /\ ownerAt' = IF ownerAt = "waiting" THEN "locking" ELSE ownerAt
    /\ UNCHANGED faults

\* Mutation: threadFunc does not reset loop_.
ClearNothing ==
    /\ ThreadGoes("loop", "cleared")
    /\ loopAt = "exited"
    /\ UNCHANGED <<loop_, ownerAt, faults>>

\* loop() has returned: loop_ is reset with mutex_ locked.
Clear ==
    /\ ThreadGoes("loop", "cleared")
    /\ loopAt = "exited"
    /\ loop_' = FALSE
    /\ UNCHANGED <<ownerAt, faults>>

\* mutex_ is unlocked, the loop destroyed. The mutex may be gone with its owner.
Return ==
    /\ ThreadGoes("cleared", "gone")
    /\ faults' = IF ownerAt = "destroyed" THEN faults \cup {"mutex"} ELSE faults
    /\ UNCHANGED <<loop_, ownerAt>>

-----------------------------------------------------------------------------
(* The loop and its users. callback_ has the pointer first and may pass it *)
(* on; nobody begins a call once the destructor has been entered.          *)

HasLoop(t) ==
    IF t = LoopThread
    THEN \/ threadAt = "callback"
         \/ threadAt = "loop" /\ loopAt \in {"callback", "functor"}
    ELSE /\ threadAt \in {"callback", "loop"}
         /\ ownerAt \in (IF t = Owner THEN {} ELSE {"locking", "waiting"}) \cup {"started"}

UserCall(t) ==
    /\ HasLoop(t)
    /\ \/ \E task \in Tasks : Loop!QueueInLoop(t, task)
       \/ Loop!Wakeup(t)
       \/ UsersQuit /\ Loop!Quit(t)
    /\ UNCHANGED threadVars

\* The second half of a call, on a loop that may have ended and be gone.
FinishCall(t) ==
    /\ Loop!FinishCall(t)
    /\ faults' = IF LoopExists THEN faults ELSE faults \cup {"loop"}
    /\ UNCHANGED <<loop_, ownerAt, threadAt>>

LoopRuns(step) ==
    /\ threadAt = "loop"
    /\ step
    /\ UNCHANGED threadVars

-----------------------------------------------------------------------------
OwnerStep == TestLoop \/ DestroyQuits \/ DestroyQuitsNull \/ Join

ThreadStep == Publish \/ Clear \/ Return

Next ==
    \/ StartLoop \/ SpuriousWakeup \/ Destroy
    \/ OwnerStep \/ ThreadStep
    \/ \E t \in Threads \cup {LoopThread} : UserCall(t) \/ FinishCall(t)
    \/ LoopRuns(Loop!Poll \/ Loop!LoopStep \/ Loop!UserCodeReturns)

Spec == Init /\ [][Next]_vars

\* Both threads are scheduled, callback_ returns, and the loop is as fair as EventLoop
\* says. Nobody need start or destroy anything, and no wakeup need be spurious.
FairSpec ==
    /\ Spec
    /\ WF_vars(OwnerStep)
    /\ SF_vars(ThreadStep)
    /\ WF_vars(LoopRuns(Loop!LoopStep))
    /\ WF_vars(LoopRuns(Loop!WakeupPoll))
    /\ SF_vars(LoopRuns(Loop!UserCodeReturns))
    /\ \A t \in Threads \cup {LoopThread} : WF_vars(FinishCall(t))

-----------------------------------------------------------------------------
TypeOK ==
    /\ Loop!TypeOK
    /\ loop_ \in BOOLEAN
    /\ ownerAt \in {"constructed", "locking", "waiting", "started", "quitting",
                    "joining", "crashed", "destroyed"}
    /\ threadAt \in {"none", "callback", "loop", "cleared", "gone"}
    /\ faults \subseteq {"nullLoop", "mutex", "loop"}

\* A loop_ that is set points to a loop that exists, although the loop lives on another
\* thread's stack and may be left at any time: what startLoop and the destructor read
\* with mutex_ locked is never dangling.
LoopPointerValid == loop_ => LoopExists

\* The destructor leaves no loop running behind it, whether it quits it or finds it has
\* ended by itself.
NoLoopLeftRunning == ownerAt = "destroyed" => threadAt \notin {"callback", "loop"}

-----------------------------------------------------------------------------
\* startLoop returns a loop, and one that exists, whatever wakes it up.
StartLoopReturnsLoop ==
    [][(ownerAt \in {"locking", "waiting"} /\ ownerAt' = "started") => (loop_ /\ LoopExists)]_vars

\* startLoop returns: no notification is lost. If somebody can quit the loop before
\* startLoop has seen it, that may come first.
StartLoopReturns ==
    (ownerAt \in {"locking", "waiting"}) ~> (ownerAt = "started" \/ loopAt = "exited")

\* The destructor gets to its end if its quit() came after loop() had reset quit_.
QuitThenJoinEnds ==
    (ownerAt = "joining" /\ quit_ /\ loopAt \notin {"created", "entered"})
        ~> ownerAt = "destroyed"

\* The destructor gets to its end (test/test_EventLoopThread.cpp:91). It does not: a
\* quit() before loop() has begun is forgotten, and join() waits for ever.
DestructorEnds == (ownerAt = "quitting") ~> (ownerAt \in {"destroyed", "crashed"})
=============================================================================
