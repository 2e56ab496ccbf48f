------------------------ MODULE EventLoopThreadProofs ------------------------
(***************************************************************************)
(* Proofs about EventLoopThread, for any users and functors: loop_ never   *)
(* dangles, startLoop returns a loop that exists, and the destructor       *)
(* leaves none running. The loop on the thread's stack is an EventLoop in  *)
(* every behaviour, so that it keeps what EventLoopProofs proves.          *)
(***************************************************************************)
EXTENDS EventLoopThread, TLAPS

(* The inductive invariant. *)

\* loop_ is set from publication to the end of loop().
PointerIInv == loop_ <=> threadAt = "loop"

\* How far the thread is, given where the owner is: the owner goes on from startLoop
\* only once loop_ was published, and a destructor that has ended has met a thread that
\* was not started or had left its loop.
OwnerIInv ==
    /\ ownerAt = "constructed" => threadAt = "none"
    /\ ownerAt \in {"started", "quitting", "joining"} =>
           threadAt \in {"loop", "cleared", "gone"}
    /\ ownerAt = "destroyed" => threadAt \in {"none", "cleared", "gone"}

IInv == PointerIInv /\ OwnerIInv

LEMMA InvInit == Init => IInv
  BY DEF Init, IInv, PointerIInv, OwnerIInv

\* Only the owner's and the thread's own actions matter: the users and the loop leave
\* their variables alone.
LEMMA InvStep == IInv /\ [Next]_vars => IInv'
<1> SUFFICES ASSUME IInv, [Next]_vars
             PROVE  IInv'
  OBVIOUS
<1> USE DEF IInv, PointerIInv, OwnerIInv
<1>1. CASE StartLoop
  BY <1>1 DEF StartLoop, OwnerGoes
<1>2. CASE SpuriousWakeup
  BY <1>2 DEF SpuriousWakeup, OwnerGoes
<1>3. CASE TestLoop
  BY <1>3 DEF TestLoop, OwnerGoes
<1>4. CASE Destroy
  BY <1>4 DEF Destroy, OwnerGoes
<1>5. CASE DestroyQuits
  BY <1>5 DEF DestroyQuits, OwnerGoes
<1>6. CASE DestroyQuitsNull
  BY <1>6 DEF DestroyQuitsNull
<1>7. CASE Join
  BY <1>7 DEF Join, OwnerGoes
<1>8. CASE Publish
  <2>1. loop_' = TRUE /\ threadAt = "callback" /\ threadAt' = "loop"
    BY <1>8 DEF Publish, ThreadGoes
  <2>2. ownerAt' = ownerAt \/ ownerAt' = "locking"
    BY <1>8 DEF Publish
  <2>3. PointerIInv'
    BY <2>1, Zenon
  <2>4. OwnerIInv'
    BY <2>1, <2>2
  <2> QED
    BY <2>3, <2>4
<1>9. CASE Clear
  <2>1. loop_' = FALSE /\ threadAt = "loop" /\ threadAt' = "cleared"
    BY <1>9 DEF Clear, ThreadGoes
  <2>2. ownerAt' = ownerAt
    BY <1>9 DEF Clear
  <2>3. PointerIInv'
    BY <2>1
  <2>4. OwnerIInv'
    BY <2>1, <2>2
  <2> QED
    BY <2>3, <2>4
<1>10. CASE Return
  BY <1>10 DEF Return, ThreadGoes
<1>11. CASE UNCHANGED <<loop_, ownerAt, threadAt>>
  BY <1>11
<1>12. ASSUME NEW t \in Threads \cup {LoopThread}, UserCall(t) \/ FinishCall(t)
       PROVE  UNCHANGED <<loop_, ownerAt, threadAt>>
  BY <1>12 DEF UserCall, FinishCall, threadVars
<1>13. ASSUME LoopRuns(Loop!Poll \/ Loop!LoopStep \/ Loop!UserCodeReturns)
       PROVE  UNCHANGED <<loop_, ownerAt, threadAt>>
  BY <1>13 DEF LoopRuns, threadVars
<1>14. ASSUME UNCHANGED vars
       PROVE  UNCHANGED <<loop_, ownerAt, threadAt>>
  BY <1>14 DEF vars, threadVars
<1> QED
  BY <1>1, <1>2, <1>3, <1>4, <1>5, <1>6, <1>7, <1>8, <1>9, <1>10, <1>11, <1>12,
     <1>13, <1>14
  DEF Next, OwnerStep, ThreadStep

LEMMA Invariance == Spec => []IInv
  BY InvInit, InvStep, PTL DEF Spec

-----------------------------------------------------------------------------
(* The loop of the thread is EventLoop, which keeps its promises there.    *)

LoopProofs == INSTANCE EventLoopProofs

\* The loop of EventLoopThread and the one the theorems of EventLoopProofs are about
\* have the same definitions.
LEMMA SameLoop ==
    /\ Loop!Init <=> LoopProofs!Init
    /\ Loop!Next <=> LoopProofs!Next
<1>1. Loop!Init <=> LoopProofs!Init
  BY DEF Loop!Init, LoopProofs!Init, Loop!AllThreads, LoopProofs!AllThreads
<1>2. \A t : Loop!Call(t) <=> LoopProofs!Call(t)
  BY DEF Loop!Call, LoopProofs!Call, Loop!QueueInLoop, LoopProofs!QueueInLoop,
           Loop!Quit, LoopProofs!Quit, Loop!Wakeup, LoopProofs!Wakeup,
           Loop!CanCall, LoopProofs!CanCall, Loop!InFlight, LoopProofs!InFlight,
           Loop!Range, LoopProofs!Range, Loop!OutsideLoop, LoopProofs!OutsideLoop,
           Loop!UserCode, LoopProofs!UserCode, Loop!queueVars, LoopProofs!queueVars
<1>3. \A t : Loop!FinishCall(t) <=> LoopProofs!FinishCall(t)
  BY DEF Loop!FinishCall, LoopProofs!FinishCall,
           Loop!QueueInLoopWakeup, LoopProofs!QueueInLoopWakeup,
           Loop!QuitWakeup, LoopProofs!QuitWakeup,
           Loop!NeedsWakeup, LoopProofs!NeedsWakeup, Loop!queueVars, LoopProofs!queueVars
<1>4. Loop!Poll <=> LoopProofs!Poll
  BY DEF Loop!Poll, LoopProofs!Poll, Loop!PollEvents, LoopProofs!PollEvents,
           Loop!PollTimeout, LoopProofs!PollTimeout, Loop!LoopGoes, LoopProofs!LoopGoes,
           Loop!Channels, LoopProofs!Channels, Loop!queueVars, LoopProofs!queueVars
<1>5. Loop!LoopStep <=> LoopProofs!LoopStep
  BY DEF Loop!LoopStep, LoopProofs!LoopStep, Loop!ResetQuit, LoopProofs!ResetQuit,
           Loop!TestQuit, LoopProofs!TestQuit, Loop!HandleRead, LoopProofs!HandleRead,
           Loop!HandleEvent, LoopProofs!HandleEvent,
           Loop!StartPending, LoopProofs!StartPending,
           Loop!SwapFunctors, LoopProofs!SwapFunctors,
           Loop!RunFunctor, LoopProofs!RunFunctor,
           Loop!FinishPending, LoopProofs!FinishPending,
           Loop!ExitLoop, LoopProofs!ExitLoop, Loop!LoopGoes, LoopProofs!LoopGoes,
           Loop!queueVars, LoopProofs!queueVars
<1>6. /\ Loop!UserCodeReturns <=> LoopProofs!UserCodeReturns
      /\ Loop!EnterLoop("exited") <=> LoopProofs!EnterLoop("exited")
  BY DEF Loop!UserCodeReturns, LoopProofs!UserCodeReturns,
           Loop!EnterLoop, LoopProofs!EnterLoop,
           Loop!CallbackReturns, LoopProofs!CallbackReturns,
           Loop!FunctorReturns, LoopProofs!FunctorReturns,
           Loop!LoopGoes, LoopProofs!LoopGoes, Loop!queueVars, LoopProofs!queueVars
<1>7. Loop!Next <=> LoopProofs!Next
  BY <1>2, <1>3, <1>4, <1>5, <1>6 DEF Loop!Next, LoopProofs!Next, Loop!AllThreads, LoopProofs!AllThreads
<1> QED
  BY <1>1, <1>7

LEMMA LoopAssumptions == LoopProofs!ThreadsAssumption /\ LoopProofs!TasksAssumption
  BY ThreadsAssumption, TasksAssumption
     DEF LoopProofs!ThreadsAssumption, LoopProofs!TasksAssumption

\* What the owner, the thread and the users do to the loop are steps of EventLoop, or
\* leave it alone.
LEMMA LoopSteps == [Next]_vars => [Loop!Next]_Loop!vars
<1> SUFFICES ASSUME Next PROVE Loop!Next \/ UNCHANGED loopVars
  BY DEF vars, loopVars, Loop!vars
<1>1. CASE StartLoop \/ SpuriousWakeup \/ Destroy \/ TestLoop \/ DestroyQuitsNull \/ Join
  BY <1>1 DEF StartLoop, SpuriousWakeup, Destroy, TestLoop, DestroyQuitsNull, Join
<1>2. CASE DestroyQuits
  <2>1. Loop!Quit(Owner) /\ Owner \in Loop!AllThreads
    BY <1>2, OwnerAssumption DEF DestroyQuits, Loop!AllThreads
  <2> QED
    BY <2>1 DEF Loop!Next, Loop!Call
<1>3. CASE ThreadStep
  BY <1>3 DEF ThreadStep, Publish, Clear, Return, ThreadGoes
<1>4. ASSUME NEW t \in Threads \cup {LoopThread}, UserCall(t) \/ FinishCall(t)
      PROVE  Loop!Next
  <2>1. t \in Loop!AllThreads
    BY DEF Loop!AllThreads
  <2>2. Loop!Call(t) \/ Loop!FinishCall(t)
    BY <1>4 DEF UserCall, FinishCall, Loop!Call
  <2> QED
    BY <2>1, <2>2 DEF Loop!Next
<1>5. CASE LoopRuns(Loop!Poll \/ Loop!LoopStep \/ Loop!UserCodeReturns)
  BY <1>5 DEF LoopRuns, Loop!Next
<1> QED
  BY <1>1, <1>2, <1>3, <1>4, <1>5 DEF Next, OwnerStep

LEMMA LoopBehaves == Spec => LoopProofs!Spec
<1>1. Init => LoopProofs!Init
  BY SameLoop DEF Init
<1>2. [Next]_vars => [LoopProofs!Next]_LoopProofs!vars
  BY LoopSteps, SameLoop DEF Loop!vars, LoopProofs!vars
<1> QED
  BY <1>1, <1>2, PTL DEF Spec, LoopProofs!Spec

-----------------------------------------------------------------------------
\* What loop_ points to exists whenever it is set (threadFunc resets it with mutex_
\* locked before the loop goes out of scope).
THEOREM LoopNeverDangles == Spec => []LoopPointerValid
<1>1. IInv => LoopPointerValid
  BY DEF IInv, PointerIInv, LoopPointerValid, LoopExists
<1> QED
  BY <1>1, Invariance, PTL

\* After ~EventLoopThread no loop of its thread runs.
THEOREM DestructorLeavesNoLoop == Spec => []NoLoopLeftRunning
<1>1. IInv => NoLoopLeftRunning
  BY DEF IInv, OwnerIInv, NoLoopLeftRunning
<1> QED
  BY <1>1, Invariance, PTL

\* The pointer startLoop returns is set and points to a loop that exists, spurious
\* wakeups and loops that end early included.
THEOREM StartLoopIsRight == Spec => StartLoopReturnsLoop
<1> DEFINE Returns == ownerAt \in {"locking", "waiting"} /\ ownerAt' = "started"
<1>1. IInv /\ [Next]_vars => (Returns => loop_ /\ LoopExists)
  <2> SUFFICES ASSUME IInv, [Next]_vars, Returns
               PROVE  loop_ /\ LoopExists
    OBVIOUS
  <2>1. CASE TestLoop
    BY <2>1 DEF TestLoop, OwnerGoes, IInv, PointerIInv, LoopExists
  <2>2. CASE UNCHANGED ownerAt
    BY <2>2
  <2>3. CASE StartLoop \/ SpuriousWakeup \/ Destroy \/ DestroyQuits \/ DestroyQuitsNull \/ Join
    BY <2>3 DEF StartLoop, SpuriousWakeup, Destroy, DestroyQuits, DestroyQuitsNull, Join,
                OwnerGoes
  <2>4. CASE Publish
    BY <2>4 DEF Publish
  <2>5. ASSUME \/ Clear \/ Return
               \/ \E t \in Threads \cup {LoopThread} : UserCall(t) \/ FinishCall(t)
               \/ LoopRuns(Loop!Poll \/ Loop!LoopStep \/ Loop!UserCodeReturns)
               \/ UNCHANGED vars
        PROVE  UNCHANGED ownerAt
    BY <2>5 DEF Clear, Return, UserCall, FinishCall, LoopRuns, vars, threadVars
  <2> QED
    BY <2>1, <2>2, <2>3, <2>4, <2>5 DEF Next, OwnerStep, ThreadStep
<1> QED
  BY <1>1, Invariance, PTL DEF Spec, StartLoopReturnsLoop

\* The loop on the stack of threadFunc does nothing EventLoop does not do, whatever the
\* owner, the thread and the users do around it.
THEOREM ThreadRunsEventLoop == Spec => Loop!Spec
<1>1. Init => Loop!Init
  BY DEF Init
<1> QED
  BY <1>1, LoopSteps, PTL DEF Spec, Loop!Spec

\* Every variable keeps its type, those of the loop included.
THEOREM TypeCorrect == Spec => []TypeOK
<1> DEFINE OwnTypes ==
      /\ loop_ \in BOOLEAN
      /\ ownerAt \in {"constructed", "locking", "waiting", "started", "quitting",
                      "joining", "crashed", "destroyed"}
      /\ threadAt \in {"none", "callback", "loop", "cleared", "gone"}
      /\ faults \subseteq {"nullLoop", "mutex", "loop"}
<1>1. Init => OwnTypes
  BY DEF Init
<1>2. OwnTypes /\ [Next]_vars => OwnTypes'
  <2> SUFFICES ASSUME OwnTypes, [Next]_vars PROVE OwnTypes'
    OBVIOUS
  <2>1. CASE StartLoop \/ SpuriousWakeup \/ Destroy
    BY <2>1 DEF StartLoop, SpuriousWakeup, Destroy, OwnerGoes
  <2>2. CASE OwnerStep
    BY <2>2 DEF OwnerStep, TestLoop, DestroyQuits, DestroyQuitsNull, Join, OwnerGoes
  <2>3. CASE ThreadStep
    BY <2>3 DEF ThreadStep, Publish, Clear, Return, ThreadGoes
  <2>4. ASSUME NEW t \in Threads \cup {LoopThread}, UserCall(t) \/ FinishCall(t)
        PROVE  OwnTypes'
    BY <2>4 DEF UserCall, FinishCall, threadVars
  <2>5. CASE LoopRuns(Loop!Poll \/ Loop!LoopStep \/ Loop!UserCodeReturns)
    BY <2>5 DEF LoopRuns, threadVars
  <2>6. CASE UNCHANGED vars
    BY <2>6 DEF vars, threadVars
  <2> QED
    BY <2>1, <2>2, <2>3, <2>4, <2>5, <2>6 DEF Next
<1>3. LoopProofs!TypeOK => Loop!TypeOK
  BY DEF Loop!TypeOK, LoopProofs!TypeOK, Loop!AllThreads, LoopProofs!AllThreads,
           Loop!Channels, LoopProofs!Channels, Loop!Locations, LoopProofs!Locations
<1>4. OwnTypes /\ Loop!TypeOK => TypeOK
  BY DEF TypeOK
<1> HIDE DEF OwnTypes
<1>5. LoopProofs!Spec => []LoopProofs!TypeOK
  BY LoopProofs!TypeCorrect, LoopAssumptions
<1>6. Spec => []OwnTypes
  BY <1>1, <1>2, PTL DEF Spec
<1> QED
  BY <1>3, <1>4, <1>5, <1>6, LoopBehaves, PTL

\* The loop of an EventLoopThread never waits in epoll_wait with a functor in its queue
\* that is not an early one, or with quit_ set, unless the eventfd is readable or a call
\* that writes it is under way, whoever uses the thread and whenever it is started and
\* destroyed. It does not say that quit_ stays set: loop() clears it when it begins, and a
\* quit() of the destructor that came before is forgotten (see DestructorEnds).
THEOREM ThreadLoopIsWoken == Spec => [](Loop!NoLostWakeup /\ Loop!NoLostQuit)
<1>1. LoopProofs!Spec => []LoopProofs!NoLostWakeup
  BY LoopProofs!NoWakeupIsLost, LoopAssumptions
<1>2. LoopProofs!Spec => []LoopProofs!NoLostQuit
  BY LoopProofs!NoQuitIsLost, LoopAssumptions
<1>3. LoopProofs!NoLostWakeup => Loop!NoLostWakeup
  BY DEF Loop!NoLostWakeup, LoopProofs!NoLostWakeup, Loop!InCall, LoopProofs!InCall,
         Loop!Range, LoopProofs!Range
<1>4. LoopProofs!NoLostQuit => Loop!NoLostQuit
  BY DEF Loop!NoLostQuit, LoopProofs!NoLostQuit, Loop!InCall, LoopProofs!InCall
<1> QED
  BY <1>1, <1>2, <1>3, <1>4, LoopBehaves, PTL
=============================================================================
