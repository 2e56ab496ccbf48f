-------------------------- MODULE EventLoopProofs --------------------------
(***************************************************************************)
(* Proofs about EventLoop, for any set of threads and of functors: its     *)
(* type invariant, the absence of lost wakeups and of lost quits, and that *)
(* it implements TaskQueue.                                                *)
(***************************************************************************)
EXTENDS EventLoop, SequenceTheorems, TLAPS

(* The inductive invariant. *)

\* callingPendingFunctors_ tells where the loop's thread is.
FlagIInv == callingPendingFunctors_ <=> loopAt \in {"swap", "run", "functor"}

\* A batch exists only while doPendingFunctors runs it, and a functor is being
\* executed exactly at "functor".
BatchIInv ==
    /\ functors # <<>> => loopAt \in {"run", "functor"}
    /\ running # NoTask <=> loopAt = "functor"

\* The loop's own thread makes calls from user code only.
CallIInv == inCall[LoopThread] # "none" => loopAt \in UserCode

Late == Range(pendingFunctors_) \ EarlyTasks # {}

\* Whoever will make the loop look at its queue: the eventfd, a thread about to write
\* it, or the loop itself, which is past epoll_wait and will swap before it returns
\* there. A functor that is queueing has not reached wakeup() yet.
WakeupIInv ==
    Late =>
        \/ wakeupFd_
        \/ InCall("queueInLoop")
        \/ loopAt \in {"dispatch", "callback", "swap"}
        \/ loopAt = "functor" /\ inCall[LoopThread] = "queueInLoop"

IInv ==
    /\ TypeOK
    /\ FlagIInv
    /\ BatchIInv
    /\ CallIInv
    /\ WakeupIInv
    /\ NoLostQuit

LEMMA RangeAppend ==
    ASSUME NEW S, NEW seq \in Seq(S), NEW e \in S
    PROVE  Range(Append(seq, e)) = Range(seq) \cup {e}
<1>1. /\ DOMAIN Append(seq, e) = 1..(Len(seq) + 1)
      /\ Append(seq, e)[Len(seq) + 1] = e
      /\ \A i \in 1..Len(seq) : Append(seq, e)[i] = seq[i]
  BY AppendProperties, LenProperties
<1>2. DOMAIN seq = 1..Len(seq) /\ Len(seq) \in Nat
  BY LenProperties
<1>3. 1..(Len(seq) + 1) = 1..Len(seq) \cup {Len(seq) + 1}
  BY <1>2
<1> QED
  BY <1>1, <1>2, <1>3, Zenon DEF Range

LEMMA RangeEmpty == Range(<<>>) = {}
  BY DEF Range

-----------------------------------------------------------------------------
(* Type correctness.                                                       *)

LEMMA TypeInit == Init => TypeOK
<1> SUFFICES ASSUME Init
             PROVE  TypeOK
  OBVIOUS
<1>1. looping_ \in BOOLEAN /\ quit_ \in BOOLEAN
      /\ callingPendingFunctors_ \in BOOLEAN /\ wakeupFd_ \in BOOLEAN
  BY Zenon DEF Init
<1>2. pendingFunctors_ \in Seq(Tasks) /\ functors \in Seq(Tasks)
  BY DEF Init
<1> QED
  BY <1>1, <1>2 DEF Init, TypeOK, Locations

LEMMA TypeStep == TypeOK /\ [Next]_vars => TypeOK'
<1> SUFFICES ASSUME TypeOK, [Next]_vars
             PROVE  TypeOK'
  OBVIOUS
<1> USE TypeOK DEF TypeOK, LoopGoes, Locations
<1>1. ASSUME NEW t \in AllThreads, Call(t)
      PROVE  TypeOK'
  <2>1. ASSUME NEW task \in Tasks, QueueInLoop(t, task)
        PROVE  TypeOK'
    BY <2>1 DEF QueueInLoop
  <2>2. ASSUME Quit(t)
        PROVE  TypeOK'
    BY <2>2 DEF Quit, queueVars
  <2>3. ASSUME Wakeup(t)
        PROVE  TypeOK'
    BY <2>3 DEF Wakeup, queueVars
  <2> QED
    BY <1>1, <2>1, <2>2, <2>3 DEF Call
<1>2. ASSUME NEW t \in AllThreads, FinishCall(t)
      PROVE  TypeOK'
  BY <1>2 DEF FinishCall, QueueInLoopWakeup, QuitWakeup, queueVars, NeedsWakeup
<1>3. CASE Poll
  BY <1>3 DEF Poll, PollEvents, PollTimeout, queueVars
<1>4. CASE LoopStep
  <2>1. CASE ResetQuit \/ TestQuit \/ ExitLoop
    BY <2>1 DEF ResetQuit, TestQuit, ExitLoop, queueVars
  <2>2. CASE HandleRead \/ HandleEvent
    BY <2>2 DEF HandleRead, HandleEvent, queueVars
  <2>3. CASE StartPending \/ FinishPending
    BY <2>3, Zenon DEF StartPending, FinishPending, queueVars
  <2>5. CASE SwapFunctors
    BY <2>5 DEF SwapFunctors
  <2>4. CASE RunFunctor
    BY <2>4, HeadTailProperties DEF RunFunctor, queueVars
  <2> QED
    BY <1>4, <2>1, <2>2, <2>3, <2>4, <2>5 DEF LoopStep
<1>5. CASE UserCodeReturns \/ EnterLoop("exited")
  BY <1>5 DEF UserCodeReturns, EnterLoop, CallbackReturns, FunctorReturns, queueVars
<1>6. CASE UNCHANGED vars
  BY <1>6 DEF vars
<1> QED
  BY <1>1, <1>2, <1>3, <1>4, <1>5, <1>6 DEF Next

\* Every variable keeps its type: what the threads queue are functors, what the
\* loop runs is one of them.
THEOREM TypeCorrect == Spec => []TypeOK
  BY TypeInit, TypeStep, PTL DEF Spec

-----------------------------------------------------------------------------
(* The invariant, one conjunct at a time.                                  *)

LEMMA InvInit == Init => IInv
<1> SUFFICES ASSUME Init
             PROVE  IInv
  OBVIOUS
<1>1. FlagIInv
  BY Zenon DEF Init, FlagIInv
<1>2. BatchIInv /\ CallIInv
  BY DEF Init, BatchIInv, CallIInv, AllThreads
<1>3. WakeupIInv
  BY RangeEmpty DEF Init, WakeupIInv, Late
<1>4. NoLostQuit
  BY DEF Init, NoLostQuit
<1> QED
  BY <1>1, <1>2, <1>3, <1>4, TypeInit DEF IInv

LEMMA FlagStep == FlagIInv /\ [Next]_vars => FlagIInv'
<1> SUFFICES ASSUME FlagIInv, [Next]_vars
             PROVE  FlagIInv'
  OBVIOUS
<1> DEFINE InPending == loopAt \in {"swap", "run", "functor"}
           Same == /\ callingPendingFunctors_' = callingPendingFunctors_
                   /\ InPending' <=> InPending
<1>1. CASE \E t \in AllThreads : Call(t) \/ FinishCall(t)
  <2>1. Same
    BY <1>1 DEF Call, QueueInLoop, Quit, Wakeup, FinishCall, QueueInLoopWakeup,
                QuitWakeup
  <2> QED
    BY <2>1, Zenon DEF FlagIInv
<1>2. CASE Poll
  <2>1. Same
    BY <1>2 DEF Poll, PollEvents, PollTimeout, LoopGoes
  <2> QED
    BY <2>1, Zenon DEF FlagIInv
<1>3. CASE LoopStep
  <2>1. CASE ResetQuit \/ TestQuit \/ ExitLoop \/ HandleRead \/ HandleEvent
             \/ SwapFunctors \/ RunFunctor
    <3>1. Same
      BY <2>1 DEF ResetQuit, TestQuit, ExitLoop, HandleRead, HandleEvent,
                  SwapFunctors, RunFunctor, LoopGoes
    <3> QED
      BY <3>1, Zenon DEF FlagIInv
  <2>2. CASE StartPending
    <3>1. callingPendingFunctors_' = TRUE
      BY <2>2, Zenon DEF StartPending
    <3>2. InPending'
      BY <2>2 DEF StartPending, LoopGoes
    <3> QED
      BY <3>1, <3>2, Zenon DEF FlagIInv
  <2>3. CASE FinishPending
    <3>1. callingPendingFunctors_' = FALSE
      BY <2>3, Zenon DEF FinishPending
    <3>2. ~InPending'
      BY <2>3 DEF FinishPending, LoopGoes
    <3> QED
      BY <3>1, <3>2, Zenon DEF FlagIInv
  <2> QED
    BY <1>3, <2>1, <2>2, <2>3 DEF LoopStep
<1>4. CASE UserCodeReturns \/ EnterLoop("exited")
  <2>1. Same
    BY <1>4 DEF UserCodeReturns, EnterLoop, CallbackReturns, FunctorReturns, LoopGoes
  <2> QED
    BY <2>1, Zenon DEF FlagIInv
<1>5. CASE UNCHANGED vars
  <2>1. Same
    BY <1>5 DEF vars
  <2> QED
    BY <2>1, Zenon DEF FlagIInv
<1> QED
  BY <1>1, <1>2, <1>3, <1>4, <1>5, Zenon DEF Next

LEMMA BatchStep == TypeOK /\ BatchIInv /\ [Next]_vars => BatchIInv'
<1> SUFFICES ASSUME TypeOK, BatchIInv, [Next]_vars
             PROVE  BatchIInv'
  OBVIOUS
<1> USE BatchIInv DEF BatchIInv, LoopGoes, queueVars
<1>1. CASE \E t \in AllThreads : Call(t) \/ FinishCall(t)
  BY <1>1 DEF Call, QueueInLoop, Quit, Wakeup, FinishCall, QueueInLoopWakeup,
              QuitWakeup
<1>2. CASE Poll
  BY <1>2 DEF Poll, PollEvents, PollTimeout
<1>3. CASE LoopStep
  <2>1. CASE RunFunctor
    BY <2>1, HeadTailProperties, TasksAssumption DEF RunFunctor, TypeOK
  <2> QED
    BY <1>3, <2>1 DEF LoopStep, ResetQuit, TestQuit, ExitLoop, HandleRead,
       HandleEvent, StartPending, SwapFunctors, FinishPending
<1>4. CASE UserCodeReturns \/ EnterLoop("exited")
  BY <1>4 DEF UserCodeReturns, EnterLoop, CallbackReturns, FunctorReturns
<1>5. CASE UNCHANGED vars
  BY <1>5 DEF vars
<1> QED
  BY <1>1, <1>2, <1>3, <1>4, <1>5 DEF Next

LEMMA CallStep == TypeOK /\ CallIInv /\ [Next]_vars => CallIInv'
<1> SUFFICES ASSUME TypeOK, CallIInv, [Next]_vars
             PROVE  CallIInv'
  OBVIOUS
<1> USE CallIInv DEF CallIInv, LoopGoes, UserCode, TypeOK, AllThreads
<1>1. ASSUME NEW t \in AllThreads, Call(t)
      PROVE  CallIInv'
  BY <1>1 DEF Call, CanCall, QueueInLoop, Quit, Wakeup
<1>2. ASSUME NEW t \in AllThreads, FinishCall(t)
      PROVE  CallIInv'
  BY <1>2 DEF FinishCall, QueueInLoopWakeup, QuitWakeup
<1>3. CASE Poll
  BY <1>3 DEF Poll, PollEvents, PollTimeout
<1>4. CASE LoopStep
  BY <1>4 DEF LoopStep, ResetQuit, TestQuit, ExitLoop, HandleRead, HandleEvent,
     StartPending, SwapFunctors, RunFunctor, FinishPending
<1>5. CASE UserCodeReturns \/ EnterLoop("exited")
  BY <1>5 DEF UserCodeReturns, EnterLoop, CallbackReturns, FunctorReturns
<1>6. CASE UNCHANGED vars
  BY <1>6 DEF vars
<1> QED
  BY <1>1, <1>2, <1>3, <1>4, <1>5, <1>6 DEF Next

\* Queueing from the loop's own thread outside loop() is early; anywhere else the
\* thread that queues, or the place the loop is at, is a disjunct of WakeupIInv.
LEMMA WakeupStep ==
    TypeOK /\ FlagIInv /\ CallIInv /\ WakeupIInv /\ [Next]_vars => WakeupIInv'
<1> SUFFICES ASSUME TypeOK, FlagIInv, CallIInv, WakeupIInv, [Next]_vars
             PROVE  WakeupIInv'
  OBVIOUS
<1> USE WakeupIInv DEF WakeupIInv, LoopGoes, queueVars, Late, InCall, AllThreads
<1>1. ASSUME NEW t \in AllThreads, NEW task \in Tasks, QueueInLoop(t, task)
      PROVE  WakeupIInv'
  <2>1. Range(pendingFunctors_') = Range(pendingFunctors_) \cup {task}
    BY <1>1, RangeAppend DEF QueueInLoop, TypeOK
  <2>2. CASE t \in Threads
    BY <1>1, <2>2 DEF QueueInLoop, TypeOK
  <2>3. CASE t = LoopThread /\ OutsideLoop
    <3>1. Late' => Late
      BY <1>1, <2>1, <2>3 DEF QueueInLoop
    <3>2. InCall("queueInLoop") => InCall("queueInLoop")'
      BY <1>1, <2>3, ThreadsAssumption DEF QueueInLoop, TypeOK
    <3> QED
      BY <1>1, <2>3, <3>1, <3>2 DEF QueueInLoop, OutsideLoop
  <2>4. CASE t = LoopThread /\ ~OutsideLoop
    BY <1>1, <2>4 DEF QueueInLoop, CanCall, UserCode, OutsideLoop, TypeOK
  <2> QED
    BY <2>2, <2>3, <2>4
<1>2. ASSUME NEW t \in AllThreads, QueueInLoopWakeup(t)
      PROVE  WakeupIInv'
  <2>1. CASE NeedsWakeup(t)
    BY <1>2, <2>1, Zenon DEF QueueInLoopWakeup
  <2>2. CASE ~NeedsWakeup(t)
    <3>1. t = LoopThread /\ loopAt # "functor"
      BY <2>2, Zenon DEF NeedsWakeup, FlagIInv
    <3>2. InCall("queueInLoop") => InCall("queueInLoop")'
      BY <1>2, <3>1, ThreadsAssumption DEF QueueInLoopWakeup, TypeOK
    <3>3. wakeupFd_ => wakeupFd_'
      BY <1>2, Zenon DEF QueueInLoopWakeup
    <3> QED
      BY <1>2, <3>1, <3>2, <3>3 DEF QueueInLoopWakeup
  <2> QED
    BY <2>1, <2>2
<1>3. ASSUME NEW t \in AllThreads, Quit(t)
      PROVE  WakeupIInv'
  BY <1>3, ThreadsAssumption DEF Quit, CanCall, TypeOK
<1>4. ASSUME NEW t \in AllThreads, QuitWakeup(t)
      PROVE  WakeupIInv'
  <2>1. wakeupFd_ => wakeupFd_'
    BY <1>4, Zenon DEF QuitWakeup
  <2> QED
    BY <1>4, <2>1 DEF QuitWakeup, TypeOK
<1>5. ASSUME NEW t \in AllThreads, Wakeup(t)
      PROVE  WakeupIInv'
  BY <1>5, Zenon DEF Wakeup
<1>6. CASE Poll
  BY <1>6 DEF Poll, PollEvents, PollTimeout
<1>7. CASE LoopStep
  <2>1. CASE HandleRead
    BY <2>1 DEF HandleRead
  <2>2. CASE SwapFunctors
    BY <2>2, RangeEmpty DEF SwapFunctors
  <2>3. CASE ResetQuit \/ TestQuit \/ HandleEvent \/ StartPending \/ RunFunctor
             \/ FinishPending \/ ExitLoop
    BY <2>3 DEF ResetQuit, TestQuit, HandleEvent, StartPending, RunFunctor,
                FinishPending, ExitLoop
  <2> QED
    BY <1>7, <2>1, <2>2, <2>3 DEF LoopStep
<1>8. CASE UserCodeReturns \/ EnterLoop("exited")
  BY <1>8 DEF UserCodeReturns, EnterLoop, CallbackReturns, FunctorReturns
<1>9. CASE UNCHANGED vars
  BY <1>9 DEF vars
<1> QED
  BY <1>1, <1>2, <1>3, <1>4, <1>5, <1>6, <1>7, <1>8, <1>9
  DEF Next, Call, FinishCall

LEMMA QuitStep == TypeOK /\ NoLostQuit /\ [Next]_vars => NoLostQuit'
<1> SUFFICES ASSUME TypeOK, NoLostQuit, [Next]_vars
             PROVE  NoLostQuit'
  OBVIOUS
<1> USE NoLostQuit DEF NoLostQuit, LoopGoes, queueVars, InCall, AllThreads
<1>1. ASSUME NEW t \in AllThreads, Call(t)
      PROVE  NoLostQuit'
  <2>1. ASSUME NEW task \in Tasks, QueueInLoop(t, task)
        PROVE  NoLostQuit'
    BY <2>1 DEF QueueInLoop, CanCall, TypeOK
  <2>2. CASE Quit(t)
    BY <2>2 DEF Quit, CanCall, UserCode, TypeOK
  <2>3. CASE Wakeup(t)
    BY <2>3, Zenon DEF Wakeup
  <2> QED
    BY <1>1, <2>1, <2>2, <2>3 DEF Call
<1>2. ASSUME NEW t \in AllThreads, QueueInLoopWakeup(t)
      PROVE  NoLostQuit'
  <2>1. wakeupFd_ => wakeupFd_'
    BY <1>2, Zenon DEF QueueInLoopWakeup
  <2> QED
    BY <1>2, <2>1 DEF QueueInLoopWakeup, TypeOK
<1>3. ASSUME NEW t \in AllThreads, QuitWakeup(t)
      PROVE  NoLostQuit'
  <2>1. CASE t \in Threads
    BY <1>3, <2>1, ThreadsAssumption, Zenon DEF QuitWakeup
  <2>2. CASE t = LoopThread
    <3>1. wakeupFd_ => wakeupFd_'
      BY <1>3, Zenon DEF QuitWakeup
    <3> QED
      BY <1>3, <2>2, <3>1, ThreadsAssumption DEF QuitWakeup, TypeOK
  <2> QED
    BY <2>1, <2>2
<1>4. CASE Poll
  BY <1>4 DEF Poll, PollEvents, PollTimeout
<1>5. CASE LoopStep
  <2>1. CASE TestQuit
    BY <2>1 DEF TestQuit
  <2> QED
    BY <1>5, <2>1 DEF LoopStep, ResetQuit, HandleRead, HandleEvent,
       StartPending, SwapFunctors, RunFunctor, FinishPending, ExitLoop
<1>6. CASE UserCodeReturns \/ EnterLoop("exited")
  BY <1>6 DEF UserCodeReturns, EnterLoop, CallbackReturns, FunctorReturns
<1>7. CASE UNCHANGED vars
  BY <1>7 DEF vars
<1> QED
  BY <1>1, <1>2, <1>3, <1>4, <1>5, <1>6, <1>7 DEF Next, FinishCall

LEMMA InvStep == IInv /\ [Next]_vars => IInv'
  BY TypeStep, FlagStep, BatchStep, CallStep, WakeupStep, QuitStep DEF IInv

LEMMA Invariance == Spec => []IInv
  BY InvInit, InvStep, PTL DEF Spec

-----------------------------------------------------------------------------
(* The safety properties.                                                  *)

\* The loop never waits in epoll_wait for work that is already in its queue and that
\* nobody is about to announce (the wakeup conditions at the end of queueInLoop).
THEOREM NoWakeupIsLost == Spec => []NoLostWakeup
<1>1. IInv => NoLostWakeup
  BY DEF IInv, WakeupIInv, Late, NoLostWakeup
<1> QED
  BY <1>1, Invariance, PTL

\* A quit() that finds the loop past the reset of quit_ is never slept through.
THEOREM NoQuitIsLost == Spec => []NoLostQuit
<1>1. IInv => NoLostQuit
  BY DEF IInv
<1> QED
  BY <1>1, Invariance, PTL

-----------------------------------------------------------------------------
(* EventLoop implements TaskQueue: queueInLoop accepts, the for loop of    *)
(* doPendingFunctors starts and finishes, everything else stutters.        *)

LEMMA RefinementInit == Init => TQ!TQInit
  BY DEF Init, TQ!TQInit

LEMMA RefinementStep == IInv /\ [Next]_vars => [TQ!TQNext]_TQ!tqVars
<1> SUFFICES ASSUME IInv, [Next]_vars
             PROVE  [TQ!TQNext]_TQ!tqVars
  OBVIOUS
<1> USE DEF TQ!tqVars, queueVars, LoopGoes
<1>0. TypeOK /\ BatchIInv
  BY DEF IInv
<1>1. ASSUME NEW t \in AllThreads, NEW task \in Tasks, QueueInLoop(t, task)
      PROVE  TQ!Accept(task)
  BY <1>0, <1>1 DEF QueueInLoop, TQ!Accept, TypeOK
<1>2. CASE SwapFunctors
  <2>1. functors = <<>>
    BY <1>0, <1>2 DEF BatchIInv, SwapFunctors
  <2> QED
    BY <1>0, <1>2, <2>1 DEF SwapFunctors, TypeOK
<1>3. CASE RunFunctor
  <2>1. running = NoTask
    BY <1>0, <1>3 DEF BatchIInv, RunFunctor
  <2>2. /\ functors \o pendingFunctors_ # <<>>
        /\ Head(functors \o pendingFunctors_) = Head(functors)
        /\ Tail(functors \o pendingFunctors_) = Tail(functors) \o pendingFunctors_
    BY <1>0, <1>3 DEF RunFunctor, TypeOK
  <2>3. TQ!Start
    BY <1>3, <2>1, <2>2 DEF RunFunctor, TQ!Start
  <2> QED
    BY <2>3 DEF TQ!TQNext
<1>4. CASE FunctorReturns
  <2>1. TQ!Finish
    BY <1>0, <1>4 DEF BatchIInv, FunctorReturns, TQ!Finish
  <2> QED
    BY <2>1 DEF TQ!TQNext
<1>5. ASSUME NEW t \in AllThreads, Quit(t) \/ Wakeup(t) \/ FinishCall(t)
      PROVE  UNCHANGED TQ!tqVars
  BY <1>5 DEF Quit, Wakeup, FinishCall, QueueInLoopWakeup, QuitWakeup
<1>6. CASE Poll
  BY <1>6 DEF Poll, PollEvents, PollTimeout
<1>7. CASE ResetQuit \/ TestQuit \/ HandleRead \/ HandleEvent \/ StartPending
           \/ FinishPending \/ ExitLoop
  BY <1>7 DEF ResetQuit, TestQuit, HandleRead, HandleEvent, StartPending,
              FinishPending, ExitLoop
<1>8. CASE EnterLoop("created") \/ EnterLoop("exited") \/ CallbackReturns
  BY <1>8 DEF EnterLoop, CallbackReturns
<1>9. CASE UNCHANGED vars
  BY <1>9 DEF vars
<1> QED
  BY <1>1, <1>2, <1>3, <1>4, <1>5, <1>6, <1>7, <1>8, <1>9
  DEF Next, Call, LoopStep, UserCodeReturns, TQ!TQNext

\* For the callers of queueInLoop the loop is a FIFO queue whose functors run once,
\* in order and one at a time, whatever the threads do and wherever loop() is.
THEOREM LoopImplementsTaskQueue == Spec => ImplementsTaskQueue
<1>1. Spec => TQ!TQInit /\ [][TQ!TQNext]_TQ!tqVars
  BY RefinementInit, RefinementStep, Invariance, PTL DEF Spec
<1> QED
  BY <1>1 DEF ImplementsTaskQueue, TQ!TQSpec
=============================================================================
