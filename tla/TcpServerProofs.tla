-------------------------- MODULE TcpServerProofs --------------------------
(***************************************************************************)
(* Proofs about TcpServer, for any number of threads, descriptors, peers   *)
(* and calls of start().                                                   *)
(***************************************************************************)
EXTENDS TcpServer, TLAPS

Places == {"none", "poll", "dispatch", "functors", "ended", "freed"}

PlacesIInv ==
    /\ loopAt \in [Loops -> Places]
    /\ numThreads_ \in 0..MaxThreads
    /\ serverAt \in {"up", "destroying", "gone"}

\* The pool starts no more loops than it has threads.
PoolIInv == \A l \in Loops \ {Base} : l > numThreads_ => loopAt[l] = "none"

\* The destructor runs where loop() has returned, and no start() is under way.
EndIInv == serverAt # "up" => starter = "none" /\ loopAt[Base] \in {"ended", "freed"}

\* Members go in order: when the acceptor is destroyed every thread has been joined.
JoinIInv == serverAt = "gone" => PoolHasEndedUpTo(numThreads_)

IInv == PlacesIInv /\ PoolIInv /\ EndIInv /\ JoinIInv

LEMMA LoopNumbers ==
    /\ Base \in Loops
    /\ \A n \in 0..MaxThreads : \A l \in 1..n : l \in Loops /\ l # Base
  BY LimitsAssumption DEF Base, Loops

LEMMA InvInit == Init => IInv
  BY LoopNumbers, LimitsAssumption
  DEF Init, IInv, PlacesIInv, PoolIInv, EndIInv, JoinIInv, Places, PoolHasEndedUpTo, Loops

\* A loop that has ended stays where it is, so that a step which leaves the server and
\* the starting alone, and moves one loop between two places of its round or from the
\* round to its end, disturbs nothing.
LEMMA RoundKeeps ==
    ASSUME IInv, NEW l \in Loops, loopAt[l] \in {"poll", "dispatch", "functors"},
           NEW to \in {"poll", "dispatch", "functors", "ended"},
           loopAt' = [loopAt EXCEPT ![l] = to],
           UNCHANGED <<numThreads_, serverAt, starter>>
    PROVE  IInv'
<1> USE LoopNumbers DEF IInv, PlacesIInv, Places
<1>1. PlacesIInv'
  OBVIOUS
<1>2. PoolIInv'
  BY DEF PoolIInv
<1>3. EndIInv'
  BY DEF EndIInv
<1>4. JoinIInv'
  BY DEF JoinIInv, PoolHasEndedUpTo
<1> QED
  BY <1>1, <1>2, <1>3, <1>4

LEMMA SameKeeps ==
    ASSUME IInv, UNCHANGED <<loopAt, numThreads_, serverAt, starter>>
    PROVE  IInv'
  BY DEF IInv, PlacesIInv, PoolIInv, EndIInv, JoinIInv, PoolHasEndedUpTo

LEMMA StartingStep == ASSUME IInv, Starting PROVE IInv'
<1> USE LoopNumbers DEF IInv, PlacesIInv, Places, serverVars, loopVars
<1>1. ASSUME NEW l \in IOLoops, PoolStarts(l)
      PROVE  IInv'
  <2>1. l \in Loops \ {Base} /\ l \in 1..numThreads_
    BY DEF IOLoops
  <2>2. serverAt = "up"
    BY <1>1 DEF PoolStarts, EndIInv
  <2>3. PlacesIInv' /\ EndIInv' /\ JoinIInv'
    BY <1>1, <2>1, <2>2 DEF PoolStarts, EndIInv, JoinIInv
  <2>4. PoolIInv'
    BY <1>1, <2>1 DEF PoolStarts, PoolIInv
  <2> QED
    BY <2>3, <2>4
<1>2. CASE StartListening
  BY <1>2 DEF StartListening, PoolIInv, EndIInv, JoinIInv, PoolHasEndedUpTo
<1> QED
  BY <1>1, <1>2 DEF Starting

LEMMA LoopStepKeeps == ASSUME IInv, NEW l \in Loops, LoopStep(l) PROVE IInv'
<1> USE DEF serverVars, loopVars
<1>1. CASE Poll(l)
  BY <1>1, RoundKeeps DEF Poll
<1>2. CASE Accept
  BY <1>2, SameKeeps DEF Accept
<1>3. CASE AcceptFails
  BY <1>3, SameKeeps DEF AcceptFails
<1>4. CASE RunListenFd(l)
  BY <1>4, SameKeeps DEF RunListenFd, Runs
<1>5. ASSUME NEW c \in ConnIds, HandleClose(l, c)
      PROVE  IInv'
  BY <1>5, SameKeeps DEF HandleClose
<1>6. ASSUME NEW c \in ConnIds, RunConnectEstablished(l, c)
      PROVE  IInv'
  BY <1>6, SameKeeps DEF RunConnectEstablished, Runs
<1>7. ASSUME NEW c \in ConnIds, RunConnectDestroyed(l, c)
      PROVE  IInv'
  BY <1>7, SameKeeps DEF RunConnectDestroyed, Runs
<1>8. ASSUME NEW c \in ConnIds, RunRemoveConnection(l, c)
      PROVE  IInv'
  BY <1>8, SameKeeps DEF RunRemoveConnection, Runs
<1>9. CASE SwapFunctors(l)
  BY <1>9, RoundKeeps DEF SwapFunctors
<1>10. CASE EndRound(l)
  <2>1. CASE quit_[l]
    BY <1>10, <2>1, RoundKeeps DEF EndRound
  <2>2. CASE ~quit_[l]
    BY <1>10, <2>2, RoundKeeps DEF EndRound
  <2> QED
    BY <2>1, <2>2
<1> QED
  BY <1>1, <1>2, <1>3, <1>4, <1>5, <1>6, <1>7, <1>8, <1>9, <1>10 DEF LoopStep

LEMMA DestroyingStep == ASSUME IInv, Destroying PROVE IInv'
<1> USE LoopNumbers DEF serverVars, loopVars
<1>1. CASE Destroy
  BY <1>1 DEF Destroy, IInv, PlacesIInv, PoolIInv, EndIInv, JoinIInv
<1>2. ASSUME NEW c \in connectionMap_, DestroyConnection(c)
      PROVE  IInv'
  BY <1>2, SameKeeps DEF DestroyConnection
<1>3. ASSUME NEW l \in IOLoops, PoolQuits(l)
      PROVE  IInv'
  BY <1>3, SameKeeps DEF PoolQuits
<1>4. CASE DestroyAcceptor
  BY <1>4 DEF DestroyAcceptor, IInv, PlacesIInv, PoolIInv, EndIInv, JoinIInv,
              PoolHasEndedUpTo
<1>5. CASE FreeBaseLoop
  <2> USE DEF IInv, PlacesIInv, Places
  <2>1. PlacesIInv' /\ EndIInv'
    BY <1>5 DEF FreeBaseLoop, EndIInv
  <2>2. PoolIInv'
    BY <1>5 DEF FreeBaseLoop, PoolIInv
  <2>3. JoinIInv'
    BY <1>5 DEF FreeBaseLoop, JoinIInv, PoolHasEndedUpTo
  <2> QED
    BY <2>1, <2>2, <2>3
<1> QED
  BY <1>1, <1>2, <1>3, <1>4, <1>5 DEF Destroying

LEMMA InvStep == IInv /\ [Next]_vars => IInv'
<1> SUFFICES ASSUME IInv, [Next]_vars
             PROVE  IInv'
  OBVIOUS
<1> USE DEF serverVars, loopVars
<1>1. ASSUME NEW thread \in {"base", "other"}, Start(thread)
      PROVE  IInv'
  BY <1>1 DEF Start, IInv, PlacesIInv, PoolIInv, EndIInv, JoinIInv
<1>2. CASE Starting
  BY <1>2, StartingStep
<1>3. CASE EnterLoop
  BY <1>3, LoopNumbers
  DEF EnterLoop, IInv, PlacesIInv, Places, PoolIInv, EndIInv, JoinIInv, PoolHasEndedUpTo
<1>4. ASSUME NEW l \in Loops, LoopStep(l)
      PROVE  IInv'
  BY <1>4, LoopStepKeeps
<1>5. CASE QuitBase
  BY <1>5, SameKeeps DEF QuitBase
<1>6. CASE Destroying
  BY <1>6, DestroyingStep
<1>7. CASE PeerConnects
  BY <1>7, SameKeeps DEF PeerConnects
<1>8. ASSUME NEW c \in ConnIds, PeerCloses(c) \/ Shutdown(c)
      PROVE  IInv'
  BY <1>8, SameKeeps DEF PeerCloses, Shutdown
<1>9. CASE UNCHANGED vars
  BY <1>9, SameKeeps DEF vars
<1> QED
  BY <1>1, <1>2, <1>3, <1>4, <1>5, <1>6, <1>7, <1>8, <1>9 DEF Next

\* Once the server is gone no loop runs that could use the bare this which
\* closeCallback_ and the functors of the base loop hold: the pool's destructor has
\* joined every thread before (TcpServer.cpp:107, 116).
THEOREM ServerOutlives == Spec => []ServerOutlivesItsUsers
<1>1. IInv => ServerOutlivesItsUsers
  <2> SUFFICES ASSUME IInv, serverAt = "gone", NEW l \in Loops
               PROVE  loopAt[l] \in {"none", "ended", "freed"}
    BY DEF ServerOutlivesItsUsers
  <2> USE DEF IInv
  <2>1. CASE l = Base
    BY <2>1 DEF EndIInv
  <2>2. CASE l # Base /\ l > numThreads_
    BY <2>2 DEF PoolIInv
  <2>3. CASE l # Base /\ ~(l > numThreads_)
    BY <2>3, LimitsAssumption DEF JoinIInv, PoolHasEndedUpTo, PlacesIInv, Loops, Base
  <2> QED
    BY <2>1, <2>2, <2>3
<1>2. Init => IInv
  BY InvInit
<1>3. IInv /\ [Next]_vars => IInv'
  BY InvStep
<1> QED
  BY <1>1, <1>2, <1>3, PTL DEF Spec
=============================================================================
