------------------------ MODULE TcpServerConnProofs ------------------------
(***************************************************************************)
(* Proofs about the connections of a TcpServer, on top of what             *)
(* TcpServerProofs knows about the loops: no poller points to a connection *)
(* that is gone, the user is told of every end, the loops share the        *)
(* connections out. For any number of threads, descriptors, peers and      *)
(* calls of start().                                                       *)
(***************************************************************************)
EXTENDS TcpServerProofs, SequenceTheorems, FiniteSetTheorems

(* What a loop has still to do: the rest of its batch, then the queue.     *)

Todo(l) == SubSeq(functors[l], ran[l] + 1, Len(functors[l])) \o pendingFunctors_[l]

Unrun(l, f) == \E i \in 1..Len(Todo(l)) : Todo(l)[i] = f

ListenFd == Functor("listenFd", Acceptor)
Establish(c) == Functor("connectEstablished", c)
Destruct(c) == Functor("connectDestroyed", c)
Remove(c) == Functor("removeConnectionInLoop", c)

-----------------------------------------------------------------------------
(* The inductive invariant.                                                *)

\* A batch exists only while it is run, and channels are dispatched before.
RoundIInv ==
    \A l \in Loops :
        /\ ran[l] <= Len(functors[l])
        /\ loopAt[l] # "functors" => functors[l] = <<>> /\ ran[l] = 0
        /\ active[l] # {} => loopAt[l] = "dispatch"

\* An IO loop quits only when the map is empty for good, and ends with nothing to do.
OverIInv ==
    \A l \in Loops \ {Base} :
        /\ quit_[l] => serverAt # "up" /\ connectionMap_ = {}
        /\ loopAt[l] # "freed"
        /\ loopAt[l] = "ended" => quit_[l] /\ Todo(l) = <<>>

\* Nobody is accepted before every thread of the pool runs its loop.
StartedIInv ==
    (listenning_ \/ conns # <<>> \/ Unrun(Base, ListenFd) \/ Acceptor \in active[Base])
        => \A l \in IOLoops : loopAt[l] # "none"

\* Functors are queued where they belong, and say something about their connection.
PlaceIInv ==
    \A l \in Loops :
        /\ \A f \in Functors : Unrun(l, f) /\ f.conn = Acceptor => l = Base
        /\ \A c \in ConnIds :
            /\ Unrun(l, Remove(c)) =>
                  l = Base /\ conns[c].loop # Base /\ conns[c].state_ = "kDisconnected"
            /\ Unrun(l, Establish(c)) =>
                  l # Base /\ conns[c].loop = l /\ conns[c].state_ = "kConnecting"
            /\ Unrun(l, Destruct(c)) =>
                  conns[c].loop = l /\ (l = Base => conns[c].state_ = "kDisconnected")

\* f establishes a connection that g establishes again or destroys.
Clash(f, g) ==
    /\ f.run = "connectEstablished"
    /\ g.run \in {"connectEstablished", "connectDestroyed"}
    /\ g.conn = f.conn

\* connectEstablished is queued once, and never behind connectDestroyed.
InOrder(l) ==
    \A i, j \in 1..Len(Todo(l)) :
        i # j /\ Clash(Todo(l)[i], Todo(l)[j])
            => i < j /\ Todo(l)[j].run = "connectDestroyed"

OrderIInv == \A l \in Loops : InOrder(l)

\* Who holds a connection whose channel is registered, or is about to be.
HoldIInv ==
    \A c \in ConnIds :
        LET l == conns[c].loop
        IN  (conns[c].index # kNew \/ Unrun(l, Establish(c)))
                => \/ c \in connectionMap_ \/ Unrun(l, Destruct(c))
                   \/ loopAt[l] \in {"ended", "freed"}

\* A connection gets where it should: it will be established, and it will be told of
\* its end, unless its loop ends too early.
TellIInv ==
    \A c \in ConnIds :
        LET l == conns[c].loop
            s == conns[c].state_
        IN  /\ s = "kConnecting" => Unrun(l, Establish(c)) \/ c \in dropped
            /\ \/ c \in connectionMap_ \/ c \in dropped
               \/ s \in {"kDisconnecting", "kDisconnected"}
               \/ l # Base /\ Unrun(l, Destruct(c))

Told(state) ==
    CASE state = "kConnecting" -> <<>>
      [] state \in {"kConnected", "kDisconnecting"} -> <<"up">>
      [] OTHER -> <<"up", "down">>

\* The user hears of what happens to state_; a channel that is watched is one of a
\* connection that was not closed.
StateIInv ==
    \A c \in ConnIds :
        /\ conns[c].told = Told(conns[c].state_)
        /\ conns[c].index = kAdded => conns[c].state_ \in {"kConnected", "kDisconnecting"}
        /\ conns[c].loop = Base => conns[c].state_ # "kConnecting"

\* What is to be dispatched is on the tree, and a peer does wait.
ActiveIInv ==
    \A l \in Loops :
        /\ Acceptor \in active[l] => l = Base /\ backlog > 0
        /\ \A c \in active[l] \cap ConnIds :
              conns[c].loop = l /\ conns[c].index = kAdded

ConnIInv ==
    /\ TypeOK /\ RoundIInv /\ OverIInv /\ StartedIInv
    /\ PlaceIInv /\ OrderIInv /\ HoldIInv /\ TellIInv /\ StateIInv /\ ActiveIInv

-----------------------------------------------------------------------------
(* Facts about functors and queues.                                        *)

LEMMA FunctorsDiffer ==
    ASSUME NEW c, NEW d
    PROVE  /\ Establish(c) = Establish(d) => c = d
           /\ Destruct(c) = Destruct(d) => c = d
           /\ Remove(c) = Remove(d) => c = d
           /\ Establish(c) # Destruct(d)
           /\ Establish(c) # Remove(d)
           /\ Destruct(c) # Remove(d)
           /\ ListenFd \notin {Establish(c), Destruct(c), Remove(c)}
           /\ ListenFd.conn = Acceptor
           /\ Establish(c).conn = c /\ Destruct(c).conn = c /\ Remove(c).conn = c
  BY DEF Establish, Destruct, Remove, ListenFd, Functor

LEMMA FunctorTypes ==
    ASSUME NEW c \in ConnIds
    PROVE  /\ {Establish(c), Destruct(c), Remove(c), ListenFd} \subseteq Functors
  BY DEF Establish, Destruct, Remove, ListenFd, Functor, Functors

LEMMA TodoType ==
    ASSUME TypeOK, RoundIInv, NEW l \in Loops
    PROVE  /\ functors[l] \in Seq(Functors) /\ pendingFunctors_[l] \in Seq(Functors)
           /\ ran[l] \in 0..Len(functors[l])
           /\ Todo(l) \in Seq(Functors)
<1>1. /\ functors[l] \in Seq(Functors) /\ pendingFunctors_[l] \in Seq(Functors)
      /\ ran[l] \in 0..Len(functors[l])
  BY DEF TypeOK, RoundIInv
<1>2. SubSeq(functors[l], ran[l] + 1, Len(functors[l])) \in Seq(Functors)
  BY <1>1
<1> QED
  BY <1>1, <1>2 DEF Todo

\* A functor is queued.
LEMMA TodoQueue ==
    ASSUME TypeOK, RoundIInv, NEW l \in Loops, NEW f,
           Queue(l, <<f>>), UNCHANGED functors, ran'[l] = ran[l]
    PROVE  /\ Todo(l)' = Append(Todo(l), f)
           /\ \A k \in Loops : pendingFunctors_'[k] = IF k = l THEN pendingFunctors_[k] \o <<f>>
                                                      ELSE pendingFunctors_[k]
<1> DEFINE S == SubSeq(functors[l], ran[l] + 1, Len(functors[l]))
           P == pendingFunctors_[l]
<1>1. /\ pendingFunctors_[l] \in Seq(Functors)
      /\ functors[l] \in Seq(Functors)
      /\ ran[l] \in 0..Len(functors[l])
  BY TodoType
<1>2. S \in Seq(Functors) /\ P \in Seq(Functors)
  BY <1>1
<1>3. /\ pendingFunctors_'[l] = P \o <<f>>
      /\ \A k \in Loops : k # l => pendingFunctors_'[k] = pendingFunctors_[k]
  BY DEF Queue, TypeOK
<1>4. Todo(l) = S \o P /\ Todo(l)' = S \o (P \o <<f>>)
  BY <1>3 DEF Todo
<1> HIDE DEF S, P
<1>5. S \o (P \o <<f>>) = Append(S \o P, f)
  BY <1>2
<1> QED
  BY <1>3, <1>4, <1>5 DEF P

\* The next functor is run.
LEMMA TodoRuns ==
    ASSUME TypeOK, RoundIInv, NEW l \in Loops, NEW run, NEW c,
           Runs(l, run, c), pendingFunctors_'[l] = pendingFunctors_[l]
    PROVE  /\ Todo(l) = <<Functor(run, c)>> \o Todo(l)'
           /\ Todo(l)' \in Seq(Functors)
           /\ Functor(run, c) \in Functors
           /\ \A k \in Loops : k # l => ran'[k] = ran[k]
<1> DEFINE F == functors[l]
           P == pendingFunctors_[l]
           r == ran[l]
           S == SubSeq(F, r + 1, Len(F))
           T == SubSeq(F, (r + 1) + 1, Len(F))
<1>1. F \in Seq(Functors) /\ P \in Seq(Functors) /\ r \in Nat /\ r < Len(F)
  BY TodoType DEF Runs
<1>2. F[r + 1] = Functor(run, c)
  BY DEF Runs
<1>3. /\ ran'[l] = r + 1
      /\ \A k \in Loops : k # l => ran'[k] = ran[k]
      /\ UNCHANGED functors
  BY DEF Runs, TypeOK
<1>4. Todo(l) = S \o P /\ Todo(l)' = T \o P
  BY <1>3 DEF Todo
<1> HIDE DEF F, P, r
<1>5. /\ T \in Seq(Functors) /\ F[r + 1] \in Functors
      /\ S = <<F[r + 1]>> \o T
  BY <1>1
<1> HIDE DEF S, T
<1>6. S \o P = <<F[r + 1]>> \o (T \o P)
  BY <1>1, <1>5
<1> QED
  BY <1>1, <1>2, <1>3, <1>4, <1>5, <1>6

\* A loop neither of whose queues has changed.
LEMMA TodoSame ==
    ASSUME NEW l \in Loops,
           functors'[l] = functors[l], ran'[l] = ran[l],
           pendingFunctors_'[l] = pendingFunctors_[l]
    PROVE  Todo(l)' = Todo(l)
  BY DEF Todo

-----------------------------------------------------------------------------
(* What that means for the functors that are unrun, and for their order.   *)

LEMMA UnrunType ==
    ASSUME TypeOK, RoundIInv, NEW l \in Loops, NEW f, Unrun(l, f)
    PROVE  f \in Functors
  BY TodoType, ElementOfSeq DEF Unrun

LEMMA UnrunSame ==
    ASSUME NEW l \in Loops, Todo(l)' = Todo(l)
    PROVE  /\ \A g : Unrun(l, g)' <=> Unrun(l, g)
           /\ InOrder(l) => InOrder(l)'
  BY DEF Unrun, InOrder

LEMMA UnrunNone ==
    ASSUME NEW l \in Loops, Todo(l)' = <<>>
    PROVE  (\A g : ~Unrun(l, g)') /\ InOrder(l)'
  BY EmptySeq DEF Unrun, InOrder

LEMMA UnrunQueue ==
    ASSUME TypeOK, RoundIInv, NEW l \in Loops, NEW f, Todo(l)' = Append(Todo(l), f)
    PROVE  /\ \A g : Unrun(l, g)' <=> Unrun(l, g) \/ g = f
           /\ InOrder(l) /\ (\A g \in Functors : Unrun(l, g) => ~Clash(f, g))
                  => InOrder(l)'
<1>1. Todo(l) \in Seq(Functors)
  BY TodoType
<1>2. /\ Len(Todo(l)') = Len(Todo(l)) + 1
      /\ \A i \in 1..Len(Todo(l)) : Todo(l)'[i] = Todo(l)[i]
      /\ Todo(l)'[Len(Todo(l)) + 1] = f
      /\ Len(Todo(l)) \in Nat
  BY <1>1
<1>3. \A g : Unrun(l, g)' <=> Unrun(l, g) \/ g = f
  BY <1>2 DEF Unrun
<1>4. ASSUME InOrder(l), \A g \in Functors : Unrun(l, g) => ~Clash(f, g),
             NEW i \in 1..Len(Todo(l)'), NEW j \in 1..Len(Todo(l)'), i # j,
             Clash(Todo(l)'[i], Todo(l)'[j])
      PROVE  i < j /\ Todo(l)'[j].run = "connectDestroyed"
  <2>1. \A k \in 1..Len(Todo(l)) : ~Clash(f, Todo(l)[k])
    BY <1>1, <1>4 DEF Unrun
  <2>2. i <= Len(Todo(l))
    BY <1>2, <1>4, <2>1
  <2>3. CASE j <= Len(Todo(l))
    BY <1>2, <1>4, <2>2, <2>3 DEF InOrder
  <2>4. CASE j = Len(Todo(l)) + 1
    BY <1>2, <1>4, <2>1, <2>2, <2>4 DEF Clash
  <2> QED
    BY <1>2, <2>3, <2>4
<1> QED
  BY <1>3, <1>4 DEF InOrder

LEMMA UnrunRuns ==
    ASSUME TypeOK, RoundIInv, NEW l \in Loops, NEW run, NEW c,
           Runs(l, run, c), pendingFunctors_'[l] = pendingFunctors_[l]
    PROVE  /\ \A g : Unrun(l, g) <=> g = Functor(run, c) \/ Unrun(l, g)'
           /\ InOrder(l) => InOrder(l)'
           /\ InOrder(l) /\ run \in {"connectEstablished", "connectDestroyed"}
                  => ~Unrun(l, Establish(c))'
<1>1. /\ Todo(l) = <<Functor(run, c)>> \o Todo(l)'
      /\ Todo(l)' \in Seq(Functors)
      /\ Functor(run, c) \in Functors
  BY TodoRuns
<1>2. /\ Len(Todo(l)) = Len(Todo(l)') + 1
      /\ Todo(l)[1] = Functor(run, c)
      /\ \A i \in 1..Len(Todo(l)') : Todo(l)[i + 1] = Todo(l)'[i]
      /\ Len(Todo(l)') \in Nat
  BY <1>1
<1>3. \A g : Unrun(l, g) <=> g = Functor(run, c) \/ Unrun(l, g)'
  <2>1. Unrun(l, Functor(run, c))
    BY <1>2 DEF Unrun
  <2>2. ASSUME NEW i \in 1..Len(Todo(l)')
        PROVE  Unrun(l, Todo(l)'[i])
    <3>1. i + 1 \in 1..Len(Todo(l)) /\ Todo(l)[i + 1] = Todo(l)'[i]
      BY <1>2
    <3> QED
      BY <3>1 DEF Unrun
  <2>3. ASSUME NEW i \in 1..Len(Todo(l)), i # 1
        PROVE  \E j \in 1..Len(Todo(l)') : Todo(l)'[j] = Todo(l)[i]
    <3>1. i - 1 \in 1..Len(Todo(l)') /\ Todo(l)[(i - 1) + 1] = Todo(l)'[i - 1]
      BY <1>2, <2>3
    <3> QED
      BY <3>1
  <2>4. ASSUME NEW g
        PROVE  Unrun(l, g) <=> g = Functor(run, c) \/ Unrun(l, g)'
    <3>1. Unrun(l, g)' => Unrun(l, g)
      BY <2>2 DEF Unrun
    <3>2. Unrun(l, g) => g = Functor(run, c) \/ Unrun(l, g)'
      BY <1>2, <2>3 DEF Unrun
    <3> QED
      BY <2>1, <3>1, <3>2
  <2> QED
    BY <2>4
<1>4. ASSUME InOrder(l), NEW i \in 1..Len(Todo(l)'), NEW j \in 1..Len(Todo(l)'), i # j,
             Clash(Todo(l)'[i], Todo(l)'[j])
      PROVE  i < j /\ Todo(l)'[j].run = "connectDestroyed"
  <2>1. /\ i + 1 \in 1..Len(Todo(l)) /\ j + 1 \in 1..Len(Todo(l))
        /\ Clash(Todo(l)[i + 1], Todo(l)[j + 1])
        /\ i + 1 # j + 1
    BY <1>2, <1>4
  <2>2. i + 1 < j + 1 /\ Todo(l)[j + 1].run = "connectDestroyed"
    BY <1>4, <2>1 DEF InOrder
  <2> QED
    BY <1>2, <2>2
<1>5. ASSUME InOrder(l), run \in {"connectEstablished", "connectDestroyed"},
             NEW i \in 1..Len(Todo(l)'), Todo(l)'[i] = Establish(c)
      PROVE  FALSE
  <2>1. Todo(l)[i + 1] = Establish(c) /\ i + 1 \in 1..Len(Todo(l)) /\ 1 \in 1..Len(Todo(l))
    BY <1>2, <1>5
  <2>2. Clash(Todo(l)[i + 1], Todo(l)[1])
    BY <1>2, <1>5, <2>1 DEF Clash, Establish, Functor
  <2> QED
    BY <1>2, <1>5, <2>1, <2>2 DEF InOrder
<1>6. InOrder(l) => InOrder(l)'
  BY <1>4 DEF InOrder
<1>7. InOrder(l) /\ run \in {"connectEstablished", "connectDestroyed"}
          => ~Unrun(l, Establish(c))'
  BY <1>5 DEF Unrun
<1> QED
  BY <1>3, <1>6, <1>7

-----------------------------------------------------------------------------
(* What a connection's own code leaves of it.                              *)

\* after is before with connection c in another state, watching and told otherwise.
Changed(before, after, c, state, index, told) ==
    /\ after \in Seq(Connection)
    /\ Len(after) = Len(before)
    /\ \A d \in 1..Len(before) :
           /\ d # c => after[d] = before[d]
           /\ after[d].loop = before[d].loop
    /\ after[c].state_ = state
    /\ after[c].index = index
    /\ after[c].told = told

LEMMA ExceptChanges ==
    ASSUME NEW cs \in Seq(Connection), NEW c \in 1..Len(cs), NEW k \in Connection,
           k.loop = cs[c].loop
    PROVE  Changed(cs, [cs EXCEPT ![c] = k], c, k.state_, k.index, k.told)
  BY ExceptSeq DEF Changed

\* The user's "down" behind its "up".
LEMMA UpThenDown == Append(<<"up">>, "down") = <<"up", "down">>
<1> DEFINE S == {"up", "down"}
           s == Append(<<"up">>, "down")
           t == <<"up", "down">>
<1>1. <<"up">> \in Seq(S) /\ Len(<<"up">>) = 1 /\ t \in Seq(S) /\ Len(t) = 2
  OBVIOUS
<1>2. s \in Seq(S) /\ Len(s) = 2
  BY <1>1
<1>3. s[1] = "up" /\ s[2] = "down" /\ t[1] = "up" /\ t[2] = "down"
  BY <1>1
<1> HIDE DEF s, t
<1>4. \A i \in 1..Len(s) : s[i] = t[i]
  BY <1>2, <1>3
<1>5. s = t
  BY <1>1, <1>2, <1>4, SeqEqual
<1> QED
  BY <1>5 DEF s, t

LEMMA EstablishedChanges ==
    ASSUME NEW cs \in Seq(Connection), NEW c \in 1..Len(cs), cs[c].told = <<>>
    PROVE  Changed(cs, Established(cs, c), c, "kConnected", kAdded, <<"up">>)
<1> DEFINE k == [state_ |-> "kConnected", loop |-> cs[c].loop, index |-> kAdded,
                 told |-> <<"up">>, peerClosed |-> cs[c].peerClosed]
<1>1. cs[c] \in Connection
  BY ElementOfSeq
<1>2. k \in Connection
  BY <1>1 DEF Connection
<1>3. Append(<<>>, "up") = <<"up">>
  OBVIOUS
<1>4. IndexAfterUpdate(cs[c].index, kReadEvent) = kAdded
  BY DEF IndexAfterUpdate, kReadEvent, kNoneEvent
<1>0. cs \in [1..Len(cs) -> Connection]
  OBVIOUS
<1>5. Established(cs, c) \in [1..Len(cs) -> Connection]
  BY <1>0, <1>1, <1>3, <1>4 DEF Established, Connection
<1>6. Established(cs, c)[c] = k
  BY <1>0, <1>1, <1>3, <1>4 DEF Established, Connection
<1>7. \A d \in 1..Len(cs) : d # c => Established(cs, c)[d] = cs[d]
  BY <1>0, <1>1 DEF Established
<1> HIDE DEF k
<1>8. Established(cs, c) = [cs EXCEPT ![c] = k]
  BY <1>0, <1>2, <1>5, <1>6, <1>7
<1>9. k.loop = cs[c].loop /\ k.state_ = "kConnected" /\ k.index = kAdded /\ k.told = <<"up">>
  BY DEF k
<1> QED
  BY <1>2, <1>8, <1>9, ExceptChanges

LEMMA ClosedChanges ==
    ASSUME NEW cs \in Seq(Connection), NEW c \in 1..Len(cs), cs[c].told = <<"up">>,
           cs[c].index = kAdded
    PROVE  Changed(cs, Closed(cs, c), c, "kDisconnected", kDeleted, <<"up", "down">>)
<1> DEFINE k == [state_ |-> "kDisconnected", loop |-> cs[c].loop, index |-> kDeleted,
                 told |-> <<"up", "down">>, peerClosed |-> cs[c].peerClosed]
<1>1. cs[c] \in Connection
  BY ElementOfSeq
<1>2. k \in Connection
  BY <1>1 DEF Connection
<1>3. Append(<<"up">>, "down") = <<"up", "down">>
  BY UpThenDown
<1>4. IndexAfterUpdate(cs[c].index, kNoneEvent) = kDeleted
  BY DEF IndexAfterUpdate
<1>0. cs \in [1..Len(cs) -> Connection]
  OBVIOUS
<1>5. Closed(cs, c) \in [1..Len(cs) -> Connection]
  BY <1>0, <1>1, <1>3, <1>4 DEF Closed, Connection
<1>6. Closed(cs, c)[c] = k
  BY <1>0, <1>1, <1>3, <1>4 DEF Closed, Connection
<1>7. \A d \in 1..Len(cs) : d # c => Closed(cs, c)[d] = cs[d]
  BY <1>0, <1>1 DEF Closed
<1> HIDE DEF k
<1>8. Closed(cs, c) = [cs EXCEPT ![c] = k]
  BY <1>0, <1>2, <1>5, <1>6, <1>7
<1>9. k.loop = cs[c].loop /\ k.state_ = "kDisconnected" /\ k.index = kDeleted
      /\ k.told = <<"up", "down">>
  BY DEF k
<1> QED
  BY <1>2, <1>8, <1>9, ExceptChanges

\* connectDestroyed tells only of a connection that is kConnected.
LEMMA DestroyedChanges ==
    ASSUME NEW cs \in Seq(Connection), NEW c \in 1..Len(cs),
           cs[c].state_ = "kConnected" => cs[c].told = <<"up">>
    PROVE  IF cs[c].state_ = "kConnected"
           THEN Changed(cs, Destroyed(cs, c), c, "kDisconnected", kNew, <<"up", "down">>)
           ELSE Changed(cs, Destroyed(cs, c), c, cs[c].state_, kNew, cs[c].told)
<1>1. cs[c] \in Connection
  BY ElementOfSeq
<1>2. CASE cs[c].state_ = "kConnected"
  <2> DEFINE k == [state_ |-> "kDisconnected", loop |-> cs[c].loop, index |-> kNew,
                   told |-> <<"up", "down">>, peerClosed |-> cs[c].peerClosed]
  <2>1. k \in Connection
    BY <1>1 DEF Connection
  <2>2. Append(<<"up">>, "down") = <<"up", "down">>
    BY UpThenDown
  <2>0. cs \in [1..Len(cs) -> Connection]
    OBVIOUS
  <2>3. Destroyed(cs, c) \in [1..Len(cs) -> Connection]
    BY <2>0, <1>1, <1>2, <2>2 DEF Destroyed, Connection
  <2>4. Destroyed(cs, c)[c] = k
    BY <2>0, <1>1, <1>2, <2>2 DEF Destroyed, Connection
  <2>5. \A d \in 1..Len(cs) : d # c => Destroyed(cs, c)[d] = cs[d]
    BY <2>0, <1>2 DEF Destroyed
  <2> HIDE DEF k
  <2>6. Destroyed(cs, c) = [cs EXCEPT ![c] = k]
    BY <2>0, <2>1, <2>3, <2>4, <2>5
  <2>7. /\ k.loop = cs[c].loop /\ k.state_ = "kDisconnected" /\ k.index = kNew
        /\ k.told = <<"up", "down">>
    BY DEF k
  <2> QED
    BY <1>2, <2>1, <2>6, <2>7, ExceptChanges
<1>3. CASE cs[c].state_ # "kConnected"
  <2> DEFINE k == [cs[c] EXCEPT !.index = kNew]
  <2>1. /\ k \in Connection /\ k.loop = cs[c].loop /\ k.index = kNew
        /\ k.state_ = cs[c].state_ /\ k.told = cs[c].told
    BY <1>1 DEF Connection
  <2>2. Destroyed(cs, c) = [cs EXCEPT ![c] = k]
    BY <1>3 DEF Destroyed
  <2> HIDE DEF k
  <2> QED
    BY <1>3, <2>1, <2>2, ExceptChanges
<1> QED
  BY <1>2, <1>3

LEMMA ConnTypes ==
    ASSUME TypeOK
    PROVE  \A c \in ConnIds :
              conns[c] \in Connection /\ conns[c].loop \in Loops
<1>1. conns \in Seq(Connection) /\ numThreads_ \in 0..MaxThreads
  BY DEF TypeOK
<1>2. \A c \in ConnIds : conns[c] \in Connection
  BY <1>1, ElementOfSeq DEF ConnIds
<1>3. Base..numThreads_ \subseteq Loops
  BY <1>1, LimitsAssumption DEF Loops, Base
<1> QED
  BY <1>2, <1>3 DEF Connection

LEMMA TypesKeep ==
    ASSUME UNCHANGED numThreads_, Len(conns') = Len(conns)
    PROVE  ConnIds' = ConnIds /\ Functors' = Functors /\ Connection' = Connection
  BY DEF ConnIds, Functors, Connection

-----------------------------------------------------------------------------
(* Steps that leave the connections, and who holds them, alone.            *)

QueuesIInv == PlaceIInv /\ OrderIInv /\ HoldIInv /\ TellIInv /\ StateIInv

LEMMA QueuesKeep ==
    ASSUME ConnIInv, UNCHANGED <<conns, connectionMap_, dropped, numThreads_>>,
           OrderIInv',
           \A l \in Loops : \A f : Unrun(l, f)' => Unrun(l, f) \/ (l = Base /\ f = ListenFd),
           \A l \in Loops : \A c \in ConnIds :
               /\ Unrun(l, Establish(c)) => Unrun(l, Establish(c))'
               /\ Unrun(l, Destruct(c)) => Unrun(l, Destruct(c))',
           \A l \in Loops : loopAt[l] \in {"ended", "freed"} => loopAt'[l] \in {"ended", "freed"}
    PROVE  QueuesIInv'
<1>1. ConnIds' = ConnIds /\ Functors' = Functors
  BY TypesKeep
<1>2. \A l \in Loops : \A c \in ConnIds :
          /\ Unrun(l, Establish(c))' <=> Unrun(l, Establish(c))
          /\ Unrun(l, Destruct(c))' <=> Unrun(l, Destruct(c))
          /\ Unrun(l, Remove(c))' => Unrun(l, Remove(c))
  BY FunctorsDiffer
<1>3. \A c \in ConnIds : conns[c].loop \in Loops
  BY ConnTypes DEF ConnIInv
<1>4. PlaceIInv'
  BY <1>1, <1>2 DEF ConnIInv, PlaceIInv
<1>5. HoldIInv'
  BY <1>1, <1>2, <1>3 DEF ConnIInv, HoldIInv
<1>6. TellIInv'
  BY <1>1, <1>2, <1>3 DEF ConnIInv, TellIInv
<1>7. StateIInv'
  BY <1>1 DEF ConnIInv, StateIInv
<1> QED
  BY <1>4, <1>5, <1>6, <1>7 DEF QueuesIInv

LEMMA QueuesSame ==
    ASSUME ConnIInv, UNCHANGED <<conns, connectionMap_, dropped, numThreads_>>,
           \A l \in Loops : Todo(l)' = Todo(l),
           \A l \in Loops : loopAt[l] \in {"ended", "freed"} => loopAt'[l] \in {"ended", "freed"}
    PROVE  QueuesIInv'
<1>1. \A l \in Loops : \A f : Unrun(l, f)' <=> Unrun(l, f)
  BY UnrunSame
<1>2. OrderIInv'
  BY UnrunSame DEF ConnIInv, OrderIInv
<1> QED
  BY <1>1, <1>2, QueuesKeep

\* A step of the starting, the quitting, the peers or the destructor.
LEMMA OutsideStep ==
    ASSUME ConnIInv, IInv,
           \/ \E thread \in {"base", "other"} : Start(thread)
           \/ \E l \in IOLoops : PoolStarts(l)
           \/ EnterLoop
           \/ QuitBase
           \/ Destroy
           \/ \E l \in IOLoops : PoolQuits(l)
           \/ DestroyAcceptor
           \/ PeerConnects
           \/ UNCHANGED vars
    PROVE  ConnIInv'
<1> USE LoopNumbers DEF serverVars, loopVars, vars
<1>1. TypeOK /\ RoundIInv /\ OverIInv /\ StartedIInv /\ ActiveIInv
  BY DEF ConnIInv
<1>2. UNCHANGED <<conns, connectionMap_, dropped, numThreads_, functors, ran,
                  pendingFunctors_, active, next_>>
  BY DEF Start, PoolStarts, EnterLoop, QuitBase, Destroy, PoolQuits, DestroyAcceptor,
         PeerConnects
<1>3. \A l \in Loops :
          \/ loopAt'[l] = loopAt[l]
          \/ loopAt[l] = "none" /\ loopAt'[l] = "poll"
  BY <1>1 DEF Start, PoolStarts, EnterLoop, QuitBase, Destroy, PoolQuits, DestroyAcceptor,
         PeerConnects, TypeOK
<1>4. QueuesIInv'
  BY <1>2, <1>3, TodoSame, QueuesSame
<1>5. ConnIds' = ConnIds /\ Functors' = Functors /\ Connection' = Connection
  BY <1>2, TypesKeep
<1>6. \A l \in Loops : Todo(l)' = Todo(l)
  BY <1>2, TodoSame
<1>7. TypeOK'
  <2>1. loopAt' \in [Loops -> {"none", "poll", "dispatch", "functors", "ended", "freed"}]
    BY <1>1 DEF Start, PoolStarts, EnterLoop, QuitBase, Destroy, PoolQuits,
                DestroyAcceptor, PeerConnects, TypeOK
  <2>2. quit_' \in [Loops -> BOOLEAN]
    BY <1>1 DEF Start, PoolStarts, EnterLoop, QuitBase, Destroy, PoolQuits,
                DestroyAcceptor, PeerConnects, TypeOK
  <2>3. started_' \in 0..MaxStarts /\ backlog' \in 0..MaxConns
    BY <1>1, LimitsAssumption, LenProperties
    DEF Start, PoolStarts, EnterLoop, QuitBase, Destroy, PoolQuits, DestroyAcceptor,
        PeerConnects, TypeOK
  <2>4. /\ listenning_' \in BOOLEAN
        /\ starter' \in {"none", "base", "other"}
        /\ serverAt' \in {"up", "destroying", "gone"}
    BY <1>1 DEF Start, PoolStarts, EnterLoop, QuitBase, Destroy, PoolQuits,
                DestroyAcceptor, PeerConnects, TypeOK
  <2> QED
    BY <1>1, <1>2, <1>5, <2>1, <2>2, <2>3, <2>4 DEF TypeOK
<1>8. RoundIInv'
  BY <1>1, <1>2, <1>3 DEF RoundIInv
<1>9. OverIInv'
  BY <1>1, <1>2, <1>3, <1>6
  DEF OverIInv, Start, PoolStarts, EnterLoop, QuitBase, Destroy, PoolQuits,
      DestroyAcceptor, PeerConnects, TypeOK
<1>10. StartedIInv'
  <2>1. Unrun(Base, ListenFd)' = Unrun(Base, ListenFd)
    BY <1>6 DEF Unrun
  <2>2. listenning_' => listenning_
    BY DEF Start, PoolStarts, EnterLoop, QuitBase, Destroy, PoolQuits, DestroyAcceptor,
           PeerConnects
  <2>3. IOLoops' = IOLoops /\ IOLoops \subseteq Loops
    BY <1>1, <1>2 DEF IOLoops, TypeOK
  <2> QED
    BY <1>1, <1>2, <1>3, <2>1, <2>2, <2>3 DEF StartedIInv
<1>11. ActiveIInv'
  <2>1. backlog > 0 => backlog' > 0
    BY <1>1 DEF Start, PoolStarts, EnterLoop, QuitBase, Destroy, PoolQuits,
                DestroyAcceptor, PeerConnects, TypeOK
  <2> QED
    BY <1>1, <1>2, <1>5, <2>1 DEF ActiveIInv
<1> QED
  BY <1>4, <1>7, <1>8, <1>9, <1>10, <1>11 DEF ConnIInv, QueuesIInv

LEMMA PollStep ==
    ASSUME ConnIInv, NEW l \in Loops, Poll(l)
    PROVE  ConnIInv'
<1> USE DEF serverVars
<1>1. TypeOK /\ RoundIInv /\ OverIInv /\ StartedIInv /\ ActiveIInv
  BY DEF ConnIInv
<1>2. /\ UNCHANGED <<numThreads_, next_, started_, listenning_, connectionMap_, starter,
                     serverAt, conns, backlog, quit_, pendingFunctors_, functors, ran,
                     dropped>>
      /\ loopAt[l] = "poll"
      /\ loopAt' = [loopAt EXCEPT ![l] = "dispatch"]
      /\ active' = [active EXCEPT ![l] = Ready(l)]
  BY DEF Poll
<1>3. /\ loopAt'[l] = "dispatch" /\ active'[l] = Ready(l)
      /\ \A k \in Loops : k # l => loopAt'[k] = loopAt[k] /\ active'[k] = active[k]
  BY <1>1, <1>2 DEF TypeOK
<1>4. ConnIds' = ConnIds /\ Functors' = Functors /\ Connection' = Connection
  BY <1>2, TypesKeep
<1>5. \A k \in Loops : Todo(k)' = Todo(k)
  BY <1>2, TodoSame
<1>6. QueuesIInv'
  BY <1>2, <1>3, <1>5, QueuesSame
<1>7. TypeOK'
  <2>1. Ready(l) \subseteq {Acceptor} \cup ConnIds
    BY DEF Ready
  <2> QED
    BY <1>1, <1>2, <1>4, <2>1 DEF TypeOK
<1>8. RoundIInv'
  BY <1>1, <1>2, <1>3 DEF RoundIInv
<1>9. OverIInv'
  BY <1>1, <1>2, <1>3, <1>5 DEF OverIInv
<1>10. StartedIInv'
  <2>1. Unrun(Base, ListenFd)' = Unrun(Base, ListenFd)
    BY <1>5, LoopNumbers DEF Unrun
  <2>2. Acceptor \in active'[Base] => listenning_ \/ Acceptor \in active[Base]
    BY <1>3, LoopNumbers DEF Ready, Acceptor, ConnIds
  <2>3. IOLoops' = IOLoops /\ IOLoops \subseteq Loops
    BY <1>1, <1>2, LoopNumbers DEF IOLoops, TypeOK
  <2> QED
    BY <1>1, <1>2, <1>3, <2>1, <2>2, <2>3 DEF StartedIInv
<1>11. ActiveIInv'
  <2>1. /\ Acceptor \in Ready(l) => l = Base /\ backlog > 0
        /\ \A c \in Ready(l) \cap ConnIds : conns[c].loop = l /\ conns[c].index = kAdded
    BY DEF Ready, Acceptor, ConnIds
  <2> QED
    BY <1>1, <1>2, <1>3, <1>4, <2>1 DEF ActiveIInv
<1> QED
  BY <1>6, <1>7, <1>8, <1>9, <1>10, <1>11 DEF ConnIInv, QueuesIInv

LEMMA AcceptFailsStep ==
    ASSUME ConnIInv, AcceptFails
    PROVE  ConnIInv'
<1> USE DEF serverVars
<1>1. TypeOK /\ RoundIInv /\ OverIInv /\ StartedIInv /\ ActiveIInv
  BY DEF ConnIInv
<1>2. /\ UNCHANGED <<numThreads_, next_, started_, listenning_, connectionMap_, starter,
                     serverAt, conns, backlog, loopAt, quit_, pendingFunctors_, functors,
                     ran, dropped>>
      /\ active' = [active EXCEPT ![Base] = @ \ {Acceptor}]
  BY DEF AcceptFails, Dispatches
<1>3. \A k \in Loops : active'[k] \subseteq active[k]
  BY <1>1, <1>2 DEF TypeOK
<1>4. ConnIds' = ConnIds /\ Functors' = Functors /\ Connection' = Connection
  BY <1>2, TypesKeep
<1>5. \A k \in Loops : Todo(k)' = Todo(k)
  BY <1>2, TodoSame
<1>6. QueuesIInv'
  BY <1>2, <1>5, QueuesSame
<1>7. TypeOK'
  BY <1>1, <1>2, <1>4, LoopNumbers DEF TypeOK
<1>8. RoundIInv'
  BY <1>1, <1>2, <1>3 DEF RoundIInv
<1>9. OverIInv'
  BY <1>1, <1>2, <1>5 DEF OverIInv
<1>10. StartedIInv'
  <2>1. Unrun(Base, ListenFd)' = Unrun(Base, ListenFd)
    BY <1>5, LoopNumbers DEF Unrun
  <2> QED
    BY <1>1, <1>2, <1>3, <2>1, LoopNumbers DEF StartedIInv, IOLoops
<1>11. ActiveIInv'
  BY <1>1, <1>2, <1>3, <1>4 DEF ActiveIInv
<1> QED
  BY <1>6, <1>7, <1>8, <1>9, <1>10, <1>11 DEF ConnIInv, QueuesIInv

\* The swap moves the whole queue into the batch.
LEMMA SwapFunctorsStep ==
    ASSUME ConnIInv, NEW l \in Loops, SwapFunctors(l)
    PROVE  ConnIInv'
<1> USE DEF serverVars
<1>1. TypeOK /\ RoundIInv /\ OverIInv /\ StartedIInv /\ ActiveIInv
  BY DEF ConnIInv
<1>2. /\ UNCHANGED <<numThreads_, next_, started_, listenning_, connectionMap_, starter,
                     serverAt, conns, backlog, quit_, active, ran, dropped>>
      /\ loopAt[l] = "dispatch" /\ active[l] = {}
      /\ loopAt' = [loopAt EXCEPT ![l] = "functors"]
      /\ functors' = [functors EXCEPT ![l] = pendingFunctors_[l]]
      /\ pendingFunctors_' = [pendingFunctors_ EXCEPT ![l] = <<>>]
  BY DEF SwapFunctors
<1>3. /\ loopAt'[l] = "functors" /\ functors'[l] = pendingFunctors_[l]
      /\ pendingFunctors_'[l] = <<>> /\ functors[l] = <<>> /\ ran[l] = 0
      /\ pendingFunctors_[l] \in Seq(Functors)
      /\ \A k \in Loops : k # l =>
             /\ loopAt'[k] = loopAt[k] /\ functors'[k] = functors[k]
             /\ pendingFunctors_'[k] = pendingFunctors_[k]
  BY <1>1, <1>2 DEF TypeOK, RoundIInv
<1>4. ConnIds' = ConnIds /\ Functors' = Functors /\ Connection' = Connection
  BY <1>2, TypesKeep
<1>5. \A k \in Loops : Todo(k)' = Todo(k)
  <2>1. \A k \in Loops : k # l => Todo(k)' = Todo(k)
    BY <1>2, <1>3 DEF Todo
  <2>2. Todo(l)' = SubSeq(pendingFunctors_[l], 0 + 1, Len(pendingFunctors_[l])) \o <<>>
    BY <1>2, <1>3 DEF Todo
  <2>3. Todo(l) = <<>> \o pendingFunctors_[l]
    BY <1>3 DEF Todo
  <2>4. Todo(l)' = pendingFunctors_[l] /\ Todo(l) = pendingFunctors_[l]
    BY <1>3, <2>2, <2>3
  <2> QED
    BY <2>1, <2>4
<1>6. QueuesIInv'
  BY <1>2, <1>3, <1>5, QueuesSame
<1>7. TypeOK'
  <2>1. <<>> \in Seq(Functors)
    OBVIOUS
  <2> QED
    BY <1>1, <1>2, <1>3, <1>4, <2>1 DEF TypeOK
<1>8. RoundIInv'
  BY <1>1, <1>2, <1>3 DEF RoundIInv
<1>9. OverIInv'
  BY <1>1, <1>2, <1>3, <1>5 DEF OverIInv
<1>10. StartedIInv'
  <2>1. Unrun(Base, ListenFd)' = Unrun(Base, ListenFd)
    BY <1>5, LoopNumbers DEF Unrun
  <2>2. IOLoops' = IOLoops /\ IOLoops \subseteq Loops
    BY <1>1, <1>2, LoopNumbers DEF IOLoops, TypeOK
  <2> QED
    BY <1>1, <1>2, <1>3, <2>1, <2>2 DEF StartedIInv
<1>11. ActiveIInv'
  BY <1>1, <1>2, <1>4 DEF ActiveIInv
<1> QED
  BY <1>6, <1>7, <1>8, <1>9, <1>10, <1>11 DEF ConnIInv, QueuesIInv

LEMMA EndRoundStep ==
    ASSUME ConnIInv, NEW l \in Loops, EndRound(l)
    PROVE  ConnIInv'
<1> USE DEF serverVars
<1>1. TypeOK /\ RoundIInv /\ OverIInv /\ StartedIInv /\ ActiveIInv
  BY DEF ConnIInv
<1> DEFINE to == IF quit_[l] THEN "ended" ELSE "poll"
<1>2. /\ UNCHANGED <<numThreads_, next_, started_, listenning_, connectionMap_, starter,
                     serverAt, conns, backlog, quit_, active>>
      /\ loopAt[l] = "functors" /\ ran[l] = Len(functors[l])
      /\ loopAt' = [loopAt EXCEPT ![l] = to]
      /\ functors' = [functors EXCEPT ![l] = <<>>]
      /\ ran' = [ran EXCEPT ![l] = 0]
  BY DEF EndRound
<1>3. /\ loopAt'[l] = to /\ functors'[l] = <<>> /\ ran'[l] = 0
      /\ \A k \in Loops : k # l =>
             /\ loopAt'[k] = loopAt[k] /\ functors'[k] = functors[k] /\ ran'[k] = ran[k]
  BY <1>1, <1>2 DEF TypeOK
<1>4. ConnIds' = ConnIds /\ Functors' = Functors /\ Connection' = Connection
  BY <1>2, TypesKeep
<1>5. Todo(l) = pendingFunctors_[l] /\ Todo(l)' = pendingFunctors_'[l]
  <2>1. pendingFunctors_[l] \in Seq(Functors) /\ functors[l] \in Seq(Functors)
    BY <1>1 DEF TypeOK
  <2>2. pendingFunctors_'[l] \in Seq(Functors)
    <3>1. pendingFunctors_'[l] \in {<<>>, pendingFunctors_[l]}
      BY <1>1 DEF EndRound, TypeOK
    <3>2. <<>> \in Seq(Functors)
      OBVIOUS
    <3> QED
      BY <2>1, <3>1, <3>2
  <2>3. SubSeq(functors[l], Len(functors[l]) + 1, Len(functors[l])) = <<>>
    BY <2>1
  <2>4. SubSeq(<<>>, 0 + 1, Len(<<>>)) = <<>>
    OBVIOUS
  <2>5. /\ Todo(l) = <<>> \o pendingFunctors_[l]
        /\ Todo(l)' = <<>> \o pendingFunctors_'[l]
    BY <1>2, <1>3, <2>3, <2>4 DEF Todo
  <2> QED
    BY <2>1, <2>2, <2>5
<1>6. RoundIInv'
  BY <1>1, <1>2, <1>3, EmptySeq DEF RoundIInv
<1>7. ActiveIInv'
  BY <1>1, <1>2, <1>4 DEF ActiveIInv
<1>8. CASE ~(quit_[l] /\ l # Base)
  <2>1. UNCHANGED <<pendingFunctors_, dropped>>
    BY <1>8 DEF EndRound
  <2>2. \A k \in Loops : Todo(k)' = Todo(k)
    BY <1>3, <1>5, <2>1 DEF Todo
  <2>3. QueuesIInv'
    BY <1>2, <1>3, <2>1, <2>2, QueuesSame
  <2>4. TypeOK'
    <3>1. <<>> \in Seq(Functors)
      OBVIOUS
    <3> QED
      BY <1>1, <1>2, <1>4, <2>1, <3>1 DEF TypeOK
  <2>5. OverIInv'
    BY <1>1, <1>2, <1>3, <1>8, <2>2 DEF OverIInv
  <2>6. StartedIInv'
    <3>1. Unrun(Base, ListenFd)' = Unrun(Base, ListenFd)
      BY <2>2, LoopNumbers DEF Unrun
    <3>2. IOLoops' = IOLoops /\ IOLoops \subseteq Loops
      BY <1>1, <1>2, LoopNumbers DEF IOLoops, TypeOK
    <3> QED
      BY <1>1, <1>2, <1>3, <3>1, <3>2 DEF StartedIInv
  <2> QED
    BY <1>6, <1>7, <2>3, <2>4, <2>5, <2>6 DEF ConnIInv, QueuesIInv
<1>9. CASE quit_[l] /\ l # Base
  <2>1. /\ pendingFunctors_' = [pendingFunctors_ EXCEPT ![l] = <<>>]
        /\ dropped' = dropped \cup {f.conn : f \in Range(pendingFunctors_[l])}
    BY <1>9 DEF EndRound
  <2>2. /\ pendingFunctors_'[l] = <<>>
        /\ \A k \in Loops : k # l => pendingFunctors_'[k] = pendingFunctors_[k]
    BY <1>1, <2>1 DEF TypeOK
  <2>3. /\ Todo(l)' = <<>>
        /\ \A k \in Loops : k # l => Todo(k)' = Todo(k)
    BY <1>3, <1>5, <2>2 DEF Todo
  <2>4. /\ \A f : ~Unrun(l, f)'
        /\ \A k \in Loops : k # l => \A f : Unrun(k, f)' <=> Unrun(k, f)
    BY <2>3, UnrunNone, UnrunSame
  <2>5. \A f \in Range(pendingFunctors_[l]) : Unrun(l, f) /\ f \in Functors
    BY <1>1, <1>5, UnrunType DEF Range, Unrun, TypeOK
  <2>6. \A f : Unrun(l, f) => f.conn \in dropped'
    BY <1>5, <2>1, <1>1 DEF Range, Unrun, TypeOK
  <2>7. dropped \subseteq dropped' /\ dropped' \subseteq ConnIds
    BY <1>1, <1>9, <2>1, <2>5 DEF ConnIInv, PlaceIInv, Functors, TypeOK
  <2>8. TypeOK'
    <3>1. <<>> \in Seq(Functors)
      OBVIOUS
    <3> QED
      BY <1>1, <1>2, <1>4, <2>1, <2>7, <3>1 DEF TypeOK
  <2>9. OverIInv'
    BY <1>1, <1>2, <1>3, <1>9, <2>3 DEF OverIInv
  <2>10. StartedIInv'
    <3>1. IOLoops' = IOLoops /\ IOLoops \subseteq Loops
      BY <1>1, <1>2, LoopNumbers DEF IOLoops, TypeOK
    <3> QED
      BY <1>1, <1>2, <1>3, <1>9, <2>4, <3>1, LoopNumbers DEF StartedIInv
  <2>11. \A c \in ConnIds : conns[c].loop \in Loops
    BY <1>1, ConnTypes
  <2>12. PlaceIInv'
    BY <1>2, <1>4, <2>4 DEF ConnIInv, PlaceIInv
  <2>13. OrderIInv'
    BY <2>3, UnrunNone, UnrunSame DEF ConnIInv, OrderIInv
  <2>14. HoldIInv'
    BY <1>2, <1>3, <1>4, <1>9, <2>4, <2>11 DEF ConnIInv, HoldIInv
  <2>15. TellIInv'
    <3>1. \A c \in ConnIds : Unrun(l, Establish(c)) \/ Unrun(l, Destruct(c)) => c \in dropped'
      BY <2>6, FunctorsDiffer
    <3> QED
      BY <1>2, <1>4, <2>4, <2>7, <2>11, <3>1 DEF ConnIInv, TellIInv
  <2>16. StateIInv'
    BY <1>2, <1>4 DEF ConnIInv, StateIInv
  <2> QED
    BY <1>6, <1>7, <2>8, <2>9, <2>10, <2>12, <2>13, <2>14, <2>15, <2>16 DEF ConnIInv
<1> QED
  BY <1>8, <1>9

-----------------------------------------------------------------------------
(* Listening, and the end of the base loop.                                *)

LEMMA StartListeningStep ==
    ASSUME ConnIInv, IInv, StartListening
    PROVE  ConnIInv'
<1> USE LoopNumbers
<1>1. TypeOK /\ RoundIInv /\ OverIInv /\ StartedIInv /\ ActiveIInv
  BY DEF ConnIInv
<1>2. /\ UNCHANGED <<numThreads_, next_, started_, connectionMap_, serverAt, conns,
                     backlog, loopAt, quit_, active, functors, ran, dropped>>
      /\ \A l \in IOLoops : loopAt[l] # "none"
      /\ starter' = "none"
  BY DEF StartListening
<1>3. ConnIds' = ConnIds /\ Functors' = Functors /\ Connection' = Connection
  BY <1>2, TypesKeep
<1>4. RoundIInv' /\ ActiveIInv'
  BY <1>1, <1>2, <1>3 DEF RoundIInv, ActiveIInv
<1>5. StartedIInv'
  BY <1>2 DEF StartedIInv, IOLoops
<1>6. CASE starter = "base"
  <2>1. listenning_' = TRUE /\ UNCHANGED pendingFunctors_
    BY <1>6 DEF StartListening
  <2>2. \A l \in Loops : Todo(l)' = Todo(l)
    BY <1>2, <2>1, TodoSame
  <2>3. QueuesIInv'
    BY <1>2, <2>2, QueuesSame
  <2>4. TypeOK'
    BY <1>1, <1>2, <1>3, <2>1 DEF TypeOK
  <2>5. OverIInv'
    BY <1>1, <1>2, <2>2 DEF OverIInv
  <2> QED
    BY <1>4, <1>5, <2>3, <2>4, <2>5 DEF ConnIInv, QueuesIInv
<1>7. CASE starter # "base"
  <2>1. Queue(Base, <<ListenFd>>) /\ UNCHANGED listenning_
    BY <1>7 DEF StartListening, ListenFd
  <2>2. Todo(Base)' = Append(Todo(Base), ListenFd)
    BY <1>1, <1>2, <2>1, TodoQueue
  <2>3. \A k \in Loops : k # Base => Todo(k)' = Todo(k)
    BY <1>1, <1>2, <2>1, TodoQueue, TodoSame
  <2>8. /\ \A f : Unrun(Base, f)' <=> Unrun(Base, f) \/ f = ListenFd
        /\ \A k \in Loops : k # Base => \A f : Unrun(k, f)' <=> Unrun(k, f)
    BY <1>1, <2>2, <2>3, UnrunQueue, UnrunSame
  <2>4. OrderIInv'
    <3>1. \A g : ~Clash(ListenFd, g)
      BY DEF Clash, ListenFd, Functor
    <3> QED
      BY <1>1, <2>2, <2>3, <3>1, UnrunQueue, UnrunSame DEF ConnIInv, OrderIInv
  <2>5. QueuesIInv'
    BY <1>2, <2>4, <2>8, QueuesKeep
  <2>6. TypeOK'
    <3>1. ListenFd \in Functors
      BY DEF ListenFd, Functor, Functors
    <3>2. pendingFunctors_' \in [Loops -> Seq(Functors)]
      <4>1. pendingFunctors_[Base] \o <<ListenFd>> \in Seq(Functors)
        BY <1>1, <3>1 DEF TypeOK
      <4> QED
        BY <1>1, <2>1, <4>1 DEF Queue, TypeOK
    <3> QED
      BY <1>1, <1>2, <1>3, <2>1, <3>2 DEF TypeOK
  <2>7. OverIInv'
    BY <1>1, <1>2, <2>3 DEF OverIInv
  <2> QED
    BY <1>4, <1>5, <2>4, <2>5, <2>6, <2>7 DEF ConnIInv, QueuesIInv
<1> QED
  BY <1>6, <1>7

LEMMA RunsKeeps ==
    ASSUME TypeOK, RoundIInv, NEW l \in Loops, NEW run, NEW c, Runs(l, run, c)
    PROVE  RoundIInv' /\ ran' \in [Loops -> Nat]
<1>1. /\ ran' = [ran EXCEPT ![l] = ran[l] + 1]
      /\ loopAt[l] = "functors" /\ ran[l] < Len(functors[l])
      /\ UNCHANGED <<functors, loopAt, active>>
  BY DEF Runs
<1>2. ran \in [Loops -> Nat] /\ Len(functors[l]) \in Nat
  BY LenProperties DEF TypeOK
<1>3. /\ ran'[l] = ran[l] + 1
      /\ ran'[l] <= Len(functors[l])
      /\ \A k \in Loops : k # l => ran'[k] = ran[k]
  BY <1>1, <1>2
<1> QED
  BY <1>1, <1>2, <1>3 DEF RoundIInv

LEMMA RunListenFdStep ==
    ASSUME ConnIInv, NEW l \in Loops, RunListenFd(l)
    PROVE  ConnIInv'
<1> USE LoopNumbers
<1>1. TypeOK /\ RoundIInv /\ OverIInv /\ StartedIInv /\ ActiveIInv
  BY DEF ConnIInv
<1>2. /\ UNCHANGED <<numThreads_, next_, started_, starter, serverAt, backlog, loopAt, quit_,
                     active, functors, dropped, conns, connectionMap_, pendingFunctors_>>
      /\ loopAt[l] = "functors" /\ ran[l] < Len(functors[l])
      /\ ran' = [ran EXCEPT ![l] = @ + 1]
      /\ Runs(l, "listenFd", Acceptor)
      /\ listenning_' = TRUE
  BY DEF RunListenFd, Runs
<1>3. ConnIds' = ConnIds /\ Functors' = Functors /\ Connection' = Connection
  BY <1>2, TypesKeep
<1>6. \A k \in Loops : k # l => Todo(k)' = Todo(k)
  BY <1>1, <1>2, TodoRuns, TodoSame
<1>4. /\ \A f : Unrun(l, f) <=> f = ListenFd \/ Unrun(l, f)'
      /\ \A k \in Loops : k # l => \A f : Unrun(k, f)' <=> Unrun(k, f)
  BY <1>1, <1>2, <1>6, UnrunRuns, UnrunSame DEF ListenFd
<1>5. l = Base
  <2>1. ListenFd \in Functors /\ ListenFd.conn = Acceptor
    BY DEF ListenFd, Functor, Functors
  <2> QED
    BY <1>4, <2>1 DEF ConnIInv, PlaceIInv
<1>7. OrderIInv'
  BY <1>1, <1>2, <1>6, UnrunRuns, UnrunSame DEF ConnIInv, OrderIInv
<1>8. QueuesIInv'
  BY <1>2, <1>4, <1>7, FunctorsDiffer, QueuesKeep
<1>9. RoundIInv' /\ ran' \in [Loops -> Nat]
  BY <1>1, <1>2, RunsKeeps
<1>13. ActiveIInv'
  BY <1>1, <1>2, <1>3 DEF ActiveIInv
<1>10. StartedIInv'
  BY <1>1, <1>2, <1>4, <1>5 DEF StartedIInv, IOLoops
<1>11. TypeOK'
  BY <1>1, <1>2, <1>3, <1>9 DEF TypeOK
<1>12. OverIInv'
  BY <1>1, <1>2, <1>5, <1>6 DEF OverIInv
<1> QED
  BY <1>8, <1>9, <1>10, <1>11, <1>12, <1>13 DEF ConnIInv, QueuesIInv

\* The base loop goes with what is left in its queue. Its own connections were closed
\* or destroyed before.
LEMMA FreeBaseLoopStep ==
    ASSUME ConnIInv, FreeBaseLoop
    PROVE  ConnIInv'
<1> USE LoopNumbers DEF serverVars
<1>1. TypeOK /\ RoundIInv /\ OverIInv /\ StartedIInv /\ ActiveIInv
  BY DEF ConnIInv
<1>2. /\ UNCHANGED <<numThreads_, next_, started_, listenning_, connectionMap_, starter,
                     serverAt, conns, backlog, quit_, active, functors, ran, dropped>>
      /\ loopAt[Base] = "ended"
      /\ loopAt' = [loopAt EXCEPT ![Base] = "freed"]
      /\ pendingFunctors_' = [pendingFunctors_ EXCEPT ![Base] = <<>>]
  BY DEF FreeBaseLoop
<1>3. /\ loopAt'[Base] = "freed" /\ pendingFunctors_'[Base] = <<>>
      /\ functors[Base] = <<>> /\ ran[Base] = 0
      /\ \A k \in Loops : k # Base =>
             loopAt'[k] = loopAt[k] /\ pendingFunctors_'[k] = pendingFunctors_[k]
  BY <1>1, <1>2 DEF TypeOK, RoundIInv
<1>4. ConnIds' = ConnIds /\ Functors' = Functors /\ Connection' = Connection
  BY <1>2, TypesKeep
<1>5. /\ Todo(Base)' = <<>>
      /\ \A k \in Loops : k # Base => Todo(k)' = Todo(k)
  <2>1. SubSeq(<<>>, 0 + 1, Len(<<>>)) = <<>>
    OBVIOUS
  <2>2. Todo(Base)' = <<>> \o <<>>
    BY <1>2, <1>3, <2>1 DEF Todo
  <2>3. <<>> \o <<>> = <<>>
    OBVIOUS
  <2>4. \A k \in Loops : k # Base => Todo(k)' = Todo(k)
    BY <1>2, <1>3 DEF Todo
  <2> QED
    BY <2>2, <2>3, <2>4
<1>6. /\ \A f : ~Unrun(Base, f)'
      /\ \A k \in Loops : k # Base => \A f : Unrun(k, f)' <=> Unrun(k, f)
  BY <1>5, UnrunNone, UnrunSame
<1>7. \A c \in ConnIds : conns[c].loop \in Loops
  BY <1>1, ConnTypes
<1>8. RoundIInv' /\ ActiveIInv'
  BY <1>1, <1>2, <1>3, <1>4 DEF RoundIInv, ActiveIInv
<1>9. TypeOK'
  <2>1. <<>> \in Seq(Functors)
    OBVIOUS
  <2> QED
    BY <1>1, <1>2, <1>4, <2>1 DEF TypeOK
<1>10. OverIInv' /\ StartedIInv'
  <2>1. IOLoops' = IOLoops /\ \A l \in IOLoops : l \in Loops /\ l # Base
    BY <1>1, <1>2 DEF IOLoops, TypeOK
  <2> QED
    BY <1>1, <1>2, <1>3, <1>5, <1>6, <2>1 DEF OverIInv, StartedIInv
<1>11. PlaceIInv'
  BY <1>2, <1>4, <1>6 DEF ConnIInv, PlaceIInv
<1>12. OrderIInv'
  BY <1>5, UnrunNone, UnrunSame DEF ConnIInv, OrderIInv
<1>13. HoldIInv'
  BY <1>2, <1>3, <1>4, <1>6, <1>7 DEF ConnIInv, HoldIInv
<1>14. TellIInv' /\ StateIInv'
  BY <1>2, <1>4, <1>6, <1>7 DEF ConnIInv, TellIInv, StateIInv
<1> QED
  BY <1>8, <1>9, <1>10, <1>11, <1>12, <1>13, <1>14 DEF ConnIInv

-----------------------------------------------------------------------------
(* Steps in the life of one connection.                                    *)

\* No connection is made, and none moves to another loop.
SharesStay ==
    /\ UNCHANGED <<next_, numThreads_>>
    /\ ConnIds' = ConnIds
    /\ \A d \in ConnIds : conns'[d].loop = conns[d].loop

\* What a change of one connection leaves to the others.
LEMMA ChangeKeeps ==
    ASSUME ConnIInv, NEW c \in ConnIds, NEW state, NEW index, NEW told,
           Changed(conns, conns', c, state, index, told), UNCHANGED numThreads_
    PROVE  /\ ConnIds' = ConnIds /\ Functors' = Functors /\ Connection' = Connection
           /\ IOLoops' = IOLoops
           /\ conns' \in Seq(Connection) /\ conns # <<>>
           /\ \A d \in ConnIds : d # c => conns'[d] = conns[d]
           /\ \A d \in ConnIds : conns'[d].loop = conns[d].loop
           /\ conns'[c].state_ = state /\ conns'[c].index = index /\ conns'[c].told = told
           /\ \A d \in ConnIds : conns[d].loop \in Loops
<1>1. /\ conns' \in Seq(Connection) /\ Len(conns') = Len(conns)
      /\ \A d \in ConnIds : d # c => conns'[d] = conns[d]
      /\ \A d \in ConnIds : conns'[d].loop = conns[d].loop
      /\ conns'[c].state_ = state /\ conns'[c].index = index /\ conns'[c].told = told
  BY DEF Changed, ConnIds
<1>2. ConnIds' = ConnIds /\ Functors' = Functors /\ Connection' = Connection
  BY <1>1, TypesKeep
<1>3. \A d \in ConnIds : conns[d].loop \in Loops
  BY ConnTypes DEF ConnIInv
<1>4. conns # <<>>
  BY DEF ConnIds
<1> QED
  BY <1>1, <1>2, <1>3, <1>4 DEF IOLoops

\* connectEstablished, in the connection's loop.
LEMMA RunConnectEstablishedStep ==
    ASSUME ConnIInv, NEW l \in Loops, NEW c \in ConnIds, RunConnectEstablished(l, c)
    PROVE  ConnIInv' /\ SharesStay
<1>1. TypeOK /\ RoundIInv /\ OverIInv /\ StartedIInv /\ ActiveIInv
  BY DEF ConnIInv
<1>2. /\ UNCHANGED <<numThreads_, next_, started_, starter, serverAt, backlog, loopAt, quit_,
                     active, functors, dropped, connectionMap_, pendingFunctors_, listenning_>>
      /\ loopAt[l] = "functors"
      /\ Runs(l, "connectEstablished", c)
      /\ conns' = Established(conns, c)
  BY DEF RunConnectEstablished, Runs
<1>3. \A k \in Loops : k # l => Todo(k)' = Todo(k)
  BY <1>1, <1>2, TodoRuns, TodoSame
<1>4. /\ \A f : Unrun(l, f) <=> f = Establish(c) \/ Unrun(l, f)'
      /\ \A k \in Loops : k # l => \A f : Unrun(k, f)' <=> Unrun(k, f)
      /\ ~Unrun(l, Establish(c))'
      /\ OrderIInv'
  BY <1>1, <1>2, <1>3, UnrunRuns, UnrunSame DEF Establish, ConnIInv, OrderIInv
<1>5. l # Base /\ conns[c].loop = l /\ conns[c].state_ = "kConnecting"
  BY <1>4 DEF ConnIInv, PlaceIInv
<1>6. conns[c].told = <<>>
  BY <1>5 DEF ConnIInv, StateIInv, Told
<1>7. Changed(conns, conns', c, "kConnected", kAdded, <<"up">>)
  BY <1>1, <1>2, <1>6, EstablishedChanges DEF TypeOK, ConnIds
<1>8. /\ ConnIds' = ConnIds /\ Functors' = Functors /\ Connection' = Connection
      /\ IOLoops' = IOLoops
      /\ conns' \in Seq(Connection) /\ conns # <<>>
      /\ \A d \in ConnIds : d # c => conns'[d] = conns[d]
      /\ \A d \in ConnIds : conns'[d].loop = conns[d].loop
      /\ conns'[c].state_ = "kConnected" /\ conns'[c].index = kAdded
      /\ conns'[c].told = <<"up">>
      /\ \A d \in ConnIds : conns[d].loop \in Loops
  BY <1>2, <1>7, ChangeKeeps
<1>9. /\ \A d \in ConnIds : Unrun(l, Destruct(d))' <=> Unrun(l, Destruct(d))
      /\ \A d \in ConnIds : Unrun(l, Remove(d))' <=> Unrun(l, Remove(d))
      /\ \A d \in ConnIds : d # c => (Unrun(l, Establish(d))' <=> Unrun(l, Establish(d)))
  BY <1>4, FunctorsDiffer
<1>10. c \in connectionMap_ \/ Unrun(l, Destruct(c))
  BY <1>2, <1>4, <1>5 DEF ConnIInv, HoldIInv
<1>11. RoundIInv' /\ ran' \in [Loops -> Nat]
  BY <1>1, <1>2, RunsKeeps
<1>12. TypeOK'
  BY <1>1, <1>2, <1>8, <1>11 DEF TypeOK
<1>13. OverIInv' /\ StartedIInv'
  BY <1>1, <1>2, <1>3, <1>5, <1>8 DEF OverIInv, StartedIInv
<1>14. PlaceIInv'
  BY <1>4, <1>5, <1>8, <1>9 DEF ConnIInv, PlaceIInv
<1>15. HoldIInv'
  BY <1>2, <1>4, <1>5, <1>8, <1>9, <1>10 DEF ConnIInv, HoldIInv
<1>16. TellIInv'
  BY <1>2, <1>4, <1>5, <1>8, <1>9, <1>10 DEF ConnIInv, TellIInv
<1>17. StateIInv'
  BY <1>5, <1>8 DEF ConnIInv, StateIInv, Told
<1>18. ActiveIInv'
  BY <1>1, <1>2, <1>8 DEF ActiveIInv
<1> QED
  BY <1>2, <1>8, <1>4, <1>11, <1>12, <1>13, <1>14, <1>15, <1>16, <1>17, <1>18 DEF ConnIInv, SharesStay

\* connectDestroyed, in the connection's loop.
LEMMA RunConnectDestroyedStep ==
    ASSUME ConnIInv, NEW l \in Loops, NEW c \in ConnIds, RunConnectDestroyed(l, c)
    PROVE  ConnIInv' /\ SharesStay
<1>1. TypeOK /\ RoundIInv /\ OverIInv /\ StartedIInv /\ ActiveIInv
  BY DEF ConnIInv
<1>2. /\ UNCHANGED <<numThreads_, next_, started_, starter, serverAt, backlog, loopAt, quit_,
                     active, functors, dropped, connectionMap_, pendingFunctors_, listenning_>>
      /\ loopAt[l] = "functors"
      /\ Runs(l, "connectDestroyed", c)
      /\ conns' = Destroyed(conns, c)
  BY DEF RunConnectDestroyed, Runs
<1>3. \A k \in Loops : k # l => Todo(k)' = Todo(k)
  BY <1>1, <1>2, TodoRuns, TodoSame
<1>4. /\ \A f : Unrun(l, f) <=> f = Destruct(c) \/ Unrun(l, f)'
      /\ \A k \in Loops : k # l => \A f : Unrun(k, f)' <=> Unrun(k, f)
      /\ ~Unrun(l, Establish(c))'
      /\ OrderIInv'
  BY <1>1, <1>2, <1>3, UnrunRuns, UnrunSame DEF Destruct, ConnIInv, OrderIInv
<1>5. conns[c].loop = l /\ (l = Base => conns[c].state_ = "kDisconnected")
  BY <1>4 DEF ConnIInv, PlaceIInv
<1>6. /\ \A d \in ConnIds : Unrun(l, Establish(d))' <=> Unrun(l, Establish(d))
      /\ \A d \in ConnIds : Unrun(l, Remove(d))' <=> Unrun(l, Remove(d))
      /\ \A d \in ConnIds : d # c => (Unrun(l, Destruct(d))' <=> Unrun(l, Destruct(d)))
      /\ ~Unrun(l, Establish(c))
  BY <1>4, FunctorsDiffer
<1> DEFINE s == conns[c].state_
           to == IF s = "kConnected" THEN "kDisconnected" ELSE s
           told == IF s = "kConnected" THEN <<"up", "down">> ELSE conns[c].told
<1>7. Changed(conns, conns', c, to, kNew, told)
  <2>1. s = "kConnected" => conns[c].told = <<"up">>
    BY DEF ConnIInv, StateIInv, Told
  <2> QED
    BY <1>1, <1>2, <2>1, DestroyedChanges DEF TypeOK, ConnIds
<1>8. /\ ConnIds' = ConnIds /\ Functors' = Functors /\ Connection' = Connection
      /\ IOLoops' = IOLoops
      /\ conns' \in Seq(Connection) /\ conns # <<>>
      /\ \A d \in ConnIds : d # c => conns'[d] = conns[d]
      /\ \A d \in ConnIds : conns'[d].loop = conns[d].loop
      /\ conns'[c].state_ = to /\ conns'[c].index = kNew
      /\ conns'[c].told = told
      /\ \A d \in ConnIds : conns[d].loop \in Loops
  BY <1>2, <1>7, ChangeKeeps
<1>9. told = Told(to)
  BY DEF ConnIInv, StateIInv, Told
<1>10. s \in {"kConnecting", "kConnected", "kDisconnecting", "kDisconnected"}
  BY <1>1, ConnTypes DEF Connection
<1>11. RoundIInv' /\ ran' \in [Loops -> Nat]
  BY <1>1, <1>2, RunsKeeps
<1>12. TypeOK'
  BY <1>1, <1>2, <1>8, <1>11 DEF TypeOK
<1>13. OverIInv' /\ StartedIInv'
  <2>1. Unrun(Base, ListenFd)' => Unrun(Base, ListenFd)
    BY <1>4, LoopNumbers
  <2> QED
    BY <1>1, <1>2, <1>3, <1>8, <2>1 DEF OverIInv, StartedIInv
<1>14. PlaceIInv'
  BY <1>4, <1>5, <1>6, <1>8 DEF ConnIInv, PlaceIInv
<1>15. HoldIInv'
  BY <1>2, <1>4, <1>5, <1>6, <1>8 DEF ConnIInv, HoldIInv
<1>16. TellIInv'
  BY <1>2, <1>4, <1>5, <1>6, <1>8, <1>10 DEF ConnIInv, TellIInv
<1>17. StateIInv'
  <2>1. kNew # kAdded
    BY DEF kNew, kAdded
  <2> HIDE DEF told
  <2> QED
    BY <1>5, <1>8, <1>9, <2>1 DEF ConnIInv, StateIInv
<1>18. ActiveIInv'
  <2>1. \A k \in Loops : c \notin active[k]
    BY <1>1, <1>2, <1>5 DEF ActiveIInv, RoundIInv
  <2> QED
    BY <1>1, <1>2, <1>8, <2>1 DEF ActiveIInv
<1> QED
  BY <1>2, <1>8, <1>4, <1>11, <1>12, <1>13, <1>14, <1>15, <1>16, <1>17, <1>18 DEF ConnIInv, SharesStay

LEMMA QueueType ==
    ASSUME TypeOK, NEW l \in Loops, NEW f \in Functors, Queue(l, <<f>>)
    PROVE  pendingFunctors_' \in [Loops -> Seq(Functors)]
<1>1. pendingFunctors_[l] \o <<f>> \in Seq(Functors)
  BY DEF TypeOK
<1> QED
  BY <1>1 DEF Queue, TypeOK

\* A functor that is run was still to be run.
LEMMA RunsUnrun ==
    ASSUME TypeOK, RoundIInv, NEW l \in Loops, NEW run, NEW c, Runs(l, run, c)
    PROVE  Unrun(l, Functor(run, c))
<1> DEFINE F == functors[l]
           P == pendingFunctors_[l]
           r == ran[l]
           S == SubSeq(F, r + 1, Len(F))
<1>1. /\ F \in Seq(Functors) /\ P \in Seq(Functors) /\ r \in Nat /\ r < Len(F)
      /\ F[r + 1] = Functor(run, c)
  BY TodoType DEF Runs
<1>2. Todo(l) = S \o P
  BY DEF Todo
<1> HIDE DEF F, P, r
<1>3. S \in Seq(Functors) /\ Len(S) > 0 /\ Len(S) \in Nat /\ S[1] = F[r + 1]
  BY <1>1
<1> HIDE DEF S
<1>4. Len(S \o P) \in Nat /\ Len(S \o P) > 0 /\ (S \o P)[1] = S[1]
  BY <1>1, <1>3
<1> QED
  BY <1>1, <1>2, <1>3, <1>4 DEF Unrun

\* A functor that establishes nothing is queued on one loop.
LEMMA QueueChanges ==
    ASSUME ConnIInv, NEW l \in Loops, NEW f \in Functors, f.run # "connectEstablished",
           Queue(l, <<f>>), UNCHANGED functors, ran'[l] = ran[l]
    PROVE  /\ \A g : Unrun(l, g)' <=> Unrun(l, g) \/ g = f
           /\ InOrder(l)'
           /\ pendingFunctors_' \in [Loops -> Seq(Functors)]
           /\ \A k \in Loops : k # l => pendingFunctors_'[k] = pendingFunctors_[k]
<1>1. TypeOK /\ RoundIInv /\ InOrder(l)
  BY DEF ConnIInv, OrderIInv
<1>2. Todo(l)' = Append(Todo(l), f)
  BY <1>1, TodoQueue
<1>3. \A g : ~Clash(f, g)
  BY DEF Clash
<1> QED
  BY <1>1, <1>2, <1>3, UnrunQueue, QueueType DEF Queue, TypeOK

\* removeConnectionInLoop, queued by an IO loop: the map's reference moves on to a
\* functor in that loop.
LEMMA RunRemoveConnectionStep ==
    ASSUME ConnIInv, IInv, NEW l \in Loops, NEW c \in ConnIds, RunRemoveConnection(l, c)
    PROVE  ConnIInv'
<1>1. TypeOK /\ RoundIInv /\ OverIInv /\ StartedIInv /\ ActiveIInv
  BY DEF ConnIInv
<1>3. PICK io \in Loops : io = conns[c].loop
  BY <1>1, ConnTypes
<1>2. /\ UNCHANGED <<numThreads_, next_, started_, starter, serverAt, backlog, loopAt, quit_,
                     active, functors, dropped, conns, listenning_>>
      /\ loopAt[l] = "functors"
      /\ Runs(l, "removeConnectionInLoop", c)
      /\ connectionMap_' = connectionMap_ \ {c}
      /\ Queue(io, <<Destruct(c)>>)
  BY <1>3 DEF RunRemoveConnection, Runs, RemoveConnectionInLoop, Destruct
<1>4. l = Base /\ io # Base /\ conns[c].state_ = "kDisconnected"
  BY <1>1, <1>2, <1>3, RunsUnrun DEF ConnIInv, PlaceIInv, Remove
<1>5. /\ ran'[io] = ran[io]
      /\ \A k \in Loops : k # l => ran'[k] = ran[k]
  BY <1>1, <1>2, <1>3, <1>4 DEF Runs, TypeOK
<1>6. Destruct(c) \in Functors /\ Destruct(c).run # "connectEstablished"
  BY FunctorTypes DEF Destruct, Functor
<1>7. /\ \A f : Unrun(io, f)' <=> Unrun(io, f) \/ f = Destruct(c)
      /\ InOrder(io)'
      /\ pendingFunctors_' \in [Loops -> Seq(Functors)]
      /\ \A k \in Loops : k # io => pendingFunctors_'[k] = pendingFunctors_[k]
  BY <1>2, <1>3, <1>5, <1>6, QueueChanges
<1>8. /\ \A f : Unrun(l, f) <=> f = Remove(c) \/ Unrun(l, f)'
      /\ InOrder(l)'
  BY <1>1, <1>2, <1>4, <1>7, UnrunRuns DEF Remove, ConnIInv, OrderIInv
<1>9. \A k \in Loops : k # l /\ k # io => Todo(k)' = Todo(k)
  BY <1>2, <1>5, <1>7, TodoSame
<1>10. \A k \in Loops : k # l /\ k # io =>
         /\ InOrder(k)'
         /\ \A f : Unrun(k, f)' <=> Unrun(k, f)
  BY <1>9, UnrunSame DEF ConnIInv, OrderIInv
<1>11. ConnIds' = ConnIds /\ Functors' = Functors /\ Connection' = Connection
  BY <1>2, TypesKeep
<1>12. \A k \in Loops : \A d \in ConnIds :
          /\ Unrun(k, Establish(d))' <=> Unrun(k, Establish(d))
          /\ Unrun(k, Remove(d))' => Unrun(k, Remove(d))
          /\ Unrun(k, Destruct(d))' <=> Unrun(k, Destruct(d)) \/ (k = io /\ d = c)
  <2> TAKE k \in Loops
  <2> TAKE d \in ConnIds
  <2>1. CASE k = l
    BY <1>4, <1>8, <2>1, FunctorsDiffer
  <2>2. CASE k = io
    BY <1>7, <2>2, FunctorsDiffer
  <2>3. CASE k # l /\ k # io
    BY <1>10, <2>3
  <2> QED
    BY <2>1, <2>2, <2>3
<1>13. RoundIInv' /\ ran' \in [Loops -> Nat]
  BY <1>1, <1>2, RunsKeeps
<1>14. TypeOK'
  BY <1>1, <1>2, <1>7, <1>11, <1>13 DEF TypeOK
<1>15. OverIInv'
  <2>1. ~quit_[io] /\ loopAt[io] # "ended"
    BY <1>1, <1>2, <1>3, <1>4 DEF OverIInv, IInv, EndIInv
  <2> QED
    BY <1>1, <1>2, <1>4, <1>9, <2>1 DEF OverIInv
<1>16. StartedIInv'
  BY <1>1, <1>2, <1>4, <1>8 DEF StartedIInv, IOLoops
<1>17. PlaceIInv'
  <2>1. \A k \in Loops : \A f : Unrun(k, f)' /\ f.conn = Acceptor => Unrun(k, f)
    <3> TAKE k \in Loops
    <3>1. Destruct(c).conn # Acceptor
      BY FunctorsDiffer DEF ConnIds, Acceptor
    <3> QED
      BY <1>7, <1>8, <1>10, <3>1
  <2> QED
    BY <1>2, <1>3, <1>4, <1>11, <1>12, <2>1 DEF ConnIInv, PlaceIInv
<1>18. OrderIInv'
  BY <1>7, <1>8, <1>10 DEF OrderIInv
<1>19. \A d \in ConnIds : conns[d].loop \in Loops
  BY <1>1, ConnTypes
<1>20. HoldIInv'
  BY <1>2, <1>3, <1>11, <1>12, <1>19 DEF ConnIInv, HoldIInv
<1>21. TellIInv'
  BY <1>2, <1>3, <1>4, <1>11, <1>12, <1>19 DEF ConnIInv, TellIInv
<1>22. StateIInv' /\ ActiveIInv'
  BY <1>1, <1>2, <1>11 DEF ConnIInv, StateIInv, ActiveIInv
<1> QED
  BY <1>13, <1>14, <1>15, <1>16, <1>17, <1>18, <1>20, <1>21, <1>22 DEF ConnIInv

\* The peer has closed. Whichever loop finds it, what has to follow is queued on the base
\* loop: connectDestroyed of one of its own, or removeConnectionInLoop.
LEMMA HandleCloseStep ==
    ASSUME ConnIInv, NEW l \in Loops, NEW c \in ConnIds, HandleClose(l, c)
    PROVE  ConnIInv' /\ SharesStay
<1>1. TypeOK /\ RoundIInv /\ OverIInv /\ StartedIInv /\ ActiveIInv
  BY DEF ConnIInv
<1>2. /\ UNCHANGED <<numThreads_, next_, started_, listenning_, starter, serverAt, backlog,
                     loopAt, quit_, functors, ran, dropped>>
      /\ loopAt[l] = "dispatch" /\ c \in active[l]
      /\ active' = [active EXCEPT ![l] = @ \ {c}]
      /\ conns' = Closed(conns, c)
      /\ RemoveConnection(l, c)
  BY DEF HandleClose, Dispatches
<1>3. /\ conns[c].loop = l /\ conns[c].index = kAdded
      /\ conns[c].state_ \in {"kConnected", "kDisconnecting"}
      /\ conns[c].told = <<"up">>
  BY <1>1, <1>2 DEF ActiveIInv, ConnIInv, StateIInv, Told
<1>4. PICK f \in Functors :
          /\ Queue(Base, <<f>>)
          /\ f = IF l = Base THEN Destruct(c) ELSE Remove(c)
          /\ connectionMap_' = IF l = Base THEN connectionMap_ \ {c} ELSE connectionMap_
  BY <1>2, <1>3, FunctorTypes
  DEF RemoveConnection, RemoveConnectionInLoop, Destruct, Remove
<1>5. f.run # "connectEstablished" /\ f.conn = c
  BY <1>4 DEF Destruct, Remove, Functor
<1>6. /\ \A g : Unrun(Base, g)' <=> Unrun(Base, g) \/ g = f
      /\ InOrder(Base)'
      /\ pendingFunctors_' \in [Loops -> Seq(Functors)]
      /\ \A k \in Loops : k # Base => pendingFunctors_'[k] = pendingFunctors_[k]
  BY <1>2, <1>4, <1>5, QueueChanges, LoopNumbers
<1>7. \A k \in Loops : k # Base => Todo(k)' = Todo(k)
  BY <1>2, <1>6, TodoSame
<1>8. \A k \in Loops : k # Base => InOrder(k)' /\ \A g : Unrun(k, g)' <=> Unrun(k, g)
  BY <1>7, UnrunSame DEF ConnIInv, OrderIInv
<1>9. Changed(conns, conns', c, "kDisconnected", kDeleted, <<"up", "down">>)
  BY <1>1, <1>2, <1>3, ClosedChanges DEF TypeOK, ConnIds
<1>10. /\ ConnIds' = ConnIds /\ Functors' = Functors /\ Connection' = Connection
       /\ IOLoops' = IOLoops
       /\ conns' \in Seq(Connection) /\ conns # <<>>
       /\ \A d \in ConnIds : d # c => conns'[d] = conns[d]
       /\ \A d \in ConnIds : conns'[d].loop = conns[d].loop
       /\ conns'[c].state_ = "kDisconnected" /\ conns'[c].index = kDeleted
       /\ conns'[c].told = <<"up", "down">>
       /\ \A d \in ConnIds : conns[d].loop \in Loops
  BY <1>2, <1>9, ChangeKeeps
<1>11. \A k \in Loops : \A d \in ConnIds :
          /\ Unrun(k, Establish(d))' <=> Unrun(k, Establish(d))
          /\ Unrun(k, Remove(d))' <=>
                Unrun(k, Remove(d)) \/ (k = Base /\ l # Base /\ d = c)
          /\ Unrun(k, Destruct(d))' <=>
                Unrun(k, Destruct(d)) \/ (k = Base /\ l = Base /\ d = c)
  BY <1>4, <1>6, <1>8, FunctorsDiffer
<1>12. /\ \A k \in Loops : active'[k] \subseteq active[k]
       /\ c \notin active'[l]
       /\ \A k \in Loops : k # l => c \notin active[k]
       /\ active' \in [Loops -> SUBSET ({Acceptor} \cup ConnIds)]
  BY <1>1, <1>2, <1>3 DEF TypeOK, ActiveIInv
<1>13. TypeOK'
  BY <1>1, <1>2, <1>4, <1>6, <1>10, <1>12 DEF TypeOK
<1>14. RoundIInv'
  BY <1>1, <1>2, <1>12 DEF RoundIInv
<1>15. OverIInv'
  BY <1>1, <1>2, <1>4, <1>7 DEF OverIInv
<1>16. StartedIInv'
  <2>1. Unrun(Base, ListenFd)' => Unrun(Base, ListenFd)
    BY <1>4, <1>6, FunctorsDiffer
  <2> QED
    BY <1>1, <1>2, <1>10, <1>12, <2>1, LoopNumbers DEF StartedIInv
<1>17. PlaceIInv'
  <2>1. \A k \in Loops : \A g : Unrun(k, g)' /\ g.conn = Acceptor => Unrun(k, g)
    BY <1>5, <1>6, <1>8 DEF ConnIds, Acceptor
  <2>2. \A k \in Loops : ~Unrun(k, Establish(c))
    BY <1>3 DEF ConnIInv, PlaceIInv
  <2> QED
    BY <1>2, <1>3, <1>10, <1>11, <2>1, <2>2 DEF ConnIInv, PlaceIInv
<1>18. OrderIInv'
  BY <1>6, <1>8 DEF OrderIInv
<1>19. HoldIInv'
  BY <1>2, <1>3, <1>4, <1>10, <1>11 DEF ConnIInv, HoldIInv, kNew, kAdded
<1>20. TellIInv'
  BY <1>2, <1>3, <1>4, <1>10, <1>11 DEF ConnIInv, TellIInv
<1>21. StateIInv'
  BY <1>10 DEF ConnIInv, StateIInv, Told, kDeleted, kAdded
<1>22. ActiveIInv'
  BY <1>1, <1>2, <1>10, <1>12 DEF ActiveIInv
<1> QED
  BY <1>2, <1>4, <1>10, <1>13, <1>14, <1>15, <1>16, <1>17, <1>18, <1>19, <1>20, <1>21, <1>22 DEF ConnIInv, SharesStay

-----------------------------------------------------------------------------
(* The destructor's turn for one connection.                               *)

\* One of the base loop's own is destroyed at once; that loop runs no more.
LEMMA DestroyOwnStep ==
    ASSUME ConnIInv, IInv, NEW c \in connectionMap_, DestroyConnection(c),
           conns[c].loop = Base
    PROVE  ConnIInv' /\ SharesStay
<1>1. TypeOK /\ RoundIInv /\ OverIInv /\ StartedIInv /\ ActiveIInv /\ c \in ConnIds
  BY DEF ConnIInv, TypeOK
<1>2. /\ UNCHANGED <<numThreads_, next_, started_, listenning_, starter, serverAt, backlog,
                     loopAt, quit_, active, functors, ran, dropped, pendingFunctors_>>
      /\ serverAt = "destroying"
      /\ connectionMap_' = connectionMap_ \ {c}
      /\ conns' = Destroyed(conns, c)
  BY DEF DestroyConnection
<1>3. loopAt[Base] \in {"ended", "freed"}
  BY <1>2 DEF IInv, EndIInv
<1>4. \A k \in Loops : Todo(k)' = Todo(k)
  BY <1>2, TodoSame
<1>5. /\ \A k \in Loops : \A g : Unrun(k, g)' <=> Unrun(k, g)
      /\ OrderIInv'
  BY <1>4, UnrunSame DEF ConnIInv, OrderIInv
<1> DEFINE s == conns[c].state_
           to == IF s = "kConnected" THEN "kDisconnected" ELSE s
           told == IF s = "kConnected" THEN <<"up", "down">> ELSE conns[c].told
<1>6. Changed(conns, conns', c, to, kNew, told)
  <2>1. s = "kConnected" => conns[c].told = <<"up">>
    BY <1>1 DEF ConnIInv, StateIInv, Told
  <2> QED
    BY <1>1, <1>2, <2>1, DestroyedChanges DEF TypeOK, ConnIds
<1>7. /\ ConnIds' = ConnIds /\ Functors' = Functors /\ Connection' = Connection
      /\ IOLoops' = IOLoops
      /\ conns' \in Seq(Connection) /\ conns # <<>>
      /\ \A d \in ConnIds : d # c => conns'[d] = conns[d]
      /\ \A d \in ConnIds : conns'[d].loop = conns[d].loop
      /\ conns'[c].state_ = to /\ conns'[c].index = kNew
      /\ conns'[c].told = told
      /\ \A d \in ConnIds : conns[d].loop \in Loops
  BY <1>1, <1>2, <1>6, ChangeKeeps
<1>8. told = Told(to)
  BY <1>1 DEF ConnIInv, StateIInv, Told
<1>9. /\ s \in {"kConnected", "kDisconnecting", "kDisconnected"}
      /\ \A k \in Loops : ~Unrun(k, Establish(c)) /\ ~Unrun(k, Remove(c))
      /\ Unrun(Base, Destruct(c)) => s = "kDisconnected"
  BY <1>1, ConnTypes, LoopNumbers DEF Connection, ConnIInv, StateIInv, PlaceIInv
<1>10. TypeOK' /\ RoundIInv' /\ OverIInv' /\ StartedIInv'
  <2>1. TypeOK'
    BY <1>1, <1>2, <1>7 DEF TypeOK
  <2>2. RoundIInv' /\ OverIInv' /\ StartedIInv'
    BY <1>1, <1>2, <1>4, <1>5, <1>7, LoopNumbers DEF RoundIInv, OverIInv, StartedIInv
  <2> QED
    BY <2>1, <2>2
<1>11. PlaceIInv'
  BY <1>2, <1>5, <1>7, <1>9 DEF ConnIInv, PlaceIInv
<1>12. HoldIInv'
  BY <1>2, <1>3, <1>5, <1>7, <1>9 DEF ConnIInv, HoldIInv
<1>13. TellIInv'
  BY <1>2, <1>5, <1>7, <1>9 DEF ConnIInv, TellIInv
<1>14. StateIInv'
  <2>1. kNew # kAdded
    BY DEF kNew, kAdded
  <2> HIDE DEF told
  <2> QED
    BY <1>7, <1>8, <1>9, <2>1 DEF ConnIInv, StateIInv
<1>15. ActiveIInv'
  <2>1. \A k \in Loops : c \notin active[k]
    BY <1>1, <1>3 DEF ActiveIInv, RoundIInv
  <2> QED
    BY <1>1, <1>2, <1>7, <2>1 DEF ActiveIInv
<1> QED
  BY <1>2, <1>7, <1>5, <1>10, <1>11, <1>12, <1>13, <1>14, <1>15 DEF ConnIInv, SharesStay

\* The reference to another passes to a functor in its loop, which still runs.
LEMMA DestroyOtherStep ==
    ASSUME ConnIInv, NEW c \in connectionMap_, DestroyConnection(c),
           conns[c].loop # Base
    PROVE  ConnIInv'
<1>1. TypeOK /\ RoundIInv /\ OverIInv /\ StartedIInv /\ ActiveIInv /\ c \in ConnIds
  BY DEF ConnIInv, TypeOK
<1>2. PICK io \in Loops : io = conns[c].loop
  BY <1>1, ConnTypes
<1>3. /\ UNCHANGED <<numThreads_, next_, started_, listenning_, starter, serverAt, backlog,
                     loopAt, quit_, active, functors, ran, dropped, conns>>
      /\ connectionMap_' = connectionMap_ \ {c}
      /\ Queue(io, <<Destruct(c)>>)
  BY <1>2 DEF DestroyConnection, Destruct
<1>4. Destruct(c) \in Functors /\ Destruct(c).run # "connectEstablished"
  BY <1>1, FunctorTypes DEF Destruct, Functor
<1>5. /\ \A g : Unrun(io, g)' <=> Unrun(io, g) \/ g = Destruct(c)
      /\ InOrder(io)'
      /\ pendingFunctors_' \in [Loops -> Seq(Functors)]
      /\ \A k \in Loops : k # io => pendingFunctors_'[k] = pendingFunctors_[k]
  BY <1>3, <1>4, QueueChanges
<1>6. \A k \in Loops : k # io => Todo(k)' = Todo(k)
  BY <1>3, <1>5, TodoSame
<1>7. \A k \in Loops : k # io => InOrder(k)' /\ \A g : Unrun(k, g)' <=> Unrun(k, g)
  BY <1>6, UnrunSame DEF ConnIInv, OrderIInv
<1>8. ConnIds' = ConnIds /\ Functors' = Functors /\ Connection' = Connection
  BY <1>3, TypesKeep
<1>9. \A k \in Loops : \A d \in ConnIds :
          /\ Unrun(k, Establish(d))' <=> Unrun(k, Establish(d))
          /\ Unrun(k, Remove(d))' <=> Unrun(k, Remove(d))
          /\ Unrun(k, Destruct(d))' <=> Unrun(k, Destruct(d)) \/ (k = io /\ d = c)
  BY <1>5, <1>7, FunctorsDiffer
<1>10. TypeOK' /\ RoundIInv' /\ ActiveIInv'
  BY <1>1, <1>3, <1>5, <1>8 DEF TypeOK, RoundIInv, ActiveIInv
<1>11. OverIInv'
  <2>1. ~quit_[io] /\ loopAt[io] # "ended"
    BY <1>1, <1>2 DEF OverIInv
  <2> QED
    BY <1>1, <1>3, <1>6, <2>1 DEF OverIInv
<1>12. StartedIInv'
  BY <1>1, <1>2, <1>3, <1>7, LoopNumbers DEF StartedIInv, IOLoops
<1>13. PlaceIInv'
  <2>1. \A k \in Loops : \A g : Unrun(k, g)' /\ g.conn = Acceptor => Unrun(k, g)
    <3>1. Destruct(c).conn # Acceptor
      BY <1>1, FunctorsDiffer DEF ConnIds, Acceptor
    <3> QED
      BY <1>5, <1>7, <3>1
  <2> QED
    BY <1>2, <1>3, <1>8, <1>9, <2>1 DEF ConnIInv, PlaceIInv
<1>14. OrderIInv'
  BY <1>5, <1>7 DEF OrderIInv
<1>15. \A d \in ConnIds : conns[d].loop \in Loops
  BY <1>1, ConnTypes
<1>16. HoldIInv'
  BY <1>2, <1>3, <1>8, <1>9, <1>15 DEF ConnIInv, HoldIInv
<1>17. TellIInv'
  BY <1>2, <1>3, <1>8, <1>9, <1>15 DEF ConnIInv, TellIInv
<1>18. StateIInv'
  BY <1>3, <1>8 DEF ConnIInv, StateIInv
<1> QED
  BY <1>10, <1>11, <1>12, <1>13, <1>14, <1>16, <1>17, <1>18 DEF ConnIInv

-----------------------------------------------------------------------------
(* A new connection.                                                       *)

LEMMA NextLoopTypes ==
    ASSUME TypeOK
    PROVE  /\ GetNextLoop[1] \in Base..numThreads_ /\ GetNextLoop[1] \in Loops
           /\ GetNextLoop[1] = Base <=> numThreads_ = 0
           /\ GetNextLoop[2] \in 0..MaxThreads
           /\ numThreads_ > 0 => GetNextLoop[2] < numThreads_
  BY LimitsAssumption DEF TypeOK, GetNextLoop, Base, Loops

\* What accepting does to conns: one connection more, at the end.
LEMMA AcceptedConn ==
    ASSUME TypeOK, NewConnection, UNCHANGED numThreads_, NEW c, c = Len(conns) + 1,
           NEW io, io = GetNextLoop[1]
    PROVE  /\ c \notin ConnIds /\ c # Acceptor /\ c \in Nat
           /\ ConnIds' = ConnIds \cup {c}
           /\ Connection' = Connection /\ Functors \subseteq Functors'
           /\ conns' \in Seq(Connection)
           /\ \A d \in ConnIds : conns'[d] = conns[d]
           /\ conns'[c].loop = io
           /\ io = Base => /\ conns'[c].state_ = "kConnected" /\ conns'[c].index = kAdded
                           /\ conns'[c].told = <<"up">>
           /\ io # Base => /\ conns'[c].state_ = "kConnecting" /\ conns'[c].index = kNew
                           /\ conns'[c].told = <<>>
<1> DEFINE new == [state_ |-> "kConnecting", loop |-> io, index |-> kNew,
                   told |-> <<>>, peerClosed |-> FALSE]
           made == Append(conns, new)
<1>1. conns \in Seq(Connection) /\ Len(conns) \in Nat
  BY DEF TypeOK
<1>2. new \in Connection
  BY NextLoopTypes DEF Connection
<1>3. /\ new.loop = io /\ new.state_ = "kConnecting" /\ new.index = kNew /\ new.told = <<>>
  OBVIOUS
<1>4. IF io = Base THEN conns' = Established(made, c) ELSE conns' = made
  BY DEF NewConnection
<1> HIDE DEF new
<1>5. /\ made \in Seq(Connection) /\ Len(made) = c
      /\ \A d \in 1..Len(conns) : made[d] = conns[d]
      /\ made[c] = new
  BY <1>1, <1>2
<1> HIDE DEF made
<1>6. /\ conns' \in Seq(Connection) /\ Len(conns') = c
      /\ \A d \in 1..Len(conns) : conns'[d] = conns[d]
      /\ conns'[c].loop = io
      /\ io = Base => /\ conns'[c].state_ = "kConnected" /\ conns'[c].index = kAdded
                      /\ conns'[c].told = <<"up">>
      /\ io # Base => /\ conns'[c].state_ = "kConnecting" /\ conns'[c].index = kNew
                      /\ conns'[c].told = <<>>
  <2>1. CASE io = Base
    <3>1. Changed(made, conns', c, "kConnected", kAdded, <<"up">>)
      BY <1>1, <1>3, <1>4, <1>5, <2>1, EstablishedChanges
    <3> QED
      BY <1>1, <1>3, <1>5, <2>1, <3>1 DEF Changed
  <2>2. CASE io # Base
    BY <1>1, <1>3, <1>4, <1>5, <2>2
  <2> QED
    BY <2>1, <2>2
<1>7. ConnIds' = ConnIds \cup {c} /\ c \notin ConnIds
  BY <1>1, <1>6 DEF ConnIds
<1>8. Functors \subseteq Functors' /\ Connection' = Connection
  BY <1>7 DEF Functors, Connection
<1>9. c # Acceptor /\ c \in Nat
  BY <1>1 DEF Acceptor
<1> QED
  BY <1>6, <1>7, <1>8, <1>9 DEF ConnIds

\* What it does to the queues.
LEMMA AcceptedQueues ==
    ASSUME ConnIInv, NewConnection, UNCHANGED <<functors, ran, numThreads_>>,
           NEW c, c = Len(conns) + 1, NEW io, io = GetNextLoop[1]
    PROVE  /\ \A k \in Loops : \A g :
                  Unrun(k, g)' <=> Unrun(k, g) \/ (k = io /\ io # Base /\ g = Establish(c))
           /\ \A k \in Loops : k # io \/ io = Base => Todo(k)' = Todo(k)
           /\ OrderIInv'
           /\ pendingFunctors_' \in [Loops -> Seq(Functors')]
<1>1. TypeOK /\ RoundIInv /\ OrderIInv
  BY DEF ConnIInv
<1>2. /\ c \notin ConnIds /\ c # Acceptor /\ ConnIds' = ConnIds \cup {c}
      /\ Functors \subseteq Functors'
  BY <1>1, AcceptedConn
<1>3. io \in Loops
  BY <1>1, NextLoopTypes
<1>4. pendingFunctors_ \in [Loops -> Seq(Functors)]
  BY <1>1 DEF TypeOK
<1>5. pendingFunctors_ \in [Loops -> Seq(Functors')]
  <2>1. \A k \in Loops : pendingFunctors_[k] \in Seq(Functors')
    <3> TAKE k \in Loops
    <3>1. pendingFunctors_[k] \in Seq(Functors)
      BY <1>4
    <3> QED
      BY <1>2, <3>1, SeqMonotonic
  <2> QED
    BY <1>4, <2>1
<1>6. CASE io = Base
  <2>1. UNCHANGED pendingFunctors_
    BY <1>6 DEF NewConnection
  <2>2. \A k \in Loops : Todo(k)' = Todo(k)
    BY <2>1, TodoSame
  <2> QED
    BY <1>1, <1>5, <1>6, <2>1, <2>2, UnrunSame DEF OrderIInv
<1>7. CASE io # Base
  <2>1. Queue(io, <<Establish(c)>>)
    BY <1>7 DEF NewConnection, Establish
  <2>2. /\ Todo(io)' = Append(Todo(io), Establish(c))
        /\ \A k \in Loops : k # io => Todo(k)' = Todo(k)
    BY <1>1, <1>3, <2>1, TodoQueue, TodoSame
  <2>3. \A g \in Functors : ~Clash(Establish(c), g)
    BY <1>2 DEF Clash, Functors, Establish, Functor
  <2>4. /\ \A g : Unrun(io, g)' <=> Unrun(io, g) \/ g = Establish(c)
        /\ InOrder(io)'
    BY <1>1, <1>3, <2>2, <2>3, UnrunQueue DEF OrderIInv
  <2>5. \A k \in Loops : k # io => InOrder(k)' /\ \A g : Unrun(k, g)' <=> Unrun(k, g)
    BY <1>1, <2>2, UnrunSame DEF OrderIInv
  <2>6. pendingFunctors_' \in [Loops -> Seq(Functors')]
    <3>1. Establish(c) \in Functors'
      BY <1>2 DEF Functors, Establish, Functor
    <3>2. pendingFunctors_[io] \o <<Establish(c)>> \in Seq(Functors')
      BY <1>3, <1>5, <3>1
    <3> QED
      BY <1>3, <1>5, <2>1, <3>2 DEF Queue
  <2> QED
    BY <1>7, <2>2, <2>4, <2>5, <2>6 DEF OrderIInv
<1> QED
  BY <1>6, <1>7

LEMMA AcceptStep ==
    ASSUME ConnIInv, IInv, Accept
    PROVE  ConnIInv'
<1>1. TypeOK /\ RoundIInv /\ OverIInv /\ StartedIInv /\ ActiveIInv
  BY DEF ConnIInv
<1>2. /\ UNCHANGED <<numThreads_, started_, listenning_, starter, serverAt, loopAt, quit_,
                     functors, ran, dropped>>
      /\ loopAt[Base] = "dispatch" /\ Acceptor \in active[Base]
      /\ active' = [active EXCEPT ![Base] = @ \ {Acceptor}]
      /\ backlog' = backlog - 1
      /\ NewConnection
      /\ next_' = GetNextLoop[2]
  BY DEF Accept, Dispatches, NewConnection
<1>3. PICK c \in Nat : c = Len(conns) + 1
  BY <1>1 DEF TypeOK
<1>4. PICK io \in Loops : io = GetNextLoop[1]
  BY <1>1, NextLoopTypes
<1>5. connectionMap_' = connectionMap_ \cup {c}
  BY <1>2, <1>3 DEF NewConnection
<1>6. /\ c \notin ConnIds /\ c # Acceptor
      /\ ConnIds' = ConnIds \cup {c}
      /\ Connection' = Connection /\ Functors \subseteq Functors'
      /\ conns' \in Seq(Connection)
      /\ \A d \in ConnIds : conns'[d] = conns[d]
      /\ conns'[c].loop = io
      /\ io = Base => /\ conns'[c].state_ = "kConnected" /\ conns'[c].index = kAdded
                      /\ conns'[c].told = <<"up">>
      /\ io # Base => /\ conns'[c].state_ = "kConnecting" /\ conns'[c].index = kNew
                      /\ conns'[c].told = <<>>
  BY <1>1, <1>2, <1>3, <1>4, AcceptedConn
<1>7. /\ \A k \in Loops : \A g :
             Unrun(k, g)' <=> Unrun(k, g) \/ (k = io /\ io # Base /\ g = Establish(c))
      /\ \A k \in Loops : k # io \/ io = Base => Todo(k)' = Todo(k)
      /\ OrderIInv'
      /\ pendingFunctors_' \in [Loops -> Seq(Functors')]
  BY <1>2, <1>3, <1>4, AcceptedQueues
\* Nothing that is queued speaks of the new connection yet.
<1>8. \A k \in Loops : /\ ~Unrun(k, Establish(c)) /\ ~Unrun(k, Destruct(c))
                       /\ ~Unrun(k, Remove(c))
  <2> TAKE k \in Loops
  <2>1. \A f \in Functors : f.conn # c
    BY <1>6 DEF Functors
  <2> QED
    BY <1>1, <2>1, UnrunType, FunctorsDiffer
<1>9. \A k \in Loops : \A d \in ConnIds' :
          /\ Unrun(k, Establish(d))' <=>
                Unrun(k, Establish(d)) \/ (k = io /\ io # Base /\ d = c)
          /\ Unrun(k, Remove(d))' <=> Unrun(k, Remove(d))
          /\ Unrun(k, Destruct(d))' <=> Unrun(k, Destruct(d))
  BY <1>7, FunctorsDiffer
<1>10. /\ \A k \in Loops : active'[k] \subseteq active[k]
       /\ Acceptor \notin active'[Base]
       /\ active' \in [Loops -> SUBSET ({Acceptor} \cup ConnIds')]
  BY <1>1, <1>2, <1>6, LoopNumbers DEF TypeOK
<1>11. serverAt = "up"
  BY <1>2 DEF IInv, EndIInv
<1>12. /\ backlog > 0 /\ backlog \in 0..MaxConns
       /\ \A l \in IOLoops : loopAt[l] # "none"
       /\ IOLoops' = IOLoops
  BY <1>1, <1>2, LoopNumbers DEF ActiveIInv, TypeOK, StartedIInv, IOLoops
<1>13. TypeOK'
  <2>1. functors' \in [Loops -> Seq(Functors')]
    <3>1. functors \in [Loops -> Seq(Functors)]
      BY <1>1 DEF TypeOK
    <3>2. \A k \in Loops : functors[k] \in Seq(Functors')
      <4> TAKE k \in Loops
      <4>1. functors[k] \in Seq(Functors)
        BY <3>1
      <4> QED
        BY <1>6, <4>1, SeqMonotonic
    <3> QED
      BY <1>2, <3>1, <3>2
  <2>2. backlog' \in 0..MaxConns
    BY <1>2, <1>12, LimitsAssumption
  <2>3. next_' \in 0..MaxThreads /\ (numThreads_ > 0 => next_' < numThreads_)
    BY <1>1, <1>2, NextLoopTypes
  <2>4. connectionMap_' \in SUBSET ConnIds' /\ dropped' \in SUBSET ConnIds'
    BY <1>1, <1>2, <1>5, <1>6 DEF TypeOK
  <2> QED
    BY <1>1, <1>2, <1>6, <1>7, <1>10, <2>1, <2>2, <2>3, <2>4 DEF TypeOK
<1>14. RoundIInv'
  BY <1>1, <1>2, <1>10 DEF RoundIInv
<1>15. OverIInv'
  <2>1. \A k \in Loops \ {Base} : ~quit_[k] /\ loopAt[k] # "ended"
    BY <1>1, <1>11 DEF OverIInv
  <2> QED
    BY <1>1, <1>2, <2>1 DEF OverIInv
<1>16. StartedIInv'
  BY <1>2, <1>12 DEF StartedIInv
<1>17. PlaceIInv'
  <2>1. \A k \in Loops : \A f : Unrun(k, f)' /\ f.conn = Acceptor => Unrun(k, f)
    BY <1>6, <1>7, FunctorsDiffer
  <2>2. \A k \in Loops : \A f \in Functors' :
            Unrun(k, f)' /\ f.conn = Acceptor => k = Base
    <3>1. \A k \in Loops : \A f : Unrun(k, f) => f \in Functors
      BY <1>1, UnrunType
    <3> QED
      BY <2>1, <3>1 DEF ConnIInv, PlaceIInv
  <2> QED
    BY <1>6, <1>8, <1>9, <2>2 DEF ConnIInv, PlaceIInv
<1>18. HoldIInv'
  <2>1. \A d \in ConnIds : conns[d].loop \in Loops
    BY <1>1, ConnTypes
  <2> QED
    BY <1>2, <1>5, <1>6, <1>9, <2>1 DEF ConnIInv, HoldIInv
<1>19. TellIInv'
  <2>1. \A d \in ConnIds : conns[d].loop \in Loops
    BY <1>1, ConnTypes
  <2> QED
    BY <1>2, <1>5, <1>6, <1>9, <2>1 DEF ConnIInv, TellIInv
<1>20. StateIInv'
  BY <1>6 DEF ConnIInv, StateIInv, Told, kNew, kAdded
<1>21. ActiveIInv'
  <2>1. \A k \in Loops : c \notin active[k]
    BY <1>1, <1>6 DEF TypeOK
  <2>2. \A k \in Loops : Acceptor \notin active'[k]
    BY <1>1, <1>10 DEF ActiveIInv
  <2> QED
    BY <1>1, <1>2, <1>6, <1>10, <2>1, <2>2 DEF ActiveIInv
<1> QED
  BY <1>7, <1>13, <1>14, <1>15, <1>16, <1>17, <1>18, <1>19, <1>20, <1>21 DEF ConnIInv

-----------------------------------------------------------------------------
(* The peers and the user.                                                 *)

LEMMA PeerClosesChanges ==
    ASSUME NEW cs \in Seq(Connection), NEW c \in 1..Len(cs)
    PROVE  Changed(cs, [cs EXCEPT ![c].peerClosed = TRUE],
                   c, cs[c].state_, cs[c].index, cs[c].told)
<1> DEFINE k == [cs[c] EXCEPT !.peerClosed = TRUE]
<1>1. cs[c] \in Connection
  BY ElementOfSeq
<1>2. /\ k \in Connection /\ k.loop = cs[c].loop /\ k.state_ = cs[c].state_
      /\ k.index = cs[c].index /\ k.told = cs[c].told
  BY <1>1 DEF Connection
<1>3. [cs EXCEPT ![c].peerClosed = TRUE] = [cs EXCEPT ![c] = k]
  OBVIOUS
<1> HIDE DEF k
<1> QED
  BY <1>2, <1>3, ExceptChanges

LEMMA ShutdownChanges ==
    ASSUME NEW cs \in Seq(Connection), NEW c \in 1..Len(cs)
    PROVE  Changed(cs, [cs EXCEPT ![c].state_ = "kDisconnecting"],
                   c, "kDisconnecting", cs[c].index, cs[c].told)
<1> DEFINE k == [cs[c] EXCEPT !.state_ = "kDisconnecting"]
<1>1. cs[c] \in Connection
  BY ElementOfSeq
<1>2. /\ k \in Connection /\ k.loop = cs[c].loop /\ k.state_ = "kDisconnecting"
      /\ k.index = cs[c].index /\ k.told = cs[c].told
  BY <1>1 DEF Connection
<1>3. [cs EXCEPT ![c].state_ = "kDisconnecting"] = [cs EXCEPT ![c] = k]
  OBVIOUS
<1> HIDE DEF k
<1> QED
  BY <1>2, <1>3, ExceptChanges

LEMMA UserStep ==
    ASSUME ConnIInv, NEW c \in ConnIds, PeerCloses(c) \/ Shutdown(c)
    PROVE  ConnIInv' /\ SharesStay
<1> USE DEF serverVars, loopVars
<1>1. TypeOK /\ RoundIInv /\ OverIInv /\ StartedIInv /\ ActiveIInv
  BY DEF ConnIInv
<1>2. UNCHANGED <<numThreads_, next_, started_, starter, serverAt, backlog, loopAt, quit_,
                  active, functors, ran, dropped, connectionMap_, pendingFunctors_, listenning_>>
  BY DEF PeerCloses, Shutdown
<1>3. PICK state :
          /\ Changed(conns, conns', c, state, conns[c].index, conns[c].told)
          /\ \/ state = conns[c].state_
             \/ conns[c].state_ = "kConnected" /\ state = "kDisconnecting"
  <2>1. conns \in Seq(Connection) /\ c \in 1..Len(conns)
    BY <1>1 DEF TypeOK, ConnIds
  <2>2. CASE PeerCloses(c)
    BY <2>1, <2>2, PeerClosesChanges DEF PeerCloses
  <2>3. CASE Shutdown(c)
    BY <2>1, <2>3, ShutdownChanges DEF Shutdown
  <2> QED
    BY <2>2, <2>3
<1>4. /\ ConnIds' = ConnIds /\ Functors' = Functors /\ Connection' = Connection
      /\ IOLoops' = IOLoops
      /\ conns' \in Seq(Connection) /\ conns # <<>>
      /\ \A d \in ConnIds : d # c => conns'[d] = conns[d]
      /\ \A d \in ConnIds : conns'[d].loop = conns[d].loop
      /\ conns'[c].state_ = state /\ conns'[c].index = conns[c].index
      /\ conns'[c].told = conns[c].told
      /\ \A d \in ConnIds : conns[d].loop \in Loops
  BY <1>2, <1>3, ChangeKeeps
<1>5. \A k \in Loops : Todo(k)' = Todo(k)
  BY <1>2, TodoSame
<1>6. /\ \A k \in Loops : \A g : Unrun(k, g)' <=> Unrun(k, g)
      /\ OrderIInv'
  BY <1>5, UnrunSame DEF ConnIInv, OrderIInv
<1>7. TypeOK' /\ RoundIInv' /\ OverIInv' /\ StartedIInv'
  <2>1. TypeOK'
    BY <1>1, <1>2, <1>4 DEF TypeOK
  <2>2. RoundIInv' /\ OverIInv' /\ StartedIInv'
    BY <1>1, <1>2, <1>4, <1>5, <1>6, LoopNumbers DEF RoundIInv, OverIInv, StartedIInv
  <2> QED
    BY <2>1, <2>2
<1>8. PlaceIInv'
  BY <1>2, <1>3, <1>4, <1>6 DEF ConnIInv, PlaceIInv
<1>9. HoldIInv'
  BY <1>2, <1>4, <1>6 DEF ConnIInv, HoldIInv
<1>10. TellIInv'
  BY <1>2, <1>3, <1>4, <1>6 DEF ConnIInv, TellIInv
<1>11. StateIInv'
  BY <1>3, <1>4 DEF ConnIInv, StateIInv, Told
<1>12. ActiveIInv'
  BY <1>1, <1>2, <1>4 DEF ActiveIInv
<1> QED
  BY <1>2, <1>4, <1>6, <1>7, <1>8, <1>9, <1>10, <1>11, <1>12 DEF ConnIInv, SharesStay

-----------------------------------------------------------------------------
(* The shares of the loops.                                                *)

\* next_ separates the loops that have had their connection in this round of getNextLoop
\* from those that wait for it.
BalIInv ==
    \A k, l \in IOLoops :
        Load(k) + (IF k > next_ THEN 1 ELSE 0) = Load(l) + (IF l > next_ THEN 1 ELSE 0)

LEMMA LoadType ==
    ASSUME TypeOK, NEW l
    PROVE  Load(l) \in Nat /\ IsFiniteSet({c \in ConnIds : conns[c].loop = l})
<1>1. IsFiniteSet(ConnIds)
  BY FS_Interval, LenProperties DEF TypeOK, ConnIds
<1>2. IsFiniteSet({c \in ConnIds : conns[c].loop = l})
  BY <1>1, FS_Subset
<1> QED
  BY <1>2, FS_CardinalityType DEF Load

LEMMA SharesStayKeeps ==
    ASSUME BalIInv, SharesStay
    PROVE  BalIInv'
<1>1. \A l \in IOLoops :
          {c \in ConnIds' : conns'[c].loop = l} = {c \in ConnIds : conns[c].loop = l}
  BY DEF SharesStay
<1>2. IOLoops' = IOLoops /\ next_' = next_
  BY DEF SharesStay, IOLoops
<1>3. \A l \in IOLoops : Load(l)' = Load(l)
  BY <1>1 DEF Load
<1> QED
  BY <1>2, <1>3 DEF BalIInv

LEMMA AcceptShares ==
    ASSUME TypeOK, BalIInv, Accept
    PROVE  BalIInv'
<1>1. numThreads_' = numThreads_ /\ NewConnection /\ next_' = GetNextLoop[2]
  BY DEF Accept, NewConnection
<1>2. IOLoops' = IOLoops /\ numThreads_ \in Nat /\ next_ \in Nat
  BY <1>1 DEF IOLoops, TypeOK
<1>3. CASE numThreads_ = 0
  BY <1>2, <1>3 DEF BalIInv, IOLoops
<1>4. CASE numThreads_ > 0
  <2>1. PICK c : c = Len(conns) + 1
    OBVIOUS
  <2>2. PICK io \in Loops : io = GetNextLoop[1]
    BY NextLoopTypes
  <2>3. /\ c \notin ConnIds
        /\ ConnIds' = ConnIds \cup {c}
        /\ \A d \in ConnIds : conns'[d] = conns[d]
        /\ conns'[c].loop = io
    BY <1>1, <2>1, <2>2, AcceptedConn
  <2>4. \A l \in IOLoops : l # io => Load(l)' = Load(l)
    <3> TAKE l \in IOLoops
    <3> HAVE l # io
    <3>1. {d \in ConnIds' : conns'[d].loop = l} = {d \in ConnIds : conns[d].loop = l}
      BY <2>3
    <3> QED
      BY <3>1 DEF Load
  <2>5. Load(io)' = Load(io) + 1
    <3> DEFINE S == {d \in ConnIds : conns[d].loop = io}
    <3>1. {d \in ConnIds' : conns'[d].loop = io} = S \cup {c}
      BY <2>3
    <3>2. c \notin S /\ IsFiniteSet(S)
      BY <2>3, LoadType
    <3>3. Load(io)' = Cardinality(S \cup {c}) /\ Load(io) = Cardinality(S)
      BY <3>1 DEF Load
    <3> HIDE DEF S
    <3> QED
      BY <3>2, <3>3, FS_AddElement
  <2>6. \A l \in IOLoops : Load(l) \in Nat
    BY LoadType
  <2>7. /\ next_ < numThreads_ /\ io = next_ + 1
        /\ next_' = IF next_ + 1 >= numThreads_ THEN 0 ELSE next_ + 1
    BY <1>1, <1>4, <2>2 DEF GetNextLoop, TypeOK
  <2>8. io \in IOLoops
    BY <1>2, <2>7 DEF IOLoops
  <2>9. \A l \in IOLoops : l \in 1..numThreads_
    BY DEF IOLoops
  <2>10. CASE next_ + 1 >= numThreads_
    <3>1. next_' = 0 /\ numThreads_ = next_ + 1
      BY <1>2, <2>7, <2>10
    <3>2. \A l \in IOLoops : Load(l)' + (IF l > next_' THEN 1 ELSE 0) = Load(io) + 2
      <4> TAKE l \in IOLoops
      <4>1. Load(l) + (IF l > next_ THEN 1 ELSE 0) = Load(io) + 1
        BY <1>2, <2>7, <2>8 DEF BalIInv
      <4> QED
        BY <1>2, <2>4, <2>5, <2>6, <2>7, <2>8, <2>9, <3>1, <4>1
    <3> QED
      BY <1>2, <3>2 DEF BalIInv
  <2>11. CASE ~(next_ + 1 >= numThreads_)
    <3>1. \A l \in IOLoops : Load(l)' + (IF l > next_' THEN 1 ELSE 0) = Load(io) + 1
      <4> TAKE l \in IOLoops
      <4>1. Load(l) + (IF l > next_ THEN 1 ELSE 0) = Load(io) + 1
        BY <1>2, <2>7, <2>8 DEF BalIInv
      <4> QED
        BY <1>2, <2>4, <2>5, <2>6, <2>7, <2>8, <2>9, <2>11, <4>1
    <3> QED
      BY <1>2, <3>1 DEF BalIInv
  <2> QED
    BY <2>10, <2>11
<1> QED
  BY <1>2, <1>3, <1>4

-----------------------------------------------------------------------------
(* The invariance of it all.                                               *)

\* ~TcpServer empties the map before the members of the server are destroyed.
GoneIInv == serverAt = "gone" => connectionMap_ = {}

ServerIInv == IInv /\ ConnIInv /\ BalIInv /\ GoneIInv

LEMMA ConnInit == Init => ConnIInv /\ BalIInv
<1> SUFFICES ASSUME Init
             PROVE  ConnIInv /\ BalIInv
  OBVIOUS
<1> USE LoopNumbers
<1>1. /\ conns = <<>> /\ connectionMap_ = {} /\ dropped = {} /\ backlog = 0
      /\ loopAt = [l \in Loops |-> "none"] /\ quit_ = [l \in Loops |-> FALSE]
      /\ active = [l \in Loops |-> {}] /\ ran = [l \in Loops |-> 0]
      /\ pendingFunctors_ = [l \in Loops |-> <<>>] /\ functors = [l \in Loops |-> <<>>]
      /\ numThreads_ \in 0..MaxThreads /\ next_ = 0 /\ started_ = 0 /\ listenning_ = FALSE
      /\ starter = "none" /\ serverAt = "up"
  BY DEF Init
<1>2. ConnIds = {}
  BY <1>1, EmptySeq DEF ConnIds
<1>3. \A l \in Loops : Todo(l) = <<>>
  <2>1. SubSeq(<<>>, 0 + 1, Len(<<>>)) = <<>> /\ <<>> \o <<>> = <<>>
    OBVIOUS
  <2> QED
    BY <1>1, <2>1 DEF Todo
<1>4. /\ \A l \in Loops : \A f : ~Unrun(l, f)
      /\ OrderIInv
  BY <1>3, EmptySeq DEF Unrun, OrderIInv, InOrder
<1>5. TypeOK
  <2>1. <<>> \in Seq(Connection) /\ <<>> \in Seq(Functors)
    OBVIOUS
  <2>2. /\ loopAt \in [Loops -> {"none", "poll", "dispatch", "functors", "ended", "freed"}]
        /\ quit_ \in [Loops -> BOOLEAN] /\ ran \in [Loops -> Nat]
        /\ active \in [Loops -> SUBSET ({Acceptor} \cup ConnIds)]
    BY <1>1
  <2>3. /\ pendingFunctors_ \in [Loops -> Seq(Functors)]
        /\ functors \in [Loops -> Seq(Functors)]
    BY <1>1, <2>1
  <2>4. 0 \in 0..MaxThreads /\ 0 \in 0..MaxStarts /\ 0 \in 0..MaxConns
    BY LimitsAssumption
  <2>5. numThreads_ > 0 => next_ < numThreads_
    BY <1>1
  <2> QED
    BY <1>1, <2>1, <2>2, <2>3, <2>4, <2>5 DEF TypeOK
<1>6. RoundIInv /\ OverIInv /\ StartedIInv /\ ActiveIInv
  BY <1>1, <1>4, EmptySeq DEF RoundIInv, OverIInv, StartedIInv, ActiveIInv
<1>7. PlaceIInv /\ HoldIInv /\ TellIInv /\ StateIInv
  BY <1>2, <1>4 DEF PlaceIInv, HoldIInv, TellIInv, StateIInv
<1>8. BalIInv
  <2>1. \A l : {c \in ConnIds : conns[c].loop = l} = {}
    BY <1>2
  <2>2. \A l : Load(l) = 0
    BY <2>1, FS_EmptySet DEF Load
  <2> QED
    BY <1>1, <2>2 DEF BalIInv, IOLoops
<1> QED
  BY <1>4, <1>5, <1>6, <1>7, <1>8 DEF ConnIInv

LEMMA LoopStepConn ==
    ASSUME ServerIInv, NEW l \in Loops, LoopStep(l)
    PROVE  ConnIInv' /\ BalIInv'
<1> USE DEF ServerIInv, serverVars
<1>0. TypeOK
  BY DEF ConnIInv
<1>1. CASE Poll(l)
  BY <1>1, PollStep, SharesStayKeeps DEF Poll, SharesStay, ConnIds
<1>2. CASE Accept
  BY <1>0, <1>2, AcceptStep, AcceptShares
<1>3. CASE AcceptFails
  BY <1>3, AcceptFailsStep, SharesStayKeeps DEF AcceptFails, SharesStay, ConnIds
<1>4. CASE RunListenFd(l)
  BY <1>4, RunListenFdStep, SharesStayKeeps DEF RunListenFd, Runs, SharesStay, ConnIds
<1>5. ASSUME NEW c \in ConnIds, HandleClose(l, c)
      PROVE  ConnIInv' /\ BalIInv'
  BY <1>5, HandleCloseStep, SharesStayKeeps
<1>6. ASSUME NEW c \in ConnIds, RunConnectEstablished(l, c)
      PROVE  ConnIInv' /\ BalIInv'
  BY <1>6, RunConnectEstablishedStep, SharesStayKeeps
<1>7. ASSUME NEW c \in ConnIds, RunConnectDestroyed(l, c)
      PROVE  ConnIInv' /\ BalIInv'
  BY <1>7, RunConnectDestroyedStep, SharesStayKeeps
<1>8. ASSUME NEW c \in ConnIds, RunRemoveConnection(l, c)
      PROVE  ConnIInv' /\ BalIInv'
  BY <1>8, RunRemoveConnectionStep, SharesStayKeeps
  DEF RunRemoveConnection, Runs, SharesStay, ConnIds
<1>9. CASE SwapFunctors(l)
  BY <1>9, SwapFunctorsStep, SharesStayKeeps DEF SwapFunctors, SharesStay, ConnIds
<1>10. CASE EndRound(l)
  BY <1>10, EndRoundStep, SharesStayKeeps DEF EndRound, SharesStay, ConnIds
<1> QED
  BY <1>1, <1>2, <1>3, <1>4, <1>5, <1>6, <1>7, <1>8, <1>9, <1>10 DEF LoopStep

LEMMA ConnStep == ServerIInv /\ [Next]_vars => ConnIInv' /\ BalIInv'
<1> SUFFICES ASSUME ServerIInv, [Next]_vars
             PROVE  ConnIInv' /\ BalIInv'
  OBVIOUS
<1> USE DEF ServerIInv
<1> DEFINE Outside ==
               \/ \E thread \in {"base", "other"} : Start(thread)
               \/ \E l \in IOLoops : PoolStarts(l)
               \/ EnterLoop
               \/ QuitBase
               \/ Destroy
               \/ \E l \in IOLoops : PoolQuits(l)
               \/ DestroyAcceptor
               \/ PeerConnects
               \/ UNCHANGED vars
<1>1. CASE Outside
  <2>1. ConnIInv'
    BY <1>1, OutsideStep
  <2>2. SharesStay
    BY <1>1
    DEF Start, PoolStarts, EnterLoop, QuitBase, Destroy, PoolQuits, DestroyAcceptor,
        PeerConnects, serverVars, loopVars, vars, SharesStay, ConnIds
  <2> QED
    BY <2>1, <2>2, SharesStayKeeps
<1>2. CASE StartListening
  BY <1>2, StartListeningStep, SharesStayKeeps DEF StartListening, SharesStay, ConnIds
<1>3. ASSUME NEW l \in Loops, LoopStep(l)
      PROVE  ConnIInv' /\ BalIInv'
  BY <1>3, LoopStepConn
<1>4. ASSUME NEW c \in connectionMap_, DestroyConnection(c)
      PROVE  ConnIInv' /\ BalIInv'
  <2>1. CASE conns[c].loop = Base
    BY <1>4, <2>1, DestroyOwnStep, SharesStayKeeps
  <2>2. CASE conns[c].loop # Base
    BY <1>4, <2>2, DestroyOtherStep, SharesStayKeeps
    DEF DestroyConnection, SharesStay, ConnIds
  <2> QED
    BY <2>1, <2>2
<1>5. CASE FreeBaseLoop
  BY <1>5, FreeBaseLoopStep, SharesStayKeeps
  DEF FreeBaseLoop, serverVars, SharesStay, ConnIds
<1>6. ASSUME NEW c \in ConnIds, PeerCloses(c) \/ Shutdown(c)
      PROVE  ConnIInv' /\ BalIInv'
  BY <1>6, UserStep, SharesStayKeeps
<1> QED
  BY <1>1, <1>2, <1>3, <1>4, <1>5, <1>6 DEF Next, Starting, Destroying

LEMMA GoneStep == IInv /\ GoneIInv /\ [Next]_vars => GoneIInv'
<1> SUFFICES ASSUME IInv, GoneIInv, [Next]_vars
             PROVE  GoneIInv'
  OBVIOUS
<1> USE DEF serverVars, loopVars, vars, GoneIInv
<1>1. ASSUME NEW l \in Loops, LoopStep(l)
      PROVE  serverAt' = serverAt /\ (serverAt = "gone" => connectionMap_' \subseteq connectionMap_)
  <2>1. CASE Accept
    BY <2>1 DEF Accept, Dispatches, IInv, EndIInv
  <2>2. CASE ~Accept
    BY <1>1, <2>2
    DEF LoopStep, Poll, AcceptFails, RunListenFd, HandleClose, RunConnectEstablished,
        RunConnectDestroyed, RunRemoveConnection, SwapFunctors, EndRound, Runs,
        RemoveConnection, RemoveConnectionInLoop
  <2> QED
    BY <2>1, <2>2
<1>2. ASSUME ~(\E l \in Loops : LoopStep(l))
      PROVE  GoneIInv'
  BY <1>2
  DEF Next, Starting, Destroying, Start, PoolStarts, StartListening, EnterLoop, QuitBase,
      Destroy, DestroyConnection, PoolQuits, DestroyAcceptor, FreeBaseLoop, PeerConnects,
      PeerCloses, Shutdown
<1> QED
  BY <1>1, <1>2

LEMMA ServerInvariant == Spec => []ServerIInv
<1>1. Init => ServerIInv
  <2>1. Init => GoneIInv
    BY DEF Init, GoneIInv
  <2> QED
    BY <2>1, InvInit, ConnInit DEF ServerIInv
<1>2. ServerIInv /\ [Next]_vars => ServerIInv'
  BY InvStep, ConnStep, GoneStep DEF ServerIInv
<1> QED
  BY <1>1, <1>2, PTL DEF Spec

-----------------------------------------------------------------------------
(* The theorems.                                                           *)

\* The user is told "up" once and then "down" at most once, whatever closes the
\* connection, and getNextLoop never indexes past eventLoops_.
THEOREM TypeCorrect == Spec => []TypeOK
  BY ServerInvariant, PTL DEF ServerIInv, ConnIInv

\* A functor that is still to be run is held by its loop.
LEMMA UnrunIsHeld ==
    ASSUME TypeOK, RoundIInv, NEW l \in Loops, NEW f, Unrun(l, f)
    PROVE  f \in Held(l)
<1> DEFINE F == functors[l]
           P == pendingFunctors_[l]
           r == ran[l]
           S == SubSeq(F, r + 1, Len(F))
<1>1. F \in Seq(Functors) /\ P \in Seq(Functors) /\ r \in 0..Len(F)
  BY TodoType
<1>2. Todo(l) = S \o P
  BY DEF Todo
<1>3. Held(l) = {P[i] : i \in DOMAIN P} \cup {F[i] : i \in DOMAIN F}
  BY DEF Held, Range
<1> HIDE DEF F, P, r
<1>4. \A i \in 1..Len(S) : \E j \in 1..Len(F) : S[i] = F[j]
  <2> TAKE i \in 1..Len(S)
  <2>1. r + i \in 1..Len(F) /\ S[i] = F[r + i]
    BY <1>1
  <2> QED
    BY <2>1
<1>5. S \in Seq(Functors)
  BY <1>1
<1> HIDE DEF S
<1>6. \A i \in 1..Len(S \o P) :
          \/ \E j \in 1..Len(S) : (S \o P)[i] = S[j]
          \/ \E j \in 1..Len(P) : (S \o P)[i] = P[j]
  <2> TAKE i \in 1..Len(S \o P)
  <2>1. CASE i <= Len(S)
    <3>1. i \in 1..Len(S) /\ (S \o P)[i] = S[i]
      BY <1>1, <1>5, <2>1
    <3> QED
      BY <3>1
  <2>2. CASE ~(i <= Len(S))
    <3>1. i - Len(S) \in 1..Len(P) /\ (S \o P)[i] = P[i - Len(S)]
      BY <1>1, <1>5, <2>2
    <3> QED
      BY <3>1
  <2> QED
    BY <2>1, <2>2
<1>7. /\ \A j \in 1..Len(P) : P[j] \in Held(l)
      /\ \A j \in 1..Len(F) : F[j] \in Held(l)
  BY <1>1, <1>3
<1>8. \A i \in 1..Len(S \o P) : (S \o P)[i] \in Held(l)
  BY <1>4, <1>6, <1>7
<1> QED
  BY <1>2, <1>8 DEF Unrun

\* As long as its loop is there, a connection whose channel the poller knows, or which the
\* loop has still to dispatch, is held, by the map or by a functor that waits in that
\* loop: the reference removeConnectionInLoop and ~TcpServer hand over outlives both.
THEOREM PollersPointToLive == Spec => []PollersHoldLiveChannels
<1>1. ServerIInv => PollersHoldLiveChannels
  <2> SUFFICES ASSUME ServerIInv PROVE PollersHoldLiveChannels
    OBVIOUS
  <2>1. ASSUME NEW c \in ConnIds, conns[c].index # kNew,
               loopAt[conns[c].loop] \notin {"ended", "freed"}
        PROVE  Alive(c)
    <3>1. TypeOK /\ RoundIInv /\ conns[c].loop \in Loops
      BY ConnTypes DEF ServerIInv, ConnIInv
    <3>2. c \in connectionMap_ \/ Unrun(conns[c].loop, Destruct(c))
      BY <2>1 DEF ServerIInv, ConnIInv, HoldIInv
    <3>3. Unrun(conns[c].loop, Destruct(c)) => Destruct(c) \in Held(conns[c].loop)
      BY <3>1, UnrunIsHeld
    <3> QED
      BY <3>1, <3>2, <3>3, FunctorsDiffer DEF Alive
  \* What is to be dispatched is still registered.
  <2>2. ASSUME NEW l \in Loops, NEW c \in active[l] \ {Acceptor}
        PROVE  Alive(c)
    <3>1. c \in active[l] \cap ConnIds
      BY <2>2 DEF ServerIInv, ConnIInv, TypeOK
    <3>2. conns[c].loop = l /\ conns[c].index = kAdded /\ loopAt[l] = "dispatch"
      BY <3>1 DEF ServerIInv, ConnIInv, ActiveIInv, RoundIInv
    <3>3. conns[c].index # kNew /\ loopAt[conns[c].loop] \notin {"ended", "freed"}
      BY <3>2 DEF kAdded, kNew
    <3> QED
      BY <2>1, <3>1, <3>3
  <2> QED
    BY <2>1, <2>2 DEF PollersHoldLiveChannels
<1> QED
  BY <1>1, ServerInvariant, PTL

\* When the server is gone its user has been told of every end, but for the connections
\* a loop dropped a functor of and those that were shutting down.
THEOREM EndIsAlwaysTold == Spec => []EndIsTold
<1>1. ServerIInv => EndIsTold
  <2> SUFFICES ASSUME ServerIInv, serverAt = "gone", NEW c \in ConnIds,
                      c \notin dropped, conns[c].state_ # "kDisconnecting"
               PROVE  conns[c].told = <<"up", "down">>
    BY DEF EndIsTold
  <2>1. TypeOK /\ conns[c] \in Connection /\ conns[c].loop \in Loops
    BY ConnTypes DEF ServerIInv, ConnIInv
  <2>2. conns # <<>>
    BY DEF ConnIds
  <2>3. conns[c].loop # Base =>
            loopAt[conns[c].loop] = "ended"
    <3>1. conns[c].loop # Base => conns[c].loop \in 1..numThreads_
      BY <2>1 DEF Connection, Base, TypeOK
    <3>2. conns[c].loop # Base => loopAt[conns[c].loop] \in {"none", "ended"}
      BY <3>1 DEF ServerIInv, IInv, JoinIInv, PoolHasEndedUpTo
    <3>3. conns[c].loop # Base => loopAt[conns[c].loop] # "none"
      BY <2>2, <3>1 DEF ServerIInv, ConnIInv, StartedIInv, IOLoops
    <3> QED
      BY <3>2, <3>3
  <2>4. conns[c].loop # Base => \A f : ~Unrun(conns[c].loop, f)
    BY <2>1, <2>3, EmptySeq DEF ServerIInv, ConnIInv, OverIInv, Unrun
  <2>5. connectionMap_ = {}
    BY DEF ServerIInv, GoneIInv
  <2>6. conns[c].state_ = "kDisconnected"
    BY <2>1, <2>4, <2>5 DEF ServerIInv, ConnIInv, TellIInv, StateIInv
  <2> QED
    BY <2>6 DEF ServerIInv, ConnIInv, StateIInv, Told
<1> QED
  BY <1>1, ServerInvariant, PTL

\* The loops of the pool get the same number of connections, give or take one.
THEOREM LoadsBalanced == Spec => []Balanced
<1>1. ServerIInv => Balanced
  <2>1. ServerIInv => \A l \in IOLoops : Load(l) \in Nat
    BY LoadType DEF ServerIInv, ConnIInv
  <2> QED
    BY <2>1 DEF ServerIInv, BalIInv, Balanced
<1> QED
  BY <1>1, ServerInvariant, PTL

=============================================================================
