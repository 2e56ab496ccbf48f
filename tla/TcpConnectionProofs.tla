------------------------- MODULE TcpConnectionProofs -------------------------
(***************************************************************************)
(* Proofs about one TcpConnection: it is closed and removed once, somebody *)
(* holds it until then, and its bytes arrive whole, in order and before    *)
(* the FIN. For any threads, number of strings, lengths and water marks,   *)
(* whether or not the threads keep their references.                       *)
(***************************************************************************)
EXTENDS TcpConnection, SequenceTheorems, TLAPS

(* The queue of the IO loop.                                               *)

\* q holds a functor that is a call of run.
Has(q, run) == \E i \in 1..Len(q) : q[i].run = run

\* connectEstablished comes first, connectDestroyed once, and a string goes with its
\* call of sendInLoop.
Ordered(q) ==
    \A i \in 1..Len(q) :
        /\ q[i].run = "sendInLoop" => q[i].msg \in Msgs
        /\ q[i].run = "connectEstablished" => i = 1
        /\ q[i].run = "connectDestroyed" =>
              \A j \in 1..Len(q) : q[j].run = "connectDestroyed" => j = i

-----------------------------------------------------------------------------
(* The inductive invariant.                                                *)

\* Until connectEstablished has run, nothing else is done in the loop, and no thread
\* has the connection.
BirthIInv ==
    /\ state_ = "kConnecting" =>
          /\ ioQueue # <<>> /\ Head(ioQueue).run = "connectEstablished"
          /\ index = kNew /\ revents = {} /\ frame = "none"
          /\ \A t \in Threads : calls[t] = Idle
    /\ Has(ioQueue, "connectEstablished") => state_ = "kConnecting"

\* Events are dispatched only in a round whose poll returned the channel, and that round
\* does not remove it; connectDestroyed runs among the functors.
RoundIInv ==
    /\ revents # {} => loopAt \in {"active", "dispatch"} /\ index # kNew
    /\ frame # "none" => loopAt \in {"dispatch", "functors"}
    /\ frame \in {"destroying", "destroyed"} => loopAt = "functors"

\* The connection is closed once: then it does not read any more, and state_ says so to
\* a later connectDestroyed.
CloseIInv ==
    /\ downs \in {0, 1}
    /\ downs = 1 => "in" \notin events /\ "in" \notin revents
    /\ state_ \in {"kConnecting", "kConnected"} => downs = 0
    /\ frame = "destroying" => downs = 0

\* The reference of the map becomes connectDestroyed, and that one is run.
TokenIInv ==
    /\ destroyed \in {0, 1}
    /\ \/ inMap \/ Has(ioQueue, "connectDestroyed")
       \/ frame \in {"destroying", "destroyed"} \/ destroyed = 1
    /\ inMap => ~Has(ioQueue, "connectDestroyed")
    /\ frame \in {"destroying", "destroyed"} =>
          ~inMap /\ ~Has(ioQueue, "connectDestroyed") /\ destroyed = 0
    /\ destroyed = 1 => ~inMap /\ ~Has(ioQueue, "connectDestroyed")

\* closeCallback_ asks once that the map let go. As long as the server is there, only
\* that takes the connection out of the map.
MapIInv ==
    /\ baseQueue \in {0, 1}
    /\ baseQueue = 1 => downs = 1 /\ frame # "closing"
    /\ frame = "closing" => downs = 1
    /\ inMap => serverUp
    /\ serverUp /\ ~inMap => downs = 1 /\ baseQueue = 0 /\ frame # "closing"

ControlIInv ==
    TypeOK /\ Ordered(ioQueue) /\ BirthIInv /\ RoundIInv /\ CloseIInv /\ TokenIInv /\ MapIInv

\* What was read by the peer is a part of what was accepted.
StreamIInv == StreamIntact /\ Len(received) <= Len(accepted)

IInv == ControlIInv /\ StreamIInv /\ WatchesIffOutput /\ FinIsLast

-----------------------------------------------------------------------------
(* The queue grows at its end and is run from its head.                    *)

LEMMA AppendQueue ==
    ASSUME NEW q \in Seq(Functors), Ordered(q), NEW f \in Functors,
           f.run # "connectEstablished", f.run = "sendInLoop" => f.msg \in Msgs,
           f.run = "connectDestroyed" => ~Has(q, "connectDestroyed")
    PROVE  /\ Append(q, f) \in Seq(Functors) /\ Ordered(Append(q, f))
           /\ Len(Append(q, f)) = Len(q) + 1
           /\ \A run : Has(Append(q, f), run) <=> Has(q, run) \/ run = f.run
           /\ q # <<>> => Append(q, f) # <<>> /\ Head(Append(q, f)) = Head(q)
<1> DEFINE p == Append(q, f)
<1>1. /\ p \in Seq(Functors) /\ p # <<>> /\ Len(p) = Len(q) + 1 /\ Len(q) \in Nat
      /\ \A i \in 1..Len(q) : p[i] = q[i]
      /\ p[Len(q) + 1] = f
      /\ q # <<>> => Head(p) = Head(q)
  BY AppendProperties, HeadTailAppend
<1> HIDE DEF p
<1>2. \A run : Has(p, run) <=> Has(q, run) \/ run = f.run
  <2> TAKE run
  <2>1. Has(q, run) \/ run = f.run => Has(p, run)
    BY <1>1 DEF Has
  <2>2. Has(p, run) => Has(q, run) \/ run = f.run
    BY <1>1 DEF Has
  <2> QED
    BY <2>1, <2>2
<1>3. Ordered(p)
  <2>1. ASSUME NEW i \in 1..Len(p)
        PROVE  /\ p[i].run = "sendInLoop" => p[i].msg \in Msgs
               /\ p[i].run = "connectEstablished" => i = 1
    <3>1. CASE i \in 1..Len(q)
      BY <1>1, <3>1 DEF Ordered
    <3>2. CASE i = Len(q) + 1
      BY <1>1, <3>2
    <3> QED
      BY <1>1, <3>1, <3>2
  <2>2. ASSUME NEW i \in 1..Len(p), NEW j \in 1..Len(p),
               p[i].run = "connectDestroyed", p[j].run = "connectDestroyed"
        PROVE  j = i
    <3>1. CASE i \in 1..Len(q) /\ j \in 1..Len(q)
      BY <1>1, <2>2, <3>1 DEF Ordered
    <3>2. CASE ~(i \in 1..Len(q) /\ j \in 1..Len(q))
      BY <1>1, <2>2, <3>2 DEF Has
    <3> QED
      BY <3>1, <3>2
  <2> QED
    BY <2>1, <2>2 DEF Ordered
<1> QED
  BY <1>1, <1>2, <1>3 DEF p

LEMMA TailQueue ==
    ASSUME NEW q \in Seq(Functors), Ordered(q), q # <<>>
    PROVE  /\ Tail(q) \in Seq(Functors) /\ Ordered(Tail(q))
           /\ Len(Tail(q)) = Len(q) - 1 /\ Len(q) \in Nat
           /\ Head(q) \in Functors
           /\ Head(q).run = "sendInLoop" => Head(q).msg \in Msgs
           /\ \A run : Has(q, run) <=> Has(Tail(q), run) \/ run = Head(q).run
           /\ ~Has(Tail(q), "connectEstablished")
           /\ Head(q).run = "connectDestroyed" => ~Has(Tail(q), "connectDestroyed")
<1> DEFINE p == Tail(q)
<1>1. /\ p \in Seq(Functors) /\ Len(p) = Len(q) - 1 /\ Len(q) \in Nat /\ Len(q) > 0
      /\ \A i \in 1..Len(p) : p[i] = q[i + 1]
      /\ Head(q) = q[1] /\ Head(q) \in Functors
  BY HeadTailProperties, EmptySeq
<1> HIDE DEF p
<1>2. \A run : Has(q, run) <=> Has(p, run) \/ run = q[1].run
  <2> TAKE run
  <2>1. Has(p, run) => Has(q, run)
    <3>1. \A i \in 1..Len(p) : i + 1 \in 1..Len(q)
      BY <1>1
    <3> QED
      BY <1>1, <3>1 DEF Has
  <2>2. run = q[1].run => Has(q, run)
    BY <1>1 DEF Has
  <2>3. Has(q, run) => Has(p, run) \/ run = q[1].run
    <3> SUFFICES ASSUME NEW i \in 1..Len(q), q[i].run = run, i # 1
                 PROVE  Has(p, run)
      BY DEF Has
    <3>1. i - 1 \in 1..Len(p) /\ p[i - 1] = q[(i - 1) + 1]
      BY <1>1
    <3> QED
      BY <3>1 DEF Has
  <2> QED
    BY <2>1, <2>2, <2>3
<1>3. /\ Ordered(p) /\ ~Has(p, "connectEstablished")
      /\ q[1].run = "connectDestroyed" => ~Has(p, "connectDestroyed")
  <2>1. \A i \in 1..Len(p) : i + 1 \in 1..Len(q) /\ i + 1 # 1
    BY <1>1
  <2>2. 1 \in 1..Len(q)
    BY <1>1
  <2>3. ASSUME NEW i \in 1..Len(p)
        PROVE  /\ p[i].run = "sendInLoop" => p[i].msg \in Msgs
               /\ p[i].run # "connectEstablished"
               /\ q[1].run = "connectDestroyed" => p[i].run # "connectDestroyed"
    BY <1>1, <2>1, <2>2 DEF Ordered
  <2>4. ASSUME NEW i \in 1..Len(p), NEW j \in 1..Len(p),
               p[i].run = "connectDestroyed", p[j].run = "connectDestroyed"
        PROVE  j = i
    <3>1. j + 1 = i + 1
      BY <1>1, <2>1, <2>4 DEF Ordered
    <3> QED
      BY <3>1
  <2> QED
    BY <2>3, <2>4 DEF Ordered, Has
<1>4. q[1].run = "sendInLoop" => q[1].msg \in Msgs
  BY <1>1 DEF Ordered
<1> QED
  BY <1>1, <1>2, <1>3, <1>4 DEF p

\* p is queue q with callbacks of the user behind it, or as it was.
Grown(q, p) ==
    /\ p \in Seq(Functors) /\ Ordered(p) /\ Len(p) >= Len(q)
    /\ q # <<>> => p # <<>> /\ Head(p) = Head(q)
    /\ \A run \in {"connectEstablished", "connectDestroyed"} : Has(p, run) <=> Has(q, run)

LEMMA GrownSame ==
    ASSUME NEW q \in Seq(Functors), Ordered(q)
    PROVE  Grown(q, q)
  BY LenProperties DEF Grown

LEMMA GrownAppend ==
    ASSUME NEW q \in Seq(Functors), Ordered(q), NEW run \in {"writeComplete", "highWater"}
    PROVE  Grown(q, Append(q, Functor(run)))
<1>1. /\ Functor(run) \in Functors /\ Functor(run).run = run
  BY DEF Functor, Functors, Owning
<1> QED
  BY <1>1, AppendQueue, LenProperties DEF Grown

-----------------------------------------------------------------------------
(* What is moved between accepted, outputBuffer_, sent and received.       *)

\* Concatenation, by its laws only.
Cat(s, t) == s \o t

LEMMA CatLaws ==
    /\ \A s, t \in Seq(Byte) :
          /\ Cat(s, t) \in Seq(Byte) /\ Len(Cat(s, t)) = Len(s) + Len(t)
          /\ t # <<>> => Cat(s, t) # <<>>
    /\ \A s \in Seq(Byte) : Cat(s, <<>>) = s /\ Cat(<<>>, s) = s
<1>1. ASSUME NEW s \in Seq(Byte), NEW t \in Seq(Byte)
      PROVE  /\ Cat(s, t) \in Seq(Byte) /\ Len(Cat(s, t)) = Len(s) + Len(t)
             /\ t # <<>> => Cat(s, t) # <<>>
  BY ConcatProperties, ConcatEqualIffEmpty DEF Cat
<1>2. ASSUME NEW s \in Seq(Byte)
      PROVE  Cat(s, <<>>) = s /\ Cat(<<>>, s) = s
  BY ConcatEmptySeq DEF Cat
<1> QED
  BY <1>1, <1>2

LEMMA CatAssociates ==
    \A s, t, u \in Seq(Byte) : Cat(Cat(s, t), u) = Cat(s, Cat(t, u))
<1>1. ASSUME NEW s \in Seq(Byte), NEW t \in Seq(Byte), NEW u \in Seq(Byte)
      PROVE  Cat(Cat(s, t), u) = Cat(s, Cat(t, u))
  BY ConcatAssociative DEF Cat
<1> QED
  BY <1>1

LEMMA Cutting ==
    ASSUME NEW s \in Seq(Byte), NEW n \in 0..Len(s)
    PROVE  /\ SubSeq(s, 1, n) \in Seq(Byte) /\ Rest(s, n) \in Seq(Byte)
           /\ Len(SubSeq(s, 1, n)) = n /\ Len(Rest(s, n)) = Len(s) - n
           /\ Cat(SubSeq(s, 1, n), Rest(s, n)) = s
<1>1. SubSeq(s, 1, n) \in Seq(Byte) /\ Len(SubSeq(s, 1, n)) = n
  OBVIOUS
<1>2. Rest(s, n) \in Seq(Byte) /\ Len(Rest(s, n)) = Len(s) - n
  BY DEF Rest
<1>3. SubSeq(s, 1, n) \o SubSeq(s, n + 1, Len(s)) = SubSeq(s, 1, Len(s))
  <2>1. /\ 1 \in 1..Len(s) + 1 /\ n \in (1 - 1)..Len(s) /\ Len(s) \in n..Len(s)
    BY LenProperties
  <2> QED
    BY <2>1, ConcatAdjacentSubSeq
<1>4. SubSeq(s, 1, n) \o Rest(s, n) = s
  BY <1>3, SubSeqFull DEF Rest
<1> QED
  BY <1>1, <1>2, <1>4 DEF Cat

\* The beginning of a stream stays what it is as the stream grows.
LEMMA PrefixKeeps ==
    ASSUME NEW a \in Seq(Byte), NEW t \in Seq(Byte), NEW n \in 0..Len(a)
    PROVE  SubSeq(Cat(a, t), 1, n) = SubSeq(a, 1, n)
<1>1. a \o t \in Seq(Byte)
  BY ConcatProperties
<1>2. CASE n = 0
  BY <1>2, SubSeqEmpty DEF Cat
<1>3. CASE n # 0
  <2>1. 1 \in 1..Len(a) /\ n \in 1..Len(a)
    BY <1>3
  <2>2. SubSeq(a \o t, 1, n) = SubSeq(a, 1, n)
    BY <2>1, SubSeqOfConcat1
  <2> QED
    BY <2>2 DEF Cat
<1> QED
  BY <1>2, <1>3

LEMMA Prefix ==
    ASSUME NEW r \in Seq(Byte), NEW t \in Seq(Byte)
    PROVE  SubSeq(Cat(r, t), 1, Len(r)) = r
<1>1. Len(r) \in 0..Len(r)
  BY LenProperties
<1>2. SubSeq(r, 1, Len(r)) = r
  BY SubSeqFull
<1> QED
  BY <1>1, <1>2, PrefixKeeps

\* received, sent and outputBuffer_, end to end.
Whole(r, s, o) == Cat(Cat(r, s), o)

LEMMA WholeIs == \A r, s, o : r \o s \o o = Whole(r, s, o)
  BY DEF Whole, Cat

\* All of x is buffered.
LEMMA StreamBuffers ==
    \A r, s, o, x \in Seq(Byte) : Whole(r, s, Cat(o, x)) = Cat(Whole(r, s, o), x)
  BY CatLaws, CatAssociates DEF Whole

\* x is written, from the head of the buffer.
LEMMA StreamDrains ==
    \A r, s, x, y \in Seq(Byte) : Whole(r, Cat(s, x), y) = Whole(r, s, Cat(x, y))
<1> TAKE r, s, x, y \in Seq(Byte)
<1>1. Cat(r, Cat(s, x)) = Cat(Cat(r, s), x)
  BY CatAssociates
<1>2. Cat(r, s) \in Seq(Byte)
  BY CatLaws
<1>3. Cat(Cat(Cat(r, s), x), y) = Cat(Cat(r, s), Cat(x, y))
  BY <1>2, CatAssociates
<1> QED
  BY <1>1, <1>3 DEF Whole

\* x is written and y is buffered, when nothing was.
LEMMA StreamWrites ==
    \A r, s, x, y \in Seq(Byte) : Whole(r, Cat(s, x), y) = Cat(Whole(r, s, <<>>), Cat(x, y))
<1> TAKE r, s, x, y \in Seq(Byte)
<1>1. Whole(r, s, <<>>) = Cat(r, s)
  BY CatLaws DEF Whole
<1> QED
  BY <1>1, StreamDrains DEF Whole

\* The peer reads the first byte that was written.
LEMMA StreamRead ==
    ASSUME NEW r \in Seq(Byte), NEW s \in Seq(Byte), NEW o \in Seq(Byte), s # <<>>
    PROVE  /\ Append(r, Head(s)) \in Seq(Byte) /\ Tail(s) \in Seq(Byte)
           /\ Len(Tail(s)) = Len(s) - 1
           /\ Whole(Append(r, Head(s)), Tail(s), o) = Whole(r, s, o)
<1> DEFINE h == <<Head(s)>>
           t == Tail(s)
<1>1. Head(s) \in Byte /\ t \in Seq(Byte) /\ h \in Seq(Byte) /\ Len(t) = Len(s) - 1
  BY HeadTailProperties
<1>2. Cat(h, t) = s
  BY EmptySeq DEF Cat
<1>3. Append(r, Head(s)) = Cat(r, h)
  BY <1>1, AppendIsConcat DEF Cat
<1> HIDE DEF h, t
<1>4. Cat(Cat(r, h), t) = Cat(r, s) /\ Cat(r, h) \in Seq(Byte)
  BY <1>1, <1>2, CatAssociates, CatLaws
<1> QED
  BY <1>1, <1>3, <1>4 DEF Whole, t

-----------------------------------------------------------------------------
(* Writing.                                                                *)

DataIInv == StreamIInv /\ WatchesIffOutput /\ FinIsLast

LEMMA EventsDiffer ==
    /\ kReadEvent = {"in"} /\ kWriteEvent = {"out"} /\ "in" # "out"
    /\ kNew \notin {kAdded, kDeleted}
    /\ \A i, e : IndexAfterUpdate(i, e) \in {kAdded, kDeleted}
  BY DEF kReadEvent, kWriteEvent, kNew, kAdded, kDeleted, IndexAfterUpdate

LEMMA BufferRestKeeps ==
    ASSUME TypeOK, NEW rest \in Seq(Byte), NEW queue \in Seq(Functors), Ordered(queue),
           BufferRest(rest, queue)
    PROVE  /\ Grown(queue, ioQueue')
           /\ outputBuffer_' = Cat(outputBuffer_, rest) /\ outputBuffer_' \in Seq(Byte)
           /\ "out" \in events' /\ ("in" \in events' <=> "in" \in events)
           /\ events' \subseteq kReadEvent \cup kWriteEvent
           /\ index' = index \/ index' = kAdded
<1>1. Grown(queue, ioQueue')
  <2>1. ioQueue' = queue \/ ioQueue' = Append(queue, Functor("highWater"))
    BY DEF BufferRest
  <2> QED
    BY <2>1, GrownSame, GrownAppend
<1>2. outputBuffer_' = Cat(outputBuffer_, rest) /\ outputBuffer_' \in Seq(Byte)
  BY CatLaws DEF BufferRest, TypeOK, Cat
<1>3. CASE "out" \in events
  BY <1>1, <1>2, <1>3 DEF BufferRest, channelVars, TypeOK
<1>4. CASE "out" \notin events
  <2>1. events' = events \cup kWriteEvent /\ index' = IndexAfterUpdate(index, events')
    BY <1>4 DEF BufferRest, SetEvents
  <2>2. events' # kNoneEvent
    BY <2>1, EventsDiffer DEF kNoneEvent
  <2> QED
    BY <1>1, <1>2, <2>1, <2>2, EventsDiffer DEF TypeOK, IndexAfterUpdate
<1> QED
  BY <1>3, <1>4

\* What sendInLoop leaves of a connection, wherever it is called from.
LEMMA SendInLoopKeeps ==
    ASSUME TypeOK, DataIInv, NEW data \in Seq(Byte), data # <<>>,
           NEW queue \in Seq(Functors), Ordered(queue), SendInLoop(data, queue),
           UNCHANGED <<received, finSent, downs, destroyed>>
    PROVE  /\ Grown(queue, ioQueue')
           /\ outputBuffer_' \in Seq(Byte) /\ accepted' \in Seq(Byte)
           /\ sent' \in Seq(Byte) /\ Len(sent') <= SendRoom
           /\ events' \subseteq kReadEvent \cup kWriteEvent
           /\ "in" \in events' <=> "in" \in events
           /\ index' = index \/ (index' = kAdded /\ ~Refuses)
           /\ peer' \in {"open", "halfClosed", "reset", "gone"}
           /\ faults' \subseteq {"writeAfterFin", "useAfterFree"}
           /\ DataIInv'
<1>1. /\ received \in Seq(Byte) /\ sent \in Seq(Byte) /\ outputBuffer_ \in Seq(Byte)
      /\ accepted \in Seq(Byte) /\ Len(sent) <= SendRoom
      /\ peer \in {"open", "halfClosed", "reset", "gone"}
  BY DEF TypeOK
<1>2. /\ Len(received) \in 0..Len(accepted)
      /\ SubSeq(accepted, 1, Len(received)) = received
      /\ peer \in {"open", "halfClosed"} => Whole(received, sent, outputBuffer_) = accepted
  <2>1. StreamIntact /\ Len(received) <= Len(accepted)
    BY DEF DataIInv, StreamIInv
  <2>2. Len(received) \in 0..Len(accepted)
    BY <1>1, <2>1, LenProperties
  <2>3. StreamIntact <=>
          /\ SubSeq(accepted, 1, Len(received)) = received
          /\ peer \in {"open", "halfClosed"} => Whole(received, sent, outputBuffer_) = accepted
    BY DEF StreamIntact, Whole, Cat
  <2> QED
    BY <2>1, <2>2, <2>3
\* What was accepted grows, and so do sent and outputBuffer_ together.
<1>3. ASSUME accepted' = Cat(accepted, data), outputBuffer_' \in Seq(Byte), sent' \in Seq(Byte),
             peer' = peer,
             Whole(received, sent, outputBuffer_) = accepted
                => Whole(received, sent', outputBuffer_') = accepted'
      PROVE  StreamIInv' /\ accepted' \in Seq(Byte)
  <2>1. accepted' \in Seq(Byte) /\ Len(accepted') = Len(accepted) + Len(data)
    BY <1>1, <1>3, CatLaws
  <2>2. SubSeq(accepted', 1, Len(received)) = received
    BY <1>1, <1>2, <1>3, PrefixKeeps
  <2>3. Len(received) <= Len(accepted')
    BY <1>1, <1>2, <2>1, LenProperties
  <2> QED
    BY <1>2, <1>3, <2>1, <2>2, <2>3 DEF StreamIInv, StreamIntact, Whole, Cat
<1>4. CASE Refuses
  <2>1. /\ ioQueue' = queue
        /\ UNCHANGED <<index, events, outputBuffer_, sent, peer, accepted, faults>>
    BY <1>4 DEF SendInLoop, channelVars
  <2>2. DataIInv'
    BY <2>1 DEF DataIInv, StreamIInv, StreamIntact, WatchesIffOutput, FinIsLast
  <2> QED
    BY <2>1, <2>2, GrownSame DEF TypeOK
<1>5. CASE ~Refuses /\ WritesNow /\ WriteFails
  <2>1. /\ WriteError /\ ioQueue' = queue
        /\ UNCHANGED <<index, events, outputBuffer_, sent, accepted>>
    BY <1>5 DEF SendInLoop, channelVars
  <2>2. /\ peer' \in {"open", "halfClosed", "reset", "gone"}
        /\ peer' \in {"open", "halfClosed"} => peer' = peer
        /\ faults' \subseteq {"writeAfterFin", "useAfterFree"}
    BY <1>1, <2>1 DEF WriteError, TypeOK
  <2>3. DataIInv'
    BY <2>1, <2>2 DEF DataIInv, StreamIInv, StreamIntact, WatchesIffOutput, FinIsLast
  <2> QED
    BY <2>1, <2>2, <2>3, GrownSame DEF TypeOK
<1>6. CASE ~Refuses /\ WritesNow /\ ~WriteFails
  <2> DEFINE n == Lower(Len(data), Room)
             x == SubSeq(data, 1, n)
             y == Rest(data, n)
  <2>1. /\ sent' = Cat(sent, x)
        /\ IF n = Len(data)
           THEN ioQueue' = Append(queue, Functor("writeComplete"))
                /\ UNCHANGED <<index, events, outputBuffer_>>
           ELSE BufferRest(y, queue)
        /\ accepted' = Cat(accepted, data)
        /\ UNCHANGED <<peer, faults>>
    BY <1>5, <1>6 DEF SendInLoop, channelVars, Unwritten, Cat
  <2>2. n \in 0..Len(data) /\ n <= SendRoom - Len(sent)
    BY <1>1, LenProperties, SizesAssumption DEF Lower, Room
  <2>3. outputBuffer_ = <<>> /\ "out" \notin events /\ ~finSent
    BY <1>6 DEF WritesNow, WriteFails
  <2> HIDE DEF n
  <2>4. /\ x \in Seq(Byte) /\ y \in Seq(Byte) /\ Len(x) = n /\ Len(y) = Len(data) - n
        /\ Cat(x, y) = data
    BY <2>2, Cutting
  <2> HIDE DEF x, y
  <2>5. sent' \in Seq(Byte) /\ Len(sent') <= SendRoom
    <3>1. Cat(sent, x) \in Seq(Byte) /\ Len(Cat(sent, x)) = Len(sent) + Len(x)
      BY <1>1, <2>4, CatLaws
    <3>2. Len(sent) \in Nat /\ SendRoom \in Nat /\ n \in Nat
      BY <1>1, <2>2, LenProperties, SizesAssumption
    <3> QED
      BY <2>1, <2>2, <2>4, <3>1, <3>2
  <2>6. CASE n = Len(data)
    <3>1. y = <<>> /\ x = data
      <4>1. y = <<>>
        BY <2>4, <2>6, EmptySeq, LenProperties
      <4> QED
        BY <2>4, <4>1, CatLaws
    <3>2. /\ Grown(queue, ioQueue')
          /\ UNCHANGED <<index, events, outputBuffer_>>
      BY <2>1, <2>6, GrownAppend
    <3>3. StreamIInv' /\ accepted' \in Seq(Byte)
      <4>1. Whole(received, Cat(sent, x), y) = Cat(Whole(received, sent, <<>>), Cat(x, y))
        BY <1>1, <2>4, StreamWrites
      <4>2. Whole(received, sent, outputBuffer_) = accepted
                => Whole(received, sent', outputBuffer_') = accepted'
        BY <2>1, <2>3, <2>4, <3>1, <3>2, <4>1
      <4> QED
        BY <1>1, <1>3, <2>1, <2>5, <3>2, <4>2
    <3>4. WatchesIffOutput' /\ FinIsLast'
      BY <2>3, <3>2 DEF WatchesIffOutput, FinIsLast
    <3> QED
      BY <1>1, <2>1, <2>5, <3>2, <3>3, <3>4 DEF DataIInv, TypeOK
  <2>7. CASE n # Len(data)
    <3>1. y # <<>>
      BY <2>2, <2>4, <2>7, EmptySeq
    <3>2. BufferRest(y, queue)
      BY <2>1, <2>7
    <3>3. /\ Grown(queue, ioQueue')
          /\ outputBuffer_' = Cat(outputBuffer_, y) /\ outputBuffer_' \in Seq(Byte)
          /\ "out" \in events' /\ ("in" \in events' <=> "in" \in events)
          /\ events' \subseteq kReadEvent \cup kWriteEvent
          /\ index' = index \/ index' = kAdded
      BY <2>4, <3>2, BufferRestKeeps
    <3>4. StreamIInv' /\ accepted' \in Seq(Byte)
      <4>1. Whole(received, Cat(sent, x), y) = Cat(Whole(received, sent, <<>>), Cat(x, y))
        BY <1>1, <2>4, StreamWrites
      <4>2. Whole(received, sent, outputBuffer_) = accepted
                => Whole(received, sent', outputBuffer_') = accepted'
        <5>1. Cat(<<>>, y) = y
          BY <2>4, CatLaws
        <5> QED
          BY <2>1, <2>3, <2>4, <3>3, <4>1, <5>1
      <4> QED
        BY <1>3, <2>1, <2>5, <3>3, <4>2
    <3>5. outputBuffer_' # <<>>
      BY <2>3, <2>4, <3>1, <3>3, CatLaws
    <3>6. WatchesIffOutput' /\ FinIsLast'
      BY <2>3, <3>3, <3>5 DEF WatchesIffOutput, FinIsLast
    <3> QED
      BY <1>1, <1>6, <2>1, <2>5, <3>3, <3>4, <3>6 DEF DataIInv, TypeOK
  <2> QED
    BY <2>6, <2>7
<1>7. CASE ~Refuses /\ ~WritesNow
  <2>1. /\ BufferRest(data, queue) /\ accepted' = Cat(accepted, data)
        /\ UNCHANGED <<sent, peer, faults>>
    BY <1>7 DEF SendInLoop, Cat
  <2>2. /\ Grown(queue, ioQueue')
        /\ outputBuffer_' = Cat(outputBuffer_, data) /\ outputBuffer_' \in Seq(Byte)
        /\ "out" \in events' /\ ("in" \in events' <=> "in" \in events)
        /\ events' \subseteq kReadEvent \cup kWriteEvent
        /\ index' = index \/ index' = kAdded
    BY <2>1, BufferRestKeeps
  <2>3. StreamIInv' /\ accepted' \in Seq(Byte)
    <3>1. Whole(received, sent, Cat(outputBuffer_, data)) = Cat(Whole(received, sent, outputBuffer_), data)
      BY <1>1, StreamBuffers
    <3>2. Whole(received, sent, outputBuffer_) = accepted
              => Whole(received, sent', outputBuffer_') = accepted'
      BY <2>1, <2>2, <3>1
    <3> QED
      BY <1>1, <1>3, <2>1, <2>2, <3>2
  <2>4. outputBuffer_' # <<>>
    BY <1>1, <2>2, CatLaws
  <2>5. WatchesIffOutput' /\ FinIsLast'
    BY <1>7, <2>2, <2>4 DEF DataIInv, WatchesIffOutput, FinIsLast, WritesNow
  <2> QED
    BY <1>1, <1>7, <2>1, <2>2, <2>3, <2>5 DEF DataIInv, TypeOK
<1> QED
  BY <1>4, <1>5, <1>6, <1>7

-----------------------------------------------------------------------------
(* Steps that leave the stream alone.                                      *)

\* Nothing that the stream depends on has changed, unless the connection was reset.
LEMMA DataSame ==
    ASSUME DataIInv,
           UNCHANGED <<outputBuffer_, sent, received, accepted, finSent, events, downs,
                       destroyed>>,
           peer' \in {"open", "halfClosed"} => peer \in {"open", "halfClosed"}
    PROVE  DataIInv'
  BY DEF DataIInv, StreamIInv, StreamIntact, WatchesIffOutput, FinIsLast

\* The connection has been closed or removed.
LEMMA DataEnds ==
    ASSUME DataIInv, UNCHANGED <<outputBuffer_, sent, received, accepted, peer>>,
           downs' # 0 \/ destroyed' # 0
    PROVE  DataIInv'
  BY DEF DataIInv, StreamIInv, StreamIntact, WatchesIffOutput, FinIsLast

\* The IO loop comes to its next phase.
LEMMA PhaseKeeps ==
    ASSUME ControlIInv, DataIInv, Poll \/ HandleEvent \/ Swap \/ FunctorsDone \/ CallbackReturns
    PROVE  ControlIInv' /\ DataIInv'
<1> USE DEF Poll, HandleEvent, Swap, FunctorsDone, CallbackReturns, channelVars, socketVars,
            serverVars, userVars, historyVars
<1>1. /\ UNCHANGED <<state_, index, events, outputBuffer_, sent, received, finSent, peer,
                     inbound, inMap, serverUp, baseQueue, ioQueue, calls, holders, sends,
                     accepted, downs, destroyed>>
      /\ frame' = frame \/ (frame = "user" /\ frame' = "none")
  OBVIOUS
<1>2. DataIInv'
  BY <1>1, DataSame
<1>3. /\ loopAt' \in {"poll", "active", "dispatch", "functors"}
      /\ revents' \in {{}, revents, events}
      /\ batch' \in 0..Len(ioQueue) /\ keeps' \in BOOLEAN
      /\ faults' \subseteq {"writeAfterFin", "useAfterFree"}
      /\ revents' # {} => loopAt' \in {"active", "dispatch"} /\ index # kNew
      /\ frame' # "none" => loopAt' = loopAt
  <2>1. /\ Len(ioQueue) \in Nat /\ batch \in 0..Len(ioQueue) /\ keeps \in BOOLEAN
        /\ loopAt \in {"poll", "active", "dispatch", "functors"}
        /\ faults \subseteq {"writeAfterFin", "useAfterFree"}
        /\ RoundIInv
    BY LenProperties DEF ControlIInv, TypeOK
  <2>2. CASE Poll
    BY <2>1, <2>2, EventsDiffer DEF RoundIInv, Active
  <2>3. CASE HandleEvent
    BY <2>1, <2>3 DEF RoundIInv
  <2>4. CASE Swap
    BY <2>1, <2>4 DEF RoundIInv
  <2>5. CASE FunctorsDone \/ CallbackReturns
    BY <2>1, <2>5 DEF RoundIInv
  <2> QED
    BY <2>2, <2>3, <2>4, <2>5
<1> USE <1>1, <1>3
<1>4. TypeOK'
  BY DEF ControlIInv, TypeOK
<1>5. Ordered(ioQueue)'
  BY DEF ControlIInv
<1>6. BirthIInv'
  BY DEF ControlIInv, BirthIInv, Has
<1>7. RoundIInv'
  BY DEF ControlIInv, RoundIInv
<1>8. CloseIInv'
  BY DEF ControlIInv, CloseIInv
<1>9. TokenIInv' /\ MapIInv'
  BY DEF ControlIInv, TokenIInv, MapIInv, Has
<1> QED
  BY <1>2, <1>4, <1>5, <1>6, <1>7, <1>8, <1>9 DEF ControlIInv

\* handleRead with data or with an error, handleWrite that writes nothing.
LEMMA HandlesNothingKeeps ==
    ASSUME ControlIInv, DataIInv, HandleReadMessage \/ HandleReadError \/ HandleWriteNothing
    PROVE  ControlIInv' /\ DataIInv'
<1>1. /\ UNCHANGED <<state_, index, events, outputBuffer_, sent, received, finSent, inMap,
                     serverUp, baseQueue, ioQueue, batch, keeps, loopAt, calls, holders, sends,
                     accepted, downs, destroyed>>
      /\ loopAt = "dispatch" /\ frame = "none" /\ revents # {}
      /\ revents' = revents \ {"in"} \/ revents' = {}
      /\ frame' \in {"none", "user"}
  BY DEF HandleReadMessage, HandleReadError, HandleWriteNothing, HandlesRead, HandlesWrite,
         channelVars, serverVars, userVars, historyVars
<1>2. /\ inbound' \in BOOLEAN
      /\ peer' \in {"open", "halfClosed", "reset", "gone"}
      /\ peer' \in {"open", "halfClosed"} => peer' = peer
      /\ faults' \subseteq {"writeAfterFin", "useAfterFree"}
  BY DEF HandleReadMessage, HandleReadError, HandleWriteNothing, HandlesRead, HandlesWrite,
         WriteError, historyVars, socketVars, ControlIInv, TypeOK
<1>3. DataIInv'
  BY <1>1, <1>2, DataSame
<1> USE <1>1, <1>2
<1>4. TypeOK'
  BY DEF ControlIInv, TypeOK
<1>5. Ordered(ioQueue)'
  BY DEF ControlIInv
<1>6. BirthIInv'
  BY DEF ControlIInv, BirthIInv, Has
<1>7. RoundIInv'
  BY DEF ControlIInv, RoundIInv
<1>8. CloseIInv'
  BY DEF ControlIInv, CloseIInv
<1>9. TokenIInv' /\ MapIInv'
  BY DEF ControlIInv, TokenIInv, MapIInv, Has
<1> QED
  BY <1>3, <1>4, <1>5, <1>6, <1>7, <1>8, <1>9 DEF ControlIInv

LEMMA HandleCloseKeeps ==
    ASSUME ControlIInv, DataIInv, HandleClose
    PROVE  ControlIInv' /\ DataIInv'
<1>1. /\ UNCHANGED <<outputBuffer_, sent, received, finSent, peer, inbound, inMap,
                     serverUp, baseQueue, ioQueue, batch, keeps, loopAt, calls, holders, sends,
                     accepted, destroyed, faults>>
      /\ loopAt = "dispatch" /\ frame = "none" /\ "in" \in revents
      /\ revents' = revents \ {"in"}
      /\ state_' = "kDisconnected" /\ frame' = "closing"
      /\ events' = {} /\ index' \in {kAdded, kDeleted}
      /\ downs' = downs + 1
  BY EventsDiffer DEF HandleClose, HandlesRead, SetEvents, socketVars, serverVars, userVars, kNoneEvent
<1>2. downs = 0 /\ downs' = 1 /\ state_ # "kConnecting"
  BY <1>1 DEF ControlIInv, CloseIInv, BirthIInv
<1>3. DataIInv'
  BY <1>1, <1>2, DataEnds
<1> USE <1>1, <1>2
<1>4. TypeOK'
  BY DEF ControlIInv, TypeOK, States
<1>5. Ordered(ioQueue)'
  BY DEF ControlIInv
<1>6. BirthIInv'
  BY DEF ControlIInv, BirthIInv, Has
<1>7. RoundIInv'
  BY EventsDiffer DEF ControlIInv, RoundIInv
<1>8. CloseIInv'
  BY DEF ControlIInv, CloseIInv
<1>9. TokenIInv' /\ MapIInv'
  BY DEF ControlIInv, TokenIInv, MapIInv, Has
<1> QED
  BY <1>3, <1>4, <1>5, <1>6, <1>7, <1>8, <1>9 DEF ControlIInv

LEMMA CloseCallbackKeeps ==
    ASSUME ControlIInv, DataIInv, CloseCallback
    PROVE  ControlIInv' /\ DataIInv'
<1>1. /\ UNCHANGED <<state_, index, events, outputBuffer_, sent, received, finSent, peer,
                     inbound, inMap, serverUp, ioQueue, batch, keeps, loopAt, revents, calls,
                     holders, sends, accepted, downs, destroyed, faults>>
      /\ frame = "closing" /\ frame' = "none"
      /\ baseQueue' = baseQueue + 1
  BY DEF CloseCallback, channelVars, socketVars, userVars, historyVars
<1>2. baseQueue = 0 /\ baseQueue' = 1 /\ downs = 1 /\ (serverUp => inMap)
  BY <1>1 DEF ControlIInv, MapIInv
<1>3. DataIInv'
  BY <1>1, DataSame
<1> USE <1>1, <1>2
<1>4. TypeOK'
  BY DEF ControlIInv, TypeOK
<1>5. Ordered(ioQueue)'
  BY DEF ControlIInv
<1>6. BirthIInv'
  BY DEF ControlIInv, BirthIInv, Has
<1>7. RoundIInv'
  BY DEF ControlIInv, RoundIInv
<1>8. CloseIInv'
  BY DEF ControlIInv, CloseIInv
<1>9. TokenIInv' /\ MapIInv'
  BY DEF ControlIInv, TokenIInv, MapIInv, Has
<1> QED
  BY <1>3, <1>4, <1>5, <1>6, <1>7, <1>8, <1>9 DEF ControlIInv

-----------------------------------------------------------------------------
(* Steps that write, buffer or shut the socket down.                       *)

\* What Grown says of the functors the invariant asks about.
LEMMA GrownQueue ==
    ASSUME NEW q, NEW p, Grown(q, p)
    PROVE  /\ p \in Seq(Functors) /\ Ordered(p)
           /\ Len(p) >= Len(q) /\ Len(p) \in Nat
           /\ q # <<>> => p # <<>> /\ Head(p) = Head(q)
           /\ Has(p, "connectEstablished") <=> Has(q, "connectEstablished")
           /\ Has(p, "connectDestroyed") <=> Has(q, "connectDestroyed")
  BY LenProperties DEF Grown

LEMMA ShutdownInLoopKeeps ==
    ASSUME TypeOK, DataIInv, ShutdownInLoop(events),
           UNCHANGED <<outputBuffer_, sent, received, accepted, peer, events, downs, destroyed>>
    PROVE  DataIInv' /\ finSent' \in BOOLEAN
<1>1. finSent' \in BOOLEAN /\ (finSent' => finSent \/ "out" \notin events)
  BY DEF ShutdownInLoop, TypeOK
<1>2. StreamIInv'
  BY DEF DataIInv, StreamIInv, StreamIntact
<1>3. WatchesIffOutput'
  BY DEF DataIInv, WatchesIffOutput
<1>4. FinIsLast'
  BY <1>1 DEF DataIInv, WatchesIffOutput, FinIsLast
<1> QED
  BY <1>1, <1>2, <1>3, <1>4 DEF DataIInv

\* The stream, as handleWrite moves the head of outputBuffer_ to the socket.
LEMMA HandleWriteStream ==
    ASSUME TypeOK, DataIInv, HandleWrite
    PROVE  /\ sent' \in Seq(Byte) /\ Len(sent') <= SendRoom /\ outputBuffer_' \in Seq(Byte)
           /\ finSent' \in BOOLEAN
           /\ Ordered(ioQueue) => Grown(ioQueue, ioQueue')
           /\ events' \in {events, events \ {"out"}}
           /\ index' \in {index, kAdded, kDeleted}
           /\ DataIInv'
<1> DEFINE n == Lower(Len(outputBuffer_), Room)
           x == SubSeq(outputBuffer_, 1, n)
           y == Rest(outputBuffer_, n)
<1>1. /\ received \in Seq(Byte) /\ sent \in Seq(Byte) /\ outputBuffer_ \in Seq(Byte)
      /\ accepted \in Seq(Byte) /\ Len(sent) <= SendRoom /\ ioQueue \in Seq(Functors)
      /\ finSent \in BOOLEAN
  BY DEF TypeOK
<1>2. /\ UNCHANGED <<state_, received, accepted, peer, downs, destroyed>>
      /\ sent' = Cat(sent, x) /\ outputBuffer_' = y
      /\ IF y = <<>> THEN Drained(y) ELSE UNCHANGED <<index, events, ioQueue, finSent>>
      /\ "out" \in events /\ ~finSent /\ outputBuffer_ # <<>>
  BY DEF HandleWrite, HandlesWrite, WriteFails, channelVars, userVars, Cat
<1>3. n \in 0..Len(outputBuffer_) /\ n <= SendRoom - Len(sent)
  <2>1. Room > 0
    BY DEF HandleWrite
  <2> QED
    BY <1>1, <2>1, LenProperties, SizesAssumption DEF Lower, Room
<1> HIDE DEF n
<1>4. /\ x \in Seq(Byte) /\ y \in Seq(Byte) /\ Len(x) = n
      /\ Cat(x, y) = outputBuffer_
  BY <1>1, <1>3, Cutting
<1> HIDE DEF x, y
<1>5. sent' \in Seq(Byte) /\ Len(sent') <= SendRoom
  <2>1. Cat(sent, x) \in Seq(Byte) /\ Len(Cat(sent, x)) = Len(sent) + Len(x)
    BY <1>1, <1>4, CatLaws
  <2>2. Len(sent) \in Nat /\ SendRoom \in Nat /\ n \in Nat
    BY <1>1, <1>3, LenProperties, SizesAssumption
  <2> QED
    BY <1>2, <1>3, <1>4, <2>1, <2>2
<1>6. StreamIInv'
  <2>1. Whole(received, sent', outputBuffer_') = Whole(received, sent, outputBuffer_)
    BY <1>1, <1>2, <1>4, StreamDrains
  <2>2. received' \o sent' \o outputBuffer_' = received \o sent \o outputBuffer_
    BY <1>2, <2>1, WholeIs
  <2> QED
    BY <1>2, <2>2 DEF DataIInv, StreamIInv, StreamIntact
<1>7. CASE y = <<>>
  <2>1. /\ ioQueue' = Append(ioQueue, Functor("writeComplete"))
        /\ events' = events \ {"out"} /\ index' \in {kAdded, kDeleted}
        /\ finSent' \in BOOLEAN
    BY <1>1, <1>2, <1>7, EventsDiffer DEF Drained, SetEvents, ShutdownInLoop
  <2>2. Ordered(ioQueue) => Grown(ioQueue, ioQueue')
    BY <1>1, <2>1, GrownAppend
  <2>3. WatchesIffOutput' /\ FinIsLast'
    BY <1>2, <1>7, <2>1 DEF WatchesIffOutput, FinIsLast
  <2> QED
    BY <1>2, <1>4, <1>5, <1>6, <2>1, <2>2, <2>3 DEF DataIInv
<1>8. CASE y # <<>>
  <2>1. Ordered(ioQueue) => Grown(ioQueue, ioQueue')
    BY <1>1, <1>2, <1>8, GrownSame
  <2>2. WatchesIffOutput' /\ FinIsLast'
    BY <1>2, <1>8 DEF WatchesIffOutput, FinIsLast
  <2> QED
    BY <1>1, <1>2, <1>4, <1>5, <1>6, <1>8, <2>1, <2>2 DEF DataIInv
<1> QED
  BY <1>7, <1>8

LEMMA HandleWriteKeeps ==
    ASSUME ControlIInv, DataIInv, HandleWrite
    PROVE  ControlIInv' /\ DataIInv'
<1>1. /\ UNCHANGED <<state_, received, peer, inbound, inMap, serverUp, baseQueue, batch, keeps,
                     loopAt, frame, calls, holders, sends, accepted, downs, destroyed, faults>>
      /\ revents = {"out"} /\ revents' = {}
  BY DEF HandleWrite, HandlesWrite, serverVars, userVars
<1>2. TypeOK /\ Ordered(ioQueue)
  BY DEF ControlIInv
<1>3. /\ sent' \in Seq(Byte) /\ Len(sent') <= SendRoom /\ outputBuffer_' \in Seq(Byte)
      /\ finSent' \in BOOLEAN
      /\ Grown(ioQueue, ioQueue')
      /\ events' \in {events, events \ {"out"}}
      /\ index' \in {index, kAdded, kDeleted}
      /\ DataIInv'
  BY <1>2, HandleWriteStream
<1>4. /\ ioQueue' \in Seq(Functors) /\ Ordered(ioQueue')
      /\ Len(ioQueue') >= Len(ioQueue) /\ Len(ioQueue') \in Nat
      /\ Has(ioQueue', "connectEstablished") <=> Has(ioQueue, "connectEstablished")
      /\ Has(ioQueue', "connectDestroyed") <=> Has(ioQueue, "connectDestroyed")
  BY <1>3, GrownQueue
<1>5. state_ # "kConnecting"
  BY <1>1 DEF ControlIInv, BirthIInv
<1>6. TypeOK'
  <2>1. batch' \in 0..Len(ioQueue')
    BY <1>1, <1>2, <1>4, LenProperties DEF TypeOK
  <2> QED
    BY <1>1, <1>2, <1>3, <1>4, <2>1 DEF TypeOK
<1>7. BirthIInv'
  BY <1>1, <1>4, <1>5 DEF ControlIInv, BirthIInv
<1>8. RoundIInv'
  BY <1>1 DEF ControlIInv, RoundIInv
<1>9. CloseIInv'
  BY <1>1, <1>3 DEF ControlIInv, CloseIInv
<1>10. TokenIInv' /\ MapIInv'
  BY <1>1, <1>4 DEF ControlIInv, TokenIInv, MapIInv
<1> QED
  BY <1>3, <1>4, <1>6, <1>7, <1>8, <1>9, <1>10 DEF ControlIInv

LEMMA BytesOf ==
    ASSUME NEW msg \in Msgs
    PROVE  Bytes(msg) \in Seq(Byte) /\ Bytes(msg) # <<>>
<1>1. MsgLen \in Nat /\ MsgLen >= 1
  BY SizesAssumption
<1>2. \A i \in 1..MsgLen : <<msg, i>> \in Byte
  BY DEF Byte
<1> QED
  BY <1>1, <1>2, EmptySeq DEF Bytes

\* sendInLoop, in the loop's own thread or as a functor; queue is ioQueue, or its tail.
LEMMA SendsKeeps ==
    ASSUME ControlIInv, DataIInv, NEW msg \in Msgs, NEW queue, queue \in Seq(Functors),
           Ordered(queue), SendInLoop(Bytes(msg), queue), batch' \in 0..Len(queue),
           Has(queue, "connectEstablished") <=> Has(ioQueue, "connectEstablished"),
           Has(queue, "connectDestroyed") <=> Has(ioQueue, "connectDestroyed"),
           state_ # "kConnecting", sends' \in 0..MaxSends,
           UNCHANGED <<state_, received, finSent, inbound, inMap, serverUp, baseQueue, keeps,
                       loopAt, revents, frame, calls, holders, downs, destroyed>>
    PROVE  ControlIInv' /\ DataIInv'
<1>1. TypeOK
  BY DEF ControlIInv
<1>2. /\ Grown(queue, ioQueue')
      /\ outputBuffer_' \in Seq(Byte) /\ accepted' \in Seq(Byte)
      /\ sent' \in Seq(Byte) /\ Len(sent') <= SendRoom
      /\ events' \subseteq kReadEvent \cup kWriteEvent
      /\ "in" \in events' <=> "in" \in events
      /\ index' = index \/ (index' = kAdded /\ ~Refuses)
      /\ peer' \in {"open", "halfClosed", "reset", "gone"}
      /\ faults' \subseteq {"writeAfterFin", "useAfterFree"}
      /\ DataIInv'
  BY <1>1, BytesOf, SendInLoopKeeps
<1>3. /\ ioQueue' \in Seq(Functors) /\ Ordered(ioQueue')
      /\ Len(ioQueue') >= Len(queue) /\ Len(ioQueue') \in Nat
      /\ Has(ioQueue', "connectEstablished") <=> Has(queue, "connectEstablished")
      /\ Has(ioQueue', "connectDestroyed") <=> Has(queue, "connectDestroyed")
  BY <1>2, GrownQueue
<1>4. TypeOK'
  <2>1. batch' \in 0..Len(ioQueue')
    BY <1>3, LenProperties
  <2> QED
    BY <1>1, <1>2, <1>3, <2>1 DEF TypeOK
<1>5. BirthIInv'
  BY <1>3 DEF ControlIInv, BirthIInv
<1>6. RoundIInv'
  BY <1>2, EventsDiffer DEF ControlIInv, RoundIInv
<1>7. CloseIInv'
  BY <1>2 DEF ControlIInv, CloseIInv
<1>8. TokenIInv' /\ MapIInv'
  BY <1>3 DEF ControlIInv, TokenIInv, MapIInv
<1> QED
  BY <1>2, <1>3, <1>4, <1>5, <1>6, <1>7, <1>8 DEF ControlIInv

-----------------------------------------------------------------------------
(* The functors.                                                           *)

\* What a functor finds when it is run, and what it leaves of the queue.
LEMMA HeadRuns ==
    ASSUME ControlIInv, NEW run, Runs(run)
    PROVE  /\ Tail(ioQueue) \in Seq(Functors) /\ Ordered(Tail(ioQueue))
           /\ batch' \in 0..Len(Tail(ioQueue))
           /\ UNCHANGED <<keeps, loopAt, revents, received, inbound>>
           /\ loopAt = "functors" /\ frame = "none" /\ revents = {}
           /\ run = "sendInLoop" => Head(ioQueue).msg \in Msgs
           /\ (run = "connectEstablished") <=> (state_ = "kConnecting")
           /\ Has(ioQueue, "connectEstablished") <=> run = "connectEstablished"
           /\ ~Has(Tail(ioQueue), "connectEstablished")
           /\ Has(ioQueue, "connectDestroyed") <=>
                Has(Tail(ioQueue), "connectDestroyed") \/ run = "connectDestroyed"
           /\ run = "connectDestroyed" => ~Has(Tail(ioQueue), "connectDestroyed")
<1>1. /\ loopAt = "functors" /\ frame = "none" /\ batch > 0 /\ batch' = batch - 1
      /\ Head(ioQueue).run = run
      /\ UNCHANGED <<keeps, loopAt, revents, received, inbound>>
  BY DEF Runs
<1>2. /\ ioQueue \in Seq(Functors) /\ Ordered(ioQueue) /\ batch \in 0..Len(ioQueue)
      /\ Len(ioQueue) \in Nat
  BY LenProperties DEF ControlIInv, TypeOK
<1>3. ioQueue # <<>>
  BY <1>1, <1>2, EmptySeq
<1>4. /\ Tail(ioQueue) \in Seq(Functors) /\ Ordered(Tail(ioQueue))
      /\ Len(Tail(ioQueue)) = Len(ioQueue) - 1
      /\ run = "sendInLoop" => Head(ioQueue).msg \in Msgs
      /\ \A r : Has(ioQueue, r) <=> Has(Tail(ioQueue), r) \/ r = run
      /\ ~Has(Tail(ioQueue), "connectEstablished")
      /\ run = "connectDestroyed" => ~Has(Tail(ioQueue), "connectDestroyed")
  BY <1>1, <1>2, <1>3, TailQueue
<1>5. batch' \in 0..Len(Tail(ioQueue))
  BY <1>1, <1>2, <1>4
<1>6. revents = {}
  BY <1>1 DEF ControlIInv, RoundIInv
<1>7. (run = "connectEstablished") <=> (state_ = "kConnecting")
  BY <1>1, <1>4 DEF ControlIInv, BirthIInv
<1> QED
  BY <1>1, <1>4, <1>5, <1>6, <1>7

LEMMA LoopSendKeeps ==
    ASSUME ControlIInv, DataIInv, LoopSend
    PROVE  ControlIInv' /\ DataIInv'
<1>1. /\ UNCHANGED <<state_, received, finSent, inbound, inMap, serverUp, baseQueue, batch, keeps,
                     loopAt, revents, frame, calls, holders, downs, destroyed>>
      /\ frame = "user" /\ state_ = "kConnected"
      /\ sends < MaxSends /\ sends' = sends + 1
      /\ SendInLoop(Bytes(sends'), ioQueue)
  BY DEF LoopSend, serverVars, loopVars
<1>2. /\ sends \in 0..MaxSends /\ MaxSends \in Nat
      /\ ioQueue \in Seq(Functors) /\ batch \in 0..Len(ioQueue) /\ Ordered(ioQueue)
  BY SizesAssumption DEF ControlIInv, TypeOK
<1>3. sends' \in Msgs /\ sends' \in 0..MaxSends
  BY <1>1, <1>2 DEF Msgs
<1> QED
  BY <1>1, <1>2, <1>3, SendsKeeps

LEMMA RunSendInLoopKeeps ==
    ASSUME ControlIInv, DataIInv, RunSendInLoop
    PROVE  ControlIInv' /\ DataIInv'
<1>1. /\ Runs("sendInLoop") /\ SendInLoop(Bytes(Head(ioQueue).msg), Tail(ioQueue))
      /\ UNCHANGED <<state_, finSent, inMap, serverUp, baseQueue, frame, calls, holders,
                     sends, downs, destroyed>>
  BY DEF RunSendInLoop, serverVars, userVars
<1> DEFINE t == Tail(ioQueue)
           msg == Head(ioQueue).msg
<1>2. /\ t \in Seq(Functors) /\ Ordered(t) /\ batch' \in 0..Len(t)
      /\ UNCHANGED <<keeps, loopAt, revents, received, inbound>>
      /\ msg \in Msgs
      /\ state_ # "kConnecting"
      /\ Has(t, "connectEstablished") <=> Has(ioQueue, "connectEstablished")
      /\ Has(t, "connectDestroyed") <=> Has(ioQueue, "connectDestroyed")
  BY <1>1, HeadRuns
<1>3. sends' \in 0..MaxSends /\ SendInLoop(Bytes(msg), t)
  BY <1>1 DEF ControlIInv, TypeOK
<1> HIDE DEF t, msg
<1> QED
  BY <1>1, <1>2, <1>3, SendsKeeps

LEMMA LoopShutdownKeeps ==
    ASSUME ControlIInv, DataIInv, LoopShutdown
    PROVE  ControlIInv' /\ DataIInv'
<1>1. /\ UNCHANGED <<index, events, outputBuffer_, sent, received, peer, inbound, inMap,
                     serverUp, baseQueue, ioQueue, batch, keeps, loopAt, revents, frame, calls,
                     holders, sends, accepted, downs, destroyed, faults>>
      /\ frame = "user" /\ state_ = "kConnected" /\ state_' = "kDisconnecting"
      /\ ShutdownInLoop(events)
  BY DEF LoopShutdown, channelVars, serverVars, loopVars, userVars, historyVars
<1>2. DataIInv' /\ finSent' \in BOOLEAN
  BY <1>1, ShutdownInLoopKeeps DEF ControlIInv
<1>3. TypeOK'
  BY <1>1, <1>2 DEF ControlIInv, TypeOK, States
<1>4. Ordered(ioQueue)'
  BY <1>1 DEF ControlIInv
<1>5. BirthIInv' /\ RoundIInv'
  BY <1>1 DEF ControlIInv, BirthIInv, RoundIInv
<1>6. CloseIInv' /\ TokenIInv' /\ MapIInv'
  BY <1>1 DEF ControlIInv, CloseIInv, TokenIInv, MapIInv
<1> QED
  BY <1>2, <1>3, <1>4, <1>5, <1>6 DEF ControlIInv

LEMMA RunDanglingKeeps ==
    ASSUME ControlIInv, DataIInv, RunDangling
    PROVE  ControlIInv' /\ DataIInv'
<1>1. PICK run \in Bare : Runs(run)
  BY DEF RunDangling
<1>2. /\ run # "connectEstablished" /\ run # "connectDestroyed"
      /\ ioQueue' = Tail(ioQueue)
      /\ UNCHANGED <<state_, index, events, outputBuffer_, sent, finSent, peer, inMap,
                     serverUp, baseQueue, frame, calls, holders, sends, accepted, downs,
                     destroyed>>
      /\ faults' = faults \cup {"useAfterFree"}
  BY DEF RunDangling, Bare, channelVars, serverVars, userVars
<1>3. /\ ioQueue' \in Seq(Functors) /\ Ordered(ioQueue') /\ batch' \in 0..Len(ioQueue')
      /\ UNCHANGED <<keeps, loopAt, revents, received, inbound>>
      /\ frame = "none" /\ state_ # "kConnecting"
      /\ ~Has(ioQueue', "connectEstablished")
      /\ Has(ioQueue', "connectDestroyed") <=> Has(ioQueue, "connectDestroyed")
  BY <1>1, <1>2, HeadRuns
<1>4. DataIInv'
  BY <1>2, <1>3, DataSame
<1>5. TypeOK'
  BY <1>2, <1>3 DEF ControlIInv, TypeOK
<1>6. BirthIInv' /\ RoundIInv'
  BY <1>2, <1>3 DEF ControlIInv, BirthIInv, RoundIInv
<1>7. CloseIInv' /\ TokenIInv' /\ MapIInv'
  BY <1>2, <1>3 DEF ControlIInv, CloseIInv, TokenIInv, MapIInv
<1> QED
  BY <1>3, <1>4, <1>5, <1>6, <1>7 DEF ControlIInv

LEMMA RunShutdownInLoopKeeps ==
    ASSUME ControlIInv, DataIInv, RunShutdownInLoop
    PROVE  ControlIInv' /\ DataIInv'
<1>1. /\ ioQueue' = Tail(ioQueue) /\ Runs("shutdownInLoop") /\ ShutdownInLoop(events)
      /\ UNCHANGED <<state_, index, events, outputBuffer_, sent, peer, inMap, serverUp,
                     baseQueue, frame, calls, holders, sends, accepted, downs, destroyed,
                     faults>>
  BY DEF RunShutdownInLoop, channelVars, serverVars, userVars, historyVars
<1>2. /\ ioQueue' \in Seq(Functors) /\ Ordered(ioQueue') /\ batch' \in 0..Len(ioQueue')
      /\ UNCHANGED <<keeps, loopAt, revents, received, inbound>>
      /\ frame = "none" /\ state_ # "kConnecting"
      /\ ~Has(ioQueue', "connectEstablished")
      /\ Has(ioQueue', "connectDestroyed") <=> Has(ioQueue, "connectDestroyed")
  BY <1>1, HeadRuns
<1>3. DataIInv' /\ finSent' \in BOOLEAN
  BY <1>1, <1>2, ShutdownInLoopKeeps DEF ControlIInv
<1>4. TypeOK'
  BY <1>1, <1>2, <1>3 DEF ControlIInv, TypeOK
<1>5. BirthIInv' /\ RoundIInv'
  BY <1>1, <1>2 DEF ControlIInv, BirthIInv, RoundIInv
<1>6. CloseIInv' /\ TokenIInv' /\ MapIInv'
  BY <1>1, <1>2 DEF ControlIInv, CloseIInv, TokenIInv, MapIInv
<1> QED
  BY <1>2, <1>3, <1>4, <1>5, <1>6 DEF ControlIInv

LEMMA RunConnectEstablishedKeeps ==
    ASSUME ControlIInv, DataIInv, RunConnectEstablished
    PROVE  ControlIInv' /\ DataIInv'
<1>1. /\ ioQueue' = Tail(ioQueue) /\ Runs("connectEstablished")
      /\ state_' = "kConnected" /\ frame' = "user" /\ holders' = Threads
      /\ events' = events \cup {"in"} /\ index' \in {kAdded, kDeleted}
      /\ UNCHANGED <<outputBuffer_, sent, finSent, peer, inMap, serverUp, baseQueue, calls,
                     sends, accepted, downs, destroyed, faults>>
  BY EventsDiffer DEF RunConnectEstablished, SetEvents, serverVars, historyVars
<1>2. /\ ioQueue' \in Seq(Functors) /\ Ordered(ioQueue') /\ batch' \in 0..Len(ioQueue')
      /\ UNCHANGED <<keeps, loopAt, revents, received, inbound>>
      /\ loopAt = "functors" /\ frame = "none" /\ revents = {} /\ state_ = "kConnecting"
      /\ ~Has(ioQueue', "connectEstablished")
      /\ Has(ioQueue', "connectDestroyed") <=> Has(ioQueue, "connectDestroyed")
  BY <1>1, HeadRuns
<1>3. DataIInv'
  BY <1>1, <1>2 DEF DataIInv, StreamIInv, StreamIntact, WatchesIffOutput, FinIsLast
<1>4. TypeOK'
  BY <1>1, <1>2, EventsDiffer DEF ControlIInv, TypeOK, States
<1>5. BirthIInv' /\ RoundIInv'
  BY <1>1, <1>2 DEF ControlIInv, BirthIInv, RoundIInv
<1>6. CloseIInv' /\ TokenIInv' /\ MapIInv'
  BY <1>1, <1>2 DEF ControlIInv, CloseIInv, TokenIInv, MapIInv
<1> QED
  BY <1>2, <1>3, <1>4, <1>5, <1>6 DEF ControlIInv

LEMMA RunUserCallbackKeeps ==
    ASSUME ControlIInv, DataIInv, RunUserCallback
    PROVE  ControlIInv' /\ DataIInv'
<1>1. PICK run \in {"writeComplete", "highWater"} : Runs(run)
  BY DEF RunUserCallback
<1>2. /\ ioQueue' = Tail(ioQueue) /\ frame' = "user"
      /\ UNCHANGED <<state_, index, events, outputBuffer_, sent, finSent, peer, inMap,
                     serverUp, baseQueue, calls, holders, sends, accepted, downs, destroyed,
                     faults>>
  BY DEF RunUserCallback, channelVars, serverVars, userVars, historyVars
<1>3. /\ ioQueue' \in Seq(Functors) /\ Ordered(ioQueue') /\ batch' \in 0..Len(ioQueue')
      /\ UNCHANGED <<keeps, loopAt, revents, received, inbound>>
      /\ loopAt = "functors" /\ frame = "none" /\ state_ # "kConnecting"
      /\ ~Has(ioQueue', "connectEstablished")
      /\ Has(ioQueue', "connectDestroyed") <=> Has(ioQueue, "connectDestroyed")
  BY <1>1, <1>2, HeadRuns
<1>4. DataIInv'
  BY <1>2, <1>3, DataSame
<1>5. TypeOK'
  BY <1>2, <1>3 DEF ControlIInv, TypeOK
<1>6. BirthIInv' /\ RoundIInv'
  BY <1>2, <1>3 DEF ControlIInv, BirthIInv, RoundIInv
<1>7. CloseIInv' /\ TokenIInv' /\ MapIInv'
  BY <1>2, <1>3 DEF ControlIInv, CloseIInv, TokenIInv, MapIInv
<1> QED
  BY <1>3, <1>4, <1>5, <1>6, <1>7 DEF ControlIInv

LEMMA RunConnectDestroyedKeeps ==
    ASSUME ControlIInv, DataIInv, RunConnectDestroyed
    PROVE  ControlIInv' /\ DataIInv'
<1>1. /\ ioQueue' = Tail(ioQueue) /\ Runs("connectDestroyed")
      /\ \/ /\ state_ = "kConnected" /\ frame' = "destroying"
            /\ UNCHANGED <<index, destroyed>>
         \/ /\ state_ # "kConnected" /\ index' = kNew /\ destroyed' = destroyed + 1
            /\ UNCHANGED frame
      /\ UNCHANGED <<state_, events, outputBuffer_, sent, finSent, peer, inMap, serverUp,
                     baseQueue, calls, holders, sends, accepted, downs, faults>>
  BY DEF RunConnectDestroyed, DestroyClosesFirst, serverVars, userVars
<1>2. /\ ioQueue' \in Seq(Functors) /\ Ordered(ioQueue') /\ batch' \in 0..Len(ioQueue')
      /\ UNCHANGED <<keeps, loopAt, revents, received, inbound>>
      /\ loopAt = "functors" /\ frame = "none" /\ revents = {} /\ state_ # "kConnecting"
      /\ ~Has(ioQueue', "connectEstablished")
      /\ Has(ioQueue, "connectDestroyed") /\ ~Has(ioQueue', "connectDestroyed")
  BY <1>1, HeadRuns
<1>3. ~inMap /\ destroyed = 0
  BY <1>2 DEF ControlIInv, TokenIInv
<1>4. DataIInv'
  BY <1>1, <1>2, <1>3, DataSame, DataEnds
<1>5. TypeOK'
  BY <1>1, <1>2, <1>3 DEF ControlIInv, TypeOK
<1>6. BirthIInv' /\ RoundIInv'
  BY <1>1, <1>2 DEF ControlIInv, BirthIInv, RoundIInv
<1>7. CloseIInv' /\ TokenIInv' /\ MapIInv'
  BY <1>1, <1>2, <1>3 DEF ControlIInv, CloseIInv, TokenIInv, MapIInv
<1> QED
  BY <1>2, <1>4, <1>5, <1>6, <1>7 DEF ControlIInv

LEMMA DestroyClosesKeeps ==
    ASSUME ControlIInv, DataIInv, DestroyCloses
    PROVE  ControlIInv' /\ DataIInv'
<1>1. /\ frame = "destroying" /\ frame' = "destroyed"
      /\ state_' = "kDisconnected" /\ events' = {} /\ index' \in {kAdded, kDeleted}
      /\ downs' = downs + 1
      /\ UNCHANGED <<outputBuffer_, sent, received, finSent, peer, inbound, inMap, serverUp,
                     baseQueue, ioQueue, batch, keeps, loopAt, revents, calls, holders, sends,
                     accepted, destroyed, faults>>
  BY EventsDiffer DEF DestroyCloses, SetEvents, kNoneEvent, socketVars, serverVars, userVars
<1>2. /\ downs = 0 /\ loopAt = "functors" /\ revents = {} /\ state_ # "kConnecting"
      /\ ~inMap /\ baseQueue = 0
  BY <1>1 DEF ControlIInv, CloseIInv, RoundIInv, BirthIInv, TokenIInv, MapIInv
<1>3. DataIInv'
  BY <1>1, <1>2, DataEnds
<1>4. TypeOK'
  BY <1>1, <1>2 DEF ControlIInv, TypeOK, States
<1>5. BirthIInv' /\ RoundIInv'
  BY <1>1, <1>2 DEF ControlIInv, BirthIInv, RoundIInv
<1>6. CloseIInv' /\ TokenIInv' /\ MapIInv'
  BY <1>1, <1>2 DEF ControlIInv, CloseIInv, TokenIInv, MapIInv
<1> QED
  BY <1>1, <1>3, <1>4, <1>5, <1>6 DEF ControlIInv

LEMMA DestroyRemovesKeeps ==
    ASSUME ControlIInv, DataIInv, DestroyRemoves
    PROVE  ControlIInv' /\ DataIInv'
<1>1. /\ frame = "destroyed" /\ frame' = "none"
      /\ index' = kNew /\ destroyed' = destroyed + 1
      /\ UNCHANGED <<state_, events, outputBuffer_, sent, received, finSent, peer, inbound,
                     inMap, serverUp, baseQueue, ioQueue, batch, keeps, loopAt, revents, calls,
                     holders, sends, accepted, downs, faults>>
  BY DEF DestroyRemoves, socketVars, serverVars, userVars
<1>2. /\ destroyed = 0 /\ loopAt = "functors" /\ revents = {} /\ state_ # "kConnecting"
      /\ ~inMap /\ ~Has(ioQueue, "connectDestroyed")
  BY <1>1 DEF ControlIInv, RoundIInv, BirthIInv, TokenIInv
<1>3. DataIInv'
  BY <1>1, <1>2, DataEnds
<1>4. TypeOK'
  BY <1>1, <1>2 DEF ControlIInv, TypeOK
<1>5. BirthIInv' /\ RoundIInv'
  BY <1>1, <1>2 DEF ControlIInv, BirthIInv, RoundIInv
<1>6. CloseIInv' /\ TokenIInv' /\ MapIInv'
  BY <1>1, <1>2 DEF ControlIInv, CloseIInv, TokenIInv, MapIInv
<1> QED
  BY <1>1, <1>3, <1>4, <1>5, <1>6 DEF ControlIInv

-----------------------------------------------------------------------------
(* The base loop, the user's threads and the peer.                         *)

\* What is queued from outside goes behind what the loop has begun with.
LEMMA Queues ==
    ASSUME ControlIInv, NEW f \in Functors, f.run # "connectEstablished",
           f.run = "sendInLoop" => f.msg \in Msgs,
           f.run = "connectDestroyed" => ~Has(ioQueue, "connectDestroyed"),
           ioQueue' = Append(ioQueue, f), batch' = batch
    PROVE  /\ ioQueue' \in Seq(Functors) /\ Ordered(ioQueue') /\ batch' \in 0..Len(ioQueue')
           /\ ioQueue # <<>> => ioQueue' # <<>> /\ Head(ioQueue') = Head(ioQueue)
           /\ Has(ioQueue', "connectEstablished") <=> Has(ioQueue, "connectEstablished")
           /\ Has(ioQueue', "connectDestroyed") <=>
                Has(ioQueue, "connectDestroyed") \/ f.run = "connectDestroyed"
<1>1. /\ ioQueue \in Seq(Functors) /\ Ordered(ioQueue) /\ batch \in 0..Len(ioQueue)
      /\ Len(ioQueue) \in Nat
  BY LenProperties DEF ControlIInv, TypeOK
<1>2. /\ ioQueue' \in Seq(Functors) /\ Ordered(ioQueue') /\ Len(ioQueue') = Len(ioQueue) + 1
      /\ \A run : Has(ioQueue', run) <=> Has(ioQueue, run) \/ run = f.run
      /\ ioQueue # <<>> => ioQueue' # <<>> /\ Head(ioQueue') = Head(ioQueue)
  BY <1>1, AppendQueue
<1> QED
  BY <1>1, <1>2

LEMMA RemoveConnectionInLoopKeeps ==
    ASSUME ControlIInv, DataIInv, RemoveConnectionInLoop
    PROVE  ControlIInv' /\ DataIInv'
<1> DEFINE f == Functor("connectDestroyed")
<1>1. /\ serverUp /\ baseQueue > 0 /\ baseQueue' = baseQueue - 1 /\ inMap' = FALSE
      /\ ioQueue' = Append(ioQueue, f)
      /\ UNCHANGED <<state_, index, events, outputBuffer_, sent, received, finSent, peer,
                     inbound, serverUp, batch, keeps, loopAt, revents, frame, calls, holders, sends,
                     accepted, downs, destroyed, faults>>
  BY DEF RemoveConnectionInLoop, channelVars, socketVars, loopVars, userVars, historyVars
<1>2. /\ baseQueue = 1 /\ baseQueue' = 0 /\ downs = 1 /\ frame # "closing" /\ inMap
      /\ ~Has(ioQueue, "connectDestroyed")
      /\ frame \notin {"destroying", "destroyed"} /\ destroyed = 0
  BY <1>1 DEF ControlIInv, MapIInv, TokenIInv
<1>3. f \in Functors /\ f.run = "connectDestroyed"
  BY DEF Functor, Functors, Owning
<1> HIDE DEF f
<1>4. /\ ioQueue' \in Seq(Functors) /\ Ordered(ioQueue') /\ batch' \in 0..Len(ioQueue')
      /\ ioQueue # <<>> => ioQueue' # <<>> /\ Head(ioQueue') = Head(ioQueue)
      /\ Has(ioQueue', "connectEstablished") <=> Has(ioQueue, "connectEstablished")
      /\ Has(ioQueue', "connectDestroyed")
  BY <1>1, <1>2, <1>3, Queues
<1>5. DataIInv'
  BY <1>1, DataSame
<1>6. TypeOK'
  BY <1>1, <1>2, <1>4 DEF ControlIInv, TypeOK
<1>7. BirthIInv' /\ RoundIInv'
  BY <1>1, <1>4 DEF ControlIInv, BirthIInv, RoundIInv
<1>8. CloseIInv' /\ TokenIInv' /\ MapIInv'
  BY <1>1, <1>2, <1>4 DEF ControlIInv, CloseIInv, TokenIInv, MapIInv
<1> QED
  BY <1>4, <1>5, <1>6, <1>7, <1>8 DEF ControlIInv

LEMMA DestroyServerKeeps ==
    ASSUME ControlIInv, DataIInv, DestroyServer
    PROVE  ControlIInv' /\ DataIInv'
<1> DEFINE f == Functor("connectDestroyed")
<1>1. /\ serverUp' = FALSE /\ inMap' = FALSE
      /\ ioQueue' = IF inMap THEN Append(ioQueue, f) ELSE ioQueue
      /\ UNCHANGED <<state_, index, events, outputBuffer_, sent, received, finSent, peer,
                     inbound, baseQueue, batch, keeps, loopAt, revents, frame, calls, holders, sends,
                     accepted, downs, destroyed, faults>>
  BY DEF DestroyServer, channelVars, socketVars, loopVars, userVars, historyVars
<1>2. f \in Functors /\ f.run = "connectDestroyed"
  BY DEF Functor, Functors, Owning
<1> HIDE DEF f
<1>3. /\ ioQueue' \in Seq(Functors) /\ Ordered(ioQueue') /\ batch' \in 0..Len(ioQueue')
      /\ ioQueue # <<>> => ioQueue' # <<>> /\ Head(ioQueue') = Head(ioQueue)
      /\ Has(ioQueue', "connectEstablished") <=> Has(ioQueue, "connectEstablished")
      /\ Has(ioQueue', "connectDestroyed") <=> Has(ioQueue, "connectDestroyed") \/ inMap
  <2>1. CASE inMap
    <3>1. ~Has(ioQueue, "connectDestroyed")
      BY <2>1 DEF ControlIInv, TokenIInv
    <3> QED
      BY <1>1, <1>2, <2>1, <3>1, Queues
  <2>2. CASE ~inMap
    BY <1>1, <2>2 DEF ControlIInv, TypeOK
  <2> QED
    BY <2>1, <2>2
<1>4. DataIInv'
  BY <1>1, DataSame
<1>5. TypeOK'
  BY <1>1, <1>3 DEF ControlIInv, TypeOK
<1>6. BirthIInv' /\ RoundIInv'
  BY <1>1, <1>3 DEF ControlIInv, BirthIInv, RoundIInv
<1>7. CloseIInv' /\ MapIInv'
  BY <1>1 DEF ControlIInv, CloseIInv, MapIInv
<1>8. TokenIInv'
  BY <1>1, <1>3 DEF ControlIInv, TokenIInv
<1> QED
  BY <1>3, <1>4, <1>5, <1>6, <1>7, <1>8 DEF ControlIInv

\* The calls of the user's threads up to where they queue something.
LEMMA CallsKeep ==
    ASSUME ControlIInv, DataIInv, NEW t \in Threads,
           Send(t) \/ Shutdown(t) \/ ShutdownSets(t) \/ Release(t)
    PROVE  ControlIInv' /\ DataIInv'
<1>1. /\ UNCHANGED <<index, events, outputBuffer_, sent, received, finSent, peer, inbound,
                     inMap, serverUp, baseQueue, ioQueue, batch, keeps, loopAt, revents, frame,
                     accepted, downs, destroyed, faults>>
      /\ state_' = state_ \/ state_' = "kDisconnecting"
      /\ holders' \subseteq holders
  BY DEF Send, Shutdown, ShutdownSets, Release, CallGoes, channelVars, socketVars,
         serverVars, loopVars, historyVars
<1>2. sends \in 0..MaxSends /\ MaxSends \in Nat /\ holders \subseteq Threads /\ state_ \in States
  BY SizesAssumption DEF ControlIInv, TypeOK
<1>3. sends' \in 0..MaxSends
  BY <1>2 DEF Send, Shutdown, ShutdownSets, Release, CallGoes
<1> DEFINE C == {Idle, At("shutdown"), At("shutdownSet")} \cup {Sending(msg) : msg \in Msgs}
<1>4. (calls' \in [Threads -> C] /\ state_ # "kConnecting") \/ UNCHANGED <<calls, state_>>
  <2>1. calls \in [Threads -> C]
    BY DEF ControlIInv, TypeOK
  <2>2. CASE Send(t)
    <3>1. /\ sends' \in Msgs /\ state_ = "kConnected"
          /\ calls' = [calls EXCEPT ![t] = Sending(sends')]
      BY <1>2, <2>2 DEF Send, CallGoes, Msgs
    <3> QED
      BY <2>1, <3>1
  <2>3. CASE Shutdown(t)
    BY <2>1, <2>3 DEF Shutdown, CallGoes
  <2>4. CASE ShutdownSets(t)
    <3>1. At("shutdown") # Idle
      BY DEF At, Idle
    <3>2. state_ # "kConnecting"
      BY <2>4, <3>1 DEF ShutdownSets, CallGoes, ControlIInv, BirthIInv
    <3> QED
      BY <2>1, <2>4, <3>2 DEF ShutdownSets, CallGoes
  <2>5. CASE Release(t)
    BY <2>5 DEF Release
  <2> QED
    BY <2>2, <2>3, <2>4, <2>5
<1>5. DataIInv'
  BY <1>1, DataSame
<1>6. TypeOK'
  <2>1. calls' \in [Threads -> C]
    BY <1>4 DEF ControlIInv, TypeOK
  <2>2. holders' \subseteq Threads /\ state_' \in States
    BY <1>1, <1>2 DEF States
  <2> QED
    BY <1>1, <1>3, <2>1, <2>2 DEF ControlIInv, TypeOK
<1> HIDE DEF C
<1>7. state_' = "kConnecting" => state_ = "kConnecting" /\ calls' = calls
  BY <1>1, <1>4
<1>8. Has(ioQueue, "connectEstablished") => state_' = "kConnecting"
  <2>1. Has(ioQueue, "connectEstablished") => state_ = "kConnecting"
    BY DEF ControlIInv, BirthIInv
  <2> QED
    BY <1>4, <2>1
<1>9. BirthIInv'
  BY <1>1, <1>7, <1>8 DEF ControlIInv, BirthIInv
<1>10. Ordered(ioQueue)' /\ RoundIInv'
  BY <1>1 DEF ControlIInv, RoundIInv
<1>11. CloseIInv'
  <2>1. state_' \in {"kConnecting", "kConnected"} => state_' = state_
    BY <1>1
  <2> QED
    BY <1>1, <2>1 DEF ControlIInv, CloseIInv
<1>12. TokenIInv' /\ MapIInv'
  BY <1>1 DEF ControlIInv, TokenIInv, MapIInv
<1> QED
  BY <1>5, <1>6, <1>9, <1>10, <1>11, <1>12 DEF ControlIInv

\* queueInLoop, at the end of the calls.
LEMMA CallQueuesKeeps ==
    ASSUME ControlIInv, DataIInv, NEW t \in Threads, SendQueues(t) \/ ShutdownQueues(t)
    PROVE  ControlIInv' /\ DataIInv'
<1>1. /\ UNCHANGED <<state_, index, events, outputBuffer_, sent, received, finSent, peer,
                     inbound, inMap, serverUp, baseQueue, batch, keeps, loopAt, revents, frame,
                     holders, sends, accepted, downs, destroyed, faults>>
      /\ calls' = [calls EXCEPT ![t] = Idle]
  BY DEF SendQueues, ShutdownQueues, CallGoes, channelVars, socketVars, serverVars, loopVars,
         historyVars
<1>2. PICK f \in Functors : /\ f.run \in Bare /\ (f.run = "sendInLoop" => f.msg \in Msgs)
                            /\ ioQueue' = Append(ioQueue, f)
  <2>1. CASE SendQueues(t)
    <3>1. PICK msg \in Msgs : ioQueue' = Append(ioQueue, [run |-> "sendInLoop", msg |-> msg])
      BY <2>1 DEF SendQueues
    <3>2. [run |-> "sendInLoop", msg |-> msg] \in Functors
      BY DEF Functors, Bare
    <3> QED
      BY <3>1, <3>2 DEF Bare
  <2>2. CASE ShutdownQueues(t)
    <3>1. ioQueue' = Append(ioQueue, Functor("shutdownInLoop"))
      BY <2>2 DEF ShutdownQueues
    <3>2. Functor("shutdownInLoop") \in Functors /\ Functor("shutdownInLoop").run = "shutdownInLoop"
      BY DEF Functor, Functors, Bare
    <3> QED
      BY <3>1, <3>2 DEF Bare
  <2> QED
    BY <2>1, <2>2
<1>3. /\ ioQueue' \in Seq(Functors) /\ Ordered(ioQueue') /\ batch' \in 0..Len(ioQueue')
      /\ ioQueue # <<>> => ioQueue' # <<>> /\ Head(ioQueue') = Head(ioQueue)
      /\ Has(ioQueue', "connectEstablished") <=> Has(ioQueue, "connectEstablished")
      /\ Has(ioQueue', "connectDestroyed") <=> Has(ioQueue, "connectDestroyed")
  <2>1. f.run # "connectEstablished" /\ f.run # "connectDestroyed" /\ batch' = batch
    BY <1>1, <1>2 DEF Bare
  <2> QED
    BY <1>2, <2>1, Queues
<1>4. DataIInv'
  BY <1>1, DataSame
<1>5. TypeOK'
  BY <1>1, <1>3 DEF ControlIInv, TypeOK
<1>6. BirthIInv'
  <2>1. (\A u \in Threads : calls[u] = Idle) => (\A u \in Threads : calls'[u] = Idle)
    BY <1>1 DEF ControlIInv, TypeOK
  <2> QED
    BY <1>1, <1>3, <2>1 DEF ControlIInv, BirthIInv
<1>7. RoundIInv' /\ CloseIInv'
  BY <1>1 DEF ControlIInv, RoundIInv, CloseIInv
<1>8. TokenIInv' /\ MapIInv'
  BY <1>1, <1>3 DEF ControlIInv, TokenIInv, MapIInv
<1> QED
  BY <1>3, <1>4, <1>5, <1>6, <1>7, <1>8 DEF ControlIInv

LEMMA PeerKeeps ==
    ASSUME ControlIInv, DataIInv, PeerSends \/ PeerReads \/ PeerCloses \/ PeerResets
    PROVE  ControlIInv' /\ DataIInv'
<1>1. UNCHANGED <<state_, index, events, outputBuffer_, finSent, inMap, serverUp, baseQueue,
                  ioQueue, batch, keeps, loopAt, revents, frame, calls, holders, sends, accepted,
                  downs, destroyed, faults>>
  BY DEF PeerSends, PeerReads, PeerCloses, PeerResets, PeerActs, channelVars, serverVars,
         loopVars, userVars, historyVars
<1>2. /\ received \in Seq(Byte) /\ sent \in Seq(Byte) /\ outputBuffer_ \in Seq(Byte)
      /\ accepted \in Seq(Byte) /\ Len(sent) <= SendRoom /\ inbound \in BOOLEAN
  BY DEF ControlIInv, TypeOK
<1>3. WatchesIffOutput' /\ FinIsLast'
  BY <1>1 DEF DataIInv, WatchesIffOutput, FinIsLast
<1>4. /\ received' \in Seq(Byte) /\ sent' \in Seq(Byte) /\ Len(sent') <= SendRoom
      /\ inbound' \in BOOLEAN /\ peer' \in {"open", "halfClosed", "reset", "gone"}
      /\ StreamIInv'
  <2>1. CASE PeerSends \/ PeerCloses
    <3>1. /\ UNCHANGED <<received, sent>> /\ inbound' \in BOOLEAN
          /\ peer' \in {"open", "halfClosed"} /\ peer \in {"open", "halfClosed"}
      BY <1>2, <2>1 DEF PeerSends, PeerCloses
    <3> QED
      BY <1>1, <1>2, <3>1 DEF DataIInv, StreamIInv, StreamIntact
  <2>2. CASE PeerResets
    <3>1. UNCHANGED <<received, inbound>> /\ sent' = <<>> /\ peer' = "reset"
      BY <2>2 DEF PeerResets
    <3>2. <<>> \in Seq(Byte) /\ Len(<<>>) <= SendRoom
      BY SizesAssumption
    <3> QED
      BY <1>1, <1>2, <3>1, <3>2 DEF DataIInv, StreamIInv, StreamIntact
  <2>3. CASE PeerReads
    <3>1. /\ sent # <<>> /\ peer \in {"open", "halfClosed"} /\ UNCHANGED <<peer, inbound>>
          /\ received' = Append(received, Head(sent)) /\ sent' = Tail(sent)
      BY <2>3 DEF PeerReads
    <3>2. /\ received' \in Seq(Byte) /\ sent' \in Seq(Byte) /\ Len(sent') = Len(sent) - 1
          /\ Whole(received', sent', outputBuffer_) = Whole(received, sent, outputBuffer_)
      BY <1>2, <3>1, StreamRead
    <3>3. received \o sent \o outputBuffer_ = accepted
      BY <3>1 DEF DataIInv, StreamIInv, StreamIntact
    <3>4. Whole(received', sent', outputBuffer_) = accepted
      BY <3>2, <3>3, WholeIs
    \* accepted begins with what was received.
    <3>5. SubSeq(accepted, 1, Len(received')) = received' /\ Len(received') <= Len(accepted)
      <4>1. /\ Cat(sent', outputBuffer_) \in Seq(Byte)
            /\ Cat(received', Cat(sent', outputBuffer_)) = accepted
        BY <1>2, <3>2, <3>4, CatLaws, CatAssociates DEF Whole
      <4>2. Len(accepted) = Len(received') + Len(Cat(sent', outputBuffer_))
        BY <3>2, <4>1, CatLaws
      <4> QED
        BY <3>2, <4>1, <4>2, Prefix, LenProperties
    <3>6. received' \o sent' \o outputBuffer_' = accepted'
      BY <1>1, <3>4, WholeIs
    <3>7. Len(sent') <= SendRoom
      BY <1>2, <3>2, LenProperties, SizesAssumption
    <3> QED
      BY <1>1, <1>2, <3>1, <3>2, <3>5, <3>6, <3>7 DEF StreamIInv, StreamIntact
  <2> QED
    BY <2>1, <2>2, <2>3
<1>5. TypeOK'
  BY <1>1, <1>4 DEF ControlIInv, TypeOK
<1>6. Ordered(ioQueue)' /\ BirthIInv' /\ RoundIInv' /\ CloseIInv' /\ TokenIInv' /\ MapIInv'
  BY <1>1 DEF ControlIInv, BirthIInv, RoundIInv, CloseIInv, TokenIInv, MapIInv
<1> QED
  BY <1>3, <1>4, <1>5, <1>6 DEF ControlIInv, DataIInv

-----------------------------------------------------------------------------
(* The invariant.                                                          *)

LEMMA InitInvariant == Init => IInv
<1> SUFFICES ASSUME Init PROVE IInv
  OBVIOUS
<1> DEFINE f == Functor("connectEstablished")
<1>1. /\ f \in Functors /\ f.run = "connectEstablished" /\ f.run # "connectDestroyed"
      /\ f.run # "sendInLoop"
  BY DEF f, Functor, Functors, Owning
<1>2. ioQueue = <<f>>
  BY DEF Init
<1> HIDE DEF f
<1>3. /\ ioQueue \in Seq(Functors) /\ Len(ioQueue) = 1 /\ ioQueue # <<>>
      /\ Head(ioQueue) = f /\ ioQueue[1] = f
  BY <1>1, <1>2
<1>4. /\ Ordered(ioQueue) /\ Has(ioQueue, "connectEstablished")
      /\ ~Has(ioQueue, "connectDestroyed")
  BY <1>1, <1>3 DEF Ordered, Has
<1>5. TypeOK
  <2>1. calls \in [Threads -> {Idle, At("shutdown"), At("shutdownSet")}
                              \cup {Sending(msg) : msg \in Msgs}]
    BY DEF Init
  <2>2. /\ outputBuffer_ \in Seq(Byte) /\ sent \in Seq(Byte) /\ received \in Seq(Byte)
        /\ accepted \in Seq(Byte) /\ Len(sent) <= SendRoom /\ sends \in 0..MaxSends
        /\ batch \in 0..Len(ioQueue)
    BY <1>3, SizesAssumption DEF Init
  <2> QED
    BY <1>3, <2>1, <2>2 DEF Init, TypeOK, States, kNoneEvent
<1>6. BirthIInv
  BY <1>1, <1>3, <1>4 DEF Init, BirthIInv
<1>7. RoundIInv /\ CloseIInv /\ TokenIInv /\ MapIInv
  BY <1>4 DEF Init, RoundIInv, CloseIInv, TokenIInv, MapIInv, kNoneEvent
<1>8. StreamIInv
  <2>1. Len(received) = 0 /\ Len(accepted) = 0
    BY DEF Init
  <2>2. SubSeq(accepted, 1, Len(received)) = received
    BY <2>1, SubSeqEmpty DEF Init
  <2>3. received \o sent \o outputBuffer_ = accepted
    BY DEF Init
  <2> QED
    BY <2>1, <2>2, <2>3 DEF StreamIInv, StreamIntact
<1>9. WatchesIffOutput /\ FinIsLast
  BY DEF Init, WatchesIffOutput, FinIsLast, kNoneEvent
<1> QED
  BY <1>4, <1>5, <1>6, <1>7, <1>8, <1>9 DEF IInv, ControlIInv

LEMMA NextInvariant == IInv /\ [Next]_vars => IInv'
<1> SUFFICES ASSUME ControlIInv, DataIInv, [Next]_vars PROVE ControlIInv' /\ DataIInv'
  BY DEF IInv, DataIInv
<1>1. CASE Poll \/ HandleEvent \/ Swap \/ FunctorsDone \/ CallbackReturns
  BY <1>1, PhaseKeeps
<1>2. CASE HandleReadMessage \/ HandleReadError \/ HandleWriteNothing
  BY <1>2, HandlesNothingKeeps
<1>3. CASE HandleClose
  BY <1>3, HandleCloseKeeps
<1>4. CASE CloseCallback
  BY <1>4, CloseCallbackKeeps
<1>5. CASE HandleWrite
  BY <1>5, HandleWriteKeeps
<1>6. CASE LoopSend
  BY <1>6, LoopSendKeeps
<1>7. CASE LoopShutdown
  BY <1>7, LoopShutdownKeeps
<1>8. CASE RunDangling
  BY <1>8, RunDanglingKeeps
<1>9. CASE RunSendInLoop
  BY <1>9, RunSendInLoopKeeps
<1>10. CASE RunShutdownInLoop
  BY <1>10, RunShutdownInLoopKeeps
<1>11. CASE RunConnectEstablished
  BY <1>11, RunConnectEstablishedKeeps
<1>12. CASE RunUserCallback
  BY <1>12, RunUserCallbackKeeps
<1>13. CASE RunConnectDestroyed
  BY <1>13, RunConnectDestroyedKeeps
<1>14. CASE DestroyCloses
  BY <1>14, DestroyClosesKeeps
<1>15. CASE DestroyRemoves
  BY <1>15, DestroyRemovesKeeps
<1>16. CASE RemoveConnectionInLoop
  BY <1>16, RemoveConnectionInLoopKeeps
<1>17. CASE DestroyServer
  BY <1>17, DestroyServerKeeps
<1>18. ASSUME NEW t \in Threads, Send(t) \/ Shutdown(t) \/ CallStep(t) \/ Release(t)
       PROVE  ControlIInv' /\ DataIInv'
  <2>1. CASE Send(t) \/ Shutdown(t) \/ ShutdownSets(t) \/ Release(t)
    BY <2>1, CallsKeep
  <2>2. CASE SendQueues(t) \/ ShutdownQueues(t)
    BY <2>2, CallQueuesKeeps
  <2> QED
    BY <1>18, <2>1, <2>2 DEF CallStep
<1>19. CASE PeerSends \/ PeerReads \/ PeerCloses \/ PeerResets
  BY <1>19, PeerKeeps
<1>20. CASE UNCHANGED vars
  <2>1. UNCHANGED <<state_, index, events, outputBuffer_, sent, received, finSent, peer,
                    inbound, inMap, serverUp, baseQueue, ioQueue, batch, keeps, loopAt, revents,
                    frame, calls, holders, sends, accepted, downs, destroyed, faults>>
    BY <1>20 DEF vars, channelVars, socketVars, serverVars, loopVars, userVars, historyVars
  <2>2. DataIInv'
    BY <2>1, DataSame
  <2>3. TypeOK' /\ Ordered(ioQueue)'
    BY <2>1 DEF ControlIInv, TypeOK
  <2>4. BirthIInv' /\ RoundIInv' /\ CloseIInv' /\ TokenIInv' /\ MapIInv'
    BY <2>1 DEF ControlIInv, BirthIInv, RoundIInv, CloseIInv, TokenIInv, MapIInv
  <2> QED
    BY <2>2, <2>3, <2>4 DEF ControlIInv
<1> QED
  BY <1>1, <1>2, <1>3, <1>4, <1>5, <1>6, <1>7, <1>8, <1>9, <1>10, <1>11, <1>12, <1>13,
     <1>14, <1>15, <1>16, <1>17, <1>18, <1>19, <1>20
     DEF Next, LoopStep, DispatchStep, FunctorStep

LEMMA Invariant == Spec => []IInv
  BY InitInvariant, NextInvariant, PTL DEF Spec

-----------------------------------------------------------------------------
(* Theorems.                                                               *)

\* Every variable keeps its type; among them, the loop never counts more functors in its
\* batch than the queue holds, and the socket never holds more than its buffer has room
\* for.
THEOREM TypeCorrect == Spec => []TypeOK
<1>1. IInv => TypeOK
  BY DEF IInv, ControlIInv
<1> QED
  BY <1>1, Invariant, PTL

\* handleClose and connectDestroyed tell the user of the end of a connection at most once
\* between them, and connectDestroyed takes the channel out of the poller at most once
\* (TcpConnection.cpp:183-196, 272-285).
THEOREM EndsOnce == Spec => []ClosedOnce
<1>1. IInv => ClosedOnce
  BY DEF IInv, ControlIInv, CloseIInv, TokenIInv, ClosedOnce
<1> QED
  BY <1>1, Invariant, PTL

\* What sendInLoop accepts reaches the peer whole and in order, by whatever partial
\* writes it gets there (TcpConnection.cpp:69-154, 233-268).
THEOREM StreamArrives == Spec => []StreamIntact
<1>1. IInv => StreamIntact
  BY DEF IInv, StreamIInv
<1> QED
  BY <1>1, Invariant, PTL

\* The channel watches for room exactly while there is output
\* (TcpConnection.cpp:149-151, 243-246).
THEOREM WatchesOutput == Spec => []WatchesIffOutput
<1>1. IInv => WatchesIffOutput
  BY DEF IInv
<1> QED
  BY <1>1, Invariant, PTL

\* shutdownInLoop does not overtake the output (TcpConnection.cpp:221-229).
THEOREM FinFollowsOutput == Spec => []FinIsLast
<1>1. IInv => FinIsLast
  BY DEF IInv
<1> QED
  BY <1>1, Invariant, PTL

\* Until connectDestroyed has removed the channel from the poller, a shared_ptr keeps the
\* connection: the map's, or the one bound to connectDestroyed (TcpServer.cpp:119-126).
THEOREM PollerSafe == Spec => []PollerPointsToAlive
<1>1. IInv => PollerPointsToAlive
  <2> SUFFICES ASSUME IInv, destroyed = 0 PROVE Alive
    BY DEF PollerPointsToAlive
  <2>1. \/ inMap \/ Has(ioQueue, "connectDestroyed")
        \/ frame \in {"destroying", "destroyed"}
    BY DEF IInv, ControlIInv, TokenIInv
  <2> QED
    BY <2>1 DEF Alive, Has, Owning
<1> QED
  BY <1>1, Invariant, PTL

\* Once connectionCallback_ has told of the end, handleRead does not come to
\* messageCallback_ any more, whatever handleClose or connectDestroyed leave in the poller
\* and whatever late calls of send and shutdown do to state_ and to the channel
\* (TcpConnection.cpp:185-190, 214-217, 270-279).
THEOREM SilentAfterDown == Spec => NoMessageAfterDown
<1>1. IInv /\ [Next]_vars => [(downs > 0 /\ inbound) => inbound']_vars
  <2> SUFFICES ASSUME IInv, Next, downs > 0, inbound PROVE inbound'
    OBVIOUS
  <2>1. "in" \notin revents
    BY DEF IInv, ControlIInv, CloseIInv
  <2>2. CASE LoopStep
    <3>1. CASE DispatchStep
      <4>1. ~HandlesRead
        BY <2>1 DEF HandlesRead
      <4>2. CASE HandleWriteNothing \/ HandleWrite
        BY <4>2 DEF HandleWriteNothing, HandleWrite, HandlesWrite
      <4>3. CASE CloseCallback
        BY <4>3 DEF CloseCallback, socketVars
      <4> QED
        BY <3>1, <4>1, <4>2, <4>3 DEF DispatchStep, HandleReadMessage, HandleReadError,
                                      HandleClose
    <3>2. CASE FunctorStep
      BY <3>2 DEF FunctorStep, RunDangling, RunSendInLoop, RunShutdownInLoop,
                  RunConnectEstablished, RunUserCallback, RunConnectDestroyed, Runs,
                  DestroyCloses, DestroyRemoves, socketVars
    <3>3. CASE Poll \/ HandleEvent \/ Swap \/ FunctorsDone \/ CallbackReturns
      BY <3>3 DEF Poll, HandleEvent, Swap, FunctorsDone, CallbackReturns, socketVars
    <3> QED
      BY <2>2, <3>1, <3>2, <3>3 DEF LoopStep
  <2>3. CASE LoopSend \/ LoopShutdown \/ RemoveConnectionInLoop \/ DestroyServer
    BY <2>3 DEF LoopSend, LoopShutdown, RemoveConnectionInLoop, DestroyServer, socketVars
  <2>4. ASSUME NEW t \in Threads, Send(t) \/ Shutdown(t) \/ CallStep(t) \/ Release(t)
        PROVE  inbound'
    BY <2>4 DEF Send, Shutdown, CallStep, SendQueues, ShutdownSets, ShutdownQueues, Release,
                CallGoes, socketVars
  <2>5. CASE PeerSends \/ PeerReads \/ PeerCloses \/ PeerResets
    BY <2>5 DEF PeerSends, PeerReads, PeerCloses, PeerResets
  <2> QED
    BY <2>2, <2>3, <2>4, <2>5 DEF Next
<1> QED
  BY <1>1, Invariant, PTL DEF Spec, NoMessageAfterDown

-----------------------------------------------------------------------------
(* A connection that its users keep until their calls were executed.       *)

\* The queue, or what its head leaves of it, gets at most a functor with a shared_ptr.
QueueOwns ==
    \/ ioQueue' = ioQueue
    \/ ioQueue' = Tail(ioQueue) /\ ioQueue # <<>>
    \/ \E run \in Owning : ioQueue' = Append(ioQueue, Functor(run))
    \/ \E run \in Owning : ioQueue' = Append(Tail(ioQueue), Functor(run)) /\ ioQueue # <<>>

LEMMA BareAppend ==
    ASSUME NEW q \in Seq(Functors), NEW f \in Functors, NEW run, Has(Append(q, f), run)
    PROVE  Has(q, run) \/ run = f.run
<1> DEFINE p == Append(q, f)
<1>1. /\ Len(p) = Len(q) + 1 /\ Len(q) \in Nat /\ p[Len(q) + 1] = f
      /\ \A i \in 1..Len(q) : p[i] = q[i]
  BY AppendProperties, LenProperties
<1> HIDE DEF p
<1>2. PICK i \in 1..Len(p) : p[i].run = run
  BY DEF Has, p
<1>3. i \in 1..Len(q) \/ i = Len(q) + 1
  BY <1>1
<1> QED
  BY <1>1, <1>2, <1>3 DEF Has

LEMMA BareQueue ==
    ASSUME ControlIInv, QueueOwns
    PROVE  \A run \in Bare : Has(ioQueue', run) => Has(ioQueue, run)
<1> SUFFICES ASSUME NEW run \in Bare, Has(ioQueue', run)
             PROVE  Has(ioQueue, run)
  OBVIOUS
<1>1. ioQueue \in Seq(Functors) /\ Ordered(ioQueue)
  BY DEF ControlIInv, TypeOK
<1>2. ioQueue # <<>> =>
        /\ Tail(ioQueue) \in Seq(Functors)
        /\ Has(Tail(ioQueue), run) => Has(ioQueue, run)
  BY <1>1, TailQueue
<1>3. ASSUME NEW r \in Owning, NEW q \in Seq(Functors), ioQueue' = Append(q, Functor(r))
      PROVE  Has(q, run)
  <2> DEFINE f == Functor(r)
  <2>1. f \in Functors /\ f.run # run
    BY DEF Functor, Functors, Owning, Bare
  <2>2. Has(Append(q, f), run)
    BY <1>3
  <2> HIDE DEF f
  <2> QED
    BY <2>1, <2>2, BareAppend
<1> QED
  BY <1>1, <1>2, <1>3 DEF QueueOwns

\* sendInLoop queues nothing but callbacks.
LEMMA SendQueueOwns ==
    ASSUME NEW data, NEW queue, SendInLoop(data, queue)
    PROVE  \/ ioQueue' = queue
           \/ \E run \in Owning : ioQueue' = Append(queue, Functor(run))
<1>1. "writeComplete" \in Owning /\ "highWater" \in Owning
  BY DEF Owning
<1> QED
  BY <1>1 DEF SendInLoop, BufferRest

\* What holds besides if users keep their references until their calls were executed:
\* whoever is in a call, or has one queued, has the connection held.
UsedIInv ==
    /\ loopAt = "active" => index # kNew
    /\ \A t \in Threads : calls[t] # Idle => t \in holders
    /\ \A run \in Bare : Has(ioQueue, run) => holders # {}

LEMMA UsedInit == Init => UsedIInv
<1> SUFFICES ASSUME Init PROVE UsedIInv
  OBVIOUS
<1>1. \A run \in Bare : ~Has(ioQueue, run)
  <2>1. /\ Len(ioQueue) = 1 /\ ioQueue[1].run = "connectEstablished"
    BY DEF Init, Functor
  <2> QED
    BY <2>1 DEF Has, Bare
<1> QED
  BY <1>1 DEF Init, UsedIInv

\* A step of anyone but the users' threads.
LEMMA UsedSame ==
    ASSUME ControlIInv, UsedIInv, QueueOwns, calls' = calls, holders' = holders,
           loopAt' = "active" => index' # kNew
    PROVE  UsedIInv'
  BY BareQueue DEF UsedIInv

LEMMA UsedThreads ==
    ASSUME ControlIInv, UsedIInv, KeepsReferences, NEW t \in Threads,
           Send(t) \/ Shutdown(t) \/ CallStep(t) \/ Release(t)
    PROVE  UsedIInv'
<1>1. /\ UNCHANGED <<loopAt, index>>
      /\ ioQueue \in Seq(Functors) /\ calls \in [Threads -> Range(calls)]
  BY DEF ControlIInv, TypeOK, Send, Shutdown, CallStep, SendQueues, ShutdownSets, ShutdownQueues,
         Release, CallGoes, channelVars, loopVars, Range
<1>2. CASE Release(t)
  <2>1. /\ holders' = holders \ {t} /\ calls[t] = Idle
        /\ UNCHANGED <<calls, ioQueue>>
        /\ \A run \in Bare : ~Has(ioQueue, run)
    BY <1>2 DEF Release, Has
  <2> QED
    BY <1>1, <2>1 DEF UsedIInv
<1>3. CASE Send(t) \/ Shutdown(t) \/ CallStep(t)
  <2>1. /\ t \in holders /\ holders' = holders
        /\ \A u \in Threads : u # t => calls'[u] = calls[u]
    <3>1. At("shutdown") # Idle /\ At("shutdownSet") # Idle /\ \A msg : Sending(msg) # Idle
      BY DEF At, Sending, Idle
    <3>2. t \in holders
      BY <1>3, <3>1 DEF Send, Shutdown, CallStep, SendQueues, ShutdownSets, ShutdownQueues,
                        CallGoes, UsedIInv
    <3> QED
      BY <1>1, <1>3, <3>2 DEF Send, Shutdown, CallStep, SendQueues, ShutdownSets,
                              ShutdownQueues, CallGoes
  <2> QED
    BY <1>1, <2>1 DEF UsedIInv
<1> QED
  BY <1>2, <1>3

LEMMA UsedStep == IInv /\ UsedIInv /\ KeepsReferences /\ [Next]_vars => UsedIInv'
<1> SUFFICES ASSUME IInv, UsedIInv, KeepsReferences, [Next]_vars PROVE UsedIInv'
  OBVIOUS
<1>1. ControlIInv /\ TypeOK /\ RoundIInv
  BY DEF IInv, ControlIInv
<1>2. loopAt = "active" => index # kNew
  BY DEF UsedIInv
<1>3. CASE Poll \/ HandleEvent \/ Swap \/ FunctorsDone \/ CallbackReturns
  <2>1. Active => index # kNew
    BY EventsDiffer DEF Active
  <2>2. UNCHANGED <<index, calls, holders, ioQueue>> /\ (loopAt' = "active" => index # kNew)
    BY <1>2, <1>3, <2>1 DEF Poll, HandleEvent, Swap, FunctorsDone, CallbackReturns, channelVars,
                            userVars
  <2> QED
    BY <1>1, <2>2, UsedSame DEF QueueOwns
<1>4. CASE HandleReadMessage \/ HandleReadError \/ HandleClose \/ HandleWriteNothing \/ CloseCallback
  <2>1. UNCHANGED <<calls, holders, ioQueue, loopAt>> /\ loopAt # "active"
    BY <1>1, <1>4 DEF HandleReadMessage, HandleReadError, HandleClose, HandleWriteNothing,
                      CloseCallback, HandlesRead, HandlesWrite, RoundIInv, userVars
  <2> QED
    BY <1>1, <2>1, UsedSame DEF QueueOwns
<1>5. CASE HandleWrite
  <2>1. UNCHANGED <<calls, holders, loopAt>> /\ loopAt = "dispatch"
    BY <1>5 DEF HandleWrite, HandlesWrite, userVars
  <2>2. ioQueue' = ioQueue \/ ioQueue' = Append(ioQueue, Functor("writeComplete"))
    BY <1>5 DEF HandleWrite, Drained
  <2>3. QueueOwns
    BY <2>2 DEF QueueOwns, Owning
  <2> QED
    BY <1>1, <2>1, <2>3, UsedSame
<1>6. CASE LoopSend
  <2>1. /\ UNCHANGED <<calls, holders, loopAt>> /\ frame = "user"
        /\ SendInLoop(Bytes(sends'), ioQueue)
    BY <1>6 DEF LoopSend, loopVars
  <2>2. QueueOwns
    BY <2>1, SendQueueOwns DEF QueueOwns
  <2> QED
    BY <1>1, <2>1, <2>2, UsedSame DEF RoundIInv
<1>7. CASE LoopShutdown
  <2>1. UNCHANGED <<calls, holders, loopAt, ioQueue, index>>
    BY <1>7 DEF LoopShutdown, loopVars, userVars, channelVars
  <2> QED
    BY <1>1, <1>2, <2>1, UsedSame DEF QueueOwns
\* The functors.
<1>8. ASSUME NEW run, Runs(run)
      PROVE  loopAt' = "functors" /\ ioQueue # <<>>
  <2>1. batch > 0 /\ batch \in 0..Len(ioQueue) /\ ioQueue \in Seq(Functors)
    BY <1>1, <1>8 DEF TypeOK, Runs
  <2> QED
    BY <1>8, <2>1, EmptySeq DEF Runs
<1>9. CASE RunDangling \/ RunShutdownInLoop \/ RunUserCallback \/ RunConnectDestroyed
  <2>1. /\ UNCHANGED <<calls, holders>> /\ ioQueue' = Tail(ioQueue)
        /\ \E run : Runs(run)
    BY <1>9 DEF RunDangling, RunShutdownInLoop, RunUserCallback, RunConnectDestroyed, userVars
  <2> QED
    BY <1>1, <1>8, <2>1, UsedSame DEF QueueOwns
<1>10. CASE RunSendInLoop
  <2>1. /\ UNCHANGED <<calls, holders>> /\ Runs("sendInLoop")
        /\ SendInLoop(Bytes(Head(ioQueue).msg), Tail(ioQueue))
    BY <1>10 DEF RunSendInLoop, userVars
  <2>2. QueueOwns
    BY <1>8, <2>1, SendQueueOwns DEF QueueOwns
  <2> QED
    BY <1>1, <1>8, <2>1, <2>2, UsedSame
<1>11. CASE RunConnectEstablished
  <2>1. /\ calls' = calls /\ holders' = Threads /\ ioQueue' = Tail(ioQueue)
        /\ Runs("connectEstablished")
    BY <1>11 DEF RunConnectEstablished
  <2>2. \A run \in Bare : Has(ioQueue', run) => Has(ioQueue, run)
    BY <1>1, <1>8, <2>1, BareQueue DEF QueueOwns
  <2>3. holders \subseteq Threads
    BY <1>1 DEF TypeOK
  <2> QED
    BY <1>8, <2>1, <2>2, <2>3 DEF UsedIInv
<1>12. CASE DestroyCloses \/ DestroyRemoves
  <2>1. UNCHANGED <<calls, holders, loopAt, ioQueue>> /\ frame \in {"destroying", "destroyed"}
    BY <1>12 DEF DestroyCloses, DestroyRemoves, userVars
  <2> QED
    BY <1>1, <2>1, UsedSame DEF QueueOwns, RoundIInv
<1>13. CASE RemoveConnectionInLoop \/ DestroyServer
  <2>1. /\ UNCHANGED <<calls, holders, loopAt, index>>
        /\ ioQueue' = ioQueue \/ ioQueue' = Append(ioQueue, Functor("connectDestroyed"))
    BY <1>13 DEF RemoveConnectionInLoop, DestroyServer, channelVars, loopVars, userVars
  <2>2. QueueOwns
    BY <2>1 DEF QueueOwns, Owning
  <2> QED
    BY <1>1, <1>2, <2>1, <2>2, UsedSame
<1>14. ASSUME NEW t \in Threads, Send(t) \/ Shutdown(t) \/ CallStep(t) \/ Release(t)
       PROVE  UsedIInv'
  BY <1>1, <1>14, UsedThreads
<1>15. CASE \/ PeerSends \/ PeerReads \/ PeerCloses \/ PeerResets \/ UNCHANGED vars
  <2>1. UNCHANGED <<calls, holders, loopAt, ioQueue, index>>
    BY <1>15 DEF PeerSends, PeerReads, PeerCloses, PeerResets, PeerActs, vars, channelVars,
                 loopVars, userVars
  <2> QED
    BY <1>1, <1>2, <2>1, UsedSame DEF QueueOwns
<1> QED
  BY <1>3, <1>4, <1>5, <1>6, <1>7, <1>9, <1>10, <1>11, <1>12, <1>13, <1>14, <1>15
     DEF Next, LoopStep, DispatchStep, FunctorStep

\* A late sendInLoop has put the channel back into the poller after connectDestroyed.
PutBack == destroyed > 0 /\ index # kNew

\* Users who keep a connection until their calls were executed are safe from the bare
\* `this` in the functors of send and shutdown (TcpConnection.cpp:64, 163): no functor ever
\* runs on a deleted connection. The poller may still hand one out, but only if a late
\* sendInLoop has put its channel back after connectDestroyed.
THEOREM FunctorsFindConnection ==
    KeepsReferences =>
        (Spec => [][~RunDangling /\ ((HandleEvent /\ ~Alive) => PutBack)]_vars)
<1> SUFFICES ASSUME KeepsReferences
             PROVE  Spec => [][~RunDangling /\ ((HandleEvent /\ ~Alive) => PutBack)]_vars
  OBVIOUS
<1>1. IInv /\ UsedIInv /\ [Next]_vars => UsedIInv'
  BY UsedStep
<1>2. IInv /\ UsedIInv => ~RunDangling /\ ((HandleEvent /\ ~Alive) => PutBack)
  <2> SUFFICES ASSUME IInv, UsedIInv
               PROVE  ~RunDangling /\ ((HandleEvent /\ ~Alive) => PutBack)
    OBVIOUS
  <2>1. ControlIInv /\ TypeOK /\ TokenIInv
    BY DEF IInv, ControlIInv
  \* A functor with a bare `this` finds its connection held.
  <2>2. ~RunDangling
    <3> SUFFICES ASSUME NEW run \in Bare, Runs(run), ~Alive PROVE FALSE
      BY DEF RunDangling
    <3>1. /\ batch > 0 /\ batch \in 0..Len(ioQueue) /\ ioQueue \in Seq(Functors)
          /\ Ordered(ioQueue) /\ Head(ioQueue).run = run
      BY <2>1 DEF TypeOK, Runs, ControlIInv
    <3>2. Has(ioQueue, run)
      BY <3>1, EmptySeq, TailQueue
    <3> QED
      BY <3>2 DEF UsedIInv, Alive
  <2>3. ASSUME HandleEvent, ~Alive PROVE PutBack
    <3>1. index # kNew
      BY <2>3 DEF HandleEvent, UsedIInv
    <3>2. destroyed = 1
      BY <2>1, <2>3 DEF TokenIInv, Alive, Has, Owning
    <3> QED
      BY <3>1, <3>2 DEF PutBack
  <2> QED
    BY <2>2, <2>3
<1> QED
  BY <1>1, <1>2, UsedInit, Invariant, PTL DEF Spec

-----------------------------------------------------------------------------
(* A connection that only its own loop uses.                               *)

\* What holds besides if no other thread calls send or shutdown.
OwnIInv ==
    /\ loopAt = "active" => index # kNew
    /\ \A run \in Bare : ~Has(ioQueue, run)
    /\ finSent \/ destroyed = 1 \/ downs = 1 => state_ \in {"kDisconnecting", "kDisconnected"}
    /\ downs = 1 => state_ = "kDisconnected" /\ "out" \notin events
    /\ frame = "destroyed" => downs = 1
    /\ destroyed = 1 => index = kNew
    /\ faults = {}

\* The queue never gets a functor that is bound to a bare `this`.
LEMMA OwnQueue ==
    ASSUME ControlIInv, OwnIInv, QueueOwns
    PROVE  \A run \in Bare : ~Has(ioQueue', run)
  BY BareQueue DEF OwnIInv

LEMMA OwnInit == Init => OwnIInv
<1> SUFFICES ASSUME Init PROVE OwnIInv
  OBVIOUS
<1>1. \A run \in Bare : ~Has(ioQueue, run)
  <2>1. /\ Len(ioQueue) = 1 /\ ioQueue[1].run = "connectEstablished"
    BY DEF Init, Functor
  <2> QED
    BY <2>1 DEF Has, Bare
<1> QED
  BY <1>1 DEF Init, OwnIInv

\* What sendInLoop does on a connection that is kConnected.
LEMMA OwnSends ==
    ASSUME OwnIInv, state_ = "kConnected", NEW data, SendInLoop(data, ioQueue)
    PROVE  /\ UNCHANGED faults
           /\ \/ ioQueue' = ioQueue
              \/ \E run \in Owning : ioQueue' = Append(ioQueue, Functor(run))
<1>1. ~finSent
  BY DEF OwnIInv
<1>2. "writeComplete" \in Owning /\ "highWater" \in Owning
  BY DEF Owning
<1> QED
  BY <1>1, <1>2 DEF SendInLoop, BufferRest, WriteError

LEMMA OwnStep == IInv /\ OwnIInv /\ Threads = {} /\ [Next]_vars => OwnIInv'
<1> SUFFICES ASSUME IInv, OwnIInv, Threads = {}, [Next]_vars PROVE OwnIInv'
  OBVIOUS
<1>1. /\ ControlIInv /\ TypeOK /\ RoundIInv /\ CloseIInv /\ TokenIInv
      /\ WatchesIffOutput /\ FinIsLast
  BY DEF IInv, ControlIInv
<1>2. /\ destroyed \in {0, 1} /\ downs \in {0, 1}
      /\ revents # {} => index # kNew /\ destroyed = 0
  BY <1>1 DEF RoundIInv, TokenIInv, CloseIInv, OwnIInv
\* Between poll and handleEvent the connection cannot go.
<1>3. loopAt = "active" => Alive
  BY <1>1, <1>2 DEF OwnIInv, TokenIInv, Alive, Has, Owning
<1>4. CASE Poll \/ HandleEvent \/ Swap \/ FunctorsDone \/ CallbackReturns
  <2>1. /\ UNCHANGED <<state_, index, events, finSent, ioQueue, downs, destroyed, faults>>
        /\ loopAt' = "active" => index # kNew
        /\ frame' = "destroyed" => frame = "destroyed"
    <3>1. CASE Poll
      <4>1. Active => index # kNew
        BY EventsDiffer DEF Active
      <4> QED
        BY <3>1, <4>1 DEF Poll, channelVars, socketVars, historyVars
    <3>2. CASE HandleEvent
      BY <1>3, <3>2 DEF HandleEvent, channelVars, socketVars
    <3>3. CASE Swap \/ FunctorsDone
      BY <3>3 DEF Swap, FunctorsDone, channelVars, socketVars, historyVars
    <3>4. CASE CallbackReturns
      <4>1. loopAt = "active" => index # kNew
        BY DEF OwnIInv
      <4> QED
        BY <3>4, <4>1 DEF CallbackReturns, channelVars, socketVars, historyVars
    <3> QED
      BY <1>4, <3>1, <3>2, <3>3, <3>4
  <2> QED
    BY <2>1 DEF OwnIInv
<1>5. CASE HandleReadMessage \/ HandleReadError \/ CloseCallback
  <2>1. /\ UNCHANGED <<state_, index, events, finSent, ioQueue, loopAt, downs, destroyed, faults>>
        /\ frame' # "destroyed"
    BY <1>5 DEF HandleReadMessage, HandleReadError, CloseCallback, HandlesRead, channelVars,
                socketVars, historyVars
  <2> QED
    BY <2>1 DEF OwnIInv
<1>6. CASE HandleClose
  <2>1. /\ UNCHANGED <<finSent, ioQueue, loopAt, destroyed, faults>>
        /\ loopAt = "dispatch" /\ revents # {} /\ frame' = "closing"
        /\ state_' = "kDisconnected" /\ events' = {}
    BY <1>6 DEF HandleClose, HandlesRead, SetEvents, kNoneEvent, socketVars
  <2> QED
    BY <1>2, <2>1 DEF OwnIInv
<1>7. CASE HandleWriteNothing
  <2>1. /\ UNCHANGED <<state_, index, events, finSent, ioQueue, loopAt, frame, downs, destroyed>>
        /\ revents # {}
        /\ UNCHANGED faults \/ (WriteError /\ "out" \in events)
    BY <1>7 DEF HandleWriteNothing, HandlesWrite, channelVars
  <2>2. "out" \in events => ~finSent
    BY <1>1, <1>2, <2>1 DEF OwnIInv, WatchesIffOutput, FinIsLast
  <2>3. UNCHANGED faults
    BY <2>1, <2>2 DEF WriteError
  <2> QED
    BY <2>1, <2>3 DEF OwnIInv
<1>8. CASE HandleWrite
  <2>1. /\ UNCHANGED <<state_, loopAt, frame, downs, destroyed, faults>>
        /\ loopAt = "dispatch" /\ revents # {} /\ ~finSent /\ "out" \in events
    BY <1>8 DEF HandleWrite, HandlesWrite, WriteFails
  <2>2. /\ ioQueue' = ioQueue \/ ioQueue' = Append(ioQueue, Functor("writeComplete"))
        /\ finSent' => state_ = "kDisconnecting"
    BY <1>8, <2>1 DEF HandleWrite, Drained, ShutdownInLoop
  <2>3. \A run \in Bare : ~Has(ioQueue', run)
    BY <1>1, <2>2, OwnQueue DEF QueueOwns, Owning
  <2>4. downs = 0 /\ destroyed = 0
    BY <1>2, <2>1 DEF OwnIInv
  <2> QED
    BY <2>1, <2>2, <2>3, <2>4 DEF OwnIInv
<1>9. CASE LoopSend
  <2>1. /\ UNCHANGED <<state_, finSent, loopAt, frame, downs, destroyed>>
        /\ frame = "user" /\ state_ = "kConnected" /\ SendInLoop(Bytes(sends'), ioQueue)
    BY <1>9 DEF LoopSend, loopVars
  <2>2. /\ UNCHANGED faults
        /\ \/ ioQueue' = ioQueue
           \/ \E run \in Owning : ioQueue' = Append(ioQueue, Functor(run))
    BY <2>1, OwnSends
  <2>3. \A run \in Bare : ~Has(ioQueue', run)
    BY <1>1, <2>2, OwnQueue DEF QueueOwns
  <2>4. loopAt # "active"
    BY <1>1, <2>1 DEF RoundIInv
  <2> QED
    BY <1>2, <2>1, <2>2, <2>3, <2>4 DEF OwnIInv
<1>10. CASE LoopShutdown
  <2>1. /\ UNCHANGED <<index, events, ioQueue, loopAt, frame, downs, destroyed, faults>>
        /\ state_ = "kConnected" /\ state_' = "kDisconnecting"
    BY <1>10 DEF LoopShutdown, channelVars, loopVars, historyVars
  <2> QED
    BY <2>1 DEF OwnIInv
\* The functors.
<1>11. ASSUME NEW run, Runs(run)
       PROVE  /\ loopAt' = "functors" /\ ioQueue # <<>> /\ run \notin Bare
              /\ frame = "none" /\ revents = {}
              /\ run = "connectEstablished" => state_ = "kConnecting"
              /\ run = "connectDestroyed" => state_ # "kConnecting" /\ destroyed = 0
  <2>1. /\ loopAt' = "functors" /\ frame = "none" /\ revents = {}
        /\ (run = "connectEstablished") <=> (state_ = "kConnecting")
        /\ Has(ioQueue, "connectDestroyed") <=>
             Has(Tail(ioQueue), "connectDestroyed") \/ run = "connectDestroyed"
    BY <1>1, <1>11, HeadRuns
  <2>2. ioQueue # <<>> /\ Has(ioQueue, run)
    <3>1. /\ batch > 0 /\ batch \in 0..Len(ioQueue) /\ ioQueue \in Seq(Functors)
          /\ Ordered(ioQueue) /\ Head(ioQueue).run = run
      BY <1>1, <1>11 DEF TypeOK, Runs, ControlIInv
    <3>2. ioQueue # <<>>
      BY <3>1, EmptySeq
    <3> QED
      BY <3>1, <3>2, TailQueue
  <2>3. run \notin Bare
    BY <2>2 DEF OwnIInv
  <2> QED
    BY <1>1, <1>2, <2>1, <2>2, <2>3 DEF TokenIInv
<1>12. ~RunDangling /\ ~RunSendInLoop /\ ~RunShutdownInLoop
  <2>1. ~RunDangling
    BY <1>11 DEF RunDangling
  <2>2. ~RunSendInLoop /\ ~RunShutdownInLoop
    BY <1>11 DEF RunSendInLoop, RunShutdownInLoop, Bare
  <2> QED
    BY <2>1, <2>2
<1>13. CASE RunConnectEstablished
  <2>1. /\ loopAt' = "functors" /\ ioQueue' = Tail(ioQueue) /\ ioQueue # <<>>
        /\ state_ = "kConnecting" /\ frame' = "user"
        /\ UNCHANGED <<finSent, downs, destroyed, faults>>
    BY <1>11, <1>13 DEF RunConnectEstablished, historyVars
  <2>2. \A run \in Bare : ~Has(ioQueue', run)
    BY <1>1, <2>1, OwnQueue DEF QueueOwns
  <2> QED
    BY <2>1, <2>2 DEF OwnIInv
<1>14. CASE RunUserCallback
  <2>1. /\ loopAt' = "functors" /\ ioQueue' = Tail(ioQueue) /\ ioQueue # <<>> /\ frame' = "user"
        /\ UNCHANGED <<state_, index, events, finSent, downs, destroyed, faults>>
    BY <1>11, <1>14 DEF RunUserCallback, channelVars, historyVars
  <2>2. \A run \in Bare : ~Has(ioQueue', run)
    BY <1>1, <2>1, OwnQueue DEF QueueOwns
  <2> QED
    BY <2>1, <2>2 DEF OwnIInv
<1>15. CASE RunConnectDestroyed
  <2>1. /\ loopAt' = "functors" /\ ioQueue' = Tail(ioQueue) /\ ioQueue # <<>>
        /\ frame = "none" /\ state_ # "kConnecting" /\ destroyed = 0
        /\ \/ frame' = "destroying" /\ UNCHANGED destroyed
           \/ state_ # "kConnected" /\ index' = kNew /\ frame' = "none"
        /\ UNCHANGED <<state_, events, finSent, downs, faults>>
    BY <1>11, <1>15 DEF RunConnectDestroyed, DestroyClosesFirst
  <2>2. \A run \in Bare : ~Has(ioQueue', run)
    BY <1>1, <2>1, OwnQueue DEF QueueOwns
  <2>3. state_ # "kConnected" => state_ \in {"kDisconnecting", "kDisconnected"}
    BY <1>1, <2>1 DEF TypeOK, States
  <2> QED
    BY <2>1, <2>2, <2>3 DEF OwnIInv
<1>16. CASE DestroyCloses
  <2>1. /\ UNCHANGED <<finSent, ioQueue, loopAt, destroyed, faults>>
        /\ frame = "destroying" /\ frame' = "destroyed" /\ downs' = downs + 1
        /\ state_' = "kDisconnected" /\ events' = {}
    BY <1>16 DEF DestroyCloses, SetEvents, kNoneEvent, socketVars
  <2>2. downs = 0 /\ destroyed = 0 /\ loopAt = "functors"
    BY <1>1, <2>1 DEF CloseIInv, TokenIInv, RoundIInv
  <2> QED
    BY <2>1, <2>2 DEF OwnIInv
<1>17. CASE DestroyRemoves
  <2>1. /\ UNCHANGED <<state_, events, finSent, ioQueue, loopAt, downs, faults>>
        /\ frame = "destroyed" /\ frame' = "none" /\ index' = kNew
    BY <1>17 DEF DestroyRemoves, socketVars
  <2>2. loopAt = "functors" /\ downs = 1
    BY <1>1, <2>1 DEF RoundIInv, OwnIInv
  <2> QED
    BY <2>1, <2>2 DEF OwnIInv
<1>18. CASE RemoveConnectionInLoop \/ DestroyServer
  <2>1. /\ UNCHANGED <<state_, index, events, finSent, loopAt, frame, downs, destroyed, faults>>
        /\ ioQueue' = ioQueue \/ ioQueue' = Append(ioQueue, Functor("connectDestroyed"))
    BY <1>18 DEF RemoveConnectionInLoop, DestroyServer, channelVars, socketVars, loopVars, historyVars
  <2>2. \A run \in Bare : ~Has(ioQueue', run)
    BY <1>1, <2>1, OwnQueue DEF QueueOwns, Owning
  <2> QED
    BY <2>1, <2>2 DEF OwnIInv
<1>19. CASE \/ PeerSends \/ PeerReads \/ PeerCloses \/ PeerResets \/ UNCHANGED vars
  <2>1. UNCHANGED <<state_, index, events, finSent, ioQueue, loopAt, frame, downs, destroyed, faults>>
    BY <1>19 DEF PeerSends, PeerReads, PeerCloses, PeerResets, PeerActs, vars, channelVars,
                 socketVars, loopVars, historyVars
  <2> QED
    BY <2>1 DEF OwnIInv
<1> QED
  BY <1>4, <1>5, <1>6, <1>7, <1>8, <1>9, <1>10, <1>12, <1>13, <1>14, <1>15, <1>16, <1>17,
     <1>18, <1>19
     DEF Next, LoopStep, DispatchStep, FunctorStep

\* A connection that only its own loop sends on and shuts down, from callbacks as
\* test/test_TcpServer.cpp:37 does, is safe from all that calls of other threads do to it:
\* no functor or event finds it deleted, nothing is written behind the FIN, and a removed
\* channel stays out of the poller. Peer, base loop and destructor come when they like.
THEOREM SafeInItsOwnLoop ==
    Threads = {} =>
        (Spec => [](~PutBack /\ NoWriteAfterFin /\ NoUseAfterFree))
<1> SUFFICES ASSUME Threads = {}
             PROVE  Spec => [](~PutBack /\ NoWriteAfterFin /\ NoUseAfterFree)
  OBVIOUS
<1>1. IInv /\ OwnIInv /\ [Next]_vars => OwnIInv'
  BY OwnStep
<1>2. IInv /\ OwnIInv => ~PutBack /\ NoWriteAfterFin /\ NoUseAfterFree
  <2> SUFFICES ASSUME IInv, OwnIInv PROVE ~PutBack /\ NoWriteAfterFin /\ NoUseAfterFree
    OBVIOUS
  <2>1. destroyed \in {0, 1}
    BY DEF IInv, ControlIInv, TokenIInv
  <2> QED
    BY <2>1 DEF OwnIInv, PutBack, NoWriteAfterFin, NoUseAfterFree
<1> QED
  BY <1>1, <1>2, OwnInit, Invariant, PTL DEF Spec

=============================================================================
