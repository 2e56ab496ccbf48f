---------------------------- MODULE BufferProofs ----------------------------
(***************************************************************************)
(* The buffer keeps its indices in order, grows no more than it has to,    *)
(* and implements ByteQueue, for any sizes. Every operation is made of     *)
(* four steps (resize, move, fill, retrieve), each of which has its lemma. *)
(***************************************************************************)
EXTENDS Buffer, SequenceTheorems, TLAPS

\* What a function on 1..n is as a sequence.
LEMMA FunctionIsSeq ==
    ASSUME NEW S, NEW n \in Nat, NEW f \in [1..n -> S]
    PROVE  f \in Seq(S) /\ Len(f) = n
  OBVIOUS

\* A valid buffer as numbers.
LEMMA Indices ==
    ASSUME NEW b, Valid(b)
    PROVE  /\ b = Members(b.buffer_, b.readerIndex_, b.writerIndex_)
           /\ b.buffer_ \in Seq(Nat)
           /\ Len(b.buffer_) \in Nat
           /\ \A i \in 1..Len(b.buffer_) : b.buffer_[i] \in Nat
           /\ b.readerIndex_ \in Nat /\ b.writerIndex_ \in Nat
           /\ kCheapPrepend <= b.readerIndex_
           /\ b.readerIndex_ <= b.writerIndex_
           /\ b.writerIndex_ <= Len(b.buffer_)
  BY DEF Valid, Members

\* The members of a buffer put together.
LEMMA MembersAre ==
    ASSUME NEW bytes \in Seq(Nat), NEW reader \in Nat, NEW writer \in Nat,
           kCheapPrepend <= reader, reader <= writer, writer <= Len(bytes)
    PROVE  LET b == Members(bytes, reader, writer)
           IN  /\ Valid(b)
               /\ b.buffer_ = bytes /\ b.readerIndex_ = reader /\ b.writerIndex_ = writer
               /\ readableBytes(b) = writer - reader
               /\ writableBytes(b) = Len(bytes) - writer
  BY DEF Members, Valid, readableBytes, writableBytes

\* The readable bytes, one by one.
LEMMA ContentsElements ==
    ASSUME NEW b, Valid(b)
    PROVE  /\ Contents(b) \in Seq(Nat)
           /\ Len(Contents(b)) = readableBytes(b)
           /\ readableBytes(b) \in Nat
           /\ \A i \in 1..readableBytes(b) :
                  Contents(b)[i] = b.buffer_[b.readerIndex_ + i]
  <1> DEFINE m == b.readerIndex_ + 1
             n == b.writerIndex_
  <1>1. m \in Int /\ n \in Int /\ n - m + 1 = readableBytes(b) /\ readableBytes(b) \in Nat
    BY Indices DEF readableBytes
  <1>2. \A i \in m..n : b.buffer_[i] \in Nat
    BY Indices, SizesAssumption
  <1>3. /\ SubSeq(b.buffer_, m, n) \in Seq(Nat)
        /\ Len(SubSeq(b.buffer_, m, n)) = IF m <= n THEN n - m + 1 ELSE 0
        /\ \A i \in 1..(n - m + 1) : SubSeq(b.buffer_, m, n)[i] = b.buffer_[m + i - 1]
    BY <1>1, <1>2, SubSeqProperties
  <1>4. \A i \in 1..readableBytes(b) : m + i - 1 = b.readerIndex_ + i
    BY <1>1, Indices
  <1> QED
    BY <1>1, <1>3, <1>4 DEF Contents

\* The contents depend on what is between the indices, not on where they are.
LEMMA SameContents ==
    ASSUME NEW b, NEW c, Valid(b), Valid(c),
           readableBytes(c) = readableBytes(b),
           \A i \in 1..readableBytes(b) :
               c.buffer_[c.readerIndex_ + i] = b.buffer_[b.readerIndex_ + i]
    PROVE  Contents(c) = Contents(b)
  BY ContentsElements, SeqEqual

-----------------------------------------------------------------------------
\* resize keeps what is there.
LEMMA ResizedKeeps ==
    ASSUME NEW b, Valid(b), NEW size \in Nat, Len(b.buffer_) <= size
    PROVE  /\ Valid(Resized(b, size))
           /\ Len(Resized(b, size).buffer_) = size
           /\ Resized(b, size).readerIndex_ = b.readerIndex_
           /\ Resized(b, size).writerIndex_ = b.writerIndex_
           /\ Contents(Resized(b, size)) = Contents(b)
  <1> DEFINE f == [i \in 1..size |-> IF i <= Len(b.buffer_) THEN b.buffer_[i] ELSE Zero]
             c == Members(f, b.readerIndex_, b.writerIndex_)
  <1>1. f \in [1..size -> Nat]
    BY Indices DEF Zero
  <1>2. f \in Seq(Nat) /\ Len(f) = size
    BY <1>1, FunctionIsSeq
  <1>3. \A i \in 1..readableBytes(b) : f[b.readerIndex_ + i] = b.buffer_[b.readerIndex_ + i]
    BY Indices DEF readableBytes
  <1>4. Resized(b, size) = c
    BY DEF Resized
  <1> HIDE DEF f
  <1>5. /\ Valid(c)
        /\ c.buffer_ = f /\ c.readerIndex_ = b.readerIndex_ /\ c.writerIndex_ = b.writerIndex_
        /\ readableBytes(c) = readableBytes(b)
    BY <1>2, Indices, MembersAre DEF readableBytes
  <1>6. Contents(c) = Contents(b)
    BY <1>3, <1>5, SameContents
  <1> QED
    BY <1>2, <1>4, <1>5, <1>6

\* The move keeps the bytes and brings them to kCheapPrepend.
LEMMA MovedKeeps ==
    ASSUME NEW b, Valid(b)
    PROVE  /\ Valid(Moved(b))
           /\ Len(Moved(b).buffer_) = Len(b.buffer_)
           /\ Moved(b).readerIndex_ = kCheapPrepend
           /\ Moved(b).writerIndex_ = kCheapPrepend + readableBytes(b)
           /\ Contents(Moved(b)) = Contents(b)
  <1> DEFINE shift == b.readerIndex_ - kCheapPrepend
             end == kCheapPrepend + readableBytes(b)
             f == [i \in 1..Len(b.buffer_) |->
                       IF i \in (kCheapPrepend + 1)..end THEN b.buffer_[i + shift]
                                                         ELSE b.buffer_[i]]
             c == Members(f, kCheapPrepend, end)
  <1>1. /\ shift \in Nat /\ end \in Nat
        /\ end + shift = b.writerIndex_
        /\ kCheapPrepend <= end
        /\ end <= Len(b.buffer_)
    BY Indices, SizesAssumption DEF readableBytes
  <1>2. \A i \in 1..Len(b.buffer_) :
            i \in (kCheapPrepend + 1)..end => i + shift \in 1..Len(b.buffer_)
    BY Indices, SizesAssumption DEF readableBytes
  <1>3. f \in [1..Len(b.buffer_) -> Nat]
    BY <1>2, Indices
  <1>4. f \in Seq(Nat) /\ Len(f) = Len(b.buffer_)
    BY <1>3, Indices, FunctionIsSeq
  <1>5. \A i \in 1..readableBytes(b) :
            /\ kCheapPrepend + i \in 1..Len(b.buffer_)
            /\ kCheapPrepend + i \in (kCheapPrepend + 1)..end
            /\ kCheapPrepend + i + shift = b.readerIndex_ + i
    BY Indices, SizesAssumption DEF readableBytes
  <1>6. Moved(b) = c
    BY DEF Moved
  <1>7. \A i \in 1..readableBytes(b) : f[kCheapPrepend + i] = b.buffer_[b.readerIndex_ + i]
    BY <1>5
  <1>8. end - kCheapPrepend = readableBytes(b)
    BY Indices, SizesAssumption DEF readableBytes
  <1> HIDE DEF shift, end, f
  <1>9. /\ Valid(c)
        /\ c.buffer_ = f /\ c.readerIndex_ = kCheapPrepend /\ c.writerIndex_ = end
        /\ readableBytes(c) = readableBytes(b)
    BY <1>1, <1>4, <1>8, MembersAre, SizesAssumption
  <1>10. Contents(c) = Contents(b)
    BY <1>7, <1>9, SameContents
  <1> QED
    BY <1>4, <1>6, <1>9, <1>10 DEF end

\* std::copy may not write into what it has still to read: makeSpace moves bytes only
\* down (Buffer.h:113-121).
LEMMA MovesDown ==
    ASSUME NEW b, Valid(b), NEW len \in Nat,
           writableBytes(b) < len,
           writableBytes(b) + prependableBytes(b) >= len + kCheapPrepend
    PROVE  kCheapPrepend < b.readerIndex_
  BY Indices, SizesAssumption DEF writableBytes, prependableBytes

\* After ensureWriteableBytes there is room, and the vector has not grown without need.
LEMMA EnsureKeeps ==
    ASSUME NEW b, Valid(b), NEW len \in Nat
    PROVE  LET e == EnsureWriteableBytes(b, len)
           IN  /\ Valid(e)
               /\ Contents(e) = Contents(b)
               /\ readableBytes(e) = readableBytes(b)
               /\ len <= writableBytes(e)
               /\ Len(e.buffer_) <= Higher(Len(b.buffer_),
                                          kCheapPrepend + 2 * (readableBytes(b) + len))
  <1>1. CASE writableBytes(b) >= len
    <2>1. EnsureWriteableBytes(b, len) = b
      BY <1>1, Indices DEF EnsureWriteableBytes, writableBytes
    <2> QED
      BY <1>1, <2>1, Indices, SizesAssumption DEF Higher, readableBytes, writableBytes
  <1>2. CASE /\ writableBytes(b) < len
             /\ writableBytes(b) + prependableBytes(b) < len + kCheapPrepend
    <2> DEFINE size == b.writerIndex_ + len
               e == Resized(b, size)
    <2>1. EnsureWriteableBytes(b, len) = e
      BY <1>2 DEF EnsureWriteableBytes, MakeSpace
    <2>2. /\ size \in Nat /\ Len(b.buffer_) <= size
          /\ size <= kCheapPrepend + 2 * (readableBytes(b) + len)
      BY <1>2, Indices, SizesAssumption
      DEF readableBytes, writableBytes, prependableBytes
    <2> HIDE DEF size
    <2>3. /\ Valid(e) /\ Len(e.buffer_) = size
          /\ e.readerIndex_ = b.readerIndex_ /\ e.writerIndex_ = b.writerIndex_
          /\ Contents(e) = Contents(b)
      BY <2>2, ResizedKeeps
    <2> HIDE DEF e
    <2>4. readableBytes(e) = readableBytes(b) /\ writableBytes(e) = len
      BY <2>3, Indices DEF readableBytes, writableBytes, size
    <2>5. Len(e.buffer_) <= Higher(Len(b.buffer_),
                                   kCheapPrepend + 2 * (readableBytes(b) + len))
      BY <2>2, <2>3, Indices, SizesAssumption DEF Higher, readableBytes
    <2> QED
      BY <2>1, <2>3, <2>4, <2>5
  <1>3. CASE /\ writableBytes(b) < len
             /\ ~(writableBytes(b) + prependableBytes(b) < len + kCheapPrepend)
    <2> DEFINE e == Moved(b)
    <2>1. EnsureWriteableBytes(b, len) = e
      BY <1>3 DEF EnsureWriteableBytes, MakeSpace
    <2>2. /\ Valid(e) /\ Len(e.buffer_) = Len(b.buffer_)
          /\ e.readerIndex_ = kCheapPrepend
          /\ e.writerIndex_ = kCheapPrepend + readableBytes(b)
          /\ Contents(e) = Contents(b)
      BY MovedKeeps
    <2> HIDE DEF e
    <2>3. readableBytes(e) = readableBytes(b) /\ len <= writableBytes(e)
      BY <1>3, <2>2, Indices, SizesAssumption
      DEF readableBytes, writableBytes, prependableBytes
    <2>4. Len(e.buffer_) <= Higher(Len(b.buffer_),
                                   kCheapPrepend + 2 * (readableBytes(b) + len))
      BY <2>2, Indices, SizesAssumption DEF Higher, readableBytes
    <2> QED
      BY <2>1, <2>2, <2>3, <2>4
  <1>4. writableBytes(b) \in Nat
    BY Indices DEF writableBytes
  <1> QED
    BY <1>1, <1>2, <1>3, <1>4

\* Filling the room puts the bytes behind the contents.
LEMMA FilledKeeps ==
    ASSUME NEW b, Valid(b), NEW data \in Seq(Nat), Len(data) <= writableBytes(b)
    PROVE  /\ Valid(Filled(b, data))
           /\ Len(Filled(b, data).buffer_) = Len(b.buffer_)
           /\ readableBytes(Filled(b, data)) = readableBytes(b) + Len(data)
           /\ writableBytes(Filled(b, data)) = writableBytes(b) - Len(data)
           /\ Contents(Filled(b, data)) = Contents(b) \o data
  <1> DEFINE w == b.writerIndex_
             end == w + Len(data)
             f == [i \in 1..Len(b.buffer_) |->
                       IF i \in (w + 1)..end THEN data[i - w] ELSE b.buffer_[i]]
             c == Members(f, b.readerIndex_, end)
  <1>1. /\ Len(data) \in Nat /\ w \in Nat /\ end \in Nat
        /\ \A i \in 1..Len(data) : data[i] \in Nat
        /\ b.readerIndex_ <= end
        /\ end <= Len(b.buffer_)
    BY Indices DEF writableBytes
  <1>2. \A i \in (w + 1)..end : i - w \in 1..Len(data)
    BY <1>1
  <1>3. f \in [1..Len(b.buffer_) -> Nat]
    BY <1>1, <1>2, Indices
  <1>4. f \in Seq(Nat) /\ Len(f) = Len(b.buffer_)
    BY <1>3, Indices, FunctionIsSeq
  <1>5. \A i \in 1..readableBytes(b) : f[b.readerIndex_ + i] = b.buffer_[b.readerIndex_ + i]
    BY Indices DEF readableBytes
  <1>6. \A i \in 1..Len(data) : f[w + i] = data[i]
    <2>1. \A i \in 1..Len(data) : w + i \in 1..Len(b.buffer_) /\ w + i \in (w + 1)..end
                                  /\ (w + i) - w = i
      BY <1>1
    <2> QED
      BY <2>1
  <1>7. Filled(b, data) = c
    BY DEF Filled
  <1>8. w = b.readerIndex_ + readableBytes(b) /\ readableBytes(b) \in Nat
    BY Indices DEF readableBytes
  <1> HIDE DEF f
  <1>9. /\ Valid(c)
        /\ c.buffer_ = f /\ c.readerIndex_ = b.readerIndex_
        /\ readableBytes(c) = readableBytes(b) + Len(data)
        /\ writableBytes(c) = writableBytes(b) - Len(data)
    <2>1. b.readerIndex_ \in Nat /\ kCheapPrepend <= b.readerIndex_
      BY Indices
    <2>2. /\ end - b.readerIndex_ = readableBytes(b) + Len(data)
          /\ Len(b.buffer_) - end = writableBytes(b) - Len(data)
      BY <1>1, Indices DEF readableBytes, writableBytes
    <2> HIDE DEF w, end
    <2>3. /\ Valid(c)
          /\ c.buffer_ = f /\ c.readerIndex_ = b.readerIndex_
          /\ readableBytes(c) = end - b.readerIndex_
          /\ writableBytes(c) = Len(f) - end
      <3>1. end \in Nat /\ b.readerIndex_ <= end /\ end <= Len(f) /\ f \in Seq(Nat)
        BY <1>1, <1>4
      <3> QED
        BY <2>1, <3>1, MembersAre
    <2> QED
      BY <1>4, <2>2, <2>3
  <1> HIDE DEF c
  <1>10. Contents(c) = Contents(b) \o data
    <2>1. /\ Contents(b) \in Seq(Nat) /\ Len(Contents(b)) = readableBytes(b)
          /\ \A i \in 1..readableBytes(b) : Contents(b)[i] = b.buffer_[b.readerIndex_ + i]
      BY ContentsElements
    <2>2. /\ Contents(c) \in Seq(Nat) /\ Len(Contents(c)) = readableBytes(b) + Len(data)
          /\ \A i \in 1..(readableBytes(b) + Len(data)) :
                 Contents(c)[i] = f[b.readerIndex_ + i]
      BY <1>9, ContentsElements
    <2>3. /\ Contents(b) \o data \in Seq(Nat)
          /\ Len(Contents(b) \o data) = readableBytes(b) + Len(data)
          /\ \A i \in 1..(readableBytes(b) + Len(data)) :
                 (Contents(b) \o data)[i] =
                     IF i <= readableBytes(b) THEN Contents(b)[i]
                                              ELSE data[i - readableBytes(b)]
      <3>1. /\ Contents(b) \o data \in Seq(Nat)
            /\ Len(Contents(b) \o data) = Len(Contents(b)) + Len(data)
            /\ \A i \in 1..(Len(Contents(b)) + Len(data)) :
                   (Contents(b) \o data)[i] =
                       IF i <= Len(Contents(b)) THEN Contents(b)[i]
                                                ELSE data[i - Len(Contents(b))]
        BY <2>1, ConcatProperties
      <3> QED
        BY <2>1, <3>1
    <2>4. ASSUME NEW i \in 1..(readableBytes(b) + Len(data))
          PROVE  Contents(c)[i] = (Contents(b) \o data)[i]
      <3>1. CASE i <= readableBytes(b)
        <4>1. i \in 1..readableBytes(b)
          BY <3>1, <1>8, <1>1
        <4> QED
          BY <4>1, <3>1, <2>1, <2>2, <2>3, <1>5
      <3>2. CASE ~(i <= readableBytes(b))
        <4>1. /\ i - readableBytes(b) \in 1..Len(data)
              /\ b.readerIndex_ + i = w + (i - readableBytes(b))
          <5>1. i \in Nat /\ b.readerIndex_ \in Nat
            BY <1>1, <1>8, Indices
          <5> HIDE DEF w, end
          <5> QED
            BY <3>2, <1>8, <1>1, <5>1
        <4> QED
          BY <4>1, <3>2, <2>2, <2>3, <1>6
      <3> QED
        BY <3>1, <3>2
    <2> QED
      BY <2>2, <2>3, <2>4, SeqEqual
  <1> QED
    BY <1>4, <1>7, <1>9, <1>10

\* What append and readFd have in common: n more bytes behind the contents, and a vector
\* that is no larger than it was or than twice what it now holds.
Took(b, c, data) ==
    /\ Valid(c)
    /\ Contents(c) = Contents(b) \o data
    /\ readableBytes(c) = readableBytes(b) + Len(data)
    /\ Len(c.buffer_) <= Higher(Len(b.buffer_), kCheapPrepend + 2 * readableBytes(c))

LEMMA AppendedKeeps ==
    ASSUME NEW b, Valid(b), NEW data \in Seq(Nat)
    PROVE  Took(b, Appended(b, data), data)
  <1> DEFINE e == EnsureWriteableBytes(b, Len(data))
  <1>1. Len(data) \in Nat
    OBVIOUS
  <1>2. /\ Valid(e)
        /\ Contents(e) = Contents(b)
        /\ readableBytes(e) = readableBytes(b)
        /\ Len(data) <= writableBytes(e)
        /\ Len(e.buffer_) <= Higher(Len(b.buffer_),
                                   kCheapPrepend + 2 * (readableBytes(b) + Len(data)))
    BY <1>1, EnsureKeeps
  <1>3. Appended(b, data) = Filled(e, data)
    BY DEF Appended
  <1> HIDE DEF e
  <1> QED
    BY <1>2, <1>3, FilledKeeps DEF Took

LEMMA FilledFromFdKeeps ==
    ASSUME NEW b, Valid(b), NEW data \in Seq(Nat)
    PROVE  Took(b, FilledFromFd(b, data), data)
  <1> DEFINE room == writableBytes(b)
  <1>1. room \in Nat /\ Len(data) \in Nat /\ readableBytes(b) \in Nat
    BY Indices, ContentsElements DEF writableBytes
  <1>2. CASE Len(data) <= room
    <2>1. FilledFromFd(b, data) = Filled(b, data)
      BY <1>2 DEF FilledFromFd
    <2>2. /\ Len(Filled(b, data).buffer_) = Len(b.buffer_)
          /\ readableBytes(Filled(b, data)) \in Nat
      BY <1>1, <1>2, FilledKeeps
    <2> QED
      BY <1>2, <2>1, <2>2, FilledKeeps, Indices, SizesAssumption DEF Took, Higher
  <1>3. CASE ~(Len(data) <= room)
    <2> DEFINE head == SubSeq(data, 1, room)
               rest == SubSeq(data, room + 1, Len(data))
               c == Filled(b, head)
    <2>1. FilledFromFd(b, data) = Appended(c, rest)
      BY <1>3 DEF FilledFromFd
    <2>2. /\ head \in Seq(Nat) /\ Len(head) = room
          /\ rest \in Seq(Nat) /\ Len(rest) = Len(data) - room
      <3>1. \A i \in 1..room : data[i] \in Nat
        BY <1>1, <1>3
      <3>2. \A i \in (room + 1)..Len(data) : data[i] \in Nat
        BY <1>1, <1>3
      <3>3. 1 \in Int /\ room \in Int /\ room + 1 \in Int /\ Len(data) \in Int
        BY <1>1
      <3>4. /\ head \in Seq(Nat) /\ Len(head) = IF 1 <= room THEN room - 1 + 1 ELSE 0
        BY <3>1, <3>3, SubSeqProperties
      <3>5. /\ rest \in Seq(Nat)
            /\ Len(rest) = IF room + 1 <= Len(data) THEN Len(data) - (room + 1) + 1 ELSE 0
        BY <3>2, <3>3, SubSeqProperties
      <3> HIDE DEF head, rest, room
      <3>6. Len(head) = room
        BY <3>4, <1>1
      <3>7. Len(rest) = Len(data) - room
        BY <3>5, <1>1, <1>3
      <3> QED
        BY <3>4, <3>5, <3>6, <3>7
    <2>3. head \o rest = data
      <3>1. room \in (1 - 1)..Len(data) /\ 1 \in 1..(Len(data) + 1)
            /\ Len(data) \in room..Len(data)
        BY <1>1, <1>3
      <3>2. SubSeq(data, 1, room) \o SubSeq(data, room + 1, Len(data))
                = SubSeq(data, 1, Len(data))
        BY <3>1, ConcatAdjacentSubSeq
      <3> QED
        BY <3>2, SubSeqFull
    <2> HIDE DEF head, rest
    <2>4. /\ Valid(c) /\ Contents(c) = Contents(b) \o head
          /\ Len(c.buffer_) = Len(b.buffer_)
          /\ readableBytes(c) = readableBytes(b) + room
      BY <1>1, <2>2, FilledKeeps
    <2> HIDE DEF c
    <2>5. Took(c, Appended(c, rest), rest)
      BY <2>2, <2>4, AppendedKeeps
    <2>6. Contents(Appended(c, rest)) = Contents(b) \o data
      <3>1. Contents(Appended(c, rest)) = (Contents(b) \o head) \o rest
        BY <2>4, <2>5 DEF Took
      <3>2. (Contents(b) \o head) \o rest = Contents(b) \o (head \o rest)
        <4>1. Contents(b) \in Seq(Nat) /\ head \in Seq(Nat) /\ rest \in Seq(Nat)
          BY <2>2, ContentsElements
        <4> QED
          BY <4>1, ConcatAssociative
      <3> QED
        BY <2>3, <3>1, <3>2
    <2>7. readableBytes(Appended(c, rest)) = readableBytes(b) + Len(data)
      BY <1>1, <1>3, <2>2, <2>4, <2>5 DEF Took
    <2> QED
      BY <2>1, <2>4, <2>5, <2>6, <2>7 DEF Took
  <1> QED
    BY <1>1, <1>2, <1>3

\* retrieve drops from the front what it was asked for, or everything.
LEMMA RetrievedKeeps ==
    ASSUME NEW b, Valid(b), NEW len \in Nat
    PROVE  /\ Valid(Retrieved(b, len))
           /\ Len(Retrieved(b, len).buffer_) = Len(b.buffer_)
           /\ readableBytes(Retrieved(b, len)) \in Nat
           /\ readableBytes(Retrieved(b, len)) <= readableBytes(b)
           /\ Contents(Retrieved(b, len)) = SubSeq(Contents(b), len + 1, Len(Contents(b)))
  <1>1. /\ Contents(b) \in Seq(Nat)
        /\ Len(Contents(b)) = readableBytes(b)
        /\ readableBytes(b) \in Nat
        /\ \A i \in 1..readableBytes(b) : Contents(b)[i] = b.buffer_[b.readerIndex_ + i]
    BY ContentsElements
  <1>2. CASE len < readableBytes(b)
    <2> DEFINE c == Members(b.buffer_, b.readerIndex_ + len, b.writerIndex_)
               n == readableBytes(b)
               s == SubSeq(Contents(b), len + 1, n)
    <2>1. Retrieved(b, len) = c
      BY <1>2 DEF Retrieved
    <2>2. /\ b.readerIndex_ + len \in Nat
          /\ kCheapPrepend <= b.readerIndex_ + len
          /\ b.readerIndex_ + len <= b.writerIndex_
          /\ b.writerIndex_ - (b.readerIndex_ + len) = n - len
      BY <1>2, Indices, SizesAssumption DEF readableBytes
    <2>3. /\ Valid(c)
          /\ c.buffer_ = b.buffer_ /\ c.readerIndex_ = b.readerIndex_ + len
          /\ readableBytes(c) = n - len
      BY <2>2, Indices, MembersAre
    <2> HIDE DEF c
    <2>4. /\ s \in Seq(Nat) /\ Len(s) = n - len
          /\ \A i \in 1..(n - len) : s[i] = Contents(b)[len + i]
      <3>1. len + 1 \in Int /\ n \in Int /\ \A i \in (len + 1)..n : Contents(b)[i] \in Nat
        BY <1>1
      <3>2. /\ s \in Seq(Nat)
            /\ Len(s) = IF len + 1 <= n THEN n - (len + 1) + 1 ELSE 0
            /\ \A i \in 1..(n - (len + 1) + 1) : s[i] = Contents(b)[(len + 1) + i - 1]
        BY <3>1, SubSeqProperties
      <3> HIDE DEF s, n
      <3>3. n - (len + 1) + 1 = n - len /\ len + 1 <= n
        BY <1>1, <1>2 DEF n
      <3>4. \A i \in 1..(n - len) : (len + 1) + i - 1 = len + i
        BY <1>1 DEF n
      <3> QED
        BY <3>2, <3>3, <3>4
    <2>5. /\ Contents(c) \in Seq(Nat) /\ Len(Contents(c)) = n - len
          /\ \A i \in 1..(n - len) : Contents(c)[i] = b.buffer_[b.readerIndex_ + len + i]
      BY <2>3, ContentsElements
    <2>6. ASSUME NEW i \in 1..(n - len)
          PROVE  Contents(c)[i] = s[i]
      <3>1. len + i \in 1..n /\ b.readerIndex_ + (len + i) = b.readerIndex_ + len + i
        BY <1>1, <1>2, Indices
      <3> HIDE DEF s, n
      <3>2. s[i] = Contents(b)[len + i] /\ Contents(c)[i] = b.buffer_[b.readerIndex_ + len + i]
        BY <2>4, <2>5
      <3>3. Contents(b)[len + i] = b.buffer_[b.readerIndex_ + (len + i)]
        BY <1>1, <3>1 DEF n
      <3> QED
        BY <3>1, <3>2, <3>3
    <2> HIDE DEF s
    <2>7. Contents(c) = s
      BY <2>4, <2>5, <2>6, SeqEqual
    <2>8. SubSeq(Contents(b), len + 1, Len(Contents(b))) = s
      BY <1>1 DEF s
    <2>9. readableBytes(c) \in Nat /\ readableBytes(c) <= readableBytes(b)
      BY <1>1, <1>2, <2>3
    <2> HIDE DEF n
    <2> QED
      BY <2>1, <2>3, <2>7, <2>8, <2>9
  <1>3. CASE ~(len < readableBytes(b))
    <2> DEFINE c == Members(b.buffer_, kCheapPrepend, kCheapPrepend)
    <2>1. Retrieved(b, len) = c
      BY <1>3 DEF Retrieved
    <2>2. kCheapPrepend <= Len(b.buffer_) /\ kCheapPrepend - kCheapPrepend = 0
      BY Indices, SizesAssumption
    <2>3. Valid(c) /\ c.buffer_ = b.buffer_ /\ readableBytes(c) = 0
      BY <2>2, Indices, MembersAre, SizesAssumption
    <2> HIDE DEF c
    <2>4. Contents(c) = <<>>
      BY <2>3, ContentsElements, EmptySeq
    <2>5. SubSeq(Contents(b), len + 1, Len(Contents(b))) = <<>>
      BY <1>1, <1>3, SubSeqEmpty
    <2>6. readableBytes(c) \in Nat /\ readableBytes(c) <= readableBytes(b)
      BY <1>1, <2>3
    <2>7. /\ Len(c.buffer_) = Len(b.buffer_)
          /\ Contents(c) = SubSeq(Contents(b), len + 1, Len(Contents(b)))
      BY <2>3, <2>4, <2>5
    <2> QED
      BY <2>1, <2>3, <2>6, <2>7
  <1> QED
    BY <1>2, <1>3

\* What is copied from peek() begins with the contents.
LEMMA FromPeekIs ==
    ASSUME NEW b, Valid(b), NEW len \in Nat
    PROVE  /\ FromPeek(b, len) \in Seq(Nat)
           /\ Len(FromPeek(b, len)) = len
           /\ len <= readableBytes(b) => FromPeek(b, len) = SubSeq(Contents(b), 1, len)
           /\ readableBytes(b) < len =>
                  SubSeq(FromPeek(b, len), 1, Len(Contents(b))) = Contents(b)
  <1> DEFINE n == readableBytes(b)
             f == FromPeek(b, len)
  <1>1. /\ Contents(b) \in Seq(Nat) /\ Len(Contents(b)) = n /\ n \in Nat
        /\ \A i \in 1..n : Contents(b)[i] = b.buffer_[b.readerIndex_ + i]
    BY ContentsElements
  <1>2. f \in [1..len -> Nat]
    <2>1. ASSUME NEW i \in 1..len, b.readerIndex_ + i <= Len(b.buffer_)
          PROVE  b.buffer_[b.readerIndex_ + i] \in Nat
      BY <2>1, Indices
    <2> QED
      BY <2>1 DEF FromPeek, Zero
  <1>3. f \in Seq(Nat) /\ Len(f) = len
    BY <1>2, FunctionIsSeq
  <1>4. ASSUME NEW i \in 1..len, i <= n
        PROVE  f[i] = Contents(b)[i]
    <2>1. b.readerIndex_ + i <= Len(b.buffer_) /\ i \in 1..n
      BY <1>4, Indices DEF readableBytes
    <2>2. f[i] = b.buffer_[b.readerIndex_ + i]
      BY <2>1 DEF FromPeek
    <2> QED
      BY <1>1, <2>1, <2>2
  <1> HIDE DEF n, f
  <1>5. ASSUME NEW s \in Seq(Nat), NEW k \in Nat, k <= Len(s)
        PROVE  /\ SubSeq(s, 1, k) \in Seq(Nat) /\ Len(SubSeq(s, 1, k)) = k
               /\ \A i \in 1..k : SubSeq(s, 1, k)[i] = s[i]
    <2>1. 1 \in Int /\ k \in Int /\ \A i \in 1..k : s[i] \in Nat
      BY <1>5
    <2>2. /\ SubSeq(s, 1, k) \in Seq(Nat)
          /\ Len(SubSeq(s, 1, k)) = IF 1 <= k THEN k - 1 + 1 ELSE 0
          /\ \A i \in 1..(k - 1 + 1) : SubSeq(s, 1, k)[i] = s[1 + i - 1]
      BY <2>1, SubSeqProperties
    <2> QED
      BY <2>2
  <1>6. CASE len <= n
    <2>1. /\ SubSeq(Contents(b), 1, len) \in Seq(Nat)
          /\ Len(SubSeq(Contents(b), 1, len)) = len
          /\ \A i \in 1..len : SubSeq(Contents(b), 1, len)[i] = Contents(b)[i]
      BY <1>1, <1>5, <1>6
    <2>2. \A i \in 1..len : f[i] = Contents(b)[i]
      BY <1>1, <1>4, <1>6
    <2>3. f = SubSeq(Contents(b), 1, len)
      BY <1>3, <2>1, <2>2, SeqEqual
    <2> QED
      BY <1>1, <1>3, <1>6, <2>3 DEF f, n
  <1>7. CASE n < len
    <2>1. /\ SubSeq(f, 1, n) \in Seq(Nat) /\ Len(SubSeq(f, 1, n)) = n
          /\ \A i \in 1..n : SubSeq(f, 1, n)[i] = f[i]
      BY <1>1, <1>3, <1>5, <1>7
    <2>2. \A i \in 1..n : f[i] = Contents(b)[i]
      BY <1>1, <1>4, <1>7
    <2>3. SubSeq(f, 1, n) = Contents(b)
      BY <1>1, <2>1, <2>2, SeqEqual
    <2> QED
      BY <1>1, <1>3, <1>7, <2>3 DEF f, n
  <1> QED
    BY <1>1, <1>6, <1>7

-----------------------------------------------------------------------------
(* The operations. What they share: the buffer stays valid, and is not     *)
(* larger than it was or than its contents call for.                       *)

LEMMA ArrivingIs ==
    ASSUME NEW n \in Nat, arrived \in Nat
    PROVE  Arriving(n) \in Seq(Nat) /\ Len(Arriving(n)) = n
  <1>1. Arriving(n) \in [1..n -> Nat]
    BY DEF Arriving
  <1> QED
    BY <1>1, FunctionIsSeq

\* The buffer may become c without breaking an invariant.
Fits(c) ==
    /\ Valid(c)
    /\ readableBytes(c) \in Nat
    /\ Len(c.buffer_) <= Higher(Len(buf.buffer_), kCheapPrepend + 2 * readableBytes(c))

LEMMA FittingHolds ==
    ASSUME TypeOK, GrowthBounded, NEW c, Fits(c), Holds(c)
    PROVE  Valid(buf') /\ peak' \in Nat /\ GrowthBounded'
  <1> DEFINE old == Len(buf.buffer_)
             new == Len(c.buffer_)
             r == readableBytes(c)
  <1>1. /\ old \in Nat /\ new \in Nat /\ r \in Nat /\ peak \in Nat
        /\ kCheapPrepend \in Nat /\ kInitialSize \in Nat
    BY Indices, SizesAssumption DEF TypeOK, Fits
  <1>2. new <= Higher(old, kCheapPrepend + 2 * r)
    BY DEF Fits
  <1>3. old <= kCheapPrepend + Higher(kInitialSize, 2 * peak)
    BY DEF GrowthBounded
  <1>4. buf' = c /\ peak' = Higher(peak, r)
    BY DEF Holds
  <1> HIDE DEF old, new, r
  <1>5. new <= kCheapPrepend + Higher(kInitialSize, 2 * Higher(peak, r))
    BY <1>1, <1>2, <1>3 DEF Higher
  <1>6. Higher(peak, r) \in Nat
    BY <1>1 DEF Higher
  <1> QED
    BY <1>4, <1>5, <1>6 DEF Fits, GrowthBounded, new

LEMMA TookFits ==
    ASSUME Valid(buf), NEW c, NEW data, Took(buf, c, data)
    PROVE  Fits(c)
  BY ContentsElements DEF Took, Fits

LEMMA RetrievedFits ==
    ASSUME Valid(buf), NEW len \in Nat
    PROVE  Fits(Retrieved(buf, len))
  <1> DEFINE c == Retrieved(buf, len)
  <1>1. Valid(c) /\ Len(c.buffer_) = Len(buf.buffer_) /\ readableBytes(c) \in Nat
    BY RetrievedKeeps
  <1>2. Len(buf.buffer_) \in Nat
    BY Indices
  <1> HIDE DEF c
  <1>3. Len(c.buffer_) <= Higher(Len(buf.buffer_), kCheapPrepend + 2 * readableBytes(c))
    BY <1>1, <1>2, SizesAssumption DEF Higher
  <1> QED
    BY <1>1, <1>3 DEF Fits, c

\* The bytes that readFd takes are no more than those that wait.
LEMMA TakesAvailable ==
    ASSUME Valid(buf), NEW available \in Nat
    PROVE  /\ Lower(available, Capacity(buf)) \in Nat
           /\ Lower(available, Capacity(buf)) <= available
  <1>1. writableBytes(buf) \in Nat /\ ExtraSize \in Nat
    BY Indices, SizesAssumption DEF writableBytes
  <1>2. Capacity(buf) \in Nat
    BY <1>1 DEF Capacity
  <1> QED
    BY <1>2 DEF Lower

-----------------------------------------------------------------------------
(* The invariants.                                                         *)

LEMMA InitHolds == Init => TypeOK /\ GrowthBounded
  <1> SUFFICES ASSUME Init PROVE TypeOK /\ GrowthBounded
    OBVIOUS
  <1> DEFINE f == [i \in 1..(kCheapPrepend + kInitialSize) |-> Zero]
  <1>1. kCheapPrepend + kInitialSize \in Nat
    BY SizesAssumption
  <1>2. f \in Seq(Nat) /\ Len(f) = kCheapPrepend + kInitialSize
    <2>1. f \in [1..(kCheapPrepend + kInitialSize) -> Nat]
      BY DEF Zero
    <2> QED
      BY <1>1, <2>1, FunctionIsSeq
  <1>3. buf = Members(f, kCheapPrepend, kCheapPrepend)
    BY DEF Init
  <1> HIDE DEF f
  <1>4. Valid(buf) /\ buf.buffer_ = f
    BY <1>2, <1>3, MembersAre, SizesAssumption
  <1>5. taken \in Seq(Nat) /\ peak = 0 /\ arrived \in 0..MaxBytes
    BY SizesAssumption DEF Init
  <1> QED
    BY <1>2, <1>4, <1>5, SizesAssumption DEF TypeOK, GrowthBounded, Higher

LEMMA NextHolds == TypeOK /\ GrowthBounded /\ [Next]_vars => (TypeOK /\ GrowthBounded)'
  <1> SUFFICES ASSUME TypeOK, GrowthBounded, [Next]_vars
               PROVE  TypeOK' /\ GrowthBounded'
    OBVIOUS
  <1>1. /\ Valid(buf) /\ arrived \in Nat /\ arrived <= MaxBytes
        /\ taken \in Seq(Nat) /\ peak \in Nat
    BY DEF TypeOK
  <1>2. ASSUME NEW n \in 1..MaxBytes, AppendBytes(n)
        PROVE  TypeOK' /\ GrowthBounded'
    <2>1. Arriving(n) \in Seq(Nat)
      BY <1>1, ArrivingIs
    <2>2. Fits(Appended(buf, Arriving(n)))
      BY <1>1, <2>1, AppendedKeeps, TookFits
    <2>3. Holds(Appended(buf, Arriving(n)))
      BY <1>2 DEF AppendBytes
    <2>4. Valid(buf') /\ peak' \in Nat /\ GrowthBounded'
      BY <2>2, <2>3, FittingHolds
    <2>5. arrived' \in 0..MaxBytes /\ taken' \in Seq(Nat)
      BY <1>1, <1>2, SizesAssumption DEF AppendBytes
    <2> QED
      BY <2>4, <2>5 DEF TypeOK
  <1>3. ASSUME NEW n \in 1..MaxBytes, ReadFd(n)
        PROVE  TypeOK' /\ GrowthBounded'
    <2> DEFINE k == Lower(n, Capacity(buf))
    <2>1. k \in Nat /\ k <= n
      BY <1>1, TakesAvailable
    <2>2. /\ arrived + n <= MaxBytes
          /\ Holds(FilledFromFd(buf, Arriving(k)))
          /\ arrived' = arrived + k /\ taken' = taken
      BY <1>3 DEF ReadFd
    <2> HIDE DEF k
    <2>3. Arriving(k) \in Seq(Nat)
      BY <1>1, <2>1, ArrivingIs
    <2>4. Fits(FilledFromFd(buf, Arriving(k)))
      BY <1>1, <2>3, FilledFromFdKeeps, TookFits
    <2>5. Valid(buf') /\ peak' \in Nat /\ GrowthBounded'
      BY <2>2, <2>4, FittingHolds
    <2>6. arrived' \in 0..MaxBytes /\ taken' \in Seq(Nat)
      BY <1>1, <2>1, <2>2, SizesAssumption
    <2> QED
      BY <2>5, <2>6 DEF TypeOK
  <1>4. ASSUME NEW n \in 1..MaxBytes, Retrieve(n) \/ RetrieveAsString(n) \/ WriteFd(n)
        PROVE  TypeOK' /\ GrowthBounded'
    <2>1. Fits(Retrieved(buf, n))
      BY <1>1, RetrievedFits
    <2>2. Holds(Retrieved(buf, n)) /\ arrived' = arrived
      BY <1>4 DEF Retrieve, RetrieveAsString, WriteFd
    <2>3. Valid(buf') /\ peak' \in Nat /\ GrowthBounded'
      BY <2>1, <2>2, FittingHolds
    <2>4. taken' \in Seq(Nat)
      BY <1>1, <1>4, FromPeekIs DEF Retrieve, RetrieveAsString, WriteFd
    <2> QED
      BY <1>1, <2>2, <2>3, <2>4 DEF TypeOK
  <1>5. CASE UNCHANGED vars
    BY <1>5 DEF vars, TypeOK, GrowthBounded, Valid, Higher
  <1> QED
    BY <1>2, <1>3, <1>4, <1>5 DEF Next

\* No copy of append, makeSpace or readFd leaves the vector, and the indices stay in
\* order, for any sizes and any sequence of calls (Buffer.h:44-127, Buffer.cpp:7-45).
THEOREM TypeCorrect == Spec => []TypeOK
  <1>1. Init => TypeOK /\ GrowthBounded
    BY InitHolds
  <1>2. TypeOK /\ GrowthBounded /\ [Next]_vars => (TypeOK /\ GrowthBounded)'
    BY NextHolds
  <1> QED
    BY <1>1, <1>2, PTL DEF Spec

\* The vector never outgrows what it was made with and twice its largest contents: the
\* move is what makes it so (Buffer.h:113-125).
THEOREM GrowthIsBounded == Spec => []GrowthBounded
  <1>1. Init => TypeOK /\ GrowthBounded
    BY InitHolds
  <1>2. TypeOK /\ GrowthBounded /\ [Next]_vars => (TypeOK /\ GrowthBounded)'
    BY NextHolds
  <1> QED
    BY <1>1, <1>2, PTL DEF Spec

-----------------------------------------------------------------------------
(* The refinement.                                                         *)

LEMMA InitImplements == Init => Queue!BQInit
  <1> SUFFICES ASSUME Init PROVE Queue!BQInit
    OBVIOUS
  <1>1. Valid(buf)
    BY InitHolds DEF TypeOK
  <1>2. readableBytes(buf) = 0
    BY SizesAssumption DEF Init, Members, readableBytes
  <1>3. Contents(buf) = <<>>
    BY <1>1, <1>2, ContentsElements, EmptySeq
  <1> QED
    BY <1>3 DEF Init, Queue!BQInit

\* n more bytes behind the contents are a Put.
LEMMA PutImplements ==
    ASSUME TypeOK, NEW c, NEW n \in 0..MaxBytes,
           Took(buf, c, Arriving(n)), buf' = c, arrived' = arrived + n, taken' = taken
    PROVE  Queue!BQNext
  <1>1. Contents(buf)' = Contents(buf')
    BY DEF Contents
  <1>2. Contents(buf') = Contents(buf) \o Arriving(n)
    BY DEF Took
  <1>3. Arriving(n) = Queue!Arriving(arrived, n)
    BY DEF Arriving, Queue!Arriving
  <1>4. Queue!Put(n)
    BY <1>1, <1>2, <1>3 DEF Queue!Put
  <1> QED
    BY <1>4 DEF Queue!BQNext

LEMMA NextImplements == TypeOK /\ [Next]_vars => [Queue!BQNext]_(Queue!bqVars)
  <1> SUFFICES ASSUME TypeOK, [Next]_vars PROVE [Queue!BQNext]_(Queue!bqVars)
    OBVIOUS
  <1>1. /\ Valid(buf) /\ arrived \in Nat
        /\ Contents(buf) \in Seq(Nat) /\ Len(Contents(buf)) = readableBytes(buf)
        /\ readableBytes(buf) \in Nat
    BY ContentsElements DEF TypeOK
  <1>2. Contents(buf)' = Contents(buf')
    BY DEF Contents
  <1>3. ASSUME NEW n \in 1..MaxBytes, AppendBytes(n)
        PROVE  Queue!BQNext
    <2>1. Took(buf, Appended(buf, Arriving(n)), Arriving(n))
      BY <1>1, ArrivingIs, AppendedKeeps
    <2>2. n \in 0..MaxBytes
      OBVIOUS
    <2> QED
      BY <1>3, <2>1, <2>2, PutImplements DEF AppendBytes, Holds
  <1>4. ASSUME NEW n \in 1..MaxBytes, ReadFd(n)
        PROVE  Queue!BQNext
    <2> DEFINE k == Lower(n, Capacity(buf))
    <2>1. k \in Nat /\ k <= n
      BY <1>1, TakesAvailable
    <2>2. buf' = FilledFromFd(buf, Arriving(k)) /\ arrived' = arrived + k /\ taken' = taken
      BY <1>4 DEF ReadFd, Holds
    <2> HIDE DEF k
    <2>3. Took(buf, FilledFromFd(buf, Arriving(k)), Arriving(k))
      BY <1>1, <2>1, ArrivingIs, FilledFromFdKeeps
    <2>4. k \in 0..MaxBytes
      BY <2>1, SizesAssumption
    <2> QED
      BY <2>2, <2>3, <2>4, PutImplements
  <1>5. ASSUME NEW n \in 1..MaxBytes, Retrieve(n)
        PROVE  Queue!BQNext
    <2>1. Contents(buf') = SubSeq(Contents(buf), n + 1, Len(Contents(buf)))
      BY <1>1, <1>5, RetrievedKeeps DEF Retrieve, Holds
    <2>2. Queue!Drop(n)
      BY <1>2, <1>5, <2>1 DEF Retrieve, Queue!Drop
    <2> QED
      BY <2>2 DEF Queue!BQNext
  <1>6. ASSUME NEW n \in 1..MaxBytes, RetrieveAsString(n) \/ WriteFd(n)
        PROVE  Queue!BQNext
    <2>1. taken' = FromPeek(buf, n) /\ buf' = Retrieved(buf, n) /\ arrived' = arrived
      BY <1>6 DEF RetrieveAsString, WriteFd, Holds
    <2>2. Contents(buf') = SubSeq(Contents(buf), n + 1, Len(Contents(buf)))
      BY <1>1, <2>1, RetrievedKeeps
    <2> DEFINE p == FromPeek(buf, n)
    <2>3. /\ Len(p) = n
          /\ n <= readableBytes(buf) => p = SubSeq(Contents(buf), 1, n)
          /\ readableBytes(buf) < n => SubSeq(p, 1, Len(Contents(buf))) = Contents(buf)
      <3>1. n \in Nat
        OBVIOUS
      <3> QED
        BY <1>1, <3>1, FromPeekIs
    <2> HIDE DEF p
    <2>4. taken' = p
      BY <2>1 DEF p
    <2>5. CASE n <= readableBytes(buf)
      <3>1. taken' = SubSeq(Contents(buf), 1, n)
        BY <2>5, <2>3, <2>4
      <3>2. Queue!Take(n)
        BY <1>1, <1>2, <2>1, <2>2, <2>5, <3>1 DEF Queue!Take
      <3> QED
        BY <3>2 DEF Queue!BQNext
    <2>6. CASE readableBytes(buf) < n
      <3>1. /\ Len(taken') = n
            /\ SubSeq(taken', 1, Len(Contents(buf))) = Contents(buf)
        BY <2>6, <2>3, <2>4
      <3>2. Contents(buf') = <<>>
        BY <1>1, <2>2, <2>6, SubSeqEmpty
      <3>3. Queue!TakeTooMuch(n)
        BY <1>1, <1>2, <2>1, <2>6, <3>1, <3>2 DEF Queue!TakeTooMuch
      <3> QED
        BY <3>3 DEF Queue!BQNext
    <2> QED
      BY <1>1, <2>5, <2>6
  <1>7. CASE UNCHANGED vars
    BY <1>7 DEF vars, Queue!bqVars, Contents
  <1> QED
    BY <1>3, <1>4, <1>5, <1>6, <1>7 DEF Next

\* Whatever the sizes, a Buffer is a queue of bytes: nothing is lost, repeated or
\* reordered by moves, growth, or reads that spill (Buffer.h, Buffer.cpp).
THEOREM BufferImplementsByteQueue == Spec => ImplementsByteQueue
  <1>1. Init => Queue!BQInit
    BY InitImplements
  <1>2. TypeOK /\ [Next]_vars => [Queue!BQNext]_(Queue!bqVars)
    BY NextImplements
  <1> QED
    BY <1>1, <1>2, TypeCorrect, PTL DEF Spec, ImplementsByteQueue, Queue!BQSpec
=============================================================================
