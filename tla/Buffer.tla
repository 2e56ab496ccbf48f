------------------------------- MODULE Buffer -------------------------------
(***************************************************************************)
(* Buffer.h and Buffer.cpp: a vector with two indices. The readable bytes  *)
(* are those from readerIndex_ to writerIndex_; the room before them is    *)
(* won back by moving them down, and the vector grows when that is not     *)
(* enough. readFd reads into the room and a second buffer on the stack.    *)
(*                                                                         *)
(* A Buffer belongs to one loop, so that its calls do not overlap. Its     *)
(* operations are operators on a record of its members; those that take    *)
(* room and copy in one call compose as the calls do.                      *)
(***************************************************************************)
EXTENDS Integers, Sequences

CONSTANTS
    kCheapPrepend,
    kInitialSize,
    ExtraSize,      \* sizeof(extrabuf) in readFd
    MaxBytes        \* bound: how many bytes arrive in all

ASSUME SizesAssumption ==
    /\ kCheapPrepend \in Nat
    /\ kInitialSize \in Nat
    /\ ExtraSize \in Nat \ {0}
    /\ MaxBytes \in Nat

VARIABLES
    buf,            \* buffer_, readerIndex_ and writerIndex_
    arrived,        \* how many bytes have been put into the buffer
    taken,          \* what the last taker was given
    peak            \* history: the most bytes that were readable at once

vars == <<buf, arrived, taken, peak>>

Zero == 0
Higher(m, n) == IF m > n THEN m ELSE n
Lower(m, n) == IF m < n THEN m ELSE n

Members(bytes, reader, writer) ==
    [buffer_ |-> bytes, readerIndex_ |-> reader, writerIndex_ |-> writer]

\* The byte at index i of the vector is element i + 1 of the sequence.
readableBytes(b) == b.writerIndex_ - b.readerIndex_
writableBytes(b) == Len(b.buffer_) - b.writerIndex_
prependableBytes(b) == b.readerIndex_
Contents(b) == SubSeq(b.buffer_, b.readerIndex_ + 1, b.writerIndex_)

Valid(b) ==
    /\ b \in [buffer_ : Seq(Nat), readerIndex_ : Nat, writerIndex_ : Nat]
    /\ kCheapPrepend <= b.readerIndex_
    /\ b.readerIndex_ <= b.writerIndex_
    /\ b.writerIndex_ <= Len(b.buffer_)

Init ==
    /\ buf = Members([i \in 1..(kCheapPrepend + kInitialSize) |-> Zero],
                     kCheapPrepend, kCheapPrepend)
    /\ arrived = 0
    /\ taken = <<>>
    /\ peak = 0

-----------------------------------------------------------------------------
(* Room and bytes.                                                         *)

\* buffer_.resize(size), with size no less than what it was.
Resized(b, size) ==
    Members([i \in 1..size |-> IF i <= Len(b.buffer_) THEN b.buffer_[i] ELSE Zero],
            b.readerIndex_, b.writerIndex_)

\* The readable bytes go down to kCheapPrepend.
Moved(b) ==
    LET shift == b.readerIndex_ - kCheapPrepend
        end == kCheapPrepend + readableBytes(b)
    IN  Members([i \in 1..Len(b.buffer_) |->
                     IF i \in (kCheapPrepend + 1)..end THEN b.buffer_[i + shift]
                                                       ELSE b.buffer_[i]],
                kCheapPrepend, end)

\* Mutation: the room that must stay in front of the bytes is not counted.
MakeSpaceOverPrepend(b, len) ==
    IF writableBytes(b) + prependableBytes(b) < len
    THEN Resized(b, b.writerIndex_ + len)
    ELSE Moved(b)

\* Mutation: the vector grows instead of moving its bytes.
MakeSpaceGrowing(b, len) == Resized(b, b.writerIndex_ + len)

MakeSpace(b, len) ==
    IF writableBytes(b) + prependableBytes(b) < len + kCheapPrepend
    THEN Resized(b, b.writerIndex_ + len)
    ELSE Moved(b)

EnsureWriteableBytes(b, len) ==
    IF writableBytes(b) < len THEN MakeSpace(b, len) ELSE b

\* Bytes are copied to beginWrite() and writerIndex_ advances.
Filled(b, data) ==
    Members([i \in 1..Len(b.buffer_) |->
                 IF i \in (b.writerIndex_ + 1)..(b.writerIndex_ + Len(data))
                 THEN data[i - b.writerIndex_]
                 ELSE b.buffer_[i]],
            b.readerIndex_, b.writerIndex_ + Len(data))

Appended(b, data) == Filled(EnsureWriteableBytes(b, Len(data)), data)

Retrieved(b, len) ==
    IF len < readableBytes(b)
    THEN Members(b.buffer_, b.readerIndex_ + len, b.writerIndex_)
    ELSE Members(b.buffer_, kCheapPrepend, kCheapPrepend)

\* How much readv can take: the second buffer is left out if the room is larger.
Capacity(b) ==
    IF writableBytes(b) > ExtraSize THEN writableBytes(b) ELSE writableBytes(b) + ExtraSize

\* Mutation: what is in extrabuf is left there.
FilledFromFdOnly(b, data) ==
    Filled(b, SubSeq(data, 1, Lower(Len(data), writableBytes(b))))

\* readFd when readv has read data: the room first, then extrabuf, which is appended.
FilledFromFd(b, data) ==
    IF Len(data) <= writableBytes(b)
    THEN Filled(b, data)
    ELSE LET room == writableBytes(b)
         IN  Appended(Filled(b, SubSeq(data, 1, room)), SubSeq(data, room + 1, Len(data)))

\* len bytes from peek() on. What is outside the vector may be anything.
FromPeek(b, len) ==
    [i \in 1..len |-> IF b.readerIndex_ + i <= Len(b.buffer_)
                      THEN b.buffer_[b.readerIndex_ + i]
                      ELSE Zero]

-----------------------------------------------------------------------------
(* The operations.                                                         *)

\* The n bytes that arrive next.
Arriving(n) == [i \in 1..n |-> arrived + i]

Holds(b) ==
    /\ buf' = b
    /\ peak' = Higher(peak, readableBytes(b))

AppendBytes(n) ==
    /\ arrived + n <= MaxBytes
    /\ Holds(Appended(buf, Arriving(n)))
    /\ arrived' = arrived + n
    /\ UNCHANGED taken

\* available bytes wait in the socket.
ReadFd(available) ==
    LET n == Lower(available, Capacity(buf))
    IN  /\ arrived + available <= MaxBytes
        /\ Holds(FilledFromFd(buf, Arriving(n)))
        /\ arrived' = arrived + n
        /\ UNCHANGED taken

\* The caller may ask for more than there is.
Retrieve(len) ==
    /\ Holds(Retrieved(buf, len))
    /\ UNCHANGED <<arrived, taken>>

\* The string is copied before retrieve looks at len.
RetrieveAsString(len) ==
    /\ taken' = FromPeek(buf, len)
    /\ Holds(Retrieved(buf, len))
    /\ UNCHANGED arrived

\* TcpConnection::handleWrite: the socket takes n bytes, and they are retrieved.
WriteFd(n) ==
    /\ n <= readableBytes(buf)
    /\ taken' = FromPeek(buf, n)
    /\ Holds(Retrieved(buf, n))
    /\ UNCHANGED arrived

Next ==
    \E n \in 1..MaxBytes :
        \/ AppendBytes(n) \/ ReadFd(n)
        \/ Retrieve(n) \/ RetrieveAsString(n)
        \/ WriteFd(n)

Spec == Init /\ [][Next]_vars

-----------------------------------------------------------------------------
(* Properties.                                                             *)

\* The indices are in order and inside the vector after any sequence of calls: no copy
\* of append, makeSpace or readFd leaves it (Buffer.h:73-78, 111-126).
TypeOK ==
    /\ Valid(buf)
    /\ arrived \in 0..MaxBytes
    /\ taken \in Seq(Nat)
    /\ peak \in Nat

\* However long the stream, the vector is no larger than it was made or than twice the
\* most it ever had to hold: makeSpace grows only if moving is not enough.
GrowthBounded ==
    Len(buf.buffer_) <= kCheapPrepend + Higher(kInitialSize, 2 * peak)

Queue == INSTANCE ByteQueue WITH bytes <- Contents(buf)

\* The buffer is a queue of bytes whatever its indices do, across moves, growth, and
\* reads that spill into extrabuf.
ImplementsByteQueue == Queue!BQSpec
=============================================================================
