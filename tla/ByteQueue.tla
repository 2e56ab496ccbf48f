------------------------------ MODULE ByteQueue ------------------------------
(***************************************************************************)
(* What a Buffer promises: bytes come out in the order in which they went  *)
(* in, none missing and none twice, whoever puts them (append, a socket)   *)
(* and whoever takes them (the user, a socket). Indices, moves and growth  *)
(* do not appear here. Bytes are numbered in the order of their arrival.   *)
(***************************************************************************)
EXTENDS Naturals, Sequences

CONSTANT MaxBytes   \* bound: how many bytes arrive

VARIABLES
    bytes,          \* the bytes in the queue, oldest first
    arrived,        \* how many have arrived
    taken           \* what the last taker was given

bqVars == <<bytes, arrived, taken>>

\* The n bytes that arrive after the first k.
Arriving(k, n) == [i \in 1..n |-> k + i]

BQInit ==
    /\ bytes = <<>>
    /\ arrived = 0
    /\ taken = <<>>

Put(n) ==
    /\ bytes' = bytes \o Arriving(arrived, n)
    /\ arrived' = arrived + n
    /\ UNCHANGED taken

Take(n) ==
    /\ n <= Len(bytes)
    /\ taken' = SubSeq(bytes, 1, n)
    /\ bytes' = SubSeq(bytes, n + 1, Len(bytes))
    /\ UNCHANGED arrived

\* Who asks for more than there is empties the queue, and can rely only on the
\* beginning of what he is given.
TakeTooMuch(n) ==
    /\ n > Len(bytes)
    /\ Len(taken') = n
    /\ SubSeq(taken', 1, Len(bytes)) = bytes
    /\ bytes' = <<>>
    /\ UNCHANGED arrived

\* n may be more than there is.
Drop(n) ==
    /\ bytes' = SubSeq(bytes, n + 1, Len(bytes))
    /\ UNCHANGED <<arrived, taken>>

BQNext == \E n \in 0..MaxBytes : Put(n) \/ Take(n) \/ TakeTooMuch(n) \/ Drop(n)

BQSpec == BQInit /\ [][BQNext]_bqVars
=============================================================================
