----------------------------- MODULE ByteStream -----------------------------
(***************************************************************************)
(* What a frame constructor promises the decoder: it reads the bytes that  *)
(* were loaded, each once, in the order they came, however they were cut   *)
(* into buffers.  A byte is its position in the stream.                    *)
(***************************************************************************)
EXTENDS Naturals, Sequences

CONSTANT MaxBytes  \* bound: bytes in the stream

VARIABLES received, consumed

Init == received = 0 /\ consumed = <<>>

\* Bytes n + 1 .. n + k of the stream.
Piece(n, k) == [i \in 1 .. k |-> n + i]

Receive ==
  /\ \E n \in 0 .. MaxBytes - received : received' = received + n
  /\ UNCHANGED consumed

Consume ==
  /\ \E k \in 0 .. received - Len(consumed) :
       consumed' = consumed \o Piece(Len(consumed), k)
  /\ UNCHANGED received

Next == Receive \/ Consume

Spec == Init /\ [][Next]_<<received, consumed>>
=============================================================================
