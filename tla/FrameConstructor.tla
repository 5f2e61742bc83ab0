-------------------------- MODULE FrameConstructor --------------------------
(***************************************************************************)
(* IMfxGstFrameConstuctor and MfxBitstreamLoader                           *)
(* (wrappers/include/mfx_gst_frame_constructor.h and its .cpp): what the   *)
(* decoder reads of the coded buffers, and where it waits meanwhile.       *)
(*                                                                         *)
(* The decoder consumes a buffer in pieces and may leave a tail.  The tail *)
(* of current_bst_ is saved in buffered_bst_ when the buffer goes, and the *)
(* next buffer is appended to it.  A byte is its position in the stream;   *)
(* the header ConstructHeader() makes of an avcC record is part of the     *)
(* stream.  fc_ is used by one thread at a time.  Failing allocations are  *)
(* left out.                                                               *)
(***************************************************************************)
EXTENDS Integers, Sequences

CONSTANTS
  MaxBytes,  \* bound: bytes in the stream
  Avcc       \* MfxGstFC_AVCC (or MfxGstFC_NoChange)

ASSUME BytesAssumption == MaxBytes \in Nat
ASSUME AvccAssumption == Avcc \in BOOLEAN

VARIABLES
  buffered_bst_,      \* the bitstream that owns its memory
  current_bst_,       \* what is left of the loaded buffer
  loader, loaded_,    \* the MfxBitstreamLoader there is, and its flag
  received, consumed  \* bytes accepted; bytes the decoder read

vars == <<buffered_bst_, current_bst_, loader, loaded_, received, consumed>>

NoMemory == -1

(***************************************************************************)
(* buffered_bst_: alloc bytes of heap, of which the code believes there    *)
(* are MaxLength; bytes are the DataLength bytes at DataOffset.  A write   *)
(* past the block is overrun.                                              *)
(***************************************************************************)
Buffer ==
  [alloc : Nat \cup {NoMemory}, MaxLength : Nat, DataOffset : Nat, bytes : Seq(Nat),
   overrun : BOOLEAN]

TypeOK ==
  /\ buffered_bst_ \in Buffer
  /\ loader \in {"none", "caps", "data"} /\ loaded_ \in BOOLEAN
  /\ current_bst_ \in Seq(Nat) /\ (~loaded_ => current_bst_ = <<>>)
  /\ received \in 0 .. MaxBytes
  /\ consumed \in Seq(Nat)

Init ==
  /\ buffered_bst_ = [alloc |-> NoMemory, MaxLength |-> 0, DataOffset |-> 0,
                      bytes |-> <<>>, overrun |-> FALSE]
  /\ current_bst_ = <<>>
  /\ loader = "none" /\ loaded_ = FALSE
  /\ received = 0 /\ consumed = <<>>

\* Bytes n + 1 .. n + k of the stream.
Piece(n, k) == [i \in 1 .. k |-> n + i]

Drop(s, k) == SubSeq(s, k + 1, Len(s))

-----------------------------------------------------------------------------
(* MfxBistreamBuffer::Append()                                             *)

\* The first two branches: new memory, or the memory there is.
Overwrite(b, s) ==
  LET size == IF b.alloc = NoMemory \/ b.MaxLength < Len(s) THEN Len(s) ELSE b.alloc
      max == IF b.alloc = NoMemory \/ b.MaxLength < Len(s) THEN Len(s) ELSE b.MaxLength
  IN  [alloc |-> size, MaxLength |-> max, DataOffset |-> 0, bytes |-> s,
       overrun |-> b.overrun \/ Len(s) > size]

\* The last: the bytes come behind those buffered, where the block may end.
AppendInPlace(b, s) ==
  [alloc |-> b.alloc, MaxLength |-> b.MaxLength, DataOffset |-> b.DataOffset,
   bytes |-> b.bytes \o s,
   overrun |-> b.overrun \/ b.DataOffset + Len(b.bytes) + Len(s) > b.alloc]

\* Mutant of Reallocate: MaxLength forgets the offset.
ReallocateShort(b, s) ==
  [alloc |-> b.DataOffset + Len(b.bytes) + Len(s),
   MaxLength |-> Len(b.bytes) + Len(s),
   DataOffset |-> b.DataOffset, bytes |-> b.bytes \o s, overrun |-> b.overrun]

\* MaxLength is computed when DataLength has grown already: it counts s twice.
Reallocate(b, s) ==
  [alloc |-> b.DataOffset + Len(b.bytes) + Len(s),
   MaxLength |-> b.DataOffset + Len(b.bytes) + Len(s) + Len(s),
   DataOffset |-> b.DataOffset, bytes |-> b.bytes \o s, overrun |-> b.overrun]

\* Mutant of AppendTo: bytes still buffered are not looked at.
AppendOver(b, s) ==
  IF b.MaxLength - b.DataOffset - Len(b.bytes) < Len(s) THEN Reallocate(b, s)
                                                        ELSE Overwrite(b, s)

AppendTo(b, s) ==
  IF b.alloc = NoMemory \/ b.bytes = <<>> THEN Overwrite(b, s)
  ELSE IF b.MaxLength - b.DataOffset - Len(b.bytes) < Len(s) THEN Reallocate(b, s)
  ELSE AppendInPlace(b, s)

\* Mutant of Sync: the tail of the loaded buffer is dropped.
SyncDropsTail == [buffered_bst_ EXCEPT !.DataOffset = 0]

\* Sync(): what is buffered moves to the front, the tail of the loaded buffer
\* comes behind it.
Sync ==
  LET moved == [buffered_bst_ EXCEPT !.DataOffset = 0]
  IN  IF current_bst_ = <<>> THEN moved ELSE AppendTo(moved, current_bst_)

-----------------------------------------------------------------------------
(* The loader and the decoder.  A write past the block is undefined        *)
(* behaviour: nothing is said of what follows, and the model stops there.  *)

\* CheckAndSetCaps(), for the codec_data of the caps, makes a loader and loads it
\* once; FillVideoParams() and DecodeFrameAsync() make one for the coming buffers.
Open ==
  /\ loader = "none" /\ ~buffered_bst_.overrun
  /\ loader' \in {"caps", "data"}
  /\ UNCHANGED <<buffered_bst_, current_bst_, loaded_, received, consumed>>

\* LoadBuffer(): unload what is loaded; the n bytes then come behind those
\* buffered, or become the current ones.
LoadBuffer ==
  /\ loader = "data" \/ (loader = "caps" /\ ~Avcc /\ ~loaded_)
  /\ ~buffered_bst_.overrun
  /\ loaded_' = TRUE
  /\ \E n \in 0 .. MaxBytes - received :
       LET b == IF loaded_ THEN Sync ELSE buffered_bst_
           s == Piece(received, n)
       IN  /\ received' = received + n
           /\ buffered_bst_' = IF b.bytes = <<>> THEN b ELSE AppendTo(b, s)
           /\ current_bst_' = IF b.bytes = <<>> THEN s ELSE <<>>
  /\ UNCHANGED <<loader, consumed>>

\* LoadBuffer() of a buffer that cannot be mapped: nothing comes of it.
LoadNothing ==
  /\ loader = "data" /\ ~buffered_bst_.overrun
  /\ loaded_' = TRUE
  /\ LET b == IF loaded_ THEN Sync ELSE buffered_bst_
     IN  buffered_bst_' = IF b.bytes = <<>> THEN b ELSE [b EXCEPT !.DataOffset = 0]
  /\ current_bst_' = <<>>
  /\ UNCHANGED <<loader, received, consumed>>

\* LoadBuffer() of the codec_data of an avcC stream: the header made of it is
\* buffered, unless the record is broken, which goes unnoticed.
LoadHeader ==
  /\ Avcc
  /\ loader = "caps" /\ ~loaded_ /\ ~buffered_bst_.overrun
  /\ loaded_' = TRUE
  /\ \/ \E n \in 0 .. MaxBytes - received :
          /\ received' = received + n
          /\ buffered_bst_' = AppendTo(buffered_bst_, Piece(received, n))
     \/ UNCHANGED <<received, buffered_bst_>>
  /\ UNCHANGED <<current_bst_, loader, consumed>>

\* The decoder reads k bytes of GetMfxBitstream(): what is buffered comes first.
Consume ==
  /\ loader # "none" /\ ~buffered_bst_.overrun
  /\ IF buffered_bst_.bytes # <<>>
       THEN \E k \in 0 .. Len(buffered_bst_.bytes) :
              /\ consumed' = consumed \o SubSeq(buffered_bst_.bytes, 1, k)
              /\ buffered_bst_' = [buffered_bst_ EXCEPT !.DataOffset = @ + k,
                                                        !.bytes = Drop(@, k)]
              /\ UNCHANGED current_bst_
       ELSE \E k \in 0 .. Len(current_bst_) :
              /\ consumed' = consumed \o SubSeq(current_bst_, 1, k)
              /\ current_bst_' = Drop(current_bst_, k)
              /\ UNCHANGED buffered_bst_
  /\ UNCHANGED <<loader, loaded_, received>>

\* ~MfxBitstreamLoader() unloads what is loaded.
Close ==
  /\ loader # "none" /\ ~buffered_bst_.overrun
  /\ loader' = "none" /\ loaded_' = FALSE
  /\ buffered_bst_' = IF loaded_ THEN Sync ELSE buffered_bst_
  /\ current_bst_' = <<>>
  /\ UNCHANGED <<received, consumed>>

Next == Open \/ LoadBuffer \/ LoadNothing \/ LoadHeader \/ Consume \/ Close

Spec == Init /\ [][Next]_vars

-----------------------------------------------------------------------------
(* Properties.                                                             *)

(***************************************************************************)
(* No byte is lost, duplicated or moved, whatever the decoder leaves and   *)
(* wherever the tail is saved: what was consumed, is buffered and is       *)
(* current is what was received, in order.                                 *)
(***************************************************************************)
InOrder ==
  consumed \o buffered_bst_.bytes \o current_bst_ = Piece(0, received)

(***************************************************************************)
(* MaxLength - DataOffset - DataLength, of mfxU32 values, does not wrap    *)
(* around in the test of Append() for enough memory.                       *)
(***************************************************************************)
WithinMaxLength ==
  buffered_bst_.DataOffset + Len(buffered_bst_.bytes) <= buffered_bst_.MaxLength

\* The frame constructor keeps the promise of ByteStream.
Stream == INSTANCE ByteStream
StreamSpec == Stream!Spec
=============================================================================
