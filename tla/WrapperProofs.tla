--------------------------- MODULE WrapperProofs ----------------------------
(***************************************************************************)
(* Proofs about the wrappers of Media SDK objects around GStreamer's:      *)
(*                                                                         *)
(*   - FrameConstructor, for every MaxBytes, with and without avcC         *)
(*     conversion: type correctness, that no byte is lost or moved, that   *)
(*     MaxLength covers what is buffered, and that ByteStream is           *)
(*     implemented;                                                        *)
(*   - FrameReferences: the buffers a frame is made in, and the references *)
(*     and mappings that the wrappers of each branch have;                 *)
(*   - FramePool: the surfaces of a pool, and the allocator's responses.   *)
(*                                                                         *)
(* In the last two the invariant says who holds what, and equates each     *)
(* counter that the code keeps in an object with the number of holders.    *)
(***************************************************************************)
EXTENDS FrameConstructor, FramePool, FrameReferences, QueueCounts

-----------------------------------------------------------------------------
(* The frame constructor (FrameConstructor).                               *)

\* A buffer that has no memory has no bytes, and MaxLength covers its bytes.
GoodBuffer(b) ==
  /\ b \in Buffer
  /\ b.alloc = NoMemory => b.bytes = <<>>
  /\ b.DataOffset + Len(b.bytes) <= b.MaxLength

\* The inductive invariant.
IInv == TypeOK /\ GoodBuffer(buffered_bst_) /\ InOrder

-----------------------------------------------------------------------------
(* Sequences of bytes.                                                     *)

LEMMA PieceProperties ==
  ASSUME NEW n \in Nat, NEW k \in Nat
  PROVE  /\ Piece(n, k) \in Seq(Nat)
         /\ Len(Piece(n, k)) = k
         /\ \A i \in 1 .. k : Piece(n, k)[i] = n + i
  BY IsASeq DEF Piece

LEMMA PieceConcat ==
  ASSUME NEW n \in Nat, NEW k \in Nat
  PROVE  Piece(0, n) \o Piece(n, k) = Piece(0, n + k)
<1> DEFINE p == Piece(0, n) \o Piece(n, k)
<1>1. Piece(0, n) \in Seq(Nat) /\ Len(Piece(0, n)) = n
      /\ \A i \in 1 .. n : Piece(0, n)[i] = i
  <2>1. /\ Piece(0, n) \in Seq(Nat)
        /\ Len(Piece(0, n)) = n
        /\ \A i \in 1 .. n : Piece(0, n)[i] = 0 + i
    BY PieceProperties
  <2> QED BY <2>1
<1>2. Piece(n, k) \in Seq(Nat) /\ Len(Piece(n, k)) = k
      /\ \A i \in 1 .. k : Piece(n, k)[i] = n + i
  BY PieceProperties
<1>3. p \in Seq(Nat) /\ Len(p) = n + k
  BY <1>1, <1>2, ConcatProperties
<1>4. \A i \in 1 .. n + k : p[i] = i
  BY <1>1, <1>2, ConcatProperties
<1>5. Piece(0, n + k) \in Seq(Nat) /\ Len(Piece(0, n + k)) = n + k
      /\ \A i \in 1 .. n + k : Piece(0, n + k)[i] = i
  <2>1. n + k \in Nat
    OBVIOUS
  <2>2. /\ Piece(0, n + k) \in Seq(Nat)
        /\ Len(Piece(0, n + k)) = n + k
        /\ \A i \in 1 .. n + k : Piece(0, n + k)[i] = 0 + i
    BY <2>1, PieceProperties
  <2> QED BY <2>2
<1> HIDE DEF p
<1>6. p = Piece(0, n + k)
  BY <1>3, <1>4, <1>5, SeqEqual
<1> QED BY <1>6 DEF p

LEMMA SplitAt ==
  ASSUME NEW s \in Seq(Nat), NEW k \in 0 .. Len(s)
  PROVE  /\ SubSeq(s, 1, k) \in Seq(Nat) /\ Len(SubSeq(s, 1, k)) = k
         /\ \A i \in 1 .. k : SubSeq(s, 1, k)[i] = s[i]
         /\ Drop(s, k) \in Seq(Nat) /\ Len(Drop(s, k)) = Len(s) - k
         /\ SubSeq(s, 1, k) \o Drop(s, k) = s
<1> DEFINE a == SubSeq(s, 1, k)
           d == Drop(s, k)
<1>0. Len(s) \in Nat /\ \A i \in 1 .. Len(s) : s[i] \in Nat
  BY LenProperties, ElementOfSeq
<1>1. a \in Seq(Nat) /\ Len(a) = k /\ \A i \in 1 .. k : a[i] = s[i]
  <2>1. \A i \in 1 .. k : s[i] \in Nat
    BY <1>0
  <2> QED BY <1>0, <2>1, SubSeqProperties
<1>2. d \in Seq(Nat) /\ Len(d) = Len(s) - k
      /\ \A i \in 1 .. Len(s) - k : d[i] = s[k + i]
  <2>1. \A i \in k + 1 .. Len(s) : s[i] \in Nat
    BY <1>0
  <2> QED BY <1>0, <2>1, SubSeqProperties DEF Drop
<1> HIDE DEF a, d
<1>3. /\ a \o d \in Seq(Nat)
      /\ Len(a \o d) = Len(a) + Len(d)
      /\ \A i \in 1 .. Len(a) + Len(d) :
           (a \o d)[i] = IF i <= Len(a) THEN a[i] ELSE d[i - Len(a)]
  BY <1>1, <1>2, ConcatProperties
<1>4. Len(a \o d) = Len(s) /\ \A i \in 1 .. Len(s) : (a \o d)[i] = s[i]
  <2>1. Len(a) + Len(d) = Len(s) /\ k \in Nat
    BY <1>0, <1>1, <1>2
  <2>2. ASSUME NEW i \in 1 .. Len(s) PROVE (a \o d)[i] = s[i]
    <3>1. (a \o d)[i] = IF i <= Len(a) THEN a[i] ELSE d[i - Len(a)]
      BY <1>3, <2>1
    <3>2. CASE i <= k
      BY <1>1, <2>1, <3>1, <3>2
    <3>3. CASE ~(i <= k)
      <4>1. i - k \in 1 .. Len(s) - k /\ k + (i - k) = i
        BY <1>0, <2>1, <3>3
      <4>2. d[i - k] = s[k + (i - k)]
        BY <1>2, <4>1
      <4> QED BY <1>1, <3>1, <3>3, <4>1, <4>2
    <3> QED BY <3>2, <3>3
  <2> QED BY <1>3, <2>1, <2>2
<1>5. a \o d = s
  BY <1>0, <1>3, <1>4, SeqEqual
<1> QED BY <1>1, <1>2, <1>5 DEF a, d

LEMMA Associative ==
  \A a, s, t \in Seq(Nat) : (a \o s) \o t = a \o (s \o t)
  BY ConcatAssociative

\* Moving the front of the second sequence to the end of the first.
LEMMA MoveFront ==
  ASSUME NEW a \in Seq(Nat), NEW s \in Seq(Nat), NEW t \in Seq(Nat),
         NEW k \in 0 .. Len(s)
  PROVE  (a \o SubSeq(s, 1, k)) \o Drop(s, k) \o t = a \o s \o t
<1> DEFINE front == SubSeq(s, 1, k)
           rest == Drop(s, k)
<1>1. front \in Seq(Nat) /\ rest \in Seq(Nat) /\ front \o rest = s
  BY SplitAt
<1> HIDE DEF front, rest
<1>2. (a \o front) \o rest = a \o (front \o rest)
  BY <1>1, Associative
<1>3. (a \o front) \o rest \o t = a \o s \o t
  BY <1>1, <1>2
<1> QED BY <1>3 DEF front, rest

\* What comes after a in the stream is numbered from there.
LEMMA NextBytes ==
  ASSUME NEW a \in Seq(Nat), NEW s \in Seq(Nat), NEW t \in Seq(Nat), NEW r \in Nat,
         a \o s \o t = Piece(0, r), NEW k \in 0 .. Len(s)
  PROVE  /\ SubSeq(s, 1, k) = Piece(Len(a), k)
         /\ Len(a) + k <= r
<1>0. Len(a) \in Nat /\ Len(s) \in Nat /\ Len(t) \in Nat /\ k \in Nat
  BY LenProperties
<1>1. a \o s \in Seq(Nat) /\ Len(a \o s) = Len(a) + Len(s)
      /\ \A i \in 1 .. Len(a) + Len(s) :
           (a \o s)[i] = IF i <= Len(a) THEN a[i] ELSE s[i - Len(a)]
  BY ConcatProperties
<1>2. Len(a \o s \o t) = Len(a) + Len(s) + Len(t)
      /\ \A i \in 1 .. Len(a) + Len(s) : (a \o s \o t)[i] = (a \o s)[i]
  BY <1>0, <1>1, ConcatProperties
<1>3. Len(a) + Len(s) + Len(t) = r /\ \A i \in 1 .. r : (a \o s \o t)[i] = i
  <2> DEFINE whole == a \o s \o t
  <2>1. Len(Piece(0, r)) = r /\ \A i \in 1 .. r : Piece(0, r)[i] = 0 + i
    BY PieceProperties
  <2>2. whole = Piece(0, r) /\ Len(whole) = Len(a) + Len(s) + Len(t)
    BY <1>2
  <2> HIDE DEF whole
  <2>3. Len(a) + Len(s) + Len(t) = r
    BY <2>1, <2>2, Zenon
  <2>4. ASSUME NEW i \in 1 .. r PROVE whole[i] = i
    <3>1. whole[i] = 0 + i
      BY <2>1, <2>2, Zenon
    <3> QED BY <3>1
  <2> QED BY <2>3, <2>4 DEF whole
<1>4. \A i \in 1 .. k : s[i] = Len(a) + i
  <2> SUFFICES ASSUME NEW i \in 1 .. k PROVE s[i] = Len(a) + i
    OBVIOUS
  <2>1. Len(a) + i \in 1 .. Len(a) + Len(s) /\ Len(a) + i \in 1 .. r
    BY <1>0, <1>3
  <2>2. (a \o s)[Len(a) + i] = Len(a) + i
    BY <2>1, <1>2, <1>3
  <2>3. (a \o s)[Len(a) + i] = s[Len(a) + i - Len(a)]
    BY <2>1, <1>0, <1>1
  <2>4. Len(a) + i - Len(a) = i
    BY <1>0
  <2> QED BY <2>2, <2>3, <2>4
<1>5. SubSeq(s, 1, k) \in Seq(Nat) /\ Len(SubSeq(s, 1, k)) = k
      /\ \A i \in 1 .. k : SubSeq(s, 1, k)[i] = s[i]
  BY SplitAt
<1>6. Piece(Len(a), k) \in Seq(Nat) /\ Len(Piece(Len(a), k)) = k
      /\ \A i \in 1 .. k : Piece(Len(a), k)[i] = Len(a) + i
  BY <1>0, PieceProperties
<1>7. SubSeq(s, 1, k) = Piece(Len(a), k)
  <2>1. \A i \in 1 .. k : SubSeq(s, 1, k)[i] = Piece(Len(a), k)[i]
    BY <1>4, <1>5, <1>6
  <2> QED BY <2>1, <1>5, <1>6, SeqEqual
<1> QED BY <1>0, <1>3, <1>7

-----------------------------------------------------------------------------
(* Buffers.                                                                *)

LEMMA AppendToGood ==
  ASSUME NEW b, GoodBuffer(b), NEW s \in Seq(Nat)
  PROVE  /\ GoodBuffer(AppendTo(b, s))
         /\ AppendTo(b, s).bytes = b.bytes \o s
<1>0. b \in Buffer /\ b.bytes \in Seq(Nat) /\ b.MaxLength \in Nat /\ b.DataOffset \in Nat
      /\ b.alloc \in Nat \cup {NoMemory} /\ b.overrun \in BOOLEAN
      /\ Len(b.bytes) \in Nat /\ Len(s) \in Nat
      /\ b.DataOffset + Len(b.bytes) <= b.MaxLength
  BY LenProperties DEF GoodBuffer, Buffer
<1>1. b.bytes \o s \in Seq(Nat) /\ Len(b.bytes \o s) = Len(b.bytes) + Len(s)
  BY <1>0, ConcatProperties
<1>2. ASSUME b.alloc = NoMemory \/ b.bytes = <<>>
      PROVE  GoodBuffer(AppendTo(b, s)) /\ AppendTo(b, s).bytes = b.bytes \o s
  <2>1. b.bytes = <<>> /\ b.bytes \o s = s
    BY <1>2, ConcatEmptySeq DEF GoodBuffer
  <2>2. AppendTo(b, s) = Overwrite(b, s)
    BY <1>2 DEF AppendTo
  <2>3. GoodBuffer(Overwrite(b, s)) /\ Overwrite(b, s).bytes = s
    BY <1>0 DEF Overwrite, GoodBuffer, Buffer, NoMemory
  <2> QED BY <2>1, <2>2, <2>3
<1>3. ASSUME b.alloc # NoMemory, b.bytes # <<>>,
             b.MaxLength - b.DataOffset - Len(b.bytes) < Len(s)
      PROVE  GoodBuffer(AppendTo(b, s)) /\ AppendTo(b, s).bytes = b.bytes \o s
  <2>1. AppendTo(b, s) = Reallocate(b, s)
    BY <1>3 DEF AppendTo
  <2> DEFINE n == b.DataOffset + Len(b.bytes) + Len(s)
             c == b.bytes \o s
  <2>2. n \in Nat /\ n + Len(s) \in Nat /\ n # NoMemory /\ c \in Seq(Nat)
        /\ b.DataOffset + Len(c) <= n + Len(s)
    BY <1>0, <1>1 DEF NoMemory
  <2>3. Reallocate(b, s) =
          [alloc |-> n, MaxLength |-> n + Len(s), DataOffset |-> b.DataOffset,
           bytes |-> c, overrun |-> b.overrun]
    BY DEF Reallocate
  <2> HIDE DEF n, c
  <2>4. GoodBuffer(Reallocate(b, s)) /\ Reallocate(b, s).bytes = c
    BY <1>0, <2>2, <2>3 DEF GoodBuffer, Buffer
  <2> QED BY <2>1, <2>4 DEF c
<1>4. ASSUME b.alloc # NoMemory, b.bytes # <<>>,
             ~(b.MaxLength - b.DataOffset - Len(b.bytes) < Len(s))
      PROVE  GoodBuffer(AppendTo(b, s)) /\ AppendTo(b, s).bytes = b.bytes \o s
  <2>1. AppendTo(b, s) = AppendInPlace(b, s)
    BY <1>4 DEF AppendTo
  <2>2. GoodBuffer(AppendInPlace(b, s)) /\ AppendInPlace(b, s).bytes = b.bytes \o s
    BY <1>0, <1>1, <1>4 DEF AppendInPlace, GoodBuffer, Buffer, NoMemory
  <2> QED BY <2>1, <2>2
<1> QED BY <1>2, <1>3, <1>4

LEMMA MovedGood ==
  ASSUME NEW b, GoodBuffer(b)
  PROVE  /\ GoodBuffer([b EXCEPT !.DataOffset = 0])
         /\ [b EXCEPT !.DataOffset = 0].bytes = b.bytes
<1> DEFINE m == [b EXCEPT !.DataOffset = 0]
<1>1. b \in Buffer /\ b.bytes \in Seq(Nat) /\ b.DataOffset \in Nat /\ b.MaxLength \in Nat
  BY DEF GoodBuffer, Buffer
<1>2. Len(b.bytes) \in Nat
  BY <1>1, LenProperties
<1>3. m \in Buffer
  BY <1>1 DEF Buffer
<1>4. m.alloc = b.alloc /\ m.bytes = b.bytes /\ m.DataOffset = 0
      /\ m.MaxLength = b.MaxLength
  BY <1>1 DEF Buffer
<1> HIDE DEF m
<1>5. GoodBuffer(m) /\ m.bytes = b.bytes
  BY <1>1, <1>2, <1>3, <1>4 DEF GoodBuffer
<1> QED BY <1>5 DEF m

LEMMA SyncGood ==
  ASSUME GoodBuffer(buffered_bst_), current_bst_ \in Seq(Nat)
  PROVE  /\ GoodBuffer(Sync)
         /\ Sync.bytes = buffered_bst_.bytes \o current_bst_
<1> DEFINE moved == [buffered_bst_ EXCEPT !.DataOffset = 0]
<1>1. GoodBuffer(moved) /\ moved.bytes = buffered_bst_.bytes
  BY MovedGood
<1>2. CASE current_bst_ = <<>>
  <2>1. Sync = moved
    BY <1>2 DEF Sync
  <2>2. buffered_bst_.bytes \in Seq(Nat)
    BY DEF GoodBuffer, Buffer
  <2>3. buffered_bst_.bytes \o <<>> = buffered_bst_.bytes
    BY <2>2, ConcatEmptySeq
  <2> QED BY <1>1, <1>2, <2>1, <2>3
<1>3. CASE current_bst_ # <<>>
  <2>1. Sync = AppendTo(moved, current_bst_)
    BY <1>3 DEF Sync
  <2> HIDE DEF moved
  <2> QED BY <1>1, <2>1, AppendToGood
<1> QED BY <1>2, <1>3

\* What LoadBuffer(), LoadNothing() and Close() start from: nothing is current.
LEMMA UnloadedGood ==
  ASSUME IInv
  PROVE  LET b == IF loaded_ THEN Sync ELSE buffered_bst_
         IN  /\ GoodBuffer(b)
             /\ b.bytes \in Seq(Nat)
             /\ consumed \o b.bytes = Piece(0, received)
<1> DEFINE b == IF loaded_ THEN Sync ELSE buffered_bst_
<1>1. /\ GoodBuffer(buffered_bst_) /\ buffered_bst_.bytes \in Seq(Nat)
      /\ current_bst_ \in Seq(Nat) /\ consumed \in Seq(Nat)
      /\ (consumed \o buffered_bst_.bytes) \o current_bst_ = Piece(0, received)
  BY DEF IInv, TypeOK, InOrder, GoodBuffer, Buffer
<1>2. GoodBuffer(b) /\ b.bytes = buffered_bst_.bytes \o current_bst_
  <2>1. CASE loaded_
    BY <1>1, <2>1, SyncGood
  <2>2. CASE ~loaded_
    <3>1. current_bst_ = <<>>
      BY <2>2 DEF IInv, TypeOK
    <3> QED BY <1>1, <2>2, <3>1, ConcatEmptySeq
  <2> QED BY <2>1, <2>2
<1>3. consumed \o (buffered_bst_.bytes \o current_bst_) = Piece(0, received)
  BY <1>1, Associative
<1>4. b.bytes \in Seq(Nat)
  BY <1>2 DEF GoodBuffer, Buffer
<1> QED BY <1>2, <1>3, <1>4

-----------------------------------------------------------------------------
(* The inductive invariant.                                                *)

LEMMA InitIInv == Init => IInv
<1> SUFFICES ASSUME Init PROVE IInv
  OBVIOUS
<1>0. <<>> \in Seq(Nat)
  BY EmptySeq
<1>1. TypeOK
  <2>1. buffered_bst_ \in Buffer
    BY <1>0 DEF Init, Buffer
  <2>2. received \in 0 .. MaxBytes
    BY BytesAssumption DEF Init
  <2> QED BY <1>0, <2>1, <2>2 DEF Init, TypeOK
<1>2. GoodBuffer(buffered_bst_)
  BY EmptySeq DEF Init, GoodBuffer, Buffer, NoMemory
<1>3. Piece(0, 0) \in Seq(Nat) /\ Len(Piece(0, 0)) = 0
  BY PieceProperties
<1>4. Piece(0, 0) = <<>>
  BY <1>3, EmptySeq
<1>5. InOrder
  BY <1>4, ConcatEmptySeq, EmptySeq DEF Init, InOrder
<1> QED BY <1>1, <1>2, <1>5 DEF IInv

\* Accepting n bytes behind what is not consumed.
LEMMA Accept ==
  ASSUME NEW b \in Seq(Nat), NEW c \in Seq(Nat), NEW r \in Nat, NEW n \in Nat,
         c \o b = Piece(0, r)
  PROVE  c \o (b \o Piece(r, n)) = Piece(0, r + n)
<1>1. Piece(r, n) \in Seq(Nat)
  BY PieceProperties
<1>2. c \o (b \o Piece(r, n)) = (c \o b) \o Piece(r, n)
  BY <1>1, Associative
<1> QED BY <1>2, PieceConcat

LEMMA OpenStep == IInv /\ Open => IInv'
  BY DEF IInv, TypeOK, InOrder, GoodBuffer, Buffer, Open

LEMMA LoadBufferStep == IInv /\ LoadBuffer => IInv'
<1> SUFFICES ASSUME IInv, LoadBuffer PROVE IInv'
  OBVIOUS
<1> DEFINE b == IF loaded_ THEN Sync ELSE buffered_bst_
<1>1. PICK n \in 0 .. MaxBytes - received :
        /\ received' = received + n
        /\ buffered_bst_' = IF b.bytes = <<>> THEN b ELSE AppendTo(b, Piece(received, n))
        /\ current_bst_' = IF b.bytes = <<>> THEN Piece(received, n) ELSE <<>>
  BY DEF LoadBuffer
<1>2. loaded_' = TRUE /\ loader' = loader /\ consumed' = consumed
  BY DEF LoadBuffer
<1>3. GoodBuffer(b) /\ b.bytes \in Seq(Nat) /\ consumed \o b.bytes = Piece(0, received)
  BY UnloadedGood
<1> DEFINE s == Piece(received, n)
           bs == b.bytes
<1>4. received \in Nat /\ n \in Nat /\ consumed \in Seq(Nat)
      /\ received + n \in 0 .. MaxBytes
  BY BytesAssumption DEF IInv, TypeOK
<1>5. s \in Seq(Nat)
  BY <1>4, PieceProperties
<1>6. consumed \o (bs \o s) = Piece(0, received + n)
  BY <1>3, <1>4, Accept
<1>7. GoodBuffer(AppendTo(b, s)) /\ AppendTo(b, s).bytes = bs \o s
  <2> HIDE DEF b
  <2> QED BY <1>3, <1>5, AppendToGood
<1> HIDE DEF b, s
<1>8. GoodBuffer(buffered_bst_') /\ current_bst_' \in Seq(Nat)
  BY <1>1, <1>3, <1>5, <1>7, EmptySeq DEF s
<1>9. (consumed \o buffered_bst_'.bytes) \o current_bst_' = Piece(0, received + n)
  <2>1. consumed \o (buffered_bst_'.bytes \o current_bst_') = Piece(0, received + n)
    <3>1. CASE bs = <<>>
      BY <1>1, <1>6, <3>1 DEF s
    <3>2. CASE bs # <<>>
      <4>1. buffered_bst_'.bytes = bs \o s /\ current_bst_' = <<>>
        BY <1>1, <1>7, <3>2 DEF s
      <4>2. bs \o s \in Seq(Nat)
        BY <1>3, <1>5, ConcatProperties
      <4>3. (bs \o s) \o <<>> = bs \o s
        BY <4>2, ConcatEmptySeq
      <4> QED BY <1>6, <4>1, <4>3
    <3> QED BY <3>1, <3>2
  <2>2. buffered_bst_'.bytes \in Seq(Nat)
    BY <1>8 DEF GoodBuffer, Buffer
  <2> QED BY <1>4, <1>8, <2>1, <2>2, Associative
<1>10. InOrder'
  BY <1>1, <1>2, <1>9 DEF InOrder, Piece
<1>11. TypeOK'
  BY <1>1, <1>2, <1>4, <1>8 DEF IInv, TypeOK, GoodBuffer
<1> QED BY <1>8, <1>10, <1>11 DEF IInv, GoodBuffer

LEMMA LoadNothingStep == IInv /\ LoadNothing => IInv'
<1> SUFFICES ASSUME IInv, LoadNothing PROVE IInv'
  OBVIOUS
<1> DEFINE b == IF loaded_ THEN Sync ELSE buffered_bst_
<1>1. GoodBuffer(b) /\ b.bytes \in Seq(Nat) /\ consumed \o b.bytes = Piece(0, received)
  BY UnloadedGood
<1>2. buffered_bst_' = IF b.bytes = <<>> THEN b ELSE [b EXCEPT !.DataOffset = 0]
  BY DEF LoadNothing
<1>3. current_bst_' = <<>> /\ loaded_' = TRUE
      /\ UNCHANGED <<loader, received, consumed>>
  BY DEF LoadNothing
<1> HIDE DEF b
<1>4. GoodBuffer(buffered_bst_') /\ buffered_bst_'.bytes = b.bytes
  BY <1>1, <1>2, MovedGood
<1>5. consumed \in Seq(Nat)
  BY DEF IInv, TypeOK
<1>6. consumed \o b.bytes \in Seq(Nat)
  BY <1>1, <1>5, ConcatProperties
<1>7. (consumed \o b.bytes) \o <<>> = Piece(0, received)
  BY <1>1, <1>6, ConcatEmptySeq
<1>8. InOrder'
  BY <1>3, <1>4, <1>7 DEF InOrder, Piece
<1>9. TypeOK'
  BY <1>3, <1>4, EmptySeq DEF IInv, TypeOK, GoodBuffer
<1> QED BY <1>4, <1>8, <1>9 DEF IInv, GoodBuffer

LEMMA LoadHeaderStep == IInv /\ LoadHeader => IInv'
<1> SUFFICES ASSUME IInv, LoadHeader PROVE IInv'
  OBVIOUS
<1>1. ~loaded_ /\ loaded_' = TRUE /\ current_bst_ = <<>>
      /\ UNCHANGED <<current_bst_, loader, consumed>>
  BY DEF LoadHeader, IInv, TypeOK
<1>2. GoodBuffer(buffered_bst_) /\ buffered_bst_.bytes \in Seq(Nat)
      /\ consumed \o buffered_bst_.bytes = Piece(0, received)
  BY <1>1, UnloadedGood
<1>3. consumed \in Seq(Nat) /\ received \in Nat
  BY BytesAssumption DEF IInv, TypeOK
<1>4. CASE UNCHANGED <<received, buffered_bst_>>
  BY <1>1, <1>4 DEF IInv, TypeOK, InOrder, GoodBuffer, Piece
<1>5. ASSUME NEW n \in 0 .. MaxBytes - received,
             received' = received + n,
             buffered_bst_' = AppendTo(buffered_bst_, Piece(received, n))
      PROVE  IInv'
  <2> DEFINE s == Piece(received, n)
             bs == buffered_bst_.bytes
  <2>1. n \in Nat /\ received + n \in 0 .. MaxBytes
    BY <1>3, BytesAssumption
  <2>2. s \in Seq(Nat)
    BY <1>3, <2>1, PieceProperties
  <2>3. consumed \o (bs \o s) = Piece(0, received + n)
    BY <1>2, <1>3, <2>1, Accept
  <2>4. GoodBuffer(buffered_bst_') /\ buffered_bst_'.bytes = bs \o s
    BY <1>2, <1>5, <2>2, AppendToGood
  <2> HIDE DEF s, bs
  <2>5. consumed \o buffered_bst_'.bytes \in Seq(Nat)
    BY <1>3, <2>4, ConcatProperties DEF GoodBuffer, Buffer
  <2>6. (consumed \o buffered_bst_'.bytes) \o <<>> = Piece(0, received + n)
    BY <2>3, <2>4, <2>5, ConcatEmptySeq
  <2>7. InOrder'
    BY <1>1, <1>5, <2>6 DEF InOrder, Piece
  <2>8. TypeOK'
    BY <1>1, <1>5, <2>1, <2>4 DEF IInv, TypeOK, GoodBuffer
  <2> QED BY <2>4, <2>7, <2>8 DEF IInv, GoodBuffer
<1> QED BY <1>4, <1>5 DEF LoadHeader

LEMMA ConsumeStep == IInv /\ Consume => IInv'
<1> SUFFICES ASSUME IInv, Consume PROVE IInv'
  OBVIOUS
<1> DEFINE held == buffered_bst_.bytes
<1>1. UNCHANGED <<loader, loaded_, received>>
  BY DEF Consume
<1>2. GoodBuffer(buffered_bst_) /\ held \in Seq(Nat) /\ current_bst_ \in Seq(Nat)
      /\ consumed \in Seq(Nat) /\ consumed \o held \o current_bst_ = Piece(0, received)
  BY DEF IInv, TypeOK, InOrder, GoodBuffer, Buffer
<1>3. ASSUME NEW k \in 0 .. Len(held),
             consumed' = consumed \o SubSeq(held, 1, k),
             buffered_bst_' = [buffered_bst_ EXCEPT !.DataOffset = @ + k,
                                                   !.bytes = Drop(@, k)],
             UNCHANGED current_bst_
      PROVE  IInv'
  <2>1. SubSeq(held, 1, k) \in Seq(Nat) /\ Drop(held, k) \in Seq(Nat)
        /\ Len(Drop(held, k)) = Len(held) - k
    BY <1>2, SplitAt
  <2>2. consumed' \in Seq(Nat)
    BY <1>2, <1>3, <2>1, ConcatProperties
  <2>3. buffered_bst_'.bytes = Drop(held, k)
        /\ buffered_bst_'.DataOffset = buffered_bst_.DataOffset + k
        /\ buffered_bst_'.alloc = buffered_bst_.alloc
        /\ buffered_bst_'.MaxLength = buffered_bst_.MaxLength
    BY <1>2, <1>3 DEF GoodBuffer, Buffer
  <2>4. buffered_bst_' \in Buffer
    <3>1. buffered_bst_ \in Buffer /\ buffered_bst_.DataOffset + k \in Nat
      BY <1>2, LenProperties DEF GoodBuffer, Buffer
    <3> QED BY <1>3, <2>1, <3>1 DEF Buffer
  <2>5. buffered_bst_.alloc = NoMemory => Drop(held, k) = <<>>
    <3>1. ASSUME buffered_bst_.alloc = NoMemory PROVE Len(Drop(held, k)) = 0
      BY <1>2, <2>1, <3>1, EmptySeq DEF GoodBuffer
    <3> QED BY <2>1, <3>1, EmptySeq
  <2>6. GoodBuffer(buffered_bst_')
    <3>1. Len(held) \in Nat /\ buffered_bst_.DataOffset \in Nat
          /\ buffered_bst_.MaxLength \in Nat
          /\ buffered_bst_.DataOffset + Len(held) <= buffered_bst_.MaxLength
      BY <1>2, LenProperties DEF GoodBuffer, Buffer
    <3> QED BY <2>1, <2>3, <2>4, <2>5, <3>1 DEF GoodBuffer
  <2>7. (consumed \o SubSeq(held, 1, k)) \o Drop(held, k) \o current_bst_
          = Piece(0, received)
    BY <1>2, MoveFront
  <2>8. InOrder'
    BY <1>1, <1>3, <2>3, <2>7 DEF InOrder, Piece
  <2>9. TypeOK'
    BY <1>1, <1>3, <2>2, <2>4 DEF IInv, TypeOK
  <2> QED BY <2>6, <2>8, <2>9 DEF IInv, GoodBuffer
<1>4. ASSUME held = <<>>, NEW k \in 0 .. Len(current_bst_),
             consumed' = consumed \o SubSeq(current_bst_, 1, k),
             current_bst_' = Drop(current_bst_, k),
             UNCHANGED buffered_bst_
      PROVE  IInv'
  <2>1. SubSeq(current_bst_, 1, k) \in Seq(Nat) /\ Drop(current_bst_, k) \in Seq(Nat)
        /\ Len(Drop(current_bst_, k)) = Len(current_bst_) - k
        /\ SubSeq(current_bst_, 1, k) \o Drop(current_bst_, k) = current_bst_
    BY <1>2, SplitAt
  <2>2. consumed' \in Seq(Nat)
    BY <1>2, <1>4, <2>1, ConcatProperties
  <2>3. consumed \o current_bst_ = Piece(0, received)
    <3>1. consumed \o held = consumed
      BY <1>2, <1>4, ConcatEmptySeq
    <3> QED BY <1>2, <3>1
  <2>4. consumed' \o current_bst_' = Piece(0, received)
    <3>1. (consumed \o SubSeq(current_bst_, 1, k)) \o Drop(current_bst_, k)
            = consumed \o (SubSeq(current_bst_, 1, k) \o Drop(current_bst_, k))
      <4> DEFINE front == SubSeq(current_bst_, 1, k)
                 rest == Drop(current_bst_, k)
      <4>1. front \in Seq(Nat) /\ rest \in Seq(Nat)
        BY <2>1
      <4> HIDE DEF front, rest
      <4>2. (consumed \o front) \o rest = consumed \o (front \o rest)
        BY <1>2, <4>1, Associative
      <4> QED BY <4>2 DEF front, rest
    <3> QED BY <1>4, <2>1, <2>3, <3>1
  <2>5. consumed' \o held = consumed'
    BY <1>4, <2>2, ConcatEmptySeq
  <2>6. InOrder'
    BY <1>1, <1>4, <2>4, <2>5 DEF InOrder, Piece
  <2>7. ~loaded_ => Drop(current_bst_, k) = <<>>
    <3>1. ASSUME ~loaded_ PROVE Len(Drop(current_bst_, k)) = 0
      BY <2>1, <3>1, EmptySeq DEF IInv, TypeOK
    <3> QED BY <2>1, <3>1, EmptySeq
  <2>8. TypeOK'
    BY <1>1, <1>4, <2>1, <2>2, <2>7 DEF IInv, TypeOK
  <2> QED BY <1>4, <2>6, <2>8 DEF IInv, GoodBuffer
<1> QED BY <1>3, <1>4 DEF Consume

LEMMA CloseStep == IInv /\ Close => IInv'
<1> SUFFICES ASSUME IInv, Close PROVE IInv'
  OBVIOUS
<1> DEFINE b == IF loaded_ THEN Sync ELSE buffered_bst_
<1>1. GoodBuffer(b) /\ b.bytes \in Seq(Nat) /\ consumed \o b.bytes = Piece(0, received)
  BY UnloadedGood
<1>2. buffered_bst_' = b /\ current_bst_' = <<>> /\ loader' = "none" /\ loaded_' = FALSE
      /\ UNCHANGED <<received, consumed>>
  BY DEF Close
<1> HIDE DEF b
<1>3. consumed \o b.bytes \in Seq(Nat)
  BY <1>1, ConcatProperties DEF IInv, TypeOK
<1>4. (consumed \o b.bytes) \o <<>> = Piece(0, received)
  BY <1>1, <1>3, ConcatEmptySeq
<1>5. InOrder'
  BY <1>2, <1>4 DEF InOrder, Piece
<1>6. TypeOK'
  BY <1>1, <1>2, EmptySeq DEF IInv, TypeOK, GoodBuffer
<1> QED BY <1>1, <1>2, <1>5, <1>6 DEF IInv, GoodBuffer

LEMMA NextIInv == IInv /\ [Next]_vars => IInv'
<1> SUFFICES ASSUME IInv, [Next]_vars PROVE IInv'
  OBVIOUS
<1>1. CASE UNCHANGED vars
  BY <1>1 DEF IInv, TypeOK, InOrder, GoodBuffer, Buffer, Piece, vars
<1> QED BY <1>1, OpenStep, LoadBufferStep, LoadNothingStep, LoadHeaderStep, ConsumeStep,
           CloseStep DEF Next

LEMMA Invariant == Spec => []IInv
  BY InitIInv, NextIInv, PTL DEF Spec

(***************************************************************************)
(* The state of buffered_bst_, current_bst_ and the loader is always of    *)
(* the declared types, and nothing is current without a loaded buffer.     *)
(***************************************************************************)
THEOREM TypeCorrect == Spec => []TypeOK
<1>1. IInv => TypeOK
  BY DEF IInv
<1> QED BY <1>1, Invariant, PTL

\* No byte is lost, duplicated or moved between Load(), Sync() and the decoder.
THEOREM BytesInOrder == Spec => []InOrder
<1>1. IInv => InOrder
  BY DEF IInv
<1> QED BY <1>1, Invariant, PTL

\* MaxLength - DataOffset - DataLength never wraps around in Append().
THEOREM NoWrapAround == Spec => []WithinMaxLength
<1>1. IInv => WithinMaxLength
  BY DEF IInv, GoodBuffer, WithinMaxLength
<1> QED BY <1>1, Invariant, PTL

-----------------------------------------------------------------------------
(* Refinement.                                                             *)

LEMMA ConsumeImplements ==
  IInv /\ Consume => Stream!Consume \/ UNCHANGED <<received, consumed>>
<1> SUFFICES ASSUME IInv, Consume PROVE Stream!Consume
  OBVIOUS
<1> DEFINE held == buffered_bst_.bytes
<1>1. held \in Seq(Nat) /\ current_bst_ \in Seq(Nat) /\ consumed \in Seq(Nat)
      /\ consumed \o held \o current_bst_ = Piece(0, received)
      /\ received \in Nat /\ Len(consumed) \in Nat
  BY BytesAssumption, LenProperties DEF IInv, TypeOK, InOrder, GoodBuffer, Buffer
<1>2. received' = received
  BY DEF Consume
<1>3. ASSUME NEW k \in Nat, Len(consumed) + k <= received,
             consumed' = consumed \o Piece(Len(consumed), k)
      PROVE  Stream!Consume
  <2>1. k \in 0 .. received - Len(consumed)
    BY <1>1, <1>3
  <2> QED BY <1>2, <1>3, <2>1 DEF Stream!Consume, Stream!Piece, Piece
<1>4. ASSUME NEW k \in 0 .. Len(held), consumed' = consumed \o SubSeq(held, 1, k)
      PROVE  Stream!Consume
  <2>1. SubSeq(held, 1, k) = Piece(Len(consumed), k) /\ Len(consumed) + k <= received
    BY <1>1, NextBytes
  <2>2. k \in Nat
    BY <1>1, LenProperties
  <2> QED BY <1>3, <1>4, <2>1, <2>2
<1>5. ASSUME held = <<>>, NEW k \in 0 .. Len(current_bst_),
             consumed' = consumed \o SubSeq(current_bst_, 1, k)
      PROVE  Stream!Consume
  <2>1. consumed \o held = consumed
    BY <1>1, <1>5, ConcatEmptySeq
  <2>2. current_bst_ \o <<>> = current_bst_ /\ <<>> \in Seq(Nat)
    BY <1>1, ConcatEmptySeq, EmptySeq
  <2>3. (consumed \o current_bst_) \o <<>> = Piece(0, received)
    <3>1. consumed \o current_bst_ \in Seq(Nat)
      BY <1>1, ConcatProperties
    <3> QED BY <1>1, <2>1, <3>1, ConcatEmptySeq
  <2>4. SubSeq(current_bst_, 1, k) = Piece(Len(consumed), k)
        /\ Len(consumed) + k <= received
    BY <1>1, <2>2, <2>3, NextBytes
  <2>5. k \in Nat
    BY <1>1, LenProperties
  <2> QED BY <1>3, <1>5, <2>4, <2>5
<1> QED BY <1>4, <1>5 DEF Consume

LEMMA StepImplements ==
  IInv /\ [Next]_vars => [Stream!Next]_<<received, consumed>>
<1> SUFFICES ASSUME IInv, Next PROVE [Stream!Next]_<<received, consumed>>
  BY DEF vars
<1>1. CASE Open \/ LoadNothing \/ Close
  BY <1>1 DEF Open, LoadNothing, Close
<1>2. CASE LoadBuffer
  BY <1>2 DEF LoadBuffer, Stream!Next, Stream!Receive
<1>3. CASE LoadHeader
  BY <1>3 DEF LoadHeader, Stream!Next, Stream!Receive
<1>4. CASE Consume
  BY <1>4, ConsumeImplements DEF Stream!Next
<1> QED BY <1>1, <1>2, <1>3, <1>4 DEF Next

(***************************************************************************)
(* What the decoder reads through the frame constructor is the stream of   *)
(* bytes loaded, in order and each byte once: ByteStream is implemented.   *)
(***************************************************************************)
THEOREM ImplementsByteStream == Spec => StreamSpec
<1>1. Init => Stream!Init
  BY DEF Init, Stream!Init
<1> QED BY <1>1, Invariant, StepImplements, PTL DEF Spec, StreamSpec, Stream!Spec

-----------------------------------------------------------------------------
(* References and mappings of buffers (FrameReferences).                   *)

Holding(b) == {o \in WrapperOwners : ref[o][b].there}
Waiting(b) == {k \in Branches : b \in inbox[k]}
Mapping(b) == {o \in WrapperOwners : ref[o][b].mem = "mapped"}

BufferCounted(b) ==
  /\ buf[b].refs = Cardinality(Holding(b)) + Cardinality(Waiting(b))
  /\ ~lost /\ memory # "video" => buf[b].maps = Cardinality(Mapping(b))

(***************************************************************************)
(* Where a buffer is: with its producer alone until it is sent, after that *)
(* at most once in each branch.                                            *)
(***************************************************************************)
PlaceInv(b) ==
  /\ Here(b).there <=> step[b] # "none"
  /\ \A o \in WrapperOwners : ~ref[o][b].there => ref[o][b] = NoWrapper
  /\ \A k \in Branches : b \in inbox[k] => ~ref[k][b].there
  /\ step[b] \in {"work", "done", "unmap"} => Holding(b) = {"producer"} /\ Waiting(b) = {}
  /\ step[b] \in {"work", "done"} => Here(b).mem = "mapped"
  /\ step[b] # "none" => pooled
  /\ pooled /\ buf[b].refs = 0 => buf[b].content = 0 /\ buf[b].pts = NoTime

(***************************************************************************)
(* A frame is in the buffer, with its time there and in the wrappers that  *)
(* have mapped it; the others would write zero.                            *)
(***************************************************************************)
Made(b) == step[b] # "work" /\ Holding(b) \cup Waiting(b) # {}
Dated(b) ==
  /\ step[b] # "done" => buf[b].pts = buf[b].content
  /\ memory = "video" => buf[b].time = buf[b].content
  /\ memory # "video" =>
       \A o \in Holding(b) : /\ ref[o][b].time \in {0, buf[b].content}
                             /\ ref[o][b].mem = "mapped" => ref[o][b].time = buf[b].content
TimeInv(b) ==
  /\ step[b] = "work" => buf[b].content = 0 /\ buf[b].pts = NoTime
  /\ Made(b) => buf[b].content \in 1 .. frames
  /\ Made(b) /\ buf[b].content \notin zeroed => Dated(b)

BufferInv(b) == BufferCounted(b) /\ PlaceInv(b) /\ TimeInv(b)

WrapperInv ==
  /\ WrapperTypeOK /\ (memory = "video" => pooled)
  /\ zeroed \subseteq 1 .. frames /\ TimesAreKept
  /\ \A b \in Buffers : BufferInv(b)
-----------------------------------------------------------------------------
\* Who may have a wrapper.
LEMMA OwnerFacts ==
  /\ IsFiniteSet(WrapperOwners) /\ IsFiniteSet(Branches) /\ Cardinality(Branches) \in Nat
  /\ Branches \subseteq WrapperOwners /\ "producer" \in WrapperOwners \ Branches
<1>1. IsFiniteSet({"producer"})
  BY FS_Singleton
<1>2. IsFiniteSet(WrapperOwners)
  BY <1>1, SetsAssumption, FS_Union DEF WrapperOwners
<1>3. Cardinality(Branches) \in Nat
  BY SetsAssumption, FS_CardinalityType
<1> QED BY <1>2, <1>3, SetsAssumption, ProducerAssumption DEF WrapperOwners

-----------------------------------------------------------------------------
(* What the wrappers' functions do.                                        *)

\* srf() and bst().
LEMMA MappedFacts ==
  ASSUME NEW x \in BufferStates, NEW w \in Wrappers
  PROVE  LET y == Mapped(x, w).buffer
             v == Mapped(x, w).wrapper
         IN  /\ y \in BufferStates /\ v \in Wrappers
             /\ y.content = x.content /\ y.pts = x.pts /\ y.refs = x.refs
             /\ v.there = w.there
             /\ w.mem # "null" => y = x /\ v = w
             /\ w.mem = "null" => v.mem = "mapped"
             /\ w.mem = "null" /\ memory = "video" =>
                  y.time = x.pts /\ v.time = w.time
             /\ w.mem = "null" /\ memory # "video" =>
                  y.time = x.time /\ y.maps = x.maps + 1 /\ v.time = x.pts
<1>1. CASE w.mem # "null"
  BY <1>1 DEF Mapped, Both
<1>2. CASE w.mem = "null" /\ memory = "video"
  <2>1. /\ Mapped(x, w).buffer = [x EXCEPT !.time = x.pts]
        /\ Mapped(x, w).wrapper = [w EXCEPT !.mem = "mapped"]
    BY <1>2 DEF Mapped, Both
  <2> HIDE DEF Mapped
  <2> QED BY <1>2, <2>1 DEF BufferStates, Wrappers
<1>3. CASE w.mem = "null" /\ memory # "video"
  <2>1. /\ Mapped(x, w).buffer = [x EXCEPT !.maps = @ + 1]
        /\ Mapped(x, w).wrapper = [w EXCEPT !.mem = "mapped", !.time = x.pts]
    BY <1>3 DEF Mapped, Both
  <2>2. [x EXCEPT !.maps = @ + 1] \in BufferStates
    BY DEF BufferStates
  <2>3. [w EXCEPT !.mem = "mapped", !.time = x.pts] \in Wrappers
    BY DEF BufferStates, Wrappers
  <2> QED BY <1>3, <2>1, <2>2, <2>3 DEF BufferStates, Wrappers
<1> QED BY <1>1, <1>2, <1>3

\* unmap() of getBuffer().
LEMMA UnmappedFacts ==
  ASSUME NEW x \in BufferStates, NEW w \in Wrappers
  PROVE  LET y == Unmapped(x, w).buffer
             v == Unmapped(x, w).wrapper
         IN  /\ y \in BufferStates /\ v \in Wrappers
             /\ y.content = x.content /\ y.refs = x.refs /\ y.time = x.time
             /\ v.there = w.there /\ v.time = w.time
             /\ memory = "video" => v = w /\ y.pts = IF w.mem # "null" THEN x.time ELSE x.pts
             /\ memory # "video" =>
                  /\ v.mem = "null"
                  /\ y.maps = x.maps - (IF w.mem = "mapped" THEN 1 ELSE 0)
                  /\ y.pts \in {x.pts, w.time}
                  /\ w.mem # "null" => y.pts = w.time
BY DEF Unmapped, Both, BufferStates, Wrappers, WrittenBack, Released, TimeOf

\* The destructors.
LEMMA DestroyedFacts ==
  ASSUME NEW x \in BufferStates, NEW w \in Wrappers, x.refs >= 1
  PROVE  LET y == Destroyed(x, w)
         IN  /\ y \in BufferStates
             /\ y.refs = x.refs - 1
             /\ x.refs = 1 => y.content = 0 /\ y.pts = NoTime
             /\ x.refs > 1 => y.content = x.content /\ y.time = x.time
             /\ x.refs > 1 /\ memory = "video" =>
                  y.pts = IF w.mem # "null" THEN x.time ELSE x.pts
             /\ x.refs > 1 /\ memory # "video" => y.pts \in {x.pts, w.time}
             /\ memory # "video" =>
                  y.maps = x.maps - (IF w.mem = "mapped" THEN 1 ELSE 0)
<1> DEFINE z == IF memory = "bitstream" THEN Released(x, w) ELSE Unmapped(x, w).buffer
<1>1. /\ z \in BufferStates /\ z.content = x.content /\ z.refs = x.refs /\ z.time = x.time
      /\ memory = "video" => z.pts = IF w.mem # "null" THEN x.time ELSE x.pts
      /\ memory # "video" => z.pts \in {x.pts, w.time}
      /\ memory # "video" => z.maps = x.maps - (IF w.mem = "mapped" THEN 1 ELSE 0)
  <2>1. CASE memory = "bitstream"
    BY <2>1 DEF Released, BufferStates, Wrappers
  <2>2. CASE memory # "bitstream"
    BY <2>2, UnmappedFacts
  <2> QED BY <2>1, <2>2
<1>2. Destroyed(x, w) = Unref(z)
  BY DEF Destroyed
<1> HIDE DEF z
<1>3. CASE x.refs = 1
  <2>1. Unref(z) = [Unused EXCEPT !.maps = z.maps]
    BY <1>1, <1>3 DEF Unref
  <2> QED BY <1>1, <1>2, <1>3, <2>1, LimitsAssumption DEF Unused, BufferStates, Times, NoTime
<1>4. CASE x.refs > 1
  <2>1. Unref(z) = [z EXCEPT !.refs = @ - 1]
    BY <1>1, <1>4 DEF Unref, BufferStates
  <2> QED BY <1>1, <1>2, <1>4, <2>1 DEF BufferStates
<1> QED BY <1>3, <1>4 DEF BufferStates

\* A function that puts back a buffer and one of its wrappers touches no other.
LEMMA PutFacts ==
  ASSUME WrapperTypeOK, NEW o \in WrapperOwners, NEW b \in Buffers, NEW y, NEW v,
         Put(o, b, Both(y, v))
  PROVE  /\ buf'[b] = y /\ ref'[o][b] = v
         /\ \A p \in WrapperOwners \ {o} : ref'[p][b] = ref[p][b]
         /\ \A c \in Buffers \ {b} : buf'[c] = buf[c] /\ \A p \in WrapperOwners : ref'[p][c] = ref[p][c]
         /\ zeroed' = zeroed \cup Zeroed(buf[b], y)
BY DEF Put, Both, WrapperTypeOK
-----------------------------------------------------------------------------
(* What a step about one buffer leaves alone.                              *)

Alone(b) ==
  /\ UNCHANGED streamVars
  /\ frames <= frames' /\ zeroed \subseteq zeroed' /\ (lost => lost')
  /\ \A c \in Buffers \ {b} :
       /\ buf'[c] = buf[c] /\ step'[c] = step[c]
       /\ \A o \in WrapperOwners : ref'[o][c] = ref[o][c]
       /\ \A k \in Branches : c \in inbox'[k] <=> c \in inbox[k]

\* The other buffers keep the invariant.
LEMMA OtherBuffers ==
  ASSUME WrapperInv, NEW b \in Buffers, Alone(b), frames' \in Nat
  PROVE  \A c \in Buffers \ {b} : BufferInv(c)'
<1> SUFFICES ASSUME NEW c \in Buffers \ {b} PROVE BufferInv(c)'
  OBVIOUS
<1>1. /\ memory' = memory /\ pooled' = pooled /\ frames \in Nat /\ frames <= frames'
      /\ zeroed \subseteq zeroed' /\ (lost => lost')
  BY DEF Alone, streamVars, WrapperInv, WrapperTypeOK
<1>2. /\ buf'[c] = buf[c] /\ step'[c] = step[c]
      /\ \A o \in WrapperOwners : ref'[o][c] = ref[o][c]
      /\ \A k \in Branches : c \in inbox'[k] <=> c \in inbox[k]
  BY DEF Alone
<1>3. Holding(c)' = Holding(c) /\ Waiting(c)' = Waiting(c) /\ Mapping(c)' = Mapping(c)
  BY <1>2 DEF Holding, Waiting, Mapping
<1>4. Here(c)' = Here(c)
  BY <1>2, OwnerFacts DEF Here
<1>5. BufferInv(c)
  BY DEF WrapperInv
<1>6. BufferCounted(c)'
  BY <1>1, <1>2, <1>3, <1>5 DEF BufferInv, BufferCounted
<1>7. PlaceInv(c)'
  <2>1. PlaceInv(c)
    BY <1>5 DEF BufferInv
  <2>2. \A o \in WrapperOwners : ~ref'[o][c].there => ref'[o][c] = NoWrapper
    BY <1>2, <2>1 DEF PlaceInv
  <2>3. \A k \in Branches : c \in inbox'[k] => ~ref'[k][c].there
    BY <1>2, <2>1, OwnerFacts DEF PlaceInv
  <2> HIDE DEF Here, Holding, Waiting
  <2>4. /\ Here(c)'.there <=> step'[c] # "none"
        /\ step'[c] \in {"work", "done", "unmap"} => Holding(c)' = {"producer"} /\ Waiting(c)' = {}
        /\ step'[c] \in {"work", "done"} => Here(c)'.mem = "mapped"
        /\ step'[c] # "none" => pooled'
        /\ pooled' /\ buf'[c].refs = 0 => buf'[c].content = 0 /\ buf'[c].pts = NoTime
    BY <1>1, <1>2, <1>3, <1>4, <2>1 DEF PlaceInv
  <2> QED BY <2>2, <2>3, <2>4 DEF PlaceInv, NoWrapper, NoTime
<1>8. TimeInv(c)'
  <2>1. Dated(c) => Dated(c)'
    BY <1>1, <1>2, <1>3 DEF Dated, Holding
  <2>2. Made(c)' <=> Made(c)
    BY <1>2, <1>3 DEF Made
  <2>3. TimeInv(c)
    BY <1>5 DEF BufferInv
  <2>4. step'[c] = "work" => buf'[c].content = 0 /\ buf'[c].pts = NoTime
    BY <1>2, <2>3 DEF TimeInv
  <2>5. Made(c) => buf'[c].content \in 1 .. frames'
    BY <1>1, <1>2, <2>3 DEF TimeInv
  <2>6. Made(c) /\ buf'[c].content \notin zeroed' => Dated(c)'
    BY <1>1, <1>2, <2>1, <2>3 DEF TimeInv
  <2> QED BY <2>2, <2>4, <2>5, <2>6 DEF TimeInv
<1> QED BY <1>6, <1>7, <1>8 DEF BufferInv

\* What one wrapper of a buffer does to the sets of them.
LEMMA OneWrapper ==
  ASSUME WrapperTypeOK, NEW o \in WrapperOwners, NEW b \in Buffers, NEW v \in Wrappers,
         ref'[o][b] = v,
         \A p \in WrapperOwners \ {o} : ref'[p][b] = ref[p][b]
  PROVE  /\ v.there = ref[o][b].there =>
              Holding(b)' = Holding(b) /\ Cardinality(Holding(b))' = Cardinality(Holding(b))
         /\ ~v.there /\ ref[o][b].there =>
              /\ Holding(b)' = Holding(b) \ {o}
              /\ Cardinality(Holding(b))' = Cardinality(Holding(b)) - 1
         /\ v.there /\ ~ref[o][b].there =>
              /\ Holding(b)' = Holding(b) \cup {o}
              /\ Cardinality(Holding(b))' = Cardinality(Holding(b)) + 1
         /\ (v.mem = "mapped" <=> ref[o][b].mem = "mapped") =>
              Mapping(b)' = Mapping(b) /\ Cardinality(Mapping(b))' = Cardinality(Mapping(b))
         /\ v.mem # "mapped" /\ ref[o][b].mem = "mapped" =>
              Cardinality(Mapping(b))' = Cardinality(Mapping(b)) - 1
         /\ v.mem = "mapped" /\ ref[o][b].mem # "mapped" =>
              Cardinality(Mapping(b))' = Cardinality(Mapping(b)) + 1
<1> DEFINE H == Holding(b)
           M == Mapping(b)
<1>1. /\ H \in SUBSET WrapperOwners /\ M \in SUBSET WrapperOwners
      /\ (o \in H <=> ref[o][b].there) /\ (o \in M <=> ref[o][b].mem = "mapped")
  BY DEF Holding, Mapping
<1>2. /\ v.there => Holding(b)' = H \cup {o}
      /\ ~v.there => Holding(b)' = H \ {o}
  BY DEF Holding
<1>3. /\ v.mem = "mapped" => Mapping(b)' = M \cup {o}
      /\ v.mem # "mapped" => Mapping(b)' = M \ {o}
  BY DEF Mapping
<1> HIDE DEF H, M
<1>4. /\ o \in H => H \cup {o} = H /\ Cardinality(H \ {o}) = Cardinality(H) - 1
      /\ o \notin H => H \ {o} = H /\ Cardinality(H \cup {o}) = Cardinality(H) + 1
  BY <1>1, OwnerFacts, CountOf
<1>5. /\ o \in M => M \cup {o} = M /\ Cardinality(M \ {o}) = Cardinality(M) - 1
      /\ o \notin M => M \ {o} = M /\ Cardinality(M \cup {o}) = Cardinality(M) + 1
  BY <1>1, OwnerFacts, CountOf
<1>6. Cardinality(Holding(b))' = Cardinality(Holding(b)') /\ Cardinality(Mapping(b))' = Cardinality(Mapping(b)')
  OBVIOUS
<1>7. H = Holding(b) /\ M = Mapping(b)
  BY DEF H, M
<1>8. v.there \in BOOLEAN /\ ref[o][b].there \in BOOLEAN
  <2>1. ref[o][b] \in Wrappers
    BY DEF WrapperTypeOK
  <2> QED BY <2>1 DEF Wrappers
<1> QED BY <1>1, <1>2, <1>3, <1>4, <1>5, <1>6, <1>7, <1>8

\* The counts, in the terms of the sets.
LEMMA BufferFacts ==
  ASSUME WrapperInv, NEW b \in Buffers
  PROVE  /\ Holding(b) \in SUBSET WrapperOwners /\ Waiting(b) \in SUBSET Branches
         /\ Cardinality(Holding(b)) \in Nat /\ Cardinality(Waiting(b)) \in Nat
         /\ Cardinality(Mapping(b)) \in Nat
         /\ buf[b] \in BufferStates /\ buf[b].refs \in Nat /\ buf[b].maps \in Int
         /\ \A o \in WrapperOwners : ref[o][b] \in Wrappers
         /\ Holding(b) # {} => Cardinality(Holding(b)) >= 1
         /\ Waiting(b) # {} => Cardinality(Waiting(b)) >= 1
         /\ buf[b].refs = 0 => Holding(b) = {} /\ Waiting(b) = {}
         /\ \A o \in Holding(b) : Cardinality(Holding(b)) = 1 => Holding(b) = {o}
         /\ \A k \in Waiting(b) : Cardinality(Waiting(b)) = 1 => Waiting(b) = {k}
<1>1. /\ Holding(b) \in SUBSET WrapperOwners /\ Waiting(b) \in SUBSET Branches
      /\ Mapping(b) \in SUBSET WrapperOwners
  BY DEF Holding, Waiting, Mapping
<1>2. /\ buf[b] \in BufferStates
      /\ \A o \in WrapperOwners : ref[o][b] \in Wrappers
  BY DEF WrapperInv, WrapperTypeOK
<1>3. buf[b].refs \in Nat /\ buf[b].maps \in Int
  BY <1>2 DEF BufferStates
<1>4. /\ Cardinality(Holding(b)) \in Nat /\ Cardinality(Waiting(b)) \in Nat
      /\ Cardinality(Mapping(b)) \in Nat
  <2>1. IsFiniteSet(Holding(b)) /\ IsFiniteSet(Waiting(b)) /\ IsFiniteSet(Mapping(b))
    BY <1>1, OwnerFacts, FS_Subset
  <2> QED BY <2>1, FS_CardinalityType
<1>5. \A x \in Holding(b) :
        Cardinality(Holding(b)) >= 1 /\ (Cardinality(Holding(b)) = 1 => Holding(b) = {x})
  BY <1>1, OwnerFacts, OneOf
<1>6. \A x \in Waiting(b) :
        Cardinality(Waiting(b)) >= 1 /\ (Cardinality(Waiting(b)) = 1 => Waiting(b) = {x})
  BY <1>1, OwnerFacts, OneOf
<1>7. buf[b].refs = Cardinality(Holding(b)) + Cardinality(Waiting(b))
  BY DEF WrapperInv, BufferInv, BufferCounted
<1>8. buf[b].refs = 0 => Holding(b) = {} /\ Waiting(b) = {}
  BY <1>4, <1>5, <1>6, <1>7
<1> QED BY <1>1, <1>2, <1>3, <1>4, <1>5, <1>6, <1>8

LEMMA CountsKept ==
  ASSUME WrapperInv, NEW b \in Buffers, NEW i \in Int, NEW j \in Int, NEW m \in Int,
         memory' = memory, lost => lost',
         buf'[b].refs = buf[b].refs + i + j,
         Cardinality(Holding(b))' = Cardinality(Holding(b)) + i,
         Cardinality(Waiting(b))' = Cardinality(Waiting(b)) + j,
         ~lost' /\ memory # "video" =>
           /\ buf'[b].maps = buf[b].maps + m
           /\ Cardinality(Mapping(b))' = Cardinality(Mapping(b)) + m
  PROVE  BufferCounted(b)'
<1>1. buf[b].refs = Cardinality(Holding(b)) + Cardinality(Waiting(b))
  BY DEF WrapperInv, BufferInv, BufferCounted
<1>2. ~lost /\ memory # "video" => buf[b].maps = Cardinality(Mapping(b))
  BY DEF WrapperInv, BufferInv, BufferCounted
<1>3. Cardinality(Holding(b)) \in Nat /\ Cardinality(Waiting(b)) \in Nat
  BY BufferFacts
<1>4. buf'[b].refs = Cardinality(Holding(b))' + Cardinality(Waiting(b))'
  BY <1>1, <1>3
<1>5. ~lost' /\ memory' # "video" => buf'[b].maps = Cardinality(Mapping(b))'
  BY <1>2
<1> QED BY <1>4, <1>5 DEF BufferCounted

\* The wrappers that are not, and that are new.
LEMMA NewFacts ==
  /\ NoWrapper \in Wrappers /\ ~NoWrapper.there /\ NoWrapper.mem = "null" /\ NoWrapper.time = 0
  /\ NewWrapper \in Wrappers /\ NewWrapper.there /\ NewWrapper.mem = "null" /\ NewWrapper.time = 0
<1>1. 0 \in Times
  BY LimitsAssumption DEF Times
<1>2. NoWrapper \in Wrappers /\ ~NoWrapper.there /\ NoWrapper.mem = "null" /\ NoWrapper.time = 0
  BY <1>1 DEF NoWrapper, Wrappers
<1>3. NewWrapper \in Wrappers /\ NewWrapper.there /\ NewWrapper.mem = "null" /\ NewWrapper.time = 0
  BY <1>2 DEF NewWrapper, Wrappers
<1> QED BY <1>2, <1>3
-----------------------------------------------------------------------------
(* The steps of a buffer.                                                  *)

\* What a step shows: all of the invariant, but for the other buffers.
Shown(b) ==
  /\ WrapperTypeOK' /\ zeroed' \subseteq 1 .. frames' /\ TimesAreKept'
  /\ Alone(b) /\ BufferInv(b)'

\* A function of a wrapper.
LEMMA PutKeeps ==
  ASSUME WrapperInv, NEW o \in WrapperOwners, NEW b \in Buffers,
         NEW y \in BufferStates, NEW v \in Wrappers, Put(o, b, Both(y, v)),
         UNCHANGED <<streamVars, frames, lost, mapFailures>>,
         step' \in [Buffers -> {"none", "work", "done", "unmap", "shown"}],
         inbox' \in [Branches -> SUBSET Buffers],
         \A c \in Buffers \ {b} : step'[c] = step[c] /\ \A k \in Branches : c \in inbox'[k] <=> c \in inbox[k],
         buf[b].pts # 0 /\ y.pts = 0 => buf[b].content \in 1 .. frames,
         misdated' \subseteq zeroed'
  PROVE  /\ WrapperTypeOK' /\ zeroed' \subseteq 1 .. frames' /\ TimesAreKept' /\ Alone(b)
         /\ buf[b].content \notin zeroed' =>
              buf[b].content \notin zeroed /\ (buf[b].pts = 0 \/ y.pts # 0)
<1>1. /\ WrapperTypeOK /\ zeroed \subseteq 1 .. frames /\ frames \in 0 .. MaxMade /\ MaxMade \in Nat
      /\ memory' = memory /\ pooled' = pooled /\ frames' = frames /\ lost' = lost
      /\ mapFailures' = mapFailures
  BY LimitsAssumption DEF WrapperInv, WrapperTypeOK, streamVars
<1>2. /\ buf' = [buf EXCEPT ![b] = y] /\ ref' = [ref EXCEPT ![o][b] = v]
      /\ zeroed' = zeroed \cup Zeroed(buf[b], y)
  BY DEF Put, Both
<1>3. buf' \in [Buffers -> BufferStates]
  BY <1>1, <1>2 DEF WrapperTypeOK
<1>4. ref' \in [WrapperOwners -> [Buffers -> Wrappers]]
  BY <1>1, <1>2 DEF WrapperTypeOK
<1>5. zeroed' \subseteq 1 .. frames' /\ zeroed \subseteq zeroed'
  BY <1>1, <1>2 DEF Zeroed
<1>6. zeroed' \subseteq 1 .. MaxMade /\ misdated' \subseteq 1 .. MaxMade
  BY <1>1, <1>5
<1>7. WrapperTypeOK'
  BY <1>1, <1>3, <1>4, <1>6 DEF WrapperTypeOK, BufferStates, Wrappers, Times, WrapperOwners
<1>8. Alone(b)
  <2>1. \A c \in Buffers \ {b} : buf'[c] = buf[c] /\ \A p \in WrapperOwners : ref'[p][c] = ref[p][c]
    BY PutFacts, <1>1
  <2> QED BY <1>1, <1>5, <2>1 DEF Alone, streamVars
<1>9. buf[b].content \notin zeroed' =>
        buf[b].content \notin zeroed /\ (buf[b].pts = 0 \/ y.pts # 0)
  BY <1>2 DEF Zeroed
<1> QED BY <1>5, <1>7, <1>8, <1>9 DEF TimesAreKept

LEMMA AcquireStep ==
  ASSUME WrapperInv, NEW b \in Buffers, Acquire(b)
  PROVE  Shown(b)
<1> DEFINE x == [buf[b] EXCEPT !.refs = 1]
           y == Mapped(x, NewWrapper).buffer
           v == Mapped(x, NewWrapper).wrapper
<1>1. /\ WrapperTypeOK /\ pooled /\ buf[b].refs = 0 /\ buf[b] \in BufferStates
      /\ Holding(b) = {} /\ Waiting(b) = {}
  BY BufferFacts DEF Acquire, WrapperInv
<1>2. BufferCounted(b) /\ PlaceInv(b)
  BY DEF WrapperInv, BufferInv
<1>3. buf[b].content = 0 /\ buf[b].pts = NoTime
  BY <1>1, <1>2 DEF PlaceInv
<1>4. /\ x \in BufferStates /\ x.refs = 1 /\ x.content = 0 /\ x.pts = NoTime
      /\ x.maps = buf[b].maps
  BY <1>1, <1>3 DEF BufferStates
<1>5. NewWrapper \in Wrappers /\ NewWrapper.mem = "null" /\ NewWrapper.there
  BY NewFacts
<1> HIDE DEF x
<1>6. /\ y \in BufferStates /\ v \in Wrappers /\ y.content = 0 /\ y.pts = NoTime /\ y.refs = 1
      /\ v.there /\ v.mem = "mapped" /\ (memory # "video" => y.maps = buf[b].maps + 1)
  BY <1>4, <1>5, MappedFacts
<1>7. Put("producer", b, Both(y, v))
  BY DEF Acquire, Both, Mapped, x
<1> HIDE DEF y, v
<1>8. /\ step' = [step EXCEPT ![b] = "work"] /\ inbox' = inbox /\ misdated' = misdated
      /\ UNCHANGED <<streamVars, frames, lost, mapFailures>>
  BY DEF Acquire
<1>9. /\ buf'[b] = y /\ ref'["producer"][b] = v
      /\ \A p \in WrapperOwners \ {"producer"} : ref'[p][b] = ref[p][b]
  BY <1>1, <1>7, PutFacts, OwnerFacts
<1>10. /\ WrapperTypeOK' /\ zeroed' \subseteq 1 .. frames' /\ TimesAreKept' /\ Alone(b)
  <2>1. /\ step' \in [Buffers -> {"none", "work", "done", "unmap", "shown"}]
        /\ inbox' \in [Branches -> SUBSET Buffers]
        /\ \A c \in Buffers \ {b} : step'[c] = step[c]
    BY <1>1, <1>8 DEF WrapperTypeOK
  <2>2. misdated' \subseteq zeroed'
    BY <1>7, <1>8 DEF WrapperInv, TimesAreKept, Put
  <2> QED BY <1>6, <1>7, <1>8, <2>1, <2>2, OwnerFacts, PutKeeps DEF NoTime
<1>11. \A o \in WrapperOwners : ref[o][b] = NoWrapper
  BY <1>1, <1>2 DEF Holding, PlaceInv
<1>12. /\ Holding(b)' = {"producer"} /\ Waiting(b)' = {}
       /\ Cardinality(Holding(b))' = Cardinality(Holding(b)) + 1
       /\ Cardinality(Mapping(b))' = Cardinality(Mapping(b)) + 1
       /\ Cardinality(Waiting(b))' = Cardinality(Waiting(b))
  <2>1. Waiting(b)' = Waiting(b)
    BY <1>8 DEF Waiting
  <2>2. ~ref["producer"][b].there /\ ref["producer"][b].mem # "mapped"
    BY <1>11, OwnerFacts DEF NoWrapper
  <2>4. /\ Holding(b)' = Holding(b) \cup {"producer"}
        /\ Cardinality(Holding(b))' = Cardinality(Holding(b)) + 1
        /\ Cardinality(Mapping(b))' = Cardinality(Mapping(b)) + 1
    BY <1>1, <1>6, <1>9, <2>2, OwnerFacts, OneWrapper
  <2> QED BY <1>1, <2>1, <2>4
<1>13. BufferCounted(b)'
  <2>1. memory' = memory /\ lost' = lost
    BY <1>8 DEF streamVars
  <2>2. lost => lost'
    BY <2>1
  <2>3. /\ buf'[b].refs = buf[b].refs + 1 + 0
        /\ memory # "video" => buf'[b].maps = buf[b].maps + 1
    BY <1>1, <1>6, <1>9
  <2>4. Cardinality(Waiting(b))' = Cardinality(Waiting(b)) + 0
    BY <1>12, BufferFacts
  <2> QED BY <1>12, <2>1, <2>2, <2>3, <2>4, CountsKept
<1>14. PlaceInv(b)'
  <2>1. step'[b] = "work" /\ pooled'
    BY <1>1, <1>8 DEF WrapperTypeOK, streamVars
  <2>2. Here(b)' = v
    BY <1>9 DEF Here
  <2>3. \A o \in WrapperOwners : ~ref'[o][b].there => ref'[o][b] = NoWrapper
    BY <1>6, <1>9, <1>11
  <2>4. \A k \in Branches : b \notin inbox'[k]
    BY <1>12 DEF Waiting
  <2> HIDE DEF Here
  <2> QED BY <1>6, <1>9, <1>12, <2>1, <2>2, <2>3, <2>4 DEF PlaceInv, NoWrapper, NoTime
<1>15. TimeInv(b)'
  <2>1. step'[b] = "work"
    BY <1>1, <1>8 DEF WrapperTypeOK
  <2> QED BY <1>6, <1>9, <2>1 DEF TimeInv, Made, NoTime
<1> QED BY <1>10, <1>13, <1>14, <1>15 DEF Shown, BufferInv

LEMMA CodeStep ==
  ASSUME WrapperInv, NEW b \in Buffers, Code(b)
  PROVE  Shown(b)
<1> DEFINE w == Here(b)
           v == [w EXCEPT !.time = IF memory = "video" THEN @ ELSE frames + 1]
           y == [buf[b] EXCEPT !.content = frames + 1,
                               !.time = IF memory = "video" THEN frames + 1 ELSE @]
<1>1. /\ WrapperTypeOK /\ BufferCounted(b) /\ PlaceInv(b) /\ step[b] = "work"
      /\ frames \in 0 .. MaxMade /\ frames < MaxMade /\ MaxMade \in Nat
  BY LimitsAssumption DEF Code, WrapperInv, WrapperTypeOK, BufferInv
<1>2. /\ Holding(b) = {"producer"} /\ Waiting(b) = {} /\ w.mem = "mapped" /\ w.there /\ pooled
  BY <1>1 DEF PlaceInv
<1>3. buf[b] \in BufferStates /\ w \in Wrappers
  BY <1>1, OwnerFacts DEF WrapperTypeOK, Here
<1>4. frames + 1 \in 1 .. MaxMade /\ frames + 1 \in Times /\ frames + 1 \in 0 .. MaxMade
  BY <1>1 DEF Times
<1>5. /\ y \in BufferStates /\ y.content = frames + 1 /\ y.refs = buf[b].refs /\ y.maps = buf[b].maps
      /\ memory = "video" => y.time = frames + 1
  BY <1>3, <1>4 DEF BufferStates
<1>6. /\ v \in Wrappers /\ v.there = w.there /\ v.mem = w.mem
      /\ memory # "video" => v.time = frames + 1
  BY <1>3, <1>4 DEF Wrappers
<1>7. /\ frames' = frames + 1 /\ step' = [step EXCEPT ![b] = "done"]
      /\ UNCHANGED <<streamVars, inbox, wrapperHistory, mapFailures>>
  BY DEF Code
<1>8. buf' = [buf EXCEPT ![b] = y]
  BY <1>1, <1>3 DEF Code, WrapperTypeOK
<1>9. ref' = [ref EXCEPT !["producer"] = [ref["producer"] EXCEPT ![b] = v]]
  BY <1>1, <1>3, OwnerFacts DEF Code, WrapperTypeOK, Here
<1> HIDE DEF y, v, w
<1>10. /\ buf'[b] = y /\ ref'["producer"][b] = v /\ step'[b] = "done"
       /\ \A p \in WrapperOwners \ {"producer"} : ref'[p][b] = ref[p][b]
       /\ \A c \in Buffers \ {b} : /\ buf'[c] = buf[c] /\ step'[c] = step[c]
                                   /\ \A p \in WrapperOwners : ref'[p][c] = ref[p][c]
  BY <1>1, <1>7, <1>8, <1>9, OwnerFacts DEF WrapperTypeOK
<1>11. /\ memory' = memory /\ pooled' = pooled /\ inbox' = inbox /\ misdated' = misdated
       /\ zeroed' = zeroed /\ lost' = lost /\ mapFailures' = mapFailures
  BY <1>7 DEF streamVars, wrapperHistory
<1>12. WrapperTypeOK'
  <2>1. buf' \in [Buffers -> BufferStates]
    BY <1>1, <1>5, <1>8 DEF WrapperTypeOK
  <2>2. ref' \in [WrapperOwners -> [Buffers -> Wrappers]]
    BY <1>1, <1>6, <1>9, OwnerFacts DEF WrapperTypeOK
  <2>3. step' \in [Buffers -> {"none", "work", "done", "unmap", "shown"}] /\ frames' \in 0 .. MaxMade
    BY <1>1, <1>7, <1>4 DEF WrapperTypeOK
  <2> QED BY <1>1, <1>11, <2>1, <2>2, <2>3 DEF WrapperTypeOK, BufferStates, Wrappers, Times, WrapperOwners
<1>13. zeroed' \subseteq 1 .. frames' /\ TimesAreKept'
  BY <1>1, <1>7, <1>11 DEF WrapperInv, TimesAreKept
<1>14. Alone(b)
  <2>1. lost => lost'
    BY <1>11
  <2>2. frames <= frames'
    BY <1>1, <1>7
  <2> QED BY <1>10, <1>11, <2>1, <2>2 DEF Alone, streamVars
<1>15. w = ref["producer"][b]
  BY DEF w, Here
<1>16. /\ Holding(b)' = Holding(b) /\ Waiting(b)' = Waiting(b)
       /\ Cardinality(Holding(b))' = Cardinality(Holding(b))
       /\ Cardinality(Mapping(b))' = Cardinality(Mapping(b))
       /\ Cardinality(Waiting(b))' = Cardinality(Waiting(b))
  <2>1. Waiting(b)' = Waiting(b)
    BY <1>11 DEF Waiting
  <2>2. /\ Holding(b)' = Holding(b)
        /\ Cardinality(Holding(b))' = Cardinality(Holding(b))
        /\ Cardinality(Mapping(b))' = Cardinality(Mapping(b))
    BY <1>1, <1>6, <1>10, <1>15, OwnerFacts, OneWrapper
  <2> QED BY <2>1, <2>2
<1>17. BufferCounted(b)'
  <2>1. lost => lost'
    BY <1>11
  <2>2. /\ buf'[b].refs = buf[b].refs + 0 + 0
        /\ Cardinality(Waiting(b))' = Cardinality(Waiting(b)) + 0
        /\ Cardinality(Holding(b))' = Cardinality(Holding(b)) + 0
        /\ Cardinality(Mapping(b))' = Cardinality(Mapping(b)) + 0
        /\ buf'[b].maps = buf[b].maps + 0
    BY <1>5, <1>10, <1>16, BufferFacts
  <2> QED BY <1>11, <2>1, <2>2, CountsKept
<1>18. Here(b)' = v
  BY <1>10 DEF Here
<1>19. PlaceInv(b)'
  <2>1. \A o \in WrapperOwners : ~ref'[o][b].there => ref'[o][b] = NoWrapper
    BY <1>1, <1>2, <1>6, <1>10 DEF PlaceInv
  <2>2. \A k \in Branches : b \in inbox'[k] => ~ref'[k][b].there
    BY <1>2, <1>11 DEF Waiting
  <2>3. buf'[b].refs # 0
    BY <1>2, <1>5, <1>10, BufferFacts
  <2> HIDE DEF Here
  <2> QED BY <1>2, <1>6, <1>10, <1>11, <1>16, <1>18, <2>1, <2>2, <2>3 DEF PlaceInv, NoWrapper, NoTime
<1>20. TimeInv(b)'
  <2>1. Dated(b)'
    BY <1>2, <1>5, <1>6, <1>7, <1>10, <1>11, <1>16 DEF Dated
  <2>2. buf'[b].content \in 1 .. frames'
    BY <1>1, <1>5, <1>7, <1>10
  <2> QED BY <1>10, <2>1, <2>2 DEF TimeInv
<1> QED BY <1>12, <1>13, <1>14, <1>17, <1>19, <1>20 DEF Shown, BufferInv

\* A buffer in use holds a frame, unless the codec works on it; once it is in a
\* branch, and after getBuffer(), it has its time.
LEMMA FrameFacts ==
  ASSUME WrapperInv, NEW b \in Buffers, Holding(b) \cup Waiting(b) # {}
  PROVE  /\ buf[b].refs # 0
         /\ step[b] = "work" => buf[b].content = 0 /\ buf[b].pts = NoTime
         /\ step[b] # "work" => buf[b].content \in 1 .. frames
         /\ buf[b].refs > 1 => step[b] \in {"none", "shown"}
         /\ \A k \in Branches : ref[k][b].there \/ b \in inbox[k] => step[b] \in {"none", "shown"}
         /\ step[b] # "work" /\ buf[b].content \notin zeroed => Dated(b)
         /\ step[b] \notin {"work", "done"} /\ buf[b].content \notin zeroed => buf[b].pts = buf[b].content
<1>1. BufferCounted(b) /\ PlaceInv(b) /\ TimeInv(b)
  BY DEF WrapperInv, BufferInv
<1>2. buf[b].refs # 0
  BY BufferFacts
<1>3. step[b] = "work" => buf[b].content = 0 /\ buf[b].pts = NoTime
  BY <1>1 DEF TimeInv
<1>4. step[b] # "work" => buf[b].content \in 1 .. frames
  BY <1>1 DEF TimeInv, Made
<1>5. ASSUME step[b] \in {"work", "done", "unmap"}
      PROVE  buf[b].refs = 1 /\ \A k \in Branches : ~ref[k][b].there /\ b \notin inbox[k]
  <2>1. Holding(b) = {"producer"} /\ Waiting(b) = {}
    BY <1>1, <1>5 DEF PlaceInv
  <2>2. Cardinality({"producer"}) = 1 /\ Cardinality({}) = 0
    BY FS_Singleton, FS_EmptySet
  <2>3. \A k \in Branches : ~ref[k][b].there /\ b \notin inbox[k]
    BY <2>1, OwnerFacts DEF Holding, Waiting
  <2> QED BY <1>1, <2>1, <2>2, <2>3 DEF BufferCounted
<1>6. step[b] \in {"none", "work", "done", "unmap", "shown"}
  BY DEF WrapperInv, WrapperTypeOK
<1>7. step[b] # "work" /\ buf[b].content \notin zeroed => Dated(b)
  BY <1>1 DEF TimeInv, Made
<1>8. Dated(b) /\ step[b] # "done" => buf[b].pts = buf[b].content
  BY DEF Dated
<1> QED BY <1>2, <1>3, <1>4, <1>5, <1>6, <1>7, <1>8

LEMMA UnmapStep ==
  ASSUME WrapperInv, NEW b \in Buffers, Unmap(b)
  PROVE  Shown(b)
<1> DEFINE x == buf[b]
           w == ref["producer"][b]
           y == Unmapped(x, w).buffer
           v == Unmapped(x, w).wrapper
<1>1. /\ WrapperTypeOK /\ BufferCounted(b) /\ PlaceInv(b) /\ step[b] = "done"
  BY DEF Unmap, WrapperInv, BufferInv
<1>2. /\ Holding(b) = {"producer"} /\ Waiting(b) = {} /\ w.mem = "mapped" /\ w.there /\ pooled
  BY <1>1 DEF PlaceInv, Here
<1>3. x \in BufferStates /\ w \in Wrappers
  BY <1>1, OwnerFacts DEF WrapperTypeOK
<1>4. /\ x.content \in 1 .. frames /\ x.refs # 0
      /\ x.content \notin zeroed =>
           IF memory = "video" THEN x.time = x.content ELSE w.time = x.content
  BY <1>1, <1>2, FrameFacts DEF Dated
<1>5. /\ y \in BufferStates /\ v \in Wrappers /\ y.content = x.content /\ y.refs = x.refs
      /\ y.time = x.time /\ v.there = w.there /\ v.time = w.time
      /\ memory = "video" => v = w /\ y.pts = x.time
      /\ memory # "video" => v.mem = "null" /\ y.maps = x.maps - 1 /\ y.pts = w.time
  <2>1. w.mem # "null"
    BY <1>2
  <2> QED BY <1>2, <1>3, <2>1, UnmappedFacts
<1>6. Put("producer", b, Both(y, v))
  BY DEF Unmap, Both, Unmapped, Here
<1> HIDE DEF y, v
<1>7. /\ step' = [step EXCEPT ![b] = "unmap"] /\ inbox' = inbox /\ misdated' = misdated
      /\ UNCHANGED <<streamVars, frames, lost, mapFailures>>
  BY DEF Unmap
<1>8. /\ buf'[b] = y /\ ref'["producer"][b] = v
      /\ \A p \in WrapperOwners \ {"producer"} : ref'[p][b] = ref[p][b]
  BY <1>1, <1>6, PutFacts, OwnerFacts
<1>9. /\ WrapperTypeOK' /\ zeroed' \subseteq 1 .. frames' /\ TimesAreKept' /\ Alone(b)
      /\ x.content \notin zeroed' => x.content \notin zeroed
  <2>1. /\ step' \in [Buffers -> {"none", "work", "done", "unmap", "shown"}]
        /\ inbox' \in [Branches -> SUBSET Buffers]
        /\ \A c \in Buffers \ {b} : step'[c] = step[c]
    BY <1>1, <1>7 DEF WrapperTypeOK
  <2>2. misdated' \subseteq zeroed'
    BY <1>6, <1>7 DEF WrapperInv, TimesAreKept, Put
  <2> QED BY <1>4, <1>5, <1>6, <1>7, <2>1, <2>2, OwnerFacts, PutKeeps
<1>10. step'[b] = "unmap" /\ memory' = memory /\ pooled' = pooled /\ lost' = lost /\ frames' = frames
  BY <1>1, <1>7 DEF WrapperTypeOK, streamVars
<1>11. /\ Holding(b)' = Holding(b) /\ Waiting(b)' = Waiting(b)
       /\ Cardinality(Holding(b))' = Cardinality(Holding(b))
       /\ memory # "video" => Cardinality(Mapping(b))' = Cardinality(Mapping(b)) - 1
       /\ Cardinality(Waiting(b))' = Cardinality(Waiting(b))
  <2>1. Waiting(b)' = Waiting(b)
    BY <1>7 DEF Waiting
  <2>2. /\ Holding(b)' = Holding(b)
        /\ Cardinality(Holding(b))' = Cardinality(Holding(b))
        /\ v.mem # "mapped" => Cardinality(Mapping(b))' = Cardinality(Mapping(b)) - 1
    BY <1>1, <1>2, <1>5, <1>8, OwnerFacts, OneWrapper
  <2> QED BY <1>5, <2>1, <2>2
<1>12. BufferCounted(b)'
  <2>1. lost => lost'
    BY <1>10
  <2>2. /\ buf'[b].refs = buf[b].refs + 0 + 0
        /\ Cardinality(Waiting(b))' = Cardinality(Waiting(b)) + 0
        /\ Cardinality(Holding(b))' = Cardinality(Holding(b)) + 0
    BY <1>5, <1>8, <1>11, BufferFacts
  <2>3. memory # "video" => /\ Cardinality(Mapping(b))' = Cardinality(Mapping(b)) + (-1)
                            /\ buf'[b].maps = buf[b].maps + (-1)
    BY <1>5, <1>8, <1>11, BufferFacts
  <2> QED BY <1>10, <2>1, <2>2, <2>3, CountsKept
<1>13. Here(b)' = v
  BY <1>8 DEF Here
<1>14. PlaceInv(b)'
  <2>1. \A o \in WrapperOwners : ~ref'[o][b].there => ref'[o][b] = NoWrapper
    BY <1>1, <1>2, <1>5, <1>8 DEF PlaceInv
  <2>2. \A k \in Branches : b \in inbox'[k] => ~ref'[k][b].there
    BY <1>2, <1>7 DEF Waiting
  <2>3. buf'[b].refs # 0
    BY <1>4, <1>5, <1>8
  <2> HIDE DEF Here
  <2> QED BY <1>2, <1>5, <1>8, <1>10, <1>11, <1>13, <2>1, <2>2, <2>3 DEF PlaceInv, NoWrapper, NoTime
<1>15. TimeInv(b)'
  <2>1. ASSUME x.content \notin zeroed' PROVE Dated(b)'
    <3>1. x.content \notin zeroed
      BY <1>9, <2>1
    <3>2. buf'[b].pts = buf'[b].content
      BY <1>4, <1>5, <1>8, <3>1
    <3>3. memory = "video" => buf'[b].time = buf'[b].content
      BY <1>4, <1>5, <1>8, <3>1
    <3>4. memory # "video" => v.time = x.content /\ v.mem = "null"
      BY <1>4, <1>5, <3>1
    <3> QED BY <1>2, <1>5, <1>8, <1>10, <1>11, <3>2, <3>3, <3>4 DEF Dated
  <2>2. buf'[b].content \in 1 .. frames'
    BY <1>4, <1>5, <1>8, <1>10
  <2> QED BY <1>5, <1>8, <1>10, <2>1, <2>2 DEF TimeInv
<1> QED BY <1>9, <1>12, <1>14, <1>15 DEF Shown, BufferInv

\* srf() or bst() on a wrapper, by the decoder's search and by every reader.
LEMMA MapStep ==
  ASSUME WrapperInv, NEW o \in WrapperOwners, NEW b \in Buffers, ref[o][b].there,
         Put(o, b, Mapped(buf[b], ref[o][b])),
         UNCHANGED <<streamVars, step, inbox, frames, lost, mapFailures>>,
         misdated' \subseteq zeroed'
  PROVE  Shown(b)
<1> DEFINE x == buf[b]
           w == ref[o][b]
           y == Mapped(x, w).buffer
           v == Mapped(x, w).wrapper
<1>1. /\ WrapperTypeOK /\ BufferCounted(b) /\ PlaceInv(b) /\ TimeInv(b)
      /\ memory' = memory /\ pooled' = pooled /\ lost' = lost /\ frames' = frames
      /\ step' = step /\ inbox' = inbox
  BY DEF WrapperInv, BufferInv, streamVars
<1>2. x \in BufferStates /\ w \in Wrappers
  BY <1>1 DEF WrapperTypeOK
<1>3. o \in Holding(b)
  BY DEF Holding
<1>4. /\ x.refs # 0 /\ (step[b] # "work" => x.content \in 1 .. frames)
      /\ step[b] # "work" /\ x.content \notin zeroed => Dated(b)
  BY <1>3, FrameFacts
<1>5. step[b] \in {"work", "done"} => w.mem = "mapped"
  BY <1>1, <1>3 DEF PlaceInv, Here
<1>6. /\ y \in BufferStates /\ v \in Wrappers /\ y.content = x.content /\ y.pts = x.pts /\ y.refs = x.refs
      /\ v.there = w.there
      /\ w.mem # "null" => y = x /\ v = w
      /\ w.mem = "null" => v.mem = "mapped"
      /\ w.mem = "null" /\ memory = "video" => y.time = x.pts /\ v.time = w.time
      /\ w.mem = "null" /\ memory # "video" => y.time = x.time /\ y.maps = x.maps + 1 /\ v.time = x.pts
  <2> HIDE DEF x, w
  <2> QED BY <1>2, MappedFacts
<1>7. Put(o, b, Both(y, v))
  BY DEF Both, Mapped
<1> HIDE DEF y, v
<1>8. /\ buf'[b] = y /\ ref'[o][b] = v
      /\ \A p \in WrapperOwners \ {o} : ref'[p][b] = ref[p][b]
  BY <1>1, <1>7, PutFacts
<1>9. /\ WrapperTypeOK' /\ zeroed' \subseteq 1 .. frames' /\ TimesAreKept' /\ Alone(b)
      /\ x.content \notin zeroed' => x.content \notin zeroed
  <2>1. /\ step' \in [Buffers -> {"none", "work", "done", "unmap", "shown"}]
        /\ inbox' \in [Branches -> SUBSET Buffers]
    BY <1>1 DEF WrapperTypeOK
  <2> QED BY <1>1, <1>6, <1>7, <2>1, PutKeeps
<1>10. /\ Holding(b)' = Holding(b) /\ Waiting(b)' = Waiting(b)
       /\ Cardinality(Holding(b))' = Cardinality(Holding(b))
       /\ w.mem # "null" => Cardinality(Mapping(b))' = Cardinality(Mapping(b))
       /\ w.mem = "null" => Cardinality(Mapping(b))' = Cardinality(Mapping(b)) + 1
       /\ Cardinality(Waiting(b))' = Cardinality(Waiting(b))
  <2>1. Waiting(b)' = Waiting(b)
    BY <1>1 DEF Waiting
  <2>2. /\ Holding(b)' = Holding(b)
        /\ Cardinality(Holding(b))' = Cardinality(Holding(b))
        /\ v.mem = "mapped" /\ w.mem # "mapped" => Cardinality(Mapping(b))' = Cardinality(Mapping(b)) + 1
        /\ (v.mem = "mapped" <=> w.mem = "mapped") => Cardinality(Mapping(b))' = Cardinality(Mapping(b))
    BY <1>1, <1>6, <1>8, OneWrapper
  <2>3. w.mem = "null" => v.mem = "mapped" /\ w.mem # "mapped"
    BY <1>6
  <2>4. w.mem # "null" => (v.mem = "mapped" <=> w.mem = "mapped")
    BY <1>6
  <2> QED BY <2>1, <2>2, <2>3, <2>4
<1>11. BufferCounted(b)'
  <2>1. lost => lost'
    BY <1>1
  <2>2. /\ buf'[b].refs = buf[b].refs + 0 + 0
        /\ Cardinality(Waiting(b))' = Cardinality(Waiting(b)) + 0
        /\ Cardinality(Holding(b))' = Cardinality(Holding(b)) + 0
    BY <1>6, <1>8, <1>10, BufferFacts
  <2>3. CASE w.mem = "null"
    <3>1. memory # "video" => buf'[b].maps = buf[b].maps + 1
      BY <1>6, <1>8, <2>3
    <3>2. Cardinality(Mapping(b))' = Cardinality(Mapping(b)) + 1
      BY <1>10, <2>3
    <3> QED BY <1>1, <2>1, <2>2, <3>1, <3>2, CountsKept
  <2>4. CASE w.mem # "null"
    <3>1. buf'[b].maps = buf[b].maps + 0 /\ Cardinality(Mapping(b))' = Cardinality(Mapping(b)) + 0
      BY <1>6, <1>8, <1>10, <2>4, BufferFacts
    <3> QED BY <1>1, <2>1, <2>2, <3>1, CountsKept
  <2> QED BY <2>3, <2>4
<1>12. /\ Here(b)'.there = Here(b).there
       /\ step[b] \in {"work", "done"} => Here(b)'.mem = "mapped"
  <2>1. CASE o = "producer"
    BY <1>5, <1>6, <1>8, <2>1 DEF Here
  <2>2. CASE o # "producer"
    BY <1>1, <1>8, <2>2, OwnerFacts DEF Here, PlaceInv
  <2> QED BY <2>1, <2>2
<1>13. PlaceInv(b)'
  <2>1. \A p \in WrapperOwners : ~ref'[p][b].there => ref'[p][b] = NoWrapper
    BY <1>1, <1>6, <1>8 DEF PlaceInv
  <2>2. \A k \in Branches : b \in inbox'[k] => ~ref'[k][b].there
    BY <1>1, <1>6, <1>8, OwnerFacts DEF PlaceInv
  <2>3. buf'[b].refs # 0
    BY <1>4, <1>6, <1>8
  <2>4. step[b] \in {"work", "done", "unmap"} => Holding(b)' = {"producer"} /\ Waiting(b)' = {}
    BY <1>1, <1>10 DEF PlaceInv
  <2>5. (Here(b)'.there <=> step[b] # "none") /\ (step[b] # "none" => pooled)
    BY <1>1, <1>12 DEF PlaceInv
  <2> HIDE DEF Here
  <2> QED BY <1>1, <1>12, <2>1, <2>2, <2>3, <2>4, <2>5 DEF PlaceInv, NoWrapper, NoTime
<1>14. TimeInv(b)'
  <2>1. ASSUME x.content \notin zeroed', step[b] # "work" PROVE Dated(b)'
    <3>1. Dated(b)
      BY <1>4, <1>9, <2>1
    <3>2. CASE w.mem # "null"
      <4>1. /\ buf'[b] = buf[b] /\ step'[b] = step[b] /\ memory' = memory
            /\ Holding(b)' = Holding(b)
            /\ \A p \in WrapperOwners : ref'[p][b] = ref[p][b]
        BY <1>1, <1>6, <1>8, <1>10, <3>2
      <4> QED BY <3>1, <4>1 DEF Dated, Holding
    <3>3. CASE w.mem = "null"
      <4>1. x.pts = x.content
        BY <1>5, <3>1, <3>3 DEF Dated
      <4>2. buf'[b].pts = buf'[b].content
        BY <1>6, <1>8, <4>1
      <4>3. memory = "video" => buf'[b].time = buf'[b].content
        BY <1>6, <1>8, <3>3, <4>1
      <4>4. memory # "video" => ref'[o][b].time = x.content
        BY <1>6, <1>8, <3>3, <4>1
      <4>5. memory # "video" =>
              \A p \in Holding(b) : /\ ref'[p][b].time \in {0, x.content}
                                    /\ ref'[p][b].mem = "mapped" => ref'[p][b].time = x.content
        BY <1>8, <3>1, <4>4 DEF Dated, Holding
      <4> QED BY <1>1, <1>6, <1>8, <1>10, <4>2, <4>3, <4>5 DEF Dated
    <3> QED BY <3>2, <3>3
  <2>2. step[b] # "work" => buf'[b].content \in 1 .. frames'
    BY <1>1, <1>4, <1>6, <1>8
  <2>3. step[b] = "work" => buf'[b].content = 0 /\ buf'[b].pts = NoTime
    BY <1>1, <1>6, <1>8 DEF TimeInv
  <2> QED BY <1>1, <1>6, <1>8, <2>1, <2>2, <2>3 DEF TimeInv, Made, NoTime
<1> QED BY <1>9, <1>11, <1>13, <1>14 DEF Shown, BufferInv

LEMMA LookAtStep ==
  ASSUME WrapperInv, NEW b \in Buffers, LookAt(b)
  PROVE  Shown(b)
<1>1. /\ ref["producer"][b].there /\ Put("producer", b, Mapped(buf[b], ref["producer"][b]))
      /\ UNCHANGED <<streamVars, step, inbox, frames, lost, mapFailures>> /\ misdated' = misdated
  BY DEF LookAt, Here
<1>2. misdated' \subseteq zeroed'
  BY <1>1 DEF Put, WrapperInv, TimesAreKept
<1> QED BY <1>1, <1>2, OwnerFacts, MapStep

LEMMA ReadStep ==
  ASSUME WrapperInv, NEW b \in Buffers, NEW k \in Branches, Read(k, b)
  PROVE  Shown(b)
<1> DEFINE x == buf[b]
           w == ref[k][b]
           y == Mapped(x, w).buffer
           v == Mapped(x, w).wrapper
<1>1. /\ w.there /\ w.mem # "empty" /\ Put(k, b, Mapped(x, w))
      /\ UNCHANGED <<streamVars, step, inbox, frames, lost, mapFailures>>
      /\ misdated' = misdated \cup Wrong(y, TimeOf(y, v))
  BY DEF Read
<1>2. x \in BufferStates /\ w \in Wrappers /\ k \in WrapperOwners
  BY OwnerFacts DEF WrapperInv, WrapperTypeOK
<1>3. k \in Holding(b) /\ step[b] \in {"none", "shown"}
  <2>1. k \in Holding(b)
    BY <1>1, <1>2 DEF Holding
  <2> QED BY <1>1, <2>1, FrameFacts
<1>4. x.content \notin zeroed => Dated(b)
  BY <1>3, FrameFacts
<1>5. /\ y.content = x.content
      /\ w.mem # "null" => y = x /\ v = w
      /\ w.mem = "null" /\ memory = "video" => y.time = x.pts
      /\ w.mem = "null" /\ memory # "video" => v.time = x.pts
  BY <1>2, MappedFacts
<1> HIDE DEF y, v
<1>6. x.content \notin zeroed => TimeOf(y, v) = y.content
  <2> SUFFICES ASSUME x.content \notin zeroed PROVE TimeOf(y, v) = y.content
    OBVIOUS
  <2>1. Dated(b) /\ x.pts = x.content
    BY <1>3, <1>4 DEF Dated
  <2>2. CASE memory = "video"
    BY <1>5, <2>1, <2>2 DEF TimeOf, Dated
  <2>3. CASE memory # "video"
    <3>1. w.mem \in {"null", "mapped"}
      BY <1>1, <1>2 DEF Wrappers
    <3>2. w.mem = "mapped" => w.time = x.content
      BY <1>3, <2>1, <2>3 DEF Dated
    <3> QED BY <1>5, <2>1, <2>3, <3>1, <3>2 DEF TimeOf
  <2> QED BY <2>2, <2>3
<1>7. Wrong(y, TimeOf(y, v)) \subseteq zeroed
  BY <1>5, <1>6 DEF Wrong
<1>8. misdated' \subseteq zeroed'
  <2>1. zeroed \subseteq zeroed'
    BY <1>1 DEF Put
  <2> QED BY <1>1, <1>7, <2>1 DEF WrapperInv, TimesAreKept
<1> QED BY <1>1, <1>2, <1>8, MapStep

\* A step that writes back no time.
LEMMA PlainKeeps ==
  ASSUME WrapperInv, NEW b \in Buffers,
         buf' \in [Buffers -> BufferStates], ref' \in [WrapperOwners -> [Buffers -> Wrappers]],
         step' \in [Buffers -> {"none", "work", "done", "unmap", "shown"}],
         inbox' \in [Branches -> SUBSET Buffers],
         frames' \in 0 .. MaxMade, frames <= frames', mapFailures' \in 0 .. MaxMapFailures,
         lost' \in BOOLEAN, lost => lost', zeroed' = zeroed, misdated' \subseteq zeroed,
         memory' = memory, pooled' = pooled,
         \A c \in Buffers \ {b} :
           /\ buf'[c] = buf[c] /\ step'[c] = step[c]
           /\ \A o \in WrapperOwners : ref'[o][c] = ref[o][c]
           /\ \A k \in Branches : c \in inbox'[k] <=> c \in inbox[k]
  PROVE  WrapperTypeOK' /\ zeroed' \subseteq 1 .. frames' /\ TimesAreKept' /\ Alone(b)
<1>1. /\ WrapperTypeOK /\ zeroed \subseteq 1 .. frames /\ frames \in 0 .. MaxMade /\ MaxMade \in Nat
  BY LimitsAssumption DEF WrapperInv, WrapperTypeOK
<1>2. zeroed' \subseteq 1 .. frames'
  BY <1>1
<1>3. misdated' \subseteq 1 .. MaxMade /\ zeroed' \subseteq 1 .. MaxMade
  BY <1>1, <1>2
<1>4. WrapperTypeOK'
  BY <1>1, <1>3 DEF WrapperTypeOK, BufferStates, Wrappers, Times, WrapperOwners
<1>5. Alone(b)
  BY DEF Alone, streamVars
<1>6. TimesAreKept'
  BY DEF TimesAreKept
<1> QED BY <1>2, <1>4, <1>5, <1>6

LEMMA SendStep ==
  ASSUME WrapperInv, NEW b \in Buffers, Send(b)
  PROVE  Shown(b)
<1> DEFINE w == ref["producer"][b]
           again == memory # "video" /\ w.mem = "mapped"
           v == [w EXCEPT !.mem = IF again THEN "empty" ELSE @]
           y == [buf[b] EXCEPT !.refs = @ + Cardinality(Branches)]
<1>1. /\ WrapperTypeOK /\ BufferCounted(b) /\ PlaceInv(b) /\ step[b] = "unmap"
      /\ buf[b] \in BufferStates /\ w \in Wrappers /\ Cardinality(Branches) \in Nat
  BY OwnerFacts DEF Send, WrapperInv, BufferInv, WrapperTypeOK
<1>2. /\ Holding(b) = {"producer"} /\ Waiting(b) = {} /\ w.there /\ pooled
  BY <1>1 DEF PlaceInv, Here
<1>3. /\ buf[b].refs # 0 /\ buf[b].content \in 1 .. frames
      /\ buf[b].content \notin zeroed => Dated(b)
  BY <1>1, <1>2, FrameFacts
<1>4. /\ y \in BufferStates /\ y.refs = buf[b].refs + Cardinality(Branches) /\ y.maps = buf[b].maps
      /\ y.content = buf[b].content /\ y.pts = buf[b].pts /\ y.time = buf[b].time
  BY <1>1 DEF BufferStates
<1>5. /\ v \in Wrappers /\ v.there = w.there /\ v.time = w.time
      /\ again => v.mem = "empty"
      /\ ~again => v.mem = w.mem
  BY <1>1 DEF Wrappers
<1>6. /\ step' = [step EXCEPT ![b] = "shown"] /\ lost' = (lost \/ again)
      /\ inbox' = [k \in Branches |-> inbox[k] \cup {b}]
      /\ UNCHANGED <<streamVars, frames, misdated, zeroed, mapFailures>>
  BY DEF Send, Here
<1>7. buf' = [buf EXCEPT ![b] = y]
  BY <1>1 DEF Send, WrapperTypeOK
<1>8. ref' = [ref EXCEPT !["producer"] = [ref["producer"] EXCEPT ![b] = v]]
  BY <1>1, OwnerFacts DEF Send, WrapperTypeOK, Here
<1> HIDE DEF y, v
<1>9. /\ buf'[b] = y /\ ref'["producer"][b] = v /\ step'[b] = "shown"
      /\ \A p \in WrapperOwners \ {"producer"} : ref'[p][b] = ref[p][b]
      /\ \A c \in Buffers \ {b} : /\ buf'[c] = buf[c] /\ step'[c] = step[c]
                                  /\ \A p \in WrapperOwners : ref'[p][c] = ref[p][c]
                                  /\ \A k \in Branches : c \in inbox'[k] <=> c \in inbox[k]
  BY <1>1, <1>6, <1>7, <1>8, OwnerFacts DEF WrapperTypeOK
<1>10. /\ memory' = memory /\ pooled' = pooled /\ misdated' = misdated /\ zeroed' = zeroed
       /\ frames' = frames /\ mapFailures' = mapFailures
  BY <1>6 DEF streamVars
<1>11. lost' \in BOOLEAN /\ (lost => lost') /\ (~lost' => ~again)
  BY <1>1, <1>6 DEF WrapperTypeOK
<1>12. WrapperTypeOK' /\ zeroed' \subseteq 1 .. frames' /\ TimesAreKept' /\ Alone(b)
  <2>1. buf' \in [Buffers -> BufferStates]
    BY <1>1, <1>4, <1>7 DEF WrapperTypeOK
  <2>2. ref' \in [WrapperOwners -> [Buffers -> Wrappers]]
    BY <1>1, <1>5, <1>8, OwnerFacts DEF WrapperTypeOK
  <2>3. step' \in [Buffers -> {"none", "work", "done", "unmap", "shown"}]
    BY <1>1, <1>6 DEF WrapperTypeOK
  <2>4. inbox' \in [Branches -> SUBSET Buffers]
    BY <1>1, <1>6 DEF WrapperTypeOK
  <2>5. frames' \in 0 .. MaxMade /\ frames <= frames' /\ mapFailures' \in 0 .. MaxMapFailures
    BY <1>1, <1>10, LimitsAssumption DEF WrapperTypeOK
  <2>6. misdated' \subseteq zeroed
    BY <1>10 DEF WrapperInv, TimesAreKept
  <2> QED BY <1>9, <1>10, <1>11, <2>1, <2>2, <2>3, <2>4, <2>5, <2>6, PlainKeeps
<1>13. /\ Holding(b)' = Holding(b) /\ Waiting(b)' = Branches
       /\ Cardinality(Holding(b))' = Cardinality(Holding(b))
       /\ ~again => Cardinality(Mapping(b))' = Cardinality(Mapping(b))
       /\ Cardinality(Waiting(b)) = 0
  <2>1. Waiting(b)' = Branches
    BY <1>6 DEF Waiting
  <2>2. /\ Holding(b)' = Holding(b)
        /\ Cardinality(Holding(b))' = Cardinality(Holding(b))
        /\ (v.mem = "mapped" <=> w.mem = "mapped") => Cardinality(Mapping(b))' = Cardinality(Mapping(b))
    BY <1>1, <1>5, <1>9, OwnerFacts, OneWrapper
  <2>3. Cardinality(Waiting(b)) = 0
    BY <1>2, FS_EmptySet
  <2> QED BY <1>5, <2>1, <2>2, <2>3
<1>14. BufferCounted(b)'
  <2>1. /\ buf'[b].refs = buf[b].refs + 0 + Cardinality(Branches)
        /\ Cardinality(Waiting(b))' = Cardinality(Waiting(b)) + Cardinality(Branches)
        /\ Cardinality(Holding(b))' = Cardinality(Holding(b)) + 0
        /\ ~lost' /\ memory # "video" => /\ buf'[b].maps = buf[b].maps + 0
                                         /\ Cardinality(Mapping(b))' = Cardinality(Mapping(b)) + 0
    BY <1>1, <1>4, <1>9, <1>11, <1>13, BufferFacts
  <2> QED BY <1>1, <1>10, <1>11, <2>1, CountsKept
<1>15. Here(b)' = v
  BY <1>9 DEF Here
<1>16. PlaceInv(b)'
  <2>1. \A o \in WrapperOwners : ~ref'[o][b].there => ref'[o][b] = NoWrapper
    BY <1>1, <1>2, <1>5, <1>9 DEF PlaceInv
  <2>2. \A k \in Branches : ~ref'[k][b].there
    BY <1>2, <1>9, OwnerFacts DEF Holding
  <2>3. buf'[b].refs # 0
    BY <1>1, <1>3, <1>4, <1>9 DEF BufferStates
  <2> HIDE DEF Here
  <2> QED BY <1>2, <1>5, <1>9, <1>10, <1>15, <2>1, <2>2, <2>3 DEF PlaceInv, NoWrapper, NoTime
<1>17. TimeInv(b)'
  <2>1. ASSUME buf[b].content \notin zeroed PROVE Dated(b)'
    <3>1. Dated(b)
      BY <1>3, <2>1
    <3>2. memory # "video" => v.time \in {0, buf[b].content} /\ (v.mem = "mapped" => v.time = buf[b].content)
      BY <1>2, <1>5, <3>1 DEF Dated
    <3>3. buf[b].pts = buf[b].content /\ (memory = "video" => buf[b].time = buf[b].content)
      BY <1>1, <3>1 DEF Dated
    <3> QED BY <1>2, <1>4, <1>9, <1>10, <1>13, <3>2, <3>3 DEF Dated
  <2> QED BY <1>3, <1>4, <1>9, <1>10, <2>1 DEF TimeInv
<1> QED BY <1>12, <1>14, <1>16, <1>17 DEF Shown, BufferInv

LEMMA SourceStep ==
  ASSUME WrapperInv, NEW b \in Buffers, Source(b)
  PROVE  Shown(b)
<1> DEFINE y == [buf[b] EXCEPT !.content = frames + 1, !.pts = frames + 1, !.refs = Cardinality(Branches)]
<1>1. /\ WrapperTypeOK /\ BufferCounted(b) /\ PlaceInv(b) /\ ~pooled /\ memory # "video"
      /\ buf[b].refs = 0 /\ frames < MaxMade /\ frames \in 0 .. MaxMade /\ MaxMade \in Nat
      /\ buf[b] \in BufferStates /\ Cardinality(Branches) \in Nat
  BY OwnerFacts, LimitsAssumption DEF Source, WrapperInv, BufferInv, WrapperTypeOK
<1>2. Holding(b) = {} /\ Waiting(b) = {} /\ step[b] = "none"
  BY <1>1, BufferFacts DEF PlaceInv
<1>3. /\ y \in BufferStates /\ y.refs = Cardinality(Branches) /\ y.maps = buf[b].maps
      /\ y.content = frames + 1 /\ y.pts = frames + 1
  <2>1. frames + 1 \in 0 .. MaxMade /\ frames + 1 \in Times
    BY <1>1 DEF Times
  <2> QED BY <1>1, <2>1 DEF BufferStates
<1>4. /\ inbox' = [k \in Branches |-> inbox[k] \cup {b}] /\ frames' = frames + 1
      /\ UNCHANGED <<streamVars, ref, step, wrapperHistory, mapFailures>>
  BY DEF Source
<1>5. buf' = [buf EXCEPT ![b] = y]
  BY <1>1 DEF Source, WrapperTypeOK
<1> HIDE DEF y
<1>6. /\ buf'[b] = y
      /\ \A c \in Buffers \ {b} : /\ buf'[c] = buf[c]
                                  /\ \A k \in Branches : c \in inbox'[k] <=> c \in inbox[k]
  BY <1>1, <1>4, <1>5 DEF WrapperTypeOK
<1>7. /\ memory' = memory /\ pooled' = pooled /\ misdated' = misdated /\ zeroed' = zeroed
      /\ lost' = lost /\ mapFailures' = mapFailures /\ ref' = ref /\ step' = step
  BY <1>4 DEF streamVars, wrapperHistory
<1>8. lost' \in BOOLEAN /\ (lost => lost')
  BY <1>1, <1>7 DEF WrapperTypeOK
<1>9. WrapperTypeOK' /\ zeroed' \subseteq 1 .. frames' /\ TimesAreKept' /\ Alone(b)
  <2>1. buf' \in [Buffers -> BufferStates]
    BY <1>1, <1>3, <1>5 DEF WrapperTypeOK
  <2>2. /\ ref' \in [WrapperOwners -> [Buffers -> Wrappers]]
        /\ step' \in [Buffers -> {"none", "work", "done", "unmap", "shown"}]
    BY <1>1, <1>7 DEF WrapperTypeOK
  <2>3. inbox' \in [Branches -> SUBSET Buffers]
    BY <1>1, <1>4 DEF WrapperTypeOK
  <2>4. frames' \in 0 .. MaxMade /\ frames <= frames' /\ mapFailures' \in 0 .. MaxMapFailures
    BY <1>1, <1>4, <1>7 DEF WrapperTypeOK
  <2>5. misdated' \subseteq zeroed
    BY <1>7 DEF WrapperInv, TimesAreKept
  <2> QED BY <1>6, <1>7, <1>8, <2>1, <2>2, <2>3, <2>4, <2>5, PlainKeeps
<1>10. /\ Holding(b)' = Holding(b) /\ Mapping(b)' = Mapping(b) /\ Waiting(b)' = Branches
       /\ Cardinality(Waiting(b)) = 0
  <2>1. Waiting(b)' = Branches
    BY <1>4 DEF Waiting
  <2>2. Cardinality(Waiting(b)) = 0
    BY <1>2, FS_EmptySet
  <2> QED BY <1>7, <2>1, <2>2 DEF Holding, Mapping
<1>11. BufferCounted(b)'
  <2>1. /\ buf'[b].refs = buf[b].refs + 0 + Cardinality(Branches)
        /\ Cardinality(Waiting(b))' = Cardinality(Waiting(b)) + Cardinality(Branches)
        /\ Cardinality(Holding(b))' = Cardinality(Holding(b)) + 0
        /\ buf'[b].maps = buf[b].maps + 0
        /\ Cardinality(Mapping(b))' = Cardinality(Mapping(b)) + 0
    BY <1>1, <1>3, <1>6, <1>10, BufferFacts
  <2> QED BY <1>1, <1>7, <1>8, <2>1, CountsKept
<1>12. PlaceInv(b)'
  <2>1. \A o \in WrapperOwners : ~ref'[o][b].there => ref'[o][b] = NoWrapper
    BY <1>1, <1>7 DEF PlaceInv
  <2>2. \A k \in Branches : ~ref'[k][b].there
    BY <1>2, <1>7, OwnerFacts DEF Holding
  <2>3. ~Here(b)'.there
    BY <1>2, <1>7, OwnerFacts DEF Holding, Here
  <2> HIDE DEF Here
  <2> QED BY <1>1, <1>2, <1>7, <2>1, <2>2, <2>3 DEF PlaceInv, NoWrapper, NoTime
<1>13. TimeInv(b)'
  <2>1. Dated(b)'
    BY <1>1, <1>2, <1>3, <1>6, <1>7, <1>10 DEF Dated
  <2>2. buf'[b].content \in 1 .. frames'
    BY <1>1, <1>3, <1>4, <1>6
  <2> QED BY <1>2, <1>7, <2>1, <2>2 DEF TimeInv
<1> QED BY <1>9, <1>11, <1>12, <1>13 DEF Shown, BufferInv

LEMMA MapFailsStep ==
  ASSUME WrapperInv, NEW b \in Buffers, NEW o \in WrapperOwners, MapFails(o, b)
  PROVE  Shown(b)
<1> DEFINE w == ref[o][b]
           v == MapFailed(w)
<1>1. /\ WrapperTypeOK /\ BufferCounted(b) /\ PlaceInv(b) /\ TimeInv(b)
      /\ w.there /\ w.mem = "null" /\ memory # "video"
      /\ w \in Wrappers /\ (o = "producer" => step[b] = "shown") /\ buf[b] \in BufferStates
  BY DEF MapFails, WrapperInv, BufferInv, WrapperTypeOK
<1>2. v \in Wrappers /\ v.there = w.there /\ v.time = w.time /\ v.mem # "mapped"
  <2>1. CASE memory = "dma"
    <3>1. v = [w EXCEPT !.mem = "null"]
      BY <2>1 DEF MapFailed
    <3> QED BY <1>1, <3>1 DEF Wrappers
  <2>2. CASE memory # "dma"
    <3>1. v = [w EXCEPT !.mem = "empty"]
      BY <2>2 DEF MapFailed
    <3> QED BY <1>1, <3>1 DEF Wrappers
  <2> QED BY <2>1, <2>2
<1>3. o \in Holding(b)
  BY <1>1 DEF Holding
<1>4. ref' = [ref EXCEPT ![o] = [ref[o] EXCEPT ![b] = v]]
  BY <1>1 DEF MapFails, WrapperTypeOK
<1>5. /\ memory' = memory /\ pooled' = pooled /\ misdated' = misdated /\ zeroed' = zeroed
      /\ lost' = lost /\ mapFailures' = mapFailures + 1 /\ buf' = buf /\ step' = step
      /\ inbox' = inbox /\ frames' = frames /\ mapFailures < MaxMapFailures
  BY DEF MapFails, streamVars, wrapperHistory
<1> HIDE DEF v
<1>6. /\ ref'[o][b] = v
      /\ \A p \in WrapperOwners \ {o} : ref'[p][b] = ref[p][b]
      /\ \A c \in Buffers \ {b} : \A p \in WrapperOwners : ref'[p][c] = ref[p][c]
  BY <1>1, <1>4 DEF WrapperTypeOK
<1>7. lost' \in BOOLEAN /\ (lost => lost')
  BY <1>1, <1>5 DEF WrapperTypeOK
<1>8. WrapperTypeOK' /\ zeroed' \subseteq 1 .. frames' /\ TimesAreKept' /\ Alone(b)
  <2>1. ref' \in [WrapperOwners -> [Buffers -> Wrappers]]
    BY <1>1, <1>2, <1>4 DEF WrapperTypeOK
  <2>2. /\ buf' \in [Buffers -> BufferStates] /\ inbox' \in [Branches -> SUBSET Buffers]
        /\ step' \in [Buffers -> {"none", "work", "done", "unmap", "shown"}]
    BY <1>1, <1>5 DEF WrapperTypeOK
  <2>3. frames' \in 0 .. MaxMade /\ frames <= frames' /\ mapFailures' \in 0 .. MaxMapFailures
    BY <1>1, <1>5, LimitsAssumption DEF WrapperTypeOK
  <2>4. misdated' \subseteq zeroed
    BY <1>5 DEF WrapperInv, TimesAreKept
  <2> QED BY <1>5, <1>6, <1>7, <2>1, <2>2, <2>3, <2>4, PlainKeeps
<1>9. /\ Holding(b)' = Holding(b) /\ Waiting(b)' = Waiting(b)
      /\ Cardinality(Holding(b))' = Cardinality(Holding(b))
      /\ Cardinality(Mapping(b))' = Cardinality(Mapping(b))
      /\ Cardinality(Waiting(b))' = Cardinality(Waiting(b))
  <2>1. Waiting(b)' = Waiting(b)
    BY <1>5 DEF Waiting
  <2>2. /\ Holding(b)' = Holding(b)
        /\ Cardinality(Holding(b))' = Cardinality(Holding(b))
        /\ Cardinality(Mapping(b))' = Cardinality(Mapping(b))
    BY <1>1, <1>2, <1>6, OneWrapper
  <2> QED BY <2>1, <2>2
<1>10. BufferCounted(b)'
  <2>1. /\ buf'[b].refs = buf[b].refs + 0 + 0
        /\ Cardinality(Waiting(b))' = Cardinality(Waiting(b)) + 0
        /\ Cardinality(Holding(b))' = Cardinality(Holding(b)) + 0
        /\ buf'[b].maps = buf[b].maps + 0
        /\ Cardinality(Mapping(b))' = Cardinality(Mapping(b)) + 0
    BY <1>5, <1>9, BufferFacts
  <2>2. memory' = memory
    BY <1>5
  <2> QED BY <1>7, <2>1, <2>2, CountsKept
<1>11. /\ Here(b)'.there = Here(b).there
       /\ step[b] \in {"work", "done"} => Here(b)'.mem = "mapped"
  <2>1. CASE o = "producer"
    BY <1>1, <1>2, <1>6, <2>1 DEF Here
  <2>2. CASE o # "producer"
    BY <1>1, <1>6, <2>2, OwnerFacts DEF Here, PlaceInv
  <2> QED BY <2>1, <2>2
<1>12. PlaceInv(b)'
  <2>1. \A p \in WrapperOwners : ~ref'[p][b].there => ref'[p][b] = NoWrapper
    BY <1>1, <1>2, <1>6 DEF PlaceInv
  <2>2. \A k \in Branches : b \in inbox'[k] => ~ref'[k][b].there
    BY <1>1, <1>2, <1>5, <1>6, OwnerFacts DEF PlaceInv
  <2>3. step[b] \in {"work", "done", "unmap"} => Holding(b)' = {"producer"} /\ Waiting(b)' = {}
    BY <1>1, <1>9 DEF PlaceInv
  <2>4. /\ (Here(b)'.there <=> step[b] # "none") /\ (step[b] # "none" => pooled)
        /\ pooled /\ buf[b].refs = 0 => buf[b].content = 0 /\ buf[b].pts = NoTime
    BY <1>1, <1>11 DEF PlaceInv
  <2> HIDE DEF Here
  <2> QED BY <1>5, <1>11, <2>1, <2>2, <2>3, <2>4 DEF PlaceInv, NoWrapper, NoTime
<1>13. TimeInv(b)'
  <2>1. ASSUME Dated(b) PROVE Dated(b)'
    <3>1. \A p \in Holding(b) : /\ ref'[p][b].time \in {0, buf[b].content}
                                /\ ref'[p][b].mem = "mapped" => ref'[p][b].time = buf[b].content
      BY <1>1, <1>2, <1>3, <1>6, <2>1 DEF Dated, Holding
    <3> QED BY <1>1, <1>5, <1>9, <2>1, <3>1 DEF Dated
  <2> QED BY <1>1, <1>5, <1>9, <2>1 DEF TimeInv, Made, NoTime
<1> QED BY <1>8, <1>10, <1>12, <1>13 DEF Shown, BufferInv

LEMMA WrapStep ==
  ASSUME WrapperInv, NEW b \in Buffers, NEW k \in Branches, Wrap(k, b)
  PROVE  Shown(b)
<1>1. /\ WrapperTypeOK /\ BufferCounted(b) /\ PlaceInv(b) /\ TimeInv(b)
      /\ b \in inbox[k] /\ ~ref[k][b].there /\ k \in WrapperOwners /\ k # "producer"
      /\ k \in Waiting(b) /\ buf[b] \in BufferStates
  BY OwnerFacts DEF Wrap, WrapperInv, BufferInv, WrapperTypeOK, Waiting
<1>2. /\ step[b] \in {"none", "shown"} /\ buf[b].refs # 0 /\ buf[b].content \in 1 .. frames
      /\ buf[b].content \notin zeroed => Dated(b)
  BY <1>1, FrameFacts
<1>3. /\ ref' = [ref EXCEPT ![k] = [ref[k] EXCEPT ![b] = NewWrapper]]
      /\ inbox' = [inbox EXCEPT ![k] = @ \ {b}]
  BY <1>1 DEF Wrap, WrapperTypeOK
<1>4. /\ memory' = memory /\ pooled' = pooled /\ misdated' = misdated /\ zeroed' = zeroed
      /\ lost' = lost /\ mapFailures' = mapFailures /\ buf' = buf /\ step' = step /\ frames' = frames
  BY DEF Wrap, streamVars, wrapperHistory
<1>5. /\ ref'[k][b] = NewWrapper
      /\ \A p \in WrapperOwners \ {k} : ref'[p][b] = ref[p][b]
      /\ \A c \in Buffers \ {b} : /\ \A p \in WrapperOwners : ref'[p][c] = ref[p][c]
                                  /\ \A q \in Branches : c \in inbox'[q] <=> c \in inbox[q]
      /\ \A q \in Branches : b \in inbox'[q] <=> q # k /\ b \in inbox[q]
  BY <1>1, <1>3 DEF WrapperTypeOK
<1>6. lost' \in BOOLEAN /\ (lost => lost')
  BY <1>1, <1>4 DEF WrapperTypeOK
<1>7. WrapperTypeOK' /\ zeroed' \subseteq 1 .. frames' /\ TimesAreKept' /\ Alone(b)
  <2>1. ref' \in [WrapperOwners -> [Buffers -> Wrappers]]
    BY <1>1, <1>3, NewFacts DEF WrapperTypeOK
  <2>2. inbox' \in [Branches -> SUBSET Buffers]
    BY <1>1, <1>3 DEF WrapperTypeOK
  <2>3. /\ buf' \in [Buffers -> BufferStates]
        /\ step' \in [Buffers -> {"none", "work", "done", "unmap", "shown"}]
    BY <1>1, <1>4 DEF WrapperTypeOK
  <2>4. frames' \in 0 .. MaxMade /\ frames <= frames' /\ mapFailures' \in 0 .. MaxMapFailures
    BY <1>1, <1>4, LimitsAssumption DEF WrapperTypeOK
  <2>5. misdated' \subseteq zeroed
    BY <1>4 DEF WrapperInv, TimesAreKept
  <2> QED BY <1>4, <1>5, <1>6, <2>1, <2>2, <2>3, <2>4, <2>5, PlainKeeps
<1>8. ref[k][b] = NoWrapper
  BY <1>1 DEF PlaceInv
<1>9. /\ Holding(b)' = Holding(b) \cup {k} /\ Waiting(b)' = Waiting(b) \ {k}
      /\ Cardinality(Holding(b))' = Cardinality(Holding(b)) + 1
      /\ Cardinality(Mapping(b))' = Cardinality(Mapping(b))
      /\ Cardinality(Waiting(b))' = Cardinality(Waiting(b)) - 1
  <2>1. Waiting(b)' = Waiting(b) \ {k}
    BY <1>5 DEF Waiting
  <2>2. Cardinality(Waiting(b) \ {k}) = Cardinality(Waiting(b)) - 1
    BY <1>1, BufferFacts, OwnerFacts, CountOf
  <2>3. /\ Holding(b)' = Holding(b) \cup {k}
        /\ Cardinality(Holding(b))' = Cardinality(Holding(b)) + 1
        /\ Cardinality(Mapping(b))' = Cardinality(Mapping(b))
    BY <1>1, <1>5, <1>8, NewFacts, OneWrapper
  <2> QED BY <2>1, <2>2, <2>3
<1>10. BufferCounted(b)'
  <2>1. /\ buf'[b].refs = buf[b].refs + 1 + (-1)
        /\ Cardinality(Waiting(b))' = Cardinality(Waiting(b)) + (-1)
        /\ buf'[b].maps = buf[b].maps + 0
        /\ Cardinality(Mapping(b))' = Cardinality(Mapping(b)) + 0
    BY <1>4, <1>9, BufferFacts
  <2>2. memory' = memory /\ Cardinality(Holding(b))' = Cardinality(Holding(b)) + 1
    BY <1>4, <1>9
  <2> QED BY <1>6, <2>1, <2>2, CountsKept
<1>11. PlaceInv(b)'
  <2>1. \A p \in WrapperOwners : ~ref'[p][b].there => ref'[p][b] = NoWrapper
    BY <1>1, <1>5, NewFacts DEF PlaceInv
  <2>2. \A q \in Branches : b \in inbox'[q] => ~ref'[q][b].there
    BY <1>1, <1>5, OwnerFacts DEF PlaceInv
  <2>3. Here(b)' = Here(b)
    BY <1>1, <1>5, OwnerFacts DEF Here
  <2>4. (Here(b).there <=> step[b] # "none") /\ (step[b] # "none" => pooled)
    BY <1>1 DEF PlaceInv
  <2> HIDE DEF Here
  <2> QED BY <1>2, <1>4, <2>1, <2>2, <2>3, <2>4 DEF PlaceInv, NoWrapper, NoTime
<1>12. TimeInv(b)'
  <2>1. ASSUME Dated(b) PROVE Dated(b)'
    <3>1. memory # "video" => \A p \in Holding(b) \cup {k} :
             /\ ref'[p][b].time \in {0, buf[b].content}
             /\ ref'[p][b].mem = "mapped" => ref'[p][b].time = buf[b].content
      BY <1>1, <1>5, <2>1, NewFacts DEF Dated, Holding
    <3> QED BY <1>4, <1>9, <2>1, <3>1 DEF Dated
  <2> QED BY <1>2, <1>4, <2>1 DEF TimeInv
<1> QED BY <1>7, <1>10, <1>11, <1>12 DEF Shown, BufferInv

\* The destructor of a wrapper.  A buffer that others hold is in their branches.
LEMMA DropStep ==
  ASSUME WrapperInv, NEW o \in WrapperOwners, NEW b \in Buffers, ref[o][b].there,
         Put(o, b, Both(Destroyed(buf[b], ref[o][b]), NoWrapper)),
         UNCHANGED <<streamVars, inbox, frames, misdated, lost, mapFailures>>,
         step' = IF o = "producer" THEN [step EXCEPT ![b] = "none"] ELSE step
  PROVE  Shown(b)
<1> DEFINE x == buf[b]
           w == ref[o][b]
           y == Destroyed(x, w)
<1>1. /\ WrapperTypeOK /\ BufferCounted(b) /\ PlaceInv(b) /\ TimeInv(b)
      /\ memory' = memory /\ pooled' = pooled /\ lost' = lost /\ frames' = frames
      /\ inbox' = inbox /\ misdated' = misdated
  BY DEF WrapperInv, BufferInv, streamVars
<1>2. x \in BufferStates /\ w \in Wrappers /\ x.refs \in Nat
  BY <1>1 DEF WrapperTypeOK, BufferStates
<1>3. o \in Holding(b)
  BY DEF Holding
<1>4. /\ x.refs >= 1
      /\ x.refs > 1 => step[b] \in {"none", "shown"} /\ x.content \in 1 .. frames
      /\ x.refs > 1 /\ x.content \notin zeroed => Dated(b) /\ x.pts = x.content
      /\ o # "producer" => step[b] \in {"none", "shown"}
  <2>1. x.refs # 0
    BY <1>3, FrameFacts
  <2>2. x.refs > 1 => step[b] \in {"none", "shown"}
    BY <1>3, FrameFacts
  <2>3. x.refs > 1 => x.content \in 1 .. frames
    BY <1>3, <2>2, FrameFacts
  <2>4. x.refs > 1 /\ x.content \notin zeroed => Dated(b) /\ x.pts = x.content
    BY <1>3, <2>2, FrameFacts
  <2>5. o # "producer" => step[b] \in {"none", "shown"}
    BY <1>3, FrameFacts DEF WrapperOwners
  <2> QED BY <1>2, <2>1, <2>2, <2>3, <2>4, <2>5
<1>5. /\ y \in BufferStates /\ y.refs = x.refs - 1
      /\ x.refs = 1 => y.content = 0 /\ y.pts = NoTime
      /\ x.refs > 1 => y.content = x.content /\ y.time = x.time
      /\ x.refs > 1 /\ memory = "video" => y.pts \in {x.time, x.pts}
      /\ x.refs > 1 /\ memory # "video" => y.pts \in {x.pts, w.time}
      /\ memory # "video" /\ w.mem = "mapped" => y.maps = x.maps - 1
      /\ memory # "video" /\ w.mem # "mapped" => y.maps = x.maps
  <2>1. /\ y \in BufferStates /\ y.refs = x.refs - 1
        /\ x.refs = 1 => y.content = 0 /\ y.pts = NoTime
        /\ x.refs > 1 => y.content = x.content /\ y.time = x.time
        /\ x.refs > 1 /\ memory = "video" => y.pts = IF w.mem # "null" THEN x.time ELSE x.pts
        /\ x.refs > 1 /\ memory # "video" => y.pts \in {x.pts, w.time}
        /\ memory # "video" => y.maps = x.maps - (IF w.mem = "mapped" THEN 1 ELSE 0)
    <3> HIDE DEF x, w
    <3> QED BY <1>2, <1>4, DestroyedFacts
  <2>2. x.maps \in Int
    BY <1>2 DEF BufferStates
  <2> HIDE DEF y, x, w
  <2> QED BY <2>1, <2>2
<1>6. Put(o, b, Both(y, NoWrapper))
  OBVIOUS
<1> HIDE DEF y
<1>7. /\ buf'[b] = y /\ ref'[o][b] = NoWrapper
      /\ \A p \in WrapperOwners \ {o} : ref'[p][b] = ref[p][b]
  BY <1>1, <1>6, PutFacts
<1>8. /\ step' \in [Buffers -> {"none", "work", "done", "unmap", "shown"}]
      /\ \A c \in Buffers \ {b} : step'[c] = step[c]
      /\ step'[b] \in {"none", "shown"} /\ (step'[b] # "none" => step'[b] = step[b])
      /\ o = "producer" => step'[b] = "none"
      /\ o # "producer" => step'[b] = step[b]
  <2>1. CASE o = "producer"
    BY <1>1, <2>1 DEF WrapperTypeOK
  <2>2. CASE o # "producer"
    BY <1>1, <1>4, <2>2 DEF WrapperTypeOK
  <2> QED BY <2>1, <2>2
<1>9. /\ WrapperTypeOK' /\ zeroed' \subseteq 1 .. frames' /\ TimesAreKept' /\ Alone(b)
      /\ x.content \notin zeroed' => x.content \notin zeroed /\ (x.pts = 0 \/ y.pts # 0)
  <2>1. inbox' \in [Branches -> SUBSET Buffers]
    BY <1>1 DEF WrapperTypeOK
  <2>2. misdated' \subseteq zeroed'
    BY <1>1, <1>6 DEF WrapperInv, TimesAreKept, Put
  <2>3. x.pts # 0 /\ y.pts = 0 => x.content \in 1 .. frames
    BY <1>2, <1>4, <1>5 DEF NoTime
  <2> QED BY <1>1, <1>5, <1>6, <1>8, <2>1, <2>2, <2>3, NewFacts, PutKeeps
<1>10. /\ Holding(b)' = Holding(b) \ {o} /\ Waiting(b)' = Waiting(b)
       /\ Cardinality(Holding(b))' = Cardinality(Holding(b)) - 1
       /\ w.mem = "mapped" => Cardinality(Mapping(b))' = Cardinality(Mapping(b)) - 1
       /\ w.mem # "mapped" => Cardinality(Mapping(b))' = Cardinality(Mapping(b))
       /\ Cardinality(Waiting(b))' = Cardinality(Waiting(b))
  <2>1. Waiting(b)' = Waiting(b)
    BY <1>1 DEF Waiting
  <2>2. NoWrapper.mem # "mapped" /\ ~NoWrapper.there /\ NoWrapper \in Wrappers
    BY NewFacts
  <2>3. /\ Holding(b)' = Holding(b) \ {o}
        /\ Cardinality(Holding(b))' = Cardinality(Holding(b)) - 1
        /\ w.mem = "mapped" => Cardinality(Mapping(b))' = Cardinality(Mapping(b)) - 1
        /\ w.mem # "mapped" => Cardinality(Mapping(b))' = Cardinality(Mapping(b))
    BY <1>1, <1>7, <2>2, OneWrapper
  <2> QED BY <2>1, <2>3
<1>11. BufferCounted(b)'
  <2>1. lost => lost'
    BY <1>1
  <2>2. /\ buf'[b].refs = buf[b].refs + (-1) + 0
        /\ Cardinality(Waiting(b))' = Cardinality(Waiting(b)) + 0
        /\ Cardinality(Holding(b))' = Cardinality(Holding(b)) + (-1)
    BY <1>2, <1>5, <1>7, <1>10, BufferFacts
  <2>3. CASE w.mem = "mapped"
    <3>1. memory # "video" => buf'[b].maps = buf[b].maps + (-1)
      BY <1>5, <1>7, <2>3, BufferFacts
    <3>2. Cardinality(Mapping(b))' = Cardinality(Mapping(b)) + (-1)
      BY <1>10, <2>3, BufferFacts
    <3> QED BY <1>1, <2>1, <2>2, <3>1, <3>2, CountsKept
  <2>4. CASE w.mem # "mapped"
    <3>1. memory # "video" => buf'[b].maps = buf[b].maps + 0
      BY <1>5, <1>7, <2>4, BufferFacts
    <3>2. Cardinality(Mapping(b))' = Cardinality(Mapping(b)) + 0
      BY <1>10, <2>4, BufferFacts
    <3> QED BY <1>1, <2>1, <2>2, <3>1, <3>2, CountsKept
  <2> QED BY <2>3, <2>4
<1>12. PlaceInv(b)'
  <2>1. \A p \in WrapperOwners : ~ref'[p][b].there => ref'[p][b] = NoWrapper
    BY <1>1, <1>7 DEF PlaceInv
  <2>2. \A k \in Branches : b \in inbox'[k] => ~ref'[k][b].there
    BY <1>1, <1>7, OwnerFacts, NewFacts DEF PlaceInv
  <2>3. (Here(b)'.there <=> step'[b] # "none") /\ (step'[b] # "none" => pooled)
    <3>1. CASE o = "producer"
      BY <1>7, <1>8, <3>1, NewFacts DEF Here
    <3>2. CASE o # "producer"
      BY <1>1, <1>7, <1>8, <3>2, OwnerFacts DEF Here, PlaceInv
    <3> QED BY <3>1, <3>2
  <2>4. buf'[b].refs = 0 => buf'[b].content = 0 /\ buf'[b].pts = NoTime
    BY <1>2, <1>5, <1>7
  <2> HIDE DEF Here
  <2> QED BY <1>1, <1>8, <2>1, <2>2, <2>3, <2>4 DEF PlaceInv, NoWrapper, NoTime
<1>13. TimeInv(b)'
  <2>1. CASE x.refs = 1
    <3>1. Holding(b)' = {} /\ Waiting(b)' = {}
      <4>1. buf'[b].refs = 0
        BY <1>5, <1>7, <2>1
      <4>2. Cardinality(Holding(b)) = 1 /\ Cardinality(Waiting(b)) = 0
        BY <1>1, <1>3, <2>1, BufferFacts DEF BufferCounted
      <4>3. Holding(b) = {o} /\ Waiting(b) = {}
        BY <1>3, <4>2, BufferFacts
      <4> QED BY <1>10, <4>3
    <3>2. ~Made(b)'
      BY <3>1 DEF Made
    <3> QED BY <1>8, <3>2 DEF TimeInv
  <2>2. CASE x.refs # 1
    <3>1. x.refs > 1
      BY <1>2, <1>4, <2>2
    <3>2. buf'[b].content \in 1 .. frames'
      BY <1>1, <1>4, <1>5, <1>7, <3>1
    <3>3. ASSUME x.content \notin zeroed' PROVE Dated(b)'
      <4>1. Dated(b) /\ x.pts = x.content /\ x.content # 0 /\ y.pts # 0
        BY <1>1, <1>4, <1>9, <3>1, <3>3 DEF WrapperTypeOK
      <4>2. y.pts = x.content
        <5>1. CASE memory = "video"
          BY <1>5, <3>1, <4>1, <5>1 DEF Dated
        <5>2. CASE memory # "video"
          BY <1>3, <1>5, <3>1, <4>1, <5>2 DEF Dated
        <5> QED BY <5>1, <5>2
      <4>3. memory = "video" => y.time = x.content
        BY <1>5, <3>1, <4>1 DEF Dated
      <4>4. memory # "video" => \A p \in Holding(b)' :
               /\ ref'[p][b].time \in {0, x.content}
               /\ ref'[p][b].mem = "mapped" => ref'[p][b].time = x.content
        BY <1>7, <1>10, <4>1 DEF Dated, Holding
      <4> QED BY <1>1, <1>5, <1>7, <3>1, <4>2, <4>3, <4>4 DEF Dated
    <3> QED BY <1>5, <1>7, <1>8, <3>1, <3>2, <3>3 DEF TimeInv
  <2> QED BY <2>1, <2>2
<1> QED BY <1>9, <1>11, <1>12, <1>13 DEF Shown, BufferInv

LEMMA ProducerDropsStep ==
  ASSUME WrapperInv, NEW b \in Buffers, ProducerDrops(b)
  PROVE  Shown(b)
  BY OwnerFacts, DropStep DEF ProducerDrops, Here

LEMMA BranchDropsStep ==
  ASSUME WrapperInv, NEW b \in Buffers, NEW k \in Branches, BranchDrops(k, b)
  PROVE  Shown(b)
<1>1. k \in WrapperOwners /\ k # "producer"
  BY OwnerFacts
<1> QED BY <1>1, DropStep DEF BranchDrops

LEMMA PassThroughStep ==
  ASSUME WrapperInv, NEW b \in Buffers, NEW k \in Branches, PassThrough(k, b)
  PROVE  Shown(b)
<1> DEFINE x == buf[b]
           w == ref[k][b]
           y == Unmapped(x, w).buffer
<1>1. /\ WrapperTypeOK /\ BufferCounted(b) /\ PlaceInv(b) /\ TimeInv(b)
      /\ w.there /\ w.mem = "null" /\ k \in WrapperOwners /\ k # "producer"
      /\ memory' = memory /\ pooled' = pooled /\ lost' = lost /\ frames' = frames
      /\ step' = step /\ misdated' = misdated
      /\ inbox' = [inbox EXCEPT ![k] = @ \cup {b}]
  BY OwnerFacts DEF PassThrough, WrapperInv, BufferInv, streamVars
<1>2. x \in BufferStates /\ w \in Wrappers
  BY <1>1 DEF WrapperTypeOK
<1>3. k \in Holding(b)
  BY <1>1 DEF Holding
<1>4. /\ x.refs # 0 /\ step[b] \in {"none", "shown"} /\ x.content \in 1 .. frames
      /\ x.content \notin zeroed => Dated(b) /\ x.pts = x.content
  BY <1>1, <1>3, FrameFacts
<1>5. /\ y \in BufferStates /\ y.content = x.content /\ y.refs = x.refs /\ y.time = x.time
      /\ memory = "video" => y.pts = x.pts
      /\ memory # "video" => y.maps = x.maps /\ y.pts \in {x.pts, w.time}
  <2>1. /\ y \in BufferStates /\ y.content = x.content /\ y.refs = x.refs /\ y.time = x.time
        /\ memory = "video" => y.pts = IF w.mem # "null" THEN x.time ELSE x.pts
        /\ memory # "video" => y.pts \in {x.pts, w.time}
        /\ memory # "video" => y.maps = x.maps - (IF w.mem = "mapped" THEN 1 ELSE 0)
    <3> HIDE DEF x, w
    <3> QED BY <1>2, UnmappedFacts
  <2>2. x.maps \in Int
    BY <1>2 DEF BufferStates
  <2>3. w.mem = "null"
    BY <1>1
  <2> HIDE DEF y, x, w
  <2> QED BY <2>1, <2>2, <2>3
<1>6. Put(k, b, Both(y, NoWrapper))
  BY DEF PassThrough
<1> HIDE DEF y
<1>7. /\ buf'[b] = y /\ ref'[k][b] = NoWrapper
      /\ \A p \in WrapperOwners \ {k} : ref'[p][b] = ref[p][b]
  BY <1>1, <1>6, PutFacts
<1>8. /\ inbox' \in [Branches -> SUBSET Buffers]
      /\ \A c \in Buffers \ {b} : \A q \in Branches : c \in inbox'[q] <=> c \in inbox[q]
      /\ \A q \in Branches : b \in inbox'[q] <=> q = k \/ b \in inbox[q]
  BY <1>1 DEF WrapperTypeOK
<1>9. /\ WrapperTypeOK' /\ zeroed' \subseteq 1 .. frames' /\ TimesAreKept' /\ Alone(b)
      /\ x.content \notin zeroed' => x.content \notin zeroed /\ (x.pts = 0 \/ y.pts # 0)
  <2>1. step' \in [Buffers -> {"none", "work", "done", "unmap", "shown"}]
    BY <1>1 DEF WrapperTypeOK
  <2>2. misdated' \subseteq zeroed'
    BY <1>1, <1>6 DEF WrapperInv, TimesAreKept, Put
  <2>3. UNCHANGED <<streamVars, frames, lost, mapFailures>>
    BY DEF PassThrough
  <2> QED BY <1>1, <1>4, <1>5, <1>6, <1>8, <2>1, <2>2, <2>3, NewFacts, PutKeeps
<1>10. /\ Holding(b)' = Holding(b) \ {k} /\ Waiting(b)' = Waiting(b) \cup {k}
       /\ Cardinality(Holding(b))' = Cardinality(Holding(b)) - 1
       /\ Cardinality(Mapping(b))' = Cardinality(Mapping(b))
       /\ Cardinality(Waiting(b))' = Cardinality(Waiting(b)) + 1
  <2>1. Waiting(b)' = Waiting(b) \cup {k}
    BY <1>8 DEF Waiting
  <2>2. k \notin Waiting(b)
    BY <1>1 DEF Waiting, PlaceInv
  <2>3. Cardinality(Waiting(b) \cup {k}) = Cardinality(Waiting(b)) + 1
    BY <2>2, BufferFacts, OwnerFacts, CountOf
  <2>4. NoWrapper.mem # "mapped" /\ ~NoWrapper.there /\ NoWrapper \in Wrappers /\ w.mem # "mapped"
    BY <1>1, NewFacts
  <2>5. /\ Holding(b)' = Holding(b) \ {k}
        /\ Cardinality(Holding(b))' = Cardinality(Holding(b)) - 1
        /\ Cardinality(Mapping(b))' = Cardinality(Mapping(b))
    BY <1>1, <1>7, <2>4, OneWrapper
  <2> QED BY <2>1, <2>3, <2>5
<1>11. BufferCounted(b)'
  <2>1. lost => lost'
    BY <1>1
  <2>2. /\ buf'[b].refs = buf[b].refs + (-1) + 1
        /\ Cardinality(Holding(b))' = Cardinality(Holding(b)) + (-1)
        /\ memory # "video" => buf'[b].maps = buf[b].maps + 0
        /\ Cardinality(Mapping(b))' = Cardinality(Mapping(b)) + 0
    BY <1>5, <1>7, <1>10, BufferFacts
  <2>3. memory' = memory /\ Cardinality(Waiting(b))' = Cardinality(Waiting(b)) + 1
    BY <1>1, <1>10
  <2> QED BY <2>1, <2>2, <2>3, CountsKept
<1>12. PlaceInv(b)'
  <2>1. \A p \in WrapperOwners : ~ref'[p][b].there => ref'[p][b] = NoWrapper
    BY <1>1, <1>7 DEF PlaceInv
  <2>2. \A q \in Branches : b \in inbox'[q] => ~ref'[q][b].there
    BY <1>1, <1>7, <1>8, OwnerFacts, NewFacts DEF PlaceInv
  <2>3. Here(b)' = Here(b)
    BY <1>1, <1>7, OwnerFacts DEF Here
  <2>4. (Here(b).there <=> step[b] # "none") /\ (step[b] # "none" => pooled)
    BY <1>1 DEF PlaceInv
  <2>5. buf'[b].refs # 0
    BY <1>4, <1>5, <1>7
  <2> HIDE DEF Here
  <2> QED BY <1>1, <1>4, <2>1, <2>2, <2>3, <2>4, <2>5 DEF PlaceInv, NoWrapper, NoTime
<1>13. TimeInv(b)'
  <2>1. ASSUME x.content \notin zeroed' PROVE Dated(b)'
    <3>1. Dated(b) /\ x.pts = x.content /\ x.content # 0 /\ y.pts # 0
      BY <1>1, <1>4, <1>9, <2>1 DEF WrapperTypeOK
    <3>2. y.pts = x.content
      <4>1. CASE memory = "video"
        BY <1>5, <3>1, <4>1
      <4>2. CASE memory # "video"
        BY <1>3, <1>5, <3>1, <4>2 DEF Dated
      <4> QED BY <4>1, <4>2
    <3>3. memory = "video" => y.time = x.content
      BY <1>4, <1>5, <3>1 DEF Dated
    <3>4. memory # "video" => \A p \in Holding(b)' :
             /\ ref'[p][b].time \in {0, x.content}
             /\ ref'[p][b].mem = "mapped" => ref'[p][b].time = x.content
      BY <1>7, <1>10, <3>1 DEF Dated, Holding
    <3> QED BY <1>1, <1>5, <1>7, <3>2, <3>3, <3>4 DEF Dated
  <2> QED BY <1>1, <1>4, <1>5, <1>7, <2>1 DEF TimeInv
<1> QED BY <1>9, <1>11, <1>12, <1>13 DEF Shown, BufferInv

LEMMA OthersReadStep ==
  ASSUME WrapperInv, NEW b \in Buffers, NEW k \in Branches, OthersRead(k, b)
  PROVE  Shown(b)
<1> DEFINE x == buf[b]
           y == Unref(x)
<1>1. /\ WrapperTypeOK /\ BufferCounted(b) /\ PlaceInv(b) /\ TimeInv(b)
      /\ b \in inbox[k] /\ k \in Waiting(b)
      /\ memory' = memory /\ pooled' = pooled /\ lost' = lost /\ frames' = frames
      /\ step' = step /\ ref' = ref /\ zeroed' = zeroed /\ mapFailures' = mapFailures
      /\ inbox' = [inbox EXCEPT ![k] = @ \ {b}]
      /\ misdated' = misdated \cup Wrong(x, x.pts)
  BY DEF OthersRead, WrapperInv, BufferInv, streamVars, Waiting
<1>2. x \in BufferStates /\ x.refs \in Nat /\ x.maps \in Int
  BY <1>1 DEF WrapperTypeOK, BufferStates
<1>3. /\ x.refs # 0 /\ step[b] \in {"none", "shown"} /\ x.content \in 1 .. frames
      /\ x.content \notin zeroed => Dated(b) /\ x.pts = x.content
  BY <1>1, FrameFacts
<1>4. /\ y \in BufferStates /\ y.refs = x.refs - 1 /\ y.maps = x.maps
      /\ x.refs = 1 => y.content = 0 /\ y.pts = NoTime
      /\ x.refs > 1 => y.content = x.content /\ y.time = x.time /\ y.pts = x.pts
  <2>1. CASE x.refs = 1
    <3>1. y = [Unused EXCEPT !.maps = x.maps]
      BY <2>1 DEF Unref
    <3>2. Unused \in BufferStates /\ Unused.refs = 0 /\ Unused.content = 0 /\ Unused.pts = NoTime
      BY LimitsAssumption DEF Unused, BufferStates, Times, NoTime
    <3> HIDE DEF y
    <3> QED BY <1>2, <2>1, <3>1, <3>2 DEF BufferStates
  <2>2. CASE x.refs # 1
    <3>1. y = [x EXCEPT !.refs = @ - 1]
      BY <2>2 DEF Unref
    <3> HIDE DEF y
    <3> QED BY <1>2, <1>3, <2>2, <3>1 DEF BufferStates
  <2> QED BY <2>1, <2>2
<1>5. buf' = [buf EXCEPT ![b] = y]
  BY <1>1 DEF OthersRead, WrapperTypeOK
<1> HIDE DEF y
<1>6. /\ buf'[b] = y /\ inbox' \in [Branches -> SUBSET Buffers]
      /\ buf' \in [Buffers -> BufferStates]
      /\ \A c \in Buffers \ {b} : /\ buf'[c] = buf[c]
                                  /\ \A q \in Branches : c \in inbox'[q] <=> c \in inbox[q]
      /\ \A q \in Branches : b \in inbox'[q] <=> q # k /\ b \in inbox[q]
  BY <1>1, <1>4, <1>5 DEF WrapperTypeOK
<1>7. WrapperTypeOK' /\ zeroed' \subseteq 1 .. frames' /\ TimesAreKept' /\ Alone(b)
  <2>1. /\ ref' \in [WrapperOwners -> [Buffers -> Wrappers]]
        /\ step' \in [Buffers -> {"none", "work", "done", "unmap", "shown"}]
    BY <1>1 DEF WrapperTypeOK
  <2>2. frames' \in 0 .. MaxMade /\ frames <= frames' /\ mapFailures' \in 0 .. MaxMapFailures
    BY <1>1, LimitsAssumption DEF WrapperTypeOK
  <2>3. misdated' \subseteq zeroed
    BY <1>1, <1>3 DEF WrapperInv, TimesAreKept, Wrong
  <2>4. lost' \in BOOLEAN /\ (lost => lost')
    BY <1>1 DEF WrapperTypeOK
  <2> QED BY <1>1, <1>6, <2>1, <2>2, <2>3, <2>4, PlainKeeps
<1>8. /\ Holding(b)' = Holding(b) /\ Mapping(b)' = Mapping(b) /\ Waiting(b)' = Waiting(b) \ {k}
      /\ Cardinality(Waiting(b))' = Cardinality(Waiting(b)) - 1
  <2>1. Waiting(b)' = Waiting(b) \ {k}
    BY <1>6 DEF Waiting
  <2>2. Cardinality(Waiting(b) \ {k}) = Cardinality(Waiting(b)) - 1
    BY <1>1, BufferFacts, OwnerFacts, CountOf
  <2> QED BY <1>1, <2>1, <2>2 DEF Holding, Mapping
<1>9. BufferCounted(b)'
  <2>1. /\ buf'[b].refs = buf[b].refs + 0 + (-1)
        /\ Cardinality(Holding(b))' = Cardinality(Holding(b)) + 0
        /\ Cardinality(Waiting(b))' = Cardinality(Waiting(b)) + (-1)
        /\ buf'[b].maps = buf[b].maps + 0
        /\ Cardinality(Mapping(b))' = Cardinality(Mapping(b)) + 0
    BY <1>2, <1>4, <1>6, <1>8, BufferFacts
  <2>2. memory' = memory /\ lost' = lost
    BY <1>1
  <2>3. lost => lost'
    BY <2>2
  <2> QED BY <2>1, <2>2, <2>3, CountsKept
<1>10. PlaceInv(b)'
  <2>1. \A p \in WrapperOwners : ~ref'[p][b].there => ref'[p][b] = NoWrapper
    BY <1>1 DEF PlaceInv
  <2>2. \A q \in Branches : b \in inbox'[q] => ~ref'[q][b].there
    BY <1>1, <1>6 DEF PlaceInv
  <2>3. Here(b)' = Here(b)
    BY <1>1 DEF Here
  <2>4. (Here(b).there <=> step[b] # "none") /\ (step[b] # "none" => pooled)
    BY <1>1 DEF PlaceInv
  <2>5. buf'[b].refs = 0 => buf'[b].content = 0 /\ buf'[b].pts = NoTime
    BY <1>2, <1>4, <1>6
  <2> HIDE DEF Here
  <2> QED BY <1>1, <1>3, <2>1, <2>2, <2>3, <2>4, <2>5 DEF PlaceInv, NoWrapper, NoTime
<1>11. TimeInv(b)'
  <2>1. CASE x.refs = 1
    <3>1. Cardinality(Holding(b)) = 0 /\ Cardinality(Waiting(b)) = 1
      BY <1>1, <2>1, BufferFacts DEF BufferCounted
    <3>2. Holding(b) = {} /\ Waiting(b) = {k}
      BY <1>1, <3>1, BufferFacts
    <3>3. ~Made(b)'
      BY <1>8, <3>2 DEF Made
    <3> QED BY <1>1, <1>3, <3>3 DEF TimeInv
  <2>2. CASE x.refs # 1
    <3>1. y.content = x.content /\ y.time = x.time /\ y.pts = x.pts
      BY <1>2, <1>3, <1>4, <2>2
    <3>2. Dated(b) => Dated(b)'
      BY <1>1, <1>6, <1>8, <3>1 DEF Dated
    <3> QED BY <1>1, <1>3, <1>6, <3>1, <3>2 DEF TimeInv
  <2> QED BY <2>1, <2>2
<1> QED BY <1>7, <1>9, <1>10, <1>11 DEF Shown, BufferInv

-----------------------------------------------------------------------------
(* The theorems.                                                           *)

LEMMA WrapperInvInit ==
  ASSUME WrapperInit PROVE WrapperInv
<1>1. /\ buf = [b \in Buffers |-> Unused]
      /\ ref = [o \in WrapperOwners |-> [b \in Buffers |-> NoWrapper]]
      /\ step = [b \in Buffers |-> "none"] /\ inbox = [k \in Branches |-> {}]
      /\ frames = 0 /\ misdated = {} /\ zeroed = {} /\ lost = FALSE /\ mapFailures = 0
  BY DEF WrapperInit
<1>2. memory \in {"system", "video", "dma", "bitstream"} /\ pooled \in BOOLEAN /\ (memory = "video" => pooled)
  BY DEF WrapperInit
<1>3. Unused \in BufferStates /\ Unused.refs = 0 /\ Unused.maps = 0 /\ Unused.content = 0 /\ Unused.pts = NoTime
  BY LimitsAssumption DEF Unused, BufferStates, Times, NoTime
<1>4. WrapperTypeOK
  <2>1. frames \in 0 .. MaxMade /\ mapFailures \in 0 .. MaxMapFailures
    BY <1>1, LimitsAssumption
  <2>2. buf \in [Buffers -> BufferStates]
    BY <1>1, <1>3
  <2>3. ref \in [WrapperOwners -> [Buffers -> Wrappers]]
    BY <1>1, NewFacts
  <2>4. step \in [Buffers -> {"none", "work", "done", "unmap", "shown"}] /\ inbox \in [Branches -> SUBSET Buffers]
    BY <1>1
  <2> QED BY <1>1, <1>2, <2>1, <2>2, <2>3, <2>4 DEF WrapperTypeOK
<1>5. ASSUME NEW b \in Buffers PROVE BufferInv(b)
  <2>1. /\ buf[b] = Unused /\ step[b] = "none" /\ \A o \in WrapperOwners : ref[o][b] = NoWrapper
        /\ \A k \in Branches : b \notin inbox[k]
    BY <1>1
  <2>2. Holding(b) = {} /\ Waiting(b) = {} /\ Mapping(b) = {}
    BY <2>1, NewFacts DEF Holding, Waiting, Mapping
  <2>3. BufferCounted(b)
    BY <1>3, <2>1, <2>2, FS_EmptySet DEF BufferCounted
  <2>4. ~Here(b).there
    BY <2>1, OwnerFacts, NewFacts DEF Here
  <2> HIDE DEF Here
  <2>5. PlaceInv(b)
    BY <1>3, <2>1, <2>4 DEF PlaceInv
  <2>6. TimeInv(b)
    BY <2>1, <2>2 DEF TimeInv, Made
  <2> QED BY <2>3, <2>5, <2>6 DEF BufferInv
<1>6. zeroed \subseteq 1 .. frames /\ TimesAreKept
  BY <1>1 DEF TimesAreKept
<1> QED BY <1>2, <1>4, <1>5, <1>6 DEF WrapperInv

LEMMA WrapperInvStep ==
  ASSUME WrapperInv, [WrapperNext]_wrapperVars PROVE WrapperInv'
<1>1. ASSUME NEW b \in Buffers, Shown(b) PROVE WrapperInv'
  <2>1. frames' \in Nat
    BY <1>1, LimitsAssumption DEF Shown, WrapperTypeOK
  <2>2. \A c \in Buffers \ {b} : BufferInv(c)'
    BY <1>1, <2>1, OtherBuffers DEF Shown
  <2>3. memory' = memory /\ pooled' = pooled
    BY <1>1 DEF Shown, Alone, streamVars
  <2>4. memory' = "video" => pooled'
    BY <2>3 DEF WrapperInv
  <2>5. WrapperTypeOK' /\ zeroed' \subseteq 1 .. frames' /\ TimesAreKept' /\ BufferInv(b)'
    BY <1>1 DEF Shown
  <2>6. \A c \in Buffers : BufferInv(c)'
    BY <2>2, <2>5
  <2> QED BY <2>4, <2>5, <2>6 DEF WrapperInv
<1>2. CASE UNCHANGED wrapperVars
  <2>1. /\ memory' = memory /\ pooled' = pooled /\ buf' = buf /\ ref' = ref /\ step' = step
        /\ inbox' = inbox /\ frames' = frames /\ misdated' = misdated /\ zeroed' = zeroed
        /\ lost' = lost /\ mapFailures' = mapFailures
    BY <1>2 DEF wrapperVars, streamVars, wrapperHistory
  <2>2. WrapperTypeOK' /\ TimesAreKept' /\ zeroed' \subseteq 1 .. frames' /\ (memory' = "video" => pooled')
    BY <2>1 DEF WrapperInv, WrapperTypeOK, TimesAreKept, BufferStates, Wrappers, Times, WrapperOwners
  <2>3. ASSUME NEW b \in Buffers PROVE BufferInv(b)'
    <3>1. BufferCounted(b) /\ PlaceInv(b) /\ TimeInv(b)
      BY DEF WrapperInv, BufferInv
    <3>2. /\ Holding(b)' = Holding(b) /\ Waiting(b)' = Waiting(b) /\ Mapping(b)' = Mapping(b)
          /\ Here(b)' = Here(b)
      BY <2>1 DEF Holding, Waiting, Mapping, Here
    <3>3. BufferCounted(b)'
      BY <2>1, <3>1, <3>2 DEF BufferCounted
    <3>4. PlaceInv(b)'
      BY <2>1, <3>1, <3>2 DEF PlaceInv, NoWrapper, NoTime
    <3>5. TimeInv(b)'
      BY <2>1, <3>1, <3>2 DEF TimeInv, Made, Dated, NoTime
    <3> QED BY <3>3, <3>4, <3>5 DEF BufferInv
  <2> QED BY <2>2, <2>3 DEF WrapperInv
<1>3. CASE WrapperNext
  <2>1. PICK b \in Buffers :
          \/ Acquire(b) \/ Code(b) \/ Unmap(b) \/ Send(b) \/ LookAt(b) \/ ProducerDrops(b) \/ Source(b)
          \/ \E o \in WrapperOwners : MapFails(o, b)
          \/ \E k \in Branches :
               Wrap(k, b) \/ Read(k, b) \/ BranchDrops(k, b) \/ PassThrough(k, b) \/ OthersRead(k, b)
    BY <1>3 DEF WrapperNext
  <2>2. Shown(b)
    BY <2>1, AcquireStep, CodeStep, UnmapStep, SendStep, LookAtStep, ProducerDropsStep, SourceStep,
       MapFailsStep, WrapStep, ReadStep, BranchDropsStep, PassThroughStep, OthersReadStep
  <2> QED BY <1>1, <2>2
<1> QED BY <1>2, <1>3

LEMMA WrapperInvHolds == WrapperSpec => []WrapperInv
  BY WrapperInvInit, WrapperInvStep, PTL DEF WrapperSpec

(***************************************************************************)
(* Every buffer has one reference for each wrapper and each branch it is   *)
(* on its way to, and its memory one mapping for each wrapper that mapped  *)
(* it, for any number of buffers, branches, frames and failed maps.        *)
(***************************************************************************)
THEOREM BuffersCountedCorrect == WrapperSpec => []BuffersCounted
<1>1. WrapperInv => BuffersCounted
  BY DEF WrapperInv, BuffersCounted, BufferInv, BufferCounted, Holding, Waiting, Mapping
<1> QED BY <1>1, WrapperInvHolds, PTL

(***************************************************************************)
(* A frame is read with a timestamp that is not its own only if a wrapper  *)
(* that never mapped it wrote zero.                                        *)
(***************************************************************************)
THEOREM TimesAreKeptCorrect == WrapperSpec => []TimesAreKept
<1>1. WrapperInv => TimesAreKept
  BY DEF WrapperInv
<1> QED BY <1>1, WrapperInvHolds, PTL
-----------------------------------------------------------------------------
(* Pools of frames and the allocator's responses (FramePool).              *)

(***************************************************************************)
(* The allocator: a surface that exists is listed, once; one that does not *)
(* was destroyed once.                                                     *)
(***************************************************************************)
ListedIds == {e.id : e \in extResponses} \cup {r.id : r \in responses}
AllocatorInv ==
  /\ (~allocator => responses = {} /\ extResponses = {})
  /\ surfaces = ListedIds /\ surfaces \subseteq 1 .. allocs
  /\ \A e \in extResponses, f \in extResponses : e.id = f.id => e = f
  /\ \A r \in responses, s \in responses : r.id = s.id => r = s
  /\ \A e \in extResponses, r \in responses : e.id # r.id
  /\ \A a \in Allocations : releases[a] = IF a \in 1 .. allocs /\ a \notin surfaces THEN 1 ELSE 0

\* Where a response is listed, and how many are to free it.
Listed(r) == r \in responses \/ \E e \in extResponses : AsResponse(e) = r

\* The pools with a response, and whether it is of the present allocator.
Living == (1 .. pools) \ final
Current(p) == allocator /\ life[p] = bases

(***************************************************************************)
(* A pool that is not finalised has its response listed while its          *)
(* allocator is there, and is in use: it is the executor's, or some of its *)
(* buffers are held.                                                       *)
(***************************************************************************)
OnePool(p) ==
  /\ response[p] \in Responses /\ response[p].id \in 1 .. allocs
  /\ IF Current(p) THEN Listed(response[p]) ELSE response[p].id \notin surfaces /\ p \in kept
  /\ p # pool => Held(p) # {}
ExecutorInv ==
  /\ allocator <=> cpc # "none"
  /\ cpc # "none" => bases >= 1
  /\ pool # 0 => pool \in Living /\ Current(pool) /\ cpc # "allocator"
  /\ \A p \in PoolIds : active[p] <=> p = pool
  /\ \A p \in 1 .. pools : life[p] \in 1 .. bases
  /\ \A p \in PoolIds : p \in final \/ p > pools => made[p] = {}
  /\ \A t \in Tickets : codec[t] # NoResponse => Listed(codec[t]) /\ cpc \in {"open", "codec"}
  /\ cpc \in {"pool", "allocator", "none"} => \A p \in PoolIds, i \in Indices : "executor" \notin holders[p][i]

(***************************************************************************)
(* The buffers of the current pool: those that exist and those thrown away *)
(* are at least as many as were made.                                     *)
(***************************************************************************)
BuffersInv ==
  /\ \A p \in 1 .. pools : used[p] <= size[p] + discards[p] /\ made[p] \subseteq 1 .. used[p]
  /\ pool # 0 => used[pool] <= Cardinality(made[pool]) + discards[pool]

OwnersInv ==
  /\ \A e \in extResponses : e.refs = Owners(e.id)
  /\ \A r \in responses : Owners(r.id) = 1

PoolInv ==
  /\ PoolTypeOK /\ AllocatorInv /\ ExecutorInv /\ BuffersInv /\ OwnersInv
  /\ (\A p \in Living : OnePool(p)) /\ lateFree \subseteq kept
-----------------------------------------------------------------------------
(* The owners of a response.                                               *)

PoolOwners(id) == {p \in 1 .. pools : response[p].id = id /\ p \notin final}
CodecOwners(id) == {t \in Tickets : codec[t].id = id}

LEMMA OwnersFacts ==
  ASSUME PoolTypeOK, NEW id
  PROVE  /\ Owners(id) = Cardinality(PoolOwners(id)) + Cardinality(CodecOwners(id))
         /\ PoolOwners(id) \in SUBSET PoolIds /\ CodecOwners(id) \in SUBSET Tickets
         /\ IsFiniteSet(PoolIds) /\ IsFiniteSet(Tickets)
         /\ Cardinality(PoolOwners(id)) \in Nat /\ Cardinality(CodecOwners(id)) \in Nat
         /\ Owners(id) \in Nat
         /\ PoolOwners(id) = {} /\ CodecOwners(id) = {} => Owners(id) = 0
         /\ \A p \in PoolOwners(id) :
              Owners(id) >= 1 /\ (Owners(id) = 1 => PoolOwners(id) = {p} /\ CodecOwners(id) = {})
         /\ \A t \in CodecOwners(id) :
              Owners(id) >= 1 /\ (Owners(id) = 1 => CodecOwners(id) = {t} /\ PoolOwners(id) = {})
<1> DEFINE P == PoolOwners(id)
           C == CodecOwners(id)
<1>1. Owners(id) = Cardinality(P) + Cardinality(C)
  BY DEF Owners, PoolOwners, CodecOwners
<1>2. P \in SUBSET PoolIds /\ C \in SUBSET Tickets
  BY PoolBounds DEF PoolOwners, CodecOwners, PoolTypeOK, PoolIds
<1>3. IsFiniteSet(PoolIds) /\ IsFiniteSet(Tickets)
  BY PoolBounds, FS_Interval DEF PoolIds, Tickets
<1> HIDE DEF P, C
<1>4. Cardinality(P) \in Nat /\ Cardinality(C) \in Nat
  BY <1>2, <1>3, FS_Subset, FS_CardinalityType
<1>5. P = {} /\ C = {} => Cardinality(P) = 0 /\ Cardinality(C) = 0
  BY FS_EmptySet
<1>6. \A p \in P : Cardinality(P) >= 1 /\ (Cardinality(P) = 1 => P = {p})
  BY <1>2, <1>3, CountOf
<1>7. \A t \in C : Cardinality(C) >= 1 /\ (Cardinality(C) = 1 => C = {t})
  BY <1>2, <1>3, CountOf
<1>8. (Cardinality(P) = 0 => P = {}) /\ (Cardinality(C) = 0 => C = {})
  <2>1. IsFiniteSet(P) /\ IsFiniteSet(C)
    BY <1>2, <1>3, FS_Subset
  <2> QED BY <2>1, FS_EmptySet
<1>9. ASSUME NEW p \in P
      PROVE  Owners(id) >= 1 /\ (Owners(id) = 1 => P = {p} /\ C = {})
  <2>1. Cardinality(P) >= 1
    BY <1>6
  <2>2. Owners(id) >= 1 /\ (Owners(id) = 1 => Cardinality(P) = 1 /\ Cardinality(C) = 0)
    BY <1>1, <1>4, <2>1
  <2> QED BY <1>6, <1>8, <2>2
<1>10. ASSUME NEW t \in C
       PROVE  Owners(id) >= 1 /\ (Owners(id) = 1 => C = {t} /\ P = {})
  <2>1. Cardinality(C) >= 1
    BY <1>7
  <2>2. Owners(id) >= 1 /\ (Owners(id) = 1 => Cardinality(C) = 1 /\ Cardinality(P) = 0)
    BY <1>1, <1>4, <2>1
  <2> QED BY <1>7, <1>8, <2>2
<1>11. P = PoolOwners(id) /\ C = CodecOwners(id)
  BY DEF P, C
<1>12. Owners(id) \in Nat /\ (P = {} /\ C = {} => Owners(id) = 0)
  BY <1>1, <1>4, <1>5
<1> QED BY <1>1, <1>2, <1>3, <1>4, <1>9, <1>10, <1>11, <1>12

\* How a pool, or the codec, that gets or gives up a response changes the counts.
LEMMA OnePoolMore ==
  ASSUME PoolTypeOK, NEW id, NEW p \in PoolIds, p \notin PoolOwners(id),
         PoolOwners(id)' = PoolOwners(id) \cup {p}, CodecOwners(id)' = CodecOwners(id)
  PROVE  Owners(id)' = Owners(id) + 1
<1>1. Cardinality(PoolOwners(id) \cup {p}) = Cardinality(PoolOwners(id)) + 1
  BY OwnersFacts, CountOf
<1>2. Owners(id)' = Cardinality(PoolOwners(id)') + Cardinality(CodecOwners(id)')
  BY DEF Owners, PoolOwners, CodecOwners
<1> QED BY <1>1, <1>2, OwnersFacts

LEMMA OnePoolLess ==
  ASSUME PoolTypeOK, NEW id, NEW p \in PoolOwners(id),
         PoolOwners(id)' = PoolOwners(id) \ {p}, CodecOwners(id)' = CodecOwners(id)
  PROVE  Owners(id)' = Owners(id) - 1
<1>1. p \in PoolIds
  BY OwnersFacts
<1>2. Cardinality(PoolOwners(id) \ {p}) = Cardinality(PoolOwners(id)) - 1
  BY <1>1, OwnersFacts, CountOf
<1>3. Owners(id)' = Cardinality(PoolOwners(id)') + Cardinality(CodecOwners(id)')
  BY DEF Owners, PoolOwners, CodecOwners
<1> QED BY <1>2, <1>3, OwnersFacts

LEMMA OneTicketMore ==
  ASSUME PoolTypeOK, NEW id, NEW t \in Tickets, t \notin CodecOwners(id),
         CodecOwners(id)' = CodecOwners(id) \cup {t}, PoolOwners(id)' = PoolOwners(id)
  PROVE  Owners(id)' = Owners(id) + 1
<1>1. Cardinality(CodecOwners(id) \cup {t}) = Cardinality(CodecOwners(id)) + 1
  BY OwnersFacts, CountOf
<1>2. Owners(id)' = Cardinality(PoolOwners(id)') + Cardinality(CodecOwners(id)')
  BY DEF Owners, PoolOwners, CodecOwners
<1> QED BY <1>1, <1>2, OwnersFacts

LEMMA OneTicketLess ==
  ASSUME PoolTypeOK, NEW id, NEW t \in CodecOwners(id),
         CodecOwners(id)' = CodecOwners(id) \ {t}, PoolOwners(id)' = PoolOwners(id)
  PROVE  Owners(id)' = Owners(id) - 1
<1>1. t \in Tickets
  BY OwnersFacts
<1>2. Cardinality(CodecOwners(id) \ {t}) = Cardinality(CodecOwners(id)) - 1
  BY <1>1, OwnersFacts, CountOf
<1>3. Owners(id)' = Cardinality(PoolOwners(id)') + Cardinality(CodecOwners(id)')
  BY DEF Owners, PoolOwners, CodecOwners
<1> QED BY <1>2, <1>3, OwnersFacts

LEMMA SameOwners ==
  ASSUME NEW id, PoolOwners(id)' = PoolOwners(id), CodecOwners(id)' = CodecOwners(id)
  PROVE  Owners(id)' = Owners(id)
<1>1. Owners(id)' = Cardinality(PoolOwners(id)') + Cardinality(CodecOwners(id)')
  BY DEF Owners, PoolOwners, CodecOwners
<1> QED BY <1>1 DEF Owners, PoolOwners, CodecOwners
-----------------------------------------------------------------------------
(* The allocator's steps.                                                  *)

Entries == [id : Allocations, n : 1 .. MaxFrames, key : Keys, refs : Nat \ {0}]

\* What a successful AllocFrames() leaves: a response listed once, counted once more.
Given(r) ==
  /\ AllocatorTypeOK' /\ AllocatorInv' /\ allocator' = allocator
  /\ r \in Responses /\ Listed(r)' /\ r.id \in 1 .. allocs'
  /\ allocs <= allocs' /\ surfaces' = surfaces \cup {r.id}
  /\ r.id \in surfaces \/ r.id = allocs + 1
  /\ \A s : Listed(s) => Listed(s)'
  /\ \A e \in extResponses' :
       \/ e.id # r.id /\ e \in extResponses
       \/ e.id = r.id /\ r.id = allocs + 1 /\ e.refs = 1
       \/ e.id = r.id /\ \E f \in extResponses : f.id = r.id /\ e.refs = f.refs + 1
  /\ \A s \in responses' : (s.id # r.id /\ s \in responses) \/ (s = r /\ r.id = allocs + 1)

LEMMA AllocCachedStep ==
  ASSUME AllocatorTypeOK, AllocatorInv, NEW q \in Requests, NEW r,
         AllocCached(q, r), UNCHANGED <<allocator, releases>>
  PROVE  (r = NoResponse /\ UNCHANGED allocatorVars) \/ Given(r)
<1> PICK e \in Cached(q) :
      /\ UNCHANGED <<responses, surfaces, allocs>>
      /\ IF q.n > e.n
         THEN r = NoResponse /\ UNCHANGED extResponses
         ELSE /\ r = AsResponse(e)
              /\ extResponses' = (extResponses \ {e}) \cup {[e EXCEPT !.refs = @ + 1]}
  BY DEF AllocCached
<1>1. CASE q.n > e.n
  BY <1>1 DEF allocatorVars
<1>2. CASE ~(q.n > e.n)
  <2> DEFINE f == [e EXCEPT !.refs = @ + 1]
  <2>1. /\ r = AsResponse(e) /\ extResponses' = (extResponses \ {e}) \cup {f}
        /\ responses' = responses /\ surfaces' = surfaces /\ allocs' = allocs
        /\ allocator' = allocator /\ releases' = releases
    BY <1>2
  <2>2. e \in Entries /\ e \in extResponses
    BY DEF Cached, AllocatorTypeOK, Entries
  <2>3. f \in Entries /\ f.id = e.id /\ f.n = e.n /\ f.refs = e.refs + 1
    BY <2>2 DEF Entries
  <2> HIDE DEF f
  <2>4. AsResponse(f) = AsResponse(e) /\ r \in Responses /\ r.id = e.id
    BY <2>1, <2>2, <2>3 DEF AsResponse, Responses, Entries
  <2>5. AllocatorTypeOK'
    BY <2>1, <2>3 DEF AllocatorTypeOK, Entries, Allocations, Responses
  <2>6. /\ {x.id : x \in extResponses'} = {x.id : x \in extResponses}
        /\ e.id \in surfaces /\ surfaces \subseteq 1 .. allocs
    BY <2>1, <2>2, <2>3 DEF AllocatorInv, ListedIds
  <2>7. ListedIds' = ListedIds
    BY <2>1, <2>6 DEF ListedIds
  <2>8. AllocatorInv'
    <3>1. \A x \in extResponses', y \in extResponses' : x.id = y.id => x = y
      BY <2>1, <2>2, <2>3 DEF AllocatorInv
    <3>2. \A x \in extResponses', s \in responses' : x.id # s.id
      BY <2>1, <2>2, <2>3 DEF AllocatorInv
    <3>3. ~allocator' => responses' = {} /\ extResponses' = {}
      BY <2>1, <2>2 DEF AllocatorInv
    <3>4. \A a \in Allocations : releases'[a] = IF a \in 1 .. allocs' /\ a \notin surfaces' THEN 1 ELSE 0
      BY <2>1 DEF AllocatorInv
    <3>5. surfaces' = ListedIds' /\ surfaces' \subseteq 1 .. allocs'
      BY <2>1, <2>7 DEF AllocatorInv
    <3>6. \A x \in responses', s \in responses' : x.id = s.id => x = s
      BY <2>1 DEF AllocatorInv
    <3> QED BY <3>1, <3>2, <3>3, <3>4, <3>5, <3>6 DEF AllocatorInv, Allocations
  <2>9. \A s : Listed(s) => Listed(s)'
    BY <2>1, <2>4 DEF Listed
  <2>10. Listed(r)'
    BY <2>1, <2>4 DEF Listed
  <2>11. \A x \in extResponses' :
           \/ x.id # r.id /\ x \in extResponses
           \/ x.id = r.id /\ \E y \in extResponses : y.id = r.id /\ x.refs = y.refs + 1
    BY <2>1, <2>2, <2>3, <2>4 DEF AllocatorInv
  <2>12. \A s \in responses' : s.id # r.id /\ s \in responses
    BY <2>1, <2>2, <2>4 DEF AllocatorInv
  <2>13. r.id \in 1 .. allocs' /\ allocs <= allocs' /\ surfaces' = surfaces \cup {r.id} /\ r.id \in surfaces
    BY <2>1, <2>4, <2>6 DEF AllocatorTypeOK
  <2>14. allocator' = allocator
    BY <2>1
  <2> QED BY <2>4, <2>5, <2>8, <2>9, <2>10, <2>11, <2>12, <2>13, <2>14 DEF Given
<1> QED BY <1>1, <1>2

\* New surfaces, listed in one of the two lists.
LEMMA AllocNewStep ==
  ASSUME AllocatorTypeOK, AllocatorInv, allocator, NEW q \in Requests, NEW r, q.n # 0,
         AllocImpl(q, r), UNCHANGED <<allocator, releases>>,
         \/ /\ responses' = responses
            /\ extResponses' = extResponses \cup
                 {[id |-> r.id, n |-> r.n, key |-> q.key, refs |-> 1]}
         \/ extResponses' = extResponses /\ responses' = responses \cup {r}
  PROVE  Given(r)
<1> DEFINE e == [id |-> r.id, n |-> r.n, key |-> q.key, refs |-> 1]
<1>1. /\ allocs \in 0 .. MaxAllocs /\ allocs < MaxAllocs /\ MaxAllocs \in Nat
      /\ r = [id |-> allocs + 1, n |-> q.n] /\ allocs' = allocs + 1
      /\ surfaces' = surfaces \cup {r.id} /\ allocator' = allocator /\ releases' = releases
      /\ q.n \in 1 .. MaxFrames /\ q.key \in Keys
  BY AllocatorBounds DEF AllocImpl, AllocatorTypeOK, Requests
<1>2. r \in Responses /\ r.id = allocs + 1 /\ r.n = q.n
  BY <1>1 DEF Responses, Allocations
<1>3. e \in Entries /\ e.id = r.id /\ e.refs = 1 /\ AsResponse(e) = r
  BY <1>1, <1>2 DEF Entries, Allocations, AsResponse
<1> HIDE DEF e
<1>4. \/ responses' = responses /\ extResponses' = extResponses \cup {e}
      \/ extResponses' = extResponses /\ responses' = responses \cup {r}
  BY DEF e
<1>5. AllocatorTypeOK'
  <2>1. /\ responses' \subseteq Responses /\ extResponses' \subseteq Entries
        /\ surfaces' \subseteq Allocations /\ allocs' \in 0 .. MaxAllocs
    <3>1. r.id \in Allocations /\ allocs' \in 0 .. MaxAllocs
      BY <1>1, <1>2 DEF Allocations
    <3>2. responses \subseteq Responses /\ extResponses \subseteq Entries
          /\ surfaces \subseteq Allocations
      BY DEF AllocatorTypeOK, Allocations, Entries, Responses
    <3>3. responses' \subseteq Responses /\ extResponses' \subseteq Entries
      BY <1>2, <1>3, <1>4, <3>2
    <3>4. surfaces' \subseteq Allocations
      BY <1>1, <3>1, <3>2
    <3> QED BY <3>1, <3>3, <3>4
  <2> QED BY <1>1, <2>1 DEF AllocatorTypeOK, Entries, Allocations, Responses
<1>6. /\ surfaces \subseteq 1 .. allocs /\ surfaces = ListedIds
      /\ \A x \in extResponses : x.id \in surfaces
      /\ \A s \in responses : s.id \in surfaces
  BY DEF AllocatorInv, ListedIds
<1>7. ListedIds' = ListedIds \cup {r.id}
  <2>1. CASE responses' = responses /\ extResponses' = extResponses \cup {e}
    BY <1>3, <2>1 DEF ListedIds
  <2>2. CASE extResponses' = extResponses /\ responses' = responses \cup {r}
    BY <2>2 DEF ListedIds
  <2> QED BY <1>4, <2>1, <2>2
<1>8. r.id \notin surfaces
  BY <1>1, <1>2, <1>6
<1>9. AllocatorInv'
  <2>1. \A x \in extResponses', y \in extResponses' : x.id = y.id => x = y
    BY <1>3, <1>4, <1>6, <1>8 DEF AllocatorInv
  <2>2. \A x \in extResponses', s \in responses' : x.id # s.id
    BY <1>3, <1>4, <1>6, <1>8 DEF AllocatorInv
  <2>3. \A x \in responses', s \in responses' : x.id = s.id => x = s
    BY <1>4, <1>6, <1>8 DEF AllocatorInv
  <2>4. \A a \in Allocations : releases'[a] = IF a \in 1 .. allocs' /\ a \notin surfaces' THEN 1 ELSE 0
    BY <1>1, <1>2, <1>8 DEF AllocatorInv, Allocations
  <2>5. surfaces' = ListedIds' /\ surfaces' \subseteq 1 .. allocs'
    BY <1>1, <1>2, <1>6, <1>7
  <2>6. allocator'
    BY <1>1
  <2> QED BY <2>1, <2>2, <2>3, <2>4, <2>5, <2>6 DEF AllocatorInv, Allocations
<1>10. Listed(r)' /\ \A s : Listed(s) => Listed(s)'
  BY <1>3, <1>4 DEF Listed
<1>11. \A x \in extResponses' :
         (x.id # r.id /\ x \in extResponses) \/ (x.id = r.id /\ r.id = allocs + 1 /\ x.refs = 1)
  BY <1>2, <1>3, <1>4, <1>6, <1>8
<1>12. \A s \in responses' : (s.id # r.id /\ s \in responses) \/ (s = r /\ r.id = allocs + 1)
  BY <1>2, <1>4, <1>6, <1>8
<1>13. r.id \in 1 .. allocs' /\ allocs <= allocs' /\ surfaces' = surfaces \cup {r.id}
  BY <1>1, <1>2
<1>14. allocator' = allocator
  BY <1>1
<1> QED BY <1>2, <1>5, <1>9, <1>10, <1>11, <1>12, <1>13, <1>14 DEF Given

LEMMA AllocStep ==
  ASSUME AllocatorTypeOK, AllocatorInv, allocator, NEW q \in Requests, NEW r, AllocFrames(q, r)
  PROVE  (r = NoResponse /\ UNCHANGED allocatorVars) \/ Given(r)
<1>1. UNCHANGED <<allocator, releases>>
  BY DEF AllocFrames
<1>2. CASE q.n = 0
  BY <1>1, <1>2 DEF AllocFrames, allocatorVars
<1>3. CASE q.n # 0 /\ q.from = "decode"
  <2>1. AllocExternal(q, r)
    BY <1>3 DEF AllocFrames
  <2>2. CASE Cached(q) # {}
    BY <1>1, <2>1, <2>2, AllocCachedStep DEF AllocExternal
  <2>3. CASE Cached(q) = {}
    BY <1>1, <1>3, <2>1, <2>3, AllocNewStep DEF AllocExternal, AllocImplFails, allocatorVars
  <2> QED BY <2>2, <2>3
<1>4. CASE q.n # 0 /\ q.from # "decode"
  <2>1. AllocInternal(q, r)
    BY <1>4 DEF AllocFrames
  <2> QED BY <1>1, <1>4, <2>1, AllocNewStep DEF AllocInternal, AllocImplFails, allocatorVars
<1> QED BY <1>2, <1>3, <1>4

\* What FreeFrames() of a listed response leaves: it is counted once less, or gone.
GivenBack(r) ==
  /\ AllocatorTypeOK' /\ AllocatorInv' /\ allocator' = allocator /\ allocs' = allocs
  /\ \A s : Listed(s) /\ s.id # r.id => Listed(s)'
  /\ \A e \in extResponses' :
       \/ e.id # r.id /\ e \in extResponses
       \/ e.id = r.id /\ \E f \in extResponses : f.id = r.id /\ e.refs = f.refs - 1
  /\ \A s \in responses' : s.id # r.id /\ s \in responses
  /\ \/ surfaces' = surfaces /\ \A s : Listed(s) => Listed(s)'
     \/ surfaces' = surfaces \ {r.id} /\ (r \in responses \/ \E f \in extResponses : f.id = r.id /\ f.refs = 1)

\* A released response and its list.
LEMMA ReleaseStep ==
  ASSUME AllocatorTypeOK, AllocatorInv, allocator, NEW r \in Responses, Listed(r),
         UNCHANGED <<allocator, allocs>>, ReleaseResponse({r.id}),
         \/ responses' = responses /\ \E e \in extResponses :
              AsResponse(e) = r /\ e.refs = 1 /\ extResponses' = extResponses \ {e}
         \/ r \in responses /\ responses' = responses \ {r} /\ extResponses' = extResponses
  PROVE  GivenBack(r)
<1>1. /\ allocator' = allocator /\ allocs' = allocs /\ surfaces' = surfaces \ {r.id}
      /\ releases' = [a \in Allocations |-> IF a \in {r.id} THEN releases[a] + 1 ELSE releases[a]]
  BY DEF ReleaseResponse
<1>2. \A e \in extResponses : AsResponse(e).id = e.id
  BY DEF AsResponse
<1>3. /\ \A x \in extResponses' : x \in extResponses /\ x.id # r.id
      /\ \A s \in responses' : s \in responses /\ s.id # r.id
      /\ \A x \in extResponses : x.id # r.id => x \in extResponses'
      /\ \A s \in responses : s.id # r.id => s \in responses'
      /\ r.id \in surfaces
      /\ r \in responses \/ \E f \in extResponses : f.id = r.id /\ f.refs = 1
  <2>1. CASE responses' = responses /\ \E e \in extResponses :
              AsResponse(e) = r /\ e.refs = 1 /\ extResponses' = extResponses \ {e}
    <3>1. PICK e \in extResponses : AsResponse(e) = r /\ e.refs = 1 /\ extResponses' = extResponses \ {e}
      BY <2>1
    <3>2. e.id = r.id
      BY <1>2, <3>1
    <3> QED BY <2>1, <3>1, <3>2 DEF AllocatorInv, ListedIds
  <2>2. CASE r \in responses /\ responses' = responses \ {r} /\ extResponses' = extResponses
    BY <2>2 DEF AllocatorInv, ListedIds
  <2> QED BY <2>1, <2>2
<1>4. AllocatorTypeOK'
  <2>1. releases' \in [Allocations -> Nat]
    BY <1>1 DEF AllocatorTypeOK
  <2> QED BY <1>1, <1>3, <2>1 DEF AllocatorTypeOK, Allocations, Responses
<1>5. AllocatorInv'
  <2>1. \A x \in extResponses', y \in extResponses' : x.id = y.id => x = y
    BY <1>3 DEF AllocatorInv
  <2>2. \A x \in extResponses', s \in responses' : x.id # s.id
    BY <1>3 DEF AllocatorInv
  <2>3. \A x \in responses', s \in responses' : x.id = s.id => x = s
    BY <1>3 DEF AllocatorInv
  <2>4. \A a \in Allocations : releases'[a] = IF a \in 1 .. allocs' /\ a \notin surfaces' THEN 1 ELSE 0
    BY <1>1, <1>3 DEF AllocatorInv, Allocations
  <2>5. surfaces' = ListedIds' /\ surfaces' \subseteq 1 .. allocs'
    BY <1>1, <1>3 DEF AllocatorInv, ListedIds
  <2>6. allocator'
    BY <1>1
  <2> QED BY <2>1, <2>2, <2>3, <2>4, <2>5, <2>6 DEF AllocatorInv, Allocations
<1>6. \A s : Listed(s) /\ s.id # r.id => Listed(s)'
  BY <1>2, <1>3 DEF Listed
<1> QED BY <1>1, <1>3, <1>4, <1>5, <1>6 DEF GivenBack

LEMMA FreeStep ==
  ASSUME AllocatorTypeOK, AllocatorInv, allocator, NEW r \in Responses, Listed(r), FreeFrames(r)
  PROVE  GivenBack(r)
<1>1. UNCHANGED <<allocator, allocs>>
  BY DEF FreeFrames
<1>2. CASE \E e \in extResponses : AsResponse(e) = r
  <2>1. PICK e \in extResponses : AsResponse(e) = r /\ FreeExternal(e)
    BY <1>2 DEF FreeFrames
  <2>2. e \in Entries /\ e.id = r.id
    BY <2>1 DEF AllocatorTypeOK, Entries, AsResponse
  <2>3. CASE e.refs = 1
    BY <1>1, <2>1, <2>2, <2>3, ReleaseStep DEF FreeExternal
  <2>4. CASE e.refs # 1
    <3> DEFINE f == [e EXCEPT !.refs = @ - 1]
    <3>1. /\ extResponses' = (extResponses \ {e}) \cup {f} /\ responses' = responses
          /\ surfaces' = surfaces /\ releases' = releases /\ allocs' = allocs /\ allocator' = allocator
      BY <1>1, <2>1, <2>4 DEF FreeExternal
    <3>2. f \in Entries /\ f.id = e.id /\ f.n = e.n /\ f.refs = e.refs - 1
      BY <2>2, <2>4 DEF Entries
    <3> HIDE DEF f
    <3>3. AsResponse(f) = AsResponse(e)
      BY <3>2 DEF AsResponse
    <3>4. AllocatorTypeOK'
      BY <3>1, <3>2 DEF AllocatorTypeOK, Entries, Allocations, Responses
    <3>5. {x.id : x \in extResponses'} = {x.id : x \in extResponses}
      BY <3>1, <3>2
    <3>6. ListedIds' = ListedIds
      BY <3>1, <3>5 DEF ListedIds
    <3>7. AllocatorInv'
      <4>1. \A x \in extResponses', y \in extResponses' : x.id = y.id => x = y
        BY <2>1, <3>1, <3>2 DEF AllocatorInv
      <4>2. \A x \in extResponses', s \in responses' : x.id # s.id
        BY <2>1, <3>1, <3>2 DEF AllocatorInv
      <4>3. allocator'
        BY <3>1
      <4>4. \A a \in Allocations : releases'[a] = IF a \in 1 .. allocs' /\ a \notin surfaces' THEN 1 ELSE 0
        BY <3>1 DEF AllocatorInv
      <4>5. surfaces' = ListedIds' /\ surfaces' \subseteq 1 .. allocs'
        BY <3>1, <3>6 DEF AllocatorInv
      <4>6. \A x \in responses', s \in responses' : x.id = s.id => x = s
        BY <3>1 DEF AllocatorInv
      <4> QED BY <4>1, <4>2, <4>3, <4>4, <4>5, <4>6 DEF AllocatorInv, Allocations
    <3>8. \A s : Listed(s) => Listed(s)'
      BY <3>1, <3>3 DEF Listed
    <3>9. \A x \in extResponses' :
            \/ x.id # r.id /\ x \in extResponses
            \/ x.id = r.id /\ \E y \in extResponses : y.id = r.id /\ x.refs = y.refs - 1
      BY <2>1, <2>2, <3>1, <3>2 DEF AllocatorInv
    <3>10. \A s \in responses' : s.id # r.id /\ s \in responses
      BY <2>1, <2>2, <3>1 DEF AllocatorInv
    <3> QED BY <3>1, <3>4, <3>7, <3>8, <3>9, <3>10 DEF GivenBack
  <2> QED BY <2>3, <2>4
<1>3. CASE ~\E e \in extResponses : AsResponse(e) = r
  <2>1. r \in responses
    BY <1>3 DEF Listed
  <2> QED BY <1>1, <1>3, <2>1, ReleaseStep DEF FreeFrames, FreeInternal
<1> QED BY <1>2, <1>3
-----------------------------------------------------------------------------
(* The counts of the allocator and those who will free.                    *)

\* Nobody owns a response that is not made yet.
LEMMA NobodyYet ==
  ASSUME PoolInv PROVE Owners(allocs + 1) = 0
<1>1. allocs \in Nat /\ surfaces \subseteq 1 .. allocs /\ surfaces = ListedIds
  BY DEF PoolInv, AllocatorInv, PoolTypeOK, AllocatorTypeOK
<1>2. \A p \in (1 .. pools) \ final : response[p].id \in 1 .. allocs
  BY DEF PoolInv, OnePool, Living
<1>3. \A t \in Tickets : codec[t].id # allocs + 1
  <2> TAKE t \in Tickets
  <2>1. CASE codec[t] = NoResponse
    BY <1>1, <2>1 DEF NoResponse
  <2>2. CASE codec[t] # NoResponse
    <3>1. Listed(codec[t])
      BY <2>2 DEF PoolInv, ExecutorInv
    <3>2. codec[t].id \in surfaces
      <4>1. \A e \in extResponses : AsResponse(e).id = e.id
        BY DEF AsResponse
      <4>2. \/ codec[t] \in responses
            \/ \E e \in extResponses : AsResponse(e) = codec[t]
        BY <3>1 DEF Listed
      <4> QED BY <1>1, <4>1, <4>2 DEF ListedIds
    <3> QED BY <1>1, <3>2
  <2> QED BY <2>1, <2>2
<1>4. PoolOwners(allocs + 1) = {} /\ CodecOwners(allocs + 1) = {}
  BY <1>1, <1>2, <1>3 DEF PoolOwners, CodecOwners
<1> QED BY <1>4, OwnersFacts DEF PoolInv

LEMMA GivenOwners ==
  ASSUME PoolInv, NEW r, Given(r), Owners(r.id)' = Owners(r.id) + 1,
         \A a \in Allocations \ {r.id} : Owners(a)' = Owners(a)
  PROVE  OwnersInv'
<1>1. /\ extResponses' \subseteq Entries /\ responses' \subseteq Responses
  BY DEF Given, AllocatorTypeOK, Entries
<1>2. (\A e \in extResponses : e.refs = Owners(e.id)) /\ \A s \in responses : Owners(s.id) = 1
  BY DEF PoolInv, OwnersInv
<1>3. ASSUME NEW e \in extResponses' PROVE e.refs = Owners(e.id)'
  <2>1. e.id \in Allocations
    BY <1>1 DEF Entries
  <2>2. CASE e.id # r.id /\ e \in extResponses
    BY <1>2, <2>1, <2>2
  <2>3. CASE e.id = r.id /\ r.id = allocs + 1 /\ e.refs = 1
    BY <2>3, NobodyYet
  <2>4. CASE e.id = r.id /\ \E f \in extResponses : f.id = r.id /\ e.refs = f.refs + 1
    <3>1. PICK f \in extResponses : f.id = r.id /\ e.refs = f.refs + 1
      BY <2>4
    <3>2. f.refs = Owners(r.id)
      BY <1>2, <3>1
    <3> QED BY <2>4, <3>1, <3>2
  <2> QED BY <2>2, <2>3, <2>4 DEF Given
<1>4. ASSUME NEW s \in responses' PROVE Owners(s.id)' = 1
  <2>1. s.id \in Allocations
    BY <1>1 DEF Responses
  <2>2. CASE s.id # r.id /\ s \in responses
    BY <1>2, <2>1, <2>2
  <2>3. CASE s = r /\ r.id = allocs + 1
    BY <2>3, NobodyYet
  <2> QED BY <2>2, <2>3 DEF Given
<1> QED BY <1>3, <1>4 DEF OwnersInv

LEMMA BackOwners ==
  ASSUME PoolInv, NEW r, GivenBack(r), Owners(r.id)' = Owners(r.id) - 1,
         \A a \in Allocations \ {r.id} : Owners(a)' = Owners(a)
  PROVE  OwnersInv'
<1>1. /\ extResponses' \subseteq Entries /\ responses' \subseteq Responses
  BY DEF GivenBack, AllocatorTypeOK, Entries
<1>2. (\A e \in extResponses : e.refs = Owners(e.id)) /\ \A s \in responses : Owners(s.id) = 1
  BY DEF PoolInv, OwnersInv
<1>3. ASSUME NEW e \in extResponses' PROVE e.refs = Owners(e.id)'
  <2>1. e.id \in Allocations
    BY <1>1 DEF Entries
  <2>2. CASE e.id # r.id /\ e \in extResponses
    BY <1>2, <2>1, <2>2
  <2>3. CASE e.id = r.id /\ \E f \in extResponses : f.id = r.id /\ e.refs = f.refs - 1
    <3>1. PICK f \in extResponses : f.id = r.id /\ e.refs = f.refs - 1
      BY <2>3
    <3>2. f.refs = Owners(r.id)
      BY <1>2, <3>1
    <3> QED BY <2>3, <3>1, <3>2
  <2> QED BY <2>2, <2>3 DEF GivenBack
<1>4. ASSUME NEW s \in responses' PROVE Owners(s.id)' = 1
  <2>1. s.id \in Allocations /\ s.id # r.id /\ s \in responses
    BY <1>1 DEF Responses, GivenBack
  <2> QED BY <1>2, <2>1
<1> QED BY <1>3, <1>4 DEF OwnersInv

\* A response whose surfaces are destroyed had one owner, who gave it back.
LEMMA OthersListed ==
  ASSUME PoolInv, NEW r, GivenBack(r), NEW s, Listed(s),
         s.id = r.id => Owners(r.id) # 1
  PROVE  Listed(s)'
<1>1. CASE s.id # r.id
  BY <1>1 DEF GivenBack
<1>2. CASE s.id = r.id
  <2>1. ~(r \in responses \/ \E f \in extResponses : f.id = r.id /\ f.refs = 1)
    BY <1>2 DEF PoolInv, OwnersInv
  <2> QED BY <2>1 DEF GivenBack
<1> QED BY <1>1, <1>2

\* When the allocator is left alone.
LEMMA SameAllocator ==
  ASSUME PoolInv, UNCHANGED allocatorVars
  PROVE  /\ AllocatorTypeOK' /\ AllocatorInv' /\ allocator' = allocator /\ allocs' = allocs
         /\ surfaces' = surfaces /\ extResponses' = extResponses /\ responses' = responses
         /\ \A s : Listed(s) <=> Listed(s)'
<1>1. /\ allocator' = allocator /\ allocs' = allocs /\ releases' = releases
      /\ surfaces' = surfaces /\ extResponses' = extResponses /\ responses' = responses
  BY DEF allocatorVars
<1>2. AllocatorTypeOK'
  BY <1>1 DEF PoolInv, PoolTypeOK, AllocatorTypeOK, Allocations, Responses
<1>3. AllocatorInv'
  BY <1>1 DEF PoolInv, AllocatorInv, ListedIds, Allocations
<1> QED BY <1>1, <1>2, <1>3 DEF Listed

LEMMA SameCounts ==
  ASSUME PoolInv, UNCHANGED allocatorVars,
         \A a \in surfaces : Owners(a)' = Owners(a)
  PROVE  OwnersInv'
<1>1. extResponses' = extResponses /\ responses' = responses
  BY SameAllocator
<1>2. \A e \in extResponses : e.id \in surfaces
  BY DEF PoolInv, AllocatorInv, ListedIds
<1>3. \A s \in responses : s.id \in surfaces
  BY DEF PoolInv, AllocatorInv, ListedIds
<1> QED BY <1>1, <1>2, <1>3 DEF PoolInv, OwnersInv

\* What is known of the pools.
LEMMA PoolFacts ==
  ASSUME PoolInv
  PROVE  /\ pools \in 0 .. MaxPools /\ pool \in 0 .. pools /\ final \subseteq 1 .. pools
         /\ MaxPools \in Nat /\ 1 .. pools \subseteq PoolIds /\ Living \subseteq PoolIds
         /\ bases \in 0 .. MaxBases /\ MaxBases \in Nat
         /\ \A p \in Living : OnePool(p) /\ p \in 1 .. pools /\ p \notin final
         /\ \A p \in PoolIds : \A i \in made[p] : p \in Living
         /\ surfaces \subseteq 1 .. allocs /\ allocs \in 0 .. MaxAllocs /\ MaxAllocs \in Nat
         /\ Allocations = 1 .. MaxAllocs
<1>1. PoolTypeOK /\ ExecutorInv /\ AllocatorInv
  BY DEF PoolInv
<1>2. /\ pools \in 0 .. MaxPools /\ pool \in 0 .. pools /\ final \subseteq 1 .. pools
      /\ bases \in 0 .. MaxBases
  BY <1>1 DEF PoolTypeOK
<1>3. 1 .. pools \subseteq PoolIds /\ Living \subseteq PoolIds /\ MaxPools \in Nat /\ MaxBases \in Nat
  BY <1>2, PoolBounds DEF PoolIds, Living
<1>4. \A p \in Living : OnePool(p) /\ p \in 1 .. pools /\ p \notin final
  BY DEF PoolInv, Living
<1>5. \A p \in PoolIds : \A i \in made[p] : p \in Living
  BY <1>1, <1>2, <1>3 DEF ExecutorInv, Living, PoolIds
<1>6. surfaces \subseteq 1 .. allocs /\ allocs \in 0 .. MaxAllocs /\ MaxAllocs \in Nat
  BY <1>1, AllocatorBounds DEF AllocatorInv, PoolTypeOK, AllocatorTypeOK
<1> QED BY <1>2, <1>3, <1>4, <1>5, <1>6 DEF Allocations
-----------------------------------------------------------------------------
(* The end of references.                                                  *)

LEMMA SettleStep ==
  ASSUME PoolInv, NEW p \in Living, Settle(p),
         UNCHANGED <<origin, pools, size, response, life, used, discards, codec, bases, kept>>,
         holders' \in [PoolIds -> [Indices -> SUBSET Users]],
         active' \in [PoolIds -> BOOLEAN], \A q \in PoolIds : active'[q] <=> q = pool',
         pool' = pool \/ (pool' = 0 /\ p = pool),
         \A q \in PoolIds \ {p} : holders'[q] = holders[q],
         \A i \in Indices : holders'[p][i] \subseteq holders[p][i],
         cpc' = cpc \/ (cpc = "pool" /\ cpc' = "allocator" /\ pool' = 0)
  PROVE  PoolInv'
<1>1. /\ origin' = origin /\ pools' = pools /\ size' = size /\ response' = response /\ life' = life
      /\ used' = used /\ discards' = discards /\ codec' = codec /\ bases' = bases /\ kept' = kept
  OBVIOUS
<1>2. /\ PoolTypeOK /\ AllocatorInv /\ ExecutorInv /\ BuffersInv /\ OwnersInv
      /\ lateFree \subseteq kept /\ p \in 1 .. pools /\ p \notin final /\ p \in PoolIds /\ OnePool(p)
  BY PoolFacts DEF PoolInv
<1>3. cpc' \in {"none", "open", "codec", "locked", "pool", "allocator"}
  BY <1>2 DEF PoolTypeOK
<1>4. pool' \in 0 .. pools'
  BY <1>1, <1>2 DEF PoolTypeOK
<1> DEFINE R == response[p]
           Ends == ~active'[p] /\ \A i \in made[p] : holders'[p][i] = {}
<1>5. CASE Ends
  <2>1. /\ made' = [made EXCEPT ![p] = {}] /\ final' = final \cup {p} /\ FreeResponse(p)
    BY <1>5 DEF Settle
  <2>2. /\ \A q \in PoolIds \ {p} : made'[q] = made[q]
        /\ made'[p] = {} /\ made' \in [PoolIds -> SUBSET Indices]
        /\ final' \subseteq 1 .. pools'
    BY <1>1, <1>2, <2>1 DEF PoolTypeOK
  <2>3. p # pool'
    BY <1>2, <1>5
  <2>4. Living' = Living \ {p}
    BY <1>1, <2>1 DEF Living
  <2>5. \A q \in Living' : q \in Living /\ q # p /\ q \in PoolIds /\ OnePool(q)
    BY <2>4, PoolFacts
  <2>6. \A q \in Living' : Held(q)' = Held(q)
    BY <2>2, <2>5 DEF Held
  <2>7. /\ \A a : a # R.id => PoolOwners(a)' = PoolOwners(a)
        /\ PoolOwners(R.id)' = PoolOwners(R.id) \ {p}
        /\ p \in PoolOwners(R.id)
        /\ \A a : CodecOwners(a)' = CodecOwners(a)
    BY <1>1, <1>2, <2>1 DEF PoolOwners, CodecOwners
  <2>8. \A a : a # R.id => Owners(a)' = Owners(a)
    BY <2>7, SameOwners
  <2>9. Owners(R.id)' = Owners(R.id) - 1
    BY <1>2, <2>7, OnePoolLess
  <2>10. /\ AllocatorTypeOK' /\ AllocatorInv' /\ OwnersInv' /\ lateFree' \subseteq kept'
         /\ allocator' = allocator /\ allocs' = allocs /\ surfaces' \subseteq surfaces
         /\ lateFree' \subseteq PoolIds
         /\ \A s : Listed(s) /\ (s.id = R.id => Owners(R.id) # 1) => Listed(s)'
    <3>1. CASE Current(p)
      <4>1. FreeFrames(R) /\ lateFree' = lateFree /\ allocator
        BY <2>1, <3>1 DEF FreeResponse, Current
      <4>2. R \in Responses /\ Listed(R)
        BY <1>2, <3>1 DEF OnePool
      <4>3. AllocatorTypeOK /\ AllocatorInv
        BY <1>2 DEF PoolTypeOK
      <4>4. GivenBack(R)
        BY <4>1, <4>2, <4>3, FreeStep
      <4>5. OwnersInv'
        BY <2>8, <2>9, <4>4, BackOwners
      <4>6. \A s : Listed(s) /\ (s.id = R.id => Owners(R.id) # 1) => Listed(s)'
        BY <4>4, OthersListed
      <4> QED BY <1>1, <1>2, <4>1, <4>4, <4>5, <4>6 DEF GivenBack, PoolTypeOK
    <3>2. CASE ~Current(p)
      <4>1. lateFree' = lateFree \cup {p} /\ UNCHANGED allocatorVars
        BY <2>1, <3>2 DEF FreeResponse, Current
      <4>2. R.id \notin surfaces /\ p \in kept
        BY <1>2, <3>2 DEF OnePool
      <4>3. OwnersInv'
        BY <2>8, <4>1, <4>2, SameCounts
      <4>4. /\ AllocatorTypeOK' /\ AllocatorInv' /\ allocator' = allocator /\ allocs' = allocs
            /\ surfaces' = surfaces /\ \A s : Listed(s) <=> Listed(s)'
        BY <4>1, SameAllocator
      <4> QED BY <1>1, <1>2, <4>1, <4>2, <4>3, <4>4 DEF PoolTypeOK
    <3> QED BY <3>1, <3>2
  <2>11. PoolTypeOK'
    BY <1>1, <1>2, <1>3, <1>4, <2>2, <2>10
    DEF PoolTypeOK, PoolIds, Indices, Users, Tickets, Responses, Allocations, NoResponse
  <2>12. \A q \in PoolIds : Current(q)' <=> Current(q)
    BY <1>1, <2>10 DEF Current
  <2>13. ExecutorInv'
    <3>1. (allocator' <=> cpc' # "none") /\ (cpc' # "none" => bases' >= 1)
      BY <1>1, <1>2, <2>10 DEF ExecutorInv
    <3>2. pool' # 0 => pool' \in Living' /\ Current(pool)' /\ cpc' # "allocator"
      <4> SUFFICES ASSUME pool' # 0 PROVE pool' \in Living' /\ Current(pool)' /\ cpc' # "allocator"
        OBVIOUS
      <4>1. pool' = pool /\ pool \in Living /\ Current(pool) /\ cpc # "allocator"
        BY <1>2 DEF ExecutorInv
      <4>2. Current(pool)'
        BY <1>1, <2>10, <4>1 DEF Current
      <4> QED BY <2>3, <2>4, <4>1, <4>2
    <3>3. \A q \in 1 .. pools' : life'[q] \in 1 .. bases'
      BY <1>1, <1>2 DEF ExecutorInv
    <3>4. \A q \in PoolIds : q \in final' \/ q > pools' => made'[q] = {}
      BY <1>1, <1>2, <2>1, <2>2 DEF ExecutorInv
    <3>5. \A t \in Tickets : codec'[t] # NoResponse => Listed(codec[t])' /\ cpc' \in {"open", "codec"}
      <4> SUFFICES ASSUME NEW t \in Tickets, codec[t] # NoResponse
                   PROVE  Listed(codec[t])' /\ cpc' \in {"open", "codec"}
        BY <1>1 DEF NoResponse
      <4>1. Listed(codec[t]) /\ cpc \in {"open", "codec"}
        BY <1>2 DEF ExecutorInv
      <4>2. codec[t].id = R.id => Owners(R.id) # 1
        <5> SUFFICES ASSUME codec[t].id = R.id, Owners(R.id) = 1 PROVE FALSE
          OBVIOUS
        <5>1. t \in CodecOwners(R.id)
          BY DEF CodecOwners
        <5>2. PoolOwners(R.id) = {}
          BY <1>2, <5>1, OwnersFacts
        <5> QED BY <2>7, <5>2
      <4>3. \A s : Listed(s) /\ (s.id = R.id => Owners(R.id) # 1) => Listed(s)'
        BY <2>10
      <4>4. codec' = codec
        BY <1>1
      <4>5. ASSUME NEW s, s = codec[t] PROVE Listed(s)'
        BY <4>1, <4>2, <4>3, <4>5
      <4> QED BY <4>1, <4>4, <4>5 DEF Listed
    <3>6. cpc' \in {"pool", "allocator", "none"} =>
            \A q \in PoolIds, i \in Indices : "executor" \notin holders'[q][i]
      <4> SUFFICES ASSUME cpc' \in {"pool", "allocator", "none"}, NEW q \in PoolIds, NEW i \in Indices
                   PROVE  "executor" \notin holders'[q][i]
        OBVIOUS
      <4>1. "executor" \notin holders[q][i]
        BY <1>2 DEF ExecutorInv
      <4> QED BY <4>1
    <3> QED BY <3>1, <3>2, <3>3, <3>4, <3>5, <3>6 DEF ExecutorInv, PoolIds, Indices, Tickets, NoResponse
  <2>14. BuffersInv'
    <3>1. \A q \in 1 .. pools' : used'[q] <= size'[q] + discards'[q] /\ made'[q] \subseteq 1 .. used'[q]
      BY <1>1, <1>2, <2>2, PoolFacts DEF BuffersInv
    <3>2. pool' # 0 => used'[pool'] <= Cardinality(made'[pool']) + discards'[pool']
      <4> SUFFICES ASSUME pool' # 0 PROVE used'[pool'] <= Cardinality(made'[pool']) + discards'[pool']
        OBVIOUS
      <4>1. pool' = pool /\ pool # p /\ pool \in PoolIds
        BY <1>2, <2>3, PoolFacts DEF ExecutorInv
      <4>2. made'[pool] = made[pool]
        BY <2>2, <4>1
      <4> QED BY <1>1, <1>2, <4>1, <4>2 DEF BuffersInv
    <3> QED BY <3>1, <3>2 DEF BuffersInv
  <2>15. ASSUME NEW q \in Living' PROVE OnePool(q)'
    <3>1. q \in Living /\ q # p /\ q \in PoolIds /\ OnePool(q) /\ Held(q)' = Held(q)
      BY <2>5, <2>6
    <3>2. q # pool' => q # pool
      BY <3>1
    <3>3. Current(q)' <=> Current(q)
      BY <2>12, <3>1
    <3>4. ASSUME Current(q) PROVE Listed(response[q])'
      <4>1. Listed(response[q])
        BY <3>1, <3>4 DEF OnePool
      <4>2. response[q].id = R.id => Owners(R.id) # 1
        <5> SUFFICES ASSUME response[q].id = R.id, Owners(R.id) = 1 PROVE FALSE
          OBVIOUS
        <5>1. q \in PoolOwners(R.id)
          BY <3>1, PoolFacts DEF PoolOwners
        <5>2. PoolOwners(R.id) = {p}
          BY <1>2, <2>7, OwnersFacts
        <5> QED BY <3>1, <5>1, <5>2
      <4>3. \A s : Listed(s) /\ (s.id = R.id => Owners(R.id) # 1) => Listed(s)'
        BY <2>10
      <4>4. ASSUME NEW s, s = response[q] PROVE Listed(s)'
        BY <4>1, <4>2, <4>3, <4>4
      <4> QED BY <1>1, <4>4 DEF Listed
    <3>5. response[q] \in Responses /\ response[q].id \in 1 .. allocs
      BY <3>1 DEF OnePool
    <3>6. ~Current(q) => response[q].id \notin surfaces' /\ q \in kept
      BY <2>10, <3>1 DEF OnePool
    <3>7. q # pool' => Held(q)' # {}
      BY <3>1, <3>2 DEF OnePool
    <3> QED BY <1>1, <2>10, <3>3, <3>4, <3>5, <3>6, <3>7 DEF OnePool, Responses, Allocations
  <2> QED BY <2>10, <2>11, <2>13, <2>14, <2>15 DEF PoolInv
<1>6. CASE ~Ends
  <2>1. /\ made' = made /\ final' = final /\ lateFree' = lateFree /\ UNCHANGED allocatorVars
    BY <1>6 DEF Settle
  <2>2. Living' = Living
    BY <1>1, <2>1 DEF Living
  <2>3. /\ AllocatorTypeOK' /\ AllocatorInv' /\ allocator' = allocator /\ allocs' = allocs
        /\ surfaces' = surfaces /\ \A s : Listed(s) <=> Listed(s)'
    BY <2>1, SameAllocator
  <2>4. OwnersInv'
    <3>1. \A a : PoolOwners(a)' = PoolOwners(a) /\ CodecOwners(a)' = CodecOwners(a)
      BY <1>1, <2>1 DEF PoolOwners, CodecOwners
    <3> QED BY <2>1, <3>1, SameOwners, SameCounts
  <2>5. PoolTypeOK'
    BY <1>1, <1>2, <1>3, <1>4, <2>1, <2>3
    DEF PoolTypeOK, PoolIds, Indices, Users, Tickets, Responses, Allocations, NoResponse
  <2>6. \A q \in PoolIds : Current(q)' <=> Current(q)
    BY <1>1, <2>3 DEF Current
  <2>7. ExecutorInv'
    <3>1. (allocator' <=> cpc' # "none") /\ (cpc' # "none" => bases' >= 1)
      BY <1>1, <1>2, <2>3 DEF ExecutorInv
    <3>2. pool' # 0 => pool' \in Living' /\ Current(pool)' /\ cpc' # "allocator"
      <4> SUFFICES ASSUME pool' # 0 PROVE pool' \in Living' /\ Current(pool)' /\ cpc' # "allocator"
        OBVIOUS
      <4>1. pool' = pool /\ pool \in Living /\ Current(pool) /\ cpc # "allocator"
        BY <1>2 DEF ExecutorInv
      <4>2. Current(pool)'
        BY <1>1, <2>3, <4>1 DEF Current
      <4> QED BY <2>2, <4>1, <4>2
    <3>3. \A q \in 1 .. pools' : life'[q] \in 1 .. bases'
      BY <1>1, <1>2 DEF ExecutorInv
    <3>4. \A q \in PoolIds : q \in final' \/ q > pools' => made'[q] = {}
      BY <1>1, <1>2, <2>1 DEF ExecutorInv
    <3>5. \A t \in Tickets : codec'[t] # NoResponse => Listed(codec[t])' /\ cpc' \in {"open", "codec"}
      <4> SUFFICES ASSUME NEW t \in Tickets, codec[t] # NoResponse
                   PROVE  Listed(codec[t])' /\ cpc' \in {"open", "codec"}
        BY <1>1 DEF NoResponse
      <4>1. Listed(codec[t]) /\ cpc \in {"open", "codec"}
        BY <1>2 DEF ExecutorInv
      <4>2. ASSUME NEW s, s = codec[t] PROVE Listed(s)'
        BY <2>3, <4>1, <4>2
      <4> QED BY <1>1, <4>1, <4>2 DEF Listed
    <3>6. cpc' \in {"pool", "allocator", "none"} =>
            \A q \in PoolIds, i \in Indices : "executor" \notin holders'[q][i]
      <4> SUFFICES ASSUME cpc' \in {"pool", "allocator", "none"}, NEW q \in PoolIds, NEW i \in Indices
                   PROVE  "executor" \notin holders'[q][i]
        OBVIOUS
      <4>1. "executor" \notin holders[q][i]
        BY <1>2 DEF ExecutorInv
      <4> QED BY <4>1
    <3> QED BY <3>1, <3>2, <3>3, <3>4, <3>5, <3>6 DEF ExecutorInv, PoolIds, Indices, Tickets, NoResponse
  <2>8. BuffersInv'
    BY <1>1, <1>2, <2>1 DEF BuffersInv
  <2>9. ASSUME NEW q \in Living' PROVE OnePool(q)'
    <3>1. q \in Living /\ q \in PoolIds /\ OnePool(q)
      BY <2>2, PoolFacts
    <3>2. Current(q)' <=> Current(q)
      BY <2>6, <3>1
    <3>3. ASSUME Current(q) PROVE Listed(response[q])'
      <4>1. Listed(response[q])
        BY <3>1, <3>3 DEF OnePool
      <4>2. ASSUME NEW s, s = response[q] PROVE Listed(s)'
        BY <2>3, <4>1, <4>2
      <4> QED BY <1>1, <4>2 DEF Listed
    <3>4. q # pool' => Held(q)' # {}
      <4> SUFFICES ASSUME q # pool' PROVE Held(q)' # {}
        OBVIOUS
      <4>1. CASE q = p
        <5>1. ~active'[p]
          BY <1>2, <4>1
        <5>2. PICK i \in made[p] : holders'[p][i] # {}
          BY <1>6, <5>1
        <5> QED BY <2>1, <4>1, <5>2 DEF Held
      <4>2. CASE q # p
        <5>1. Held(q)' = Held(q)
          BY <2>1, <3>1, <4>2 DEF Held
        <5> QED BY <3>1, <4>2, <5>1 DEF OnePool
      <4> QED BY <4>1, <4>2
    <3> QED BY <1>1, <2>3, <3>1, <3>2, <3>3, <3>4 DEF OnePool, Responses, Allocations
  <2> QED BY <1>1, <1>2, <2>1, <2>3, <2>4, <2>5, <2>7, <2>8, <2>9 DEF PoolInv
<1> QED BY <1>5, <1>6

LEMMA PoolDropStep ==
  ASSUME PoolInv, NEW u \in Users, NEW p \in PoolIds, NEW i \in Indices, LetGo(u, p, i)
  PROVE  PoolInv'
<1>1. /\ i \in made[p] /\ u \in holders[p][i]
      /\ holders' = [holders EXCEPT ![p] = [holders[p] EXCEPT ![i] = holders[p][i] \ {u}]]
      /\ active' = active /\ Settle(p)
      /\ UNCHANGED <<origin, pool, pools, size, response, life, used, discards, codec, cpc, bases, kept>>
  BY DEF LetGo
<1>2. p \in Living
  BY <1>1, PoolFacts
<1>3. holders \in [PoolIds -> [Indices -> SUBSET Users]] /\ active \in [PoolIds -> BOOLEAN]
  BY DEF PoolInv, PoolTypeOK
<1>4. /\ holders' \in [PoolIds -> [Indices -> SUBSET Users]]
      /\ \A q \in PoolIds \ {p} : holders'[q] = holders[q]
      /\ \A j \in Indices : holders'[p][j] \subseteq holders[p][j]
  BY <1>1, <1>3
<1>5. /\ active' \in [PoolIds -> BOOLEAN] /\ pool' = pool /\ cpc' = cpc
      /\ \A q \in PoolIds : active'[q] <=> q = pool'
  BY <1>1, <1>3 DEF PoolInv, ExecutorInv
<1>6. UNCHANGED <<origin, pools, size, response, life, used, discards, codec, bases, kept>>
  BY <1>1
<1> QED BY <1>1, <1>2, <1>4, <1>5, <1>6, SettleStep

\* Close() of the pool, by a failed Init() or by Dispose().
LEMMA PoolCloseStep ==
  ASSUME PoolInv, pool # 0, PoolClose, UNCHANGED <<used, discards, codec, bases>>,
         cpc' = cpc \/ (cpc = "pool" /\ cpc' = "allocator")
  PROVE  PoolInv'
<1>1. /\ pool' = 0 /\ active' = [active EXCEPT ![pool] = FALSE]
      /\ UNCHANGED <<origin, pools, size, response, life, holders, kept>> /\ Settle(pool)
  BY DEF PoolClose
<1>2. pool \in Living /\ pool \in PoolIds
  BY PoolFacts DEF PoolInv, ExecutorInv
<1>3. holders \in [PoolIds -> [Indices -> SUBSET Users]] /\ active \in [PoolIds -> BOOLEAN]
  BY DEF PoolInv, PoolTypeOK
<1>4. /\ active' \in [PoolIds -> BOOLEAN]
      /\ \A q \in PoolIds : active'[q] <=> q = 0
  <2>1. \A q \in PoolIds : active[q] <=> q = pool
    BY DEF PoolInv, ExecutorInv
  <2>2. \A q \in PoolIds : q # 0
    BY DEF PoolIds
  <2> QED BY <1>1, <1>2, <1>3, <2>1, <2>2
<1>5. UNCHANGED <<origin, pools, size, response, life, used, discards, codec, bases, kept>>
  BY <1>1
<1>6. holders' = holders
  BY <1>1
<1> HIDE DEF PoolInv, Settle
<1> QED BY <1>1, <1>2, <1>3, <1>4, <1>5, <1>6, SettleStep
-----------------------------------------------------------------------------
(* Steps which leave the allocator and the responses alone.                *)

LEMMA PoolQuietStep ==
  ASSUME PoolInv, UNCHANGED <<allocatorVars, poolVars, codec, historyVars>>,
         made' \in [PoolIds -> SUBSET Indices], used' \in [PoolIds -> Nat],
         holders' \in [PoolIds -> [Indices -> SUBSET Users]],
         discards' \in [PoolIds -> 0 .. MaxDiscards],
         cpc' \in {"none", "open", "codec", "locked", "pool", "allocator"},
         cpc # "none" <=> cpc' # "none", pool # 0 => cpc' # "allocator",
         \A t \in Tickets : codec[t] # NoResponse => cpc' \in {"open", "codec"},
         cpc' \in {"pool", "allocator", "none"} =>
           \A p \in PoolIds, i \in Indices : "executor" \notin holders'[p][i],
         \A p \in PoolIds : p \in final \/ p > pools => made'[p] = {},
         \A p \in Living : p # pool => Held(p)' # {},
         BuffersInv'
  PROVE  PoolInv'
<1>1. /\ origin' = origin /\ pool' = pool /\ pools' = pools /\ size' = size
      /\ response' = response /\ active' = active /\ final' = final /\ life' = life
      /\ codec' = codec /\ bases' = bases /\ kept' = kept /\ lateFree' = lateFree
  BY DEF poolVars, historyVars
<1>2. PoolTypeOK /\ ExecutorInv /\ lateFree \subseteq kept
  BY DEF PoolInv
<1>3. /\ AllocatorTypeOK' /\ AllocatorInv' /\ allocator' = allocator /\ allocs' = allocs
      /\ surfaces' = surfaces /\ \A s : Listed(s) <=> Listed(s)'
  BY SameAllocator
<1>4. PoolTypeOK'
  BY <1>1, <1>2, <1>3
  DEF PoolTypeOK, PoolIds, Indices, Users, Tickets, Responses, Allocations, NoResponse
<1>5. OwnersInv'
  <2>1. \A a : PoolOwners(a)' = PoolOwners(a) /\ CodecOwners(a)' = CodecOwners(a)
    BY <1>1 DEF PoolOwners, CodecOwners
  <2> QED BY <2>1, SameOwners, SameCounts
<1>6. Living' = Living /\ \A q : Current(q)' <=> Current(q)
  BY <1>1, <1>3 DEF Living, Current
<1>7. ExecutorInv'
  <2>1. (allocator' <=> cpc' # "none") /\ (cpc' # "none" => bases' >= 1)
    BY <1>1, <1>2, <1>3 DEF ExecutorInv
  <2>2. pool' # 0 => pool' \in Living' /\ Current(pool)' /\ cpc' # "allocator"
    BY <1>1, <1>2, <1>6 DEF ExecutorInv
  <2>3. /\ \A q \in PoolIds : active'[q] <=> q = pool'
        /\ \A q \in 1 .. pools' : life'[q] \in 1 .. bases'
        /\ \A q \in PoolIds : q \in final' \/ q > pools' => made'[q] = {}
    BY <1>1, <1>2 DEF ExecutorInv
  <2>4. ASSUME NEW t \in Tickets, codec[t] # NoResponse
        PROVE  Listed(codec[t])' /\ cpc' \in {"open", "codec"}
    <3>1. Listed(codec[t])
      BY <1>2, <2>4 DEF ExecutorInv
    <3>2. ASSUME NEW s, s = codec[t] PROVE Listed(s)'
      BY <1>3, <3>1, <3>2
    <3> QED BY <1>1, <2>4, <3>2 DEF Listed
  <2>5. \A t \in Tickets : codec'[t] # NoResponse => Listed(codec[t])' /\ cpc' \in {"open", "codec"}
    BY <1>1, <2>4
  <2> QED BY <2>1, <2>2, <2>3, <2>5 DEF ExecutorInv, PoolIds, Indices, Tickets, NoResponse
<1>8. ASSUME NEW q \in Living' PROVE OnePool(q)'
  <2>1. q \in Living /\ q \in PoolIds /\ OnePool(q)
    BY <1>6, PoolFacts
  <2>2. Current(q)' <=> Current(q)
    BY <1>6
  <2>3. ASSUME Current(q) PROVE Listed(response[q])'
    <3>1. Listed(response[q])
      BY <2>1, <2>3 DEF OnePool
    <3>2. ASSUME NEW s, s = response[q] PROVE Listed(s)'
      BY <1>3, <3>1, <3>2
    <3> QED BY <1>1, <3>2 DEF Listed
  <2>4. q # pool' => Held(q)' # {}
    BY <1>1, <2>1
  <2>5. /\ response'[q] \in Responses /\ response'[q].id \in 1 .. allocs'
        /\ ~Current(q) => response'[q].id \notin surfaces' /\ q \in kept'
    BY <1>1, <1>3, <2>1 DEF OnePool
  <2> QED BY <1>1, <2>2, <2>3, <2>4, <2>5 DEF OnePool, Responses, Allocations
<1> QED BY <1>1, <1>2, <1>3, <1>4, <1>5, <1>7, <1>8 DEF PoolInv

\* Dispose() moves on, and nothing else happens.
LEMMA OnlyPlace ==
  ASSUME PoolInv, UNCHANGED <<allocatorVars, poolVars, bufferVars, codec, historyVars>>,
         cpc' \in {"none", "open", "codec", "locked", "pool", "allocator"},
         cpc # "none" <=> cpc' # "none", pool # 0 => cpc' # "allocator",
         \A t \in Tickets : codec[t] # NoResponse => cpc' \in {"open", "codec"},
         cpc' \in {"pool", "allocator", "none"} =>
           \A p \in PoolIds, i \in Indices : "executor" \notin holders[p][i]
  PROVE  PoolInv'
<1>1. made' = made /\ used' = used /\ holders' = holders /\ discards' = discards
  BY DEF bufferVars
<1>2. pool' = pool /\ pools' = pools /\ size' = size
  BY DEF poolVars
<1>3. PoolTypeOK /\ ExecutorInv /\ BuffersInv
  BY DEF PoolInv
<1>4. /\ made' \in [PoolIds -> SUBSET Indices] /\ used' \in [PoolIds -> Nat]
      /\ holders' \in [PoolIds -> [Indices -> SUBSET Users]]
      /\ discards' \in [PoolIds -> 0 .. MaxDiscards]
  BY <1>1, <1>3 DEF PoolTypeOK
<1>5. \A p \in PoolIds : p \in final \/ p > pools => made'[p] = {}
  BY <1>1, <1>3 DEF ExecutorInv
<1>6. \A p \in Living : p # pool => Held(p)' # {}
  BY <1>1, PoolFacts DEF OnePool, Held
<1>7. BuffersInv'
  BY <1>1, <1>2, <1>3 DEF BuffersInv
<1>8. cpc' \in {"pool", "allocator", "none"} =>
        \A p \in PoolIds, i \in Indices : "executor" \notin holders'[p][i]
  BY <1>1
<1> HIDE DEF PoolInv
<1> QED BY <1>4, <1>5, <1>6, <1>7, <1>8, PoolQuietStep

LEMMA PlaceSteps ==
  ASSUME PoolInv, BeginDispose \/ CodecGone \/ ClearLocked \/ (ClosePool /\ pool = 0)
  PROVE  PoolInv'
<1>1. ExecutorInv
  BY DEF PoolInv
<1>2. CASE BeginDispose
  <2>1. /\ cpc = "open" /\ cpc' = "codec"
        /\ UNCHANGED <<allocatorVars, poolVars, bufferVars, codec, historyVars>>
    BY <1>2 DEF BeginDispose
  <2> QED BY <2>1, OnlyPlace
<1>3. CASE CodecGone
  <2>1. /\ cpc = "codec" /\ cpc' = "locked" /\ \A t \in Tickets : codec[t] = NoResponse
        /\ UNCHANGED <<allocatorVars, poolVars, bufferVars, codec, historyVars>>
    BY <1>3 DEF CodecGone
  <2> QED BY <2>1, OnlyPlace
<1>4. \A t \in Tickets : codec[t] # NoResponse => cpc \in {"open", "codec"}
  BY <1>1 DEF ExecutorInv
<1>5. CASE ClearLocked
  <2>1. /\ cpc = "locked" /\ cpc' = "pool"
        /\ \A p \in PoolIds, i \in Indices : "executor" \notin holders[p][i]
        /\ UNCHANGED <<allocatorVars, poolVars, bufferVars, codec, historyVars>>
    BY <1>5 DEF ClearLocked
  <2> QED BY <1>4, <2>1, OnlyPlace
<1>6. CASE ClosePool /\ pool = 0
  <2>1. /\ cpc = "pool" /\ cpc' = "allocator"
        /\ UNCHANGED <<allocatorVars, poolVars, made, holders, kept, lateFree, used, discards, codec, bases>>
    BY <1>6 DEF ClosePool, PoolClose
  <2>2. UNCHANGED <<allocatorVars, poolVars, bufferVars, codec, historyVars>>
    BY <2>1 DEF bufferVars, historyVars
  <2>3. \A p \in PoolIds, i \in Indices : "executor" \notin holders[p][i]
    BY <1>1, <2>1 DEF ExecutorInv
  <2> QED BY <1>4, <1>6, <2>1, <2>2, <2>3, OnlyPlace
<1> QED BY <1>2, <1>3, <1>5, <1>6

LEMMA PoolIdle ==
  ASSUME PoolInv, UNCHANGED framePoolVars PROVE PoolInv'
<1>1. UNCHANGED <<allocatorVars, poolVars, bufferVars, codec, historyVars>> /\ cpc' = cpc
  BY DEF framePoolVars
<1>2. PoolTypeOK /\ ExecutorInv
  BY DEF PoolInv
<1>3. cpc' \in {"none", "open", "codec", "locked", "pool", "allocator"}
  BY <1>1, <1>2 DEF PoolTypeOK
<1>4. /\ pool # 0 => cpc' # "allocator"
      /\ \A t \in Tickets : codec[t] # NoResponse => cpc' \in {"open", "codec"}
      /\ cpc' \in {"pool", "allocator", "none"} =>
           \A p \in PoolIds, i \in Indices : "executor" \notin holders[p][i]
  BY <1>1, <1>2 DEF ExecutorInv
<1> QED BY <1>1, <1>3, <1>4, OnlyPlace
-----------------------------------------------------------------------------
(* The buffers of the current pool.                                        *)

LEMMA SurfaceFacts ==
  ASSUME PoolInv
  PROVE  /\ made \in [PoolIds -> SUBSET Indices] /\ used \in [PoolIds -> Nat]
         /\ holders \in [PoolIds -> [Indices -> SUBSET Users]]
         /\ discards \in [PoolIds -> 0 .. MaxDiscards] /\ size \in [PoolIds -> 0 .. MaxFrames]
         /\ cpc \in {"none", "open", "codec", "locked", "pool", "allocator"}
         /\ pool # 0 => cpc # "allocator" /\ pool \in Living /\ pool \in PoolIds /\ pool \in 1 .. pools
         /\ \A t \in Tickets : codec[t] # NoResponse => cpc \in {"open", "codec"}
         /\ cpc \in {"pool", "allocator", "none"} =>
              \A p \in PoolIds, i \in Indices : "executor" \notin holders[p][i]
         /\ \A p \in PoolIds : p \in final \/ p > pools => made[p] = {}
         /\ \A p \in Living : p # pool => Held(p) # {}
         /\ \A p \in PoolIds : active[p] <=> p = pool
<1>1. PoolTypeOK /\ ExecutorInv
  BY DEF PoolInv
<1>2. /\ made \in [PoolIds -> SUBSET Indices] /\ used \in [PoolIds -> Nat]
      /\ holders \in [PoolIds -> [Indices -> SUBSET Users]]
      /\ discards \in [PoolIds -> 0 .. MaxDiscards] /\ size \in [PoolIds -> 0 .. MaxFrames]
      /\ cpc \in {"none", "open", "codec", "locked", "pool", "allocator"}
  BY <1>1 DEF PoolTypeOK
<1>3. \A p \in Living : p # pool => Held(p) # {}
  BY PoolFacts DEF OnePool
<1>4. pool # 0 => cpc # "allocator" /\ pool \in Living /\ pool \in PoolIds /\ pool \in 1 .. pools
  BY <1>1, PoolFacts DEF ExecutorInv
<1> QED BY <1>1, <1>2, <1>3, <1>4 DEF ExecutorInv

LEMMA FrameTaken ==
  ASSUME PoolInv, GetBuffer PROVE PoolInv'
<1>1. UNCHANGED <<allocatorVars, poolVars, discards, codec, cpc, historyVars>>
  BY DEF GetBuffer
<1>2. /\ pool' = pool /\ pools' = pools /\ size' = size /\ discards' = discards /\ cpc' = cpc
      /\ final' = final
  BY <1>1 DEF poolVars
<1>3. BuffersInv
  BY DEF PoolInv
<1>4. CASE \E i \in Indices : GetIdle(i)
  <2>1. PICK i \in Indices : GetIdle(i)
    BY <1>4
  <2>2. /\ pool # 0 /\ cpc = "open" /\ i \in Idle(pool) /\ made' = made /\ used' = used
        /\ holders' = [holders EXCEPT ![pool] = [holders[pool] EXCEPT ![i] = {"executor"}]]
    BY <2>1 DEF GetIdle
  <2>3. holders' \in [PoolIds -> [Indices -> SUBSET Users]]
    BY <2>2, SurfaceFacts DEF Users
  <2>4. ASSUME NEW p \in Living, p # pool PROVE Held(p)' # {}
    <3>1. holders'[p] = holders[p] /\ made'[p] = made[p]
      BY <2>2, <2>4, SurfaceFacts, PoolFacts
    <3> QED BY <2>4, <3>1, SurfaceFacts DEF Held
  <2>5. BuffersInv'
    BY <1>2, <1>3, <2>2 DEF BuffersInv
  <2>6. /\ made' \in [PoolIds -> SUBSET Indices] /\ used' \in [PoolIds -> Nat]
        /\ discards' \in [PoolIds -> 0 .. MaxDiscards]
        /\ \A p \in PoolIds : p \in final \/ p > pools => made'[p] = {}
    BY <1>2, <2>2, SurfaceFacts
  <2>7. /\ cpc' = "open" /\ cpc = "open"
    BY <1>2, <2>2
  <2> HIDE DEF PoolInv
  <2> QED BY <1>1, <2>3, <2>4, <2>5, <2>6, <2>7, PoolQuietStep
<1>5. CASE GetNew
  <2> DEFINE n == used[pool] + 1
  <2>1. /\ pool # 0 /\ cpc = "open" /\ MayGrow(pool)
        /\ used' = [used EXCEPT ![pool] = used[pool] + 1]
        /\ made' = [made EXCEPT ![pool] = made[pool] \cup {used'[pool]}]
        /\ holders' = [holders EXCEPT ![pool] =
                         [holders[pool] EXCEPT ![used'[pool]] = {"executor"}]]
    BY <1>5 DEF GetNew
  <2>2. pool \in PoolIds /\ pool \in 1 .. pools /\ pool \in Living /\ used[pool] \in Nat
    BY <2>1, SurfaceFacts
  <2>3. used'[pool] = n /\ used' \in [PoolIds -> Nat]
        /\ \A p \in PoolIds \ {pool} : used'[p] = used[p]
    BY <2>1, <2>2, SurfaceFacts
  <2>4. /\ made[pool] \in SUBSET Indices /\ IsFiniteSet(Indices)
        /\ made[pool] \subseteq 1 .. used[pool]
    <3>1. IsFiniteSet(Indices)
      BY FS_Interval, PoolBounds, AllocatorBounds DEF Indices
    <3> QED BY <1>3, <2>2, <3>1, SurfaceFacts DEF BuffersInv
  <2>5. /\ Cardinality(made[pool]) \in Nat /\ Cardinality(made[pool]) < size[pool]
        /\ used[pool] <= Cardinality(made[pool]) + discards[pool]
        /\ size[pool] \in 0 .. MaxFrames /\ discards[pool] \in 0 .. MaxDiscards
    <3>1. IsFiniteSet(made[pool])
      BY <2>4, FS_Subset
    <3>2. Cardinality(made[pool]) \in Nat
      BY <3>1, FS_CardinalityType
    <3> QED BY <1>3, <2>1, <2>2, <3>2, SurfaceFacts DEF BuffersInv, MayGrow
  <2>6. n \in Indices /\ n <= size[pool] + discards[pool]
    BY <2>2, <2>5, AllocatorBounds, PoolBounds DEF Indices
  <2>7. /\ made' = [made EXCEPT ![pool] = made[pool] \cup {n}]
        /\ holders' = [holders EXCEPT ![pool] = [holders[pool] EXCEPT ![n] = {"executor"}]]
    BY <2>1, <2>3
  <2>8. n \notin made[pool]
    BY <2>2, <2>4
  <2> HIDE DEF n
  <2>9. /\ made' \in [PoolIds -> SUBSET Indices] /\ made'[pool] = made[pool] \cup {n}
        /\ holders' \in [PoolIds -> [Indices -> SUBSET Users]]
        /\ \A p \in PoolIds \ {pool} : made'[p] = made[p] /\ holders'[p] = holders[p]
    BY <2>2, <2>4, <2>6, <2>7, SurfaceFacts DEF Users
  <2>10. ASSUME NEW p \in Living, p # pool PROVE Held(p)' # {}
    <3>1. holders'[p] = holders[p] /\ made'[p] = made[p]
      BY <2>9, <2>10, PoolFacts
    <3> QED BY <2>10, <3>1, SurfaceFacts DEF Held
  <2>11. BuffersInv'
    <3>1. ASSUME NEW p \in 1 .. pools
          PROVE used'[p] <= size[p] + discards[p] /\ made'[p] \subseteq 1 .. used'[p]
      <4>1. CASE p = pool
        <5>1. made[pool] \cup {n} \subseteq 1 .. n
          BY <2>2, <2>4 DEF n
        <5> QED BY <2>3, <2>6, <2>9, <4>1, <5>1
      <4>2. CASE p # pool
        <5>1. p \in PoolIds
          BY PoolFacts
        <5> QED BY <1>3, <2>3, <2>9, <4>2, <5>1 DEF BuffersInv
      <4> QED BY <4>1, <4>2
    <3>2. Cardinality(made[pool] \cup {n}) = Cardinality(made[pool]) + 1
      BY <2>4, <2>6, <2>8, CountOf
    <3>3. used'[pool] = used[pool] + 1
      BY <2>3 DEF n
    <3>4. used'[pool] <= Cardinality(made'[pool]) + discards[pool]
      BY <2>2, <2>5, <2>9, <3>2, <3>3
    <3> QED BY <1>2, <3>1, <3>4 DEF BuffersInv
  <2>12. /\ discards' \in [PoolIds -> 0 .. MaxDiscards] /\ cpc' = "open" /\ cpc = "open"
         /\ \A p \in PoolIds : p \in final \/ p > pools => made'[p] = {}
    <3>1. ASSUME NEW p \in PoolIds, p \in final \/ p > pools PROVE made'[p] = {}
      <4>1. p # pool
        BY <2>2, <3>1, PoolFacts
      <4> QED BY <2>9, <3>1, <4>1, SurfaceFacts
    <3> QED BY <1>2, <2>1, <3>1, SurfaceFacts
  <2> HIDE DEF PoolInv
  <2> QED BY <1>1, <2>3, <2>9, <2>10, <2>11, <2>12, PoolQuietStep
<1> QED BY <1>4, <1>5 DEF GetBuffer

LEMMA FramePushed ==
  ASSUME PoolInv, NEW p \in PoolIds, NEW i \in Indices, Push(p, i) PROVE PoolInv'
<1>1. /\ UNCHANGED <<allocatorVars, poolVars, codec, historyVars>>
      /\ cpc = "open" /\ cpc' = "open" /\ made' = made /\ used' = used /\ discards' = discards
      /\ holders[p][i] = {"executor"}
      /\ holders' = [holders EXCEPT ![p] = [holders[p] EXCEPT ![i] = Users]]
  BY DEF Push
<1>2. pool' = pool /\ pools' = pools /\ size' = size
  BY <1>1 DEF poolVars
<1>3. holders' \in [PoolIds -> [Indices -> SUBSET Users]]
  BY <1>1, SurfaceFacts
<1>4. \A q \in PoolIds, j \in Indices : holders[q][j] # {} => holders'[q][j] # {}
  BY <1>1, SurfaceFacts DEF Users
<1>5. ASSUME NEW q \in Living, q # pool PROVE Held(q)' # {}
  <2>1. q \in PoolIds /\ Held(q) # {} /\ made[q] \subseteq Indices
    BY <1>5, SurfaceFacts, PoolFacts
  <2> QED BY <1>1, <1>4, <2>1 DEF Held
<1>6. BuffersInv'
  BY <1>1, <1>2 DEF BuffersInv, PoolInv
<1>7. /\ made' \in [PoolIds -> SUBSET Indices] /\ used' \in [PoolIds -> Nat]
      /\ discards' \in [PoolIds -> 0 .. MaxDiscards]
      /\ \A q \in PoolIds : q \in final \/ q > pools => made'[q] = {}
  BY <1>1, SurfaceFacts
<1> HIDE DEF PoolInv
<1> QED BY <1>1, <1>3, <1>5, <1>6, <1>7, PoolQuietStep

LEMMA FrameDiscarded ==
  ASSUME PoolInv, NEW p \in PoolIds, NEW i \in Indices, Discard(p, i) PROVE PoolInv'
<1>1. /\ UNCHANGED <<allocatorVars, poolVars, codec, historyVars>>
      /\ active[p] /\ discards[p] < MaxDiscards /\ cpc' = cpc /\ used' = used /\ i \in made[p]
      /\ holders' = [holders EXCEPT ![p] = [holders[p] EXCEPT ![i] = {}]]
      /\ made' = [made EXCEPT ![p] = made[p] \ {i}]
      /\ discards' = [discards EXCEPT ![p] = discards[p] + 1]
  BY DEF Discard
<1>2. pool' = pool /\ pools' = pools /\ size' = size
  BY <1>1 DEF poolVars
<1>3. p = pool /\ pool # 0 /\ p \in 1 .. pools /\ MaxDiscards \in Nat
  BY <1>1, SurfaceFacts, PoolBounds DEF PoolIds
<1>4. /\ holders' \in [PoolIds -> [Indices -> SUBSET Users]]
      /\ made' \in [PoolIds -> SUBSET Indices] /\ made'[p] = made[p] \ {i}
      /\ discards' \in [PoolIds -> 0 .. MaxDiscards] /\ discards'[p] = discards[p] + 1
      /\ \A q \in PoolIds \ {p} : made'[q] = made[q] /\ holders'[q] = holders[q] /\ discards'[q] = discards[q]
      /\ \A q \in PoolIds, j \in Indices : holders'[q][j] \subseteq holders[q][j]
      /\ discards[p] \in Nat
  BY <1>1, <1>3, SurfaceFacts DEF Users
<1>5. ASSUME NEW q \in Living, q # pool PROVE Held(q)' # {}
  <2>1. q \in PoolIds /\ Held(q) # {} /\ q # p
    BY <1>3, <1>5, SurfaceFacts, PoolFacts
  <2> QED BY <1>4, <2>1 DEF Held
<1>6. BuffersInv'
  <2>1. ASSUME NEW q \in 1 .. pools
        PROVE  used[q] <= size[q] + discards'[q] /\ made'[q] \subseteq 1 .. used[q]
    <3>1. /\ q \in PoolIds /\ used[q] <= size[q] + discards[q] /\ made[q] \subseteq 1 .. used[q]
          /\ used[q] \in Nat /\ size[q] \in Nat /\ discards[q] \in Nat
      <4>1. q \in PoolIds
        BY PoolFacts
      <4>2. used[q] \in Nat /\ size[q] \in Nat /\ discards[q] \in Nat
        BY <1>3, <4>1, AllocatorBounds, SurfaceFacts
      <4> QED BY <4>1, <4>2 DEF BuffersInv, PoolInv
    <3>2. CASE q = p
      <4>1. discards'[q] = discards[q] + 1 /\ made'[q] \subseteq made[q]
        BY <1>4, <3>2
      <4> QED BY <3>1, <4>1
    <3>3. CASE q # p
      <4>1. discards'[q] = discards[q] /\ made'[q] = made[q]
        BY <1>4, <3>1, <3>3
      <4> QED BY <3>1, <4>1
    <3> QED BY <3>2, <3>3
  <2>2. used[p] <= Cardinality(made'[p]) + discards'[p]
    <3>1. IsFiniteSet(Indices) /\ made[p] \in SUBSET Indices
      <4>1. IsFiniteSet(Indices)
        BY FS_Interval, PoolBounds, AllocatorBounds DEF Indices
      <4> QED BY <4>1, SurfaceFacts
    <3>2. Cardinality(made[p]) \in Nat /\ Cardinality(made'[p]) = Cardinality(made[p]) - 1
      BY <1>1, <1>4, <3>1, CountOf
    <3>3. used[p] \in Nat /\ used[p] <= Cardinality(made[p]) + discards[p]
      BY <1>3, SurfaceFacts DEF BuffersInv, PoolInv
    <3> QED BY <1>4, <3>2, <3>3
  <2> QED BY <1>1, <1>2, <1>3, <2>1, <2>2 DEF BuffersInv
<1>7. /\ used' \in [PoolIds -> Nat]
      /\ cpc' \in {"none", "open", "codec", "locked", "pool", "allocator"}
      /\ (cpc # "none" <=> cpc' # "none") /\ (pool # 0 => cpc' # "allocator")
      /\ \A t \in Tickets : codec[t] # NoResponse => cpc' \in {"open", "codec"}
  BY <1>1, SurfaceFacts
<1>8. ASSUME cpc' \in {"pool", "allocator", "none"}, NEW q \in PoolIds, NEW j \in Indices
      PROVE  "executor" \notin holders'[q][j]
  BY <1>1, <1>4, <1>8, SurfaceFacts
<1>9. ASSUME NEW q \in PoolIds, q \in final \/ q > pools PROVE made'[q] = {}
  <2>1. made[q] = {} /\ made'[q] \subseteq made[q]
    BY <1>4, <1>9, SurfaceFacts
  <2> QED BY <2>1
<1> HIDE DEF PoolInv
<1> QED BY <1>1, <1>4, <1>5, <1>6, <1>7, <1>8, <1>9, PoolQuietStep
-----------------------------------------------------------------------------
(* The codec's requests.                                                   *)


LEMMA CodecAllocated ==
  ASSUME PoolInv, NEW q \in CodecRequests, NEW t \in Tickets, CodecAllocs(q, t)
  PROVE  PoolInv'
<1>1. /\ cpc = "open" /\ pool # 0 /\ codec[t] = NoResponse
      /\ UNCHANGED <<poolVars, bufferVars, cpc, historyVars>>
  BY DEF CodecAllocs
<1>2. PICK r \in Responses \cup {NoResponse} :
        AllocFrames(q, r) /\ codec' = [codec EXCEPT ![t] = r]
  BY DEF CodecAllocs
<1>3. /\ PoolTypeOK /\ AllocatorTypeOK /\ AllocatorInv /\ ExecutorInv /\ BuffersInv
      /\ lateFree \subseteq kept /\ allocator /\ q \in Requests
  BY <1>1 DEF PoolInv, PoolTypeOK, ExecutorInv, CodecRequests
<1>4. (r = NoResponse /\ UNCHANGED allocatorVars) \/ Given(r)
  BY <1>2, <1>3, AllocStep
<1>5. /\ codec \in [Tickets -> Responses \cup {NoResponse}]
      /\ codec' \in [Tickets -> Responses \cup {NoResponse}] /\ codec'[t] = r
      /\ \A u \in Tickets \ {t} : codec'[u] = codec[u]
  BY <1>2, <1>3 DEF PoolTypeOK
<1>6. CASE r = NoResponse /\ UNCHANGED allocatorVars
  <2>1. codec' = codec
    BY <1>1, <1>2, <1>3, <1>6 DEF PoolTypeOK
  <2>2. UNCHANGED framePoolVars
    BY <1>1, <1>6, <2>1 DEF framePoolVars
  <2> QED BY <2>2, PoolIdle
<1>7. CASE Given(r)
  <2>1. /\ origin' = origin /\ pool' = pool /\ pools' = pools /\ size' = size
        /\ response' = response /\ active' = active /\ final' = final /\ life' = life
        /\ bases' = bases /\ kept' = kept /\ lateFree' = lateFree /\ cpc' = cpc
        /\ made' = made /\ used' = used /\ holders' = holders /\ discards' = discards
    BY <1>1 DEF poolVars, historyVars, bufferVars
  <2>2. /\ AllocatorTypeOK' /\ AllocatorInv' /\ allocator' = allocator
        /\ r \in Responses /\ r.id \in 1 .. allocs' /\ allocs <= allocs'
        /\ surfaces' = surfaces \cup {r.id} /\ (r.id \in surfaces \/ r.id = allocs + 1)
        /\ \A s : Listed(s) => Listed(s)'
        /\ Listed(r)'
    BY <1>7 DEF Given
  <2>3. PoolTypeOK'
    BY <1>3, <1>5, <2>1, <2>2
    DEF PoolTypeOK, PoolIds, Indices, Users, Tickets, Responses, Allocations, NoResponse
  <2>4. OwnersInv'
    <3>1. \A a : PoolOwners(a)' = PoolOwners(a)
      BY <2>1 DEF PoolOwners
    <3>2. r.id # 0 /\ NoResponse.id = 0
      BY <1>3, <2>2 DEF NoResponse, Responses, Allocations
    <3>3. /\ t \notin CodecOwners(r.id) /\ CodecOwners(r.id)' = CodecOwners(r.id) \cup {t}
          /\ \A a \in Allocations \ {r.id} : CodecOwners(a)' = CodecOwners(a)
      <4>1. \A a \in Allocations \ {r.id} : t \notin CodecOwners(a) /\ r.id # a
        BY <1>1, <3>2 DEF CodecOwners, Allocations
      <4> QED BY <1>1, <1>5, <3>2, <4>1 DEF CodecOwners
    <3>4. Owners(r.id)' = Owners(r.id) + 1
      BY <1>3, <3>1, <3>3, OneTicketMore
    <3>5. \A a \in Allocations \ {r.id} : Owners(a)' = Owners(a)
      BY <3>1, <3>3, SameOwners
    <3> QED BY <1>7, <3>4, <3>5, GivenOwners
  <2>5. Living' = Living /\ \A p : Current(p)' <=> Current(p)
    BY <2>1, <2>2 DEF Living, Current
  <2>6. ExecutorInv'
    <3>1. (allocator' <=> cpc' # "none") /\ (cpc' # "none" => bases' >= 1)
      BY <1>3, <2>1, <2>2 DEF ExecutorInv
    <3>2. pool' # 0 => pool' \in Living' /\ Current(pool)' /\ cpc' # "allocator"
      BY <1>3, <2>1, <2>5 DEF ExecutorInv
    <3>3. /\ \A p \in PoolIds : active'[p] <=> p = pool'
          /\ \A p \in 1 .. pools' : life'[p] \in 1 .. bases'
          /\ \A p \in PoolIds : p \in final' \/ p > pools' => made'[p] = {}
          /\ cpc' \in {"pool", "allocator", "none"} =>
               \A p \in PoolIds, i \in Indices : "executor" \notin holders'[p][i]
      BY <1>3, <2>1 DEF ExecutorInv
    <3>4. ASSUME NEW u \in Tickets, codec'[u] # NoResponse
          PROVE  Listed(codec[u])' /\ cpc' \in {"open", "codec"}
      <4>1. CASE u = t
        <5>1. codec'[u] = r
          BY <1>5, <4>1
        <5> QED BY <1>1, <2>1, <2>2, <5>1 DEF Listed
      <4>2. CASE u # t
        <5>1. codec'[u] = codec[u]
          BY <1>5, <4>2
        <5>2. Listed(codec[u])
          BY <1>3, <3>4, <5>1 DEF ExecutorInv
        <5>3. ASSUME NEW s, s = codec[u] PROVE Listed(s)'
          BY <2>2, <5>2, <5>3
        <5> QED BY <1>1, <2>1, <5>1, <5>3 DEF Listed
      <4> QED BY <4>1, <4>2
    <3>5. \A u \in Tickets : codec'[u] # NoResponse => Listed(codec[u])' /\ cpc' \in {"open", "codec"}
      BY <3>4
    <3> QED BY <3>1, <3>2, <3>3, <3>5 DEF ExecutorInv, PoolIds, Indices, Tickets, NoResponse
  <2>7. BuffersInv'
    BY <1>3, <2>1 DEF BuffersInv
  <2>8. ASSUME NEW p \in Living' PROVE OnePool(p)'
    <3>1. p \in Living /\ p \in PoolIds /\ OnePool(p)
      BY <2>5, PoolFacts
    <3>2. Current(p)' <=> Current(p)
      BY <2>5
    <3>3. ASSUME Current(p) PROVE Listed(response[p])'
      <4>1. Listed(response[p])
        BY <3>1, <3>3 DEF OnePool
      <4>2. ASSUME NEW s, s = response[p] PROVE Listed(s)'
        BY <2>2, <4>1, <4>2
      <4> QED BY <2>1, <4>2 DEF Listed
    <3>4. response[p] \in Responses /\ response[p].id \in 1 .. allocs
      BY <3>1 DEF OnePool
    <3>5. ~Current(p) => response[p].id \notin surfaces' /\ p \in kept
      BY <2>2, <3>1, <3>4, PoolFacts DEF OnePool
    <3>6. response[p].id \in 1 .. allocs'
      BY <2>2, <2>3, <3>4, PoolFacts DEF PoolTypeOK, AllocatorTypeOK
    <3>7. p # pool' => Held(p)' # {}
      BY <2>1, <3>1 DEF OnePool, Held
    <3> QED BY <2>1, <3>2, <3>3, <3>4, <3>5, <3>6, <3>7 DEF OnePool, Responses, Allocations
  <2> QED BY <1>3, <2>1, <2>2, <2>3, <2>4, <2>6, <2>7, <2>8 DEF PoolInv
<1> QED BY <1>4, <1>6, <1>7

LEMMA CodecFreed ==
  ASSUME PoolInv, NEW t \in Tickets, CodecFrees(t) PROVE PoolInv'
<1> PICK R : R = codec[t]
  OBVIOUS
<1>1. /\ cpc \in {"open", "codec"} /\ R # NoResponse /\ FreeFrames(R)
      /\ codec' = [codec EXCEPT ![t] = NoResponse]
      /\ UNCHANGED <<poolVars, bufferVars, cpc, historyVars>>
  BY DEF CodecFrees
<1>2. /\ PoolTypeOK /\ AllocatorTypeOK /\ AllocatorInv /\ ExecutorInv /\ BuffersInv
      /\ lateFree \subseteq kept
  BY DEF PoolInv, PoolTypeOK
<1>3. /\ codec \in [Tickets -> Responses \cup {NoResponse}]
      /\ codec' \in [Tickets -> Responses \cup {NoResponse}] /\ codec'[t] = NoResponse
      /\ \A u \in Tickets \ {t} : codec'[u] = codec[u]
  BY <1>1, <1>2 DEF PoolTypeOK
<1>4. R \in Responses /\ Listed(R) /\ allocator
  BY <1>1, <1>2, <1>3 DEF ExecutorInv
<1>5. GivenBack(R)
  BY <1>1, <1>2, <1>4, FreeStep
<1>6. /\ origin' = origin /\ pool' = pool /\ pools' = pools /\ size' = size
      /\ response' = response /\ active' = active /\ final' = final /\ life' = life
      /\ bases' = bases /\ kept' = kept /\ lateFree' = lateFree /\ cpc' = cpc
      /\ made' = made /\ used' = used /\ holders' = holders /\ discards' = discards
  BY <1>1 DEF poolVars, historyVars, bufferVars
<1>7. /\ AllocatorTypeOK' /\ AllocatorInv' /\ allocator' = allocator /\ allocs' = allocs
      /\ surfaces' \subseteq surfaces
  BY <1>5 DEF GivenBack
<1>8. PoolTypeOK'
  BY <1>2, <1>3, <1>6, <1>7
  DEF PoolTypeOK, PoolIds, Indices, Users, Tickets, Responses, Allocations, NoResponse
<1>9. /\ t \in CodecOwners(R.id) /\ R.id # 0 /\ NoResponse.id = 0
      /\ \A a : PoolOwners(a)' = PoolOwners(a)
  BY <1>4, <1>6 DEF CodecOwners, PoolOwners, NoResponse, Responses, Allocations
<1>10. OwnersInv'
  <2>1. CodecOwners(R.id)' = CodecOwners(R.id) \ {t}
    BY <1>3, <1>9 DEF CodecOwners
  <2>2. \A a \in Allocations \ {R.id} : CodecOwners(a)' = CodecOwners(a)
    <3>1. \A a \in Allocations \ {R.id} : a # 0 /\ t \notin CodecOwners(a)
      BY DEF CodecOwners, Allocations
    <3> QED BY <1>3, <1>9, <3>1 DEF CodecOwners
  <2>3. Owners(R.id)' = Owners(R.id) - 1
    BY <1>2, <1>9, <2>1, OneTicketLess
  <2>4. \A a \in Allocations \ {R.id} : Owners(a)' = Owners(a)
    BY <1>9, <2>2, SameOwners
  <2> QED BY <1>5, <2>3, <2>4, BackOwners
<1>11. \A s : Listed(s) /\ (s.id = R.id => Owners(R.id) # 1) => Listed(s)'
  BY <1>5, OthersListed
<1>12. Living' = Living /\ \A p : Current(p)' <=> Current(p)
  BY <1>6, <1>7 DEF Living, Current
<1>13. ExecutorInv'
  <2>1. (allocator' <=> cpc' # "none") /\ (cpc' # "none" => bases' >= 1)
    BY <1>2, <1>6, <1>7 DEF ExecutorInv
  <2>2. pool' # 0 => pool' \in Living' /\ Current(pool)' /\ cpc' # "allocator"
    BY <1>2, <1>6, <1>12 DEF ExecutorInv
  <2>3. /\ \A p \in PoolIds : active'[p] <=> p = pool'
        /\ \A p \in 1 .. pools' : life'[p] \in 1 .. bases'
        /\ \A p \in PoolIds : p \in final' \/ p > pools' => made'[p] = {}
        /\ cpc' \in {"pool", "allocator", "none"} =>
             \A p \in PoolIds, i \in Indices : "executor" \notin holders'[p][i]
    BY <1>2, <1>6 DEF ExecutorInv
  <2>4. ASSUME NEW u \in Tickets, codec'[u] # NoResponse
        PROVE  Listed(codec[u])' /\ cpc' \in {"open", "codec"}
    <3>1. u # t /\ codec'[u] = codec[u]
      BY <1>3, <2>4
    <3>2. Listed(codec[u])
      BY <1>2, <2>4, <3>1 DEF ExecutorInv
    <3>3. codec[u].id = R.id => Owners(R.id) # 1
      <4> SUFFICES ASSUME codec[u].id = R.id, Owners(R.id) = 1 PROVE FALSE
        OBVIOUS
      <4>1. u \in CodecOwners(R.id)
        BY DEF CodecOwners
      <4>2. CodecOwners(R.id) = {t}
        BY <1>2, <1>9, OwnersFacts
      <4> QED BY <3>1, <4>1, <4>2
    <3>4. ASSUME NEW s, s = codec[u] PROVE Listed(s)'
      BY <1>11, <3>2, <3>3, <3>4
    <3> QED BY <1>1, <1>6, <3>1, <3>4 DEF Listed
  <2>5. \A u \in Tickets : codec'[u] # NoResponse => Listed(codec[u])' /\ cpc' \in {"open", "codec"}
    BY <2>4
  <2> QED BY <2>1, <2>2, <2>3, <2>5 DEF ExecutorInv, PoolIds, Indices, Tickets, NoResponse
<1>14. BuffersInv'
  BY <1>2, <1>6 DEF BuffersInv
<1>15. ASSUME NEW p \in Living' PROVE OnePool(p)'
  <2>1. p \in Living /\ p \in PoolIds /\ OnePool(p) /\ p \in 1 .. pools /\ p \notin final
    BY <1>12, PoolFacts
  <2>2. Current(p)' <=> Current(p)
    BY <1>12
  <2>3. ASSUME Current(p) PROVE Listed(response[p])'
    <3>1. Listed(response[p])
      BY <2>1, <2>3 DEF OnePool
    <3>2. response[p].id = R.id => Owners(R.id) # 1
      <4> SUFFICES ASSUME response[p].id = R.id, Owners(R.id) = 1 PROVE FALSE
        OBVIOUS
      <4>1. p \in PoolOwners(R.id)
        BY <2>1 DEF PoolOwners
      <4>2. PoolOwners(R.id) = {}
        BY <1>2, <1>9, OwnersFacts
      <4> QED BY <4>1, <4>2
    <3>3. ASSUME NEW s, s = response[p] PROVE Listed(s)'
      BY <1>11, <3>1, <3>2, <3>3
    <3> QED BY <1>6, <3>3 DEF Listed
  <2>4. response[p] \in Responses /\ response[p].id \in 1 .. allocs
    BY <2>1 DEF OnePool
  <2>5. ~Current(p) => response[p].id \notin surfaces' /\ p \in kept
    BY <1>7, <2>1 DEF OnePool
  <2>6. p # pool' => Held(p)' # {}
    BY <1>6, <2>1 DEF OnePool, Held
  <2> QED BY <1>6, <1>7, <2>2, <2>3, <2>4, <2>5, <2>6 DEF OnePool, Responses, Allocations
<1> QED BY <1>2, <1>6, <1>7, <1>8, <1>10, <1>13, <1>14, <1>15 DEF PoolInv
-----------------------------------------------------------------------------
(* The allocator's life, and a new pool.                                   *)

LEMMA BaseInitialised ==
  ASSUME PoolInv, InitBase PROVE PoolInv'
<1>1. /\ cpc = "none" /\ bases < MaxBases /\ ~allocator /\ allocator' = TRUE
      /\ responses' = {} /\ extResponses' = {} /\ surfaces' = surfaces
      /\ allocs' = allocs /\ releases' = releases /\ cpc' = "open" /\ bases' = bases + 1
      /\ UNCHANGED <<poolVars, bufferVars, codec, kept, lateFree>>
  BY DEF InitBase, New
<1>2. /\ origin' = origin /\ pool' = pool /\ pools' = pools /\ size' = size
      /\ response' = response /\ active' = active /\ final' = final /\ life' = life
      /\ kept' = kept /\ lateFree' = lateFree /\ codec' = codec
      /\ made' = made /\ used' = used /\ holders' = holders /\ discards' = discards
  BY <1>1 DEF poolVars, bufferVars
<1>3. PoolTypeOK /\ AllocatorTypeOK /\ AllocatorInv /\ ExecutorInv /\ BuffersInv /\ lateFree \subseteq kept
  BY DEF PoolInv, PoolTypeOK
<1>4. /\ bases \in Nat /\ MaxBases \in Nat /\ bases' \in 0 .. MaxBases
  BY <1>1, PoolFacts
<1>5. AllocatorTypeOK'
  BY <1>1, <1>3 DEF AllocatorTypeOK, Allocations
<1>6. AllocatorInv'
  <2>1. responses = {} /\ extResponses = {}
    BY <1>1, <1>3 DEF AllocatorInv
  <2>2. ListedIds' = ListedIds
    BY <1>1, <2>1 DEF ListedIds
  <2> QED BY <1>1, <1>3, <2>2 DEF AllocatorInv, Allocations
<1>7. PoolTypeOK'
  BY <1>1, <1>2, <1>3, <1>4, <1>5
  DEF PoolTypeOK, PoolIds, Indices, Users, Tickets, Responses, Allocations, NoResponse
<1>8. pool = 0
  BY <1>1, <1>3 DEF ExecutorInv, Current
<1>9. ExecutorInv'
  <2>1. \A t \in Tickets : codec[t] = NoResponse
    BY <1>1, <1>3 DEF ExecutorInv
  <2>2. \A p \in 1 .. pools' : life'[p] \in 1 .. bases'
    <3>1. \A p \in 1 .. pools : life[p] \in 1 .. bases
      BY <1>3 DEF ExecutorInv
    <3> QED BY <1>1, <1>2, <1>4, <3>1
  <2>3. /\ \A p \in PoolIds : active'[p] <=> p = pool'
        /\ \A p \in PoolIds : p \in final' \/ p > pools' => made'[p] = {}
    BY <1>2, <1>3 DEF ExecutorInv
  <2>4. allocator' /\ cpc' = "open" /\ bases' >= 1 /\ pool' = 0
    BY <1>1, <1>2, <1>4, <1>8
  <2>5. \A t \in Tickets : codec'[t] = NoResponse
    BY <1>2, <2>1
  <2> QED BY <2>2, <2>3, <2>4, <2>5 DEF ExecutorInv, PoolIds, Indices, Tickets, NoResponse
<1>10. BuffersInv' /\ OwnersInv'
  BY <1>1, <1>2, <1>3 DEF BuffersInv, OwnersInv
<1>11. ASSUME NEW p \in Living' PROVE OnePool(p)'
  <2>1. p \in Living /\ OnePool(p) /\ p \in 1 .. pools /\ ~Current(p)
    BY <1>1, <1>2, <1>11, PoolFacts DEF Living, Current
  <2>2. ~Current(p)'
    <3>1. life[p] \in 1 .. bases
      BY <1>3, <2>1 DEF ExecutorInv
    <3> QED BY <1>1, <1>2, <1>4, <3>1 DEF Current
  <2>3. Held(p)' = Held(p)
    BY <1>2 DEF Held
  <2> QED BY <1>1, <1>2, <2>1, <2>2, <2>3 DEF OnePool, Responses, Allocations
<1> QED BY <1>2, <1>3, <1>6, <1>7, <1>9, <1>10, <1>11 DEF PoolInv

LEMMA AllocatorDeleted ==
  ASSUME PoolInv, DeleteAllocator PROVE PoolInv'
<1>1. /\ cpc = "allocator" /\ cpc' = "none" /\ allocator /\ allocator' = FALSE
      /\ ReleaseResponse({e.id : e \in extResponses} \cup {r.id : r \in responses})
      /\ responses' = {} /\ extResponses' = {} /\ allocs' = allocs
      /\ kept' = kept \cup {p \in PoolIds : \E i \in Held(p) : "downstream" \in holders[p][i]}
      /\ UNCHANGED <<poolVars, bufferVars, codec, bases, lateFree>>
  BY DEF DeleteAllocator, Delete
<1>2. /\ origin' = origin /\ pool' = pool /\ pools' = pools /\ size' = size
      /\ response' = response /\ active' = active /\ final' = final /\ life' = life
      /\ lateFree' = lateFree /\ codec' = codec /\ bases' = bases
      /\ made' = made /\ used' = used /\ holders' = holders /\ discards' = discards
  BY <1>1 DEF poolVars, bufferVars
<1>3. PoolTypeOK /\ AllocatorTypeOK /\ AllocatorInv /\ ExecutorInv /\ BuffersInv /\ lateFree \subseteq kept
  BY DEF PoolInv, PoolTypeOK
<1>4. /\ surfaces' = {}
      /\ releases' = [a \in Allocations |-> IF a \in surfaces THEN releases[a] + 1 ELSE releases[a]]
  BY <1>1, <1>3 DEF ReleaseResponse, AllocatorInv, ListedIds
<1>5. AllocatorTypeOK'
  <2>1. releases' \in [Allocations -> Nat]
    BY <1>3, <1>4 DEF AllocatorTypeOK
  <2> QED BY <1>1, <1>3, <1>4, <2>1 DEF AllocatorTypeOK, Allocations
<1>6. AllocatorInv'
  <2>1. ListedIds' = {}
    BY <1>1 DEF ListedIds
  <2>2. \A a \in Allocations : releases'[a] = IF a \in 1 .. allocs' /\ a \notin surfaces' THEN 1 ELSE 0
    <3> TAKE a \in Allocations
    <3>1. releases[a] = IF a \in 1 .. allocs /\ a \notin surfaces THEN 1 ELSE 0
      BY <1>3 DEF AllocatorInv
    <3>2. a \in surfaces => a \in 1 .. allocs
      BY <1>3 DEF AllocatorInv
    <3> QED BY <1>1, <1>4, <3>1, <3>2
  <2>3. /\ \A x \in extResponses', y \in extResponses' : x.id = y.id => x = y
        /\ \A x \in responses', y \in responses' : x.id = y.id => x = y
        /\ \A x \in extResponses', y \in responses' : x.id # y.id
        /\ responses' = {} /\ extResponses' = {}
    BY <1>1
  <2> QED BY <1>4, <2>1, <2>2, <2>3 DEF AllocatorInv, Allocations
<1>7. kept' \subseteq PoolIds /\ kept \subseteq kept'
  BY <1>1, <1>3 DEF PoolTypeOK
<1>8. PoolTypeOK'
  BY <1>1, <1>2, <1>3, <1>5, <1>7
  DEF PoolTypeOK, PoolIds, Indices, Users, Tickets, Responses, Allocations, NoResponse
<1>9. /\ \A p \in PoolIds, i \in Indices : "executor" \notin holders[p][i]
      /\ pool = 0 /\ \A t \in Tickets : codec[t] = NoResponse
  BY <1>1, <1>3 DEF ExecutorInv
<1>10. ExecutorInv'
  <2>1. /\ \A p \in PoolIds : active'[p] <=> p = pool'
        /\ \A p \in PoolIds : p \in final' \/ p > pools' => made'[p] = {}
        /\ \A p \in 1 .. pools' : life'[p] \in 1 .. bases'
    BY <1>2, <1>3 DEF ExecutorInv
  <2>2. ~allocator' /\ cpc' = "none" /\ pool' = 0
    BY <1>1, <1>2, <1>9
  <2>3. /\ \A t \in Tickets : codec'[t] = NoResponse
        /\ \A p \in PoolIds, i \in Indices : "executor" \notin holders'[p][i]
    BY <1>2, <1>9
  <2> QED BY <2>1, <2>2, <2>3 DEF ExecutorInv, PoolIds, Indices, Tickets, NoResponse
<1>11. BuffersInv' /\ OwnersInv'
  BY <1>1, <1>2, <1>3 DEF BuffersInv, OwnersInv
<1>12. ASSUME NEW p \in Living' PROVE OnePool(p)'
  <2>1. p \in Living /\ OnePool(p) /\ p \in PoolIds /\ p \in 1 .. pools
    BY <1>2, <1>12, PoolFacts DEF Living
  <2>2. ~Current(p)'
    BY <1>1 DEF Current
  <2>3. Held(p)' = Held(p)
    BY <1>2 DEF Held
  <2>4. Held(p) # {}
    BY <1>9, <2>1 DEF OnePool
  <2>5. p \in kept'
    <3>1. PICK i \in made[p] : holders[p][i] # {}
      BY <2>4 DEF Held
    <3>2. i \in Indices /\ holders[p][i] \subseteq Users
      BY <2>1, <3>1, SurfaceFacts
    <3>3. "downstream" \in holders[p][i]
      BY <1>9, <2>1, <3>1, <3>2 DEF Users
    <3> QED BY <1>1, <2>1, <3>1, <3>3 DEF Held
  <2> QED BY <1>1, <1>2, <1>4, <2>1, <2>2, <2>3, <2>4, <2>5 DEF OnePool, Responses, Allocations
<1> QED BY <1>2, <1>3, <1>6, <1>7, <1>8, <1>10, <1>11, <1>12 DEF PoolInv

LEMMA PoolInitialised ==
  ASSUME PoolInv, NEW n \in 0 .. MaxFrames, NEW k \in Keys, InitPool(n, k) PROVE PoolInv'
<1> DEFINE m == Suggested(n)
           q == [from |-> origin, key |-> k, n |-> m]
<1> PICK p : p = pools + 1
  OBVIOUS
<1>1. /\ cpc = "open" /\ pool = 0 /\ pools < MaxPools
      /\ UNCHANGED <<holders, discards, codec, cpc, historyVars>>
  BY DEF InitPool
<1>2. PICK r \in Responses \cup {NoResponse} :
       /\ AllocFrames(q, r)
       /\ IF r = NoResponse THEN UNCHANGED <<poolVars, made, used>>
          ELSE /\ pools' = p /\ pool' = p
               /\ size' = [size EXCEPT ![p] = m]
               /\ response' = [response EXCEPT ![p] = r]
               /\ Activate(p, m)
               /\ life' = [life EXCEPT ![p] = bases]
               /\ UNCHANGED <<origin, final>>
  BY DEF InitPool
<1>3. /\ PoolTypeOK /\ AllocatorTypeOK /\ AllocatorInv /\ ExecutorInv /\ BuffersInv
      /\ lateFree \subseteq kept /\ allocator
  BY <1>1 DEF PoolInv, PoolTypeOK, ExecutorInv
<1>4. m \in 0 .. MaxFrames /\ MaxFrames \in Nat
  BY AllocatorBounds DEF Suggested
<1> HIDE DEF m
<1>5. q \in Requests
  BY <1>3, <1>4, OriginAssumption DEF Requests, Origins, PoolTypeOK
<1>6. p \in PoolIds /\ p \notin 1 .. pools /\ 1 .. p = (1 .. pools) \cup {p} /\ p # 0 /\ p \notin final
      /\ pools \in Nat
  BY <1>1, PoolFacts DEF PoolIds
<1> HIDE DEF q
<1>7. (r = NoResponse /\ UNCHANGED allocatorVars) \/ Given(r)
  BY <1>2, <1>3, <1>5, AllocStep
<1>8. CASE r = NoResponse
  <2>1. UNCHANGED allocatorVars
    <3>1. ~(Given(r))
      BY <1>8 DEF Given, NoResponse, Responses, Allocations
    <3> QED BY <1>7, <3>1
  <2>2. UNCHANGED framePoolVars
    BY <1>1, <1>2, <1>8, <2>1 DEF framePoolVars, bufferVars
  <2> QED BY <2>2, PoolIdle
<1>9. CASE r # NoResponse
  <2>1. /\ pools' = p /\ pool' = p
        /\ size' = [size EXCEPT ![p] = m] /\ response' = [response EXCEPT ![p] = r]
        /\ active' = [active EXCEPT ![p] = TRUE] /\ made' = [made EXCEPT ![p] = 1 .. m]
        /\ used' = [used EXCEPT ![p] = m] /\ life' = [life EXCEPT ![p] = bases]
        /\ origin' = origin /\ final' = final /\ holders' = holders /\ discards' = discards
        /\ codec' = codec /\ cpc' = cpc /\ bases' = bases /\ kept' = kept /\ lateFree' = lateFree
    BY <1>1, <1>2, <1>9 DEF Activate, historyVars
  <2>2. Given(r)
    BY <1>7, <1>9
  <2>3. /\ AllocatorTypeOK' /\ AllocatorInv' /\ allocator' = allocator
        /\ r \in Responses /\ r.id \in 1 .. allocs' /\ allocs <= allocs'
        /\ surfaces' = surfaces \cup {r.id} /\ (r.id \in surfaces \/ r.id = allocs + 1)
        /\ \A s : Listed(s) => Listed(s)'
        /\ Listed(r)'
    BY <2>2 DEF Given
  <2>4. /\ size' \in [PoolIds -> 0 .. MaxFrames] /\ size'[p] = m
        /\ response' \in [PoolIds -> Responses \cup {NoResponse}] /\ response'[p] = r
        /\ active' \in [PoolIds -> BOOLEAN] /\ active'[p]
        /\ used' \in [PoolIds -> Nat] /\ used'[p] = m
        /\ life' \in [PoolIds -> 0 .. MaxBases] /\ life'[p] = bases
        /\ \A x \in PoolIds \ {p} : /\ size'[x] = size[x] /\ response'[x] = response[x]
                                    /\ active'[x] = active[x] /\ used'[x] = used[x]
                                    /\ life'[x] = life[x]
    <3>1. /\ size \in [PoolIds -> 0 .. MaxFrames] /\ active \in [PoolIds -> BOOLEAN]
          /\ response \in [PoolIds -> Responses \cup {NoResponse}]
          /\ used \in [PoolIds -> Nat] /\ life \in [PoolIds -> 0 .. MaxBases] /\ bases \in 0 .. MaxBases
      BY <1>3 DEF PoolTypeOK
    <3> QED BY <1>4, <1>6, <2>1, <2>3, <3>1
  <2>5. /\ made' \in [PoolIds -> SUBSET Indices] /\ made'[p] = 1 .. m
        /\ \A x \in PoolIds \ {p} : made'[x] = made[x]
    <3>1. 1 .. m \subseteq Indices
      BY <1>4, PoolBounds DEF Indices
    <3> QED BY <1>6, <2>1, <3>1, SurfaceFacts
  <2>6. /\ pools' \in 0 .. MaxPools /\ pool' \in 0 .. pools' /\ final' \subseteq 1 .. pools'
    BY <1>1, <1>6, <2>1, PoolFacts DEF PoolIds
  <2>7. PoolTypeOK'
    BY <1>3, <2>1, <2>3, <2>4, <2>5, <2>6
    DEF PoolTypeOK, PoolIds, Indices, Users, Tickets, Responses, Allocations, NoResponse
  <2>8. Living' = Living \cup {p} /\ p \notin Living
    BY <1>6, <2>1 DEF Living
  <2>9. OwnersInv'
    <3>1. \A a : CodecOwners(a)' = CodecOwners(a)
      BY <2>1 DEF CodecOwners
    <3>2. \A x \in 1 .. pools : x # p /\ x \in PoolIds
      BY <1>6, PoolFacts
    <3>3. \A a : PoolOwners(a) \subseteq 1 .. pools /\ p \notin PoolOwners(a)
      BY <1>6 DEF PoolOwners
    <3>4. /\ PoolOwners(r.id)' = PoolOwners(r.id) \cup {p}
          /\ \A a : a # r.id => PoolOwners(a)' = PoolOwners(a)
      BY <1>6, <2>1, <2>4, <3>2 DEF PoolOwners
    <3>5. Owners(r.id)' = Owners(r.id) + 1
      BY <1>3, <1>6, <3>1, <3>3, <3>4, OnePoolMore
    <3>6. \A a \in Allocations \ {r.id} : Owners(a)' = Owners(a)
      BY <3>1, <3>4, SameOwners
    <3> QED BY <2>2, <3>5, <3>6, GivenOwners
  <2>10. \A x \in 1 .. pools : x # p /\ x \in PoolIds /\ (Current(x)' <=> Current(x))
    <3>1. \A x \in 1 .. pools : x # p /\ x \in PoolIds
      BY <1>6, PoolFacts
    <3> QED BY <2>1, <2>3, <2>4, <3>1 DEF Current
  <2>11. Current(p)'
    BY <1>3, <2>1, <2>3, <2>4 DEF Current
  <2>12. ExecutorInv'
    <3>1. (allocator' <=> cpc' # "none") /\ (cpc' # "none" => bases' >= 1) /\ cpc' = "open"
      BY <1>1, <1>3, <2>1, <2>3 DEF ExecutorInv
    <3>2. pool' \in Living' /\ Current(pool)' /\ cpc' # "allocator"
      <4>1. Current(pool)'
        BY <2>1, <2>11 DEF Current
      <4> QED BY <2>1, <2>8, <3>1, <4>1
    <3>3. \A x \in PoolIds : active'[x] <=> x = pool'
      <4>1. \A x \in PoolIds : ~active[x]
        BY <1>1, <1>3 DEF ExecutorInv, PoolIds
      <4> QED BY <2>1, <2>4, <4>1
    <3>4. \A x \in 1 .. pools' : life'[x] \in 1 .. bases'
      <4>1. bases \in 1 .. bases
        BY <1>1, <1>3, PoolFacts DEF ExecutorInv
      <4>2. \A x \in 1 .. pools : life'[x] \in 1 .. bases
        BY <1>3, <2>4, <2>10 DEF ExecutorInv
      <4> QED BY <1>6, <2>1, <2>4, <4>1, <4>2
    <3>5. \A x \in PoolIds : x \in final' \/ x > pools' => made'[x] = {}
      <4> SUFFICES ASSUME NEW x \in PoolIds, x \in final' \/ x > pools' PROVE made'[x] = {}
        OBVIOUS
      <4>1. x # p /\ (x \in final \/ x > pools)
        BY <1>6, <2>1 DEF PoolIds
      <4> QED BY <2>5, <4>1, SurfaceFacts
    <3>6. ASSUME NEW t \in Tickets, codec'[t] # NoResponse PROVE Listed(codec[t])'
      <4>1. Listed(codec[t])
        BY <1>3, <2>1, <3>6 DEF ExecutorInv
      <4>2. ASSUME NEW s, s = codec[t] PROVE Listed(s)'
        BY <2>3, <4>1, <4>2
      <4> QED BY <2>1, <4>2 DEF Listed
    <3> QED BY <3>1, <3>2, <3>3, <3>4, <3>5, <3>6 DEF ExecutorInv, PoolIds, Indices, Tickets, NoResponse
  <2>13. BuffersInv'
    <3>1. ASSUME NEW x \in 1 .. pools
          PROVE  used'[x] <= size'[x] + discards'[x] /\ made'[x] \subseteq 1 .. used'[x]
      BY <1>3, <2>1, <2>4, <2>5, <2>10 DEF BuffersInv
    <3>2. discards'[p] \in Nat
      BY <1>6, <2>1, SurfaceFacts, PoolBounds
    <3>3. used'[p] <= size'[p] + discards'[p] /\ made'[p] \subseteq 1 .. used'[p]
      BY <1>4, <2>4, <2>5, <3>2
    <3>4. Cardinality(1 .. m) = m
      <4>1. Cardinality(1 .. m) = IF 1 > m THEN 0 ELSE m - 1 + 1
        BY <1>4, FS_Interval
      <4> QED BY <1>4, <4>1
    <3>5. used'[p] <= Cardinality(made'[p]) + discards'[p]
      BY <1>4, <2>4, <2>5, <3>2, <3>4
    <3> QED BY <1>6, <2>1, <3>1, <3>3, <3>5 DEF BuffersInv
  <2>14. ASSUME NEW x \in Living' PROVE OnePool(x)'
    <3>1. CASE x = p
      <4>1. /\ response'[x] = r /\ x = pool' /\ Listed(r)'
        BY <2>1, <2>3, <2>4, <3>1
      <4>2. Listed(response[x])'
        BY <2>3, <2>4, <3>1 DEF Listed
      <4> QED BY <2>3, <2>11, <3>1, <4>1, <4>2 DEF OnePool, Responses, Allocations, Current
    <3>2. CASE x # p
      <4>1. x \in Living /\ x \in PoolIds /\ OnePool(x) /\ x \in 1 .. pools
        BY <2>8, <3>2, PoolFacts
      <4>2. Current(x)' <=> Current(x)
        BY <2>10, <4>1
      <4>3. response'[x] = response[x] /\ made'[x] = made[x]
        BY <2>4, <2>5, <3>2, <4>1
      <4>4. ASSUME Current(x) PROVE Listed(response[x])'
        <5>1. Listed(response[x])
          BY <4>1, <4>4 DEF OnePool
        <5>2. ASSUME NEW s, s = response[x] PROVE Listed(s)'
          BY <2>3, <5>1, <5>2
        <5> QED BY <4>3, <5>2 DEF Listed
      <4>5. response[x] \in Responses /\ response[x].id \in 1 .. allocs
        BY <4>1 DEF OnePool
      <4>6. ~Current(x) => response[x].id \notin surfaces' /\ x \in kept
        BY <2>3, <4>1, <4>5, PoolFacts DEF OnePool
      <4>7. response[x].id \in 1 .. allocs'
        BY <2>3, <4>5, PoolFacts DEF AllocatorTypeOK
      <4>8. Held(x)' # {}
        <5>1. Held(x) # {}
          BY <1>1, <4>1, PoolFacts DEF OnePool
        <5> QED BY <2>1, <4>3, <5>1 DEF Held
      <4> QED BY <2>1, <4>2, <4>3, <4>4, <4>5, <4>6, <4>7, <4>8 DEF OnePool, Responses, Allocations
    <3> QED BY <3>1, <3>2
  <2> QED BY <1>3, <2>1, <2>3, <2>7, <2>9, <2>12, <2>13, <2>14 DEF PoolInv
<1> QED BY <1>8, <1>9
-----------------------------------------------------------------------------
(* The invariant and its theorems.                                         *)

LEMMA PoolsBegin ==
  PoolInit => PoolInv
<1> SUFFICES ASSUME PoolInit PROVE PoolInv
  OBVIOUS
<1>1. AllocatorInit /\ pool = 0 /\ pools = 0 /\ bases = 0 /\ cpc = "none" /\ final = {}
  BY DEF PoolInit
<1>2. AllocatorTypeOK
  <2>1. 0 \in 0 .. MaxAllocs
    BY AllocatorBounds
  <2>2. [a \in Allocations |-> 0] \in [Allocations -> Nat]
    OBVIOUS
  <2> QED BY <1>1, <2>1, <2>2 DEF AllocatorInit, AllocatorTypeOK
<1>3. PoolTypeOK
  <2>1. MaxPools \in Nat /\ MaxBases \in Nat /\ MaxDiscards \in Nat /\ MaxFrames \in Nat
    BY PoolBounds, AllocatorBounds
  <2>2. /\ [p \in PoolIds |-> {}] \in [PoolIds -> SUBSET Indices]
        /\ [p \in PoolIds |-> [i \in Indices |-> {}]] \in [PoolIds -> [Indices -> SUBSET Users]]
    OBVIOUS
  <2> QED BY <1>2, <2>1, <2>2 DEF PoolInit, PoolTypeOK
<1>4. AllocatorInv
  BY <1>1 DEF AllocatorInit, AllocatorInv, ListedIds
<1>5. ExecutorInv
  BY <1>1 DEF PoolInit, AllocatorInit, ExecutorInv, PoolIds
<1>6. BuffersInv /\ OwnersInv /\ Living = {}
  BY <1>1 DEF PoolInit, AllocatorInit, BuffersInv, OwnersInv, Living
<1> QED BY <1>3, <1>4, <1>5, <1>6 DEF PoolInit, PoolInv

LEMMA PoolClosed ==
  ASSUME PoolInv, InitFails \/ ClosePool PROVE PoolInv'
<1>1. CASE InitFails
  <2>1. pool # 0 /\ PoolClose /\ cpc' = cpc /\ UNCHANGED <<used, discards, codec, bases>>
    BY <1>1 DEF InitFails
  <2> QED BY <2>1, PoolCloseStep
<1>2. CASE ClosePool /\ pool # 0
  <2>1. PoolClose /\ cpc = "pool" /\ cpc' = "allocator" /\ UNCHANGED <<used, discards, codec, bases>>
    BY <1>2 DEF ClosePool
  <2> QED BY <1>2, <2>1, PoolCloseStep
<1>3. CASE ClosePool /\ pool = 0
  BY <1>3, PlaceSteps
<1> QED BY <1>1, <1>2, <1>3

LEMMA PoolStep ==
  PoolInv /\ [PoolNext]_framePoolVars => PoolInv'
<1> SUFFICES ASSUME PoolInv, [PoolNext]_framePoolVars PROVE PoolInv'
  OBVIOUS
<1>1. CASE InitBase
  BY <1>1, BaseInitialised
<1>2. CASE BeginDispose \/ CodecGone \/ ClearLocked
  BY <1>2, PlaceSteps
<1>3. CASE InitFails \/ ClosePool
  BY <1>3, PoolClosed
<1>4. CASE DeleteAllocator
  BY <1>4, AllocatorDeleted
<1>5. CASE GetBuffer
  BY <1>5, FrameTaken
<1>6. ASSUME NEW n \in 0 .. MaxFrames, NEW k \in Keys, InitPool(n, k) PROVE PoolInv'
  BY <1>6, PoolInitialised
<1>7. ASSUME NEW p \in PoolIds, NEW i \in Indices,
             Push(p, i) \/ Discard(p, i) \/ ExecutorDrops(p, i) \/ DownstreamDrops(p, i)
      PROVE  PoolInv'
  <2>1. "executor" \in Users /\ "downstream" \in Users
    BY DEF Users
  <2>2. ExecutorDrops(p, i) => LetGo("executor", p, i)
    BY DEF ExecutorDrops
  <2>3. DownstreamDrops(p, i) => LetGo("downstream", p, i)
    BY DEF DownstreamDrops
  <2> QED BY <1>7, <2>1, <2>2, <2>3, FramePushed, FrameDiscarded, PoolDropStep
<1>8. ASSUME NEW t \in Tickets, CodecFrees(t) PROVE PoolInv'
  BY <1>8, CodecFreed
<1>9. ASSUME NEW t \in Tickets, NEW q \in CodecRequests, CodecAllocs(q, t) PROVE PoolInv'
  BY <1>9, CodecAllocated
<1>10. CASE UNCHANGED framePoolVars
  BY <1>10, PoolIdle
<1> QED BY <1>1, <1>2, <1>3, <1>4, <1>5, <1>6, <1>7, <1>8, <1>9, <1>10 DEF PoolNext

\* The inductive invariant of the pools and the allocator holds in every run.
LEMMA PoolInvHolds ==
  PoolSpec => []PoolInv
  BY PoolsBegin, PoolStep, PTL DEF PoolSpec

\* Every response that is shared counts exactly those who are to free it: the pools
\* that were given it and are not finalised, and the codec (numFrameRefs of
\* mfxAllocResponse in vaapi_allocator.cpp).
THEOREM ResponsesCountedCorrect ==
  PoolSpec => []ResponsesCounted
<1>1. PoolInv => ResponsesCounted
  BY DEF PoolInv, OwnersInv, ResponsesCounted
<1> QED BY <1>1, PoolInvHolds, PTL

\* Every buffer that a pool of the present allocator has in circulation has a
\* surface that exists, whoever closed or freed what meanwhile, and the pool reads
\* beyond its mids only after a buffer was thrown away.
THEOREM SurfacesLiveCorrect ==
  PoolSpec => []SurfacesLive
<1>1. PoolInv => SurfacesLive
  <2> SUFFICES ASSUME PoolInv PROVE SurfacesLive
    OBVIOUS
  <2>1. ASSUME allocator, NEW p \in (1 .. pools) \ final, life[p] = bases
        PROVE  response[p].id \in surfaces
    <3>1. Listed(response[p])
      BY <2>1, PoolFacts DEF OnePool, Living, Current
    <3>2. \A e \in extResponses : AsResponse(e).id = e.id
      BY DEF AsResponse
    <3> QED BY <3>1, <3>2 DEF PoolInv, AllocatorInv, ListedIds, Listed
  <2> QED BY <2>1 DEF PoolInv, BuffersInv, SurfacesLive
<1> QED BY <1>1, PoolInvHolds, PTL

\* No surface is destroyed twice or outlives its allocator, and only a pool of
\* which downstream still held a buffer can call Free of a deleted allocator.
THEOREM DestroyedOnceCorrect ==
  PoolSpec => []DestroyedOnce
<1>1. PoolInv => DestroyedOnce
  <2> SUFFICES ASSUME PoolInv PROVE DestroyedOnce
    OBVIOUS
  <2>1. AllocatorInv /\ lateFree \subseteq kept
    BY DEF PoolInv
  <2>2. \A a \in Allocations : releases[a] <= 1
    BY <2>1 DEF AllocatorInv
  <2>3. ~allocator => surfaces = {}
    BY <2>1 DEF AllocatorInv, ListedIds
  <2> QED BY <2>1, <2>2, <2>3 DEF DestroyedOnce
<1> QED BY <1>1, PoolInvHolds, PTL
=============================================================================
