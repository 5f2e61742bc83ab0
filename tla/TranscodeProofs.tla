-------------------------- MODULE TranscodeProofs ---------------------------
(***************************************************************************)
(* Proofs about a decoder linked to an encoder, for every length of the    *)
(* stream, size of the pool and delay of the codecs: Consistent,           *)
(* FreeIsUnlocked and AllFramesCoded.                                      *)
(***************************************************************************)
EXTENDS Transcode, QueueCounts, FiniteSetTheorems

Tasks == [kind : {"release", "sync", "eos"}, arg : Nat]   \* of the encoder's sync thread
IsSync == {t \in Tasks : t.kind = "sync"}
Operation == [t \in Tasks |-> t.arg]

\* How many entries of q are in T, and that f numbers them in order, from base + 1.
Count(q, T) == Num(q, Len(q), T)
InOrder(q, T, f, base) == \A i \in DOMAIN q : q[i] \in T => f[q[i]] = base + Num(q, i, T)

(***************************************************************************)
(* A thread has a surface exactly where its code has one, and the decoder  *)
(* wrote a frame into every surface it passed on.                          *)
(***************************************************************************)
PassedOn ==
  InQueue(shown) \cup {showing} \cup InQueue(taskQ) \cup {frame_ref} \cup delayed
TypeInv ==
  /\ TypeOK
  /\ dpc = "decode" <=> work # None
  /\ ypc # "idle" <=> showing # None
  /\ epc \in {"encode", "release", "release and sync"} <=> frame_ref # None
  /\ \A s \in PassedOn \ {None} : frameOf[s] > 0

\* What a chain call that waits has counted is counted; TakeTask takes it off.
Counted == pending_tasks_num_ >= Count(taskQ, Surfaces) + One(ypc = "chain")

\* The phases of the encoder's Dispose().
PhaseInv ==
  /\ phase \notin {"playing", "flushing"} => ypc # "chain"
  /\ phase \in {"joinSync", "free", "null"} => epc = "idle" /\ taskQ = <<>>
  /\ phase \in {"free", "null"} => zpc = "idle" /\ syncQ = <<>>
  /\ phase = "null" => input_locked_frames_ = {}

(***************************************************************************)
(* Who holds a surface.  The work surface is nobody else's, and while the  *)
(* encoder plays it keeps what it has locked, and takes over the decoder's *)
(* references before the decoder's sync thread lets go of them.            *)
(***************************************************************************)
Releasing(q) == {s \in Surfaces : Release(s) \in InQueue(q)}
EncoderKeeps == {frame_ref} \cup input_locked_frames_ \cup Releasing(syncQ)
Letting == IF ypc = "erase" THEN {showing} ELSE {}
WorkIsAlone ==
  dpc = "decode" => work \in locked_frames_ /\ work \notin {showing} \cup InQueue(shown)
WorkIsNotEncoded == dpc = "decode" => work \notin HeldByEncoder
LockedIsKept == locked \subseteq EncoderKeeps
ReferencesAreKept == references \subseteq HeldByEncoder \cup (locked_frames_ \ Letting)
HeldInv ==
  /\ delayed \subseteq locked /\ WorkIsAlone
  /\ phase = "playing" => WorkIsNotEncoded /\ LockedIsKept /\ ReferencesAreKept

(***************************************************************************)
(* Frames are numbered as they are decoded, and go from the decoder to the *)
(* encoder in that order.  The decoder's sync thread has taken the first   *)
(* Shown of them and posted Sent to the encoder, which has taken Received  *)
(* and had Encoded in EncodeFrameAsync().                                  *)
(***************************************************************************)
Decoded == MaxFrames - left
Shown == Decoded - Count(shown, Surfaces)
Pushing == ypc \in {"push", "chain"}
Sent == Shown - One(Pushing)
Received == Sent - Count(taskQ, Surfaces)
Encoded == Received - One(epc = "encode")
LineInv ==
  /\ InOrder(shown, Surfaces, frameOf, Shown)
  /\ Pushing => frameOf[showing] = Shown
  /\ InOrder(taskQ, Surfaces, frameOf, Received)
  /\ epc = "encode" => frameOf[frame_ref] = Received

\* The encoder codes each once, but for those it holds back.
CodedInv ==
  /\ Len(coded) + Cardinality(delayed) = Encoded
  /\ {frameOf[s] : s \in delayed} \cup InQueue(coded) = 1 .. Encoded

\* The operations, and the coded frames pushed, are in that order.
Issued == Len(pushed) + One(zpc = "push")
OpsInv ==
  /\ \A i \in DOMAIN pushed : i \in DOMAIN coded /\ pushed[i] = coded[i]
  /\ zpc = "push" => syncing = Len(pushed) + 1
  /\ InOrder(syncQ, IsSync, Operation, Issued)
  /\ Len(coded) = Issued + Count(syncQ, IsSync) + One(epc = "release and sync")

\* The end of the stream is the last task everywhere.
LinkDone == dpc = "done" /\ left = 0 /\ shown = <<>> /\ ypc = "idle"
EncoderDone == LinkDone /\ taskQ = <<>> /\ epc = "idle" /\ delayed = {}
IsLast(q, x) == \A i \in DOMAIN q : q[i] = x => i = Len(q)
EosInv ==
  /\ dpc = "done" => left = 0
  /\ IsLast(shown, Eos) /\ (Eos \in InQueue(shown) => dpc = "done")
  /\ IsLast(taskQ, Eos) /\ (Eos \in InQueue(taskQ) => LinkDone)
  /\ epc = "drain" => LinkDone /\ taskQ = <<>>
  /\ IsLast(syncQ, NotifyEos) /\ (NotifyEos \in InQueue(syncQ) => EncoderDone)
  /\ eosOut => EncoderDone /\ syncQ = <<>> /\ zpc = "idle"

IInv ==
  /\ TypeInv /\ Counted /\ PhaseInv /\ HeldInv /\ AllFramesCoded
  /\ phase = "playing" => LineInv /\ CodedInv /\ OpsInv /\ EosInv
-----------------------------------------------------------------------------
(* Queues and types.                                                       *)

\* What is in a queue, after an append and after a take.
LEMMA InQueueAppend ==
  ASSUME NEW S, NEW q \in Seq(S), NEW x \in S
  PROVE  InQueue(Append(q, x)) = InQueue(q) \cup {x}
<1>1. /\ Len(q) \in Nat /\ DOMAIN q = 1 .. Len(q) /\ DOMAIN Append(q, x) = 1 .. Len(q) + 1
      /\ \A i \in 1 .. Len(q) : Append(q, x)[i] = q[i]
      /\ Append(q, x)[Len(q) + 1] = x
  BY Appended
<1>2. /\ \A i \in 1 .. Len(q) : i \in 1 .. Len(q) + 1
      /\ \A i \in 1 .. Len(q) + 1 : i \in 1 .. Len(q) \/ i = Len(q) + 1
      /\ Len(q) + 1 \in 1 .. Len(q) + 1
  BY <1>1
<1> QED BY <1>1, <1>2 DEF InQueue

LEMMA InQueueTail ==
  ASSUME NEW S, NEW q \in Seq(S), q # <<>>
  PROVE  InQueue(q) = InQueue(Tail(q)) \cup {Head(q)}
<1>1. /\ Len(q) \in Nat \ {0} /\ DOMAIN q = 1 .. Len(q) /\ DOMAIN Tail(q) = 1 .. Len(q) - 1
      /\ Head(q) = q[1] /\ \A i \in 1 .. Len(q) - 1 : Tail(q)[i] = q[i + 1]
  BY Taken
<1>2. /\ \A i \in 1 .. Len(q) - 1 : i + 1 \in 1 .. Len(q)
      /\ \A i \in 1 .. Len(q) : i = 1 \/ (i - 1 \in 1 .. Len(q) - 1 /\ (i - 1) + 1 = i)
      /\ 1 \in 1 .. Len(q)
  BY <1>1
<1>3. InQueue(Tail(q)) \subseteq InQueue(q) /\ Head(q) \in InQueue(q)
  BY <1>1, <1>2 DEF InQueue
<1>4. ASSUME NEW i \in DOMAIN q PROVE q[i] \in InQueue(Tail(q)) \cup {Head(q)}
  <2>1. CASE i = 1
    BY <1>1, <2>1
  <2>2. CASE i # 1
    <3>1. i - 1 \in DOMAIN Tail(q) /\ Tail(q)[i - 1] = q[i]
      BY <1>1, <1>2, <2>2
    <3> QED BY <3>1 DEF InQueue
  <2> QED BY <2>1, <2>2
<1> QED BY <1>3, <1>4 DEF InQueue

\* Their numbers, and their order.
LEMMA CountType ==
  ASSUME NEW S, NEW q \in Seq(S), NEW T
  PROVE  Count(q, T) \in Nat
  BY LenProperties, NumType DEF Count

LEMMA CountAppend ==
  ASSUME NEW S, NEW q \in Seq(S), NEW x \in S, NEW T
  PROVE  Count(Append(q, x), T) = Count(q, T) + One(x \in T)
  BY Appended, NumAppend DEF Count

LEMMA CountTail ==
  ASSUME NEW S, NEW q \in Seq(S), q # <<>>, NEW T
  PROVE  Count(q, T) = Count(Tail(q), T) + One(Head(q) \in T)
<1>1. Len(q) \in Nat \ {0} /\ Len(Tail(q)) = Len(q) - 1
  BY Taken
<1>2. Num(q, (Len(q) - 1) + 1, T) = Num(Tail(q), Len(q) - 1, T) + One(Head(q) \in T)
  BY <1>1, NumTail
<1>3. (Len(q) - 1) + 1 = Len(q)
  BY <1>1
<1> QED BY <1>1, <1>2, <1>3 DEF Count

LEMMA InOrderAppend ==
  ASSUME NEW S, NEW q \in Seq(S), NEW x \in S, NEW T, NEW f, NEW base \in Int,
         InOrder(q, T, f, base), x \in T => f[x] = base + Count(q, T) + 1
  PROVE  InOrder(Append(q, x), T, f, base)
<1>1. /\ Len(q) \in Nat /\ DOMAIN q = 1 .. Len(q) /\ DOMAIN Append(q, x) = 1 .. Len(q) + 1
      /\ \A i \in 1 .. Len(q) : Append(q, x)[i] = q[i]
      /\ Append(q, x)[Len(q) + 1] = x
  BY Appended
<1>2. /\ \A n \in 0 .. Len(q) : Num(Append(q, x), n, T) = Num(q, n, T)
      /\ Num(Append(q, x), Len(q) + 1, T) = Count(q, T) + One(x \in T)
  BY NumAppend DEF Count
<1>3. ASSUME NEW i \in 1 .. Len(q), q[i] \in T PROVE f[q[i]] = base + Num(Append(q, x), i, T)
  <2>1. i \in 0 .. Len(q)
    BY <1>1
  <2> QED BY <1>1, <1>2, <1>3, <2>1 DEF InOrder
<1>4. ASSUME x \in T PROVE f[x] = base + Num(Append(q, x), Len(q) + 1, T)
  <2>1. One(x \in T) = 1
    BY <1>4 DEF One
  <2>2. Count(q, T) \in Nat
    BY CountType
  <2> QED BY <1>2, <1>4, <2>1, <2>2
<1>5. \A i \in 1 .. Len(q) + 1 : i \in 1 .. Len(q) \/ i = Len(q) + 1
  BY <1>1
<1> QED BY <1>1, <1>3, <1>4, <1>5 DEF InOrder

LEMMA InOrderTail ==
  ASSUME NEW S, NEW q \in Seq(S), q # <<>>, NEW T, NEW f, NEW base \in Int,
         InOrder(q, T, f, base)
  PROVE  /\ Head(q) \in T => f[Head(q)] = base + 1
         /\ InOrder(Tail(q), T, f, base + One(Head(q) \in T))
<1>1. /\ Len(q) \in Nat \ {0} /\ DOMAIN q = 1 .. Len(q) /\ DOMAIN Tail(q) = 1 .. Len(q) - 1
      /\ Head(q) = q[1] /\ \A i \in 1 .. Len(q) - 1 : Tail(q)[i] = q[i + 1]
  BY Taken
<1>2. \A n \in 0 .. Len(q) - 1 : Num(q, n + 1, T) = Num(Tail(q), n, T) + One(Head(q) \in T)
  BY NumTail
<1>3. ASSUME Head(q) \in T PROVE f[Head(q)] = base + 1
  <2>1. 0 \in 0 .. Len(q) - 1 /\ 1 \in 1 .. Len(q) /\ 0 + 1 = 1
    BY <1>1
  <2>2. Num(q, 1, T) = 1
    <3>1. Num(Tail(q), 0, T) = 0
      BY NumType
    <3>2. One(Head(q) \in T) = 1
      BY <1>3 DEF One
    <3> QED BY <1>2, <2>1, <3>1, <3>2
  <2> QED BY <1>1, <1>3, <2>1, <2>2 DEF InOrder
<1>4. ASSUME NEW i \in 1 .. Len(q) - 1, Tail(q)[i] \in T
      PROVE  f[Tail(q)[i]] = (base + One(Head(q) \in T)) + Num(Tail(q), i, T)
  <2>1. i \in 0 .. Len(q) - 1 /\ i + 1 \in 1 .. Len(q) /\ i \in Nat
    BY <1>1
  <2>2. f[q[i + 1]] = base + Num(q, i + 1, T)
    BY <1>1, <1>4, <2>1 DEF InOrder
  <2>3. Num(q, i + 1, T) = Num(Tail(q), i, T) + One(Head(q) \in T)
    BY <1>2, <2>1
  <2>4. Num(Tail(q), i, T) \in Nat
    BY <2>1, NumType
  <2>5. One(Head(q) \in T) \in Nat
    BY DEF One
  <2>6. \A m, n \in Nat : base + (m + n) = (base + n) + m
    OBVIOUS
  <2> QED BY <1>1, <1>4, <2>2, <2>3, <2>4, <2>5, <2>6
<1> QED BY <1>1, <1>3, <1>4 DEF InOrder

\* The constants, the surfaces and the queues.
LEMMA DataTypes ==
  ASSUME TypeOK
  PROVE  /\ MaxFrames \in Nat /\ left \in Nat /\ left <= MaxFrames /\ Decoded \in Nat
         /\ Eos = None /\ None \notin Surfaces /\ IsFiniteSet(Surfaces)
         /\ shown \in Seq(Surfaces \cup {Eos}) /\ taskQ \in Seq(Surfaces \cup {Eos})
         /\ syncQ \in Seq(Tasks) /\ coded \in Seq(1 .. MaxFrames) /\ pushed \in Seq(1 .. MaxFrames)
         /\ Len(shown) \in Nat /\ Len(taskQ) \in Nat /\ Len(syncQ) \in Nat
         /\ Len(coded) \in Nat /\ Len(pushed) \in Nat
         /\ InQueue(<<>>) = {} /\ Len(<<>>) = 0
         /\ InQueue(shown) \subseteq Surfaces \cup {Eos}
         /\ InQueue(taskQ) \subseteq Surfaces \cup {Eos}
         /\ \A s \in Surfaces : Release(s) \in Tasks /\ Release(s) \notin IsSync
                                  /\ Release(s) # NotifyEos
         /\ \A k \in Nat : SyncOp(k) \in IsSync /\ SyncOp(k) # NotifyEos
         /\ NotifyEos \in Tasks /\ NotifyEos \notin IsSync /\ IsSync \subseteq Tasks
<1>1. MaxFrames \in Nat /\ PoolSize \in Nat
  BY SizesAssumption
<1>2. left \in Nat /\ left <= MaxFrames /\ Decoded \in Nat
  <2>1. left \in 0 .. MaxFrames
    BY DEF TypeOK
  <2> QED BY <1>1, <2>1 DEF Decoded
<1>3. Eos = None /\ None \notin Surfaces /\ Surfaces \subseteq Nat
  BY <1>1 DEF Eos, None, Surfaces
<1>4. IsFiniteSet(Surfaces)
  BY <1>1, FS_Interval DEF Surfaces
<1>5. /\ shown \in Seq(Surfaces \cup {Eos}) /\ taskQ \in Seq(Surfaces \cup {Eos})
      /\ syncQ \in Seq(Tasks)
  BY DEF TypeOK, Tasks
<1>6. coded \in Seq(1 .. MaxFrames) /\ pushed \in Seq(1 .. MaxFrames)
  BY DEF TypeOK
<1>7. /\ Len(shown) \in Nat /\ Len(taskQ) \in Nat /\ Len(syncQ) \in Nat
      /\ Len(coded) \in Nat /\ Len(pushed) \in Nat
  BY <1>5, <1>6, LenProperties
<1>8. InQueue(<<>>) = {} /\ Len(<<>>) = 0
  BY EmptySeq DEF InQueue
<1>9. InQueue(shown) \subseteq Surfaces \cup {Eos} /\ InQueue(taskQ) \subseteq Surfaces \cup {Eos}
  BY <1>5, ElementOfSeq, LenProperties DEF InQueue
<1>10. /\ \A s \in Surfaces : Release(s) \in Tasks /\ Release(s) \notin IsSync
                                /\ Release(s) # NotifyEos
       /\ \A k \in Nat : SyncOp(k) \in IsSync /\ SyncOp(k) # NotifyEos
       /\ NotifyEos \in Tasks /\ NotifyEos \notin IsSync /\ IsSync \subseteq Tasks
  BY <1>3 DEF Release, SyncOp, NotifyEos, Tasks, IsSync
<1> QED BY <1>1, <1>2, <1>3, <1>4, <1>5, <1>6, <1>7, <1>8, <1>9, <1>10

\* ReleaseInputSurface() posts none, one or both of a release and an operation.
Kept == IF frame_ref \in Locked THEN Append(syncQ, Release(frame_ref)) ELSE syncQ
LEMMA Released ==
  ASSUME TypeInv, ReleaseInputSurface
  PROVE  /\ frame_ref \in Surfaces /\ Kept \in Seq(Tasks) /\ SyncOp(Len(coded)) \in Tasks
         /\ syncQ' = IF epc = "release" THEN Kept ELSE Append(Kept, SyncOp(Len(coded)))
<1>t. /\ frame_ref \in Surfaces /\ syncQ \in Seq(Tasks) /\ Release(frame_ref) \in Tasks
      /\ SyncOp(Len(coded)) \in Tasks
  BY DataTypes DEF ReleaseInputSurface, TypeInv, TypeOK
<1>1. Kept \in Seq(Tasks)
  BY <1>t, Appended DEF Kept
<1>2. syncQ \o (IF frame_ref \in Locked THEN <<Release(frame_ref)>> ELSE <<>>) = Kept
  BY <1>t, AppendIsConcat, ConcatEmptySeq DEF Kept
<1>3. Kept \o <<>> = Kept /\ Kept \o <<SyncOp(Len(coded))>> = Append(Kept, SyncOp(Len(coded)))
  BY <1>t, <1>1, AppendIsConcat, ConcatEmptySeq
<1> QED BY <1>t, <1>1, <1>2, <1>3 DEF ReleaseInputSurface

\* The pipeline starts with the types.
LEMMA InitType == Init => TypeInv
<1> SUFFICES ASSUME Init PROVE TypeInv
  OBVIOUS
<1>0. \A S : <<>> \in Seq(S)
  BY EmptySeq
<1>1. TypeOK
  <2>1. frameOf \in [Surfaces -> 0 .. MaxFrames] /\ left \in 0 .. MaxFrames
    BY SizesAssumption DEF Init
  <2>2. /\ shown \in Seq(Surfaces \cup {Eos}) /\ taskQ \in Seq(Surfaces \cup {Eos})
        /\ coded \in Seq(1 .. MaxFrames) /\ pushed \in Seq(1 .. MaxFrames)
        /\ syncQ \in Seq([kind : {"release", "sync", "eos"}, arg : Nat])
    BY <1>0 DEF Init
  <2> QED BY <2>1, <2>2 DEF Init, TypeOK
<1>2. InQueue(<<>>) = {}
  BY EmptySeq DEF InQueue
<1>3. PassedOn = {None}
  BY <1>2 DEF Init, PassedOn
<1> QED BY <1>1, <1>3 DEF Init, TypeInv

\* The variables keep their types ...
LEMMA TypeOKStep ==
  ASSUME TypeInv, Counted, phase = "playing" => OpsInv, [Next]_vars
  PROVE  TypeOK'
<1>0. /\ None \notin Surfaces /\ Eos = None /\ MaxFrames \in Nat /\ left \in Nat
      /\ syncQ \in Seq(Tasks)
      /\ \A s \in Surfaces : Release(s) \in Tasks
      /\ \A k \in Nat : SyncOp(k) \in Tasks
      /\ NotifyEos \in Tasks /\ Len(coded) \in Nat
  BY DataTypes DEF TypeInv
<1>e. \A S : <<>> \in Seq(S)
  BY EmptySeq
<1>l. Locked \subseteq Surfaces
  BY <1>0, DataTypes DEF Locked, TypeInv, TypeOK
\* All that one part of the pipeline leaves alone.
<1>d. ASSUME UNCHANGED <<taskQ, encoder, locked, syncs, phase>>,
             frameOf' \in [Surfaces -> 0 .. MaxFrames], left' \in 0 .. MaxFrames,
             dpc' \in {"get", "decode", "done"}, work' \in Surfaces \cup {None},
             references' \subseteq Surfaces, locked_frames_' \subseteq Surfaces,
             shown' \in Seq(Surfaces \cup {Eos}), showing' \in Surfaces \cup {None},
             ypc' \in {"idle", "push", "chain", "erase"}, pending_tasks_num_' \in Nat
      PROVE  TypeOK'
  BY <1>d DEF TypeInv, TypeOK, encoder, syncs
<1>n. ASSUME UNCHANGED <<frameOf, decoder, shown, ypc, showing, syncs, phase>>,
             pending_tasks_num_' \in Nat, taskQ' \in Seq(Surfaces \cup {Eos}),
             epc' \in {"idle", "encode", "release", "release and sync", "drain"},
             frame_ref' \in Surfaces \cup {None}, delayed' \subseteq Surfaces,
             locked' \subseteq Surfaces, coded' \in Seq(1 .. MaxFrames)
      PROVE  TypeOK'
  BY <1>n DEF TypeInv, TypeOK, decoder, syncs
<1>s. ASSUME UNCHANGED <<frameOf, decoder, link, taskQ, delayed, coded>>,
             epc' \in {"idle", "encode", "release", "release and sync", "drain"},
             frame_ref' \in Surfaces \cup {None}, locked' \subseteq Surfaces,
             syncQ' \in Seq(Tasks), zpc' \in {"idle", "push"}, syncing' \in Nat,
             input_locked_frames_' \subseteq Surfaces, pushed' \in Seq(1 .. MaxFrames),
             eosOut' \in BOOLEAN, phase' = phase
      PROVE  TypeOK'
  BY <1>s DEF TypeInv, TypeOK, decoder, link, Tasks
<1>p. ASSUME UNCHANGED <<frameOf, decoder, link, coded, epc, frame_ref, zpc, syncing, pushed,
                         eosOut>>,
             taskQ' \in {taskQ, <<>>}, syncQ' \in {syncQ, <<>>}, locked' \subseteq locked,
             delayed' \subseteq delayed, input_locked_frames_' \subseteq input_locked_frames_,
             phase' \in {"playing", "flushing", "joinTask", "joinSync", "free", "null"}
      PROVE  TypeOK'
  BY <1>e, <1>p DEF TypeInv, TypeOK, decoder, link
<1>c. ASSUME NEW s \in delayed \cup {frame_ref}, s # None
      PROVE  Append(coded, frameOf[s]) \in Seq(1 .. MaxFrames)
  <2>1. frameOf[s] > 0 /\ frameOf[s] \in 0 .. MaxFrames
    BY <1>c DEF TypeInv, TypeOK, PassedOn
  <2>2. frameOf[s] \in 1 .. MaxFrames
    BY <1>0, <2>1
  <2>3. coded \in Seq(1 .. MaxFrames)
    BY DEF TypeInv, TypeOK
  <2> QED BY <2>2, <2>3, Appended
<1>x. /\ frameOf \in [Surfaces -> 0 .. MaxFrames] /\ left \in 0 .. MaxFrames
      /\ dpc \in {"get", "decode", "done"} /\ work \in Surfaces \cup {None}
      /\ references \subseteq Surfaces /\ locked_frames_ \subseteq Surfaces
      /\ shown \in Seq(Surfaces \cup {Eos}) /\ showing \in Surfaces \cup {None}
      /\ ypc \in {"idle", "push", "chain", "erase"} /\ pending_tasks_num_ \in Nat
  BY DEF TypeInv, TypeOK
<1>y. /\ taskQ \in Seq(Surfaces \cup {Eos})
      /\ epc \in {"idle", "encode", "release", "release and sync", "drain"}
      /\ frame_ref \in Surfaces \cup {None} /\ delayed \subseteq Surfaces
      /\ locked \subseteq Surfaces /\ coded \in Seq(1 .. MaxFrames)
      /\ zpc \in {"idle", "push"} /\ syncing \in Nat /\ input_locked_frames_ \subseteq Surfaces
      /\ pushed \in Seq(1 .. MaxFrames) /\ eosOut \in BOOLEAN
      /\ phase \in {"playing", "flushing", "joinTask", "joinSync", "free", "null"}
  BY DEF TypeInv, TypeOK
<1> USE DEF decoder, link, encoder, syncs
<1>1. CASE GetSurface
  <2>1. /\ UNCHANGED <<frameOf, left, references, link, taskQ, encoder, locked, syncs, phase>>
        /\ dpc' = "decode"
    BY <1>1 DEF GetSurface
  <2>2. PICK s \in Surfaces : work' = s /\ locked_frames_' = locked_frames_ \cup {s}
    BY <1>1 DEF GetSurface, Free, Least
  <2> QED BY <1>d, <1>x, <2>1, <2>2
<1>2. CASE Decode
  <2>1. /\ UNCHANGED <<taskQ, encoder, locked, syncs, phase, showing, ypc, pending_tasks_num_>>
        /\ dpc' = "get" /\ work' = None /\ left' = left - 1 /\ left > 0
        /\ frameOf' = [frameOf EXCEPT ![work] = MaxFrames - left + 1] /\ work \in Surfaces
        /\ shown' = Append(shown, work) /\ locked_frames_' \subseteq locked_frames_
        /\ references' \subseteq references \cup {work}
    BY <1>2, <1>x DEF Decode, Prune, KeepReferences, TypeInv
  <2>2. left' \in 0 .. MaxFrames /\ MaxFrames - left + 1 \in 0 .. MaxFrames
    BY <1>0, <1>x, <2>1
  <2>3. shown' \in Seq(Surfaces \cup {Eos})
    BY <1>x, <2>1, Appended
  <2> QED BY <1>d, <1>x, <2>1, <2>2, <2>3
<1>3. CASE Drain
  <2>1. /\ UNCHANGED <<taskQ, encoder, locked, syncs, phase, showing, ypc, pending_tasks_num_,
                       left, frameOf>>
        /\ dpc' = "done" /\ work' = None /\ shown' = Append(shown, Eos)
        /\ locked_frames_' \subseteq locked_frames_ /\ references' \subseteq references
    BY <1>3 DEF Drain, Prune, KeepReferences
  <2>2. shown' \in Seq(Surfaces \cup {Eos})
    BY <1>x, <2>1, Appended
  <2> QED BY <1>d, <1>x, <2>1, <2>2
<1>4. CASE Refuse
  BY <1>4, <1>d, <1>x DEF Refuse, Prune
<1>5. CASE TakeShown
  <2>1. Head(shown) \in Surfaces \cup {Eos} /\ Tail(shown) \in Seq(Surfaces \cup {Eos})
    BY <1>5, <1>x, Taken DEF TakeShown
  <2> QED BY <1>5, <1>0, <1>d, <1>x, <2>1 DEF TakeShown
<1>6. CASE Push
  BY <1>6, <1>d, <1>x DEF Push
<1>7. CASE Chain
  <2>1. Append(taskQ, showing) \in Seq(Surfaces \cup {Eos})
    BY <1>0, <1>x, <1>y, Appended
  <2>2. /\ UNCHANGED <<frameOf, decoder, shown, showing, pending_tasks_num_, syncs, phase,
                       encoder, locked>>
        /\ taskQ' = Append(taskQ, showing) /\ ypc' = "erase"
    BY <1>7 DEF Chain
  <2> QED BY <2>1, <2>2 DEF TypeInv, TypeOK
<1>8. CASE Erase
  BY <1>8, <1>d, <1>x DEF Erase
<1>9. CASE SendEos
  <2>1. /\ Tail(shown) \in Seq(Surfaces \cup {Eos})
        /\ Append(taskQ, Eos) \in Seq(Surfaces \cup {Eos})
    BY <1>9, <1>x, <1>y, Taken, Appended DEF SendEos
  <2>2. /\ UNCHANGED <<frameOf, decoder, ypc, showing, pending_tasks_num_, encoder, locked, syncs,
                       phase>>
        /\ taskQ' \in {taskQ, Append(taskQ, Eos)} /\ shown' = Tail(shown)
    BY <1>9 DEF SendEos
  <2> QED BY <2>1, <2>2 DEF TypeInv, TypeOK
<1>10. CASE TakeTask
  <2>1. Tail(taskQ) \in Seq(Surfaces \cup {Eos}) /\ Head(taskQ) \in Surfaces \cup {None}
    BY <1>10, <1>0, <1>y, Taken DEF TakeTask
  <2>2. pending_tasks_num_' \in Nat
    <3>1. CASE Head(taskQ) = Eos
      BY <1>10, <1>x, <3>1 DEF TakeTask
    <3>2. CASE Head(taskQ) # Eos
      <4>1. Count(taskQ, Surfaces) = Count(Tail(taskQ), Surfaces) + One(Head(taskQ) \in Surfaces)
            /\ Count(Tail(taskQ), Surfaces) \in Nat
        BY <1>10, <1>y, <2>1, CountTail, CountType DEF TakeTask
      <4>2. One(Head(taskQ) \in Surfaces) = 1
        BY <2>1, <3>2, <1>0 DEF One
      <4>3. Count(taskQ, Surfaces) > 0
        BY <4>1, <4>2
      <4>4. Count(taskQ, Surfaces) \in Nat
        BY <4>1, <4>2
      <4>5. pending_tasks_num_ > 0
        BY <1>x, <4>3, <4>4 DEF Counted, One
      <4> QED BY <1>10, <1>x, <3>2, <4>5 DEF TakeTask
    <3> QED BY <3>1, <3>2
  <2>3. epc' \in {"drain", "encode"}
    BY <1>10 DEF TakeTask
  <2> QED BY <1>10, <1>n, <1>y, <2>1, <2>2, <2>3 DEF TakeTask
<1>11. CASE EncodeMoreData
  <2>1. frame_ref \in Surfaces
    BY <1>11 DEF EncodeMoreData, TypeInv, TypeOK
  <2> QED BY <1>11, <1>n, <1>x, <1>y, <2>1 DEF EncodeMoreData
<1>12. CASE EncodeNone
  <2>1. frame_ref \in Surfaces /\ frame_ref # None
    BY <1>12 DEF EncodeNone, TypeInv, TypeOK
  <2>2. PICK s \in delayed \cup {frame_ref} :
          delayed' = (delayed \cup {frame_ref}) \ {s} /\ coded' = Append(coded, frameOf[s])
    BY <1>12 DEF EncodeNone, Code
  <2>3. coded' \in Seq(1 .. MaxFrames)
    BY <1>0, <1>c, <1>y, <2>1, <2>2
  <2> QED BY <1>12, <1>n, <1>x, <1>y, <2>1, <2>2, <2>3 DEF EncodeNone
<1>13. CASE ReleaseInputSurface
  <2>1. syncQ' \in Seq(Tasks)
    BY <1>13, Released, Appended
  <2> QED BY <1>13, <1>s, <1>y, <2>1 DEF ReleaseInputSurface
<1>14. CASE EncodeDrain
  <2>1. CASE delayed = {}
    <3>1. syncQ' \in Seq(Tasks)
      BY <1>14, <1>0, <2>1, Appended DEF EncodeDrain
    <3> QED BY <1>14, <1>s, <1>y, <2>1, <3>1 DEF EncodeDrain
  <2>2. CASE delayed # {}
    <3>1. PICK s \in delayed : delayed' = delayed \ {s} /\ coded' = Append(coded, frameOf[s])
      BY <1>14, <2>2 DEF EncodeDrain, Code
    <3>2. coded' \in Seq(1 .. MaxFrames)
      BY <1>0, <1>c, <1>y, <3>1
    <3>3. syncQ' \in Seq(Tasks)
      <4>1. Len(coded') \in Nat
        BY <3>2, LenProperties
      <4>2. syncQ' = Append(syncQ, SyncOp(Len(coded')))
        BY <1>14, <2>2 DEF EncodeDrain
      <4> QED BY <1>0, <4>1, <4>2, Appended
    <3>4. UNCHANGED <<frameOf, decoder, link, taskQ, frame_ref, locked, zpc, syncing,
                      input_locked_frames_, pushed, eosOut, phase, epc>>
      BY <1>14, <2>2 DEF EncodeDrain
    <3> QED BY <3>1, <3>2, <3>3, <3>4 DEF TypeInv, TypeOK, Tasks
  <2> QED BY <2>1, <2>2
<1>15. ASSUME NEW s \in Surfaces, Unlock(s) PROVE TypeOK'
  BY <1>15, <1>n, <1>x, <1>y DEF Unlock
<1>16. CASE TakeRelease
  <2>1. Tail(syncQ) \in Seq(Tasks)
    BY <1>16, <1>0, Taken DEF TakeRelease
  <2> QED BY <1>16, <1>l, <1>s, <1>y, <2>1 DEF TakeRelease
<1>17. CASE TakeSync
  <2>1. Tail(syncQ) \in Seq(Tasks) /\ Head(syncQ).arg \in Nat
    <3>1. Tail(syncQ) \in Seq(Tasks) /\ Head(syncQ) \in Tasks
      BY <1>17, <1>0, Taken DEF TakeSync
    <3> QED BY <3>1 DEF Tasks
  <2>2. locked' \subseteq locked
    BY <1>17 DEF TakeSync
  <2> QED BY <1>17, <1>s, <1>y, <2>1, <2>2 DEF TakeSync
<1>18. CASE Clean
  <2>1. pushed' \in Seq(1 .. MaxFrames)
    <3>1. CASE phase = "playing"
      <4>1. syncing = Len(pushed) + 1 /\ Len(pushed) \in Nat
        BY <1>18, <3>1, DataTypes DEF Clean, PushCoded, OpsInv, TypeInv
      <4>2. Count(syncQ, IsSync) \in Nat
        BY <1>0, CountType
      <4>s. /\ Len(coded) = Issued + Count(syncQ, IsSync) + One(epc = "release and sync")
            /\ zpc = "push"
        BY <1>18, <3>1 DEF Clean, PushCoded, OpsInv
      <4>o. One(epc = "release and sync") \in Nat
        BY DEF One
      <4>i. Issued = Len(pushed) + 1
        BY <4>s DEF Issued, One
      <4>n. \A m, n, k, i \in Nat : k = i + m + n => k >= i
        OBVIOUS
      <4>c. Issued \in Nat
        BY <4>1, <4>i
      <4>3. syncing \in 1 .. Len(coded)
        <5>1. Len(coded) >= Issued
          BY <1>0, <4>2, <4>s, <4>o, <4>n, <4>c
        <5> QED BY <1>0, <4>1, <4>i, <4>c, <5>1
      <4>4. coded[syncing] \in 1 .. MaxFrames
        BY <1>y, <4>3, ElementOfSeq
      <4> QED BY <1>18, <1>y, <3>1, <4>4, Appended DEF Clean, PushCoded
    <3> QED BY <1>18, <1>y, <3>1 DEF Clean, PushCoded
  <2> QED BY <1>18, <1>0, <1>s, <1>y, <2>1 DEF Clean, PushCoded
<1>19. CASE TakeNotifyEos
  <2>1. Tail(syncQ) \in Seq(Tasks)
    BY <1>19, <1>0, Taken DEF TakeNotifyEos
  <2> QED BY <1>19, <1>s, <1>y, <2>1 DEF TakeNotifyEos
<1>20. CASE Deactivate
  BY <1>20, <1>p, <1>y DEF Deactivate, Change
<1>21. CASE Deactivated
  BY <1>21, <1>p, <1>y DEF Deactivated, Change
<1>22. CASE JoinTaskThread
  BY <1>22, <1>p, <1>y DEF JoinTaskThread, Change
<1>23. CASE JoinSyncThread
  BY <1>23, <1>p, <1>y DEF JoinSyncThread, Change
<1>24. CASE DisposeEncoder
  BY <1>24, <1>p, <1>y DEF DisposeEncoder, Change
<1>25. CASE UNCHANGED vars
  BY <1>25, <1>p, <1>y DEF vars
<1> QED
  BY <1>1, <1>2, <1>3, <1>4, <1>5, <1>6, <1>7, <1>8, <1>9, <1>10, <1>11, <1>12, <1>13,
     <1>14, <1>15, <1>16, <1>17, <1>18, <1>19, <1>20, <1>21, <1>22, <1>23, <1>24, <1>25
  DEF Next, DecoderStep, LinkStep, EncoderStep, SyncStep, Shutdown

\* What is in the frames' queues after an append and after a take.
LEMMA Queues ==
  ASSUME TypeOK
  PROVE  /\ \A s \in Surfaces \cup {Eos} :
              /\ InQueue(Append(shown, s)) = InQueue(shown) \cup {s}
              /\ InQueue(Append(taskQ, s)) = InQueue(taskQ) \cup {s}
         /\ shown # <<>> => /\ InQueue(shown) = InQueue(Tail(shown)) \cup {Head(shown)}
                            /\ Head(shown) \in Surfaces \cup {Eos}
         /\ taskQ # <<>> => /\ InQueue(taskQ) = InQueue(Tail(taskQ)) \cup {Head(taskQ)}
                            /\ Head(taskQ) \in Surfaces \cup {Eos}
  BY DataTypes, InQueueAppend, InQueueTail, Taken

\* ... a thread has a surface where its code has one: the decoder's task thread ...
LEMMA TaskThreadStep ==
  ASSUME TypeInv, [Next]_vars
  PROVE  (dpc = "decode" <=> work # None)'
<1>0. Eos = None /\ None \notin Surfaces
  BY DataTypes DEF TypeInv
<1>i. dpc = "decode" <=> work # None
  BY DEF TypeInv
<1> USE DEF decoder, link, encoder, syncs
<1>1. CASE GetSurface
  <2>1. PICK s \in Surfaces : work' = s /\ dpc' = "decode"
    BY <1>1 DEF GetSurface, Free, Least
  <2> QED BY <1>0, <2>1
<1>2. CASE Decode
  BY <1>2, <1>i DEF Decode, Prune
<1>3. CASE Drain
  BY <1>3, <1>i DEF Drain, Prune
<1>4. CASE Refuse
  BY <1>4, <1>i DEF Refuse, Prune
<1>5. CASE TakeShown
  BY <1>5, <1>i DEF TakeShown
<1>6. CASE Push
  BY <1>6, <1>i DEF Push
<1>7. CASE Chain
  BY <1>7, <1>i DEF Chain
<1>8. CASE Erase
  BY <1>8, <1>i DEF Erase
<1>9. CASE SendEos
  BY <1>9, <1>i DEF SendEos
<1>10. CASE TakeTask
  BY <1>10, <1>i DEF TakeTask
<1>11. CASE EncodeMoreData
  BY <1>11, <1>i DEF EncodeMoreData
<1>12. CASE EncodeNone
  BY <1>12, <1>i DEF EncodeNone, Code
<1>13. CASE ReleaseInputSurface
  BY <1>13, <1>i DEF ReleaseInputSurface
<1>14. CASE EncodeDrain
  BY <1>14, <1>i DEF EncodeDrain, Code
<1>15. ASSUME NEW s \in Surfaces, Unlock(s) PROVE (dpc = "decode" <=> work # None)'
  BY <1>15, <1>i DEF Unlock
<1>16. CASE TakeRelease
  BY <1>16, <1>i DEF TakeRelease
<1>17. CASE TakeSync
  BY <1>17, <1>i DEF TakeSync
<1>18. CASE Clean
  BY <1>18, <1>i DEF Clean, PushCoded
<1>19. CASE TakeNotifyEos
  BY <1>19, <1>i DEF TakeNotifyEos
<1>20. CASE Deactivate
  BY <1>20, <1>i DEF Deactivate, Change
<1>21. CASE Deactivated
  BY <1>21, <1>i DEF Deactivated, Change
<1>22. CASE JoinTaskThread
  BY <1>22, <1>i DEF JoinTaskThread, Change
<1>23. CASE JoinSyncThread
  BY <1>23, <1>i DEF JoinSyncThread, Change
<1>24. CASE DisposeEncoder
  BY <1>24, <1>i DEF DisposeEncoder, Change
<1>25. CASE UNCHANGED vars
  BY <1>25, <1>i DEF vars
<1> QED
  BY <1>1, <1>2, <1>3, <1>4, <1>5, <1>6, <1>7, <1>8, <1>9, <1>10, <1>11, <1>12, <1>13,
     <1>14, <1>15, <1>16, <1>17, <1>18, <1>19, <1>20, <1>21, <1>22, <1>23, <1>24, <1>25
  DEF Next, DecoderStep, LinkStep, EncoderStep, SyncStep, Shutdown

\* ... its sync thread ...
LEMMA SyncThreadStep ==
  ASSUME TypeInv, [Next]_vars
  PROVE  (ypc # "idle" <=> showing # None)'
<1>0. Eos = None /\ None \notin Surfaces
  BY DataTypes DEF TypeInv
<1>i. ypc # "idle" <=> showing # None
  BY DEF TypeInv
<1> USE DEF decoder, link, encoder, syncs
<1>1. CASE GetSurface
  BY <1>1, <1>i DEF GetSurface
<1>2. CASE Decode
  BY <1>2, <1>i DEF Decode, Prune
<1>3. CASE Drain
  BY <1>3, <1>i DEF Drain, Prune
<1>4. CASE Refuse
  BY <1>4, <1>i DEF Refuse, Prune
<1>5. CASE TakeShown
  BY <1>5, <1>0 DEF TakeShown
<1>6. CASE Push
  BY <1>6, <1>i DEF Push
<1>7. CASE Chain
  BY <1>7, <1>i DEF Chain
<1>8. CASE Erase
  BY <1>8, <1>i DEF Erase
<1>9. CASE SendEos
  BY <1>9, <1>i DEF SendEos
<1>10. CASE TakeTask
  BY <1>10, <1>i DEF TakeTask
<1>11. CASE EncodeMoreData
  BY <1>11, <1>i DEF EncodeMoreData
<1>12. CASE EncodeNone
  BY <1>12, <1>i DEF EncodeNone, Code
<1>13. CASE ReleaseInputSurface
  BY <1>13, <1>i DEF ReleaseInputSurface
<1>14. CASE EncodeDrain
  BY <1>14, <1>i DEF EncodeDrain, Code
<1>15. ASSUME NEW s \in Surfaces, Unlock(s) PROVE (ypc # "idle" <=> showing # None)'
  BY <1>15, <1>i DEF Unlock
<1>16. CASE TakeRelease
  BY <1>16, <1>i DEF TakeRelease
<1>17. CASE TakeSync
  BY <1>17, <1>i DEF TakeSync
<1>18. CASE Clean
  BY <1>18, <1>i DEF Clean, PushCoded
<1>19. CASE TakeNotifyEos
  BY <1>19, <1>i DEF TakeNotifyEos
<1>20. CASE Deactivate
  BY <1>20, <1>i DEF Deactivate, Change
<1>21. CASE Deactivated
  BY <1>21, <1>i DEF Deactivated, Change
<1>22. CASE JoinTaskThread
  BY <1>22, <1>i DEF JoinTaskThread, Change
<1>23. CASE JoinSyncThread
  BY <1>23, <1>i DEF JoinSyncThread, Change
<1>24. CASE DisposeEncoder
  BY <1>24, <1>i DEF DisposeEncoder, Change
<1>25. CASE UNCHANGED vars
  BY <1>25, <1>i DEF vars
<1> QED
  BY <1>1, <1>2, <1>3, <1>4, <1>5, <1>6, <1>7, <1>8, <1>9, <1>10, <1>11, <1>12, <1>13,
     <1>14, <1>15, <1>16, <1>17, <1>18, <1>19, <1>20, <1>21, <1>22, <1>23, <1>24, <1>25
  DEF Next, DecoderStep, LinkStep, EncoderStep, SyncStep, Shutdown

\* ... and the encoder's task thread ...
LEMMA EncoderThreadStep ==
  ASSUME TypeInv, [Next]_vars
  PROVE  (epc \in {"encode", "release", "release and sync"} <=> frame_ref # None)'
<1>0. Eos = None /\ None \notin Surfaces
  BY DataTypes DEF TypeInv
<1>i. epc \in {"encode", "release", "release and sync"} <=> frame_ref # None
  BY DEF TypeInv
<1> USE DEF decoder, link, encoder, syncs
<1>1. CASE GetSurface
  BY <1>1, <1>i DEF GetSurface
<1>2. CASE Decode
  BY <1>2, <1>i DEF Decode, Prune
<1>3. CASE Drain
  BY <1>3, <1>i DEF Drain, Prune
<1>4. CASE Refuse
  BY <1>4, <1>i DEF Refuse, Prune
<1>5. CASE TakeShown
  BY <1>5, <1>i DEF TakeShown
<1>6. CASE Push
  BY <1>6, <1>i DEF Push
<1>7. CASE Chain
  BY <1>7, <1>i DEF Chain
<1>8. CASE Erase
  BY <1>8, <1>i DEF Erase
<1>9. CASE SendEos
  BY <1>9, <1>i DEF SendEos
<1>10. CASE TakeTask
  BY <1>10, <1>0 DEF TakeTask
<1>11. CASE EncodeMoreData
  BY <1>11, <1>i DEF EncodeMoreData
<1>12. CASE EncodeNone
  BY <1>12, <1>i DEF EncodeNone, Code
<1>13. CASE ReleaseInputSurface
  BY <1>13, <1>i DEF ReleaseInputSurface
<1>14. CASE EncodeDrain
  BY <1>14, <1>i DEF EncodeDrain, Code
<1>15. ASSUME NEW s \in Surfaces, Unlock(s) PROVE (epc \in {"encode", "release", "release and sync"} <=> frame_ref # None)'
  BY <1>15, <1>i DEF Unlock
<1>16. CASE TakeRelease
  BY <1>16, <1>i DEF TakeRelease
<1>17. CASE TakeSync
  BY <1>17, <1>i DEF TakeSync
<1>18. CASE Clean
  BY <1>18, <1>i DEF Clean, PushCoded
<1>19. CASE TakeNotifyEos
  BY <1>19, <1>i DEF TakeNotifyEos
<1>20. CASE Deactivate
  BY <1>20, <1>i DEF Deactivate, Change
<1>21. CASE Deactivated
  BY <1>21, <1>i DEF Deactivated, Change
<1>22. CASE JoinTaskThread
  BY <1>22, <1>i DEF JoinTaskThread, Change
<1>23. CASE JoinSyncThread
  BY <1>23, <1>i DEF JoinSyncThread, Change
<1>24. CASE DisposeEncoder
  BY <1>24, <1>i DEF DisposeEncoder, Change
<1>25. CASE UNCHANGED vars
  BY <1>25, <1>i DEF vars
<1> QED
  BY <1>1, <1>2, <1>3, <1>4, <1>5, <1>6, <1>7, <1>8, <1>9, <1>10, <1>11, <1>12, <1>13,
     <1>14, <1>15, <1>16, <1>17, <1>18, <1>19, <1>20, <1>21, <1>22, <1>23, <1>24, <1>25
  DEF Next, DecoderStep, LinkStep, EncoderStep, SyncStep, Shutdown

\* ... and a surface passed on has a frame in it.
LEMMA PassedOnStep ==
  ASSUME TypeInv, [Next]_vars
  PROVE  \A s \in (PassedOn \ {None})' : frameOf'[s] > 0
<1>0. Eos = None /\ None \notin Surfaces /\ MaxFrames \in Nat /\ left \in Nat /\ left <= MaxFrames
      /\ InQueue(<<>>) = {}
  BY DataTypes DEF TypeInv
<1>i. \A s \in PassedOn \ {None} : frameOf[s] > 0
  BY DEF TypeInv
<1>x. showing \in Surfaces \cup {Eos}
  BY <1>0 DEF TypeInv, TypeOK
<1>s. PassedOn \subseteq Surfaces \cup {None}
  BY <1>0, DataTypes DEF PassedOn, TypeInv, TypeOK
<1>w. dpc = "decode" <=> work # None
  BY DEF TypeInv
<1>q. /\ \A s \in Surfaces \cup {Eos} :
           /\ InQueue(Append(shown, s)) = InQueue(shown) \cup {s}
           /\ InQueue(Append(taskQ, s)) = InQueue(taskQ) \cup {s}
      /\ shown # <<>> => InQueue(shown) = InQueue(Tail(shown)) \cup {Head(shown)}
      /\ taskQ # <<>> => InQueue(taskQ) = InQueue(Tail(taskQ)) \cup {Head(taskQ)}
  BY Queues DEF TypeInv
<1>k. ASSUME UNCHANGED frameOf, PassedOn' \subseteq PassedOn \cup {None}
      PROVE  \A s \in (PassedOn \ {None})' : frameOf'[s] > 0
  BY <1>i, <1>k
<1> USE DEF decoder, link, encoder, syncs
<1>1. CASE GetSurface
  BY <1>1, <1>k DEF GetSurface, PassedOn
<1>2. CASE Decode
  <2>1. /\ UNCHANGED <<taskQ, frame_ref, delayed, showing>> /\ shown' = Append(shown, work)
        /\ frameOf' = [frameOf EXCEPT ![work] = MaxFrames - left + 1] /\ left > 0
        /\ work \in Surfaces
    BY <1>2, <1>0, <1>w DEF Decode, TypeInv, TypeOK
  <2>2. InQueue(shown') = InQueue(shown) \cup {work}
    BY <1>q, <2>1
  <2>3. PassedOn' \subseteq PassedOn \cup {work}
    BY <2>1, <2>2 DEF PassedOn
  <2>4. MaxFrames - left + 1 > 0
    BY <1>0
  <2>5. frameOf \in [Surfaces -> 0 .. MaxFrames]
    BY DEF TypeInv, TypeOK
  <2>6. \A s \in Surfaces : frameOf'[s] = IF s = work THEN MaxFrames - left + 1 ELSE frameOf[s]
    BY <2>1, <2>5
  <2> QED BY <1>i, <1>s, <2>1, <2>3, <2>4, <2>6
<1>3. CASE Drain
  <2>1. InQueue(shown') = InQueue(shown) \cup {None}
    BY <1>3, <1>0, <1>q DEF Drain
  <2> QED BY <1>3, <1>k, <2>1 DEF Drain, PassedOn
<1>4. CASE Refuse
  BY <1>4, <1>k DEF Refuse, Prune, PassedOn
<1>5. CASE TakeShown
  <2>1. InQueue(shown) = InQueue(shown') \cup {showing'}
    BY <1>5, <1>q DEF TakeShown
  <2> QED BY <1>5, <1>k, <2>1 DEF TakeShown, PassedOn
<1>6. CASE Push
  BY <1>6, <1>k DEF Push, PassedOn
<1>7. CASE Chain
  <2>1. InQueue(taskQ') = InQueue(taskQ) \cup {showing}
    BY <1>7, <1>0, <1>q, <1>x DEF Chain
  <2> QED BY <1>7, <1>k, <2>1 DEF Chain, PassedOn
<1>8. CASE Erase
  BY <1>8, <1>k DEF Erase, PassedOn
<1>9. CASE SendEos
  <2>1. InQueue(shown') \subseteq InQueue(shown)
    BY <1>9, <1>q DEF SendEos
  <2>2. InQueue(taskQ') \subseteq InQueue(taskQ) \cup {None}
    BY <1>9, <1>0, <1>q DEF SendEos
  <2> QED BY <1>9, <1>k, <2>1, <2>2 DEF SendEos, PassedOn
<1>10. CASE TakeTask
  <2>1. InQueue(taskQ) = InQueue(taskQ') \cup {frame_ref'}
    BY <1>10, <1>q DEF TakeTask
  <2> QED BY <1>10, <1>k, <2>1 DEF TakeTask, PassedOn
<1>11. CASE EncodeMoreData
  BY <1>11, <1>k DEF EncodeMoreData, PassedOn
<1>12. CASE EncodeNone
  BY <1>12, <1>k DEF EncodeNone, Code, PassedOn
<1>13. CASE ReleaseInputSurface
  BY <1>13, <1>k DEF ReleaseInputSurface, PassedOn
<1>14. CASE EncodeDrain
  BY <1>14, <1>k DEF EncodeDrain, Code, PassedOn
<1>15. ASSUME NEW u \in Surfaces, Unlock(u) PROVE \A s \in (PassedOn \ {None})' : frameOf'[s] > 0
  BY <1>15, <1>k DEF Unlock, PassedOn
<1>16. CASE TakeRelease
  BY <1>16, <1>k DEF TakeRelease, PassedOn
<1>17. CASE TakeSync
  BY <1>17, <1>k DEF TakeSync, PassedOn
<1>18. CASE Clean
  BY <1>18, <1>k DEF Clean, PushCoded, PassedOn
<1>19. CASE TakeNotifyEos
  BY <1>19, <1>k DEF TakeNotifyEos, PassedOn
<1>20. CASE Deactivate
  BY <1>20, <1>k DEF Deactivate, Change, PassedOn
<1>21. CASE Deactivated
  BY <1>21, <1>k DEF Deactivated, Change, PassedOn
<1>22. CASE JoinTaskThread
  <2>1. InQueue(taskQ') = {}
    BY <1>22, <1>0 DEF JoinTaskThread
  <2> QED BY <1>22, <1>k, <2>1 DEF JoinTaskThread, Change, PassedOn
<1>23. CASE JoinSyncThread
  BY <1>23, <1>k DEF JoinSyncThread, Change, PassedOn
<1>24. CASE DisposeEncoder
  BY <1>24, <1>k DEF DisposeEncoder, Change, PassedOn
<1>25. CASE UNCHANGED vars
  BY <1>25, <1>k DEF vars, PassedOn
<1> QED
  BY <1>1, <1>2, <1>3, <1>4, <1>5, <1>6, <1>7, <1>8, <1>9, <1>10, <1>11, <1>12, <1>13,
     <1>14, <1>15, <1>16, <1>17, <1>18, <1>19, <1>20, <1>21, <1>22, <1>23, <1>24, <1>25
  DEF Next, DecoderStep, LinkStep, EncoderStep, SyncStep, Shutdown

LEMMA TypeStep ==
  ASSUME TypeInv, Counted, phase = "playing" => OpsInv, [Next]_vars
  PROVE  TypeInv'
<1>1. TypeOK'
  BY TypeOKStep
<1>2. (dpc = "decode" <=> work # None)'
  BY TaskThreadStep
<1>3. (ypc # "idle" <=> showing # None)'
  BY SyncThreadStep
<1>4. (epc \in {"encode", "release", "release and sync"} <=> frame_ref # None)'
  BY EncoderThreadStep
<1>5. (\A s \in PassedOn \ {None} : frameOf[s] > 0)'
  BY PassedOnStep
<1> QED BY <1>1, <1>2, <1>3, <1>4, <1>5 DEF TypeInv

\* Chain calls count a frame before its task is posted, and TakeTask after.
LEMMA CountedStep ==
  ASSUME TypeInv, Counted, [Next]_vars
  PROVE  Counted'
<1> DEFINE n == Count(taskQ, Surfaces)
           waits == One(ypc = "chain")
<1>0. /\ Eos = None /\ None \notin Surfaces /\ taskQ \in Seq(Surfaces \cup {Eos})
      /\ pending_tasks_num_ \in Nat /\ Len(taskQ) \in Nat /\ Len(<<>>) = 0
  BY DataTypes DEF TypeInv, TypeOK
<1>n. n \in Nat
  BY <1>0, CountType
<1>w. waits \in Nat
  BY DEF One
<1>c. pending_tasks_num_ >= n + waits
  BY DEF Counted
<1> HIDE DEF n, waits
<1>k. ASSUME UNCHANGED <<taskQ, pending_tasks_num_>>, waits' <= waits, waits' \in Nat PROVE Counted'
  <2>1. n' = n
    BY <1>k DEF n
  <2>2. pending_tasks_num_' >= n' + waits'
    <3>1. pending_tasks_num_' = pending_tasks_num_
      BY <1>k
    <3>2. waits' <= waits /\ waits' \in Nat
      BY <1>k
    <3>3. \A p, m, v, w \in Nat : p >= m + v /\ w <= v => p >= m + w
      OBVIOUS
    <3>4. pending_tasks_num_ >= n + waits'
      BY <1>0, <1>c, <1>n, <1>w, <3>2, <3>3
    <3> QED BY <2>1, <3>1, <3>4
  <2> QED BY <2>2 DEF n, waits, Counted
<1>l. (ypc' = "chain" => ypc = "chain") => waits' <= waits
  BY DEF waits, One
<1>m. waits' \in Nat
  BY DEF waits, One
<1>t. ASSUME taskQ # <<>> PROVE n = Count(Tail(taskQ), Surfaces) + One(Head(taskQ) \in Surfaces)
  BY <1>0, <1>t, CountTail DEF n
<1>a. ASSUME NEW s \in Surfaces \cup {Eos} PROVE Count(Append(taskQ, s), Surfaces) = n + One(s \in Surfaces)
  BY <1>0, CountAppend DEF n
<1>q. \A q \in Seq(Surfaces \cup {Eos}) : Count(q, Surfaces) \in Nat
  BY CountType
<1> USE DEF decoder, link, encoder, syncs
<1>1. CASE GetSurface
  BY <1>1, <1>k, <1>l, <1>m DEF GetSurface
<1>2. CASE Decode
  BY <1>2, <1>k, <1>l, <1>m DEF Decode, Prune
<1>3. CASE Drain
  BY <1>3, <1>k, <1>l, <1>m DEF Drain, Prune
<1>4. CASE Refuse
  BY <1>4, <1>k, <1>l, <1>m DEF Refuse, Prune
<1>5. CASE TakeShown
  BY <1>5, <1>k, <1>l, <1>m DEF TakeShown
<1>6. CASE Push
  <2>1. CASE phase = "playing"
    <3>1. pending_tasks_num_' = pending_tasks_num_ + 1 /\ waits = 0 /\ waits' = 1 /\ n' = n
      BY <1>6, <2>1 DEF Push, waits, One, n
    <3>2. pending_tasks_num_' >= n' + waits'
      BY <1>0, <1>c, <1>n, <3>1
    <3> QED BY <3>2 DEF n, waits, Counted
  <2> QED BY <1>6, <1>k, <1>l, <1>m, <2>1 DEF Push
<1>7. CASE Chain
  <2>1. pending_tasks_num_' = pending_tasks_num_ /\ waits = 1 /\ waits' = 0
    BY <1>7 DEF Chain, waits, One
  <2>2. taskQ' = Append(taskQ, showing) /\ showing \in Surfaces \cup {Eos}
    BY <1>7, <1>0 DEF Chain, TypeInv, TypeOK
  <2>3. n' = n + One(showing \in Surfaces)
    BY <1>a, <2>2 DEF n
  <2>4. One(showing \in Surfaces) \in 0 .. 1
    BY DEF One
  <2>5. pending_tasks_num_' >= n' + waits'
    BY <1>0, <1>c, <1>n, <2>1, <2>3, <2>4
  <2> QED BY <2>5 DEF n, waits, Counted
<1>8. CASE Erase
  BY <1>8, <1>k, <1>l, <1>m DEF Erase
<1>9. CASE SendEos
  <2>1. UNCHANGED <<pending_tasks_num_, ypc>> /\ taskQ' \in {taskQ, Append(taskQ, Eos)}
    BY <1>9 DEF SendEos
  <2>2. n' = n
    <3>1. CASE taskQ' = taskQ
      BY <3>1 DEF n
    <3>2. CASE taskQ' = Append(taskQ, Eos)
      <4>1. n' = n + One(Eos \in Surfaces)
        BY <1>a, <3>2 DEF n
      <4>2. One(Eos \in Surfaces) = 0
        BY <1>0 DEF One
      <4> QED BY <1>n, <4>1, <4>2
    <3> QED BY <2>1, <3>1, <3>2
  <2>3. waits' = waits
    BY <2>1 DEF waits
  <2>4. pending_tasks_num_' >= n' + waits'
    BY <1>c, <2>1, <2>2, <2>3
  <2> QED BY <2>4 DEF n, waits, Counted
<1>10. CASE TakeTask
  <2>1. taskQ # <<>> /\ taskQ' = Tail(taskQ) /\ ypc' = ypc
    BY <1>10 DEF TakeTask
  <2>2. n = n' + One(Head(taskQ) \in Surfaces) /\ waits' = waits
    BY <1>t, <2>1 DEF n, waits
  <2>3. n' \in Nat
    BY <1>0, <1>q, <2>1, Taken DEF n
  <2>4. pending_tasks_num_' = pending_tasks_num_ - One(Head(taskQ) \in Surfaces)
    <3>1. CASE Head(taskQ) = Eos
      BY <1>10, <1>0, <3>1 DEF TakeTask, One
    <3>2. CASE Head(taskQ) # Eos
      <4>1. Head(taskQ) \in Surfaces
        BY <1>0, <2>1, <3>2, Taken
      <4> QED BY <1>10, <3>2, <4>1 DEF TakeTask, One
    <3> QED BY <3>1, <3>2
  <2>5. One(Head(taskQ) \in Surfaces) \in Nat
    BY DEF One
  <2>6. pending_tasks_num_' >= n' + waits'
    BY <1>0, <1>c, <1>w, <2>2, <2>3, <2>4, <2>5
  <2> QED BY <2>6 DEF n, waits, Counted
<1>11. CASE EncodeMoreData
  BY <1>11, <1>k, <1>l, <1>m DEF EncodeMoreData
<1>12. CASE EncodeNone
  BY <1>12, <1>k, <1>l, <1>m DEF EncodeNone, Code
<1>13. CASE ReleaseInputSurface
  BY <1>13, <1>k, <1>l, <1>m DEF ReleaseInputSurface
<1>14. CASE EncodeDrain
  BY <1>14, <1>k, <1>l, <1>m DEF EncodeDrain, Code
<1>15. ASSUME NEW s \in Surfaces, Unlock(s) PROVE Counted'
  BY <1>15, <1>k, <1>l, <1>m DEF Unlock
<1>16. CASE TakeRelease
  BY <1>16, <1>k, <1>l, <1>m DEF TakeRelease
<1>17. CASE TakeSync
  BY <1>17, <1>k, <1>l, <1>m DEF TakeSync
<1>18. CASE Clean
  BY <1>18, <1>k, <1>l, <1>m DEF Clean, PushCoded
<1>19. CASE TakeNotifyEos
  BY <1>19, <1>k, <1>l, <1>m DEF TakeNotifyEos
<1>20. CASE Deactivate
  BY <1>20, <1>k, <1>l, <1>m DEF Deactivate, Change
<1>21. CASE Deactivated
  BY <1>21, <1>k, <1>l, <1>m DEF Deactivated, Change
<1>22. CASE JoinTaskThread
  <2>1. UNCHANGED <<pending_tasks_num_, ypc>> /\ taskQ' = <<>>
    BY <1>22 DEF JoinTaskThread
  <2>2. n' = 0 /\ waits' = waits
    BY <1>0, <2>1, NumType DEF n, waits, Count
  <2>3. pending_tasks_num_' >= n' + waits'
    BY <1>0, <1>c, <1>n, <1>w, <2>1, <2>2
  <2> QED BY <2>3 DEF n, waits, Counted
<1>23. CASE JoinSyncThread
  BY <1>23, <1>k, <1>l, <1>m DEF JoinSyncThread, Change
<1>24. CASE DisposeEncoder
  BY <1>24, <1>k, <1>l, <1>m DEF DisposeEncoder, Change
<1>25. CASE UNCHANGED vars
  BY <1>25, <1>k, <1>l, <1>m DEF vars
<1> QED
  BY <1>1, <1>2, <1>3, <1>4, <1>5, <1>6, <1>7, <1>8, <1>9, <1>10, <1>11, <1>12, <1>13,
     <1>14, <1>15, <1>16, <1>17, <1>18, <1>19, <1>20, <1>21, <1>22, <1>23, <1>24, <1>25
  DEF Next, DecoderStep, LinkStep, EncoderStep, SyncStep, Shutdown

\* Dispose() waits for the chain call, then stops one thread after the other.
LEMMA PhaseStep ==
  ASSUME TypeInv, PhaseInv, [Next]_vars
  PROVE  PhaseInv'
<1>p. phase \in {"playing", "flushing", "joinTask", "joinSync", "free", "null"}
  BY DEF TypeInv, TypeOK
<1> USE DEF decoder, link, encoder, syncs
<1>1. CASE GetSurface
  BY <1>1 DEF GetSurface, PhaseInv
<1>2. CASE Decode
  BY <1>2 DEF Decode, Prune, PhaseInv
<1>3. CASE Drain
  BY <1>3 DEF Drain, Prune, PhaseInv
<1>4. CASE Refuse
  BY <1>4 DEF Refuse, Prune, PhaseInv
<1>5. CASE TakeShown
  BY <1>5 DEF TakeShown, PhaseInv
<1>6. CASE Push
  BY <1>6 DEF Push, PhaseInv
<1>7. CASE Chain
  BY <1>7 DEF Chain, PhaseInv
<1>8. CASE Erase
  BY <1>8 DEF Erase, PhaseInv
<1>9. CASE SendEos
  BY <1>9 DEF SendEos, PhaseInv
<1>10. CASE TakeTask
  BY <1>10 DEF TakeTask, PhaseInv
<1>11. CASE EncodeMoreData
  BY <1>11 DEF EncodeMoreData, PhaseInv
<1>12. CASE EncodeNone
  BY <1>12 DEF EncodeNone, Code, PhaseInv
<1>13. CASE ReleaseInputSurface
  BY <1>13 DEF ReleaseInputSurface, PhaseInv
<1>14. CASE EncodeDrain
  BY <1>14 DEF EncodeDrain, Code, PhaseInv
<1>15. ASSUME NEW s \in Surfaces, Unlock(s) PROVE PhaseInv'
  BY <1>15 DEF Unlock, PhaseInv
<1>16. CASE TakeRelease
  BY <1>16 DEF TakeRelease, PhaseInv
<1>17. CASE TakeSync
  BY <1>17 DEF TakeSync, PhaseInv
<1>18. CASE Clean
  BY <1>18 DEF Clean, PushCoded, PhaseInv
<1>19. CASE TakeNotifyEos
  BY <1>19 DEF TakeNotifyEos, PhaseInv
<1>20. CASE Deactivate
  BY <1>20 DEF Deactivate, Change, PhaseInv
<1>21. CASE Deactivated
  BY <1>21 DEF Deactivated, Change, PhaseInv
<1>22. CASE JoinTaskThread
  BY <1>22 DEF JoinTaskThread, Change, PhaseInv
<1>23. CASE JoinSyncThread
  BY <1>23 DEF JoinSyncThread, Change, PhaseInv
<1>24. CASE DisposeEncoder
  BY <1>24 DEF DisposeEncoder, Change, PhaseInv
<1>25. CASE UNCHANGED vars
  BY <1>25 DEF vars, PhaseInv
<1> QED
  BY <1>1, <1>2, <1>3, <1>4, <1>5, <1>6, <1>7, <1>8, <1>9, <1>10, <1>11, <1>12, <1>13,
     <1>14, <1>15, <1>16, <1>17, <1>18, <1>19, <1>20, <1>21, <1>22, <1>23, <1>24, <1>25
  DEF Next, DecoderStep, LinkStep, EncoderStep, SyncStep, Shutdown

-----------------------------------------------------------------------------
(* Surfaces.                                                               *)

\* The releases posted, after an append to the queue and after a take.
LEMMA ReleasingAppend ==
  ASSUME NEW q \in Seq(Tasks)
  PROVE  /\ \A s \in Surfaces : Releasing(Append(q, Release(s))) = Releasing(q) \cup {s}
         /\ \A k \in Nat : Releasing(Append(q, SyncOp(k))) = Releasing(q)
         /\ Releasing(Append(q, NotifyEos)) = Releasing(q)
<1>1. Surfaces \subseteq Nat
  BY SizesAssumption DEF Surfaces
<1>2. /\ \A s \in Surfaces : Release(s) \in Tasks
      /\ \A k \in Nat : SyncOp(k) \in Tasks
      /\ NotifyEos \in Tasks
  BY <1>1 DEF Release, SyncOp, NotifyEos, Tasks
<1>3. \A s, u \in Surfaces : Release(s) = Release(u) => s = u
  BY DEF Release
<1>4. \A s \in Surfaces : Release(s) # NotifyEos /\ \A k \in Nat : Release(s) # SyncOp(k)
  BY DEF Release, NotifyEos, SyncOp
<1>5. ASSUME NEW s \in Surfaces
      PROVE  Releasing(Append(q, Release(s))) = Releasing(q) \cup {s}
  <2>1. InQueue(Append(q, Release(s))) = InQueue(q) \cup {Release(s)}
    BY <1>2, InQueueAppend
  <2> QED BY <1>3, <2>1 DEF Releasing
<1>6. ASSUME NEW k \in Nat PROVE Releasing(Append(q, SyncOp(k))) = Releasing(q)
  <2>1. InQueue(Append(q, SyncOp(k))) = InQueue(q) \cup {SyncOp(k)}
    BY <1>2, InQueueAppend
  <2> QED BY <1>4, <2>1 DEF Releasing
<1>7. Releasing(Append(q, NotifyEos)) = Releasing(q)
  <2>1. InQueue(Append(q, NotifyEos)) = InQueue(q) \cup {NotifyEos}
    BY <1>2, InQueueAppend
  <2> QED BY <1>4, <2>1 DEF Releasing
<1> QED BY <1>5, <1>6, <1>7

LEMMA ReleasingTail ==
  ASSUME NEW q \in Seq(Tasks), q # <<>>
  PROVE  /\ Tail(q) \in Seq(Tasks) /\ Releasing(Tail(q)) \subseteq Releasing(q)
         /\ Head(q).kind = "release" =>
              /\ Releasing(q) = Releasing(Tail(q)) \cup ({Head(q).arg} \cap Surfaces)
         /\ Head(q).kind # "release" => Releasing(q) = Releasing(Tail(q))
<1>1. InQueue(q) = InQueue(Tail(q)) \cup {Head(q)} /\ Head(q) \in Tasks /\ Tail(q) \in Seq(Tasks)
  BY InQueueTail, Taken
<1>2. ASSUME Head(q).kind = "release" PROVE \A s \in Surfaces : Release(s) = Head(q) <=> s = Head(q).arg
  BY <1>1, <1>2 DEF Tasks, Release
<1>3. ASSUME Head(q).kind # "release" PROVE \A s \in Surfaces : Release(s) # Head(q)
  BY <1>3 DEF Release
<1>4. Releasing(Tail(q)) \subseteq Releasing(q)
  BY <1>1 DEF Releasing
<1>5. ASSUME Head(q).kind = "release"
      PROVE  Releasing(q) = Releasing(Tail(q)) \cup ({Head(q).arg} \cap Surfaces)
  BY <1>1, <1>2, <1>5 DEF Releasing
<1>6. ASSUME Head(q).kind # "release" PROVE Releasing(q) = Releasing(Tail(q))
  BY <1>1, <1>3, <1>6 DEF Releasing
<1> QED BY <1>1, <1>4, <1>5, <1>6

\* The application stops the pipeline for good.
LEMMA PlayingStep ==
  ASSUME [Next]_vars, phase' = "playing"
  PROVE  phase = "playing"
<1> USE DEF decoder, link, encoder, syncs
<1>1. CASE GetSurface
  BY <1>1 DEF GetSurface
<1>2. CASE Decode
  BY <1>2 DEF Decode, Prune
<1>3. CASE Drain
  BY <1>3 DEF Drain, Prune
<1>4. CASE Refuse
  BY <1>4 DEF Refuse, Prune
<1>5. CASE TakeShown
  BY <1>5 DEF TakeShown
<1>6. CASE Push
  BY <1>6 DEF Push
<1>7. CASE Chain
  BY <1>7 DEF Chain
<1>8. CASE Erase
  BY <1>8 DEF Erase
<1>9. CASE SendEos
  BY <1>9 DEF SendEos
<1>10. CASE TakeTask
  BY <1>10 DEF TakeTask
<1>11. CASE EncodeMoreData
  BY <1>11 DEF EncodeMoreData
<1>12. CASE EncodeNone
  BY <1>12 DEF EncodeNone, Code
<1>13. CASE ReleaseInputSurface
  BY <1>13 DEF ReleaseInputSurface
<1>14. CASE EncodeDrain
  BY <1>14 DEF EncodeDrain, Code
<1>15. ASSUME NEW s \in Surfaces, Unlock(s) PROVE phase = "playing"
  BY <1>15 DEF Unlock
<1>16. CASE TakeRelease
  BY <1>16 DEF TakeRelease
<1>17. CASE TakeSync
  BY <1>17 DEF TakeSync
<1>18. CASE Clean
  BY <1>18 DEF Clean, PushCoded
<1>19. CASE TakeNotifyEos
  BY <1>19 DEF TakeNotifyEos
<1>20. CASE Deactivate
  BY <1>20 DEF Deactivate, Change
<1>21. CASE Deactivated
  BY <1>21 DEF Deactivated, Change
<1>22. CASE JoinTaskThread
  BY <1>22 DEF JoinTaskThread, Change
<1>23. CASE JoinSyncThread
  BY <1>23 DEF JoinSyncThread, Change
<1>24. CASE DisposeEncoder
  BY <1>24 DEF DisposeEncoder, Change
<1>25. CASE UNCHANGED vars
  BY <1>25 DEF vars
<1> QED
  BY <1>1, <1>2, <1>3, <1>4, <1>5, <1>6, <1>7, <1>8, <1>9, <1>10, <1>11, <1>12, <1>13,
     <1>14, <1>15, <1>16, <1>17, <1>18, <1>19, <1>20, <1>21, <1>22, <1>23, <1>24, <1>25
  DEF Next, DecoderStep, LinkStep, EncoderStep, SyncStep, Shutdown
\* A locked surface that the encoder holds, it still holds after a step: Chain is the
\* only step that gives it another one.
EncoderHolds ==
  /\ HeldByEncoder' \subseteq HeldByEncoder \cup {showing, None}
  /\ phase' = "playing" =>
       /\ EncoderKeeps \cap Locked \subseteq EncoderKeeps'
       /\ HeldByEncoder \cap Locked \subseteq HeldByEncoder'
       /\ locked' \subseteq locked \cup ({frame_ref} \cap EncoderKeeps')

LEMMA HoldsStep ==
  ASSUME TypeInv, TypeOK', [Next]_vars
  PROVE  EncoderHolds
<1>0. /\ Eos = None /\ None \notin Surfaces /\ Locked \subseteq Surfaces /\ InQueue(<<>>) = {}
      /\ showing \in Surfaces \cup {Eos} /\ syncQ \in Seq(Tasks) /\ Len(coded) \in Nat
  <2>1. ypc = "push" => showing \in Surfaces
    BY DataTypes DEF TypeInv, TypeOK
  <2> QED BY <2>1, DataTypes DEF TypeInv, TypeOK, Locked
<1>c. Len(coded') \in Nat
  BY LenProperties DEF TypeOK
<1>f. epc \in {"idle", "drain"} <=> frame_ref = None
  BY DEF TypeInv, TypeOK
<1>q. /\ \A s \in Surfaces \cup {Eos} : InQueue(Append(taskQ, s)) = InQueue(taskQ) \cup {s}
      /\ taskQ # <<>> => InQueue(taskQ) = InQueue(Tail(taskQ)) \cup {Head(taskQ)}
  BY Queues DEF TypeInv
<1>h. HeldByEncoder = InQueue(taskQ) \cup EncoderKeeps
      /\ HeldByEncoder' = InQueue(taskQ') \cup EncoderKeeps'
  BY DEF HeldByEncoder, EncoderKeeps, Releasing
\* The sync thread's queue and list, or the encoder's queue, alone.
<1>k. ASSUME UNCHANGED taskQ, EncoderKeeps' \subseteq EncoderKeeps \cup {None},
             phase' = "playing" =>
               /\ EncoderKeeps \cap Locked \subseteq EncoderKeeps'
               /\ locked' \subseteq locked \cup ({frame_ref} \cap EncoderKeeps')
      PROVE  EncoderHolds
  BY <1>h, <1>k DEF EncoderHolds
<1>t. ASSUME UNCHANGED <<frame_ref, syncQ, input_locked_frames_, locked>>,
             InQueue(taskQ') \subseteq InQueue(taskQ) \cup {showing, None},
             phase' = "playing" => InQueue(taskQ) \subseteq InQueue(taskQ')
      PROVE  EncoderHolds
  <2>1. EncoderKeeps' = EncoderKeeps
    BY <1>t DEF EncoderKeeps
  <2> QED BY <1>h, <1>t, <2>1 DEF EncoderHolds
<1> USE DEF decoder, link, encoder, syncs
<1>1. CASE GetSurface
  BY <1>1, <1>t DEF GetSurface
<1>2. CASE Decode
  BY <1>2, <1>t DEF Decode, Prune
<1>3. CASE Drain
  BY <1>3, <1>t DEF Drain, Prune
<1>4. CASE Refuse
  BY <1>4, <1>t DEF Refuse, Prune
<1>5. CASE TakeShown
  BY <1>5, <1>t DEF TakeShown
<1>6. CASE Push
  BY <1>6, <1>t DEF Push
<1>7. CASE Chain
  <2>1. InQueue(taskQ') = InQueue(taskQ) \cup {showing}
    BY <1>7, <1>0, <1>q DEF Chain
  <2> QED BY <1>7, <1>t, <2>1 DEF Chain
<1>8. CASE Erase
  BY <1>8, <1>t DEF Erase
<1>9. CASE SendEos
  <2>1. InQueue(taskQ') \in {InQueue(taskQ), InQueue(taskQ) \cup {None}}
    BY <1>9, <1>0, <1>q DEF SendEos
  <2> QED BY <1>9, <1>t, <2>1 DEF SendEos
<1>10. CASE TakeTask
  <2>1. InQueue(taskQ) = InQueue(taskQ') \cup {frame_ref'} /\ frame_ref = None
        /\ UNCHANGED <<syncQ, input_locked_frames_, locked>>
    BY <1>10, <1>f, <1>q DEF TakeTask
  <2>2. EncoderKeeps' \cup {None} = EncoderKeeps \cup {frame_ref', None} /\ None \in EncoderKeeps
    BY <2>1 DEF EncoderKeeps
  <2>3. HeldByEncoder' \cup {None} = HeldByEncoder
    BY <1>h, <2>1, <2>2
  <2> QED BY <1>0, <2>1, <2>2, <2>3 DEF EncoderHolds
<1>11. CASE EncodeMoreData
  <2>1. UNCHANGED <<taskQ, frame_ref, syncQ, input_locked_frames_>> /\ locked' = locked \cup {frame_ref}
    BY <1>11 DEF EncodeMoreData
  <2>2. EncoderKeeps' = EncoderKeeps /\ frame_ref \in EncoderKeeps
    BY <2>1 DEF EncoderKeeps
  <2> QED BY <1>k, <2>1, <2>2
<1>12. CASE EncodeNone
  <2>1. UNCHANGED <<taskQ, frame_ref, syncQ, input_locked_frames_>> /\ locked' = locked \cup {frame_ref}
    BY <1>12 DEF EncodeNone
  <2>2. EncoderKeeps' = EncoderKeeps /\ frame_ref \in EncoderKeeps
    BY <2>1 DEF EncoderKeeps
  <2> QED BY <1>k, <2>1, <2>2
<1>13. CASE ReleaseInputSurface
  <2>1. /\ frame_ref \in Surfaces /\ Kept \in Seq(Tasks) /\ frame_ref' = None
        /\ syncQ' = IF epc = "release" THEN Kept ELSE Append(Kept, SyncOp(Len(coded)))
        /\ UNCHANGED <<taskQ, input_locked_frames_, locked>>
    BY <1>13, Released DEF ReleaseInputSurface
  <2>2. Releasing(syncQ') = Releasing(Kept)
    BY <1>0, <2>1, ReleasingAppend
  <2>3. Releasing(Kept) = Releasing(syncQ) \cup ({frame_ref} \cap Locked)
    BY <1>0, <2>1, ReleasingAppend DEF Kept
  <2>4. EncoderKeeps' = {None} \cup input_locked_frames_ \cup Releasing(syncQ) \cup ({frame_ref} \cap Locked)
    BY <2>1, <2>2, <2>3 DEF EncoderKeeps
  <2> QED BY <1>k, <2>1, <2>4 DEF EncoderKeeps
<1>14. CASE EncodeDrain
  <2>1. UNCHANGED <<taskQ, frame_ref, input_locked_frames_, locked>>
    BY <1>14 DEF EncodeDrain
  <2>2. Releasing(syncQ') = Releasing(syncQ)
    <3>1. CASE delayed = {}
      BY <1>14, <1>0, <3>1, ReleasingAppend DEF EncodeDrain
    <3>2. CASE delayed # {}
      <4>1. Len(coded') \in Nat
        BY <1>c
      <4> QED BY <1>14, <1>0, <3>2, <4>1, ReleasingAppend DEF EncodeDrain
    <3> QED BY <3>1, <3>2
  <2>3. EncoderKeeps' = EncoderKeeps
    BY <2>1, <2>2 DEF EncoderKeeps
  <2> QED BY <1>k, <2>1, <2>3
<1>15. ASSUME NEW s \in Surfaces, Unlock(s) PROVE EncoderHolds
  <2>1. EncoderKeeps' = EncoderKeeps
    BY <1>15 DEF Unlock, EncoderKeeps
  <2> QED BY <1>15, <1>k, <2>1 DEF Unlock
<1>16. CASE TakeRelease
  <2>1. /\ Releasing(syncQ') \subseteq Releasing(syncQ)
        /\ Releasing(syncQ) = Releasing(syncQ') \cup ({Head(syncQ).arg} \cap Surfaces)
    BY <1>16, <1>0, ReleasingTail DEF TakeRelease
  <2>2. /\ UNCHANGED <<taskQ, frame_ref, locked>>
        /\ input_locked_frames_' = input_locked_frames_ \cup ({Head(syncQ).arg} \cap Locked)
    BY <1>16 DEF TakeRelease
  <2> QED BY <1>0, <1>k, <2>1, <2>2 DEF EncoderKeeps
<1>17. CASE TakeSync
  <2>1. Releasing(syncQ') = Releasing(syncQ)
    BY <1>17, <1>0, ReleasingTail DEF TakeSync
  <2>2. UNCHANGED <<taskQ, frame_ref, input_locked_frames_>> /\ locked' \subseteq locked
    BY <1>17 DEF TakeSync
  <2> QED BY <1>k, <2>1, <2>2 DEF EncoderKeeps
<1>18. CASE Clean
  <2>1. UNCHANGED <<taskQ, frame_ref, syncQ, locked>>
        /\ input_locked_frames_' = input_locked_frames_ \cap Locked
    BY <1>18 DEF Clean, PushCoded
  <2> QED BY <1>k, <2>1 DEF EncoderKeeps
<1>19. CASE TakeNotifyEos
  <2>1. Releasing(syncQ') = Releasing(syncQ)
    BY <1>19, <1>0, ReleasingTail DEF TakeNotifyEos, NotifyEos
  <2>2. UNCHANGED <<taskQ, frame_ref, input_locked_frames_, locked>>
    BY <1>19 DEF TakeNotifyEos
  <2> QED BY <1>k, <2>1, <2>2 DEF EncoderKeeps
<1>20. CASE Deactivate
  BY <1>20, <1>t DEF Deactivate, Change
<1>21. CASE Deactivated
  BY <1>21, <1>t DEF Deactivated, Change
<1>22. CASE JoinTaskThread
  <2>1. InQueue(taskQ') = {}
    BY <1>22, <1>0 DEF JoinTaskThread
  <2> QED BY <1>22, <1>t, <2>1 DEF JoinTaskThread, Change
<1>23. CASE JoinSyncThread
  <2>1. Releasing(syncQ') = {} /\ phase' # "playing"
    BY <1>23, <1>0 DEF JoinSyncThread, Change, Releasing
  <2>2. UNCHANGED <<taskQ, frame_ref, input_locked_frames_>>
    BY <1>23 DEF JoinSyncThread
  <2> QED BY <1>k, <2>1, <2>2 DEF EncoderKeeps
<1>24. CASE DisposeEncoder
  <2>1. UNCHANGED <<taskQ, frame_ref, syncQ>> /\ input_locked_frames_' = {} /\ phase' # "playing"
    BY <1>24 DEF DisposeEncoder, Change
  <2> QED BY <1>k, <2>1 DEF EncoderKeeps
<1>25. CASE UNCHANGED vars
  BY <1>25, <1>t DEF vars
<1> QED
  BY <1>1, <1>2, <1>3, <1>4, <1>5, <1>6, <1>7, <1>8, <1>9, <1>10, <1>11, <1>12, <1>13,
     <1>14, <1>15, <1>16, <1>17, <1>18, <1>19, <1>20, <1>21, <1>22, <1>23, <1>24, <1>25
  DEF Next, DecoderStep, LinkStep, EncoderStep, SyncStep, Shutdown

\* Held frames are locked: TakeSync unlocks only what is coded.
LEMMA DelayedStep ==
  ASSUME delayed \subseteq locked, [Next]_vars
  PROVE  delayed' \subseteq locked'
<1> USE DEF decoder, link, encoder, syncs
<1>1. CASE GetSurface
  BY <1>1 DEF GetSurface
<1>2. CASE Decode
  BY <1>2 DEF Decode, Prune
<1>3. CASE Drain
  BY <1>3 DEF Drain, Prune
<1>4. CASE Refuse
  BY <1>4 DEF Refuse, Prune
<1>5. CASE TakeShown
  BY <1>5 DEF TakeShown
<1>6. CASE Push
  BY <1>6 DEF Push
<1>7. CASE Chain
  BY <1>7 DEF Chain
<1>8. CASE Erase
  BY <1>8 DEF Erase
<1>9. CASE SendEos
  BY <1>9 DEF SendEos
<1>10. CASE TakeTask
  BY <1>10 DEF TakeTask
<1>11. CASE EncodeMoreData
  BY <1>11 DEF EncodeMoreData
<1>12. CASE EncodeNone
  BY <1>12 DEF EncodeNone, Code
<1>13. CASE ReleaseInputSurface
  BY <1>13 DEF ReleaseInputSurface
<1>14. CASE EncodeDrain
  BY <1>14 DEF EncodeDrain, Code
<1>15. ASSUME NEW s \in Surfaces, Unlock(s) PROVE delayed' \subseteq locked'
  BY <1>15 DEF Unlock
<1>16. CASE TakeRelease
  BY <1>16 DEF TakeRelease
<1>17. CASE TakeSync
  BY <1>17 DEF TakeSync
<1>18. CASE Clean
  BY <1>18 DEF Clean, PushCoded
<1>19. CASE TakeNotifyEos
  BY <1>19 DEF TakeNotifyEos
<1>20. CASE Deactivate
  BY <1>20 DEF Deactivate, Change
<1>21. CASE Deactivated
  BY <1>21 DEF Deactivated, Change
<1>22. CASE JoinTaskThread
  BY <1>22 DEF JoinTaskThread, Change
<1>23. CASE JoinSyncThread
  BY <1>23 DEF JoinSyncThread, Change
<1>24. CASE DisposeEncoder
  BY <1>24 DEF DisposeEncoder, Change
<1>25. CASE UNCHANGED vars
  BY <1>25 DEF vars
<1> QED
  BY <1>1, <1>2, <1>3, <1>4, <1>5, <1>6, <1>7, <1>8, <1>9, <1>10, <1>11, <1>12, <1>13,
     <1>14, <1>15, <1>16, <1>17, <1>18, <1>19, <1>20, <1>21, <1>22, <1>23, <1>24, <1>25
  DEF Next, DecoderStep, LinkStep, EncoderStep, SyncStep, Shutdown

\* Nobody takes the work surface: it goes to the sync thread with a frame in it.
LEMMA WorkStep ==
  ASSUME TypeInv, TypeOK', WorkIsAlone, phase = "playing" => WorkIsNotEncoded, [Next]_vars
  PROVE  WorkIsAlone' /\ (phase' = "playing" => WorkIsNotEncoded')
<1>0. Eos = None /\ None \notin Surfaces
  BY DataTypes DEF TypeInv
<1>w. dpc = "decode" => work # None
  BY DEF TypeInv
<1>y. ypc = "idle" => showing = None
  BY DEF TypeInv
<1>q. /\ shown # <<>> => InQueue(shown) = InQueue(Tail(shown)) \cup {Head(shown)}
      /\ InQueue(Append(shown, Eos)) = InQueue(shown) \cup {Eos}
  BY Queues DEF TypeInv
<1>h. HeldByEncoder' \subseteq HeldByEncoder \cup {showing, None}
  BY HoldsStep DEF EncoderHolds
<1>k. ASSUME UNCHANGED <<dpc, work>>, {showing'} \cup InQueue(shown') \subseteq {showing, None} \cup InQueue(shown),
             locked_frames_ \ {showing} \subseteq locked_frames_',
             phase' = "playing" => phase = "playing"
      PROVE  WorkIsAlone' /\ (phase' = "playing" => WorkIsNotEncoded')
  <2>1. WorkIsAlone'
    BY <1>w, <1>k DEF WorkIsAlone
  <2>2. ASSUME phase' = "playing" PROVE WorkIsNotEncoded'
    BY <1>h, <1>k, <1>w, <2>2 DEF WorkIsAlone, WorkIsNotEncoded
  <2> QED BY <2>1, <2>2
<1>n. ASSUME dpc' # "decode" PROVE WorkIsAlone' /\ (phase' = "playing" => WorkIsNotEncoded')
  BY <1>n DEF WorkIsAlone, WorkIsNotEncoded
<1> USE DEF decoder, link, encoder, syncs
<1>1. CASE GetSurface
  <2>1. UNCHANGED <<showing, shown, taskQ, frame_ref, input_locked_frames_, syncQ>>
    BY <1>1 DEF GetSurface
  <2>2. PICK s \in Free : work' = s /\ locked_frames_' = locked_frames_ \cup {s}
    BY <1>1 DEF GetSurface, Least
  <2>3. s \notin {showing} \cup InQueue(shown) /\ s \notin HeldByEncoder
    BY DEF Free, HeldByDecoder
  <2>4. InQueue(shown)' = InQueue(shown) /\ HeldByEncoder' = HeldByEncoder
    BY <2>1 DEF HeldByEncoder
  <2> QED BY <2>1, <2>2, <2>3, <2>4 DEF WorkIsAlone, WorkIsNotEncoded
<1>2. CASE Decode
  BY <1>2, <1>n DEF Decode
<1>3. CASE Drain
  BY <1>3, <1>n DEF Drain
<1>4. CASE Refuse
  BY <1>4, <1>n DEF Refuse
<1>5. CASE TakeShown
  <2>1. InQueue(shown) = InQueue(shown') \cup {Head(shown)}
    BY <1>5, <1>q DEF TakeShown
  <2> QED BY <1>5, <1>k, <2>1 DEF TakeShown
<1>6. CASE Push
  BY <1>6, <1>k DEF Push
<1>7. CASE Chain
  BY <1>7, <1>k DEF Chain
<1>8. CASE Erase
  BY <1>8, <1>k DEF Erase
<1>9. CASE SendEos
  <2>1. InQueue(shown) = InQueue(shown') \cup {Head(shown)}
    BY <1>9, <1>q DEF SendEos
  <2> QED BY <1>9, <1>k, <2>1 DEF SendEos
<1>10. CASE TakeTask
  BY <1>10, <1>k DEF TakeTask
<1>11. CASE EncodeMoreData
  BY <1>11, <1>k DEF EncodeMoreData
<1>12. CASE EncodeNone
  BY <1>12, <1>k DEF EncodeNone, Code
<1>13. CASE ReleaseInputSurface
  BY <1>13, <1>k DEF ReleaseInputSurface
<1>14. CASE EncodeDrain
  BY <1>14, <1>k DEF EncodeDrain, Code
<1>15. ASSUME NEW s \in Surfaces, Unlock(s) PROVE WorkIsAlone' /\ (phase' = "playing" => WorkIsNotEncoded')
  BY <1>15, <1>k DEF Unlock
<1>16. CASE TakeRelease
  BY <1>16, <1>k DEF TakeRelease
<1>17. CASE TakeSync
  BY <1>17, <1>k DEF TakeSync
<1>18. CASE Clean
  BY <1>18, <1>k DEF Clean, PushCoded
<1>19. CASE TakeNotifyEos
  BY <1>19, <1>k DEF TakeNotifyEos
<1>20. CASE Deactivate
  BY <1>20, <1>k DEF Deactivate, Change
<1>21. CASE Deactivated
  BY <1>21, <1>k DEF Deactivated, Change
<1>22. CASE JoinTaskThread
  BY <1>22, <1>k DEF JoinTaskThread, Change
<1>23. CASE JoinSyncThread
  BY <1>23, <1>k DEF JoinSyncThread, Change
<1>24. CASE DisposeEncoder
  BY <1>24, <1>k DEF DisposeEncoder, Change
<1>25. CASE UNCHANGED vars
  BY <1>25, <1>k DEF vars
<1> QED
  BY <1>1, <1>2, <1>3, <1>4, <1>5, <1>6, <1>7, <1>8, <1>9, <1>10, <1>11, <1>12, <1>13,
     <1>14, <1>15, <1>16, <1>17, <1>18, <1>19, <1>20, <1>21, <1>22, <1>23, <1>24, <1>25
  DEF Next, DecoderStep, LinkStep, EncoderStep, SyncStep, Shutdown

\* What the encoder locks it keeps: the surface it encodes goes to its sync thread.
LEMMA LockedStep ==
  ASSUME TypeInv, TypeOK', phase = "playing" => LockedIsKept, [Next]_vars
  PROVE  phase' = "playing" => LockedIsKept'
<1> SUFFICES ASSUME phase' = "playing" PROVE LockedIsKept'
  OBVIOUS
<1>1. phase = "playing"
  BY PlayingStep
<1>2. locked \subseteq Locked
  BY DEF Locked
<1>3. EncoderKeeps \cap Locked \subseteq EncoderKeeps' /\ locked' \subseteq locked \cup ({frame_ref} \cap EncoderKeeps')
  BY HoldsStep DEF EncoderHolds
<1> QED BY <1>1, <1>2, <1>3 DEF LockedIsKept

\* The decoder's references: the encoder has a frame before the decoder lets go of it.
LEMMA ReferencesStep ==
  ASSUME TypeInv, TypeOK', WorkIsAlone, phase = "playing" => ReferencesAreKept, [Next]_vars
  PROVE  phase' = "playing" => ReferencesAreKept'
<1> SUFFICES ASSUME phase' = "playing" PROVE ReferencesAreKept'
  OBVIOUS
<1>0. Eos = None /\ None \notin Surfaces /\ showing \in Surfaces \cup {Eos}
  BY DataTypes DEF TypeInv, TypeOK
<1>r. references \subseteq HeldByEncoder \cup (locked_frames_ \ Letting)
  BY PlayingStep DEF ReferencesAreKept
<1>l. references \subseteq Locked
  BY DEF Locked
<1>h. HeldByEncoder \cap Locked \subseteq HeldByEncoder'
  BY HoldsStep DEF EncoderHolds
<1>q. \A s \in Surfaces \cup {Eos} : InQueue(Append(taskQ, s)) = InQueue(taskQ) \cup {s}
  BY Queues DEF TypeInv
<1>k. ASSUME UNCHANGED references, locked_frames_ \subseteq locked_frames_', Letting' \subseteq Letting
      PROVE  ReferencesAreKept'
  BY <1>h, <1>k, <1>l, <1>r DEF ReferencesAreKept
\* Prune() keeps what the decoder still needs.
<1>p. ASSUME Prune, UNCHANGED <<ypc, showing, taskQ, frame_ref, input_locked_frames_, syncQ>>,
             references' \subseteq references \cup (locked_frames_ \ {showing})
      PROVE  ReferencesAreKept'
  <2>1. Letting' = Letting /\ Letting \subseteq {showing} /\ HeldByEncoder' = HeldByEncoder
    BY <1>p DEF Letting, HeldByEncoder
  <2>2. references' \subseteq Locked'
    BY DEF Locked
  <2>3. locked_frames_' = locked_frames_ \cap Locked'
    BY <1>p DEF Prune
  <2> QED BY <1>p, <1>r, <2>1, <2>2, <2>3 DEF ReferencesAreKept
<1>w. dpc = "decode" => work \in locked_frames_ /\ work # showing
  BY DEF WorkIsAlone
<1> USE DEF decoder, link, encoder, syncs
<1>1. CASE GetSurface
  BY <1>1, <1>k DEF GetSurface, Letting
<1>2. CASE Decode
  BY <1>2, <1>p, <1>w DEF Decode, KeepReferences
<1>3. CASE Drain
  BY <1>3, <1>p, <1>w DEF Drain, KeepReferences
<1>4. CASE Refuse
  BY <1>4, <1>p DEF Refuse
<1>5. CASE TakeShown
  BY <1>5, <1>k DEF TakeShown, Letting
<1>6. CASE Push
  BY <1>6, <1>k DEF Push, Letting
<1>7. CASE Chain
  <2>1. InQueue(taskQ') = InQueue(taskQ) \cup {showing}
    BY <1>7, <1>0, <1>q DEF Chain
  <2>2. UNCHANGED <<references, locked_frames_>> /\ Letting' = {showing} /\ showing \in HeldByEncoder'
    BY <1>7, <2>1 DEF Chain, Letting, HeldByEncoder
  <2> QED BY <1>h, <1>l, <1>r, <2>2 DEF ReferencesAreKept
<1>8. CASE Erase
  <2>1. UNCHANGED references /\ Letting = {showing} /\ Letting' = {}
        /\ locked_frames_' = locked_frames_ \ {showing}
    BY <1>8 DEF Erase, Letting
  <2> QED BY <1>h, <1>l, <1>r, <2>1 DEF ReferencesAreKept
<1>9. CASE SendEos
  BY <1>9, <1>k DEF SendEos, Letting
<1>10. CASE TakeTask
  BY <1>10, <1>k DEF TakeTask, Letting
<1>11. CASE EncodeMoreData
  BY <1>11, <1>k DEF EncodeMoreData, Letting
<1>12. CASE EncodeNone
  BY <1>12, <1>k DEF EncodeNone, Code, Letting
<1>13. CASE ReleaseInputSurface
  BY <1>13, <1>k DEF ReleaseInputSurface, Letting
<1>14. CASE EncodeDrain
  BY <1>14, <1>k DEF EncodeDrain, Code, Letting
<1>15. ASSUME NEW s \in Surfaces, Unlock(s) PROVE ReferencesAreKept'
  BY <1>15, <1>k DEF Unlock, Letting
<1>16. CASE TakeRelease
  BY <1>16, <1>k DEF TakeRelease, Letting
<1>17. CASE TakeSync
  BY <1>17, <1>k DEF TakeSync, Letting
<1>18. CASE Clean
  BY <1>18, <1>k DEF Clean, PushCoded, Letting
<1>19. CASE TakeNotifyEos
  BY <1>19, <1>k DEF TakeNotifyEos, Letting
<1>20. CASE Deactivate
  BY <1>20, <1>k DEF Deactivate, Change, Letting
<1>21. CASE Deactivated
  BY <1>21, <1>k DEF Deactivated, Change, Letting
<1>22. CASE JoinTaskThread
  BY <1>22, <1>k DEF JoinTaskThread, Change, Letting
<1>23. CASE JoinSyncThread
  BY <1>23, <1>k DEF JoinSyncThread, Change, Letting
<1>24. CASE DisposeEncoder
  BY <1>24, <1>k DEF DisposeEncoder, Change, Letting
<1>25. CASE UNCHANGED vars
  BY <1>25, <1>k DEF vars, Letting
<1> QED
  BY <1>1, <1>2, <1>3, <1>4, <1>5, <1>6, <1>7, <1>8, <1>9, <1>10, <1>11, <1>12, <1>13,
     <1>14, <1>15, <1>16, <1>17, <1>18, <1>19, <1>20, <1>21, <1>22, <1>23, <1>24, <1>25
  DEF Next, DecoderStep, LinkStep, EncoderStep, SyncStep, Shutdown

LEMMA HeldStep ==
  ASSUME TypeInv, TypeOK', HeldInv, [Next]_vars
  PROVE  HeldInv'
<1>1. delayed' \subseteq locked'
  BY DelayedStep DEF HeldInv
<1>2. WorkIsAlone' /\ (phase' = "playing" => WorkIsNotEncoded')
  BY WorkStep DEF HeldInv
<1>3. phase' = "playing" => LockedIsKept'
  BY LockedStep DEF HeldInv
<1>4. phase' = "playing" => ReferencesAreKept'
  BY ReferencesStep DEF HeldInv
<1> QED BY <1>1, <1>2, <1>3, <1>4 DEF HeldInv

-----------------------------------------------------------------------------
(* Frames and operations, while the pipeline plays.                        *)

\* Positions are integers.
LEMMA PositionTypes ==
  ASSUME TypeOK
  PROVE  /\ Count(shown, Surfaces) \in Nat /\ Count(taskQ, Surfaces) \in Nat
         /\ Decoded \in Int /\ Shown \in Int /\ Sent \in Int /\ Received \in Int /\ Encoded \in Int
<1>1. Count(shown, Surfaces) \in Nat /\ Count(taskQ, Surfaces) \in Nat /\ Decoded \in Int
  BY DataTypes, CountType
<1>2. Shown \in Int
  BY <1>1 DEF Shown
<1>3. Sent \in Int
  BY <1>2 DEF Sent, One
<1>4. Received \in Int
  BY <1>1, <1>3 DEF Received
<1>5. Encoded \in Int
  BY <1>4 DEF Encoded, One
<1> QED BY <1>1, <1>2, <1>3, <1>4, <1>5

\* A frame written into another surface does not matter.
LEMMA InOrderElsewhere ==
  ASSUME NEW q, NEW T, NEW f, NEW g, NEW base, NEW x,
         InOrder(q, T, f, base), x \notin InQueue(q), \A y \in T : y # x => g[y] = f[y]
  PROVE  InOrder(q, T, g, base)
  BY DEF InOrder, InQueue

\* The frames are where they should be, and the encoder takes one on when it leaves
\* EncodeFrameAsync().
EncodedOne == Encoded' = IF epc = "encode" /\ epc' # "encode" THEN Encoded + 1 ELSE Encoded

LEMMA LineStep ==
  ASSUME TypeInv, TypeOK', HeldInv, LineInv, [Next]_vars, phase' = "playing"
  PROVE  LineInv' /\ EncodedOne
<1>0. /\ Eos = None /\ None \notin Surfaces /\ phase = "playing"
      /\ shown \in Seq(Surfaces \cup {Eos}) /\ taskQ \in Seq(Surfaces \cup {Eos})
      /\ MaxFrames \in Nat /\ left \in Nat
  BY PlayingStep, DataTypes DEF TypeInv
<1>p. /\ Count(shown, Surfaces) \in Nat /\ Count(taskQ, Surfaces) \in Nat
      /\ Decoded \in Int /\ Shown \in Int /\ Sent \in Int /\ Received \in Int
  BY PositionTypes DEF TypeInv
<1>t. Count(shown', Surfaces) \in Nat /\ Count(taskQ', Surfaces) \in Nat
  BY CountType DEF TypeOK
<1>o. /\ InOrder(shown, Surfaces, frameOf, Shown)
      /\ InOrder(taskQ, Surfaces, frameOf, Received)
  BY DEF LineInv
<1>h. Pushing => frameOf[showing] = Shown
  BY DEF LineInv
<1>f. epc = "encode" => frameOf[frame_ref] = Received
  BY DEF LineInv
<1>e. ASSUME Received' = Received, epc' = "encode" => epc = "encode" PROVE EncodedOne
  BY <1>e, <1>p DEF EncodedOne, Encoded, One
<1>k. ASSUME UNCHANGED <<frameOf, shown, taskQ, left>>, Pushing' <=> Pushing,
             Pushing' => showing' = showing,
             epc' = "encode" => epc = "encode" /\ frame_ref' = frame_ref
      PROVE  LineInv' /\ EncodedOne
  <2>1. Shown' = Shown
    BY <1>k DEF Shown, Decoded
  <2>2. One(Pushing)' = One(Pushing)
    BY <1>k DEF One
  <2>3. Received' = Received
    BY <1>k, <2>1, <2>2 DEF Received, Sent
  <2>4. InOrder(shown, Surfaces, frameOf, Shown)' /\ InOrder(taskQ, Surfaces, frameOf, Received)'
    BY <1>k, <1>o, <2>1, <2>3 DEF InOrder
  <2> QED BY <1>e, <1>f, <1>h, <1>k, <2>1, <2>3, <2>4 DEF LineInv
<1>c. \A s \in Surfaces : One(s \in Surfaces) = 1 /\ One(Eos \in Surfaces) = 0
  BY <1>0 DEF One
<1> USE DEF decoder, link, encoder, syncs
<1>1. CASE GetSurface
  BY <1>1, <1>0, <1>k DEF GetSurface, Pushing
<1>2. CASE Decode
  <2>1. /\ UNCHANGED <<taskQ, frame_ref, showing, ypc, epc>> /\ shown' = Append(shown, work)
        /\ frameOf' = [frameOf EXCEPT ![work] = MaxFrames - left + 1] /\ left' = left - 1
        /\ dpc = "decode"
    BY <1>2 DEF Decode
  <2>2. work \in Surfaces
    BY <2>1 DEF TypeInv, TypeOK
  <2>3. /\ work \notin InQueue(shown) /\ work # showing
        /\ work \notin InQueue(taskQ) /\ work # frame_ref
    BY <1>0, <2>1 DEF HeldInv, WorkIsAlone, WorkIsNotEncoded, HeldByEncoder
  <2>4. frameOf \in [Surfaces -> 0 .. MaxFrames]
    BY DEF TypeInv, TypeOK
  <2>5. (\A s \in Surfaces : s # work => frameOf'[s] = frameOf[s]) /\ frameOf'[work] = Decoded + 1
    BY <2>1, <2>2, <2>4 DEF Decoded
  <2>6. Count(shown', Surfaces) = Count(shown, Surfaces) + 1
    BY <1>0, <1>c, <2>1, <2>2, CountAppend
  <2>7. Shown' = Shown
    <3>1. Decoded' = Decoded + 1
      BY <1>0, <2>1 DEF Decoded
    <3> QED BY <1>p, <2>6, <3>1 DEF Shown
  <2>8. Received' = Received
    BY <2>1, <2>7 DEF Received, Sent, Pushing
  <2>9. InOrder(shown, Surfaces, frameOf', Shown) /\ InOrder(taskQ, Surfaces, frameOf', Received)
    BY <1>o, <2>3, <2>5, InOrderElsewhere
  <2>10. InOrder(shown', Surfaces, frameOf', Shown)
    <3>1. frameOf'[work] = Shown + Count(shown, Surfaces) + 1
      BY <1>p, <2>5 DEF Shown
    <3> QED BY <1>0, <1>p, <2>1, <2>2, <2>9, <3>1, InOrderAppend
  <2>11. Pushing' => frameOf'[showing'] = Shown'
    <3>1. Pushing => showing \in Surfaces
      BY <1>0 DEF Pushing, TypeInv, TypeOK
    <3> QED BY <1>h, <2>1, <2>3, <2>5, <2>7, <3>1 DEF Pushing
  <2>12. epc' = "encode" => frameOf'[frame_ref'] = Received'
    <3>1. epc = "encode" => frame_ref \in Surfaces
      BY <1>0 DEF TypeInv, TypeOK
    <3> QED BY <1>f, <2>1, <2>3, <2>5, <2>8, <3>1
  <2> QED BY <1>e, <2>1, <2>7, <2>8, <2>9, <2>10, <2>11, <2>12 DEF LineInv
<1>3. CASE Drain
  <2>1. UNCHANGED <<frameOf, left, taskQ, frame_ref, showing, ypc, epc>>
        /\ shown' = Append(shown, Eos)
    BY <1>3 DEF Drain
  <2>2. Count(shown', Surfaces) = Count(shown, Surfaces) + One(Eos \in Surfaces)
    BY <1>0, <2>1, CountAppend
  <2>3. One(Eos \in Surfaces) = 0
    BY <1>0 DEF One
  <2>4. Shown' = Shown
    BY <1>p, <2>1, <2>2, <2>3 DEF Shown, Decoded
  <2>5. Received' = Received
    BY <2>1, <2>4 DEF Received, Sent, Pushing
  <2>6. InOrder(shown', Surfaces, frameOf, Shown)
    BY <1>0, <1>o, <1>p, <2>1, InOrderAppend
  <2> QED BY <1>e, <1>f, <1>h, <1>o, <2>1, <2>4, <2>5, <2>6 DEF LineInv, Pushing
<1>4. CASE Refuse
  BY <1>4, <1>0, <1>k DEF Refuse, Prune, Pushing
<1>5. CASE TakeShown
  <2>1. /\ UNCHANGED <<frameOf, left, taskQ, frame_ref, epc>> /\ shown' = Tail(shown)
        /\ showing' = Head(shown) /\ Head(shown) # Eos /\ shown # <<>>
        /\ ~Pushing /\ Pushing'
    BY <1>5 DEF TakeShown, Pushing
  <2>2. Head(shown) \in Surfaces
    BY <1>0, <2>1, Taken
  <2>3. Count(shown, Surfaces) = Count(shown', Surfaces) + 1
    BY <1>0, <1>c, <2>1, <2>2, CountTail
  <2>4. Count(shown', Surfaces) \in Nat
    BY <1>t
  <2>5. Shown' = Shown + 1
    BY <1>p, <2>1, <2>3, <2>4 DEF Shown, Decoded
  <2>6. Sent' = Sent
    <3>1. One(Pushing) = 0 /\ One(Pushing)' = 1
      BY <2>1 DEF One
    <3> QED BY <1>p, <2>5, <3>1 DEF Sent
  <2>7. Received' = Received
    BY <2>1, <2>6 DEF Received
  <2>8. frameOf[showing'] = Shown' /\ InOrder(shown', Surfaces, frameOf, Shown')
    <3>1. /\ frameOf[Head(shown)] = Shown + 1
          /\ InOrder(Tail(shown), Surfaces, frameOf, Shown + One(Head(shown) \in Surfaces))
      BY <1>0, <1>o, <1>p, <2>1, <2>2, InOrderTail
    <3>2. One(Head(shown) \in Surfaces) = 1
      BY <2>2 DEF One
    <3> QED BY <2>1, <2>5, <3>1, <3>2
  <2> QED BY <1>e, <1>f, <1>o, <2>1, <2>7, <2>8 DEF LineInv
<1>6. CASE Push
  BY <1>6, <1>0, <1>k DEF Push, Pushing
<1>7. CASE Chain
  <2>1. /\ UNCHANGED <<frameOf, left, shown, frame_ref, epc, showing>>
        /\ taskQ' = Append(taskQ, showing) /\ ~Pushing' /\ Pushing /\ ypc = "chain"
    BY <1>7 DEF Chain, Pushing
  <2>2. showing \in Surfaces
    BY <1>0, <2>1 DEF TypeInv, TypeOK
  <2>3. Shown' = Shown
    BY <2>1 DEF Shown, Decoded
  <2>4. Sent' = Sent + 1 /\ Shown = Sent + 1
    <3>1. One(Pushing) = 1 /\ One(Pushing)' = 0
      BY <2>1 DEF One
    <3> QED BY <1>p, <2>3, <3>1 DEF Sent
  <2>5. Count(taskQ', Surfaces) = Count(taskQ, Surfaces) + 1
    BY <1>0, <1>c, <2>1, <2>2, CountAppend
  <2>6. Received' = Received
    BY <1>p, <2>4, <2>5 DEF Received
  <2>7. InOrder(taskQ', Surfaces, frameOf, Received)
    <3>1. frameOf[showing] = Received + Count(taskQ, Surfaces) + 1
      BY <1>h, <1>p, <2>1, <2>4 DEF Received
    <3> QED BY <1>0, <1>o, <1>p, <2>1, <2>2, <3>1, InOrderAppend
  <2> QED BY <1>e, <1>f, <1>o, <2>1, <2>3, <2>6, <2>7 DEF LineInv
<1>8. CASE Erase
  BY <1>8, <1>0, <1>k DEF Erase, Pushing
<1>9. CASE SendEos
  <2>1. /\ UNCHANGED <<frameOf, left, frame_ref, epc, showing, ypc>> /\ shown # <<>>
        /\ shown' = Tail(shown) /\ Head(shown) = Eos /\ taskQ' = Append(taskQ, Eos)
    BY <1>9, <1>0 DEF SendEos
  <2>2. One(Eos \in Surfaces) = 0
    BY <1>0 DEF One
  <2>3. Count(shown, Surfaces) = Count(shown', Surfaces) + One(Eos \in Surfaces)
        /\ Count(taskQ', Surfaces) = Count(taskQ, Surfaces) + One(Eos \in Surfaces)
    BY <1>0, <2>1, CountTail, CountAppend
  <2>4. Count(shown', Surfaces) \in Nat
    BY <1>t
  <2>5. Count(shown', Surfaces) = Count(shown, Surfaces) /\ Count(taskQ', Surfaces) = Count(taskQ, Surfaces)
    BY <1>p, <2>2, <2>3, <2>4
  <2>6. Shown' = Shown
    BY <2>1, <2>5 DEF Shown, Decoded
  <2>7. Received' = Received
    BY <2>1, <2>5, <2>6 DEF Received, Sent, Pushing
  <2>8. InOrder(shown', Surfaces, frameOf, Shown)
    <3>1. InOrder(Tail(shown), Surfaces, frameOf, Shown + One(Eos \in Surfaces))
      BY <1>0, <1>o, <1>p, <2>1, InOrderTail
    <3> QED BY <1>p, <2>1, <2>2, <3>1
  <2>9. InOrder(taskQ', Surfaces, frameOf, Received)
    BY <1>0, <1>o, <1>p, <2>1, InOrderAppend
  <2> QED BY <1>e, <1>f, <1>h, <2>1, <2>6, <2>7, <2>8, <2>9 DEF LineInv, Pushing
<1>10. CASE TakeTask
  <2>1. /\ UNCHANGED <<frameOf, left, shown, showing, ypc>> /\ taskQ # <<>>
        /\ taskQ' = Tail(taskQ) /\ frame_ref' = Head(taskQ) /\ epc = "idle"
    BY <1>10 DEF TakeTask
  <2>2. Shown' = Shown
    BY <2>1 DEF Shown, Decoded
  <2>3. Sent' = Sent
    BY <2>1, <2>2 DEF Sent, Pushing
  <2>4. Count(taskQ, Surfaces) = Count(taskQ', Surfaces) + One(Head(taskQ) \in Surfaces)
    BY <1>0, <2>1, CountTail
  <2>5. Count(taskQ', Surfaces) \in Nat /\ One(Head(taskQ) \in Surfaces) \in 0 .. 1
    BY <1>t DEF One
  <2>6. Received' = Received + One(Head(taskQ) \in Surfaces)
    BY <1>p, <2>3, <2>4, <2>5 DEF Received
  <2>7. /\ Head(taskQ) \in Surfaces => frameOf[Head(taskQ)] = Received + 1
        /\ InOrder(taskQ', Surfaces, frameOf, Received')
    BY <1>0, <1>o, <1>p, <2>1, <2>6, InOrderTail
  <2>8. CASE Head(taskQ) = Eos
    <3>1. epc' = "drain" /\ One(Head(taskQ) \in Surfaces) = 0
      BY <1>10, <1>0, <2>8 DEF TakeTask, One
    <3>2. Received' = Received
      BY <1>p, <2>6, <3>1
    <3> QED BY <1>e, <1>h, <1>o, <2>1, <2>2, <2>7, <3>1, <3>2 DEF LineInv, Pushing
  <2>9. CASE Head(taskQ) # Eos
    <3>1. epc' = "encode" /\ Head(taskQ) \in Surfaces
      BY <1>10, <1>0, <2>1, <2>9, Taken DEF TakeTask
    <3>2. One(Head(taskQ) \in Surfaces) = 1
      BY <3>1 DEF One
    <3>3. Received' = Received + 1
      BY <2>6, <3>2
    <3>4. EncodedOne
      <4>1. One(epc = "encode") = 0 /\ One(epc = "encode")' = 1
        BY <2>1, <3>1 DEF One
      <4>2. Encoded' = Encoded
        BY <1>p, <3>3, <4>1 DEF Encoded
      <4> QED BY <2>1, <4>2 DEF EncodedOne
    <3>5. frameOf'[frame_ref'] = Received'
      BY <2>1, <2>7, <3>1, <3>3
    <3> QED BY <1>h, <1>o, <2>1, <2>2, <2>7, <3>4, <3>5 DEF LineInv, Pushing
  <2> QED BY <2>8, <2>9
<1>11. CASE EncodeMoreData
  BY <1>11, <1>0, <1>k DEF EncodeMoreData, Pushing
<1>12. CASE EncodeNone
  BY <1>12, <1>0, <1>k DEF EncodeNone, Code, Pushing
<1>13. CASE ReleaseInputSurface
  BY <1>13, <1>0, <1>k DEF ReleaseInputSurface, Pushing
<1>14. CASE EncodeDrain
  BY <1>14, <1>0, <1>k DEF EncodeDrain, Code, Pushing
<1>15. ASSUME NEW s \in Surfaces, Unlock(s) PROVE LineInv' /\ EncodedOne
  BY <1>15, <1>0, <1>k DEF Unlock, Pushing
<1>16. CASE TakeRelease
  BY <1>16, <1>0, <1>k DEF TakeRelease, Pushing
<1>17. CASE TakeSync
  BY <1>17, <1>0, <1>k DEF TakeSync, Pushing
<1>18. CASE Clean
  BY <1>18, <1>0, <1>k DEF Clean, PushCoded, Pushing
<1>19. CASE TakeNotifyEos
  BY <1>19, <1>0, <1>k DEF TakeNotifyEos, Pushing
<1>20. CASE Deactivate
  BY <1>20, <1>0, <1>k DEF Deactivate, Change, Pushing
<1>21. CASE Deactivated
  BY <1>21, <1>0, <1>k DEF Deactivated, Change, Pushing
<1>22. CASE JoinTaskThread
  BY <1>22, <1>0, <1>k DEF JoinTaskThread, Change, Pushing
<1>23. CASE JoinSyncThread
  BY <1>23, <1>0, <1>k DEF JoinSyncThread, Change, Pushing
<1>24. CASE DisposeEncoder
  BY <1>24, <1>0, <1>k DEF DisposeEncoder, Change, Pushing
<1>25. CASE UNCHANGED vars
  BY <1>25, <1>0, <1>k DEF vars, Pushing
<1> QED
  BY <1>1, <1>2, <1>3, <1>4, <1>5, <1>6, <1>7, <1>8, <1>9, <1>10, <1>11, <1>12, <1>13,
     <1>14, <1>15, <1>16, <1>17, <1>18, <1>19, <1>20, <1>21, <1>22, <1>23, <1>24, <1>25
  DEF Next, DecoderStep, LinkStep, EncoderStep, SyncStep, Shutdown

\* The encoder holds back each frame that it takes on, or codes one of them.
LEMMA CodedStep ==
  ASSUME TypeInv, TypeOK', HeldInv, LineInv, CodedInv, EncodedOne, [Next]_vars, phase' = "playing"
  PROVE  CodedInv'
<1>0. /\ phase = "playing" /\ IsFiniteSet(Surfaces) /\ coded \in Seq(1 .. MaxFrames)
      /\ Len(coded) \in Nat /\ delayed \subseteq Surfaces /\ Encoded \in Int /\ Received \in Int
      /\ frameOf \in [Surfaces -> 0 .. MaxFrames]
  BY PlayingStep, DataTypes, PositionTypes DEF TypeInv, TypeOK
<1>l. Len(coded) + Cardinality(delayed) = Encoded
  BY DEF CodedInv
<1>f. {frameOf[s] : s \in delayed} \cup InQueue(coded) = 1 .. Encoded
  BY DEF CodedInv
<1>w. dpc = "decode" => work \notin delayed
  BY <1>0 DEF HeldInv, WorkIsNotEncoded, LockedIsKept, HeldByEncoder, EncoderKeeps, Releasing
<1>k. ASSUME UNCHANGED <<delayed, coded>>, Encoded' = Encoded, \A s \in delayed : frameOf'[s] = frameOf[s]
      PROVE  CodedInv'
  <2>1. {frameOf'[s] : s \in delayed'} = {frameOf[s] : s \in delayed}
    BY <1>k
  <2> QED BY <1>f, <1>k, <1>l, <2>1 DEF CodedInv
<1>e. ASSUME epc # "encode" \/ epc' = "encode" PROVE Encoded' = Encoded
  BY <1>e DEF EncodedOne
\* The frame the encoder is about to take on is the next.
<1>r. ASSUME epc = "encode"
      PROVE  LET ready == delayed \cup {frame_ref}
             IN  /\ frame_ref \in Surfaces \ delayed
                 /\ Len(coded) + Cardinality(ready) = Encoded + 1
                 /\ {frameOf[s] : s \in ready} \cup InQueue(coded) = 1 .. Encoded + 1
  <2>1. frame_ref \in Surfaces
    BY <1>r DEF TypeInv, TypeOK
  <2>2. frameOf[frame_ref] = Encoded + 1
    BY <1>0, <1>r DEF LineInv, Encoded, One
  <2>3. frame_ref \notin delayed
    BY <1>0, <1>f, <2>2
  <2>4. IsFiniteSet(delayed) /\ Cardinality(delayed) \in Nat
    BY <1>0, FS_Subset, FS_CardinalityType
  <2>5. Cardinality(delayed \cup {frame_ref}) = Cardinality(delayed) + 1
    BY <2>3, <2>4, FS_AddElement
  <2>6. Len(coded) + Cardinality(delayed \cup {frame_ref}) = Encoded + 1
    BY <1>0, <1>l, <2>4, <2>5
  <2>7. Encoded \in Nat
    BY <1>0, <1>l, <2>4
  <2>8. 1 .. Encoded + 1 = (1 .. Encoded) \cup {Encoded + 1}
    BY <2>7
  <2>9. {frameOf[s] : s \in delayed \cup {frame_ref}} = {frameOf[s] : s \in delayed} \cup {Encoded + 1}
    BY <2>2
  <2> QED BY <1>f, <2>1, <2>3, <2>6, <2>8, <2>9
\* It codes one of those it can, or holds them all back.
<1>c. ASSUME NEW ready \in SUBSET Surfaces, UNCHANGED frameOf, Code(ready), NEW n,
             Len(coded) + Cardinality(ready) = n, Encoded' = n,
             {frameOf[s] : s \in ready} \cup InQueue(coded) = 1 .. n
      PROVE  CodedInv'
  <2>1. PICK s \in ready : delayed' = ready \ {s} /\ coded' = Append(coded, frameOf[s])
    BY <1>c DEF Code
  <2>2. frameOf[s] \in 1 .. MaxFrames
    <3>1. frameOf[s] \in 0 .. MaxFrames /\ frameOf[s] \in 1 .. n
      BY <1>0, <1>c, <2>1
    <3>2. n \in Int /\ MaxFrames \in Nat
      <4>1. Cardinality(ready) \in Nat
        BY <1>0, FS_Subset, FS_CardinalityType
      <4> QED BY <1>0, <1>c, <4>1, SizesAssumption
    <3> QED BY <3>1, <3>2
  <2>3. InQueue(coded') = InQueue(coded) \cup {frameOf[s]} /\ Len(coded') = Len(coded) + 1
    <3>1. InQueue(Append(coded, frameOf[s])) = InQueue(coded) \cup {frameOf[s]}
      <4> DEFINE Numbers == 1 .. MaxFrames
      <4>1. coded \in Seq(Numbers) /\ frameOf[s] \in Numbers
        BY <1>0, <2>2
      <4> HIDE DEF Numbers
      <4> QED BY <4>1, InQueueAppend
    <3>2. Len(Append(coded, frameOf[s])) = Len(coded) + 1
      BY <1>0, <2>2, Appended
    <3> QED BY <2>1, <3>1, <3>2
  <2>4. IsFiniteSet(ready) /\ Cardinality(ready) \in Nat /\ Cardinality(ready \ {s}) \in Nat
        /\ Cardinality(ready \ {s}) = Cardinality(ready) - 1
    <3>1. IsFiniteSet(ready) /\ IsFiniteSet(ready \ {s})
      BY <1>0, FS_Subset
    <3>2. Cardinality(ready) \in Nat /\ Cardinality(ready \ {s}) \in Nat
      BY <3>1, FS_CardinalityType
    <3>3. Cardinality(ready \ {s}) = Cardinality(ready) - 1
      BY <2>1, <3>1, FS_RemoveElement
    <3> QED BY <3>1, <3>2, <3>3
  <2>5. Len(coded') + Cardinality(delayed') = n
    BY <1>0, <1>c, <2>1, <2>3, <2>4
  <2>6. {frameOf'[u] : u \in delayed'} \cup InQueue(coded') = 1 .. n
    <3>1. {frameOf[u] : u \in ready} = {frameOf[u] : u \in ready \ {s}} \cup {frameOf[s]}
      BY <2>1
    <3>2. {frameOf'[u] : u \in delayed'} = {frameOf[u] : u \in ready \ {s}}
      BY <1>c, <2>1
    <3> QED BY <1>c, <2>3, <3>1, <3>2
  <2> QED BY <1>c, <2>5, <2>6 DEF CodedInv
<1> USE DEF decoder, link, encoder, syncs
<1>1. CASE GetSurface
  BY <1>1, <1>0, <1>e, <1>k DEF GetSurface
<1>2. CASE Decode
  <2>1. UNCHANGED <<delayed, coded, epc>> /\ frameOf' = [frameOf EXCEPT ![work] = MaxFrames - left + 1]
        /\ dpc = "decode"
    BY <1>2 DEF Decode
  <2>2. \A s \in delayed : frameOf'[s] = frameOf[s]
    BY <1>0, <1>w, <2>1
  <2> QED BY <1>e, <1>k, <2>1, <2>2
<1>3. CASE Drain
  BY <1>3, <1>0, <1>e, <1>k DEF Drain, Prune
<1>4. CASE Refuse
  BY <1>4, <1>0, <1>e, <1>k DEF Refuse, Prune
<1>5. CASE TakeShown
  BY <1>5, <1>0, <1>e, <1>k DEF TakeShown
<1>6. CASE Push
  BY <1>6, <1>0, <1>e, <1>k DEF Push
<1>7. CASE Chain
  BY <1>7, <1>0, <1>e, <1>k DEF Chain
<1>8. CASE Erase
  BY <1>8, <1>0, <1>e, <1>k DEF Erase
<1>9. CASE SendEos
  BY <1>9, <1>0, <1>e, <1>k DEF SendEos
<1>10. CASE TakeTask
  BY <1>10, <1>0, <1>e, <1>k DEF TakeTask
<1>11. CASE EncodeMoreData
  <2>1. UNCHANGED <<frameOf, coded>> /\ delayed' = delayed \cup {frame_ref} /\ epc = "encode" /\ epc' = "release"
    BY <1>11 DEF EncodeMoreData
  <2>2. Encoded' = Encoded + 1
    BY <2>1 DEF EncodedOne
  <2>3. {frameOf'[s] : s \in delayed'} = {frameOf[s] : s \in delayed \cup {frame_ref}}
    BY <2>1
  <2> QED BY <1>r, <2>1, <2>2, <2>3 DEF CodedInv
<1>12. CASE EncodeNone
  <2>1. /\ UNCHANGED frameOf /\ Code(delayed \cup {frame_ref}) /\ epc = "encode"
        /\ epc' = "release and sync"
    BY <1>12 DEF EncodeNone
  <2>2. Encoded' = Encoded + 1
    BY <2>1 DEF EncodedOne
  <2>3. delayed \cup {frame_ref} \in SUBSET Surfaces
    BY <1>0, <1>r, <2>1
  <2> QED BY <1>c, <1>r, <2>1, <2>2, <2>3
<1>13. CASE ReleaseInputSurface
  BY <1>13, <1>0, <1>e, <1>k DEF ReleaseInputSurface
<1>14. CASE EncodeDrain
  <2>1. UNCHANGED frameOf /\ epc = "drain"
    BY <1>14 DEF EncodeDrain
  <2>2. Encoded' = Encoded
    BY <1>e, <2>1
  <2>3. CASE delayed = {}
    BY <1>14, <1>k, <2>1, <2>2, <2>3 DEF EncodeDrain
  <2>4. CASE delayed # {}
    BY <1>14, <1>0, <1>c, <1>f, <1>l, <2>1, <2>2, <2>4 DEF EncodeDrain
  <2> QED BY <2>3, <2>4
<1>15. ASSUME NEW s \in Surfaces, Unlock(s) PROVE CodedInv'
  BY <1>15, <1>0, <1>e, <1>k DEF Unlock
<1>16. CASE TakeRelease
  BY <1>16, <1>0, <1>e, <1>k DEF TakeRelease
<1>17. CASE TakeSync
  BY <1>17, <1>0, <1>e, <1>k DEF TakeSync
<1>18. CASE Clean
  BY <1>18, <1>0, <1>e, <1>k DEF Clean, PushCoded
<1>19. CASE TakeNotifyEos
  BY <1>19, <1>0, <1>e, <1>k DEF TakeNotifyEos
<1>20. CASE Deactivate
  BY <1>20, <1>0, <1>e, <1>k DEF Deactivate, Change
<1>21. CASE Deactivated
  BY <1>21, <1>0, <1>e, <1>k DEF Deactivated, Change
<1>22. CASE JoinTaskThread
  BY <1>22, <1>0, <1>e, <1>k DEF JoinTaskThread, Change
<1>23. CASE JoinSyncThread
  BY <1>23, <1>0, <1>e, <1>k DEF JoinSyncThread, Change
<1>24. CASE DisposeEncoder
  BY <1>24, <1>0, <1>e, <1>k DEF DisposeEncoder, Change
<1>25. CASE UNCHANGED vars
  BY <1>25, <1>0, <1>e, <1>k DEF vars
<1> QED
  BY <1>1, <1>2, <1>3, <1>4, <1>5, <1>6, <1>7, <1>8, <1>9, <1>10, <1>11, <1>12, <1>13,
     <1>14, <1>15, <1>16, <1>17, <1>18, <1>19, <1>20, <1>21, <1>22, <1>23, <1>24, <1>25
  DEF Next, DecoderStep, LinkStep, EncoderStep, SyncStep, Shutdown

\* A coded frame comes after those before.
LEMMA CodeAppends ==
  ASSUME TypeInv, NEW ready, ready \subseteq delayed \cup {frame_ref}, None \notin ready, Code(ready)
  PROVE  /\ Len(coded') = Len(coded) + 1
         /\ \A i \in DOMAIN coded : i \in DOMAIN coded' /\ coded'[i] = coded[i]
<1> DEFINE Numbers == 1 .. MaxFrames
<1>1. PICK s \in ready : coded' = Append(coded, frameOf[s])
  BY DEF Code
<1>2. frameOf[s] \in 0 .. MaxFrames /\ frameOf[s] > 0 /\ MaxFrames \in Nat
  <2>1. s \in Surfaces /\ s \in PassedOn \ {None}
    BY <1>1 DEF PassedOn, TypeInv, TypeOK
  <2> QED BY <2>1, DataTypes DEF TypeInv, TypeOK
<1>3. coded \in Seq(Numbers) /\ frameOf[s] \in Numbers
  <2>1. coded \in Seq(Numbers)
    BY DEF TypeInv, TypeOK
  <2>2. frameOf[s] \in Numbers
    BY <1>2
  <2> QED BY <2>1, <2>2
<1> HIDE DEF Numbers
<1>4. /\ Len(coded) \in Nat /\ DOMAIN coded = 1 .. Len(coded)
      /\ Len(coded') = Len(coded) + 1 /\ DOMAIN coded' = 1 .. Len(coded) + 1
      /\ \A i \in 1 .. Len(coded) : coded'[i] = coded[i]
  BY <1>1, <1>3, Appended
<1> QED BY <1>4

\* Tasks that are no operation change nothing in the order of those that are.
LEMMA NoOperation ==
  ASSUME NEW q \in Seq(Tasks), NEW base \in Int, InOrder(q, IsSync, Operation, base)
  PROVE  /\ \A t \in Tasks \ IsSync : /\ InOrder(Append(q, t), IsSync, Operation, base)
                                       /\ Count(Append(q, t), IsSync) = Count(q, IsSync)
         /\ q # <<>> /\ Head(q) \notin IsSync =>
              /\ InOrder(Tail(q), IsSync, Operation, base)
              /\ Count(Tail(q), IsSync) = Count(q, IsSync)
<1>1. ASSUME NEW t \in Tasks, t \notin IsSync
      PROVE  /\ InOrder(Append(q, t), IsSync, Operation, base)
             /\ Count(Append(q, t), IsSync) = Count(q, IsSync)
  <2>1. One(t \in IsSync) = 0
    BY <1>1 DEF One
  <2>2. Count(q, IsSync) \in Nat /\ Count(Append(q, t), IsSync) = Count(q, IsSync) + One(t \in IsSync)
    BY CountType, CountAppend
  <2> QED BY <1>1, <2>1, <2>2, InOrderAppend
<1>2. ASSUME q # <<>>, Head(q) \notin IsSync
      PROVE  /\ InOrder(Tail(q), IsSync, Operation, base)
             /\ Count(Tail(q), IsSync) = Count(q, IsSync)
  <2>1. One(Head(q) \in IsSync) = 0
    BY <1>2 DEF One
  <2>2. Count(Tail(q), IsSync) \in Nat /\ Count(q, IsSync) = Count(Tail(q), IsSync) + One(Head(q) \in IsSync)
    BY <1>2, CountType, CountTail, Taken
  <2>3. InOrder(Tail(q), IsSync, Operation, base + One(Head(q) \in IsSync))
    BY <1>2, InOrderTail
  <2> QED BY <2>1, <2>2, <2>3
<1> QED BY <1>1, <1>2

\* An operation comes after those before.
LEMMA AnOperation ==
  ASSUME NEW q \in Seq(Tasks), NEW base \in Int, InOrder(q, IsSync, Operation, base)
  PROVE  /\ \A t \in IsSync : Operation[t] = base + Count(q, IsSync) + 1 =>
              /\ Append(q, t) \in Seq(Tasks) /\ InOrder(Append(q, t), IsSync, Operation, base)
              /\ Count(Append(q, t), IsSync) = Count(q, IsSync) + 1
         /\ q # <<>> /\ Head(q) \in IsSync =>
              /\ Operation[Head(q)] = base + 1
              /\ InOrder(Tail(q), IsSync, Operation, base + 1)
              /\ Count(q, IsSync) = Count(Tail(q), IsSync) + 1
<1>1. ASSUME NEW t \in IsSync, Operation[t] = base + Count(q, IsSync) + 1
      PROVE  /\ Append(q, t) \in Seq(Tasks) /\ InOrder(Append(q, t), IsSync, Operation, base)
             /\ Count(Append(q, t), IsSync) = Count(q, IsSync) + 1
  <2>1. t \in Tasks /\ One(t \in IsSync) = 1
    BY DEF One, IsSync
  <2>2. Count(Append(q, t), IsSync) = Count(q, IsSync) + One(t \in IsSync)
    BY <2>1, CountAppend
  <2>3. Append(q, t) \in Seq(Tasks)
    BY <2>1, Appended
  <2> QED BY <1>1, <2>1, <2>2, <2>3, InOrderAppend
<1>2. ASSUME q # <<>>, Head(q) \in IsSync
      PROVE  /\ Operation[Head(q)] = base + 1
             /\ InOrder(Tail(q), IsSync, Operation, base + 1)
             /\ Count(q, IsSync) = Count(Tail(q), IsSync) + 1
  <2>1. One(Head(q) \in IsSync) = 1
    BY <1>2 DEF One
  <2>2. Count(q, IsSync) = Count(Tail(q), IsSync) + One(Head(q) \in IsSync)
    BY <1>2, CountTail
  <2>3. InOrder(Tail(q), IsSync, Operation, base + One(Head(q) \in IsSync))
        /\ Operation[Head(q)] = base + 1
    BY <1>2, InOrderTail
  <2> QED BY <2>1, <2>2, <2>3
<1> QED BY <1>1, <1>2

\* The operations are posted, taken and pushed in the order of the coded frames.
LEMMA OpsStep ==
  ASSUME TypeInv, TypeOK', OpsInv, [Next]_vars, phase' = "playing"
  PROVE  OpsInv'
<1> DEFINE n == Count(syncQ, IsSync)
           due == One(epc = "release and sync")
<1>0. /\ None \notin Surfaces /\ syncQ \in Seq(Tasks) /\ Len(coded) \in Nat /\ Len(pushed) \in Nat
      /\ \A s \in Surfaces : Release(s) \in Tasks \ IsSync
      /\ \A k \in Nat : SyncOp(k) \in Tasks /\ SyncOp(k) \in IsSync
      /\ NotifyEos \in Tasks \ IsSync /\ phase = "playing"
  BY DataTypes, PlayingStep DEF TypeInv
<1>c. n \in Nat
  BY <1>0, CountType
<1>d. /\ epc = "release and sync" => due = 1
      /\ epc # "release and sync" => due = 0
      /\ epc' = "release and sync" => due' = 1
      /\ epc' # "release and sync" => due' = 0
  BY DEF One
<1>t. due \in Nat
  BY DEF One
<1>i. Issued \in Nat
  BY <1>0 DEF Issued, One
<1>o. \A k \in Nat : Operation[SyncOp(k)] = k
  BY <1>0 DEF Operation, SyncOp
<1>p. \A i \in DOMAIN pushed : i \in DOMAIN coded /\ pushed[i] = coded[i]
  BY DEF OpsInv
<1>s. zpc = "push" => syncing = Len(pushed) + 1
  BY DEF OpsInv
<1>q. InOrder(syncQ, IsSync, Operation, Issued)
  BY DEF OpsInv
<1>l. Len(coded) = Issued + n + due
  BY DEF OpsInv
<1>n. /\ \A t \in Tasks \ IsSync : /\ InOrder(Append(syncQ, t), IsSync, Operation, Issued)
                                    /\ Count(Append(syncQ, t), IsSync) = n
      /\ syncQ # <<>> /\ Head(syncQ) \notin IsSync =>
           /\ InOrder(Tail(syncQ), IsSync, Operation, Issued)
           /\ Count(Tail(syncQ), IsSync) = n
  BY <1>0, <1>i, <1>q, NoOperation
<1>a. /\ \A t \in IsSync : Operation[t] = Issued + n + 1 =>
           /\ InOrder(Append(syncQ, t), IsSync, Operation, Issued)
           /\ Count(Append(syncQ, t), IsSync) = n + 1
      /\ syncQ # <<>> /\ Head(syncQ) \in IsSync =>
           /\ Operation[Head(syncQ)] = Issued + 1
           /\ InOrder(Tail(syncQ), IsSync, Operation, Issued + 1)
           /\ n = Count(Tail(syncQ), IsSync) + 1
  BY <1>0, <1>i, <1>q, AnOperation
<1>y. n' = Count(syncQ', IsSync)
  OBVIOUS
<1>z. ASSUME Len(coded') = Issued' + n' + due', InOrder(syncQ', IsSync, Operation, Issued'),
             zpc' = "push" => syncing' = Len(pushed') + 1,
             \A i \in DOMAIN pushed' : i \in DOMAIN coded' /\ pushed'[i] = coded'[i]
      PROVE  OpsInv'
  BY <1>z DEF OpsInv
<1> HIDE DEF n, due
\* The queue may change, but for its operations.
<1>k. ASSUME UNCHANGED <<pushed, coded, zpc, syncing>>,
             InOrder(syncQ', IsSync, Operation, Issued), Count(syncQ', IsSync) = n,
             epc' = "release and sync" <=> epc = "release and sync"
      PROVE  OpsInv'
  <2>1. Issued' = Issued
    BY <1>k DEF Issued
  <2>2. due' = due
    BY <1>k DEF due, One
  <2>3. Len(coded') = Issued' + n' + due'
    BY <1>k, <1>l, <1>y, <2>1, <2>2
  <2> QED BY <1>k, <1>p, <1>s, <1>z, <2>1, <2>3
<1>u. ASSUME UNCHANGED <<pushed, coded, zpc, syncing, syncQ>>,
             epc' = "release and sync" <=> epc = "release and sync"
      PROVE  OpsInv'
  BY <1>k, <1>q, <1>u DEF n
\* A coded frame, and an operation for it, now or next.
<1>e. ASSUME UNCHANGED <<pushed, zpc, syncing>>, Len(coded') = n' + Issued + due',
             \A i \in DOMAIN coded : i \in DOMAIN coded' /\ coded'[i] = coded[i],
             InOrder(syncQ', IsSync, Operation, Issued), n' \in Nat, due' \in Nat
      PROVE  OpsInv'
  <2>1. Issued' = Issued
    BY <1>e DEF Issued
  <2>2. \A a, b, c \in Nat : b + a + c = a + b + c
    OBVIOUS
  <2>3. Len(coded') = Issued' + n' + due'
    BY <1>e, <1>i, <2>1, <2>2
  <2> QED BY <1>e, <1>p, <1>s, <1>z, <2>1, <2>3
<1> USE DEF decoder, link, encoder, syncs
<1>1. CASE GetSurface
  BY <1>1, <1>0, <1>u DEF GetSurface
<1>2. CASE Decode
  BY <1>2, <1>0, <1>u DEF Decode, Prune
<1>3. CASE Drain
  BY <1>3, <1>0, <1>u DEF Drain, Prune
<1>4. CASE Refuse
  BY <1>4, <1>0, <1>u DEF Refuse, Prune
<1>5. CASE TakeShown
  BY <1>5, <1>0, <1>u DEF TakeShown
<1>6. CASE Push
  BY <1>6, <1>0, <1>u DEF Push
<1>7. CASE Chain
  BY <1>7, <1>0, <1>u DEF Chain
<1>8. CASE Erase
  BY <1>8, <1>0, <1>u DEF Erase
<1>9. CASE SendEos
  BY <1>9, <1>0, <1>u DEF SendEos
<1>10. CASE TakeTask
  BY <1>10, <1>0, <1>u DEF TakeTask
<1>11. CASE EncodeMoreData
  BY <1>11, <1>0, <1>u DEF EncodeMoreData
<1>12. CASE EncodeNone
  <2>1. /\ UNCHANGED <<pushed, zpc, syncing, syncQ>> /\ epc = "encode" /\ epc' = "release and sync"
        /\ Code(delayed \cup {frame_ref})
    BY <1>12 DEF EncodeNone
  <2>2. None \notin delayed \cup {frame_ref}
    BY <1>0, <2>1 DEF TypeInv, TypeOK
  <2>3. /\ Len(coded') = Len(coded) + 1
        /\ \A i \in DOMAIN coded : i \in DOMAIN coded' /\ coded'[i] = coded[i]
    BY <2>1, <2>2, CodeAppends
  <2>4. due = 0 /\ due' = 1
    BY <1>d, <2>1
  <2>5. n' = n
    BY <2>1 DEF n
  <2>6. Len(coded') = n' + Issued + due'
    BY <1>c, <1>i, <1>l, <2>3, <2>4, <2>5
  <2> QED BY <1>c, <1>e, <1>q, <2>1, <2>3, <2>4, <2>5, <2>6
<1>13. CASE ReleaseInputSurface
  <2>1. /\ frame_ref \in Surfaces /\ Kept \in Seq(Tasks)
        /\ syncQ' = IF epc = "release" THEN Kept ELSE Append(Kept, SyncOp(Len(coded)))
        /\ UNCHANGED <<pushed, coded, zpc, syncing>> /\ epc' = "idle"
        /\ epc \in {"release", "release and sync"}
    BY <1>13, Released DEF ReleaseInputSurface
  <2>2. InOrder(Kept, IsSync, Operation, Issued) /\ Count(Kept, IsSync) = n
    BY <1>0, <1>n, <1>q, <2>1 DEF Kept, n
  <2>3. CASE epc = "release"
    BY <1>k, <2>1, <2>2, <2>3
  <2>4. CASE epc = "release and sync"
    <3>1. syncQ' = Append(Kept, SyncOp(Len(coded)))
      BY <2>1, <2>4
    <3>2. due = 1 /\ due' = 0
      BY <1>d, <2>1, <2>4
    <3>3. Operation[SyncOp(Len(coded))] = Issued + n + 1
      BY <1>0, <1>l, <1>o, <3>2
    <3>4. InOrder(syncQ', IsSync, Operation, Issued) /\ Count(syncQ', IsSync) = n + 1
      <4>1. \A t \in IsSync : Operation[t] = Issued + Count(Kept, IsSync) + 1 =>
              /\ InOrder(Append(Kept, t), IsSync, Operation, Issued)
              /\ Count(Append(Kept, t), IsSync) = Count(Kept, IsSync) + 1
        <5>1. Kept \in Seq(Tasks)
          BY <2>1
        <5>2. InOrder(Kept, IsSync, Operation, Issued)
          BY <2>2
        <5>3. Issued \in Int
          BY <1>i
        <5> QED BY <5>1, <5>2, <5>3, AnOperation
      <4> QED BY <1>0, <2>2, <3>1, <3>3, <4>1
    <3>5. n' = n + 1 /\ n' \in Nat /\ due' \in Nat
      BY <1>c, <1>y, <3>2, <3>4
    <3>6. Len(coded') = n' + Issued + due'
      <4>1. Len(coded') = Len(coded)
        BY <2>1
      <4> QED BY <1>c, <1>i, <1>l, <3>2, <3>5, <4>1
    <3> QED BY <1>e, <2>1, <3>4, <3>5, <3>6
  <2> QED BY <2>1, <2>3, <2>4
<1>14. CASE EncodeDrain
  <2>1. UNCHANGED <<pushed, zpc, syncing, frame_ref>> /\ epc = "drain" /\ epc' # "release and sync"
    BY <1>14 DEF EncodeDrain
  <2>2. CASE delayed = {}
    <3>1. syncQ' = Append(syncQ, NotifyEos) /\ UNCHANGED coded
      BY <1>14, <2>2 DEF EncodeDrain
    <3> QED BY <1>0, <1>k, <1>n, <2>1, <3>1
  <2>3. CASE delayed # {}
    <3>1. Code(delayed) /\ syncQ' = Append(syncQ, SyncOp(Len(coded')))
      BY <1>14, <2>3 DEF EncodeDrain
    <3>2. None \notin delayed
      BY <1>0 DEF TypeInv, TypeOK
    <3>3. /\ Len(coded') = Len(coded) + 1
          /\ \A i \in DOMAIN coded : i \in DOMAIN coded' /\ coded'[i] = coded[i]
      BY <3>1, <3>2, CodeAppends
    <3>4. due = 0 /\ due' = 0
      BY <1>d, <2>1
    <3>5. Len(coded') = Issued + n + 1 /\ Len(coded') \in Nat
      BY <1>c, <1>i, <1>l, <3>3, <3>4
    <3>6. SyncOp(Len(coded')) \in IsSync /\ Operation[SyncOp(Len(coded'))] = Issued + n + 1
      BY <1>0, <1>o, <3>5
    <3>7. InOrder(syncQ', IsSync, Operation, Issued) /\ Count(syncQ', IsSync) = n + 1
      BY <1>a, <3>1, <3>6
    <3>8. Len(coded') = n' + Issued + due'
      BY <1>c, <1>i, <1>y, <3>4, <3>5, <3>7
    <3>9. n' \in Nat /\ due' \in Nat
      BY <1>c, <1>y, <3>4, <3>7
    <3> QED BY <1>e, <2>1, <3>3, <3>7, <3>8, <3>9
  <2> QED BY <2>2, <2>3
<1>15. ASSUME NEW s \in Surfaces, Unlock(s) PROVE OpsInv'
  BY <1>15, <1>0, <1>u DEF Unlock
<1>16. CASE TakeRelease
  <2>1. /\ UNCHANGED <<pushed, coded, zpc, syncing, epc>> /\ syncQ' = Tail(syncQ) /\ syncQ # <<>>
        /\ Head(syncQ) \notin IsSync
    BY <1>16 DEF TakeRelease, IsSync
  <2> QED BY <1>k, <1>n, <2>1
<1>17. CASE TakeSync
  <2>1. /\ UNCHANGED <<pushed, coded, epc>> /\ syncQ' = Tail(syncQ) /\ syncQ # <<>>
        /\ zpc = "idle" /\ zpc' = "push" /\ syncing' = Head(syncQ).arg /\ Head(syncQ).kind = "sync"
    BY <1>17 DEF TakeSync
  <2>2. Head(syncQ) \in IsSync /\ Operation[Head(syncQ)] = Head(syncQ).arg
    <3>1. Head(syncQ) \in Tasks
      BY <1>0, <2>1, Taken
    <3> QED BY <2>1, <3>1 DEF IsSync, Operation
  <2>3. Issued = Len(pushed) /\ Issued' = Len(pushed) + 1
    BY <1>0, <2>1 DEF Issued, One
  <2>4. /\ Operation[Head(syncQ)] = Issued + 1
        /\ InOrder(syncQ', IsSync, Operation, Issued')
        /\ n = n' + 1
    BY <1>a, <1>y, <2>1, <2>2, <2>3
  <2>5. n' \in Nat
    BY <1>0, <1>y, <2>1, CountType, Taken
  <2>6. due' = due
    BY <2>1 DEF due
  <2>7. Len(coded') = Issued' + n' + due'
    BY <1>0, <1>l, <1>t, <2>1, <2>3, <2>4, <2>5, <2>6
  <2>8. syncing' = Len(pushed') + 1
    BY <2>1, <2>2, <2>3, <2>4
  <2> QED BY <1>p, <1>z, <2>1, <2>4, <2>7, <2>8
<1>18. CASE Clean
  <2>1. /\ UNCHANGED <<coded, epc, syncQ>> /\ zpc = "push" /\ zpc' = "idle"
        /\ pushed' = Append(pushed, coded[syncing])
    BY <1>18, <1>0 DEF Clean, PushCoded
  <2>2. syncing = Len(pushed) + 1 /\ Issued = Len(pushed) + 1
    BY <1>s, <2>1 DEF Issued, One
  <2>3. Len(coded) >= Issued
    BY <1>0, <1>c, <1>i, <1>l, <1>t
  <2>4. syncing \in 1 .. Len(coded)
    BY <1>0, <2>2, <2>3
  <2> DEFINE Numbers == 1 .. MaxFrames
  <2>5. pushed \in Seq(Numbers) /\ coded \in Seq(Numbers)
    BY DEF TypeInv, TypeOK
  <2> HIDE DEF Numbers
  <2>6. coded[syncing] \in Numbers /\ DOMAIN coded = 1 .. Len(coded)
    BY <2>4, <2>5, ElementOfSeq, LenProperties
  <2>7. /\ DOMAIN pushed = 1 .. Len(pushed) /\ DOMAIN pushed' = 1 .. Len(pushed) + 1
        /\ Len(pushed') = Len(pushed) + 1
        /\ \A i \in 1 .. Len(pushed) : pushed'[i] = pushed[i]
        /\ pushed'[Len(pushed) + 1] = coded[syncing]
    BY <2>1, <2>5, <2>6, Appended
  <2>8. \A i \in DOMAIN pushed' : i \in DOMAIN pushed \/ i = Len(pushed) + 1
    BY <1>0, <2>7
  <2>9. \A i \in DOMAIN pushed' : i \in DOMAIN coded' /\ pushed'[i] = coded'[i]
    BY <1>p, <2>1, <2>2, <2>4, <2>6, <2>7, <2>8
  <2>10. Issued' = Issued
    BY <1>0, <2>1, <2>2, <2>7 DEF Issued, One
  <2>11. n' = n /\ due' = due
    BY <2>1 DEF n, due
  <2> QED BY <1>l, <1>q, <1>z, <2>1, <2>9, <2>10, <2>11
<1>19. CASE TakeNotifyEos
  <2>1. /\ UNCHANGED <<pushed, coded, zpc, syncing, epc>> /\ syncQ' = Tail(syncQ) /\ syncQ # <<>>
        /\ Head(syncQ) \notin IsSync
    BY <1>19, <1>0 DEF TakeNotifyEos
  <2> QED BY <1>k, <1>n, <2>1
<1>20. CASE Deactivate
  BY <1>20, <1>0, <1>u DEF Deactivate, Change
<1>21. CASE Deactivated
  BY <1>21, <1>0, <1>u DEF Deactivated, Change
<1>22. CASE JoinTaskThread
  BY <1>22, <1>0, <1>u DEF JoinTaskThread, Change
<1>23. CASE JoinSyncThread
  BY <1>23, <1>0, <1>u DEF JoinSyncThread, Change
<1>24. CASE DisposeEncoder
  BY <1>24, <1>0, <1>u DEF DisposeEncoder, Change
<1>25. CASE UNCHANGED vars
  BY <1>25, <1>0, <1>u DEF vars
<1> QED
  BY <1>1, <1>2, <1>3, <1>4, <1>5, <1>6, <1>7, <1>8, <1>9, <1>10, <1>11, <1>12, <1>13,
     <1>14, <1>15, <1>16, <1>17, <1>18, <1>19, <1>20, <1>21, <1>22, <1>23, <1>24, <1>25
  DEF Next, DecoderStep, LinkStep, EncoderStep, SyncStep, Shutdown

-----------------------------------------------------------------------------
(* The end of the stream.                                                  *)

\* An entry that comes last, after an append and after a take.
LEMMA LastAppend ==
  ASSUME NEW S, NEW q \in Seq(S), NEW x, NEW y \in S, x \notin InQueue(q)
  PROVE  IsLast(Append(q, y), x)
<1>1. /\ Len(q) \in Nat /\ DOMAIN q = 1 .. Len(q) /\ DOMAIN Append(q, y) = 1 .. Len(q) + 1
      /\ \A i \in 1 .. Len(q) : Append(q, y)[i] = q[i]
      /\ Len(Append(q, y)) = Len(q) + 1
  BY Appended
<1>2. \A i \in 1 .. Len(q) + 1 : i \in 1 .. Len(q) \/ i = Len(q) + 1
  BY <1>1
<1> QED BY <1>1, <1>2 DEF IsLast, InQueue

LEMMA LastTail ==
  ASSUME NEW S, NEW q \in Seq(S), q # <<>>, NEW x, IsLast(q, x)
  PROVE  /\ IsLast(Tail(q), x)
         /\ Head(q) = x => Tail(q) = <<>> /\ InQueue(Tail(q)) = {}
<1>1. /\ Len(q) \in Nat \ {0} /\ DOMAIN q = 1 .. Len(q) /\ DOMAIN Tail(q) = 1 .. Len(q) - 1
      /\ Head(q) = q[1] /\ \A i \in 1 .. Len(q) - 1 : Tail(q)[i] = q[i + 1]
      /\ Tail(q) \in Seq(S) /\ Len(Tail(q)) = Len(q) - 1
  BY Taken
<1>2. ASSUME NEW i \in DOMAIN Tail(q), Tail(q)[i] = x PROVE i = Len(Tail(q))
  <2>1. i + 1 \in DOMAIN q /\ q[i + 1] = x
    BY <1>1, <1>2
  <2>2. i + 1 = Len(q)
    BY <2>1 DEF IsLast
  <2> QED BY <1>1, <2>2
<1>3. ASSUME Head(q) = x PROVE Tail(q) = <<>> /\ InQueue(Tail(q)) = {}
  <2>1. 1 = Len(q)
    BY <1>1, <1>3 DEF IsLast
  <2>2. Tail(q) = <<>>
    <3>1. Tail(q) \in Seq(S) /\ Len(Tail(q)) = 0
      BY <1>1, <2>1
    <3> QED BY <3>1, EmptySeq
  <2> QED BY <2>2, EmptySeq DEF InQueue
<1> QED BY <1>2, <1>3 DEF IsLast

\* EOS goes through every queue as the last task of the stream.
LEMMA EosStep ==
  ASSUME TypeInv, TypeOK', EosInv, [Next]_vars, phase' = "playing"
  PROVE  EosInv'
<1>0. /\ Eos = None /\ None \notin Surfaces /\ phase = "playing"
      /\ shown \in Seq(Surfaces \cup {Eos}) /\ taskQ \in Seq(Surfaces \cup {Eos})
      /\ syncQ \in Seq(Tasks) /\ NotifyEos \in Tasks /\ InQueue(<<>>) = {}
      /\ \A s \in Surfaces : Release(s) \in Tasks /\ Release(s) # NotifyEos
      /\ \A k \in Nat : SyncOp(k) \in Tasks /\ SyncOp(k) # NotifyEos
      /\ Len(coded) \in Nat
  BY PlayingStep, DataTypes DEF TypeInv
<1>n. Len(coded') \in Nat
  BY LenProperties DEF TypeOK
<1>s. IsLast(shown, Eos) /\ (Eos \in InQueue(shown) => dpc = "done") /\ (dpc = "done" => left = 0)
  BY DEF EosInv
<1>t. IsLast(taskQ, Eos) /\ (Eos \in InQueue(taskQ) => LinkDone)
  BY DEF EosInv
<1>e. epc = "drain" => LinkDone /\ taskQ = <<>>
  BY DEF EosInv
<1>z. IsLast(syncQ, NotifyEos) /\ (NotifyEos \in InQueue(syncQ) => EncoderDone)
  BY DEF EosInv
<1>o. eosOut => EncoderDone /\ syncQ = <<>> /\ zpc = "idle"
  BY DEF EosInv
<1>d. EncoderDone => LinkDone
  BY DEF EncoderDone
<1>q. /\ \A s \in Surfaces \cup {Eos} :
           /\ InQueue(Append(shown, s)) = InQueue(shown) \cup {s}
           /\ InQueue(Append(taskQ, s)) = InQueue(taskQ) \cup {s}
      /\ shown # <<>> => /\ InQueue(shown) = InQueue(Tail(shown)) \cup {Head(shown)}
                         /\ Head(shown) \in Surfaces \cup {Eos}
      /\ taskQ # <<>> => /\ InQueue(taskQ) = InQueue(Tail(taskQ)) \cup {Head(taskQ)}
                         /\ Head(taskQ) \in Surfaces \cup {Eos}
  BY Queues DEF TypeInv
\* While frames are on their way, EOS is at most in the decoder's queue.
<1>l. ASSUME ~LinkDone, UNCHANGED <<epc, syncQ, eosOut>>,
             IsLast(shown', Eos), Eos \in InQueue(shown') => dpc' = "done",
             dpc' = "done" => left' = 0, Eos \notin InQueue(taskQ')
      PROVE  EosInv'
  <2>1. IsLast(taskQ', Eos)
    BY <1>l DEF IsLast, InQueue
  <2> QED BY <1>d, <1>e, <1>l, <1>o, <1>z, <2>1 DEF EosInv
\* After that, in the encoder's queue, or with its task thread ...
<1>m. ASSUME ~EncoderDone, UNCHANGED <<dpc, left, shown, ypc, eosOut>>,
             IsLast(taskQ', Eos), Eos \in InQueue(taskQ') => LinkDone,
             epc' = "drain" => LinkDone /\ taskQ' = <<>>, NotifyEos \notin InQueue(syncQ')
      PROVE  EosInv'
  <2>1. LinkDone' = LinkDone
    BY <1>m DEF LinkDone
  <2>2. IsLast(syncQ', NotifyEos)
    BY <1>m DEF IsLast, InQueue
  <2> QED BY <1>m, <1>o, <1>s, <2>1, <2>2 DEF EosInv
\* ... and then in the queue of its sync thread.
<1>y. ASSUME UNCHANGED <<dpc, left, shown, ypc, taskQ, epc, delayed>>,
             IsLast(syncQ', NotifyEos), NotifyEos \in InQueue(syncQ') => EncoderDone,
             eosOut' => EncoderDone /\ syncQ' = <<>> /\ zpc' = "idle"
      PROVE  EosInv'
  <2>1. LinkDone' = LinkDone
    BY <1>y DEF LinkDone
  <2>2. EncoderDone' = EncoderDone
    BY <1>y, <2>1 DEF EncoderDone
  <2> QED BY <1>e, <1>s, <1>t, <1>y, <2>1, <2>2 DEF EosInv
<1> USE DEF decoder, link, encoder, syncs
<1>1. CASE GetSurface
  BY <1>1, <1>l, <1>s, <1>t DEF GetSurface, LinkDone
<1>2. CASE Decode
  <2>1. /\ UNCHANGED <<epc, syncQ, eosOut, taskQ>> /\ dpc = "decode" /\ dpc' = "get"
        /\ shown' = Append(shown, work)
    BY <1>2 DEF Decode
  <2>2. work \in Surfaces /\ ~LinkDone /\ Eos \notin InQueue(shown)
    BY <1>s, <2>1 DEF LinkDone, TypeInv, TypeOK
  <2>3. Eos \notin InQueue(shown') /\ IsLast(shown', Eos)
    BY <1>0, <1>q, <2>1, <2>2, LastAppend
  <2> QED BY <1>l, <1>t, <2>1, <2>2, <2>3
<1>3. CASE Drain
  <2>1. /\ UNCHANGED <<epc, syncQ, eosOut, taskQ, left>> /\ dpc = "decode" /\ dpc' = "done"
        /\ shown' = Append(shown, Eos) /\ left = 0
    BY <1>3 DEF Drain
  <2>2. ~LinkDone /\ Eos \notin InQueue(shown)
    BY <1>s, <2>1 DEF LinkDone
  <2>3. IsLast(shown', Eos)
    BY <1>0, <2>1, <2>2, LastAppend
  <2> QED BY <1>l, <1>t, <2>1, <2>2, <2>3
<1>4. CASE Refuse
  BY <1>4, <1>l, <1>s, <1>t DEF Refuse, LinkDone
<1>5. CASE TakeShown
  <2>1. /\ UNCHANGED <<epc, syncQ, eosOut, taskQ, left, dpc>> /\ shown' = Tail(shown) /\ shown # <<>>
    BY <1>5 DEF TakeShown
  <2>2. IsLast(shown', Eos) /\ (Eos \in InQueue(shown') => Eos \in InQueue(shown))
    BY <1>0, <1>q, <1>s, <2>1, LastTail
  <2> QED BY <1>l, <1>s, <1>t, <2>1, <2>2 DEF LinkDone
<1>6. CASE Push
  BY <1>6, <1>l, <1>s, <1>t DEF Push, LinkDone
<1>7. CASE Chain
  <2>1. /\ UNCHANGED <<epc, syncQ, eosOut, shown, left, dpc>> /\ taskQ' = Append(taskQ, showing)
        /\ ypc = "chain"
    BY <1>7 DEF Chain
  <2>2. showing \in Surfaces /\ ~LinkDone
    BY <1>0, <2>1 DEF LinkDone, TypeInv, TypeOK
  <2>3. Eos \notin InQueue(taskQ')
    BY <1>0, <1>q, <1>t, <2>1, <2>2
  <2> QED BY <1>l, <1>s, <2>1, <2>2, <2>3
<1>8. CASE Erase
  BY <1>8, <1>l, <1>s, <1>t DEF Erase, LinkDone
<1>9. CASE SendEos
  <2>1. /\ UNCHANGED <<epc, syncQ, eosOut, left, dpc, ypc>> /\ taskQ' = Append(taskQ, Eos)
        /\ ypc = "idle" /\ shown # <<>> /\ shown' = Tail(shown) /\ Head(shown) = Eos
    BY <1>9, <1>0 DEF SendEos
  <2>2. ~LinkDone /\ Eos \notin InQueue(taskQ)
    BY <1>t, <2>1 DEF LinkDone
  <2>3. shown' = <<>> /\ InQueue(shown') = {} /\ dpc = "done" /\ left = 0
    <3>1. Eos \in InQueue(shown)
      BY <1>q, <2>1
    <3> QED BY <1>0, <1>s, <2>1, <3>1, LastTail
  <2>4. LinkDone'
    BY <2>1, <2>3 DEF LinkDone
  <2>5. IsLast(taskQ', Eos) /\ IsLast(shown', Eos)
    <3>1. IsLast(taskQ', Eos)
      BY <1>0, <2>1, <2>2, LastAppend
    <3>2. IsLast(shown', Eos)
      BY <2>3 DEF IsLast, InQueue
    <3> QED BY <3>1, <3>2
  <2>6. IsLast(syncQ', NotifyEos) /\ NotifyEos \notin InQueue(syncQ') /\ ~eosOut' /\ epc' # "drain"
    BY <1>d, <1>e, <1>o, <1>z, <2>1, <2>2
  <2> QED BY <2>1, <2>3, <2>4, <2>5, <2>6 DEF EosInv
<1>10. CASE TakeTask
  <2>1. /\ UNCHANGED <<dpc, left, shown, ypc, eosOut, syncQ>> /\ taskQ # <<>>
        /\ taskQ' = Tail(taskQ) /\ (epc' = "drain" => Head(taskQ) = Eos)
    BY <1>10 DEF TakeTask
  <2>2. ~EncoderDone /\ NotifyEos \notin InQueue(syncQ)
    BY <1>z, <2>1 DEF EncoderDone
  <2>3. InQueue(taskQ) = InQueue(taskQ') \cup {Head(taskQ)}
    BY <1>q, <2>1
  <2>4. IsLast(taskQ', Eos) /\ (Head(taskQ) = Eos => taskQ' = <<>>)
    BY <1>0, <1>t, <2>1, LastTail
  <2> QED BY <1>m, <1>t, <2>1, <2>2, <2>3, <2>4
<1>11. CASE EncodeMoreData
  BY <1>11, <1>m, <1>t, <1>z DEF EncodeMoreData, EncoderDone
<1>12. CASE EncodeNone
  BY <1>12, <1>m, <1>t, <1>z DEF EncodeNone, EncoderDone
<1>13. CASE ReleaseInputSurface
  <2>1. /\ UNCHANGED <<dpc, left, shown, ypc, eosOut, taskQ>> /\ epc # "idle" /\ epc' = "idle"
        /\ frame_ref \in Surfaces /\ Kept \in Seq(Tasks)
        /\ syncQ' = IF epc = "release" THEN Kept ELSE Append(Kept, SyncOp(Len(coded)))
    BY <1>13, Released DEF ReleaseInputSurface
  <2>2. ~EncoderDone /\ NotifyEos \notin InQueue(syncQ)
    BY <1>z, <2>1 DEF EncoderDone
  <2>3. NotifyEos \notin InQueue(Kept)
    <3>1. InQueue(Append(syncQ, Release(frame_ref))) = InQueue(syncQ) \cup {Release(frame_ref)}
      BY <1>0, <2>1, InQueueAppend
    <3> QED BY <1>0, <2>1, <2>2, <3>1 DEF Kept
  <2>4. NotifyEos \notin InQueue(Append(Kept, SyncOp(Len(coded))))
    <3>1. InQueue(Append(Kept, SyncOp(Len(coded)))) = InQueue(Kept) \cup {SyncOp(Len(coded))}
      BY <1>0, <2>1, InQueueAppend
    <3> QED BY <1>0, <2>3, <3>1
  <2>5. NotifyEos \notin InQueue(syncQ')
    BY <2>1, <2>3, <2>4
  <2> QED BY <1>m, <1>t, <2>1, <2>2, <2>5
<1>14. CASE EncodeDrain
  <2>1. UNCHANGED <<dpc, left, shown, ypc, eosOut, taskQ>> /\ epc = "drain"
    BY <1>14 DEF EncodeDrain
  <2>2. ~EncoderDone /\ NotifyEos \notin InQueue(syncQ) /\ ~eosOut /\ LinkDone /\ taskQ = <<>>
    BY <1>e, <1>o, <1>z, <2>1 DEF EncoderDone
  <2>3. LinkDone'
    BY <2>1, <2>2 DEF LinkDone
  <2>4. CASE delayed = {}
    <3>1. syncQ' = Append(syncQ, NotifyEos) /\ epc' = "idle" /\ delayed' = delayed
      BY <1>14, <2>4 DEF EncodeDrain
    <3>2. IsLast(syncQ', NotifyEos)
      BY <1>0, <2>2, <3>1, LastAppend
    <3>3. EncoderDone'
      BY <2>1, <2>2, <2>3, <2>4, <3>1 DEF EncoderDone
    <3> QED BY <1>s, <1>t, <2>1, <2>2, <2>3, <3>1, <3>2, <3>3 DEF EosInv
  <2>5. CASE delayed # {}
    <3>1. syncQ' = Append(syncQ, SyncOp(Len(coded'))) /\ epc' = epc
      BY <1>14, <2>5 DEF EncodeDrain
    <3>2. InQueue(syncQ') = InQueue(syncQ) \cup {SyncOp(Len(coded'))}
      BY <1>0, <1>n, <3>1, InQueueAppend
    <3>3. NotifyEos \notin InQueue(syncQ')
      BY <1>0, <1>n, <2>2, <3>2
    <3> QED BY <1>m, <1>t, <2>1, <2>2, <3>1, <3>3
  <2> QED BY <2>4, <2>5
<1>15. ASSUME NEW s \in Surfaces, Unlock(s) PROVE EosInv'
  BY <1>15, <1>o, <1>y, <1>z DEF Unlock
<1>16. CASE TakeRelease
  <2>1. /\ UNCHANGED <<dpc, left, shown, ypc, taskQ, epc, delayed, eosOut>> /\ syncQ # <<>>
        /\ syncQ' = Tail(syncQ)
    BY <1>16 DEF TakeRelease
  <2>2. IsLast(syncQ', NotifyEos) /\ InQueue(syncQ) = InQueue(syncQ') \cup {Head(syncQ)}
    BY <1>0, <1>z, <2>1, LastTail, InQueueTail
  <2> QED BY <1>o, <1>y, <1>z, <2>1, <2>2
<1>17. CASE TakeSync
  <2>1. /\ UNCHANGED <<dpc, left, shown, ypc, taskQ, epc, delayed, eosOut>> /\ syncQ # <<>>
        /\ syncQ' = Tail(syncQ)
    BY <1>17 DEF TakeSync
  <2>2. IsLast(syncQ', NotifyEos) /\ InQueue(syncQ) = InQueue(syncQ') \cup {Head(syncQ)}
    BY <1>0, <1>z, <2>1, LastTail, InQueueTail
  <2> QED BY <1>o, <1>y, <1>z, <2>1, <2>2
<1>18. CASE Clean
  BY <1>18, <1>o, <1>y, <1>z DEF Clean, PushCoded
<1>19. CASE TakeNotifyEos
  <2>1. /\ UNCHANGED <<dpc, left, shown, ypc, taskQ, epc, delayed, zpc>> /\ syncQ # <<>>
        /\ syncQ' = Tail(syncQ) /\ Head(syncQ) = NotifyEos /\ zpc = "idle"
    BY <1>19 DEF TakeNotifyEos
  <2>2. IsLast(syncQ', NotifyEos) /\ syncQ' = <<>> /\ InQueue(syncQ) = InQueue(syncQ') \cup {NotifyEos}
    <3>1. IsLast(syncQ', NotifyEos) /\ syncQ' = <<>>
      BY <1>0, <1>z, <2>1, LastTail
    <3>2. InQueue(syncQ) = InQueue(syncQ') \cup {NotifyEos}
      BY <1>0, <2>1, InQueueTail
    <3> QED BY <3>1, <3>2
  <2> QED BY <1>y, <1>z, <2>1, <2>2
<1>20. CASE Deactivate
  BY <1>20 DEF Deactivate, Change
<1>21. CASE Deactivated
  BY <1>21 DEF Deactivated, Change
<1>22. CASE JoinTaskThread
  BY <1>22 DEF JoinTaskThread, Change
<1>23. CASE JoinSyncThread
  BY <1>23 DEF JoinSyncThread, Change
<1>24. CASE DisposeEncoder
  BY <1>24 DEF DisposeEncoder, Change
<1>25. CASE UNCHANGED vars
  BY <1>25, <1>o, <1>y, <1>z DEF vars
<1> QED
  BY <1>1, <1>2, <1>3, <1>4, <1>5, <1>6, <1>7, <1>8, <1>9, <1>10, <1>11, <1>12, <1>13,
     <1>14, <1>15, <1>16, <1>17, <1>18, <1>19, <1>20, <1>21, <1>22, <1>23, <1>24, <1>25
  DEF Next, DecoderStep, LinkStep, EncoderStep, SyncStep, Shutdown

\* With EOS the last task of the encoder, all that came in was coded and pushed.
LEMMA AllCoded ==
  ASSUME TypeInv, LineInv, CodedInv, OpsInv, EosInv, phase = "playing", zpc = "idle", syncQ # <<>>,
         Head(syncQ) = NotifyEos
  PROVE  Len(pushed) = MaxFrames /\ InQueue(pushed) = 1 .. MaxFrames
<1>0. /\ syncQ \in Seq(Tasks) /\ NotifyEos \in Tasks \ IsSync /\ Len(pushed) \in Nat
      /\ Len(coded) \in Nat /\ MaxFrames \in Nat /\ Len(<<>>) = 0
  BY DataTypes DEF TypeInv
<1>1. EncoderDone /\ Tail(syncQ) = <<>>
  <2>1. NotifyEos \in InQueue(syncQ)
    BY <1>0, InQueueTail
  <2>2. Tail(syncQ) = <<>>
    BY <1>0, LastTail DEF EosInv
  <2> QED BY <2>1, <2>2 DEF EosInv
<1>2. Encoded = MaxFrames
  <2>1. Count(shown, Surfaces) = 0 /\ Count(taskQ, Surfaces) = 0
    BY <1>0, <1>1, NumType DEF EncoderDone, LinkDone, Count
  <2>2. Shown = MaxFrames
    BY <1>0, <1>1, <2>1 DEF EncoderDone, LinkDone, Shown, Decoded
  <2>3. Sent = MaxFrames
    BY <1>0, <1>1, <2>2 DEF EncoderDone, LinkDone, Sent, Pushing, One
  <2>4. Received = MaxFrames
    BY <1>0, <2>1, <2>3 DEF Received
  <2> QED BY <1>0, <1>1, <2>4 DEF EncoderDone, Encoded, One
<1>3. Len(coded) = MaxFrames /\ InQueue(coded) = 1 .. MaxFrames
  <2>1. Cardinality(delayed) = 0 /\ {frameOf[s] : s \in delayed} = {}
    BY <1>1, FS_EmptySet DEF EncoderDone
  <2>2. Len(coded) + Cardinality(delayed) = MaxFrames
    BY <1>2 DEF CodedInv
  <2>3. {frameOf[s] : s \in delayed} \cup InQueue(coded) = 1 .. MaxFrames
    BY <1>2 DEF CodedInv
  <2>4. Len(coded) = MaxFrames
    BY <1>0, <2>1, <2>2
  <2> QED BY <2>1, <2>3, <2>4
<1>4. Len(pushed) = Len(coded)
  <2>1. Issued = Len(pushed)
    BY <1>0 DEF Issued, One
  <2>2. Count(syncQ, IsSync) = 0
    <3>1. Issued \in Int /\ InOrder(syncQ, IsSync, Operation, Issued)
      <4>1. InOrder(syncQ, IsSync, Operation, Issued)
        BY DEF OpsInv
      <4> QED BY <1>0, <2>1, <4>1
    <3>2. Count(Tail(syncQ), IsSync) = Count(syncQ, IsSync)
      BY <1>0, <3>1, NoOperation
    <3>3. Count(Tail(syncQ), IsSync) = 0
      BY <1>0, <1>1, NumType DEF Count
    <3> QED BY <3>2, <3>3
  <2>3. One(epc = "release and sync") = 0
    BY <1>1 DEF EncoderDone, One
  <2>4. Len(coded) = Issued + Count(syncQ, IsSync) + One(epc = "release and sync")
    BY DEF OpsInv
  <2>5. Len(coded) = Len(pushed) + 0 + 0
    BY <2>1, <2>2, <2>3, <2>4
  <2> QED BY <1>0, <2>5
<1>5. DOMAIN pushed = DOMAIN coded
  BY <1>4, LenProperties DEF TypeInv, TypeOK
<1>6. InQueue(pushed) = InQueue(coded)
  BY <1>5 DEF OpsInv, InQueue
<1> QED BY <1>3, <1>4, <1>6

LEMMA AllFramesCodedStep ==
  ASSUME TypeInv, AllFramesCoded, phase = "playing" => LineInv /\ CodedInv /\ OpsInv /\ EosInv,
         [Next]_vars
  PROVE  AllFramesCoded'
<1>k. ASSUME UNCHANGED pushed, eosOut' => eosOut PROVE AllFramesCoded'
  BY <1>k DEF AllFramesCoded, InQueue
<1> USE DEF decoder, link, encoder, syncs
<1>1. CASE GetSurface
  BY <1>1, <1>k DEF GetSurface
<1>2. CASE Decode
  BY <1>2, <1>k DEF Decode, Prune
<1>3. CASE Drain
  BY <1>3, <1>k DEF Drain, Prune
<1>4. CASE Refuse
  BY <1>4, <1>k DEF Refuse, Prune
<1>5. CASE TakeShown
  BY <1>5, <1>k DEF TakeShown
<1>6. CASE Push
  BY <1>6, <1>k DEF Push
<1>7. CASE Chain
  BY <1>7, <1>k DEF Chain
<1>8. CASE Erase
  BY <1>8, <1>k DEF Erase
<1>9. CASE SendEos
  BY <1>9, <1>k DEF SendEos
<1>10. CASE TakeTask
  BY <1>10, <1>k DEF TakeTask
<1>11. CASE EncodeMoreData
  BY <1>11, <1>k DEF EncodeMoreData
<1>12. CASE EncodeNone
  BY <1>12, <1>k DEF EncodeNone, Code
<1>13. CASE ReleaseInputSurface
  BY <1>13, <1>k DEF ReleaseInputSurface
<1>14. CASE EncodeDrain
  BY <1>14, <1>k DEF EncodeDrain, Code
<1>15. ASSUME NEW s \in Surfaces, Unlock(s) PROVE AllFramesCoded'
  BY <1>15, <1>k DEF Unlock
<1>16. CASE TakeRelease
  BY <1>16, <1>k DEF TakeRelease
<1>17. CASE TakeSync
  BY <1>17, <1>k DEF TakeSync
<1>18. CASE Clean
  <2>1. CASE phase = "playing"
    <3>1. ~eosOut'
      BY <1>18, <2>1 DEF Clean, PushCoded, EosInv
    <3> QED BY <3>1 DEF AllFramesCoded
  <2>2. CASE phase # "playing"
    BY <1>18, <1>k, <2>2 DEF Clean, PushCoded
  <2> QED BY <2>1, <2>2
<1>19. CASE TakeNotifyEos
  <2>1. UNCHANGED pushed /\ eosOut' = (phase = "playing") /\ zpc = "idle" /\ syncQ # <<>>
        /\ Head(syncQ) = NotifyEos
    BY <1>19 DEF TakeNotifyEos
  <2>2. CASE phase = "playing"
    <3>1. Len(pushed) = MaxFrames /\ InQueue(pushed) = 1 .. MaxFrames
      BY <2>1, <2>2, AllCoded
    <3> QED BY <2>1, <3>1 DEF AllFramesCoded
  <2>3. CASE phase # "playing"
    BY <1>k, <2>1, <2>3
  <2> QED BY <2>2, <2>3
<1>20. CASE Deactivate
  BY <1>20, <1>k DEF Deactivate, Change
<1>21. CASE Deactivated
  BY <1>21, <1>k DEF Deactivated, Change
<1>22. CASE JoinTaskThread
  BY <1>22, <1>k DEF JoinTaskThread, Change
<1>23. CASE JoinSyncThread
  BY <1>23, <1>k DEF JoinSyncThread, Change
<1>24. CASE DisposeEncoder
  BY <1>24, <1>k DEF DisposeEncoder, Change
<1>25. CASE UNCHANGED vars
  BY <1>25, <1>k DEF vars
<1> QED
  BY <1>1, <1>2, <1>3, <1>4, <1>5, <1>6, <1>7, <1>8, <1>9, <1>10, <1>11, <1>12, <1>13,
     <1>14, <1>15, <1>16, <1>17, <1>18, <1>19, <1>20, <1>21, <1>22, <1>23, <1>24, <1>25
  DEF Next, DecoderStep, LinkStep, EncoderStep, SyncStep, Shutdown

-----------------------------------------------------------------------------
(* The theorems.                                                           *)

LEMMA InitInv == Init => IInv
<1> SUFFICES ASSUME Init PROVE IInv
  OBVIOUS
<1>t. TypeInv
  BY InitType
<1>0. /\ MaxFrames \in Nat /\ Len(<<>>) = 0 /\ InQueue(<<>>) = {} /\ \A q, T : Num(q, 0, T) = 0
      /\ DOMAIN <<>> = {}
  <2>1. MaxFrames \in Nat /\ Len(<<>>) = 0
    BY <1>t, DataTypes DEF TypeInv
  <2>2. DOMAIN <<>> = {}
    BY EmptySeq
  <2>3. InQueue(<<>>) = {}
    BY <2>2 DEF InQueue
  <2>4. \A q, T : Num(q, 0, T) = 0
    BY NumType
  <2> QED BY <2>1, <2>2, <2>3, <2>4
<1>e. /\ \A T : Count(<<>>, T) = 0
      /\ \A T, f, base : InOrder(<<>>, T, f, base)
      /\ \A x : IsLast(<<>>, x)
  BY <1>0 DEF Count, InOrder, IsLast
<1>1. Counted
  BY <1>e DEF Init, Counted, One
<1>2. PhaseInv
  BY DEF Init, PhaseInv
<1>3. HeldInv
  BY DEF Init, HeldInv, WorkIsAlone, WorkIsNotEncoded, LockedIsKept, ReferencesAreKept
<1>4. AllFramesCoded
  BY DEF Init, AllFramesCoded
<1>5. Decoded = 0
  BY <1>0 DEF Init, Decoded
<1>6. Encoded = 0
  <2>1. Shown = 0
    BY <1>5, <1>e DEF Init, Shown
  <2>2. Sent = 0
    <3>1. One(Pushing) = 0
      BY DEF Init, Pushing, One
    <3> QED BY <2>1, <3>1 DEF Sent
  <2>3. Received = 0
    BY <1>e, <2>2 DEF Init, Received
  <2>4. One(epc = "encode") = 0
    BY DEF Init, One
  <2> QED BY <2>3, <2>4 DEF Encoded
<1>7. LineInv
  BY <1>e DEF Init, LineInv, Pushing
<1>8. CodedInv
  <2>1. Cardinality({}) = 0
    BY FS_EmptySet
  <2> QED BY <1>0, <1>6, <2>1 DEF Init, CodedInv
<1>9. OpsInv
  <2>1. Issued = 0
    BY <1>0 DEF Init, Issued, One
  <2> QED BY <1>0, <1>e, <2>1 DEF Init, OpsInv, One
<1>10. EosInv
  BY <1>0, <1>e DEF Init, EosInv
<1> QED BY <1>t, <1>1, <1>2, <1>3, <1>4, <1>7, <1>8, <1>9, <1>10 DEF IInv

LEMMA InvStep == IInv /\ [Next]_vars => IInv'
<1> SUFFICES ASSUME IInv, [Next]_vars PROVE IInv'
  OBVIOUS
<1>1. TypeInv'
  BY TypeStep DEF IInv
<1>2. TypeOK'
  BY <1>1 DEF TypeInv
<1>3. Counted' /\ PhaseInv' /\ HeldInv' /\ AllFramesCoded'
  BY <1>2, CountedStep, PhaseStep, HeldStep, AllFramesCodedStep DEF IInv
<1>4. ASSUME phase' = "playing" PROVE LineInv' /\ CodedInv' /\ OpsInv' /\ EosInv'
  <2>1. TypeInv /\ HeldInv /\ LineInv /\ CodedInv /\ OpsInv /\ EosInv
    BY <1>4, PlayingStep DEF IInv
  <2>2. LineInv' /\ EncodedOne
    BY <1>2, <1>4, <2>1, LineStep
  <2>3. CodedInv'
    BY <1>2, <1>4, <2>1, <2>2, CodedStep
  <2>4. OpsInv'
    BY <1>2, <1>4, <2>1, OpsStep
  <2>5. EosInv'
    BY <1>2, <1>4, <2>1, EosStep
  <2> QED BY <2>2, <2>3, <2>4, <2>5
<1> QED BY <1>1, <1>3, <1>4 DEF IInv

(***************************************************************************)
(* The types, and: a disposed encoder keeps no frame of the decoder.       *)
(***************************************************************************)
THEOREM ConsistentCorrect == Spec => []Consistent
<1>1. ASSUME IInv PROVE Consistent
  <2>1. TypeOK
    BY <1>1 DEF IInv, TypeInv
  <2>2. ASSUME phase = "null" PROVE HeldByEncoder \subseteq {None}
    <3>1. taskQ = <<>> /\ epc = "idle" /\ syncQ = <<>> /\ input_locked_frames_ = {}
      BY <1>1, <2>2 DEF IInv, PhaseInv
    <3>2. frame_ref = None
      BY <1>1, <3>1 DEF IInv, TypeInv
    <3>3. InQueue(<<>>) = {}
      BY EmptySeq DEF InQueue
    <3> QED BY <3>1, <3>2, <3>3 DEF HeldByEncoder
  <2> QED BY <2>1, <2>2 DEF Consistent
<1> QED BY <1>1, InitInv, InvStep, PTL DEF Spec

(***************************************************************************)
(* Until the encoder is stopped, no surface that a codec has locked is     *)
(* free in the pool: the decoder lets go of a surface once it is pushed,   *)
(* and the encoder keeps it from then on.                                  *)
(***************************************************************************)
THEOREM FreeIsUnlockedCorrect == Spec => []FreeIsUnlocked
<1>1. ASSUME IInv PROVE FreeIsUnlocked
  <2> SUFFICES ASSUME phase = "playing", NEW s \in Locked PROVE s \in HeldByDecoder \cup HeldByEncoder
    BY DEF FreeIsUnlocked, Free
  <2>1. locked \subseteq HeldByEncoder /\ references \subseteq HeldByEncoder \cup locked_frames_
    BY <1>1 DEF IInv, HeldInv, LockedIsKept, ReferencesAreKept, EncoderKeeps, HeldByEncoder, Releasing
  <2> QED BY <2>1 DEF Locked, HeldByDecoder
<1> QED BY <1>1, InitInv, InvStep, PTL DEF Spec

(***************************************************************************)
(* When EOS leaves the encoder, every frame of the stream left before it,  *)
(* once and with its own content.                                          *)
(***************************************************************************)
THEOREM AllFramesCodedCorrect == Spec => []AllFramesCoded
<1>1. IInv => AllFramesCoded
  BY DEF IInv
<1> QED BY <1>1, InitInv, InvStep, PTL DEF Spec
=============================================================================
