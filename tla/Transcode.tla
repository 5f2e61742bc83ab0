----------------------------- MODULE Transcode ------------------------------
(***************************************************************************)
(* A decoder element linked to an encoder element, with frames in video    *)
(* memory: VdecExecutor and VencExecutor together, without their failures. *)
(*                                                                         *)
(* What joins them is the decoder's frame pool.  Its sync thread runs the  *)
(* encoder's chain function; its surfaces wait in the encoder's queues,    *)
(* and in its lists until the encoder unlocks them.  Data.Locked of a      *)
(* surface is one counter for both codecs, and both elements decide by it  *)
(* what to let go.  The pool has the frames the decoder asked for.         *)
(*                                                                         *)
(* The waits on cv_queue_ are a guard here, and DEVICE_BUSY is left out.   *)
(* External: the codecs and the pool.  The decoder shows a frame at once,  *)
(* and keeps MaxRefs of them locked as references; the encoder holds back  *)
(* MaxDelay, and unlocks a surface at the latest when its frame is coded.  *)
(***************************************************************************)
EXTENDS Integers, Sequences, FiniteSets

CONSTANTS
  MaxFrames,   \* frames in the stream
  PoolSize,    \* surfaces in the decoder's pool
  MaxRefs,     \* frames the decoder keeps locked
  MaxDelay     \* frames the encoder holds back

ASSUME SizesAssumption ==
  {MaxFrames, MaxRefs, MaxDelay} \subseteq Nat /\ PoolSize \in Nat \ {0}

VARIABLES
  frameOf,               \* the frame in each surface
  left,                  \* decoder: frames to decode
  dpc, work,             \* its task thread: position, work surface
  references,            \* what it still needs
  locked_frames_,
  shown, ypc, showing,   \* its sync thread: queue, position, surface
  pending_tasks_num_, taskQ,
  epc, frame_ref,        \* encoder: its task thread
  delayed, locked, coded,\* held back, locked by the encoder, frame of each operation
  syncQ, zpc, syncing,   \* its sync thread: queue, position, operation
  input_locked_frames_,
  pushed, eosOut,
  phase                  \* the application's state change

decoder == <<left, dpc, work, references, locked_frames_>>
link == <<shown, ypc, showing, pending_tasks_num_>>
encoder == <<epc, frame_ref, delayed, coded>>
syncs == <<syncQ, zpc, syncing, input_locked_frames_, pushed, eosOut>>
vars == <<frameOf, decoder, link, taskQ, encoder, locked, syncs, phase>>

Surfaces == 1 .. PoolSize
None == 0
Eos == 0                  \* in shown and taskQ
Release(s) == [kind |-> "release", arg |-> s]
SyncOp(k) == [kind |-> "sync", arg |-> k]
NotifyEos == [kind |-> "eos", arg |-> 0]

TypeOK ==
  /\ frameOf \in [Surfaces -> 0 .. MaxFrames] /\ left \in 0 .. MaxFrames
  /\ dpc \in {"get", "decode", "done"} /\ work \in Surfaces \cup {None}
  /\ references \subseteq Surfaces
  /\ locked_frames_ \subseteq Surfaces
  /\ shown \in Seq(Surfaces \cup {Eos}) /\ showing \in Surfaces \cup {None}
  /\ ypc \in {"idle", "push", "chain", "erase"}
  /\ pending_tasks_num_ \in Nat /\ taskQ \in Seq(Surfaces \cup {Eos})
  /\ epc \in {"idle", "encode", "release", "release and sync", "drain"}
  /\ frame_ref \in Surfaces \cup {None}
  /\ delayed \subseteq Surfaces /\ locked \subseteq Surfaces
  /\ coded \in Seq(1 .. MaxFrames)
  /\ syncQ \in Seq([kind : {"release", "sync", "eos"}, arg : Nat])
  /\ zpc \in {"idle", "push"} /\ syncing \in Nat
  /\ input_locked_frames_ \subseteq Surfaces
  /\ pushed \in Seq(1 .. MaxFrames) /\ eosOut \in BOOLEAN
  /\ phase \in {"playing", "flushing", "joinTask", "joinSync", "free", "null"}

Init ==
  /\ frameOf = [s \in Surfaces |-> 0] /\ left = MaxFrames
  /\ dpc = "get" /\ work = None /\ references = {} /\ locked_frames_ = {}
  /\ shown = <<>> /\ ypc = "idle" /\ showing = None
  /\ pending_tasks_num_ = 0 /\ taskQ = <<>>
  /\ epc = "idle" /\ frame_ref = None /\ delayed = {} /\ locked = {} /\ coded = <<>>
  /\ syncQ = <<>> /\ zpc = "idle" /\ syncing = 0 /\ input_locked_frames_ = {}
  /\ pushed = <<>> /\ eosOut = FALSE /\ phase = "playing"

InQueue(q) == {q[i] : i \in DOMAIN q}

\* Who has a reference of a surface's buffer: the decoder, and the encoder.
HeldByDecoder == locked_frames_ \cup {work, showing} \cup InQueue(shown)
HeldByEncoder ==
  InQueue(taskQ) \cup {frame_ref} \cup input_locked_frames_
    \cup {s \in Surfaces : Release(s) \in InQueue(syncQ)}
Free == Surfaces \ (HeldByDecoder \cup HeldByEncoder)

\* Data.Locked: the decoder's frames until they are decoded and shown, and its
\* references; and those of the encoder.
Locked ==
  locked \cup references \cup (InQueue(shown) \ {Eos})
    \cup (IF ypc = "push" THEN {showing} ELSE {})

-----------------------------------------------------------------------------
(* The decoder: DecodeFrameAsync() and the sync thread.                    *)

Least(S) == {s \in S : \A t \in S : s <= t}

\* frame_pool_.GetBuffer() waits for a surface nobody holds.  Which one it is makes
\* no difference, but for its being locked or not.
GetSurface ==
  /\ dpc = "get"
  /\ \E s \in Least(Free \cap Locked) \cup Least(Free \ Locked) :
       work' = s /\ locked_frames_' = locked_frames_ \cup {s}
  /\ dpc' = "decode"
  /\ UNCHANGED <<frameOf, left, references, link, taskQ, encoder, locked, syncs,
                 phase>>

\* It unlocks references it no longer needs.
KeepReferences(S) ==
  \E kept \in SUBSET S : Cardinality(kept) <= MaxRefs /\ references' = kept

\* Unlocked surfaces are let go at the end of an iteration, whoever locked them.
Prune == locked_frames_' = locked_frames_ \cap Locked'

Decode ==
  /\ dpc = "decode" /\ left > 0 /\ work \notin Locked
  /\ left' = left - 1
  /\ frameOf' = [frameOf EXCEPT ![work] = MaxFrames - left + 1]
  /\ KeepReferences(references \cup {work})
  /\ shown' = Append(shown, work)
  /\ work' = None /\ dpc' = "get"
  /\ UNCHANGED <<ypc, showing, pending_tasks_num_, taskQ, encoder, locked, syncs, phase>>
  /\ Prune

\* Mutant of Drain: EOS is not the last task of the sync thread.
DrainEosFirst ==
  /\ dpc = "decode" /\ left = 0
  /\ KeepReferences(references)
  /\ shown' = <<Eos>> \o shown
  /\ work' = None /\ dpc' = "done"
  /\ UNCHANGED <<frameOf, left, ypc, showing, pending_tasks_num_, taskQ, encoder, locked,
                 syncs, phase>>
  /\ Prune

\* A null bitstream, for which it takes a work surface too: no frame is left.
Drain ==
  /\ dpc = "decode" /\ left = 0
  /\ KeepReferences(references)
  /\ shown' = Append(shown, Eos)
  /\ work' = None /\ dpc' = "done"
  /\ UNCHANGED <<frameOf, left, ypc, showing, pending_tasks_num_, taskQ, encoder, locked,
                 syncs, phase>>
  /\ Prune

\* MFX_ERR_MORE_SURFACE: the decoder refuses a work surface that is locked.
Refuse ==
  /\ dpc = "decode" /\ left > 0 /\ work \in Locked
  /\ work' = None /\ dpc' = "get"
  /\ UNCHANGED <<frameOf, left, references, link, taskQ, encoder, locked, syncs,
                 phase>>
  /\ Prune

TakeShown ==
  /\ ypc = "idle" /\ shown # <<>> /\ Head(shown) # Eos
  /\ showing' = Head(shown) /\ shown' = Tail(shown)
  /\ ypc' = "push"
  /\ UNCHANGED <<frameOf, decoder, pending_tasks_num_, taskQ, encoder, locked, syncs, phase>>

\* SyncOperation(), then the push: PostEncodeTask() counts the frame, or the pad is
\* flushing and refuses it.
Push ==
  /\ ypc = "push"
  /\ IF phase = "playing"
       THEN ypc' = "chain" /\ pending_tasks_num_' = pending_tasks_num_ + 1
       ELSE ypc' = "erase" /\ UNCHANGED pending_tasks_num_
  /\ UNCHANGED <<frameOf, decoder, shown, showing, taskQ, encoder, locked, syncs, phase>>

\* It waits until at most one frame is pending, and posts the task.
Chain ==
  /\ ypc = "chain" /\ pending_tasks_num_ <= 1
  /\ taskQ' = Append(taskQ, showing)
  /\ ypc' = "erase"
  /\ UNCHANGED <<frameOf, decoder, shown, showing, pending_tasks_num_, encoder, locked,
                 syncs, phase>>

\* The surface leaves locked_frames_, also if the decoder still needs it.
Erase ==
  /\ ypc = "erase"
  /\ locked_frames_' = locked_frames_ \ {showing}
  /\ showing' = None /\ ypc' = "idle"
  /\ UNCHANGED <<frameOf, left, dpc, work, references, shown, pending_tasks_num_,
                 taskQ, encoder, locked, syncs, phase>>

\* The EOS event, which becomes a task of the encoder.
SendEos ==
  /\ ypc = "idle" /\ shown # <<>> /\ Head(shown) = Eos
  /\ shown' = Tail(shown)
  /\ taskQ' = IF phase = "playing" THEN Append(taskQ, Eos) ELSE taskQ
  /\ UNCHANGED <<frameOf, decoder, ypc, showing, pending_tasks_num_, encoder, locked,
                 syncs, phase>>

-----------------------------------------------------------------------------
(* The encoder: EncodeFrameAsync() and the sync thread.                    *)

TakeTask ==
  /\ epc = "idle" /\ taskQ # <<>>
  /\ taskQ' = Tail(taskQ)
  /\ frame_ref' = Head(taskQ)
  /\ IF Head(taskQ) = Eos
       THEN epc' = "drain" /\ UNCHANGED pending_tasks_num_
       ELSE epc' = "encode" /\ pending_tasks_num_' = pending_tasks_num_ - 1
  /\ UNCHANGED <<frameOf, decoder, shown, ypc, showing, delayed, coded, locked, syncs,
                 phase>>

\* MFX_ERR_MORE_DATA: the frame is held back, its surface locked.
EncodeMoreData ==
  /\ epc = "encode" /\ Cardinality(delayed) < MaxDelay
  /\ delayed' = delayed \cup {frame_ref}
  /\ locked' = locked \cup {frame_ref}
  /\ epc' = "release"
  /\ UNCHANGED <<frameOf, decoder, link, taskQ, frame_ref, coded, syncs, phase>>

\* MFX_ERR_NONE: one of the frames will be coded.
Code(ready) ==
  \E s \in ready : delayed' = ready \ {s} /\ coded' = Append(coded, frameOf[s])

EncodeNone ==
  /\ epc = "encode"
  /\ Code(delayed \cup {frame_ref})
  /\ locked' = locked \cup {frame_ref}
  /\ epc' = "release and sync"
  /\ UNCHANGED <<frameOf, decoder, link, taskQ, frame_ref, syncs, phase>>

\* Mutant of ReleaseInputSurface: only the encoder is asked.
ReleaseInputSurfaceOwn ==
  /\ epc \in {"release", "release and sync"}
  /\ syncQ' = syncQ \o (IF frame_ref \in locked THEN <<Release(frame_ref)>> ELSE <<>>)
                   \o (IF epc = "release" THEN <<>> ELSE <<SyncOp(Len(coded))>>)
  /\ frame_ref' = None
  /\ epc' = "idle"
  /\ UNCHANGED <<frameOf, decoder, link, taskQ, delayed, coded, locked, zpc, syncing,
                 input_locked_frames_, pushed, eosOut, phase>>

\* An input frame that either codec has locked goes to the sync thread, before the
\* operation if there is one.
ReleaseInputSurface ==
  /\ epc \in {"release", "release and sync"}
  /\ syncQ' = syncQ \o (IF frame_ref \in Locked THEN <<Release(frame_ref)>> ELSE <<>>)
                   \o (IF epc = "release" THEN <<>> ELSE <<SyncOp(Len(coded))>>)
  /\ frame_ref' = None
  /\ epc' = "idle"
  /\ UNCHANGED <<frameOf, decoder, link, taskQ, delayed, coded, locked, zpc, syncing,
                 input_locked_frames_, pushed, eosOut, phase>>

\* Without an input surface: the frames held back, one by one, then EOS.
EncodeDrain ==
  /\ epc = "drain"
  /\ IF delayed = {}
       THEN /\ syncQ' = Append(syncQ, NotifyEos)
            /\ epc' = "idle"
            /\ UNCHANGED <<delayed, coded>>
       ELSE /\ Code(delayed)
            /\ syncQ' = Append(syncQ, SyncOp(Len(coded')))
            /\ UNCHANGED epc
  /\ UNCHANGED <<frameOf, decoder, link, taskQ, frame_ref, locked, zpc, syncing,
                 input_locked_frames_, pushed, eosOut, phase>>

\* The encoder no longer needs the surface of a frame it has coded.
Unlock(s) ==
  /\ s \in locked \ delayed
  /\ locked' = locked \ {s}
  /\ UNCHANGED <<frameOf, decoder, link, taskQ, encoder, syncs, phase>>

\* SyncThread_ReleaseInputSurfaceTask(): tested once more.
TakeRelease ==
  /\ zpc = "idle" /\ syncQ # <<>> /\ Head(syncQ).kind = "release"
  /\ syncQ' = Tail(syncQ)
  /\ input_locked_frames_' = input_locked_frames_ \cup ({Head(syncQ).arg} \cap Locked)
  /\ UNCHANGED <<frameOf, decoder, link, taskQ, encoder, locked, zpc, syncing, pushed,
                 eosOut, phase>>

\* SyncOperation() returns when the frame is coded, and its surface unlocked.
TakeSync ==
  /\ zpc = "idle" /\ syncQ # <<>> /\ Head(syncQ).kind = "sync"
  /\ LET Coded(s) == \E i \in 1 .. Head(syncQ).arg : frameOf[s] = coded[i]
     IN locked' = {s \in locked : s \in delayed \/ ~Coded(s)}
  /\ syncQ' = Tail(syncQ) /\ syncing' = Head(syncQ).arg
  /\ zpc' = "push"
  /\ UNCHANGED <<frameOf, decoder, link, taskQ, encoder, input_locked_frames_, pushed,
                 eosOut, phase>>

\* The coded frame goes downstream, unless the pad is flushing.
PushCoded ==
  /\ zpc = "push"
  /\ pushed' = IF phase = "playing" THEN Append(pushed, coded[syncing]) ELSE pushed
  /\ zpc' = "idle" /\ syncing' = 0
  /\ UNCHANGED <<frameOf, decoder, link, taskQ, encoder, locked, syncQ, eosOut, phase>>

\* Mutant of Clean: kept surfaces are not looked at again.
CleanNothing == PushCoded /\ UNCHANGED input_locked_frames_

\* Kept surfaces that are unlocked by now are let go.
Clean == PushCoded /\ input_locked_frames_' = input_locked_frames_ \cap Locked

\* SyncThread_NotifyEosTask(): the EOS event goes downstream.
TakeNotifyEos ==
  /\ zpc = "idle" /\ syncQ # <<>> /\ Head(syncQ) = NotifyEos
  /\ syncQ' = Tail(syncQ)
  /\ eosOut' = (phase = "playing")
  /\ UNCHANGED <<frameOf, decoder, link, taskQ, encoder, locked, zpc, syncing,
                 input_locked_frames_, pushed, phase>>

-----------------------------------------------------------------------------
(* The application takes the encoder to NULL, then the decoder.  The pads  *)
(* of the encoder refuse buffers, and wait for its chain function, before  *)
(* Dispose() joins its threads.                                            *)

Change(from, to) == phase = from /\ phase' = to

Deactivate ==
  /\ Change("playing", "flushing")
  /\ UNCHANGED <<frameOf, decoder, link, taskQ, encoder, locked, syncs>>

Deactivated ==
  /\ ypc # "chain"
  /\ Change("flushing", "joinTask")
  /\ UNCHANGED <<frameOf, decoder, link, taskQ, encoder, locked, syncs>>

\* task_thread_.stop() of the encoder, which drops the tasks left.
JoinTaskThread ==
  /\ epc = "idle"
  /\ Change("joinTask", "joinSync")
  /\ taskQ' = <<>>
  /\ UNCHANGED <<frameOf, decoder, link, encoder, locked, syncs>>

JoinSyncThread ==
  /\ zpc = "idle"
  /\ Change("joinSync", "free")
  /\ syncQ' = <<>>
  /\ UNCHANGED <<frameOf, decoder, link, taskQ, encoder, locked, zpc, syncing,
                 input_locked_frames_, pushed, eosOut>>

\* Mutant of DisposeEncoder: input_locked_frames_ is not cleared.
DisposeEncoderOnly ==
  /\ Change("free", "null")
  /\ delayed' = {} /\ locked' = {}
  /\ UNCHANGED <<frameOf, decoder, link, taskQ, epc, frame_ref, coded, syncs>>

\* The encoder is deleted, and the input frames go back to the decoder's pool.
DisposeEncoder ==
  /\ Change("free", "null")
  /\ delayed' = {} /\ locked' = {} /\ input_locked_frames_' = {}
  /\ UNCHANGED <<frameOf, decoder, link, taskQ, epc, frame_ref, coded, syncQ, zpc,
                 syncing, pushed, eosOut>>

-----------------------------------------------------------------------------
DecoderStep == GetSurface \/ Decode \/ Drain \/ Refuse
LinkStep == TakeShown \/ Push \/ Chain \/ Erase \/ SendEos
EncoderStep ==
  TakeTask \/ EncodeMoreData \/ EncodeNone \/ ReleaseInputSurface \/ EncodeDrain
SyncStep == TakeRelease \/ TakeSync \/ Clean \/ TakeNotifyEos
Shutdown == Deactivate \/ Deactivated \/ JoinTaskThread \/ JoinSyncThread \/ DisposeEncoder

Next ==
  \/ DecoderStep \/ LinkStep \/ EncoderStep \/ SyncStep
  \/ \E s \in Surfaces : Unlock(s)
  \/ Shutdown

Spec == Init /\ [][Next]_vars

(***************************************************************************)
(* Fairness: a thread that can take a step takes it.  Nothing makes the    *)
(* encoder unlock a surface before it must, or the application stop.       *)
(***************************************************************************)
Fairness ==
  /\ WF_vars(DecoderStep) /\ WF_vars(LinkStep)
  /\ WF_vars(EncoderStep) /\ WF_vars(SyncStep)

FairSpec == Spec /\ Fairness

-----------------------------------------------------------------------------
(* Properties.                                                             *)

(***************************************************************************)
(* Until the encoder is stopped, no surface returns to the pool while a    *)
(* codec needs it.  The decoder lets go of a surface when it is pushed,    *)
(* even if it still is a reference: what protects it then is that the      *)
(* encoder holds every surface that anyone has locked.                     *)
(***************************************************************************)
FreeIsUnlocked == phase = "playing" => Free \cap Locked = {}

(***************************************************************************)
(* When EOS leaves the encoder, every frame of the stream left before it,  *)
(* once, with its own content: no surface was decoded into while it was    *)
(* waiting to be coded, and the frames the encoder holds back were asked   *)
(* for.                                                                    *)
(***************************************************************************)
AllFramesCoded ==
  eosOut =>
    /\ Len(pushed) = MaxFrames
    /\ InQueue(pushed) = 1 .. MaxFrames

(***************************************************************************)
(* The pool does not run dry for good: EOS comes out of the encoder unless *)
(* the application stops the pipeline.  The surfaces both codecs and all   *)
(* the queues can hold at a time must fit into the decoder's pool.         *)
(***************************************************************************)
EosDelivered == <>(eosOut \/ phase # "playing")

(***************************************************************************)
(* Types, and: a disposed encoder keeps no frame of the decoder, which is  *)
(* disposed next.  Its pool and its allocator go with the last of them.    *)
(***************************************************************************)
Consistent == TypeOK /\ (phase = "null" => HeldByEncoder \subseteq {None})
=============================================================================
