---------------------------- MODULE VdecExecutor ----------------------------
(***************************************************************************)
(* mfxGstPluginVdecData (executors/src/mfx_gst_executor_vdec.cpp): the     *)
(* decoder element from its CAPS event to its disposal.                    *)
(*                                                                         *)
(* The streaming thread posts coded buffers; the task thread feeds them,   *)
(* with a free surface of the frame pool each time, to the decoder; the    *)
(* sync thread waits for the device and pushes the surfaces downstream;    *)
(* the application thread shuts the element down.  The task and sync       *)
(* threads are used through what TaskQueue promises.                       *)
(*                                                                         *)
(* What is hard here is who still references a surface: the decoder        *)
(* (Data.Locked), locked_frames_, frame_ref of the task thread, a task on  *)
(* its way to the sync thread, or a buffer downstream.  A surface none of  *)
(* them references is back in the pool.  Decoder, pool and sink are        *)
(* external: the decoder shows up to MaxDelay frames late, in any order,   *)
(* keeps references locked if KeepsRefs, and answers MORE_SURFACE to a     *)
(* work surface that is locked; the sink keeps the last SinkKeeps buffers. *)
(***************************************************************************)
EXTENDS Integers, Sequences, FiniteSets

CONSTANTS
  MaxInputs,   \* bound: coded buffers sent by upstream
  PerInput,    \* coded frames in each
  PoolSize,    \* surfaces in frame_pool_ (NumFrameSuggested)
  MaxDelay,    \* bound: frames the decoder holds back
  KeepsRefs,   \* does the decoder keep displayed frames as references?
  SinkKeeps,   \* buffers the sink holds until the next ones come
  AsyncDepth,  \* the AsyncDepth property
  Faults,      \* the failures that may happen
  MaxFailures  \* bound: kinds of failure in one behaviour

ASSUME InputsAssumption == MaxInputs \in Nat /\ MaxDelay \in Nat /\ SinkKeeps \in Nat
ASSUME PoolAssumption == PoolSize \in Nat \ {0} /\ PerInput \in Nat \ {0}
ASSUME DepthAssumption == AsyncDepth \in Nat \ {0}
ASSUME RefsAssumption == KeepsRefs \in BOOLEAN
ASSUME FaultsAssumption ==
  /\ Faults \subseteq {"header", "query", "init", "params", "decode", "sync", "flow"}
  /\ MaxFailures \in Nat

VARIABLES
  spc, sent, eosSent, pending_tasks_num_,  \* streaming thread
  taskOpen, taskQ,                         \* task_thread_ as a TaskQueue
  tpc, sts, bst, work, out,                \* task thread: position and locals
  input_queue_, bits, buffered, is_eos_,   \* input; undecoded frames in fc_;
                                           \*   was fc_'s buffer ever allocated
  is_dec_initialized_,
  locked, toShow,                          \* decoder: Data.Locked; not shown yet
  locked_frames_,
  syncop_tasks_num_, syncOpen, syncQ,      \* sync_thread_ as a TaskQueue
  ypc, syncing,                            \* sync thread: position, surface
  sink, pushed, eosOut, failures,          \* downstream; what failed so far
  elem                                     \* the application's state change

stream == <<spc, sent, eosSent, pending_tasks_num_>>
tasks == <<taskOpen, taskQ>>
locals == <<sts, bst, work, out>>
input == <<input_queue_, bits, buffered, is_eos_, is_dec_initialized_>>
decoder == <<locked, toShow>>
syncs == <<syncop_tasks_num_, syncOpen, syncQ, ypc, syncing>>
downstream == <<sink, pushed, eosOut>>
vars == <<stream, tasks, tpc, locals, input, decoder, locked_frames_, syncs,
          downstream, failures, elem>>

Surfaces == 1 .. PoolSize
None == 0
EosTask == 0        \* in taskQ; a decode task is the number of its buffer
NotifyEos == 0      \* in syncQ; a sync operation is its surface

TypeOK ==
  /\ spc \in {"idle", "wait", "test", "post"}
  /\ sent \in 0 .. MaxInputs /\ eosSent \in BOOLEAN /\ pending_tasks_num_ \in Int
  /\ taskOpen \in BOOLEAN /\ taskQ \in Seq(0 .. MaxInputs)
  /\ tpc \in {"idle", "init", "spin", "begin", "loop", "get", "decode", "busyTest",
              "busy", "out"}
  /\ sts \in {"none", "more_data", "more_surface"}
  /\ bst \in {"data", "null"}
  /\ work \in Surfaces \cup {None} /\ out \in Surfaces \cup {None}
  /\ input_queue_ \in Seq(1 .. MaxInputs)
  /\ bits \in 0 .. MaxInputs * PerInput /\ buffered \in BOOLEAN /\ is_eos_ \in BOOLEAN
  /\ is_dec_initialized_ \in BOOLEAN
  /\ locked \in SUBSET Surfaces /\ toShow \in SUBSET Surfaces
  /\ locked_frames_ \in SUBSET Surfaces
  /\ syncop_tasks_num_ \in Int
  /\ syncOpen \in BOOLEAN /\ syncQ \in Seq(Surfaces \cup {NotifyEos})
  /\ ypc \in {"idle", "sync", "push", "erase"} /\ syncing \in Surfaces \cup {None}
  /\ sink \in Seq(Surfaces) /\ pushed \in Nat /\ eosOut \in BOOLEAN
  /\ failures \subseteq Faults \cup {"flow", "pool"}
  /\ elem \in {"playing", "flushing", "ready", "joinTask", "stopSync", "joinSync",
               "free", "null"}

\* After the CAPS event, which initialises the decoder if it brings codec_data.
Init ==
  /\ spc = "idle" /\ sent = 0 /\ eosSent = FALSE /\ pending_tasks_num_ = 0
  /\ taskOpen = TRUE /\ taskQ = <<>>
  /\ tpc = "idle" /\ sts = "none" /\ bst = "data" /\ work = None /\ out = None
  /\ input_queue_ = <<>> /\ bits = 0 /\ buffered = FALSE /\ is_eos_ = FALSE
  /\ is_dec_initialized_ \in BOOLEAN
  /\ locked = {} /\ toShow = {} /\ locked_frames_ = {}
  /\ syncop_tasks_num_ = 0 /\ syncOpen = TRUE /\ syncQ = <<>>
  /\ ypc = "idle" /\ syncing = None
  /\ sink = <<>> /\ pushed = 0 /\ eosOut = FALSE /\ failures = {}
  /\ elem = "playing"

InUse == locked_frames_ \cup {work, syncing}
           \cup {syncQ[i] : i \in DOMAIN syncQ} \cup {sink[i] : i \in DOMAIN sink}
Free == Surfaces \ InUse

\* A failure may repeat, but at most MaxFailures kinds come together.
MayFail(f) == f \in Faults /\ Cardinality(failures \cup {f}) <= MaxFailures

-----------------------------------------------------------------------------
(* The streaming thread: PostDecodeTask() and PostEndOfStreamTask().       *)

Chain ==
  /\ spc = "idle"
  /\ elem \in {"playing", "flushing"}
  /\ ~eosSent /\ sent < MaxInputs
  /\ sent' = sent + 1
  /\ pending_tasks_num_' = pending_tasks_num_ + 1
  /\ spc' = IF pending_tasks_num_ + 1 <= 1 THEN "post" ELSE "wait"
  /\ UNCHANGED <<eosSent, tasks, tpc, locals, input, decoder, locked_frames_, syncs,
                 downstream, failures, elem>>

ChainTest ==
  /\ spc = "test"
  /\ spc' = IF pending_tasks_num_ <= 1 THEN "post" ELSE "wait"
  /\ UNCHANGED <<sent, eosSent, pending_tasks_num_, tasks, tpc, locals, input, decoder,
                 locked_frames_, syncs, downstream, failures, elem>>

\* The pads are deactivated before task_thread_.stop(): post() accepts the task.
ChainPost ==
  /\ spc = "post"
  /\ taskQ' = Append(taskQ, sent)
  /\ spc' = "idle"
  /\ UNCHANGED <<sent, eosSent, pending_tasks_num_, taskOpen, tpc, locals, input,
                 decoder, locked_frames_, syncs, downstream, failures, elem>>

SendEos ==
  /\ spc = "idle"
  /\ elem \in {"playing", "flushing"}
  /\ ~eosSent
  /\ eosSent' = TRUE
  /\ taskQ' = Append(taskQ, EosTask)
  /\ UNCHANGED <<spc, sent, pending_tasks_num_, taskOpen, tpc, locals, input, decoder,
                 locked_frames_, syncs, downstream, failures, elem>>

-----------------------------------------------------------------------------
(* The task thread: taking a task and initialising the decoder.            *)

\* Mutant of TakeInput: cv_queue_ is not notified.
TakeInputSilent ==
  /\ tpc = "idle"
  /\ taskQ # <<>> /\ Head(taskQ) # EosTask
  /\ taskQ' = Tail(taskQ)
  /\ input_queue_' = Append(input_queue_, Head(taskQ))
  /\ pending_tasks_num_' = pending_tasks_num_ - 1
  /\ tpc' = IF is_dec_initialized_ THEN "begin" ELSE "init"
  /\ UNCHANGED <<stream, taskOpen, locals, bits, buffered, is_eos_,
                 is_dec_initialized_, decoder, locked_frames_, syncs, downstream,
                 failures, elem>>

\* TaskThread_DecodeTask(): queue the buffer, uncount it, notify cv_queue_.
TakeInput ==
  /\ tpc = "idle"
  /\ taskQ # <<>> /\ Head(taskQ) # EosTask
  /\ taskQ' = Tail(taskQ)
  /\ input_queue_' = Append(input_queue_, Head(taskQ))
  /\ pending_tasks_num_' = pending_tasks_num_ - 1
  /\ spc' = IF spc = "wait" THEN "test" ELSE spc
  /\ tpc' = IF is_dec_initialized_ THEN "begin" ELSE "init"
  /\ UNCHANGED <<sent, eosSent, taskOpen, locals, bits, buffered, is_eos_,
                 is_dec_initialized_, decoder, locked_frames_, syncs, downstream,
                 failures, elem>>

\* TaskThread_EosTask() decodes whether the decoder is initialised or not.
TakeEos ==
  /\ tpc = "idle"
  /\ taskQ # <<>> /\ Head(taskQ) = EosTask
  /\ taskQ' = Tail(taskQ)
  /\ is_eos_' = TRUE
  /\ tpc' = "begin"
  /\ UNCHANGED <<stream, taskOpen, locals, input_queue_, bits, buffered,
                 is_dec_initialized_, decoder, locked_frames_, syncs, downstream,
                 failures, elem>>

\* FillVideoParams() and Init(): the header is in the first buffer.  What
\* DecodeHeader left goes to the buffer of fc_.  A failed Query() is silent; a
\* failed Init() reports an error (the first one there can be) and closes the
\* session.
InitDecoder ==
  /\ tpc = "init" /\ "init" \notin failures
  /\ bits' = bits + PerInput * Len(input_queue_)
  /\ input_queue_' = <<>>
  /\ buffered' = TRUE
  /\ \/ is_dec_initialized_' = TRUE /\ tpc' = "begin" /\ UNCHANGED failures
     \/ /\ MayFail("init")
        /\ failures' = failures \cup {"init"} /\ tpc' = "idle"
        /\ UNCHANGED is_dec_initialized_
     \/ /\ MayFail("query")
        /\ failures' = failures \cup {"query"} /\ tpc' = "idle"
        /\ UNCHANGED is_dec_initialized_
  /\ UNCHANGED <<stream, tasks, locals, is_eos_, decoder, locked_frames_, syncs,
                 downstream, elem>>

\* FillVideoParams() when the header is not complete in what has come so far, or
\* the session was closed by a failed Init(): its loop has no other way out, and
\* only this thread could fill input_queue_.
HeaderMissing ==
  /\ tpc = "init"
  /\ "header" \in Faults \/ "init" \in failures
  /\ tpc' = "spin"
  /\ bits' = bits + PerInput * Len(input_queue_)
  /\ input_queue_' = <<>>
  /\ UNCHANGED <<stream, tasks, locals, buffered, is_eos_, is_dec_initialized_, decoder,
                 locked_frames_, syncs, downstream, failures, elem>>

-----------------------------------------------------------------------------
(* The task thread: DecodeFrameAsync().                                    *)

Begin ==
  /\ tpc = "begin"
  /\ sts' = IF bits > 0 \/ buffered THEN "none" ELSE "more_data"
  /\ bst' = "data"
  /\ work' = None /\ out' = None
  /\ tpc' = "loop"
  /\ UNCHANGED <<stream, tasks, input, decoder, locked_frames_, syncs, downstream,
                 failures, elem>>

\* Mutant of Leave: nothing is kept for the next call.
LeaveCleared ==
  /\ tpc' = "idle"
  /\ work' = None /\ out' = None
  /\ buffered' = (buffered \/ bits > 0)
  /\ locked_frames_' = {}

\* The end of the loop: what fc_ holds is kept, unlocked surfaces are released.
Leave ==
  /\ tpc' = "idle"
  /\ work' = None /\ out' = None
  /\ buffered' = (buffered \/ bits > 0)
  /\ locked_frames_' = locked_frames_ \cap locked

\* Mutant of LoopTop: the decoder is not drained at the end of the stream.
LoopTopUndrained ==
  /\ tpc = "loop"
  /\ sts \in {"none", "more_data"}
  /\ sts = "none" \/ input_queue_ # <<>>
  /\ work' = None /\ out' = None
  /\ IF sts = "more_data"
       THEN input_queue_' = Tail(input_queue_) /\ bits' = bits + PerInput /\ bst' = "data"
       ELSE UNCHANGED <<input_queue_, bits, bst>>
  /\ tpc' = "get"
  /\ UNCHANGED <<stream, tasks, sts, buffered, is_eos_, is_dec_initialized_, decoder,
                 locked_frames_, syncs, downstream, failures, elem>>

\* After MORE_DATA: the next buffer, or a null bitstream to drain the decoder.
LoopTop ==
  /\ tpc = "loop"
  /\ sts \in {"none", "more_data"}
  /\ sts = "none" \/ input_queue_ # <<>> \/ is_eos_
  /\ work' = None /\ out' = None
  /\ IF sts = "more_data" /\ input_queue_ # <<>>
       THEN /\ input_queue_' = Tail(input_queue_) /\ bits' = bits + PerInput
            /\ bst' = "data"
       ELSE /\ bst' = IF sts = "more_data" THEN "null" ELSE bst
            /\ UNCHANGED <<input_queue_, bits>>
  /\ tpc' = "get"
  /\ UNCHANGED <<stream, tasks, sts, buffered, is_eos_, is_dec_initialized_, decoder,
                 locked_frames_, syncs, downstream, failures, elem>>

\* No more input; and also MORE_SURFACE ends the loop, whatever is left.
LoopEnd ==
  /\ tpc = "loop"
  /\ sts = "more_surface" \/ (sts = "more_data" /\ input_queue_ = <<>> /\ ~is_eos_)
  /\ Leave
  /\ UNCHANGED <<stream, tasks, sts, bst, input_queue_, bits, is_eos_,
                 is_dec_initialized_, decoder, syncs, downstream, failures, elem>>

\* frame_pool_.GetBuffer() blocks until a surface is free.
GetSurface ==
  /\ tpc = "get"
  /\ is_dec_initialized_
  /\ \E s \in Free : work' = s /\ locked_frames_' = locked_frames_ \cup {s}
  /\ tpc' = "decode"
  /\ UNCHANGED <<stream, tasks, sts, bst, out, input, decoder, syncs, downstream,
                 failures, elem>>

\* An error message, and DecodeFrameAsync() returns without tidying up.
Fail(what) ==
  /\ failures' = failures \cup {what}
  /\ tpc' = "idle"
  /\ work' = None /\ out' = None
  /\ buffered' = (buffered \/ bits > 0)
  /\ UNCHANGED <<stream, tasks, sts, bst, input_queue_, bits, is_eos_,
                 is_dec_initialized_, decoder, locked_frames_, syncs, downstream, elem>>

\* Without a decoder there is no pool.
NoPool == tpc = "get" /\ ~is_dec_initialized_ /\ Fail("pool")

DecodeError == tpc = "decode" /\ MayFail("decode") /\ Fail("decode")

DeviceWorking == ypc = "sync" \/ \E i \in DOMAIN syncQ : syncQ[i] # NotifyEos

\* MFX_WRN_DEVICE_BUSY: wait on cv_dev_busy_ unless the depth is not used up.
DecodeBusy ==
  /\ tpc = "decode"
  /\ DeviceWorking
  /\ tpc' = "busyTest"
  /\ UNCHANGED <<stream, tasks, locals, input, decoder, locked_frames_, syncs,
                 downstream, failures, elem>>

BusyTest ==
  /\ tpc = "busyTest"
  /\ tpc' = IF syncop_tasks_num_ < AsyncDepth THEN "decode" ELSE "busy"
  /\ UNCHANGED <<stream, tasks, locals, input, decoder, locked_frames_, syncs,
                 downstream, failures, elem>>

\* The decoder's answers.  Show(S): it holds back S, or shows one of them.
Show(S) ==
  \/ /\ Cardinality(S) <= MaxDelay
     /\ toShow' = S /\ out' = None
  \/ \E s \in S : toShow' = S \ {s} /\ out' = s

\* It decodes a frame into the work surface: ERR_NONE with an output surface;
\* without, it asks for another surface or, its bitstream used up, for data.
DecodeFrame ==
  /\ tpc = "decode"
  /\ work \notin locked
  /\ bst = "data" /\ bits > 0
  /\ bits' = bits - 1
  /\ locked' = locked \cup {work}
  /\ Show(toShow \cup {work})
  /\ sts' = IF out' # None THEN "none" ELSE IF bits > 1 THEN "more_surface" ELSE "more_data"
  /\ tpc' = "out"
  /\ UNCHANGED <<stream, tasks, bst, work, input_queue_, buffered, is_eos_,
                 is_dec_initialized_, locked_frames_, syncs, downstream, failures, elem>>

\* Nothing to decode: MORE_DATA; or draining, one frame after the other.
DecodeNoData ==
  /\ tpc = "decode"
  /\ work \notin locked
  /\ bst = "null" \/ bits = 0
  /\ IF bst = "null" /\ toShow # {}
       THEN sts' = "none" /\ \E s \in toShow : toShow' = toShow \ {s} /\ out' = s
       ELSE sts' = "more_data" /\ out' = None /\ UNCHANGED toShow
  /\ tpc' = "out"
  /\ UNCHANGED <<stream, tasks, bst, work, input, locked, locked_frames_, syncs,
                 downstream, failures, elem>>

\* MORE_SURFACE: the work surface is in use; or VIDEO_PARAM_CHANGED, taken for it.
DecodeMoreSurface ==
  /\ tpc = "decode"
  /\ \/ work \in locked /\ UNCHANGED failures
     \/ /\ MayFail("params")
        /\ work \notin locked /\ bst = "data" /\ bits > 0
        /\ failures' = failures \cup {"params"}
  /\ sts' = "more_surface"
  /\ out' = None
  /\ tpc' = "out"
  /\ UNCHANGED <<stream, tasks, bst, work, input, decoder, locked_frames_, syncs,
                 downstream, elem>>

PostSync(t) == IF syncOpen THEN Append(syncQ, t) ELSE syncQ

\* An output surface is found in locked_frames_, counted and posted; it would be
\* an error not to find it, which LockedIsKept shows cannot happen.
Output ==
  /\ tpc = "out"
  /\ out # None
  /\ IF out \in locked_frames_
       THEN /\ syncop_tasks_num_' = syncop_tasks_num_ + 1
            /\ syncQ' = PostSync(out)
            /\ locked_frames_' = locked_frames_ \cap locked
            /\ tpc' = "loop"
            /\ UNCHANGED <<stream, tasks, locals, input, decoder, syncOpen, ypc, syncing,
                           downstream, failures, elem>>
       ELSE Fail("decode")

\* Mutant of NoOutput: a data bitstream that gives nothing ends the stream as well.
NoOutputEndsEarly ==
  /\ tpc = "out"
  /\ out = None
  /\ IF is_eos_ THEN is_eos_' = FALSE /\ syncQ' = PostSync(NotifyEos)
                ELSE UNCHANGED <<is_eos_, syncQ>>
  /\ locked_frames_' = locked_frames_ \cap locked
  /\ tpc' = "loop"
  /\ UNCHANGED <<stream, tasks, locals, input_queue_, bits, buffered,
                 is_dec_initialized_, decoder, syncop_tasks_num_, syncOpen, ypc,
                 syncing, downstream, failures, elem>>

\* No output surface: with a null bitstream that was the last, and EOS follows.
NoOutput ==
  /\ tpc = "out"
  /\ out = None
  /\ IF bst = "null" THEN is_eos_' = FALSE /\ syncQ' = PostSync(NotifyEos)
                     ELSE UNCHANGED <<is_eos_, syncQ>>
  /\ locked_frames_' = locked_frames_ \cap locked
  /\ tpc' = "loop"
  /\ UNCHANGED <<stream, tasks, locals, input_queue_, bits, buffered,
                 is_dec_initialized_, decoder, syncop_tasks_num_, syncOpen, ypc,
                 syncing, downstream, failures, elem>>

TaskStep ==
  \/ TakeInput \/ TakeEos \/ InitDecoder \/ HeaderMissing
  \/ Begin \/ LoopTop \/ LoopEnd \/ GetSurface \/ NoPool
  \/ DecodeBusy \/ BusyTest \/ DecodeFrame \/ DecodeNoData \/ DecodeMoreSurface
  \/ DecodeError \/ Output \/ NoOutput

-----------------------------------------------------------------------------
(* The sync thread.                                                        *)

TakeNotifyEos ==
  /\ ypc = "idle"
  /\ syncQ # <<>> /\ Head(syncQ) = NotifyEos
  /\ syncQ' = Tail(syncQ)
  /\ eosOut' = (eosOut \/ elem = "playing")
  /\ UNCHANGED <<stream, tasks, tpc, locals, input, decoder, locked_frames_,
                 syncop_tasks_num_, syncOpen, ypc, syncing, sink, pushed, failures, elem>>

TakeSync ==
  /\ ypc = "idle"
  /\ syncQ # <<>> /\ Head(syncQ) # NotifyEos
  /\ syncing' = Head(syncQ)
  /\ syncQ' = Tail(syncQ)
  /\ ypc' = "sync"
  /\ UNCHANGED <<stream, tasks, tpc, locals, input, decoder, locked_frames_,
                 syncop_tasks_num_, syncOpen, downstream, failures, elem>>

\* SyncOperation() succeeds: the surface is decoded, and stays locked only as a
\* reference.
SyncDone ==
  /\ ypc = "sync"
  /\ locked' \in IF KeepsRefs THEN {locked, locked \ {syncing}} ELSE {locked \ {syncing}}
  /\ ypc' = "push"
  /\ UNCHANGED <<stream, tasks, tpc, locals, input, toShow, locked_frames_,
                 syncop_tasks_num_, syncOpen, syncQ, syncing, downstream, failures, elem>>

\* Mutant of EndSync: cv_dev_busy_ is not notified.
EndSyncSilent ==
  /\ syncop_tasks_num_' = syncop_tasks_num_ - 1
  /\ tpc' = tpc
  /\ syncing' = None
  /\ ypc' = "idle"

\* --syncop_tasks_num_, the notification of cv_dev_busy_, and the frame reference.
EndSync ==
  /\ syncop_tasks_num_' = syncop_tasks_num_ - 1
  /\ tpc' = IF tpc = "busy" THEN "busyTest" ELSE tpc
  /\ syncing' = None
  /\ ypc' = "idle"

\* Mutant of SyncError: returns without the code at the label "done".
SyncErrorUncounted ==
  /\ MayFail("sync")
  /\ ypc = "sync"
  /\ failures' = failures \cup {"sync"}
  /\ locked' = locked \ {syncing}
  /\ ypc' = "idle" /\ syncing' = None
  /\ UNCHANGED <<stream, tasks, tpc, locals, input, toShow, locked_frames_,
                 syncop_tasks_num_, syncOpen, syncQ, downstream, elem>>

SyncError ==
  /\ MayFail("sync")
  /\ ypc = "sync"
  /\ failures' = failures \cup {"sync"}
  /\ locked' = locked \ {syncing}
  /\ EndSync
  /\ UNCHANGED <<stream, tasks, locals, input, toShow, locked_frames_, syncOpen, syncQ,
                 downstream, elem>>

\* buffer_ready_callback_(): the sink keeps the last SinkKeeps buffers.
Push ==
  /\ ypc = "push"
  /\ \/ /\ elem = "playing"
        /\ pushed' = pushed + 1
        /\ LET kept == Append(sink, syncing)
           IN  sink' = IF Len(kept) > SinkKeeps THEN Tail(kept) ELSE kept
        /\ UNCHANGED failures
     \/ /\ elem # "playing" \/ MayFail("flow")
        /\ failures' = failures \cup {"flow"}
        /\ UNCHANGED <<pushed, sink>>
  /\ ypc' = "erase"
  /\ UNCHANGED <<stream, tasks, tpc, locals, input, decoder, locked_frames_,
                 syncop_tasks_num_, syncOpen, syncQ, syncing, eosOut, elem>>

\* The surface leaves locked_frames_, locked or not; then the operation is uncounted.
Erase ==
  /\ ypc = "erase"
  /\ locked_frames_' = locked_frames_ \ {syncing}
  /\ EndSync
  /\ UNCHANGED <<stream, tasks, locals, input, decoder, syncOpen, syncQ, downstream,
                 failures, elem>>

SyncStep == TakeNotifyEos \/ TakeSync \/ SyncDone \/ SyncError \/ Push \/ Erase

\* The decoder drops a reference.
Unlock(s) ==
  /\ s \in locked \ toShow
  /\ s # syncing \/ ypc # "sync"
  /\ s # out \/ tpc # "out"
  /\ \A i \in DOMAIN syncQ : syncQ[i] # s
  /\ locked' = locked \ {s}
  /\ UNCHANGED <<stream, tasks, tpc, locals, input, toShow, locked_frames_, syncs,
                 downstream, failures, elem>>

-----------------------------------------------------------------------------
(* The application thread: PLAYING to NULL; the sink stops first.          *)

Change(from, to) ==
  /\ elem = from
  /\ elem' = to
  /\ UNCHANGED <<stream, tpc, locals, input_queue_, bits, buffered, is_eos_,
                 syncop_tasks_num_, ypc, syncing, pushed, eosOut, failures>>

Deactivate ==
  /\ Change("playing", "flushing")
  /\ sink' = <<>>
  /\ UNCHANGED <<tasks, is_dec_initialized_, decoder, locked_frames_, syncOpen, syncQ>>

Deactivated ==
  /\ spc = "idle"
  /\ Change("flushing", "ready")
  /\ UNCHANGED <<tasks, is_dec_initialized_, decoder, locked_frames_, syncOpen, syncQ,
                 sink>>

\* Dispose(): task_thread_.stop(), sync_thread_.stop() ...
StopTaskThread ==
  /\ Change("ready", "joinTask")
  /\ taskOpen' = FALSE
  /\ UNCHANGED <<taskQ, is_dec_initialized_, decoder, locked_frames_, syncOpen, syncQ,
                 sink>>

JoinTaskThread ==
  /\ tpc = "idle"
  /\ Change("joinTask", "stopSync")
  /\ taskQ' = <<>>
  /\ UNCHANGED <<taskOpen, is_dec_initialized_, decoder, locked_frames_, syncOpen,
                 syncQ, sink>>

StopSyncThread ==
  /\ Change("stopSync", "joinSync")
  /\ syncOpen' = FALSE
  /\ UNCHANGED <<tasks, is_dec_initialized_, decoder, locked_frames_, syncQ, sink>>

JoinSyncThread ==
  /\ ypc = "idle"
  /\ Change("joinSync", "free")
  /\ syncQ' = <<>>
  /\ UNCHANGED <<tasks, is_dec_initialized_, decoder, locked_frames_, syncOpen, sink>>

\* ... then the decoder, the session, fc_, the kept surfaces and the pool go.
FreeAll ==
  /\ Change("free", "null")
  /\ is_dec_initialized_' = FALSE
  /\ locked' = {} /\ toShow' = {} /\ locked_frames_' = {}
  /\ UNCHANGED <<tasks, syncOpen, syncQ, sink>>

DisposeStep == JoinTaskThread \/ StopSyncThread \/ JoinSyncThread \/ FreeAll

Next ==
  \/ Chain \/ ChainTest \/ ChainPost \/ SendEos
  \/ TaskStep
  \/ SyncStep
  \/ \E s \in Surfaces : Unlock(s)
  \/ Deactivate \/ Deactivated \/ StopTaskThread \/ DisposeStep

Spec == Init /\ [][Next]_vars

(***************************************************************************)
(* Fairness: the element's threads go on, and so does a state change once  *)
(* begun.  Upstream need not send, the decoder need not drop references.   *)
(***************************************************************************)
Fairness ==
  /\ WF_vars(ChainTest \/ ChainPost)
  /\ WF_vars(TaskStep)
  /\ WF_vars(SyncStep)
  /\ WF_vars(Deactivated \/ DisposeStep)

FairSpec == Spec /\ Fairness

-----------------------------------------------------------------------------
(* Properties.                                                             *)

(***************************************************************************)
(* A surface the decoder has yet to show is in locked_frames_: the find of *)
(* DecodeFrameAsync() cannot fail, and the pool cannot hand the surface    *)
(* out before it is shown, whatever the task thread's pruning and the sync *)
(* thread's erasing of locked_frames_ do meanwhile.  And as long as both   *)
(* threads live no locked surface is free, which the pool would offer as a *)
(* work surface and the decoder refuse: unless the decoder keeps surfaces  *)
(* locked that were shown, which the sync thread erases all the same.      *)
(***************************************************************************)
LockedIsKept ==
  /\ elem # "null" => /\ toShow \subseteq locked_frames_
                      /\ tpc = "out" => out \in locked_frames_ \cup {None}
  /\ ~KeepsRefs /\ elem \notin {"free", "null"} => locked \cap Free = {}

(***************************************************************************)
(* Types, and: syncop_tasks_num_, on which the task thread blocks when the *)
(* device is busy, counts the operations posted and not finished.          *)
(***************************************************************************)
InFlight == Cardinality({i \in DOMAIN syncQ : syncQ[i] # NotifyEos})
              + (IF ypc = "idle" THEN 0 ELSE 1)
Consistent == TypeOK /\ (syncOpen => syncop_tasks_num_ = InFlight)

(***************************************************************************)
(* EOS leaves the element last: unless something failed, every frame       *)
(* received before it was decoded, shown and pushed.  It takes a decoder   *)
(* that refuses no work surface: MORE_SURFACE, when a surface it keeps as  *)
(* a reference comes back from the pool, ends the drain with EOS.          *)
(***************************************************************************)
EosIsLast == ~KeepsRefs /\ eosOut /\ failures = {} => pushed = PerInput * sent

(***************************************************************************)
(* The failures after which a thread may be stuck: a surface whose decode  *)
(* or whose SyncOperation failed is never taken out of locked_frames_, so  *)
(* the pool loses it; and after a failed Init() the next buffer finds a    *)
(* closed session, on which FillVideoParams() repeats DecodeHeader().      *)
(***************************************************************************)
LosesSurfaces == failures \cap {"decode", "sync"} # {}
Stuck == LosesSurfaces \/ "init" \in failures

\* A chain call returns (deactivating the pad waits for it): the task thread
\* takes the buffer before, whatever else fails.
ChainReturns == spc = "wait" ~> spc = "idle" \/ Stuck

\* EOS comes out, or something failed, or the element leaves PLAYING.
EosDelivered == eosSent ~> eosOut \/ failures # {} \/ elem # "playing"

\* Dispose() returns: it joins the task thread, which may be in GetBuffer(), in
\* DecodeFrameAsync() waiting for the device or in FillVideoParams().
DisposeReturns == elem = "joinTask" ~> elem = "null" \/ Stuck
=============================================================================
