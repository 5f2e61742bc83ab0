---------------------------- MODULE VencExecutor ----------------------------
(***************************************************************************)
(* mfxGstPluginVencData (executors/src/mfx_gst_executor_venc.cpp): the     *)
(* encoder element between its CAPS event and its disposal.                *)
(*                                                                         *)
(* Four threads meet here: the upstream streaming thread (chain and EOS),  *)
(* the task thread that feeds the encoder, the sync thread that waits for  *)
(* the device and pushes downstream, and the application thread that       *)
(* changes the element's state.  The task and sync threads are two         *)
(* mfxGstThread objects, used through what TaskQueue promises: an open     *)
(* FIFO, one task at a time, closed and discarded by stop().               *)
(*                                                                         *)
(* A frame is a number 1 .. MaxFrames, an encode operation the number of   *)
(* its sync point.  The encoder itself is external: it may hold back up to *)
(* MaxDelay frames, reorder them, keep input surfaces locked for as long   *)
(* as it likes after coding them, and say DEVICE_BUSY while an operation   *)
(* is unfinished.                                                          *)
(***************************************************************************)
EXTENDS Integers, Sequences, FiniteSets

CONSTANTS
  MaxFrames,   \* bound: frames sent by upstream
  MaxDelay,    \* bound: frames the encoder holds back
  AsyncDepth,  \* the AsyncDepth property of the element (1 .. 5)
  MaxRestarts, \* bound: returns from NULL to PLAYING
  Faults       \* the failures that may happen

ASSUME FramesAssumption == MaxFrames \in Nat /\ MaxDelay \in Nat /\ MaxRestarts \in Nat
ASSUME DepthAssumption == AsyncDepth \in Nat \ {0}
ASSUME FaultsAssumption == Faults \subseteq {"buffer", "encode", "sync", "flow"}

VARIABLES
  spc, sent, eosSent,           \* streaming thread; frames and EOS received
  pending_tasks_num_, syncop_tasks_num_,
  taskOpen, taskQ,              \* task_thread_ as a TaskQueue
  tpc, frame_ref, op,           \* task thread: position, input, new operation
  input_queue_, is_eos_,
  buffered, locked, ops,        \* encoder: held back, Data.Locked, operations
  syncOpen, syncQ,              \* sync_thread_ as a TaskQueue
  ypc, syncing,                 \* sync thread: position, operation
  input_locked_frames_,
  pushed, eosOut, failures,     \* downstream: operations, EOS; what failed
  elem, restarts                \* the application: state change, restarts

stream == <<spc, sent, eosSent>>
tasks == <<taskOpen, taskQ>>
encoder == <<buffered, locked, ops>>
syncs == <<syncOpen, syncQ>>
downstream == <<pushed, eosOut>>
app == <<elem, restarts>>
vars == <<stream, pending_tasks_num_, syncop_tasks_num_, tasks, tpc, frame_ref, op,
          input_queue_, is_eos_, encoder, syncs, ypc, syncing, input_locked_frames_,
          downstream, failures, app>>

Frames == 1 .. MaxFrames
NoFrame == 0
EosTask == 0     \* in taskQ; an encode task is its frame
NoOp == 0

Release(f) == [kind |-> "release", arg |-> f]
SyncOp(k) == [kind |-> "sync", arg |-> k]
NotifyEos == [kind |-> "eos", arg |-> 0]
SyncTasks == [kind : {"release", "sync", "eos"}, arg : Nat]

TypeOK ==
  /\ spc \in {"idle", "wait", "test", "post", "failed"}
  /\ sent \in 0 .. MaxFrames
  /\ eosSent \in BOOLEAN
  /\ pending_tasks_num_ \in Int
  /\ syncop_tasks_num_ \in Int
  /\ taskOpen \in BOOLEAN
  /\ taskQ \in Seq(Frames \cup {EosTask})
  /\ tpc \in {"idle", "loop", "encode", "busy", "busyTest", "release", "submit"}
  /\ frame_ref \in Frames \cup {NoFrame}
  /\ op \in Nat
  /\ input_queue_ \in Seq(Frames)
  /\ is_eos_ \in BOOLEAN
  /\ buffered \in SUBSET Frames
  /\ locked \in SUBSET Frames
  /\ ops \in Nat
  /\ syncOpen \in BOOLEAN
  /\ syncQ \in Seq(SyncTasks)
  /\ ypc \in {"idle", "sync", "push", "clean"}
  /\ syncing \in Nat
  /\ input_locked_frames_ \in SUBSET Frames
  /\ pushed \in Seq(Nat)
  /\ eosOut \in BOOLEAN
  /\ failures \subseteq Faults \cup {"flow", "refused"}
  /\ elem \in {"playing", "flushing", "ready", "joinTask", "stopSync", "joinSync",
               "free", "null"}
  /\ restarts \in 0 .. MaxRestarts

\* After the CAPS event: the encoder is initialised and both threads run.
Init ==
  /\ spc = "idle" /\ sent = 0 /\ eosSent = FALSE
  /\ pending_tasks_num_ = 0 /\ syncop_tasks_num_ = 0
  /\ taskOpen = TRUE /\ taskQ = <<>>
  /\ tpc = "idle" /\ frame_ref = NoFrame /\ op = NoOp
  /\ input_queue_ = <<>> /\ is_eos_ = FALSE
  /\ buffered = {} /\ locked = {} /\ ops = 0
  /\ syncOpen = TRUE /\ syncQ = <<>>
  /\ ypc = "idle" /\ syncing = NoOp
  /\ input_locked_frames_ = {}
  /\ pushed = <<>> /\ eosOut = FALSE /\ failures = {}
  /\ elem = "playing" /\ restarts = 0

Fail(what) == failures' = failures \cup {what}

-----------------------------------------------------------------------------
(* The streaming thread.                                                   *)

\* PostEncodeTask(): count the frame, then wait until at most one is pending.
Chain ==
  /\ spc = "idle"
  /\ elem \in {"playing", "flushing"}
  /\ ~eosSent /\ sent < MaxFrames
  /\ sent' = sent + 1
  /\ pending_tasks_num_' = pending_tasks_num_ + 1
  /\ spc' = IF pending_tasks_num_ + 1 <= 1 THEN "post" ELSE "wait"
  /\ UNCHANGED <<eosSent, syncop_tasks_num_, tasks, tpc, frame_ref, op, input_queue_,
                 is_eos_, encoder, syncs, ypc, syncing, input_locked_frames_,
                 downstream, failures, app>>

ChainTest ==
  /\ spc = "test"
  /\ spc' = IF pending_tasks_num_ <= 1 THEN "post" ELSE "wait"
  /\ UNCHANGED <<sent, eosSent, pending_tasks_num_, syncop_tasks_num_, tasks, tpc,
                 frame_ref, op, input_queue_, is_eos_, encoder, syncs, ypc, syncing,
                 input_locked_frames_, downstream, failures, app>>

\* task_thread_.post() of the frame.  A refused one is not uncounted; chain then
\* returns GST_FLOW_ERROR, on which upstream reports an error and ends the stream.
ChainPost ==
  /\ spc = "post"
  /\ IF taskOpen THEN taskQ' = Append(taskQ, sent) /\ spc' = "idle" /\ UNCHANGED failures
                 ELSE spc' = "failed" /\ Fail("refused") /\ UNCHANGED taskQ
  /\ UNCHANGED <<sent, eosSent, pending_tasks_num_, syncop_tasks_num_, taskOpen, tpc,
                 frame_ref, op, input_queue_, is_eos_, encoder, syncs, ypc, syncing,
                 input_locked_frames_, downstream, app>>

\* The EOS event: PostEndOfStreamTask(), or forwarded at once when refused.
SendEos ==
  /\ spc \in {"idle", "failed"}
  /\ elem \in {"playing", "flushing"}
  /\ ~eosSent
  /\ eosSent' = TRUE
  /\ taskQ' = IF taskOpen THEN Append(taskQ, EosTask) ELSE taskQ
  /\ eosOut' = (eosOut \/ (~taskOpen /\ elem = "playing"))
  /\ UNCHANGED <<spc, sent, pending_tasks_num_, syncop_tasks_num_, taskOpen, tpc,
                 frame_ref, op, input_queue_, is_eos_, encoder, syncs, ypc, syncing,
                 input_locked_frames_, pushed, failures, app>>

-----------------------------------------------------------------------------
(* The task thread.                                                        *)

\* TaskThread_EncodeTask(): queue the frame, uncount it, notify cv_queue_.
TakeFrame ==
  /\ tpc = "idle"
  /\ taskQ # <<>> /\ Head(taskQ) # EosTask
  /\ taskQ' = Tail(taskQ)
  /\ input_queue_' = Append(input_queue_, Head(taskQ))
  /\ pending_tasks_num_' = pending_tasks_num_ - 1
  /\ spc' = IF spc = "wait" THEN "test" ELSE spc
  /\ tpc' = "loop"
  /\ UNCHANGED <<sent, eosSent, syncop_tasks_num_, taskOpen, frame_ref, op, is_eos_,
                 encoder, syncs, ypc, syncing, input_locked_frames_, downstream, failures,
                 app>>

\* TaskThread_EosTask()
TakeEos ==
  /\ tpc = "idle"
  /\ taskQ # <<>> /\ Head(taskQ) = EosTask
  /\ taskQ' = Tail(taskQ)
  /\ is_eos_' = TRUE
  /\ tpc' = "loop"
  /\ UNCHANGED <<stream, pending_tasks_num_, syncop_tasks_num_, taskOpen, frame_ref, op,
                 input_queue_, encoder, syncs, ypc, syncing, input_locked_frames_,
                 downstream, failures, app>>

\* Mutant of LoopEnd: the loop does not go on to drain the encoder.
LoopEndUndrained ==
  /\ tpc = "loop"
  /\ input_queue_ = <<>>
  /\ tpc' = "idle"
  /\ UNCHANGED <<stream, pending_tasks_num_, syncop_tasks_num_, tasks, frame_ref, op,
                 input_queue_, is_eos_, encoder, syncs, ypc, syncing,
                 input_locked_frames_, downstream, failures, app>>

\* The head of the loop in EncodeFrameAsync(): done, or a buffer and a frame.
LoopEnd ==
  /\ tpc = "loop"
  /\ input_queue_ = <<>> /\ ~is_eos_
  /\ tpc' = "idle"
  /\ UNCHANGED <<stream, pending_tasks_num_, syncop_tasks_num_, tasks, frame_ref, op,
                 input_queue_, is_eos_, encoder, syncs, ypc, syncing,
                 input_locked_frames_, downstream, failures, app>>

LoopNext ==
  /\ tpc = "loop"
  /\ input_queue_ # <<>> \/ is_eos_
  /\ IF input_queue_ # <<>>
       THEN frame_ref' = Head(input_queue_) /\ input_queue_' = Tail(input_queue_)
       ELSE frame_ref' = NoFrame /\ UNCHANGED input_queue_
  /\ tpc' = "encode"
  /\ UNCHANGED <<stream, pending_tasks_num_, syncop_tasks_num_, tasks, op, is_eos_,
                 encoder, syncs, ypc, syncing, input_locked_frames_, downstream, failures,
                 app>>

\* buffer_pool_.GetBuffer() fails: the task ends without a word.
LoopNoBuffer ==
  /\ "buffer" \in Faults
  /\ tpc = "loop"
  /\ input_queue_ # <<>> \/ is_eos_
  /\ tpc' = "idle"
  /\ Fail("buffer")
  /\ UNCHANGED <<stream, pending_tasks_num_, syncop_tasks_num_, tasks, frame_ref, op,
                 input_queue_, is_eos_, encoder, syncs, ypc, syncing,
                 input_locked_frames_, downstream, app>>

\* The device works on operations that were submitted and not yet synchronised.
DeviceWorking ==
  ypc = "sync" \/ \E i \in DOMAIN syncQ : syncQ[i].kind = "sync"

\* MFX_WRN_DEVICE_BUSY: wait on cv_dev_busy_ unless the depth is not used up.
EncodeBusy ==
  /\ tpc = "encode"
  /\ DeviceWorking
  /\ tpc' = "busyTest"
  /\ UNCHANGED <<stream, pending_tasks_num_, syncop_tasks_num_, tasks, frame_ref, op,
                 input_queue_, is_eos_, encoder, syncs, ypc, syncing,
                 input_locked_frames_, downstream, failures, app>>

BusyTest ==
  /\ tpc = "busyTest"
  /\ tpc' = IF syncop_tasks_num_ < AsyncDepth THEN "encode" ELSE "busy"
  /\ UNCHANGED <<stream, pending_tasks_num_, syncop_tasks_num_, tasks, frame_ref, op,
                 input_queue_, is_eos_, encoder, syncs, ypc, syncing,
                 input_locked_frames_, downstream, failures, app>>

\* MFX_ERR_NONE: a coded frame g, and possibly a lock on the input surface.
EncodeNone ==
  /\ tpc = "encode"
  /\ LET ready == buffered \cup ({frame_ref} \ {NoFrame})
     IN  \E g \in ready : buffered' = ready \ {g}
  /\ locked' \in {locked, locked \cup ({frame_ref} \ {NoFrame})}
  /\ ops' = ops + 1
  /\ op' = ops + 1
  /\ tpc' = "release"
  /\ UNCHANGED <<stream, pending_tasks_num_, syncop_tasks_num_, tasks, frame_ref,
                 input_queue_, is_eos_, syncs, ypc, syncing, input_locked_frames_,
                 downstream, failures, app>>

\* MFX_ERR_MORE_DATA with a surface: the encoder holds the frame back.
EncodeMoreData ==
  /\ tpc = "encode"
  /\ frame_ref # NoFrame
  /\ Cardinality(buffered) < MaxDelay
  /\ buffered' = buffered \cup {frame_ref}
  /\ locked' \in {locked, locked \cup {frame_ref}}
  /\ op' = NoOp
  /\ tpc' = "release"
  /\ UNCHANGED <<stream, pending_tasks_num_, syncop_tasks_num_, tasks, frame_ref,
                 input_queue_, is_eos_, ops, syncs, ypc, syncing,
                 input_locked_frames_, downstream, failures, app>>

\* Mutant of PostSync: the newest task first.
PostSyncFront(t) == IF syncOpen THEN <<t>> \o syncQ ELSE syncQ

PostSync(t) == IF syncOpen THEN Append(syncQ, t) ELSE syncQ

\* MFX_ERR_MORE_DATA without a surface: drained; EOS follows the last operation.
EncodeDrained ==
  /\ tpc = "encode"
  /\ frame_ref = NoFrame
  /\ buffered = {}
  /\ is_eos_' = FALSE
  /\ syncQ' = PostSync(NotifyEos)
  /\ tpc' = "idle"
  /\ UNCHANGED <<stream, pending_tasks_num_, syncop_tasks_num_, tasks, frame_ref, op,
                 input_queue_, encoder, syncOpen, ypc, syncing, input_locked_frames_,
                 downstream, failures, app>>

\* Any other status: an error message, and the frame is dropped.
EncodeError ==
  /\ "encode" \in Faults
  /\ tpc = "encode"
  /\ Fail("encode")
  /\ frame_ref' = NoFrame
  /\ tpc' = "idle"
  /\ UNCHANGED <<stream, pending_tasks_num_, syncop_tasks_num_, tasks, op, input_queue_,
                 is_eos_, encoder, syncs, ypc, syncing, input_locked_frames_,
                 downstream, app>>

\* Mutant of ReleaseInputSurface: the frame is dropped, locked or not.
ReleaseInputSurfaceNow ==
  /\ tpc = "release"
  /\ frame_ref' = NoFrame
  /\ tpc' = IF op = NoOp THEN "loop" ELSE "submit"
  /\ UNCHANGED <<stream, pending_tasks_num_, syncop_tasks_num_, tasks, op, input_queue_,
                 is_eos_, encoder, syncs, ypc, syncing, input_locked_frames_,
                 downstream, failures, app>>

\* ReleaseInputSurface(): a surface still locked goes to the sync thread.
ReleaseInputSurface ==
  /\ tpc = "release"
  /\ syncQ' = IF frame_ref \in locked THEN PostSync(Release(frame_ref)) ELSE syncQ
  /\ frame_ref' = NoFrame
  /\ tpc' = IF op = NoOp THEN "loop" ELSE "submit"
  /\ UNCHANGED <<stream, pending_tasks_num_, syncop_tasks_num_, tasks, op, input_queue_,
                 is_eos_, encoder, syncOpen, ypc, syncing, input_locked_frames_,
                 downstream, failures, app>>

\* ++syncop_tasks_num_ and the post of the sync operation.
Submit ==
  /\ tpc = "submit"
  /\ syncop_tasks_num_' = syncop_tasks_num_ + 1
  /\ syncQ' = PostSync(SyncOp(op))
  /\ op' = NoOp
  /\ tpc' = "loop"
  /\ UNCHANGED <<stream, pending_tasks_num_, tasks, frame_ref, input_queue_, is_eos_,
                 encoder, syncOpen, ypc, syncing, input_locked_frames_, downstream,
                 failures, app>>

TaskStep ==
  \/ TakeFrame \/ TakeEos \/ LoopEnd \/ LoopNext \/ LoopNoBuffer
  \/ EncodeBusy \/ BusyTest \/ EncodeNone \/ EncodeMoreData \/ EncodeDrained
  \/ EncodeError \/ ReleaseInputSurface \/ Submit

-----------------------------------------------------------------------------
(* The sync thread, and the encoder's own thread.                          *)

\* SyncThread_ReleaseInputSurfaceTask(): keep the surface if still locked.
TakeRelease ==
  /\ ypc = "idle"
  /\ syncQ # <<>> /\ Head(syncQ).kind = "release"
  /\ syncQ' = Tail(syncQ)
  /\ input_locked_frames_' = input_locked_frames_ \cup ({Head(syncQ).arg} \cap locked)
  /\ UNCHANGED <<stream, pending_tasks_num_, syncop_tasks_num_, tasks, tpc, frame_ref,
                 op, input_queue_, is_eos_, encoder, syncOpen, ypc, syncing,
                 downstream, failures, app>>

\* SyncThread_NotifyEosTask(): the event reaches an active source pad only.
TakeNotifyEos ==
  /\ ypc = "idle"
  /\ syncQ # <<>> /\ Head(syncQ).kind = "eos"
  /\ syncQ' = Tail(syncQ)
  /\ eosOut' = (eosOut \/ elem = "playing")
  /\ UNCHANGED <<stream, pending_tasks_num_, syncop_tasks_num_, tasks, tpc, frame_ref,
                 op, input_queue_, is_eos_, encoder, syncOpen, ypc, syncing,
                 input_locked_frames_, pushed, failures, app>>

TakeSync ==
  /\ ypc = "idle"
  /\ syncQ # <<>> /\ Head(syncQ).kind = "sync"
  /\ syncQ' = Tail(syncQ)
  /\ syncing' = Head(syncQ).arg
  /\ ypc' = "sync"
  /\ UNCHANGED <<stream, pending_tasks_num_, syncop_tasks_num_, tasks, tpc, frame_ref,
                 op, input_queue_, is_eos_, encoder, syncOpen, input_locked_frames_,
                 downstream, failures, app>>

\* SyncOperation() succeeds.
SyncDone ==
  /\ ypc = "sync"
  /\ ypc' = "push"
  /\ UNCHANGED <<stream, pending_tasks_num_, syncop_tasks_num_, tasks, tpc, frame_ref,
                 op, input_queue_, is_eos_, encoder, syncs, syncing,
                 input_locked_frames_, downstream, failures, app>>

\* --syncop_tasks_num_ and the notification of cv_dev_busy_.
EndSync ==
  /\ syncop_tasks_num_' = syncop_tasks_num_ - 1
  /\ tpc' = IF tpc = "busy" THEN "busyTest" ELSE tpc
  /\ syncing' = NoOp
  /\ ypc' = "idle"

\* SyncOperation() or write_nalu_length() fails: the buffer is dropped.
SyncError ==
  /\ "sync" \in Faults
  /\ ypc = "sync"
  /\ Fail("sync")
  /\ EndSync
  /\ UNCHANGED <<stream, pending_tasks_num_, tasks, frame_ref, op, input_queue_,
                 is_eos_, encoder, syncs, input_locked_frames_, downstream, app>>

\* buffer_ready_callback_(): a push that does not return OK is an error message.
Push ==
  /\ ypc = "push"
  /\ \/ /\ elem = "playing"
        /\ pushed' = Append(pushed, syncing)
        /\ UNCHANGED failures
     \/ /\ elem # "playing" \/ "flow" \in Faults
        /\ Fail("flow")
        /\ UNCHANGED pushed
  /\ ypc' = "clean"
  /\ UNCHANGED <<stream, pending_tasks_num_, syncop_tasks_num_, tasks, tpc, frame_ref,
                 op, input_queue_, is_eos_, encoder, syncs, syncing,
                 input_locked_frames_, eosOut, app>>

\* Unlocked surfaces are released, then the operation is uncounted.
Clean ==
  /\ ypc = "clean"
  /\ input_locked_frames_' = input_locked_frames_ \cap locked
  /\ EndSync
  /\ UNCHANGED <<stream, pending_tasks_num_, tasks, frame_ref, op, input_queue_,
                 is_eos_, encoder, syncs, downstream, failures, app>>

SyncStep ==
  TakeRelease \/ TakeNotifyEos \/ TakeSync \/ SyncDone \/ SyncError \/ Push \/ Clean

\* The encoder no longer needs the surface of a frame it has coded.
Unlock(f) ==
  /\ f \in locked \ buffered
  /\ locked' = locked \ {f}
  /\ UNCHANGED <<stream, pending_tasks_num_, syncop_tasks_num_, tasks, tpc, frame_ref,
                 op, input_queue_, is_eos_, buffered, ops, syncs, ypc, syncing,
                 input_locked_frames_, downstream, failures, app>>

-----------------------------------------------------------------------------
(* The application thread: PLAYING to NULL.  Deactivating the source pad   *)
(* makes pushes fail; deactivating the sink pad waits for chain to return. *)

Change(from, to) ==
  /\ elem = from
  /\ elem' = to
  /\ UNCHANGED <<stream, pending_tasks_num_, syncop_tasks_num_, tpc, frame_ref, op,
                 input_queue_, is_eos_, ypc, syncing, downstream, failures, restarts>>

Deactivate ==
  /\ Change("playing", "flushing")
  /\ UNCHANGED <<tasks, encoder, syncs, input_locked_frames_>>

Deactivated ==
  /\ spc \in {"idle", "failed"}
  /\ Change("flushing", "ready")
  /\ UNCHANGED <<tasks, encoder, syncs, input_locked_frames_>>

\* Dispose(): task_thread_.stop() ...
StopTaskThread ==
  /\ Change("ready", "joinTask")
  /\ taskOpen' = FALSE
  /\ UNCHANGED <<taskQ, encoder, syncs, input_locked_frames_>>

\* Mutant of JoinTaskThread: the running task is not waited for.
JoinTaskThreadEarly ==
  /\ Change("joinTask", "stopSync")
  /\ taskQ' = <<>>
  /\ UNCHANGED <<taskOpen, encoder, syncs, input_locked_frames_>>

JoinTaskThread ==
  /\ tpc = "idle"
  /\ Change("joinTask", "stopSync")
  /\ taskQ' = <<>>
  /\ UNCHANGED <<taskOpen, encoder, syncs, input_locked_frames_>>

\* ... then sync_thread_.stop() ...
StopSyncThread ==
  /\ Change("stopSync", "joinSync")
  /\ syncOpen' = FALSE
  /\ UNCHANGED <<tasks, encoder, syncQ, input_locked_frames_>>

JoinSyncThread ==
  /\ ypc = "idle"
  /\ Change("joinSync", "free")
  /\ syncQ' = <<>>
  /\ UNCHANGED <<tasks, encoder, syncOpen, input_locked_frames_>>

\* ... then the encoder, the session, the kept surfaces and the allocator go.
Free ==
  /\ Change("free", "null")
  /\ buffered' = {} /\ locked' = {}
  /\ input_locked_frames_' = {}
  /\ UNCHANGED <<tasks, ops, syncs>>

(***************************************************************************)
(* NULL to PLAYING again, with a new stream.  InitBase(), Init() and the   *)
(* two start() calls leave everything Dispose() left: the counters, the    *)
(* input queue and the end-of-stream flag, and stop_thread_, for which     *)
(* both threads refuse every task.                                         *)
(***************************************************************************)
Restart ==
  /\ elem = "null" /\ restarts < MaxRestarts
  /\ elem' = "playing"
  /\ restarts' = restarts + 1
  /\ spc' = "idle" /\ sent' = 0 /\ eosSent' = FALSE
  /\ ops' = 0 /\ pushed' = <<>> /\ eosOut' = FALSE /\ failures' = {}
  /\ UNCHANGED <<pending_tasks_num_, syncop_tasks_num_, tasks, tpc, frame_ref, op,
                 input_queue_, is_eos_, buffered, locked, syncs, ypc, syncing,
                 input_locked_frames_>>

DisposeStep == JoinTaskThread \/ StopSyncThread \/ JoinSyncThread \/ Free

Next ==
  \/ Chain \/ ChainTest \/ ChainPost \/ SendEos
  \/ TaskStep
  \/ SyncStep
  \/ \E f \in Frames : Unlock(f)
  \/ Deactivate \/ Deactivated \/ StopTaskThread \/ DisposeStep \/ Restart

Spec == Init /\ [][Next]_vars

(***************************************************************************)
(* Fairness: each thread that can take a step inside the element takes it. *)
(* Upstream need not send anything, the encoder need not unlock, and the   *)
(* application need not change the state; begun, a change goes on.         *)
(***************************************************************************)
Fairness ==
  /\ WF_vars(ChainTest \/ ChainPost)
  /\ WF_vars(TaskStep)
  /\ WF_vars(SyncStep)
  /\ WF_vars(Deactivated \/ DisposeStep)

FairSpec == Spec /\ Fairness

-----------------------------------------------------------------------------
(* Properties.                                                             *)

(***************************************************************************)
(* A surface the encoder still reads is kept referenced: by the task       *)
(* thread, by a release task on its way to the sync thread, or by          *)
(* input_locked_frames_.  Otherwise upstream gets the buffer back and      *)
(* overwrites it while it is being encoded.                                *)
(***************************************************************************)
Held(f) ==
  \/ frame_ref = f
  \/ \E i \in DOMAIN syncQ : syncQ[i] = Release(f)
  \/ f \in input_locked_frames_

\* Surfaces the encoder reads stay referenced until the sync thread is stopped.
LockedIsHeld == elem \notin {"free", "null"} => \A f \in locked : Held(f)

(***************************************************************************)
(* Types, and: syncop_tasks_num_, on which the task thread blocks when the *)
(* device is busy, counts the operations posted to the sync thread and not *)
(* finished (until the sync thread is stopped, which drops operations      *)
(* uncounted).  When Dispose() deletes the encoder, closes the session and *)
(* deletes the allocator, both threads are idle with empty queues, and     *)
(* neither of them holds an input frame.  (input_queue_ may: one           *)
(* GetBuffer() failed for stays there.)                                    *)
(***************************************************************************)
InFlight == Cardinality({i \in DOMAIN syncQ : syncQ[i].kind = "sync"})
              + (IF ypc = "idle" THEN 0 ELSE 1)
QuiescentWhenFreed ==
  elem \in {"free", "null"} =>
    /\ tpc = "idle" /\ ypc = "idle" /\ spc \in {"idle", "failed"}
    /\ taskQ = <<>> /\ syncQ = <<>>
    /\ frame_ref = NoFrame

Consistent ==
  TypeOK /\ (syncOpen => syncop_tasks_num_ = InFlight) /\ QuiescentWhenFreed

(***************************************************************************)
(* Coded buffers go downstream in the order the encoder produced them, and *)
(* EOS after everything else: unless something failed, every frame         *)
(* received before it has been encoded and pushed.                         *)
(***************************************************************************)
OutputInOrder ==
  /\ \A i, j \in DOMAIN pushed : i < j => pushed[i] < pushed[j]
  /\ eosOut /\ failures = {} => pushed = [k \in 1 .. sent |-> k]

(***************************************************************************)
(* "State of the object is as it was before InitBase() call" once          *)
(* Dispose() returned, so a chain call returns in a later life too.  It    *)
(* does not hold: a frame whose task was accepted, and which               *)
(* task_thread_.stop() discards, stays counted in pending_tasks_num_, and  *)
(* the first chain call of the next life waits for that count to drop.     *)
(***************************************************************************)
ReusedChainReturns == restarts > 0 /\ spc = "wait" ~> spc \in {"idle", "failed"}

\* EOS comes out, or something failed, or the element leaves PLAYING.
EosDelivered == eosSent ~> eosOut \/ failures # {} \/ elem # "playing"
=============================================================================
