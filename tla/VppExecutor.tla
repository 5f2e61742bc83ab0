----------------------------- MODULE VppExecutor -----------------------------
(***************************************************************************)
(* mfxGstPluginVppData (executors/src/mfx_gst_executor_vpp.cpp): the video *)
(* processing element from its CAPS event to its disposal.                 *)
(*                                                                         *)
(* It is built like the other two executors (a streaming, a task, a sync   *)
(* and an application thread, and TaskQueue for its two mfxGstThreads) but *)
(* has two ways to process a frame: through the VPP, whose result the sync *)
(* thread pushes, or passed through, pushed by the task thread itself.     *)
(*                                                                         *)
(* An input frame is a number 1 .. MaxFrames, an output surface a number   *)
(* 1 .. PoolSize, an output frame the number of the call that made it.     *)
(* The VPP is external: it makes Rate frames of each frame it takes, may   *)
(* owe MaxDelay of them for a while, and keeps inputs locked as it likes.  *)
(***************************************************************************)
EXTENDS Integers, Sequences, FiniteSets

CONSTANTS
  MaxFrames,    \* bound: frames sent by upstream
  MaxSwitches,  \* bound: changes of the "passthrough" property while playing
  Rate,         \* output frames for each input frame
  MaxDelay,     \* bound: output frames the VPP may owe
  PoolSize,     \* surfaces in frame_pool_ (NumFrameSuggested, at least 2)
  SinkKeeps,    \* buffers the sink holds until the next ones come
  AsyncDepth,   \* the AsyncDepth property
  VideoMemory,  \* does the element give out video memory (out_mem_type_)?
  Faults,       \* the failures that may happen
  MaxFailures   \* bound: failures in one behaviour, each of another kind

ASSUME FramesAssumption == MaxFrames \in Nat /\ MaxSwitches \in Nat
ASSUME VppAssumption == Rate \in Nat \ {0} /\ MaxDelay \in Nat
ASSUME PoolAssumption == PoolSize \in Nat \ {0, 1} /\ SinkKeeps \in Nat
ASSUME PropertiesAssumption == AsyncDepth \in Nat \ {0} /\ VideoMemory \in BOOLEAN
ASSUME FaultsAssumption ==
  Faults \subseteq {"buffer", "copy", "run", "sync", "flow"} /\ MaxFailures \in Nat

VARIABLES
  spc, sent, eosSent, pending_tasks_num_,   \* streaming thread
  taskOpen, taskQ,                          \* task_thread_ as a TaskQueue
  tpc, sts, in_frame, out_frame,            \* task thread: position and locals
  input_queue_, is_eos_, is_passthrough_, switches,
  owed, taken, locked, made,                \* VPP: frames owed, is in_frame taken,
                                            \*   Data.Locked; frames made so far
  syncop_tasks_num_, syncOpen, syncQ,       \* sync_thread_ as a TaskQueue
  ypc, syncing,                             \* sync thread: position, its task
  input_locked_frames_,
  sink, pushed, eosOut, failures,           \* downstream; what failed so far
  elem                                      \* the application's state change

stream == <<spc, sent, eosSent, pending_tasks_num_>>
tasks == <<taskOpen, taskQ>>
locals == <<sts, in_frame, out_frame>>
mode == <<is_passthrough_, switches>>
vpp == <<owed, taken, locked>>
syncs == <<syncop_tasks_num_, syncOpen, syncQ>>
syncer == <<ypc, syncing>>
downstream == <<sink, pushed, eosOut>>
vars == <<stream, tasks, tpc, locals, input_queue_, is_eos_, mode, vpp, made, syncs,
          syncer, input_locked_frames_, downstream, failures, elem>>

Frames == 1 .. MaxFrames
Surfaces == 1 .. PoolSize
None == 0
EosTask == 0    \* in taskQ; a processing task is its frame

Release(f) == [kind |-> "release", arg |-> f, num |-> 0]
SyncOp(s, n) == [kind |-> "sync", arg |-> s, num |-> n]
NotifyEos == [kind |-> "eos", arg |-> None, num |-> 0]
NoTask == NotifyEos
SyncTasks == [kind : {"release", "sync", "eos"}, arg : Nat, num : Nat]

TypeOK ==
  /\ spc \in {"idle", "wait", "test", "post"}
  /\ sent \in 0 .. MaxFrames /\ eosSent \in BOOLEAN /\ pending_tasks_num_ \in Int
  /\ taskOpen \in BOOLEAN /\ taskQ \in Seq(Frames \cup {EosTask})
  /\ tpc \in {"idle", "loop", "get", "input", "run", "busyTest", "busy", "release",
              "submit", "pass", "passGet", "passPush"}
  /\ sts \in {"none", "more_data", "more_surface"}
  /\ in_frame \in Frames \cup {None} /\ out_frame \in Surfaces \cup {None}
  /\ input_queue_ \in Seq(Frames) /\ is_eos_ \in BOOLEAN
  /\ is_passthrough_ \in BOOLEAN /\ switches \in 0 .. MaxSwitches
  /\ owed \in Nat /\ taken \in BOOLEAN
  /\ locked \in SUBSET Frames /\ made \in Nat
  /\ syncop_tasks_num_ \in Int /\ syncOpen \in BOOLEAN /\ syncQ \in Seq(SyncTasks)
  /\ ypc \in {"idle", "sync", "push", "clean"} /\ syncing \in SyncTasks
  /\ input_locked_frames_ \in SUBSET Frames
  /\ sink \in Seq(Surfaces \cup {None}) /\ pushed \in Seq(Nat)
  /\ eosOut \in BOOLEAN /\ failures \subseteq Faults \cup {"flow"}
  /\ elem \in {"playing", "flushing", "ready", "joinTask", "stopSync", "joinSync",
               "free", "null"}

\* After the CAPS event: the VPP is initialised and both threads run.
Init ==
  /\ spc = "idle" /\ sent = 0 /\ eosSent = FALSE /\ pending_tasks_num_ = 0
  /\ taskOpen = TRUE /\ taskQ = <<>>
  /\ tpc = "idle" /\ sts = "none" /\ in_frame = None /\ out_frame = None
  /\ input_queue_ = <<>> /\ is_eos_ = FALSE
  /\ is_passthrough_ \in BOOLEAN /\ switches = 0
  /\ owed = 0 /\ taken = FALSE /\ locked = {} /\ made = 0
  /\ syncop_tasks_num_ = 0 /\ syncOpen = TRUE /\ syncQ = <<>>
  /\ ypc = "idle" /\ syncing = NoTask
  /\ input_locked_frames_ = {}
  /\ sink = <<>> /\ pushed = <<>> /\ eosOut = FALSE /\ failures = {}
  /\ elem = "playing"

\* A surface nothing references is in frame_pool_.
SyncSurfaces == {syncQ[i].arg : i \in {j \in DOMAIN syncQ : syncQ[j].kind = "sync"}}
Free == Surfaces \ ({out_frame, syncing.arg} \cup SyncSurfaces
                      \cup {sink[i] : i \in DOMAIN sink})

-----------------------------------------------------------------------------
(* The streaming thread: PostProcessingTask() and PostEndOfStreamTask().   *)

Chain ==
  /\ spc = "idle"
  /\ elem \in {"playing", "flushing"}
  /\ ~eosSent /\ sent < MaxFrames
  /\ sent' = sent + 1
  /\ pending_tasks_num_' = pending_tasks_num_ + 1
  /\ spc' = IF pending_tasks_num_ + 1 <= 1 THEN "post" ELSE "wait"
  /\ UNCHANGED <<eosSent, tasks, tpc, locals, input_queue_, is_eos_, mode, vpp, made,
                 syncs, syncer, input_locked_frames_, downstream, failures, elem>>

ChainTest ==
  /\ spc = "test"
  /\ spc' = IF pending_tasks_num_ <= 1 THEN "post" ELSE "wait"
  /\ UNCHANGED <<sent, eosSent, pending_tasks_num_, tasks, tpc, locals, input_queue_,
                 is_eos_, mode, vpp, made, syncs, syncer, input_locked_frames_,
                 downstream, failures, elem>>

\* The pads are deactivated before task_thread_.stop(): post() accepts the task.
ChainPost ==
  /\ spc = "post"
  /\ taskQ' = Append(taskQ, sent)
  /\ spc' = "idle"
  /\ UNCHANGED <<sent, eosSent, pending_tasks_num_, taskOpen, tpc, locals,
                 input_queue_, is_eos_, mode, vpp, made, syncs, syncer,
                 input_locked_frames_, downstream, failures, elem>>

SendEos ==
  /\ spc = "idle"
  /\ elem \in {"playing", "flushing"}
  /\ ~eosSent
  /\ eosSent' = TRUE
  /\ taskQ' = Append(taskQ, EosTask)
  /\ UNCHANGED <<spc, sent, pending_tasks_num_, taskOpen, tpc, locals, input_queue_,
                 is_eos_, mode, vpp, made, syncs, syncer, input_locked_frames_,
                 downstream, failures, elem>>

-----------------------------------------------------------------------------
(* The task thread: ProcessTask() asks for the mode once for each task.    *)

Process == tpc' = IF is_passthrough_ THEN "pass" ELSE "loop"

\* TaskThread_ProcessTask(): queue the frame, uncount it, notify cv_queue_.
TakeFrame ==
  /\ tpc = "idle"
  /\ taskQ # <<>> /\ Head(taskQ) # EosTask
  /\ taskQ' = Tail(taskQ)
  /\ input_queue_' = Append(input_queue_, Head(taskQ))
  /\ pending_tasks_num_' = pending_tasks_num_ - 1
  /\ spc' = IF spc = "wait" THEN "test" ELSE spc
  /\ Process
  /\ UNCHANGED <<sent, eosSent, taskOpen, locals, is_eos_, mode, vpp, made, syncs,
                 syncer, input_locked_frames_, downstream, failures, elem>>

\* TaskThread_EosTask()
TakeEos ==
  /\ tpc = "idle"
  /\ taskQ # <<>> /\ Head(taskQ) = EosTask
  /\ taskQ' = Tail(taskQ)
  /\ is_eos_' = TRUE
  /\ Process
  /\ UNCHANGED <<stream, taskOpen, locals, input_queue_, mode, vpp, made, syncs, syncer,
                 input_locked_frames_, downstream, failures, elem>>

\* Either mode returns; the references it held are dropped.
Return ==
  /\ tpc' = "idle"
  /\ sts' = "none" /\ in_frame' = None /\ out_frame' = None /\ taken' = FALSE

MayFail(f) == f \in Faults \ failures /\ Cardinality(failures) < MaxFailures

Fail(what) ==
  /\ Return
  /\ failures' = failures \cup {what}
  /\ UNCHANGED <<stream, tasks, input_queue_, is_eos_, mode, owed, locked, made, syncs,
                 syncer, input_locked_frames_, downstream, elem>>

\* Mutant of PostSync: the newest task first.
PostSyncFront(t) == IF syncOpen THEN <<t>> \o syncQ ELSE syncQ

PostSync(t) == IF syncOpen THEN Append(syncQ, t) ELSE syncQ

-----------------------------------------------------------------------------
(* The task thread: ProcessTask_VP().                                      *)

LoopEnd ==
  /\ tpc = "loop"
  /\ input_queue_ = <<>> /\ in_frame = None /\ ~is_eos_
  /\ Return
  /\ UNCHANGED <<stream, tasks, input_queue_, is_eos_, mode, owed, locked, made, syncs,
                 syncer, input_locked_frames_, downstream, failures, elem>>

\* Mutant of LoopNext: at the end of the stream the loop does not go on.
LoopNextUndrained ==
  /\ tpc = "loop"
  /\ input_queue_ # <<>> \/ in_frame # None
  /\ tpc' = IF sts = "more_data" THEN "input" ELSE "get"
  /\ UNCHANGED <<stream, tasks, locals, input_queue_, is_eos_, mode, vpp, made, syncs,
                 syncer, input_locked_frames_, downstream, failures, elem>>

\* After MORE_DATA the output surface is used again.
LoopNext ==
  /\ tpc = "loop"
  /\ input_queue_ # <<>> \/ in_frame # None \/ is_eos_
  /\ tpc' = IF sts = "more_data" THEN "input" ELSE "get"
  /\ UNCHANGED <<stream, tasks, locals, input_queue_, is_eos_, mode, vpp, made, syncs,
                 syncer, input_locked_frames_, downstream, failures, elem>>

\* frame_pool_.GetBuffer() blocks until a surface is free; until it returns,
\* out_frame_ref still holds the surface before.
GetSurface ==
  /\ tpc = "get"
  /\ \E s \in Free : out_frame' = s
  /\ tpc' = "input"
  /\ UNCHANGED <<stream, tasks, sts, in_frame, input_queue_, is_eos_, mode, vpp, made,
                 syncs, syncer, input_locked_frames_, downstream, failures, elem>>

NoSurface == tpc = "get" /\ MayFail("buffer") /\ Fail("buffer")

TakeInput ==
  /\ tpc = "input"
  /\ IF in_frame = None /\ input_queue_ # <<>>
       THEN in_frame' = Head(input_queue_) /\ input_queue_' = Tail(input_queue_)
       ELSE UNCHANGED <<in_frame, input_queue_>>
  /\ tpc' = "run"
  /\ UNCHANGED <<stream, tasks, sts, out_frame, is_eos_, mode, vpp, made, syncs, syncer,
                 input_locked_frames_, downstream, failures, elem>>

DeviceWorking == ypc = "sync" \/ \E i \in DOMAIN syncQ : syncQ[i].kind = "sync"

\* MFX_WRN_DEVICE_BUSY: wait on cv_dev_busy_ unless the depth is not used up.
RunBusy ==
  /\ tpc = "run"
  /\ DeviceWorking
  /\ tpc' = "busyTest"
  /\ UNCHANGED <<stream, tasks, locals, input_queue_, is_eos_, mode, vpp, made, syncs,
                 syncer, input_locked_frames_, downstream, failures, elem>>

BusyTest ==
  /\ tpc = "busyTest"
  /\ tpc' = IF syncop_tasks_num_ < AsyncDepth THEN "run" ELSE "busy"
  /\ UNCHANGED <<stream, tasks, locals, input_queue_, is_eos_, mode, vpp, made, syncs,
                 syncer, input_locked_frames_, downstream, failures, elem>>

\* The frames the VPP can make, once it has the input frame.
Available == owed + (IF in_frame # None /\ ~taken THEN Rate ELSE 0)

LockInput == locked' \in {locked, locked \cup ({in_frame} \ {None})}

\* ERR_NONE: a frame, and the input is no longer needed.  MORE_SURFACE: a frame,
\* and the same input wants another surface.
RunFrame ==
  /\ tpc = "run"
  /\ Available > 0
  /\ owed' = Available - 1
  /\ LockInput
  /\ made' = made + 1
  /\ \/ /\ sts' = "none"
        /\ owed' <= MaxDelay \/ in_frame = None
        /\ taken' = FALSE
        /\ tpc' = "release"
     \/ /\ sts' = "more_surface"
        /\ in_frame # None /\ owed' > 0
        /\ taken' = TRUE
        /\ tpc' = "submit"
  /\ UNCHANGED <<stream, tasks, in_frame, out_frame, input_queue_, is_eos_, mode, syncs,
                 syncer, input_locked_frames_, downstream, failures, elem>>

\* MORE_DATA with an input frame: the VPP owes it.
RunMoreData ==
  /\ tpc = "run"
  /\ in_frame # None
  /\ Available <= MaxDelay
  /\ owed' = Available
  /\ LockInput
  /\ sts' = "more_data" /\ taken' = FALSE
  /\ tpc' = "release"
  /\ UNCHANGED <<stream, tasks, in_frame, out_frame, input_queue_, is_eos_, mode, made,
                 syncs, syncer, input_locked_frames_, downstream, failures, elem>>

\* MORE_DATA without: drained, and EOS follows the last frame.
RunDrained ==
  /\ tpc = "run"
  /\ in_frame = None /\ owed = 0
  /\ is_eos_' = FALSE
  /\ syncQ' = PostSync(NotifyEos)
  /\ Return
  /\ UNCHANGED <<stream, tasks, input_queue_, mode, owed, locked, made,
                 syncop_tasks_num_, syncOpen, syncer, input_locked_frames_, downstream,
                 failures, elem>>

RunError == tpc = "run" /\ MayFail("run") /\ Fail("run")

\* Mutant of ReleaseInputSurface: the frame is dropped, locked or not.
ReleaseInputSurfaceNow ==
  /\ tpc = "release"
  /\ in_frame' = None
  /\ tpc' = IF sts = "none" THEN "submit" ELSE "loop"
  /\ UNCHANGED <<stream, tasks, sts, out_frame, input_queue_, is_eos_, mode, vpp, made,
                 syncs, syncer, input_locked_frames_, downstream, failures, elem>>

\* ReleaseInputSurface(): a surface still locked goes to the sync thread.
ReleaseInputSurface ==
  /\ tpc = "release"
  /\ syncQ' = IF in_frame \in locked THEN PostSync(Release(in_frame)) ELSE syncQ
  /\ in_frame' = None
  /\ tpc' = IF sts = "none" THEN "submit" ELSE "loop"
  /\ UNCHANGED <<stream, tasks, sts, out_frame, input_queue_, is_eos_, mode, vpp, made,
                 syncop_tasks_num_, syncOpen, syncer, input_locked_frames_, downstream,
                 failures, elem>>

\* ++syncop_tasks_num_ and the post of the sync operation.
Submit ==
  /\ tpc = "submit"
  /\ syncop_tasks_num_' = syncop_tasks_num_ + 1
  /\ syncQ' = PostSync(SyncOp(out_frame, made))
  /\ tpc' = "loop"
  /\ UNCHANGED <<stream, tasks, locals, input_queue_, is_eos_, mode, vpp, made, syncOpen,
                 syncer, input_locked_frames_, downstream, failures, elem>>

-----------------------------------------------------------------------------
(* The task thread: ProcessTask_PassThrough().                             *)

\* One frame of the queue, copied into a surface if video memory is wanted ...
PassTake ==
  /\ tpc = "pass"
  /\ input_queue_ # <<>>
  /\ in_frame' = Head(input_queue_)
  /\ input_queue_' = Tail(input_queue_)
  /\ made' = made + 1
  /\ tpc' = IF VideoMemory THEN "passGet" ELSE "passPush"
  /\ UNCHANGED <<stream, tasks, sts, out_frame, is_eos_, mode, vpp, syncs, syncer,
                 input_locked_frames_, downstream, failures, elem>>

\* ... or, with the queue empty, the end of the stream; is_eos_ stays set.
PassEos ==
  /\ tpc = "pass"
  /\ input_queue_ = <<>>
  /\ syncQ' = IF is_eos_ THEN PostSync(NotifyEos) ELSE syncQ
  /\ Return
  /\ UNCHANGED <<stream, tasks, input_queue_, is_eos_, mode, owed, locked, made,
                 syncop_tasks_num_, syncOpen, syncer, input_locked_frames_, downstream,
                 failures, elem>>

PassSurface ==
  /\ tpc = "passGet"
  /\ \E s \in Free : out_frame' = s
  /\ tpc' = "passPush"
  /\ UNCHANGED <<stream, tasks, sts, in_frame, input_queue_, is_eos_, mode, vpp, made,
                 syncs, syncer, input_locked_frames_, downstream, failures, elem>>

\* No surface, or allocator_->Lock() or Unlock() fails.
PassError == tpc = "passGet" /\ \E f \in {"buffer", "copy"} : MayFail(f) /\ Fail(f)

\* buffer_ready_callback_(): the sink keeps the last SinkKeeps buffers.
BufferReady(srf, num) ==
  \/ /\ elem = "playing"
     /\ pushed' = Append(pushed, num)
     /\ LET kept == Append(sink, srf)
        IN  sink' = IF Len(kept) > SinkKeeps THEN Tail(kept) ELSE kept
     /\ UNCHANGED failures
  \/ /\ elem # "playing" \/ MayFail("flow")
     /\ failures' = failures \cup {"flow"}
     /\ UNCHANGED <<pushed, sink>>

\* The task thread pushes the frame itself.
PassPush ==
  /\ tpc = "passPush"
  /\ BufferReady(out_frame, made)
  /\ Return
  /\ UNCHANGED <<stream, tasks, input_queue_, is_eos_, mode, owed, locked, made, syncs,
                 syncer, input_locked_frames_, eosOut, elem>>

TaskStep ==
  \/ TakeFrame \/ TakeEos
  \/ LoopEnd \/ LoopNext \/ GetSurface \/ TakeInput
  \/ RunBusy \/ BusyTest \/ RunFrame \/ RunMoreData \/ RunDrained
  \/ ReleaseInputSurface \/ Submit
  \/ PassTake \/ PassEos \/ PassSurface \/ PassPush

TaskFault == NoSurface \/ RunError \/ PassError

-----------------------------------------------------------------------------
(* The sync thread, and the VPP's own thread.                              *)

\* SyncThread_ReleaseInputSurfaceTask(): keep the surface if still locked.
TakeRelease ==
  /\ ypc = "idle"
  /\ syncQ # <<>> /\ Head(syncQ).kind = "release"
  /\ syncQ' = Tail(syncQ)
  /\ input_locked_frames_' = input_locked_frames_ \cup ({Head(syncQ).arg} \cap locked)
  /\ UNCHANGED <<stream, tasks, tpc, locals, input_queue_, is_eos_, mode, vpp, made,
                 syncop_tasks_num_, syncOpen, syncer, downstream, failures, elem>>

\* SyncThread_NotifyEosTask(): the event reaches an active source pad only.
TakeNotifyEos ==
  /\ ypc = "idle"
  /\ syncQ # <<>> /\ Head(syncQ).kind = "eos"
  /\ syncQ' = Tail(syncQ)
  /\ eosOut' = (eosOut \/ elem = "playing")
  /\ UNCHANGED <<stream, tasks, tpc, locals, input_queue_, is_eos_, mode, vpp, made,
                 syncop_tasks_num_, syncOpen, syncer, input_locked_frames_, sink, pushed,
                 failures, elem>>

TakeSync ==
  /\ ypc = "idle"
  /\ syncQ # <<>> /\ Head(syncQ).kind = "sync"
  /\ syncQ' = Tail(syncQ)
  /\ syncing' = Head(syncQ)
  /\ ypc' = "sync"
  /\ UNCHANGED <<stream, tasks, tpc, locals, input_queue_, is_eos_, mode, vpp, made,
                 syncop_tasks_num_, syncOpen, input_locked_frames_, downstream, failures,
                 elem>>

SyncDone ==
  /\ ypc = "sync"
  /\ ypc' = "push"
  /\ UNCHANGED <<stream, tasks, tpc, locals, input_queue_, is_eos_, mode, vpp, made,
                 syncs, syncing, input_locked_frames_, downstream, failures, elem>>

\* --syncop_tasks_num_ and the notification of cv_dev_busy_.
EndSync ==
  /\ syncop_tasks_num_' = syncop_tasks_num_ - 1
  /\ tpc' = IF tpc = "busy" THEN "busyTest" ELSE tpc
  /\ syncing' = NoTask
  /\ ypc' = "idle"

\* Mutant of SyncError: returns without the code at the label "done".
SyncErrorUncounted ==
  /\ MayFail("sync")
  /\ ypc = "sync"
  /\ failures' = failures \cup {"sync"}
  /\ syncing' = NoTask
  /\ ypc' = "idle"
  /\ UNCHANGED <<stream, tasks, tpc, locals, input_queue_, is_eos_, mode, vpp, made,
                 syncs, input_locked_frames_, downstream, elem>>

SyncError ==
  /\ MayFail("sync")
  /\ ypc = "sync"
  /\ failures' = failures \cup {"sync"}
  /\ EndSync
  /\ UNCHANGED <<stream, tasks, locals, input_queue_, is_eos_, mode, vpp, made, syncOpen,
                 syncQ, input_locked_frames_, downstream, elem>>

\* frame_ref is reset before the buffer is pushed.
Push ==
  /\ ypc = "push"
  /\ BufferReady(syncing.arg, syncing.num)
  /\ syncing' = NoTask
  /\ ypc' = "clean"
  /\ UNCHANGED <<stream, tasks, tpc, locals, input_queue_, is_eos_, mode, vpp, made,
                 syncs, input_locked_frames_, eosOut, elem>>

\* Unlocked input surfaces are released, then the operation is uncounted.
Clean ==
  /\ ypc = "clean"
  /\ input_locked_frames_' = input_locked_frames_ \cap locked
  /\ EndSync
  /\ UNCHANGED <<stream, tasks, locals, input_queue_, is_eos_, mode, vpp, made, syncOpen,
                 syncQ, downstream, failures, elem>>

SyncStep ==
  TakeRelease \/ TakeNotifyEos \/ TakeSync \/ SyncDone \/ SyncError \/ Push \/ Clean

\* The VPP no longer needs an input surface that it has been given.
Unlock(f) ==
  /\ f \in locked \ {in_frame}
  /\ locked' = locked \ {f}
  /\ UNCHANGED <<stream, tasks, tpc, locals, input_queue_, is_eos_, mode, owed, taken,
                 made, syncs, syncer, input_locked_frames_, downstream, failures, elem>>

-----------------------------------------------------------------------------
(* The application thread: the property, and PLAYING to NULL.              *)

Change(from, to) ==
  /\ elem = from
  /\ elem' = to
  /\ UNCHANGED <<stream, tpc, locals, input_queue_, is_eos_, mode, taken, made,
                 syncop_tasks_num_, syncer, pushed, eosOut, failures>>

\* SetProperty(PROP_vpp_passthrough)
SetPassthrough ==
  /\ elem = "playing"
  /\ switches < MaxSwitches
  /\ is_passthrough_' = ~is_passthrough_
  /\ switches' = switches + 1
  /\ UNCHANGED <<stream, tasks, tpc, locals, input_queue_, is_eos_, vpp, made, syncs,
                 syncer, input_locked_frames_, downstream, failures, elem>>

Deactivate ==
  /\ Change("playing", "flushing")
  /\ sink' = <<>>
  /\ UNCHANGED <<tasks, owed, locked, syncOpen, syncQ, input_locked_frames_>>

Deactivated ==
  /\ spc = "idle"
  /\ Change("flushing", "ready")
  /\ UNCHANGED <<tasks, owed, locked, syncOpen, syncQ, input_locked_frames_, sink>>

\* Dispose(): task_thread_.stop(), sync_thread_.stop() ...
StopTaskThread ==
  /\ Change("ready", "joinTask")
  /\ taskOpen' = FALSE
  /\ UNCHANGED <<taskQ, owed, locked, syncOpen, syncQ, input_locked_frames_, sink>>

JoinTaskThread ==
  /\ tpc = "idle"
  /\ Change("joinTask", "stopSync")
  /\ taskQ' = <<>>
  /\ UNCHANGED <<taskOpen, owed, locked, syncOpen, syncQ, input_locked_frames_, sink>>

StopSyncThread ==
  /\ Change("stopSync", "joinSync")
  /\ syncOpen' = FALSE
  /\ UNCHANGED <<tasks, owed, locked, syncQ, input_locked_frames_, sink>>

JoinSyncThread ==
  /\ ypc = "idle"
  /\ Change("joinSync", "free")
  /\ syncQ' = <<>>
  /\ UNCHANGED <<tasks, owed, locked, syncOpen, input_locked_frames_, sink>>

\* ... then the VPP, the session, the kept surfaces, the pool and the allocator go.
FreeAll ==
  /\ Change("free", "null")
  /\ owed' = 0 /\ locked' = {} /\ input_locked_frames_' = {}
  /\ UNCHANGED <<tasks, syncOpen, syncQ, sink>>

DisposeStep == JoinTaskThread \/ StopSyncThread \/ JoinSyncThread \/ FreeAll

Next ==
  \/ Chain \/ ChainTest \/ ChainPost \/ SendEos
  \/ TaskStep \/ TaskFault
  \/ SyncStep
  \/ \E f \in Frames : Unlock(f)
  \/ SetPassthrough
  \/ Deactivate \/ Deactivated \/ StopTaskThread \/ DisposeStep

Spec == Init /\ [][Next]_vars

(***************************************************************************)
(* Fairness: the element's threads go on, and so does a state change once  *)
(* begun.  Upstream need not send, the VPP need not unlock, and no failure *)
(* need happen: a thread that could only fail is stuck.                    *)
(***************************************************************************)
Fairness ==
  /\ WF_vars(ChainTest \/ ChainPost)
  /\ WF_vars(TaskStep)
  /\ WF_vars(SyncStep)
  /\ WF_vars(Deactivated \/ DisposeStep)

FairSpec == Spec /\ Fairness

-----------------------------------------------------------------------------
(* Properties.                                                             *)

Held(f) ==
  \/ in_frame = f
  \/ \E i \in DOMAIN syncQ : syncQ[i] = Release(f)
  \/ f \in input_locked_frames_

(***************************************************************************)
(* An input surface the VPP still reads stays referenced, wherever the     *)
(* task and sync threads have passed it, until the sync thread is stopped. *)
(* Neither GetBuffer() nor RunFrameVPPAsync() must have failed: if one of  *)
(* them does after MORE_SURFACE, the task thread drops the frame the first *)
(* call left locked.                                                       *)
(***************************************************************************)
LockedIsHeld ==
  elem \notin {"free", "null"} /\ failures \cap {"buffer", "run"} = {} =>
    \A f \in locked : Held(f)

(***************************************************************************)
(* Types, and: syncop_tasks_num_, on which the task thread blocks when the *)
(* device is busy, counts the operations posted and not finished.          *)
(***************************************************************************)
InFlight == Cardinality({i \in DOMAIN syncQ : syncQ[i].kind = "sync"})
              + (IF ypc = "idle" THEN 0 ELSE 1)
Consistent == TypeOK /\ (syncOpen => syncop_tasks_num_ = InFlight)

(***************************************************************************)
(* Frames leave in the order they were made and EOS leaves last: unless    *)
(* something failed, every frame received before it was processed, in the  *)
(* one mode or the other, and all that was made of it pushed.  It takes    *)
(* that "passthrough" is left alone: when it is switched while frames are  *)
(* in the sync thread, the task thread's frames overtake them.             *)
(***************************************************************************)
OutputInOrder ==
  switches = 0 =>
    /\ \A i, j \in DOMAIN pushed : i < j => pushed[i] < pushed[j]
    /\ eosOut /\ failures = {} =>
         Len(pushed) = (IF is_passthrough_ THEN 1 ELSE Rate) * sent

\* EOS comes out, or something failed, or the element leaves PLAYING.
EosDelivered == eosSent ~> eosOut \/ failures # {} \/ elem # "playing"
=============================================================================
