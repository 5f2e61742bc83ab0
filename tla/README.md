# Verification of the Media SDK GStreamer plug-ins

TLA+ models of the decoder, encoder and post-processing elements of this
repository, the TLC runs that check them on small instances, and TLAPS proofs
of what holds for every instance. Line numbers refer to the files under `src/`;
`PROJECT.json` names for every definition the lines it stands for.

## 1. The system

An element (`mfxdecode`-, `mfxenc`- or `mfxvpp`-like) is a GStreamer element with
one sink pad and one source pad. Its life is driven by three kinds of thread
that the program does not own or schedule, and two it makes itself:

    upstream streaming thread     events and chain()          plugin_*.cpp
        |  PostDecodeTask / PostEncodeTask / PostVppTask, PostEndOfStreamTask
        v  (waits while more than one task is pending)
    task thread (mfxGstThread)    feeds the codec             TaskThread_*
        |  sync operation, release of an input, end of stream
        v
    sync thread (mfxGstThread)    SyncOperation(), push       SyncThread_*
        |
        v
    downstream                    keeps buffers as long as it likes
    application thread            NULL -> READY (InitBase), READY -> NULL (Dispose)
    the device                    locks and unlocks surfaces (Data.Locked)

### Components, their state, operations and hard behaviours

| Component | State | Operations | What is hard | What makes it correct |
|---|---|---|---|---|
| Work thread `mfxGstThread` (`utils/mfx_gst_thread.cpp`) | task list, count of tasks not finished, stop flag, GstTask, two mutexes, a condition variable | `start` `stop` `wait` `post`, `loop`/`pop` on the worker | one condition variable for two purposes, signals that find nobody waiting, `stop()` clearing the queue against `post()` and the worker | FIFO, nothing lost, exact count, nothing runs after `stop()` returned, no lost wake-up |
| Encoder executor (`executors/mfx_gst_executor_venc.cpp`) | input queue, two counters, EOS flag, inputs kept for the device | `PostEncodeTask`, `EncodeFrameAsync`, `ReleaseInputSurface`, sync tasks, `InitBase` `Init` `Dispose` | an input is released by whichever thread first sees it unlocked; the busy wait needs the other thread's counter; EOS drain | a locked surface stays referenced; output and EOS in order; nothing running when the codec is deleted |
| Decoder executor (`..._vdec.cpp`) | frame constructor, surfaces in `locked_frames_`, output bookkeeping, bounded pool | `PostDecodeTask`, `DecodeFrameAsync`, `SyncOp`, `FillVideoParams`, `NotifyEos` | both threads prune `locked_frames_`; the pool blocks; the sink keeps surfaces; lazily initialised by the first buffer | a frame still to be shown is never reused; a surface always comes; disposal returns |
| Post-processing executor (`..._vpp.cpp`) | as the encoder's, plus the output pool and pass-through | `PostVppTask`, `ProcessFrameAsyncVP`, `..PassThrough`, sync tasks | two threads push to one pad; several outputs per input; a surface held while waiting for another | order, EOS last, inputs kept, progress |
| Element glue (`common/mfx_gst_plugin_*.cpp`) | states and flags of the element | `change_state`, STREAM_START, CAPS, EOS, `chain` | events on one thread while the task thread initialises on another; every step may fail | everything acquired is released, in an order that leaves nothing in use |
| Frame constructor (`wrappers/mfx_gst_frame_constructor.*`) | saved bytes, current buffer, loader flag | `Load` `Unload` `Sync` `Append` `Reset` `GetMfxBitstream` | bytes left over by the codec outlive the buffer they lie in; three ways to append | every byte read once, in order; no write past the allocation |
| Frame pools (`wrappers/mfx_gst_video_frame.cpp`, `utils/mfx_gst_video_frame_pool.cpp`, `..video_memory.cpp`) | GstBufferPool, its allocator with a response of surfaces | `Init` `Close` `GetBuffer`, `alloc_buffer`, `finalize` | buffers downstream keep the pool, hence its surfaces, over `Close()` and over the deletion of the frame allocator | surfaces exist while a buffer uses them; freed once |
| Frame allocator (`utils/base_allocator.cpp`, `vaapi_allocator.cpp`) | responses, cached decoder responses with counts | `AllocFrames` `FreeFrames` `Close` | codec and pool share one response; both free it | count = owners; destroyed once |
| Stream formats (`utils/mfx_utils.cpp`, `GetCodecExtraData`, `ConstructHeader`) | the bitstream that is converted in place | start codes to lengths and back, parameter sets to and from codec_data | a frame that grows while it is scanned, scans that stop short of its end, records cut anywhere | the decoder reads what the encoder coded |
| Display sharing (`utils/mfx_gst_context.cpp`, `QueryDisplay`, `RunQueryContext`) | VA display and GstContext, both counted; the display of each element | context queries of neighbours, answers, release | elements change state on different threads, the answer reads a pointer without a lock; two errors in the counts that cancel | exact counts, a display outlives its users, one display per pipeline |
| Buffer references (`wrappers/mfx_gst_buffer.*`, `mfx_gst_bitstream_buffer.*`, `mfx_gst_video_frame.*`) | buffer, mapping, timestamp | `srf`/`bst` (map), `getBuffer` (unmap), destructor | several wrappers of one buffer, each writing its timestamp back when it goes; one wrapper used by two threads | mappings and imported surfaces released once; a frame keeps its time |
| Decoder and encoder together (`Data.Locked`, the decoder's pool) | surfaces and one lock counter shared by two codecs | all of both executors | the encoder's queues and lists hold the surfaces the decoder waits for | no surface reused while needed; the pool does not run dry |
| Parameter wrappers (`mfx_wrappers.h`) | extension buffers, surfaces of system memory | construction, look-up | - | - |
| Plug-in base, per-codec elements, properties, tracing, scripts | tables | registration | - | - |

`PROJECT.json` lists each with its status; section 7 says why some are left out.

## 2. Modules

| Module | Models | Uses |
|---|---|---|
| `TaskQueue` | abstract: what a work thread promises its executor | - |
| `MfxGstThread` | `mfxGstThread` at the grain of its critical sections | refines `TaskQueue` |
| `MfxGstThreadProofs` | theorems of `MfxGstThread` | extends it, TLAPS |
| `VencExecutor`, `VdecExecutor`, `VppExecutor` | an executor between its CAPS event and its disposal, all threads | the two work threads as `TaskQueue` promises them (`taskOpen`, `taskQ`; `syncOpen`, `syncQ`) |
| `QueueCounts` | lemmas: how many entries of a queue are of one kind, when it is appended to and taken from; how large a set is | - |
| `VencExecutorProofs`, `VdecExecutorProofs`, `VppExecutorProofs` | theorems of the executors | extend them, `QueueCounts` |
| `ByteStream` | abstract: a FIFO of bytes | - |
| `FrameConstructor` | `IMfxGstFrameConstuctor`, `MfxBitstreamLoader` | refines `ByteStream` |
| `ElementLifecycle` | acquisition and release of resources by the three kinds of element, over lives, streams and CAPS events | - |
| `FrameAllocator` | `BaseFrameAllocator` over the VA-API allocator | - |
| `FramePool` | pools of video memory, their buffers, codec and downstream | extends `FrameAllocator` |
| `MCFramePool` | symmetry for TLC | extends `FramePool` |
| `Transcode` | a decoder linked to an encoder: `VdecExecutor` and `VencExecutor` without their failures, joined by surfaces, lock counters, the chain function and flushing | - |
| `TranscodeProofs` | theorems of `Transcode` | extends it, `QueueCounts` |
| `DisplaySharing` | displays and contexts of a pipeline of elements that change state concurrently | - |
| `MCDisplaySharing` | pipelines for TLC | extends `DisplaySharing` |
| `FrameReferences` | the wrappers of GstBuffers in system, video and DMA memory and of coded data | - |
| `MCFrameReferences` | symmetry for TLC | extends `FrameReferences` |
| `WrapperProofs` | theorems of `FrameConstructor`, `FramePool` and `FrameReferences`, the models of `src/wrappers` | extends the three, `QueueCounts` |
| `LifetimeProofs` | theorems of `DisplaySharing` and `ElementLifecycle`: what an element holds | extends the two, `QueueCounts` |
| `StreamFormat` | codec_data and NAL units from the encoder element to the decoder element | - |
| `MCStreamFormat` | parameter sets and NAL units for TLC | extends `StreamFormat` |

The executors do not instantiate `MfxGstThread`: they are built on the promise
that `MfxGstThread` is shown (checked and proved) to keep. That is what lets each
of them have four threads and remain checkable.

### Correspondence

**MfxGstThread.** Every critical section of `tasks_mutex_` is one action. A thread
blocked in `g_cond_wait` is a program-counter value, `g_cond_signal` moves one such
thread on, and a spurious wake-up is possible at any time. `thread_mutex_` is the
lock a GstTask holds for its whole loop, which is why two workers cannot interleave
in it. `Start` `StopSignal` `JoinStop` `Joined` `Clear` are `start()` and `stop()`;
`Post` is `post()`; the worker is `Check` `PopTask` `Run` `Finish`; `Enter`, `Lock`
and the states in `pc` are GStreamer's part. `accepted` and `executed` are history.

**Executors.** One action per piece of code between two points where another thread
can be noticed: the counters and `locked_frames_`, which `data_mutex_` guards, are
each changed in one action; the input queue and the flags of the task thread are
touched by that thread only. A task of a work thread is a record in its queue; what a
`std::bind` captured is the record's argument, and the references it holds count as
references. Codec, device and sink are external and as free as the API allows: they
hold back frames, reorder them, keep surfaces locked, answer DEVICE_BUSY,
MORE_SURFACE or an error. `Deactivate` .. `Free` is the shut-down in the order of
`Dispose()`, after GStreamer has deactivated the pads. In `VencExecutor` the element
can be used again (`Restart`), with all that `Dispose()` leaves behind.

**FrameConstructor.** A byte is its position in the stream, so order, loss and
duplication are visible. `buffered_bst_` keeps `DataOffset`, `DataLength` (the length
of `bytes`), `MaxLength` as the code computes it, and beside it the true size of
the allocation. `Open` and `Close` are the loader's life, `LoadBuffer`,
`LoadNothing`, `LoadHeader` the three ways of `Load()`, `Consume` the codec. Failing
allocations are left out.

**ElementLifecycle.** Each function that acquires or releases is a sequence of named
steps (`VencBaseOrder`, `VdecInitOrder`, `VppDisposeOrder`, ...) taken from the source, and
one action takes the next step. Each step that can fail may fail (`Faults`), after which the
`_error` label of that function is executed. The orders are given out position by position, one for each kind of element, so that
a step is its number; `held` is the set of resources acquired and not released. The task thread runs tasks, and in the
decoder also `Init()`, while the streaming thread handles events.

**FrameAllocator, FramePool.** Surfaces made by one `vaCreateSurfaces()` live and die
together and are one number; AllocId and crop size, by which a cached response is
found, are one key. A pool is a number; `holders` says of each buffer whether the
executor or downstream references it. A pool without an active flag and without
held buffers is finalised (`Settle`), which calls `Free` of an allocator that may be
gone: that use of a dead object is undefined; the model takes the outcome where
nothing happens and notes it in `lateFree`, so that the property can say when it
occurs. In `Dispose()` the executor drops the buffers of its list and of its tasks one after the other, each of which
may finalise a pool that `Init()` closed; `ClearLocked` is the end of that. Buffers which GStreamer throws away because downstream changed their memory
are `Discard`.

**Transcode.** The two executors again, at a coarser grain: the waits on `cv_queue_` are guards,
DEVICE_BUSY and the failures, which the executors' own modules have, are left out, and what
those modules leave to an external neighbour is real here: the decoder's push is the encoder's
chain function, on the decoder's sync thread, and the sink that keeps surfaces is the encoder's
`taskQ`, `frame_ref`, release tasks and `input_locked_frames_`. `Locked` is `Data.Locked` of a surface, the
sum of what both codecs lock. `Free` is what `GetBuffer()` can give. The encoder goes to NULL
while the decoder still runs (`Deactivate` .. `DisposeEncoder`); its pads then refuse frames.

**DisplaySharing.** The display and the GstContexts are objects with counts on a `heap`; a
count that is zero stays zero, as in GLib. `MakeSession` .. `MakeCodec` are the steps of
`InitBase()`: an encoder opens a display, the others ask (`AskDown`, `AskUp`: the reading of the
neighbour's `dpyctx_`; `Answer`: the context made for it; `Take`: the rest of `QueryDisplay()`). `Undo` is the label
`_error`, `DropContext` `FreeDevice` `ReleaseDisplay` the way to NULL, `Finalize` the end of the
element. `NewContext` makes two references, that of the
query and that of `gst_context_new()`, which the answering element never gives up; `Take` adds that of the asking element's list
and gives up that of the query (`gst_query_unref()`) and one it never had. `dangling` notes an answer with a display that was gone: then the
behaviour of the code is undefined, and the properties end. Of two neighbours an encoder is followed by a decoder
only (`LinksAssumption`): no other element here takes coded data.

**FrameReferences.** A wrapper is three fields: is it there, has it mapped, which timestamp. `Mapped`
`Unmapped` `Destroyed` are the virtual functions of the four classes, told apart by `memory`; that a
destructor calls the `unmap()` of its own class, which the class of coded data lacks, is in
`Destroyed`. `Acquire` .. `ProducerDrops` is the element that makes buffers, with its two threads (`Unmap` and
`Send` are the two halves of `getBuffer()`, between which `LookAt` of the other thread may map);
`Wrap` `Read` `BranchDrops` `PassThrough` are the elements behind a tee.

**StreamFormat.** Bytes are numbers here, because the code compares them. An iteration of
a loop is a step: `ReadSet` of `ConstructHeader()`, `WriteLength` of `write_nalu_length()`,
`WriteStartCode` of `convert_avcc_to_bytestream()`. The writer of codec_data is an operator
on a record of bytes (`PutRawBytes`, `PutByte`, `PutFields`); a writer that has failed threw
`EndOfBuffer`. The codec's choice of start codes, parameter sets and free bytes is external;
codec_data may be cut short on its way. What the decoder reads (`stream`) is the header
and the converted frame, as two `Append()`s put them together.

## 3. Runs

`tlc -config X.cfg M` in this directory. All bounds are constants of the modules;
distinct states are from two workers and a minute or two at most.

| Run | Question | Bounds | Distinct states |
|---|---|---|---|
| `thread` | does the work thread lose, reorder or miscount tasks, miss a wake-up, or leave something running after `stop()`? does it implement `TaskQueue`? | 4 posts, 3 starts, one caller of `wait()` | 2,979 |
| `venc` | surfaces kept, counters, order, EOS, disposal of the encoder, used twice | 3 frames, 1 held back, AsyncDepth 1, all failures | 827,586 |
| `vdec` | the same of the decoder with its pool, and progress | 3 buffers, pool of 3, sink keeps 1, AsyncDepth 1, one kind of failure per behaviour | 871,917 |
| `vpp` | the same of post-processing, pass-through switched once | 2 frames, 2 outputs each, pool of 2, sink keeps 1, one kind of failure | 1,738,239 |
| `fc_safety` | bytes once and in order, within MaxLength; implements `ByteStream` | 6 bytes, AVCC header | 4,315 |
| `lifecycle` | every resource released once, nothing used after its release, EOS or an error reported | three kinds, 2 lives, 2 streams, 2 CAPS, one failure per life | 1,123,820 |
| `formats` | does the decoder read the parameter sets and NAL units the encoder coded? | frames of up to 3 NAL units of 1, 2, 3 or 6 bytes, up to 3 free bytes, codec_data cut by up to 9 bytes, `RecordSize` 52 | 966,077 |
| `pool` | surfaces and their counts with codec, two pools, two lives | 2 frames, 3 allocations, 1 discard | 1,141,688 |
| `transcode` | do decoder and encoder, sharing surfaces, lose or overwrite a frame, or run out of surfaces? | 4 frames, pool of 3, 1 reference kept, 1 frame held back | 1,989,165 |
| `display` | are displays and contexts counted exactly, alive while used, and shared? | six pipelines of 2 or 3 elements, 5 changes to READY, 2 at a time, 1 failure | 1,751,351 |
| `references` | are maps and imports undone once, and do frames keep their time? | 2 buffers, 2 branches, 3 frames, 1 failed map, each kind of memory | 3,059,764 |
| `venc_reuse_hangs` | does a chain call return in an encoder used again? A violation, below | 2 frames, 1 held back, AsyncDepth 1, 2 lives, no failures | 17,144 |

### Why the bounds are enough

* The counters bite at two pending tasks and at `AsyncDepth` operations, so three
  frames and AsyncDepth 1 reach: one frame being encoded, one queued, one blocked in
  chain; one operation in the sync thread and a device that is busy.
* A pool of three in the decoder is the smallest where a surface is worked on, one
  waits to be shown and one is kept by the sink; the pool of two in `vpp` is the
  least `Init()` asks for, and the one the comment at `mfx_gst_executor_vpp.cpp:380`
  argues about.
* The work thread needs two tasks to be out of order, a third to be lost behind them,
  and two starts to meet what the first stop left; the runs have more of each.
* Two lives and two CAPS events are the least at which something left behind is met
  again. Three allocations serve two pools and the codec.
* The loops of the stream formats look five or six bytes ahead, so NAL units of one to
  three bytes and one longer reach each of their ends; three of them give a first, a middle and a
  last one. A cut of nine bytes ends the record in the last set, its length, its count and in
  the set before. `RecordSize` stands for the 1024 (H.264) and 1536 (HEVC) bytes of the code. Of the
  HEVC records, the one of the longer SPS and the shorter PPS has 52 bytes and just fits; with the longer PPS it has
  53 and overflows.
* In `transcode` a pool of three is `1 + MaxRefs + MaxDelay`, the least with which the pipeline does not stop;
  four frames are one more than the pool, so that every surface is used again while the
  encoder still has one of the others.
* Two elements that share a display and a third that asks one of them reach every order of
  asking, answering and releasing; five changes let one go down and come up again while the others run.
* Two branches are the least at which a wrapper of a buffer goes after another has read it, or
  before; three frames in two buffers make one buffer come back with what an earlier frame left.
* Six bytes are split by TLC in every way over buffers and calls of the codec, with
  leftovers over two appends (overwrite, grow, in place).

Deadlock is not checked where a run stops of itself: after the last frame, when
the element is in NULL, or when the bounds are used up. What must not stop is
stated as a liveness property instead. `thread` checks deadlock.

Every property of a passing run has a mutant in `PROJECT.json`: a definition changed
the way a plausible mistake in that code would change it, for which TLC must find the
property violated. The mutants stand beside the definitions they are mutants of.

### What the properties say

* *Types and counts* (`Consistent`, `Accounting`, `ResponsesCounted`, `DisplaysCounted`, `BuffersCounted`; the type
  invariant is part of each but `Accounting`, and of `NullHoldsNothing`, and for `thread` and `fc_safety` the theorem
  `TypeCorrect`): the counter
  another thread blocks on equals the operations it stands for: the tasks queued and running, the
  sync operations posted and not done (also the failed ones); the owners of a response, of a display,
  a context or a buffer, and the mappings of its memory. `Consistent` also says, in `venc`, that nothing runs or is queued when
  the codec is deleted, and in `transcode` that a disposed encoder keeps no surface of the decoder.
* *References*: `LockedIsHeld` (encoder, vpp), `LockedIsKept` (decoder), `FreeIsUnlocked` (both
  together), `SurfacesLive` (pool), `InUseIsAlive` (display): what the device or the codec still reads or will
  show is referenced, across the hand-over from task to sync thread and from element to element.
* *Data*: `LengthsAreRight` (what the encoder pushes are its NAL units, each behind its length),
  `StreamIsDecodable` (what the decoder reads are all parameter sets, or none, and the NAL units),
  `AllFramesCoded` (what leaves a transcoding pipeline are the frames that entered it), `TimesAreKept`.
* Two properties of `VdecExecutor` say less of a decoder that keeps reference frames locked (`KeepsRefs`), since
  the sync thread erases them from `locked_frames_` all the same: a locked surface may then be free in the pool, which is
  half of `LockedIsKept`, and a refused work surface ends the drain, hence EOS may come early (`EosIsLast`). The
  run `vdec` has no such decoder; what holds of one, with an encoder behind it, is `FreeIsUnlocked` of `Transcode`.
* *Order*: `FifoNoLoss`, `InOrder`, `OutputInOrder`, `EosIsLast`.
* *Life cycle*: `QuiescentAfterStop`, `NullHoldsNothing`, `UseIsSafe`, `DestroyedOnce`, `OneDisplay`.
* *Progress*: `StopReturns`, `AcceptedRuns`, `ChainReturns`, `EosDelivered`, `DisposeReturns`, `EosOrError`.
* *Refinement*: `PromiseSpec`, `StreamSpec`.

### Fairness

Weak fairness of each thread that has something to do inside the element: the
worker, the rest of a begun `chain()`, `stop()`, `Dispose()` or state change. The operating
system schedules runnable threads, and no mutex here is held over a blocking call
except `thread_mutex_`, which only the worker takes. No fairness is assumed of
upstream, of the application, of the codec's choice to unlock a surface, or of the sink:
they may stop at any time. A busy device finishes the operation that is
synchronised (the code gives `SyncOperation` 0xEFFFFFFF ms, 46 days; a status other than
none counts as a failure of it).

### Disagreements with the documentation

`venc_reuse_hangs`, a violation run; `PROJECT.json` quotes the line. `mfx_gst_executor_venc.h:73-74` promises that
after `Dispose()` the object is as before `InitBase()`. `pending_tasks_num_` is not. A frame is counted there and its task accepted;
`task_thread_.stop()` discards the task (`mfx_gst_thread.cpp:84-87`), which alone would have counted the frame down
(`mfx_gst_executor_venc.cpp:380`), and nothing else does. After NULL and PLAYING again the first chain call counts a
second frame and waits for ever. The run has no failures and one restart, so nothing but a discarded task can cause it. (A
post refused in the second life leaves one more frame counted, which a third life would meet; the run does not go there.)

### What else the models show

Found while modelling, with TLC where a model is named; the properties above are stated so as to
exclude them, by a named condition, a history variable or a constant.

* A decode error leaves its work surface in `locked_frames_`. When the pool is used up the task thread stays in
  `GetBuffer()`, and `Dispose()`, which joins it before it clears `locked_frames_`, never returns (`VdecExecutor`,
  `LosesSurfaces`; `mfx_gst_executor_vdec.h:71-72` says that it releases all resources).
* Two surfaces, which the comment at `mfx_gst_executor_vpp.cpp:380` says are enough, are not after a failed
  synchronisation: the task thread holds one, the sink the other (`VppExecutor`).
* After growing its buffer, `Append()` notes a capacity of `DataOffset + DataLength` plus once more the appended
  length (`mfx_gst_frame_constructor.h:125`), more than it allocated; a later append in place relies on it (`FrameConstructor`).
* Transcoding needs a pool of one surface more than the decoder keeps as references and the
  encoder holds back together, and one more for each surface that the encoder unlocks late or the decoder shows
  late. With one less, the decoder waits in `GetBuffer()` (`mfx_gst_executor_vdec.cpp:469`) for
  surfaces of which the encoder lets go only after its next synchronisation (`mfx_gst_executor_venc.cpp:596`),
  for which it needs a frame. The decoder asks for its pool before it knows who is behind it (`Transcode`).
* Taking a transcoding pipeline down sink first, the encoder's `sync_thread_.stop()` drops release tasks, so surfaces the
  encoder has locked go back to the decoder's pool; the decoder gets each, is answered
  MORE_SURFACE, keeps it in `locked_frames_`, and may wait in `GetBuffer()` when its own `Dispose()` wants to join it
  (so no property says that this always ends).
* Displays: the encoder never asks, so raising the elements in another order than a bin does, restarting an encoder alone
  or a tee to two encoders gives two displays. A neighbour that has no display answers all the
  same, which ends the search behind the source pad. An answer made while the neighbour disposes may reference a display that is gone (`dangling`).
* A wrapper in system or DMA memory that never mapped writes time zero into the buffer (`mfx_gst_video_frame.cpp:111`,
  `:158`): a frame that a post-processor passes through, or that a stopped thread throws away, loses its
  time in every branch (`zeroed`). A pass-through that copies to video memory drops it too (`mfx_gst_executor_vpp.cpp:458-492`).
  A failed `gst_memory_map()` leaves `mem_` set, so that the next `srf()` gives a surface without data. The decoder maps in one thread
  what it unmaps in the other (`lost`).

* `stop_thread_` is never reset: after `stop()`, a `start()` starts a worker for which
  `post()` refuses every task (`mfx_gst_thread.cpp:76`).
* `start()` on a started object overwrites `thread_`: two workers, one of them never joined
  (`RestartWhileRunning`). A second STREAM_START does that to the decoder (`Orphans`).
* `wait()` with two callers would wake one of them only; nobody calls `wait()`.
* `AsyncDepth` bounds the operations only after DEVICE_BUSY (`mfx_gst_executor_venc.cpp:451`).
* Decoder: a synchronisation error keeps the surface in `locked_frames_`; a decoder that
  answers MORE_SURFACE while draining ends the drain and loses the end of stream; with
  reference frames kept locked (`KeepsRefs`) this happens in ordinary streams; after a failed
  `Init()`, `FillVideoParams()` repeats `DecodeHeader()` for ever; a failing Query is not reported.
* Post-processing: switching pass-through while frames are under way reorders them
  (`switches`); an error after MORE_SURFACE drops an input that is still locked.
* A failed `Init()` closes the session and keeps the codec object, which `Dispose()` then
  closes after the session. A second CAPS event makes `Init()` fail, and closes
  session and pool under the task thread (`FirstStream`).
* EOS without CAPS dereferences a null `fc_` (`mfx_gst_executor_vdec.cpp:440`; `EosBeforeCaps`).
* `base_allocator.h:70-73` speaks of responses shared for encoder and vpp input;
  `base_allocator.cpp:127` shares those of decoders only.
* A pool whose `Alloc` fails leaks its pool and allocator objects; a pool whose buffers are
  kept by downstream over `Dispose()` calls `Free` of a deleted allocator (the comment at
  `mfx_gst_executor_vpp.cpp:409-413` says as much; `lateFree`); replacing a discarded buffer
  reads beyond the response's mids (`mfx_gst_video_frame_pool.cpp:80`; `discards`).

* Stream formats: a last NAL unit of less than three bytes (two behind a start code of four) is
  not converted (`mfx_utils.cpp:196`, `:202`, `:304`; `Convertible`): an end-of-sequence NAL unit has
  one. Two H.264 parameter sets of the 508 bytes there is room for need 1027 of the 1024 bytes of
  codec_data (`mfx_gst_executor_venc.cpp:868`), and nobody catches `EndOfBuffer`. When the codec does not
  report its sets, `GetCodecExtraData()` returns NULL, which goes to `gst_buffer_unref()` (`:848`). The test of
  the room for the header has the sign of `DataLength` wrong (`mfx_gst_frame_constructor.cpp:281`; how
  that buffer grows is not modelled). The record says 9 bits a sample whatever the stream
  (`mfx_gst_executor_venc.cpp:1059-1061`). Emulation prevention never acts in the record the code writes.

## 4. Proofs

`tlapm M.tla`. Assumptions are the named ASSUMEs of the modules and nothing else.

**MfxGstThreadProofs** (any number of posts, starts and waiters):

* `TypeCorrect`: `[]TypeOK`, also when a started object is started again.
* `FifoCorrect`: `[]FifoNoLoss`. The inductive invariant `FifoInv` adds to the property that
  at most one worker is inside the loop (`LoopMutex`: the property speaks of the task being
  run, and two running tasks would break it), that the tasks executed, running and queued are
  consecutive numbers up to `accepted` as long as nobody stopped, and that a stop is
  never undone.
* `AccountingCorrect`: the count equals the tasks there are; needs that a thread is alive only
  while `thread_` names it, hence the condition that nobody starts a started object.
* `StopQuiesces`: after `stop()` no worker is alive; same invariant.
* `ImplementsPromise`: `Spec => PromiseSpec`, step by step from the invariants above.

**QueueCounts.** The counters of the executors stand for tasks in queues. `Num(q, n, T)` is how many of the
first `n` entries of `q` are in `T`; the lemmas say how it changes with `Append` and `Tail`, that it is a natural number of at most
`n`, and what it is of an empty queue. The proofs below use no other induction-like fact about queues. `CountOf` and
`Without` are the same of a set: counters of objects stand for sets of their holders.

**The executors** (any number of buffers or frames, surfaces, delays and depths, every set of failures; `VencExecutor` also
any number of lives). Each proves `ConsistentCorrect`, the property about what is kept (`LockedIsHeldCorrect`,
`LockedIsKeptCorrect`) and the one about order (`OutputInOrderCorrect`, `EosIsLastCorrect`), from one `IInv`:

* *Types*: `TypeOK`, with, in the decoder and the post-processor, which references are not null at which point of a thread.
* `PhaseInv`: what each step of `Dispose()` has already stopped. Without it a stopped thread could
  still be in the middle of a surface, and the counters would be about nothing.
* `Counted`: `syncop_tasks_num_` equals the operations queued and the one in the hands of the sync thread, until that
  thread is stopped. The wait for a busy device relies on it.
* *What is held*: every surface that is locked or buffered by the codec is in one of the places the code keeps references:
  in the task that runs, in the release task on its way, in the list of locked inputs. In the decoder (`KeptInv`,
  `LockedInv`): a surface to be shown is neither being shown nor queued to be, so that the
  erasing of one thread never meets the other's.
* *Order* (`FramesInOrder`, `OrderInv`, in the decoder `Bounded` and `DrainInv`): where in the numbering each queue and thread is, and
  that after EOS has entered a queue nothing follows it and nothing is left before it: the coded frames made are those
  pushed and those in `syncQ`. `OutputInOrder` alone speaks only of what has left, and is not inductive.

The attempt on the decoder is where `KeepsRefs` entered `LockedIsKept` and `EosIsLast`: TLC had met neither on the run, where
it is `FALSE`; with it, TLC shows a short stream in which each fails.

**TranscodeProofs** (streams of any length, any pool, references and delay): `ConsistentCorrect`, `FreeIsUnlockedCorrect`,
`AllFramesCodedCorrect`. `IInv`:

* `HeldInv`. `FreeIsUnlocked` says that the pool offers no surface one of the codecs reads. It holds because of
  an order of three steps in the source: the decoder's sync thread pushes a surface (which puts it in the encoder's `taskQ`) before it
  erases it from `locked_frames_`. So `ReferencesAreKept`: a reference frame is in `locked_frames_`, unless it is the one about to be
  erased, or the encoder has it. `LockedIsKept`: what is locked by the encoder is what it encodes, has listed, or is about to
  release. `WorkIsAlone` and `WorkIsNotEncoded`: the decoder never writes into a surface that is shown, queued or encoded.
* `LineInv`: frames are numbered as decoded, and the four places between which they move (`Shown`, `Sent`, `Received`,
  `Encoded`) are positions in that numbering; each queue holds exactly the numbers between two of them, in order
  (`InOrder`). `CodedInv`: what the encoder coded and what it delays are together the frames it was given.
* `OpsInv`, `EosInv`: sync tasks match coded frames, EOS is last in each queue, and a stage that has seen EOS has nothing left.
* `LineInv` and what follows it is stated while the encoder plays: afterwards queues are dropped, and the frames with them.

**WrapperProofs** (streams of any length; any number of buffers, branches, frames and failed maps; any number of pools and
allocations):

* `TypeCorrect`, `BytesInOrder`, `NoWrapAround`, `ImplementsByteStream`. The inductive
  invariant `IInv` joins types, `InOrder` and `GoodBuffer`: that the saved bytes end within `MaxLength`
  whichever branch of `Append()` made them. The lemmas about pieces of the
  stream (`PieceConcat`, `SplitAt`, `NextBytes`) carry the arithmetic.
* `BuffersCountedCorrect`, `TimesAreKeptCorrect`, from `WrapperInv`. The counts alone are not inductive: `PlaceInv` says where a
  buffer may be at each step of the element that makes it (a buffer back in its pool has neither wrapper nor branch), and
  `TimeInv` what each wrapper will write back when it goes: the frame's own time if it has mapped, that or zero if not.
  That is why it does not matter in which order wrappers go, and why `zeroed` is the only exception.
* `ResponsesCountedCorrect`, `SurfacesLiveCorrect`, `DestroyedOnceCorrect`, from `PoolInv`. It adds that a response not shared has
  one owner; that surfaces exist exactly for the responses the allocator lists, and the others were destroyed once
  (`AllocatorInv`); that the response of a pool that is not finalised is listed while the allocator of its life is there, and that
  such a pool is the executor's or has buffers held (`OnePool`); and that a pool takes a new surface only when every buffer
  it has made exists or was thrown away (`BuffersInv`).

`FramePool` and `FrameReferences` are about who holds what. A counter in the code stands for a set of holders, named in the
proof (`Holding`, `PoolOwners`, ...); the lemmas say which holder a step adds to or takes from which set, and the counter follows.

**LifetimeProofs** (pipelines of any length and any number of changes of state; any number of lives, streams, CAPS events, tasks
and failures). The counters of displays and contexts are sets of holders too.

* `DisplaysCountedCorrect`, `InUseIsAliveCorrect`, `OneDisplayCorrect`, from `SharingInv`. `PlacesInv` says at each step of an
  element which of its pointers is set, and that a context in a query is nobody else's; the references of a context are then counted with the
  two errors that cancel (the leaked one and the one given up that was never had). For `OneDisplay`, `OrderInv` says that an element rises while
  those before it are down, and that the answer it carries is the display of the one behind it, if that is a post-processor or
  an encoder. `LinksAssumption` entered here:
  with an encoder in front of a post-processor the property is false, and no such link exists.
* `NullHoldsNothingCorrect`, from `LifeInv`. `OwnInv` says what each step of `Dispose()` has passed: after the joins no worker and no
  queue, after `Close()` no initialised codec, after step *k* none of the first *k* resources. A join takes one worker, so
  there must be at most one: `OtherWorkers` shows that an encoder or post-processor starts them only after an `Init()` that found
  no codec initialised, hence once a life (a second `Init()` fails, and its `_error` label closes the session). The decoder starts them in each stream: hence `Orphans`.
* `UseIsSafeCorrect`, from `UseInv`. For lives with one CAPS event (`Calm`), `ProgressInv` says how far `Init()` has come
  by what exists (`Doing`, `Undoing`), so outside it the codec is initialised exactly when there is a pool; `ReadyInv` that no thread uses the
  codec while another is in `Init()`. The theorem assumes `~EosBeforeCaps`, as in the run: if EOS may come
  without CAPS the clause about `fc_` is false (`mfx_gst_executor_vdec.cpp:440`, section 3).

Every `IInv` was checked by TLC before it was proved (that of `TranscodeProofs` with `MaxFrames`, `PoolSize`, `MaxRefs`, `MaxDelay`
of 3,3,1,1; 4,4,2,2; 4,2,1,1 and 3,4,0,3; those of pools, references, displays and the life cycle with the constants of the runs, and `LifeInv` and
`UseInv` also with 3 streams, 3 CAPS events and 2 failures).

### Only model-checked

* Every liveness property (`StopReturns`, `AcceptedRuns`, `ChainReturns`, `EosDelivered`, `DisposeReturns`, `EosOrError`):
  fairness and ENABLED are beyond the prover.
* The stream formats (`LengthsAreRight`, `StreamIsDecodable`): their loops over bytes are recursions over data of any
  length, and what a recursion computes for every input needs induction over it. `StreamFormat` declares no theorem.

## 5. Abstractions to keep in mind

Pixels, bit rates and caps fields are not modelled; a frame is a number, and so is a timestamp. The
decoding timestamp, the picture structure and the size of coded data go the way the timestamp does and are left out.
How a pool of system memory is configured, and the aligned copy `srf()` makes of a frame whose size is not a multiple of 16, are not modelled. The reserved bits, profile and level of the HEVC record are written as the code
writes them but no property is about them. Allocation failures of the C++ heap are not modelled anywhere. The application
changes states one at a time, as GStreamer's state lock makes it do.

## 6. Plan

Done in this order: work thread; the three executors on top of its promise; frame
constructor; life cycle; allocator and pools; stream formats; displays; references; decoder and
encoder together; the proofs of each.

Next:
1. *An abstract element* (what goes in comes out in order, EOS last) that the three executors implement.
2. *Second CAPS*: the life cycle composed with the pool, up to where the code is safe.

## 7. Not modelled, and why

* Plug-in base class, per-codec elements, property tables, caps templates: registration and
  constant tables, no behaviour over time.
* Debug and tracing: no state another component reads. `dlopen` of libva: pure I/O.
* Parameter wrappers: values copied and looked up by one thread, without behaviour over time.
* The CAPS queries of the elements and the decoder's SEGMENT event: no modelled state depends on them.
