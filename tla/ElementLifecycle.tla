-------------------------- MODULE ElementLifecycle --------------------------
(***************************************************************************)
(* What an element of each of the three kinds holds over its life: the     *)
(* mediasdk session, display, allocator, codec object, HEVC plug-in, frame *)
(* constructor, pool and two work threads, acquired by InitBase() on NULL  *)
(* to READY, by the CAPS and STREAM_START events and, in the decoder, by   *)
(* the first buffer, and released by Dispose() on READY to NULL.           *)
(*                                                                         *)
(* Three threads take part: the application (state changes), the streaming *)
(* thread (events and buffers) and the task thread, which goes on working  *)
(* while the streaming thread handles the next event.  Any step that can   *)
(* fail may fail; each function then runs its _error label.                *)
(*                                                                         *)
(* The three executors differ in the order of their steps, which the       *)
(* ...Order operators give; one action takes the next step of an order.    *)
(***************************************************************************)
EXTENDS Integers, Sequences, FiniteSets

CONSTANTS
  Kinds,       \* the kinds of element
  MaxLives,    \* bound: changes from NULL to READY
  MaxStreams,  \* bound: changes from READY to PAUSED
  MaxCaps,     \* bound: CAPS events in one life
  MaxTasks,    \* bound: tasks in a work thread's queue
  Faults,      \* the steps that may fail
  MaxFailures, \* bound: failures in one life
  EosBeforeCaps  \* may EOS reach a decoder that has accepted no CAPS?

ASSUME KindsAssumption == Kinds \subseteq {"venc", "vdec", "vpp"} /\ Kinds # {}
ASSUME BoundsAssumption ==
  {MaxLives, MaxStreams, MaxCaps, MaxTasks} \subseteq Nat \ {0} /\ MaxFailures \in Nat
ASSUME EosAssumption == EosBeforeCaps \in BOOLEAN

VARIABLES
  kind, hardware, hevc,     \* the element, its "impl" property and its codec
  state, apc, astep,        \* GstState; the application's place in a change of it
  held,                     \* the resources the element holds
  inited,                   \* is the codec object initialised?
  task, sync,               \* the two work threads
  taskQ, tpc, syncQ, ypc,   \* their queues, and what they are doing
  spc, ipc, istep,          \* streaming thread; who is where in Init()
  begun, negotiated,        \* this stream: STREAM_START seen, last CAPS accepted?
  eosSent, eosOut, refused, \* this stream: EOS, and was an error signalled?
  lives, streams, caps,     \* history: lives; streams and CAPS events of this one
                            \*   (or of an earlier one that had two streams)
  failures                  \* history: the steps that failed in this life

config == <<kind, hardware, hevc>>
app == <<state, apc, astep>>
threads == <<task, sync>>
taskVars == <<taskQ, tpc>>
syncVars == <<syncQ, ypc>>
initing == <<ipc, istep>>
events == <<begun, negotiated>>
signals == <<eosSent, eosOut, refused>>
history == <<lives, streams, caps, failures>>
vars == <<config, app, held, inited, threads, taskVars, syncVars, spc, initing,
          events, signals, history>>

Callers == {"stream", "task"}

\* A work thread: has it thread_, is stop_thread_ set, and how many workers live.
NewThread == [started |-> FALSE, stopping |-> FALSE, workers |-> 0]
Threads == [started : BOOLEAN, stopping : BOOLEAN, workers : 0 .. MaxStreams]

-----------------------------------------------------------------------------
(* The order of the steps.                                                 *)

\* InitBase() of each executor; without hardware there is no device to open.
BaseSteps ==
  IF hardware
    THEN <<"session", "impl", "display", "allocator", "handle", "codec", "setAllocator">>
    ELSE <<"session", "impl", "codec", "setAllocator">>
VencBaseOrder == BaseSteps
VdecBaseOrder == BaseSteps
VppBaseOrder == BaseSteps

\* The _error label of InitBase().
BaseUndo == {"codec", "session", "allocator", "display"}

\* Init(); the decoder makes its pool before it initialises the codec.
VencInitOrder ==
  IF hevc THEN <<"plugin", "query", "init", "params", "pool">>
          ELSE <<"query", "init", "params", "pool">>
VdecInitOrder == <<"query", "pool", "init", "params">>
VppInitOrder == <<"query", "init", "params", "pool">>

\* The _error label of Init(): the codec object itself is kept.
InitUndoOrder ==
  IF kind = "venc" /\ hevc THEN <<"pool", "close", "plugin", "session", "notify">>
                           ELSE <<"pool", "close", "session", "notify">>

VencDisposeOrder == <<"stopTask", "stopSync", "codec", "plugin", "session",
                      "allocator", "display", "pool">>

VdecDisposeOrder == <<"stopTask", "stopSync", "codec", "session", "fc", "pool",
                      "allocator", "display">>

VppDisposeOrder == <<"stopTask", "stopSync", "codec", "session", "pool",
                     "allocator", "display">>

BaseOrder == CASE kind = "venc" -> VencBaseOrder
               [] kind = "vdec" -> VdecBaseOrder
               [] kind = "vpp" -> VppBaseOrder
InitOrder == CASE kind = "venc" -> VencInitOrder
               [] kind = "vdec" -> VdecInitOrder
               [] kind = "vpp" -> VppInitOrder
DisposeOrder == CASE kind = "venc" -> VencDisposeOrder
                  [] kind = "vdec" -> VdecDisposeOrder
                  [] kind = "vpp" -> VppDisposeOrder

Resources == {"session", "display", "allocator", "codec", "plugin", "fc", "pool"}

-----------------------------------------------------------------------------
TypeOK ==
  /\ kind \in Kinds /\ hardware \in BOOLEAN /\ hevc \in BOOLEAN
  /\ state \in {"null", "ready", "paused"}
  /\ apc \in {"idle", "base", "undo", "flush", "dispose"} /\ astep \in 0 .. 9
  /\ held \subseteq Resources /\ inited \in BOOLEAN
  /\ task \in Threads /\ sync \in Threads
  /\ taskQ \in Seq({"buffer", "eos"}) /\ Len(taskQ) <= MaxTasks
  /\ tpc \in {"idle", "fill", "init", "using", "drain"}
  /\ syncQ \in Seq({"op", "eos"}) /\ ypc \in {"idle", "using"}
  /\ spc \in {"idle", "init", "start", "startSync", "outCaps"}
  /\ ipc \in [Callers -> {"no", "do", "undo"}] /\ istep \in [Callers -> 0 .. 6]
  /\ {begun, negotiated, eosSent, eosOut, refused} \subseteq BOOLEAN
  /\ lives \in 0 .. MaxLives /\ streams \in 0 .. MaxStreams /\ caps \in 0 .. MaxCaps
  /\ failures \subseteq Faults

Init ==
  /\ kind \in Kinds /\ hardware \in BOOLEAN
  /\ hevc \in IF kind = "venc" THEN BOOLEAN ELSE {FALSE}
  /\ state = "null" /\ apc = "idle" /\ astep = 0
  /\ held = {} /\ inited = FALSE
  /\ task = NewThread /\ sync = NewThread
  /\ taskQ = <<>> /\ tpc = "idle" /\ syncQ = <<>> /\ ypc = "idle"
  /\ spc = "idle" /\ ipc = [c \in Callers |-> "no"] /\ istep = [c \in Callers |-> 0]
  /\ begun = FALSE /\ negotiated = FALSE
  /\ eosSent = FALSE /\ eosOut = FALSE /\ refused = FALSE
  /\ lives = 0 /\ streams = 0 /\ caps = 0 /\ failures = {}

MayFail(what) == what \in Faults \ failures /\ Cardinality(failures) < MaxFailures
Failed(what) == MayFail(what) /\ failures' = failures \cup {what}

-----------------------------------------------------------------------------
(* The application thread, going up: InitBase().                           *)

NullToReady ==
  /\ state = "null" /\ apc = "idle" /\ lives < MaxLives
  /\ apc' = "base" /\ astep' = 1
  /\ lives' = lives + 1 /\ caps' = 0 /\ failures' = {}
  /\ streams' = IF streams <= 1 THEN 0 ELSE streams
  /\ UNCHANGED <<config, state, held, inited, threads, taskVars, syncVars, spc, initing,
                 events, signals>>

\* The next step of InitBase(); its end is the end of the change to READY.
BaseStep ==
  /\ apc = "base" /\ astep <= Len(BaseOrder)
  /\ held' = held \cup ({BaseOrder[astep]} \cap Resources)
  /\ IF astep = Len(BaseOrder)
       THEN apc' = "idle" /\ astep' = 0 /\ state' = "ready"
       ELSE astep' = astep + 1 /\ UNCHANGED <<apc, state>>
  /\ UNCHANGED <<config, inited, threads, taskVars, syncVars, spc, initing, events,
                 signals, history>>

\* A display that is not valid and an allocator that fails Init() exist all the same.
BaseFail ==
  /\ apc = "base"
  /\ Failed(BaseOrder[astep])
  /\ held' = held \cup ({BaseOrder[astep]} \cap {"display", "allocator"})
  /\ apc' = "undo" /\ astep' = 0
  /\ UNCHANGED <<config, state, inited, threads, taskVars, syncVars, spc, initing,
                 events, signals, lives, streams, caps>>

\* Mutant of BaseError: the display is not released.
BaseErrorKeepsDisplay ==
  /\ apc = "undo"
  /\ held' = held \ (BaseUndo \ {"display"})
  /\ apc' = "idle"
  /\ UNCHANGED <<config, state, astep, inited, threads, taskVars, syncVars, spc, initing,
                 events, signals, history>>

\* The _error label: the change of state fails and the element stays in NULL.
BaseError ==
  /\ apc = "undo"
  /\ held' = held \ BaseUndo
  /\ apc' = "idle"
  /\ UNCHANGED <<config, state, astep, inited, threads, taskVars, syncVars, spc, initing,
                 events, signals, history>>

ReadyToPaused ==
  /\ state = "ready" /\ apc = "idle" /\ streams < MaxStreams
  /\ state' = "paused"
  /\ streams' = streams + 1
  /\ begun' = FALSE /\ negotiated' = FALSE
  /\ eosSent' = FALSE /\ eosOut' = FALSE /\ refused' = FALSE
  /\ UNCHANGED <<config, apc, astep, held, inited, threads, taskVars, syncVars, spc,
                 initing, lives, caps, failures>>

-----------------------------------------------------------------------------
(* The two work threads' objects.                                          *)

Accepts(t) == t.started /\ ~t.stopping

\* start(): one more worker, unless gst_task_start() fails.
Started(t) == [t EXCEPT !.started = TRUE, !.workers = @ + 1]
NotStarted(t) == [t EXCEPT !.started = TRUE]

\* stop(): joins the worker started last, if there is one.
Stopped(t) ==
  [started |-> FALSE, stopping |-> t.stopping \/ t.started,
   workers |-> IF t.started /\ t.workers > 0 THEN t.workers - 1 ELSE t.workers]

\* The streaming thread may work: the pad is active, the event before is done.
Streaming == state = "paused" /\ apc = "idle" /\ spc = "idle"

\* STREAM_START of the decoder starts both threads, at every stream.
VdecStreamStart ==
  /\ kind = "vdec"
  /\ Streaming /\ ~begun /\ ~refused
  /\ \/ /\ task' = Started(task) /\ sync' = Started(sync)
        /\ begun' = TRUE
        /\ UNCHANGED <<refused, failures>>
     \/ /\ Failed("start")
        /\ refused' = TRUE /\ UNCHANGED begun
        /\ \/ task' = NotStarted(task) /\ UNCHANGED sync
           \/ task' = Started(task) /\ sync' = NotStarted(sync)
  /\ UNCHANGED <<config, app, held, inited, taskVars, syncVars, spc, initing, negotiated,
                 eosSent, eosOut, lives, streams, caps>>

-----------------------------------------------------------------------------
(* The CAPS event.                                                         *)

CapsComes ==
  /\ Streaming /\ ~eosSent /\ caps < MaxCaps
  /\ caps' = caps + 1

Refuse ==
  /\ CapsComes
  /\ Failed("caps")
  /\ refused' = TRUE /\ negotiated' = FALSE
  /\ UNCHANGED <<config, app, held, inited, threads, taskVars, syncVars, spc, initing,
                 begun, eosSent, eosOut, lives, streams>>

\* The caps are not fixed or lack a field, or CheckAndSetCaps() does not know the
\* codec, the format or the memory; CreateOutCaps() comes first in the VPP.
VencCapsRefused == kind = "venc" /\ Refuse
VppCapsRefused == kind = "vpp" /\ Refuse
VdecCapsRefused == kind = "vdec" /\ begun /\ Refuse

Enter(c) == ipc' = [ipc EXCEPT ![c] = "do"] /\ istep' = [istep EXCEPT ![c] = 1]

VencCaps ==
  /\ kind = "venc" /\ CapsComes
  /\ spc' = "init" /\ Enter("stream")
  /\ UNCHANGED <<config, app, held, inited, threads, taskVars, syncVars, events, signals,
                 lives, streams, failures>>

VppCaps ==
  /\ kind = "vpp" /\ CapsComes
  /\ spc' = "init" /\ Enter("stream")
  /\ UNCHANGED <<config, app, held, inited, threads, taskVars, syncVars, events, signals,
                 lives, streams, failures>>

\* The first one makes fc_; codec_data, if there is any, initialises the decoder.
VdecCaps ==
  /\ kind = "vdec" /\ begun /\ CapsComes
  /\ held' = held \cup {"fc"}
  /\ \/ spc' = "outCaps" /\ UNCHANGED <<initing, refused, negotiated, failures>>
     \/ spc' = "init" /\ Enter("stream") /\ UNCHANGED <<refused, negotiated, failures>>
     \/ /\ Failed("header")
        /\ refused' = TRUE /\ negotiated' = FALSE
        /\ UNCHANGED <<spc, initing>>
  /\ UNCHANGED <<config, app, inited, threads, taskVars, syncVars, begun, eosSent, eosOut,
                 lives, streams>>

\* After Init(): the encoder and the VPP start their threads, one after the other.
StartTaskThread ==
  /\ spc = "start"
  /\ \/ task' = Started(task) /\ spc' = "startSync" /\ UNCHANGED <<refused, failures>>
     \/ task' = NotStarted(task) /\ Failed("start") /\ spc' = "idle" /\ refused' = TRUE
  /\ UNCHANGED <<config, app, held, inited, sync, taskVars, syncVars, initing, events,
                 eosSent, eosOut, lives, streams, caps>>

StartSyncThread ==
  /\ spc = "startSync"
  /\ \/ sync' = Started(sync) /\ spc' = "outCaps" /\ UNCHANGED <<refused, failures>>
     \/ sync' = NotStarted(sync) /\ Failed("start") /\ spc' = "idle" /\ refused' = TRUE
  /\ UNCHANGED <<config, app, held, inited, task, taskVars, syncVars, initing, events,
                 eosSent, eosOut, lives, streams, caps>>

\* There is no name for the format of the frames, or the pad refuses the caps.
NoOutCaps == Failed("outCaps") /\ refused' = TRUE /\ negotiated' = FALSE

\* GetOutCaps() or CreateOutCaps(), and gst_pad_set_caps().
OutCaps ==
  /\ spc = "outCaps"
  /\ spc' = "idle"
  /\ \/ negotiated' = TRUE /\ UNCHANGED <<refused, failures>>
     \/ NoOutCaps
  /\ UNCHANGED <<config, app, held, inited, threads, taskVars, syncVars, initing, begun,
                 eosSent, eosOut, lives, streams, caps>>

-----------------------------------------------------------------------------
(* Init(), on the streaming thread or, in the decoder, on the task thread. *)

\* What a step needs: a session, a codec not yet initialised, no pool yet.
Possible(step) ==
  /\ step \in {"plugin", "query", "init", "params"} => "session" \in held
  /\ step = "init" => ~inited
  /\ step = "pool" => "pool" \notin held

InitStep(c) ==
  LET step == InitOrder[istep[c]]
      last == istep[c] = Len(InitOrder)
  IN  /\ ipc[c] = "do"
      /\ Possible(step)
      /\ held' = held \cup ({step} \cap Resources)
      /\ inited' = (inited \/ step = "init")
      /\ ipc' = [ipc EXCEPT ![c] = IF last THEN "no" ELSE "do"]
      /\ istep' = [istep EXCEPT ![c] = IF last THEN 0 ELSE @ + 1]
      /\ spc' = IF last /\ c = "stream"
                  THEN IF kind = "vdec" THEN "outCaps" ELSE "start"
                  ELSE spc
      /\ tpc' = IF last /\ c = "task" THEN "using" ELSE tpc
      /\ UNCHANGED <<config, app, threads, taskQ, syncVars, events, signals, history>>

InitFail(c) ==
  LET step == InitOrder[istep[c]]
  IN  /\ ipc[c] = "do"
      /\ Failed(step) \/ (~Possible(step) /\ UNCHANGED failures)
      /\ ipc' = [ipc EXCEPT ![c] = "undo"]
      /\ istep' = [istep EXCEPT ![c] = 1]
      /\ UNCHANGED <<config, app, held, inited, threads, taskVars, syncVars, spc, events,
                     signals, lives, streams, caps>>

\* The _error label, step by step; at its end the event, or the task, has failed.
InitUndo(c) ==
  LET step == InitUndoOrder[istep[c]]
      last == istep[c] = Len(InitUndoOrder)
  IN  /\ ipc[c] = "undo"
      /\ held' = held \ {step}
      /\ inited' = (inited /\ step # "close")
      /\ refused' = (refused \/ step = "notify")
      /\ ipc' = [ipc EXCEPT ![c] = IF last THEN "no" ELSE "undo"]
      /\ istep' = [istep EXCEPT ![c] = IF last THEN 0 ELSE @ + 1]
      /\ spc' = IF last /\ c = "stream" THEN "idle" ELSE spc
      /\ negotiated' = (negotiated /\ ~(last /\ c = "stream"))
      /\ tpc' = IF last /\ c = "task" THEN "idle" ELSE tpc
      /\ UNCHANGED <<config, app, threads, taskQ, syncVars, begun, eosSent, eosOut,
                     history>>

-----------------------------------------------------------------------------
(* Buffers and EOS.                                                        *)

\* The chain function: a refused buffer is an error of the flow.
Chain ==
  /\ Streaming /\ negotiated /\ ~eosSent /\ Len(taskQ) < MaxTasks
  /\ IF Accepts(task)
       THEN taskQ' = Append(taskQ, "buffer") /\ UNCHANGED refused
       ELSE refused' = TRUE /\ UNCHANGED taskQ
  /\ UNCHANGED <<config, app, held, inited, threads, tpc, syncVars, spc, initing, events,
                 eosSent, eosOut, history>>

\* Mutant of Eos: it is not forwarded if it cannot be posted.
EosKept ==
  /\ Streaming /\ ~eosSent /\ Len(taskQ) < MaxTasks
  /\ kind = "vdec" => begun /\ ("fc" \in held \/ EosBeforeCaps)
  /\ eosSent' = TRUE
  /\ taskQ' = IF Accepts(task) THEN Append(taskQ, "eos") ELSE taskQ
  /\ UNCHANGED <<config, app, held, inited, threads, tpc, syncVars, spc, initing, events,
                 eosOut, refused, history>>

\* The EOS event: posted, or forwarded right away if the task is refused.
Eos ==
  /\ Streaming /\ ~eosSent /\ Len(taskQ) < MaxTasks
  /\ kind = "vdec" => begun /\ ("fc" \in held \/ EosBeforeCaps)
  /\ eosSent' = TRUE
  /\ IF Accepts(task)
       THEN taskQ' = Append(taskQ, "eos") /\ UNCHANGED eosOut
       ELSE eosOut' = TRUE /\ UNCHANGED taskQ
  /\ UNCHANGED <<config, app, held, inited, threads, tpc, syncVars, spc, initing, events,
                 refused, history>>

StreamStep ==
  StartTaskThread \/ StartSyncThread \/ OutCaps \/ InitStep("stream") \/ InitUndo("stream")

-----------------------------------------------------------------------------
(* The task thread.                                                        *)

\* Mutant of TakeTask: the decoder does not test is_dec_initialized_.
TakeTaskUntested ==
  /\ task.workers > 0 /\ tpc = "idle" /\ taskQ # <<>>
  /\ taskQ' = Tail(taskQ)
  /\ tpc' = IF Head(taskQ) = "eos" THEN "drain" ELSE "using"
  /\ UNCHANGED <<config, app, held, inited, threads, syncVars, spc, initing, events,
                 signals, history>>

\* A buffer is for the codec, except the ones the decoder needs to initialise it.
TakeTask ==
  /\ task.workers > 0 /\ tpc = "idle" /\ taskQ # <<>>
  /\ taskQ' = Tail(taskQ)
  /\ tpc' = IF Head(taskQ) = "eos" THEN "drain"
            ELSE IF kind = "vdec" /\ ~inited THEN "fill" ELSE "using"
  /\ UNCHANGED <<config, app, held, inited, threads, syncVars, spc, initing, events,
                 signals, history>>

\* FillVideoParams(): DecodeHeader() needs the session, and Query() may fail.
FillVideoParams ==
  /\ tpc = "fill" /\ "session" \in held
  /\ \/ tpc' = "init" /\ Enter("task") /\ UNCHANGED failures
     \/ tpc' = "idle" /\ Failed("header") /\ UNCHANGED initing
  /\ UNCHANGED <<config, app, held, inited, threads, taskQ, syncVars, spc, events, signals,
                 lives, streams, caps>>

PostSync(t) == IF Accepts(sync) THEN Append(syncQ, t) ELSE syncQ

\* The codec took the buffer; a sync operation follows, or the codec wants more.
Processed ==
  /\ tpc = "using" /\ Len(syncQ) < MaxTasks
  /\ tpc' = "idle"
  /\ syncQ' \in {syncQ, PostSync("op")}
  /\ UNCHANGED <<config, app, held, inited, threads, taskQ, ypc, spc, initing, events,
                 signals, history>>

\* The end of the stream: a decoder that has no pool reports an error instead.
Drained ==
  /\ tpc = "drain" /\ Len(syncQ) < MaxTasks
  /\ tpc' = "idle"
  /\ IF kind = "vdec" /\ "pool" \notin held
       THEN refused' = TRUE /\ UNCHANGED syncQ
       ELSE syncQ' = PostSync("eos") /\ UNCHANGED refused
  /\ UNCHANGED <<config, app, held, inited, threads, taskQ, ypc, spc, initing, events,
                 eosSent, eosOut, history>>

TaskStep ==
  \/ TakeTask \/ FillVideoParams \/ Processed \/ Drained
  \/ InitStep("task") \/ InitUndo("task")

-----------------------------------------------------------------------------
(* The sync thread.                                                        *)

TakeSync ==
  /\ sync.workers > 0 /\ ypc = "idle" /\ syncQ # <<>>
  /\ syncQ' = Tail(syncQ)
  /\ ypc' = IF Head(syncQ) = "op" THEN "using" ELSE "idle"
  /\ eosOut' = (eosOut \/ Head(syncQ) = "eos")
  /\ UNCHANGED <<config, app, held, inited, threads, taskVars, spc, initing, events,
                 eosSent, refused, history>>

Synced ==
  /\ ypc = "using"
  /\ ypc' = "idle"
  /\ UNCHANGED <<config, app, held, inited, threads, taskVars, syncQ, spc, initing, events,
                 signals, history>>

SyncStep == TakeSync \/ Synced

-----------------------------------------------------------------------------
(* The application thread, going down.                                     *)

\* The pads are deactivated; that waits for the streaming thread, not for the tasks.
PausedToReady ==
  /\ state = "paused" /\ apc = "idle"
  /\ apc' = "flush"
  /\ UNCHANGED <<config, state, astep, held, inited, threads, taskVars, syncVars, spc,
                 initing, events, signals, history>>

Flushed ==
  /\ apc = "flush" /\ spc = "idle"
  /\ apc' = "idle" /\ state' = "ready"
  /\ UNCHANGED <<config, astep, held, inited, threads, taskVars, syncVars, spc, initing,
                 events, signals, history>>

\* READY to NULL: the parent class first, then Dispose().
ReadyToNull ==
  /\ state = "ready" /\ apc = "idle"
  /\ apc' = "dispose" /\ astep' = 1
  /\ UNCHANGED <<config, state, held, inited, threads, taskVars, syncVars, spc, initing,
                 events, signals, history>>

\* The next step of Dispose(); stop() waits for the task that runs and drops the rest.
DisposeStep ==
  LET step == DisposeOrder[astep]
      last == astep = Len(DisposeOrder)
  IN  /\ apc = "dispose"
      /\ step = "stopTask" /\ task.workers = 1 => tpc = "idle"
      /\ step = "stopSync" /\ sync.workers = 1 => ypc = "idle"
      /\ held' = held \ {step}
      /\ inited' = (inited /\ step # "codec")
      /\ task' = IF step = "stopTask" THEN Stopped(task) ELSE task
      /\ sync' = IF step = "stopSync" THEN Stopped(sync) ELSE sync
      /\ taskQ' = IF step = "stopTask" THEN <<>> ELSE taskQ
      /\ syncQ' = IF step = "stopSync" THEN <<>> ELSE syncQ
      /\ apc' = IF last THEN "idle" ELSE "dispose"
      /\ astep' = IF last THEN 0 ELSE astep + 1
      /\ state' = IF last THEN "null" ELSE state
      /\ UNCHANGED <<config, tpc, ypc, spc, initing, events, signals, history>>

Next ==
  \/ NullToReady \/ BaseStep \/ BaseFail \/ BaseError \/ ReadyToPaused
  \/ VdecStreamStart
  \/ VencCapsRefused \/ VppCapsRefused \/ VdecCapsRefused \/ VencCaps \/ VppCaps \/ VdecCaps
  \/ StreamStep \/ InitFail("stream") \/ Chain \/ Eos
  \/ TaskStep \/ InitFail("task")
  \/ SyncStep
  \/ PausedToReady \/ Flushed \/ ReadyToNull \/ DisposeStep

Spec == Init /\ [][Next]_vars

(***************************************************************************)
(* Fairness: the three threads of the element go on, and so does a change  *)
(* of state once begun; upstream need not send, nor the application act.   *)
(***************************************************************************)
Fairness ==
  /\ WF_vars(StreamStep \/ InitFail("stream"))
  /\ WF_vars(TaskStep \/ InitFail("task"))
  /\ WF_vars(SyncStep)
  /\ WF_vars(BaseStep \/ BaseError \/ Flushed \/ DisposeStep)

FairSpec == Spec /\ Fairness

-----------------------------------------------------------------------------
(* Properties.                                                             *)

\* One CAPS event and one stream since the element left NULL.
FirstStream == caps <= 1 /\ streams <= 1

(***************************************************************************)
(* Types, and: an element in NULL holds nothing, however it came there,    *)
(* after a failed InitBase(), or by Dispose() after any failure of what    *)
(* came in between ("Releases all resources, closes mediasdk session..."). *)
(* It takes that the decoder had one stream: a second STREAM_START orphans *)
(* a worker, which stop() does not join.                                   *)
(***************************************************************************)
Orphans == kind = "vdec" /\ streams > 1

NullHoldsNothing ==
  /\ TypeOK
  /\ state = "null" /\ apc = "idle" /\ ~Orphans =>
       /\ held = {} /\ ~inited
       /\ taskQ = <<>> /\ syncQ = <<>>
       /\ task.workers = 0 /\ sync.workers = 0

(***************************************************************************)
(* The task and sync threads use the codec only while it is initialised in *)
(* an open session, and the task thread has a pool to take buffers from:   *)
(* neither is taken from them by Dispose(), nor by the _error label of an  *)
(* Init() that the other thread runs.  It takes that there was one CAPS    *)
(* event: with a second one Init() fails, the codec being initialised      *)
(* already, and closes the pool and the session the task thread works      *)
(* with.  The EOS task of the decoder finds fc_, which the CAPS event      *)
(* makes and Dispose() deletes.  It does not if EOS may come without CAPS, *)
(* as for a stream that is empty: the threads run since STREAM_START, so   *)
(* the event is posted and not forwarded.  Last, the codec object, which   *)
(* keeps the session it was made in, is deleted (and so closed) before the *)
(* session is, unless an Init() failed: its _error label closes the        *)
(* session and keeps the object.                                           *)
(***************************************************************************)
CodecInUse ==
  \/ tpc = "using" \/ ypc = "using"
  \/ tpc = "drain" /\ (kind # "vdec" \/ inited)

CodecBeforeSession ==
  "codec" \in held /\ caps <= 1 /\ ~Orphans
    /\ failures \cap {"plugin", "query", "init", "params", "pool"} = {}
    => "session" \in held

UseIsSafe ==
  /\ CodecInUse /\ FirstStream => {"session", "codec"} \subseteq held /\ inited
  /\ tpc = "using" /\ FirstStream => "pool" \in held
  /\ tpc = "drain" /\ kind = "vdec" /\ streams <= 1 => "fc" \in held
  /\ CodecBeforeSession

(***************************************************************************)
(* An EOS event comes out of the element, or upstream or the application   *)
(* saw an error, whatever step of the set-up failed before it.  (In a      *)
(* second stream the error may have been one of the first.)                *)
(***************************************************************************)
EosOrError ==
  eosSent ~> eosOut \/ refused \/ state # "paused" \/ apc # "idle" \/ streams > 1
=============================================================================
