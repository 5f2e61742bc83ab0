-------------------------- MODULE VppExecutorProofs --------------------------
(***************************************************************************)
(* Proofs about the post-processing executor for every number of frames,   *)
(* surfaces and mode changes, every frame rate and every set of failures:  *)
(* Consistent, LockedIsHeld and OutputInOrder.                             *)
(***************************************************************************)
EXTENDS VppExecutor, QueueCounts

Pending == {"wait", "test", "post"}        \* spc: a frame is counted, not yet posted
Running == {"run", "busyTest", "busy"}     \* tpc: at RunFrameVPPAsync()
Processing == {"loop", "get", "input", "release", "submit"} \cup Running
PassHeld == {"passGet", "passPush"}        \* tpc: a frame is being passed through
Syncing == ypc \in {"sync", "push"}        \* a task was taken and not pushed
IsSync == {t \in SyncTasks : t.kind = "sync"}

\* The frame numbered "made" is with the task thread.
Fresh == tpc = "submit" \/ (tpc = "release" /\ sts = "none") \/ tpc \in PassHeld

(***************************************************************************)
(* The surface of every operation is one of the pool's.                    *)
(***************************************************************************)
Tasks == [kind : {"release", "eos"}, arg : Nat, num : Nat]
           \cup [kind : {"sync"}, arg : Surfaces \cup {None}, num : Nat]

TypeInv == TypeOK /\ syncQ \in Seq(Tasks) /\ syncing.arg \in Surfaces \cup {None}

(***************************************************************************)
(* The phases of Dispose(), and where the task thread has an input frame.  *)
(***************************************************************************)
PhaseInv ==
  /\ taskOpen <=> elem \in {"playing", "flushing", "ready"}
  /\ syncOpen <=> elem \notin {"joinSync", "free", "null"}
  /\ elem \in {"stopSync", "joinSync", "free", "null"} => tpc = "idle" /\ taskQ = <<>>
  /\ elem \in {"free", "null"} => ypc = "idle" /\ syncQ = <<>>
  /\ elem = "null" => locked = {}
  /\ elem \notin {"playing", "flushing"} => spc = "idle"
  /\ tpc \in {"idle", "pass"} => in_frame = None
  /\ taken => in_frame # None
  /\ tpc = "release" => ~taken
  /\ tpc \in {"loop", "get", "input", "submit"} => (in_frame # None => taken)

(***************************************************************************)
(* Frames go through the queues in the order they came, and the VPP has    *)
(* those before them; a frame that is passed through it never had.         *)
(***************************************************************************)
Last == IF spc \in Pending THEN sent - 1 ELSE sent
Known == locked \cup {in_frame}

FramesInOrder ==
  /\ spc \in Pending => sent > 0
  /\ \A f \in Known : f <= Last
  /\ tpc \in PassHeld => in_frame \notin locked
  /\ \A i \in DOMAIN input_queue_ :
       /\ input_queue_[i] <= Last
       /\ \A f \in Known : f < input_queue_[i]
       /\ \A j \in DOMAIN input_queue_ : i < j => input_queue_[i] < input_queue_[j]
  /\ \A i \in DOMAIN taskQ :
       /\ taskQ[i] <= Last
       /\ taskQ[i] # EosTask =>
            /\ \A f \in Known : f < taskQ[i]
            /\ \A j \in DOMAIN input_queue_ : input_queue_[j] < taskQ[i]
            /\ \A j \in DOMAIN taskQ : i < j /\ taskQ[j] # EosTask => taskQ[i] < taskQ[j]

\* The counter of operations, in the terms of QueueCounts.
Counted == syncOpen => syncop_tasks_num_ = Num(syncQ, Len(syncQ), IsSync) + One(ypc # "idle")

(***************************************************************************)
(* While the mode is left alone one thread pushes, in the order of the     *)
(* numbers.                                                                *)
(***************************************************************************)
OneMode ==
  /\ is_passthrough_ =>
       /\ tpc \notin Processing /\ ypc = "idle"
       /\ \A i \in DOMAIN syncQ : syncQ[i] \notin IsSync
  /\ ~is_passthrough_ => tpc \notin {"pass", "passGet", "passPush"}

OpsInOrder ==
  /\ Syncing => syncing.num <= made /\ (Fresh => syncing.num < made)
  /\ \A i \in DOMAIN syncQ : syncQ[i] \in IsSync =>
       /\ syncQ[i].num <= made
       /\ Fresh => syncQ[i].num < made
       /\ Syncing => syncing.num < syncQ[i].num
       /\ \A j \in DOMAIN syncQ : i < j /\ syncQ[j] \in IsSync => syncQ[i].num < syncQ[j].num
  /\ \A i \in DOMAIN pushed :
       /\ pushed[i] <= made
       /\ Fresh => pushed[i] < made
       /\ Syncing => pushed[i] < syncing.num
       /\ \A j \in DOMAIN syncQ : syncQ[j] \in IsSync => pushed[i] < syncQ[j].num
       /\ \A j \in DOMAIN pushed : i < j => pushed[i] < pushed[j]

(***************************************************************************)
(* While nothing fails every frame made is somewhere, and every frame      *)
(* received.  Given is the number of those the VPP has been given.         *)
(***************************************************************************)
OpsCounted ==
  made = Len(pushed) + One(Syncing) + Num(syncQ, Len(syncQ), IsSync) + One(Fresh)

Queued == Len(input_queue_) + Num(taskQ, Len(taskQ), Frames) + One(spc \in Pending)
Inside == tpc \in Running /\ in_frame # None /\ ~taken   \* the VPP has not seen in_frame
Given == sent - Queued - One(Inside)

FramesCounted ==
  /\ is_passthrough_ => sent = made + Queued
  /\ ~is_passthrough_ => Rate * Given = made + owed

(***************************************************************************)
(* Whatever fails, the end of the stream is known to whoever forwards it.  *)
(***************************************************************************)
EosKnown ==
  /\ eosSent => spc \notin Pending
  /\ (\/ is_eos_
      \/ eosOut
      \/ \E i \in DOMAIN taskQ : taskQ[i] = EosTask
      \/ \E i \in DOMAIN syncQ : syncQ[i].kind = "eos") => eosSent
  /\ tpc \in {"get", "input"} \cup Running /\ in_frame = None /\ input_queue_ = <<>> => is_eos_
  /\ tpc \in Running /\ in_frame = None => input_queue_ = <<>>

\* Unless something fails it is the last task of each thread.
Drained ==
  eosSent /\ taskQ = <<>> /\ input_queue_ = <<>> /\ tpc = "idle" /\ (~is_passthrough_ => owed = 0)

EosLast ==
  /\ \A i \in DOMAIN taskQ : taskQ[i] = EosTask => i = Len(taskQ)
  /\ is_eos_ => taskQ = <<>>
  /\ tpc \in {"idle", "passGet", "passPush"} => input_queue_ = <<>>
  /\ tpc = "pass" => Len(input_queue_) <= 1 /\ (is_eos_ => input_queue_ = <<>>)
  /\ \A i \in DOMAIN syncQ : syncQ[i].kind = "eos" => i = Len(syncQ) /\ Drained
  /\ eosOut => Drained /\ syncQ = <<>> /\ ypc = "idle"

Undisturbed == switches = 0 /\ elem = "playing" /\ failures = {}

OrderInv ==
  /\ EosKnown
  /\ switches = 0 => OneMode /\ OpsInOrder
  /\ Undisturbed => OpsCounted /\ FramesCounted /\ EosLast
  /\ OutputInOrder

IInv == TypeInv /\ PhaseInv /\ FramesInOrder /\ Counted /\ LockedIsHeld /\ OrderInv
-----------------------------------------------------------------------------
(* Types.                                                                  *)

\* The tasks of the sync thread have their type.
LEMMA TaskTypes ==
  /\ Tasks \subseteq SyncTasks /\ IsSync \subseteq SyncTasks
  /\ \A t \in Tasks : /\ t.arg \in Nat /\ t.num \in Nat
                      /\ t.kind = "sync" => t.arg \in Surfaces \cup {None}
  /\ \A f \in Frames : Release(f) \in Tasks /\ Release(f) \notin IsSync
  /\ \A s \in Surfaces \cup {None}, n \in Nat :
       SyncOp(s, n) \in Tasks /\ SyncOp(s, n) \in IsSync /\ SyncOp(s, n).num = n
  /\ NotifyEos \in Tasks /\ NotifyEos \notin IsSync
  /\ None \notin Surfaces /\ None \notin Frames /\ Surfaces \subseteq Nat
<1>1. None \notin Surfaces /\ None \notin Frames /\ Surfaces \subseteq Nat /\ Frames \subseteq Nat
      /\ None \in Nat
  BY PoolAssumption, FramesAssumption DEF None, Surfaces, Frames
<1>2. Tasks \subseteq SyncTasks
  BY <1>1 DEF Tasks, SyncTasks
<1> QED
  BY <1>1, <1>2 DEF Tasks, SyncTasks, IsSync, Release, SyncOp, NotifyEos

\* The first values of the variables whose types are not obvious.
LEMMA FirstValues ==
  /\ 0 \in 0 .. MaxFrames /\ 0 \in 0 .. MaxSwitches
  /\ \A S : <<>> \in Seq(S)
  BY FramesAssumption, EmptySeq

\* The variables have their types after the CAPS event.
LEMMA InitType == Init => TypeInv
<1> SUFFICES ASSUME Init PROVE TypeInv
  OBVIOUS
<1>1. /\ spc \in {"idle", "wait", "test", "post"}
      /\ tpc \in {"idle", "loop", "get", "input", "run", "busyTest", "busy", "release",
                  "submit", "pass", "passGet", "passPush"}
      /\ sts \in {"none", "more_data", "more_surface"}
      /\ ypc \in {"idle", "sync", "push", "clean"}
      /\ elem \in {"playing", "flushing", "ready", "joinTask", "stopSync", "joinSync",
                   "free", "null"}
  BY DEF Init
<1>2. /\ eosSent \in BOOLEAN /\ taskOpen \in BOOLEAN /\ is_eos_ \in BOOLEAN
      /\ is_passthrough_ \in BOOLEAN /\ taken \in BOOLEAN /\ syncOpen \in BOOLEAN
      /\ eosOut \in BOOLEAN
  BY DEF Init
<1>3. /\ sent \in 0 .. MaxFrames /\ switches \in 0 .. MaxSwitches
      /\ pending_tasks_num_ \in Int /\ syncop_tasks_num_ \in Int
      /\ owed \in Nat /\ made \in Nat
      /\ taskQ \in Seq(Frames \cup {EosTask}) /\ input_queue_ \in Seq(Frames)
      /\ syncQ \in Seq(SyncTasks) /\ syncQ \in Seq(Tasks) /\ pushed \in Seq(Nat)
      /\ sink \in Seq(Surfaces \cup {None})
  BY FirstValues DEF Init
<1>4. /\ in_frame \in Frames \cup {None} /\ out_frame \in Surfaces \cup {None}
      /\ locked \in SUBSET Frames /\ input_locked_frames_ \in SUBSET Frames
      /\ failures \subseteq Faults \cup {"flow"}
  BY DEF Init
<1>5. syncing \in SyncTasks /\ syncing.arg \in Surfaces \cup {None}
  BY TaskTypes DEF Init, NoTask, NotifyEos
<1> QED BY <1>1, <1>2, <1>3, <1>4, <1>5 DEF TypeOK, TypeInv

\* BufferReady() keeps the types of what is downstream.
LEMMA BufferReadyType ==
  ASSUME TypeOK, NEW srf \in Surfaces \cup {None}, NEW num \in Nat, BufferReady(srf, num)
  PROVE  /\ sink' \in Seq(Surfaces \cup {None}) /\ pushed' \in Seq(Nat)
         /\ failures' \subseteq Faults \cup {"flow"}
<1>1. Append(pushed, num) \in Seq(Nat) /\ Append(sink, srf) \in Seq(Surfaces \cup {None})
  BY DEF TypeOK
<1>2. Append(sink, srf) # <<>>
  BY Appended, EmptySeq DEF TypeOK
<1>3. Tail(Append(sink, srf)) \in Seq(Surfaces \cup {None})
  BY <1>1, <1>2, Taken
<1> QED BY <1>1, <1>3 DEF BufferReady, TypeOK

\* Every step keeps the types.
LEMMA TypeStep == TypeInv /\ [Next]_vars => TypeInv'
<1> SUFFICES ASSUME TypeInv, [Next]_vars PROVE TypeInv'
  OBVIOUS
<1> USE DEF TypeInv, TypeOK, stream, tasks, locals, mode, vpp, syncs, syncer, downstream
<1>n. NoTask \in SyncTasks /\ NoTask.arg \in Surfaces \cup {None}
  BY TaskTypes DEF NoTask, NotifyEos
<1>p. ASSUME NEW t \in Tasks, NEW q, q = PostSync(t) PROVE q \in Seq(SyncTasks) /\ q \in Seq(Tasks)
  <2>1. Append(syncQ, t) \in Seq(Tasks) /\ Append(syncQ, t) \in Seq(SyncTasks)
    BY TaskTypes
  <2> QED BY <1>p, <2>1 DEF PostSync
<1>1. CASE Chain
  BY <1>1, FramesAssumption DEF Chain
<1>2. CASE ChainTest
  BY <1>2 DEF ChainTest
<1>3. CASE ChainPost
  <2>1. Append(taskQ, sent) \in Seq(Frames \cup {EosTask})
    BY FramesAssumption DEF Frames, EosTask
  <2> QED BY <1>3, <2>1 DEF ChainPost
<1>4. CASE SendEos
  <2>1. Append(taskQ, EosTask) \in Seq(Frames \cup {EosTask})
    BY FramesAssumption DEF Frames, EosTask
  <2> QED BY <1>4, <2>1 DEF SendEos
<1>5. CASE TakeFrame
  <2>1. taskQ # <<>> /\ Head(taskQ) # EosTask
    BY <1>5 DEF TakeFrame
  <2>2. Head(taskQ) \in Frames /\ Tail(taskQ) \in Seq(Frames \cup {EosTask})
    BY <2>1, Taken
  <2> QED BY <1>5, <2>2 DEF TakeFrame, Process
<1>6. CASE TakeEos
  BY <1>6, Taken DEF TakeEos, Process
<1>7. CASE LoopEnd
  <2>1. taken' \in BOOLEAN
    BY <1>7 DEF LoopEnd, Return
  <2> QED BY <1>7, <2>1 DEF LoopEnd, Return
<1>8. CASE LoopNext
  BY <1>8 DEF LoopNext
<1>9. CASE GetSurface
  BY <1>9 DEF GetSurface, Free
<1>10. CASE NoSurface \/ RunError
  <2>1. taken' \in BOOLEAN
    BY <1>10 DEF NoSurface, RunError, Fail, Return
  <2>2. failures' \subseteq Faults \cup {"flow"}
    BY <1>10 DEF NoSurface, RunError, MayFail, Fail
  <2> QED BY <1>10, <2>1, <2>2 DEF NoSurface, RunError, Fail, Return
<1>11. CASE TakeInput
  <2>1. in_frame' \in Frames \cup {None} /\ input_queue_' \in Seq(Frames)
    <3>1. CASE input_queue_ # <<>>
      <4>1. Head(input_queue_) \in Frames /\ Tail(input_queue_) \in Seq(Frames)
        BY <3>1, Taken
      <4> QED BY <1>11, <4>1 DEF TakeInput
    <3>2. CASE input_queue_ = <<>>
      BY <1>11, <3>2 DEF TakeInput
    <3> QED BY <3>1, <3>2
  <2> QED BY <1>11, <2>1 DEF TakeInput
<1>12. CASE RunBusy
  BY <1>12 DEF RunBusy
<1>13. CASE BusyTest
  BY <1>13 DEF BusyTest
<1>14. CASE RunFrame
  <2>1. Available \in Nat
    BY VppAssumption DEF Available
  <2>2. owed' \in Nat /\ made' \in Nat /\ locked' \in SUBSET Frames
    BY <1>14, <2>1 DEF RunFrame, LockInput
  <2>3. taken' \in BOOLEAN /\ tpc' \in {"release", "submit"} /\ sts' \in {"none", "more_surface"}
    BY <1>14 DEF RunFrame
  <2> QED BY <1>14, <2>2, <2>3 DEF RunFrame
<1>15. CASE RunMoreData
  <2>1. owed' \in Nat /\ locked' \in SUBSET Frames
    BY <1>15, VppAssumption DEF RunMoreData, LockInput, Available
  <2>2. taken' \in BOOLEAN
    BY <1>15 DEF RunMoreData
  <2> QED BY <1>15, <2>1, <2>2 DEF RunMoreData
<1>16. CASE RunDrained
  <2>1. syncQ' \in Seq(SyncTasks) /\ syncQ' \in Seq(Tasks)
    BY <1>16, <1>p, TaskTypes DEF RunDrained
  <2>2. is_eos_' \in BOOLEAN /\ taken' \in BOOLEAN
    BY <1>16 DEF RunDrained, Return
  <2> QED BY <1>16, <2>1, <2>2 DEF RunDrained, Return
<1>17. CASE ReleaseInputSurface
  <2>1. syncQ' \in Seq(SyncTasks) /\ syncQ' \in Seq(Tasks)
    <3>1. in_frame \in locked => Release(in_frame) \in Tasks
      BY TaskTypes
    <3> QED BY <1>17, <1>p, <3>1 DEF ReleaseInputSurface
  <2> QED BY <1>17, <2>1 DEF ReleaseInputSurface
<1>18. CASE Submit
  <2>1. syncQ' \in Seq(SyncTasks) /\ syncQ' \in Seq(Tasks)
    <3>1. SyncOp(out_frame, made) \in Tasks
      BY TaskTypes
    <3> QED BY <1>18, <1>p, <3>1 DEF Submit
  <2> QED BY <1>18, <2>1 DEF Submit
<1>19. CASE PassTake
  <2>1. Head(input_queue_) \in Frames /\ Tail(input_queue_) \in Seq(Frames)
    BY <1>19, Taken DEF PassTake
  <2> QED BY <1>19, <2>1 DEF PassTake
<1>20. CASE PassEos
  <2>1. syncQ' \in Seq(SyncTasks) /\ syncQ' \in Seq(Tasks)
    BY <1>20, <1>p, TaskTypes DEF PassEos
  <2>2. taken' \in BOOLEAN
    BY <1>20 DEF PassEos, Return
  <2> QED BY <1>20, <2>1, <2>2 DEF PassEos, Return
<1>21. CASE PassSurface
  BY <1>21 DEF PassSurface, Free
<1>22. CASE PassError
  <2>1. taken' \in BOOLEAN
    BY <1>22 DEF PassError, Fail, Return
  <2>2. failures' \subseteq Faults \cup {"flow"}
    BY <1>22 DEF PassError, MayFail, Fail
  <2> QED BY <1>22, <2>1, <2>2 DEF PassError, Fail, Return
<1>23. CASE PassPush
  <2>1. /\ sink' \in Seq(Surfaces \cup {None}) /\ pushed' \in Seq(Nat)
        /\ failures' \subseteq Faults \cup {"flow"}
    BY <1>23, BufferReadyType DEF PassPush
  <2>2. taken' \in BOOLEAN
    BY <1>23 DEF PassPush, Return
  <2> QED BY <1>23, <2>1, <2>2 DEF PassPush, Return
<1>24. CASE TakeRelease \/ TakeNotifyEos \/ TakeSync
  <2>1. syncQ # <<>>
    BY <1>24 DEF TakeRelease, TakeNotifyEos, TakeSync
  <2>2. Head(syncQ) \in Tasks /\ Tail(syncQ) \in Seq(Tasks) /\ Tail(syncQ) \in Seq(SyncTasks)
    BY <2>1, Taken
  <2>3. CASE TakeRelease
    BY <2>2, <2>3 DEF TakeRelease
  <2>4. CASE TakeNotifyEos
    BY <2>2, <2>4 DEF TakeNotifyEos
  <2>5. CASE TakeSync
    <3>1. Head(syncQ) \in SyncTasks /\ Head(syncQ).arg \in Surfaces \cup {None}
      BY <2>2, <2>5, TaskTypes DEF TakeSync
    <3> QED BY <2>2, <2>5, <3>1 DEF TakeSync
  <2> QED BY <1>24, <2>3, <2>4, <2>5
<1>25. CASE SyncDone
  BY <1>25 DEF SyncDone
<1>26. CASE SyncError
  BY <1>26, <1>n DEF SyncError, EndSync, MayFail
<1>27. CASE Push
  <2>1. /\ sink' \in Seq(Surfaces \cup {None}) /\ pushed' \in Seq(Nat)
        /\ failures' \subseteq Faults \cup {"flow"}
    <3>1. syncing.num \in Nat
      BY DEF SyncTasks
    <3> QED BY <1>27, <3>1, BufferReadyType DEF Push
  <2> QED BY <1>27, <1>n, <2>1 DEF Push
<1>28. CASE Clean
  BY <1>28, <1>n DEF Clean, EndSync
<1>29. ASSUME NEW f \in Frames, Unlock(f) PROVE TypeInv'
  BY <1>29 DEF Unlock
<1>30. CASE SetPassthrough
  <2>1. is_passthrough_' \in BOOLEAN /\ switches' \in 0 .. MaxSwitches
    BY <1>30, FramesAssumption DEF SetPassthrough
  <2> QED BY <1>30, <2>1 DEF SetPassthrough
<1>31. CASE Deactivate
  BY <1>31, FirstValues DEF Deactivate, Change
<1>32. CASE Deactivated
  BY <1>32 DEF Deactivated, Change
<1>33. CASE StopTaskThread
  <2>1. taskOpen' \in BOOLEAN
    BY <1>33 DEF StopTaskThread
  <2> QED BY <1>33, <2>1 DEF StopTaskThread, Change
<1>34. CASE JoinTaskThread
  BY <1>34, FirstValues DEF JoinTaskThread, Change
<1>35. CASE StopSyncThread
  <2>1. syncOpen' \in BOOLEAN
    BY <1>35 DEF StopSyncThread
  <2> QED BY <1>35, <2>1 DEF StopSyncThread, Change
<1>36. CASE JoinSyncThread
  BY <1>36, FirstValues DEF JoinSyncThread, Change
<1>37. CASE FreeAll
  BY <1>37 DEF FreeAll, Change
<1>38. CASE UNCHANGED vars
  BY <1>38 DEF vars
<1> QED
  BY <1>1, <1>2, <1>3, <1>4, <1>5, <1>6, <1>7, <1>8, <1>9, <1>10, <1>11, <1>12, <1>13,
     <1>14, <1>15, <1>16, <1>17, <1>18, <1>19, <1>20, <1>21, <1>22, <1>23, <1>24, <1>25,
     <1>26, <1>27, <1>28, <1>29, <1>30, <1>31, <1>32, <1>33, <1>34, <1>35, <1>36, <1>37,
     <1>38
  DEF Next, TaskStep, TaskFault, SyncStep, DisposeStep
-----------------------------------------------------------------------------
(* The phases.                                                             *)

\* Dispose() closes and empties one thread after the other.
LEMMA PhaseStep == TypeInv /\ PhaseInv /\ [Next]_vars => PhaseInv'
<1> SUFFICES ASSUME TypeInv, PhaseInv, [Next]_vars PROVE PhaseInv'
  OBVIOUS
<1>t. /\ taskOpen \in BOOLEAN /\ syncOpen \in BOOLEAN /\ taken \in BOOLEAN
      /\ elem \in {"playing", "flushing", "ready", "joinTask", "stopSync", "joinSync",
                   "free", "null"}
  BY DEF TypeInv, TypeOK
<1>h. input_queue_ # <<>> => Head(input_queue_) # None
  BY Taken, TaskTypes DEF TypeInv, TypeOK
<1> USE DEF PhaseInv, stream, tasks, locals, mode, vpp, syncs, syncer, downstream
<1>1. CASE Chain
  BY <1>1, <1>t DEF Chain
<1>2. CASE ChainTest
  BY <1>2, <1>t DEF ChainTest
<1>3. CASE ChainPost
  BY <1>3, <1>t DEF ChainPost
<1>4. CASE SendEos
  BY <1>4, <1>t DEF SendEos
<1>5. CASE TakeFrame
  BY <1>5, <1>t DEF TakeFrame, Process
<1>6. CASE TakeEos
  BY <1>6, <1>t DEF TakeEos, Process
<1>7. CASE LoopEnd
  BY <1>7, <1>t DEF LoopEnd, Return
<1>8. CASE LoopNext
  BY <1>8, <1>t DEF LoopNext
<1>9. CASE GetSurface
  BY <1>9, <1>t DEF GetSurface
<1>10. CASE NoSurface \/ RunError \/ PassError
  BY <1>10, <1>t DEF NoSurface, RunError, PassError, Fail, Return
<1>11. CASE TakeInput
  BY <1>11, <1>t, <1>h DEF TakeInput
<1>12. CASE RunBusy
  BY <1>12, <1>t DEF RunBusy
<1>13. CASE BusyTest
  BY <1>13, <1>t DEF BusyTest
<1>14. CASE RunFrame
  BY <1>14, <1>t DEF RunFrame, LockInput
<1>15. CASE RunMoreData
  BY <1>15, <1>t DEF RunMoreData, LockInput
<1>16. CASE RunDrained
  BY <1>16, <1>t DEF RunDrained, Return, PostSync
<1>17. CASE ReleaseInputSurface
  BY <1>17, <1>t DEF ReleaseInputSurface, PostSync
<1>18. CASE Submit
  BY <1>18, <1>t DEF Submit, PostSync
<1>19. CASE PassTake
  BY <1>19, <1>t, <1>h DEF PassTake
<1>20. CASE PassEos
  BY <1>20, <1>t DEF PassEos, Return, PostSync
<1>21. CASE PassSurface
  BY <1>21, <1>t DEF PassSurface
<1>22. CASE PassPush
  BY <1>22, <1>t DEF PassPush, Return
<1>23. CASE TakeRelease
  BY <1>23, <1>t DEF TakeRelease
<1>24. CASE TakeNotifyEos
  BY <1>24, <1>t DEF TakeNotifyEos
<1>25. CASE TakeSync
  BY <1>25, <1>t DEF TakeSync
<1>26. CASE SyncDone
  BY <1>26, <1>t DEF SyncDone
<1>27. CASE SyncError
  BY <1>27, <1>t DEF SyncError, EndSync
<1>28. CASE Push
  BY <1>28, <1>t DEF Push
<1>29. CASE Clean
  BY <1>29, <1>t DEF Clean, EndSync
<1>30. ASSUME NEW f \in Frames, Unlock(f) PROVE PhaseInv'
  BY <1>30, <1>t DEF Unlock
<1>31. CASE SetPassthrough
  BY <1>31, <1>t DEF SetPassthrough
<1>32. CASE Deactivate
  BY <1>32, <1>t DEF Deactivate, Change
<1>33. CASE Deactivated
  BY <1>33, <1>t DEF Deactivated, Change
<1>34. CASE StopTaskThread
  BY <1>34, <1>t DEF StopTaskThread, Change
<1>35. CASE JoinTaskThread
  BY <1>35, <1>t DEF JoinTaskThread, Change
<1>36. CASE StopSyncThread
  BY <1>36, <1>t DEF StopSyncThread, Change
<1>37. CASE JoinSyncThread
  BY <1>37, <1>t DEF JoinSyncThread, Change
<1>38. CASE FreeAll
  BY <1>38, <1>t DEF FreeAll, Change
<1>39. CASE UNCHANGED vars
  BY <1>39 DEF vars
<1> QED
  BY <1>1, <1>2, <1>3, <1>4, <1>5, <1>6, <1>7, <1>8, <1>9, <1>10, <1>11, <1>12, <1>13,
     <1>14, <1>15, <1>16, <1>17, <1>18, <1>19, <1>20, <1>21, <1>22, <1>23, <1>24, <1>25,
     <1>26, <1>27, <1>28, <1>29, <1>30, <1>31, <1>32, <1>33, <1>34, <1>35, <1>36, <1>37,
     <1>38, <1>39
  DEF Next, TaskStep, TaskFault, SyncStep, DisposeStep
-----------------------------------------------------------------------------
(* The frames.                                                             *)

\* The entries of the queues of frames, and the frames the VPP has.
LEMMA FrameTypes ==
  TypeInv => /\ sent \in Nat /\ in_frame \in Nat /\ None \notin locked
             /\ taskQ \in Seq(Nat) /\ Len(taskQ) \in Nat /\ DOMAIN taskQ = 1 .. Len(taskQ)
             /\ \A i \in DOMAIN taskQ : taskQ[i] \in Nat
             /\ input_queue_ \in Seq(Nat) /\ Len(input_queue_) \in Nat
             /\ DOMAIN input_queue_ = 1 .. Len(input_queue_)
             /\ \A i \in DOMAIN input_queue_ : input_queue_[i] \in Nat \ {0}
             /\ locked \subseteq Nat \ {0}
<1> SUFFICES ASSUME TypeInv
             PROVE  /\ sent \in Nat /\ in_frame \in Nat /\ None \notin locked
                    /\ taskQ \in Seq(Nat) /\ Len(taskQ) \in Nat
                    /\ DOMAIN taskQ = 1 .. Len(taskQ)
                    /\ \A i \in DOMAIN taskQ : taskQ[i] \in Nat
                    /\ input_queue_ \in Seq(Nat) /\ Len(input_queue_) \in Nat
                    /\ DOMAIN input_queue_ = 1 .. Len(input_queue_)
                    /\ \A i \in DOMAIN input_queue_ : input_queue_[i] \in Nat \ {0}
                    /\ locked \subseteq Nat \ {0}
  OBVIOUS
<1>1. Frames \subseteq Nat \ {0} /\ EosTask = 0 /\ None = 0
  BY FramesAssumption DEF Frames, EosTask, None
<1>2. taskQ \in Seq(Frames \cup {EosTask}) /\ input_queue_ \in Seq(Frames)
  BY DEF TypeInv, TypeOK
<1>3. taskQ \in Seq(Nat) /\ input_queue_ \in Seq(Nat \ {0}) /\ input_queue_ \in Seq(Nat)
  <2>1. Seq(Frames \cup {EosTask}) \subseteq Seq(Nat)
    <3>1. Frames \cup {EosTask} \subseteq Nat
      BY <1>1
    <3> QED BY <3>1, SeqMonotonic
  <2>2. Seq(Frames) \subseteq Seq(Nat \ {0})
    BY <1>1, SeqMonotonic
  <2>3. Seq(Frames) \subseteq Seq(Nat)
    <3>1. Frames \subseteq Nat
      BY <1>1
    <3> QED BY <3>1, SeqMonotonic
  <2> QED BY <1>2, <2>1, <2>2, <2>3
<1>4. sent \in Nat /\ in_frame \in Nat /\ locked \subseteq Nat \ {0}
  BY <1>1, FramesAssumption DEF TypeInv, TypeOK
<1> QED BY <1>1, <1>3, <1>4, LenProperties, ElementOfSeq

\* Frames stay in the order they came, whoever takes them.
LEMMA FramesStep ==
  TypeInv /\ PhaseInv /\ FramesInOrder /\ [Next]_vars => FramesInOrder'
<1> SUFFICES ASSUME TypeInv, PhaseInv, FramesInOrder, [Next]_vars
             PROVE  FramesInOrder'
  OBVIOUS
<1>u. ASSUME UNCHANGED <<taskQ, input_queue_, sent>>, spc' \in Pending <=> spc \in Pending,
             Known' \subseteq Known \cup {None}, tpc' \in PassHeld => in_frame' \notin locked'
      PROVE  FramesInOrder'
  <2>1. Last' = Last /\ Last \in Nat
    BY <1>u, FrameTypes DEF Last, FramesInOrder
  <2> QED BY <1>u, <2>1, FrameTypes DEF FramesInOrder, None, EosTask
<1>v. ASSUME UNCHANGED <<taskQ, input_queue_, sent, spc, locked, in_frame>>,
             tpc' \in PassHeld => tpc \in PassHeld
      PROVE  FramesInOrder'
  BY <1>u, <1>v DEF FramesInOrder, Known
<1>r. ASSUME UNCHANGED <<taskQ, input_queue_, sent, spc, locked>>, tpc' \notin PassHeld,
             in_frame' \in {None, in_frame}
      PROVE  FramesInOrder'
  BY <1>u, <1>r DEF Known
<1>h. ASSUME input_queue_ # <<>>, in_frame' = Head(input_queue_),
             input_queue_' = Tail(input_queue_), UNCHANGED <<taskQ, locked, sent, spc>>
      PROVE  FramesInOrder'
  <2> DEFINE m == Len(input_queue_)
             f == Head(input_queue_)
  <2>1. Last' = Last /\ (spc' \in Pending <=> spc \in Pending)
    BY <1>h DEF Last
  <2>2. /\ m \in Nat \ {0} /\ DOMAIN input_queue_ = 1 .. m
        /\ DOMAIN input_queue_' = 1 .. m - 1
        /\ f = input_queue_[1] /\ f \in Nat
        /\ \A i \in 1 .. m - 1 : input_queue_'[i] = input_queue_[i + 1]
    BY <1>h, FrameTypes, Taken
  <2>3. /\ f <= Last /\ (\A g \in Known : g < f)
        /\ \A j \in 2 .. m : f < input_queue_[j]
        /\ \A i \in DOMAIN taskQ : taskQ[i] # 0 => f < taskQ[i]
    BY <2>2 DEF FramesInOrder, EosTask
  <2>4. Known' \subseteq Known \cup {f} /\ locked \subseteq Known /\ in_frame' = f
    BY <1>h DEF Known
  <2> HIDE DEF m, f
  <2>5. f \notin locked
    BY <2>2, <2>3, <2>4
  <2>n. \A i \in 1 .. m - 1 : i + 1 \in 2 .. m /\ i + 1 \in 1 .. m
    BY <2>2
  <2>i. /\ \A i \in 1 .. m : /\ input_queue_[i] <= Last
                             /\ \A j \in 1 .. m : i < j => input_queue_[i] < input_queue_[j]
                             /\ \A g \in Known : g < input_queue_[i]
        /\ \A i \in DOMAIN taskQ : taskQ[i] # 0 =>
             \A j \in 1 .. m : input_queue_[j] < taskQ[i]
    BY <2>2 DEF FramesInOrder, EosTask
  <2>6. \A i \in DOMAIN input_queue_' :
         /\ input_queue_'[i] <= Last
         /\ \A g \in Known' : g < input_queue_'[i]
         /\ \A j \in DOMAIN input_queue_' : i < j => input_queue_'[i] < input_queue_'[j]
    <3> SUFFICES ASSUME NEW i \in 1 .. m - 1
                 PROVE  /\ input_queue_[i + 1] <= Last
                        /\ \A g \in Known' : g < input_queue_[i + 1]
                        /\ \A j \in 1 .. m - 1 : i < j => input_queue_[i + 1] < input_queue_[j + 1]
      BY <2>2
    <3> QED BY <2>2, <2>3, <2>4, <2>n, <2>i
  <2>7. \A i \in DOMAIN taskQ : taskQ[i] # 0 =>
         \A j \in DOMAIN input_queue_' : input_queue_'[j] < taskQ[i]
    BY <2>2, <2>n, <2>i
  <2>8. \A i \in DOMAIN taskQ :
         /\ taskQ[i] <= Last
         /\ taskQ[i] # 0 =>
              /\ \A g \in Known' : g < taskQ[i]
              /\ \A j \in DOMAIN taskQ : i < j /\ taskQ[j] # 0 => taskQ[i] < taskQ[j]
    BY <2>3, <2>4 DEF FramesInOrder, EosTask
  <2>9. \A g \in Known' : g <= Last
    BY <2>3, <2>4 DEF FramesInOrder
  <2>a. (spc' \in Pending => sent' > 0) /\ in_frame' \notin locked'
    BY <1>h, <2>4, <2>5 DEF FramesInOrder
  <2> QED BY <1>h, <2>1, <2>6, <2>7, <2>8, <2>9, <2>a DEF FramesInOrder, EosTask
<1> USE DEF stream, tasks, locals, mode, vpp, syncs, syncer, downstream
<1>1. CASE Chain
  BY <1>1, FrameTypes DEF Chain, FramesInOrder, Last, Pending, EosTask, Known, PassHeld
<1>2. CASE ChainTest
  BY <1>2, <1>u DEF ChainTest, Pending, Known, FramesInOrder
<1>3. CASE ChainPost
  <2> DEFINE n == Len(taskQ)
  <2>1. /\ taskQ' = Append(taskQ, sent) /\ Last' = sent /\ Last = sent - 1 /\ sent > 0
        /\ spc' = "idle" /\ Known' = Known
        /\ UNCHANGED <<tpc, in_frame, locked, input_queue_, sent>>
    BY <1>3 DEF ChainPost, Last, Pending, Known, FramesInOrder
  <2>2. /\ n \in Nat /\ DOMAIN taskQ = 1 .. n /\ DOMAIN taskQ' = 1 .. n + 1
        /\ \A i \in 1 .. n : taskQ'[i] = taskQ[i]
        /\ taskQ'[n + 1] = sent
    BY <2>1, FrameTypes, Appended
  <2> QED BY <2>1, <2>2, FrameTypes DEF FramesInOrder, Known, EosTask, None, Pending, PassHeld
<1>4. CASE SendEos
  <2> DEFINE n == Len(taskQ)
  <2>1. /\ taskQ' = Append(taskQ, EosTask) /\ Last' = Last /\ Last \in Nat /\ Known' = Known
        /\ UNCHANGED <<spc, tpc, in_frame, locked, input_queue_, sent>>
    BY <1>4, FrameTypes DEF SendEos, Last, Pending, Known
  <2>2. /\ n \in Nat /\ DOMAIN taskQ = 1 .. n /\ DOMAIN taskQ' = 1 .. n + 1
        /\ \A i \in 1 .. n : taskQ'[i] = taskQ[i]
        /\ taskQ'[n + 1] = EosTask
    BY <2>1, FrameTypes, Appended DEF EosTask
  <2> QED BY <2>1, <2>2, FrameTypes DEF FramesInOrder, EosTask
<1>5. CASE TakeFrame
  <2> DEFINE n == Len(taskQ)
             m == Len(input_queue_)
             f == Head(taskQ)
  <2>1. /\ taskQ # <<>> /\ f # 0
        /\ taskQ' = Tail(taskQ) /\ input_queue_' = Append(input_queue_, f)
        /\ Last' = Last /\ Known' = Known /\ tpc' \notin PassHeld
        /\ spc' \in Pending => spc \in Pending
        /\ sent' = sent
    BY <1>5 DEF TakeFrame, Process, Last, Known, Pending, PassHeld, EosTask
  <2>2. /\ n \in Nat \ {0} /\ DOMAIN taskQ = 1 .. n /\ DOMAIN taskQ' = 1 .. n - 1
        /\ f = taskQ[1] /\ f \in Nat
        /\ \A i \in 1 .. n - 1 : taskQ'[i] = taskQ[i + 1]
    BY <2>1, FrameTypes, Taken
  <2>3. /\ m \in Nat /\ DOMAIN input_queue_ = 1 .. m /\ DOMAIN input_queue_' = 1 .. m + 1
        /\ \A i \in 1 .. m : input_queue_'[i] = input_queue_[i]
        /\ input_queue_'[m + 1] = f
    BY <2>1, <2>2, FrameTypes, Appended
  <2>o. /\ f <= Last /\ (\A g \in Known : g < f)
        /\ \A j \in 1 .. m : input_queue_[j] < f
        /\ \A j \in 2 .. n : taskQ[j] # 0 => f < taskQ[j]
    BY <2>1, <2>2, <2>3 DEF FramesInOrder, EosTask
  <2>p. \A i \in 1 .. m :
         /\ input_queue_[i] <= Last /\ (\A g \in Known : g < input_queue_[i])
         /\ \A j \in 1 .. m : i < j => input_queue_[i] < input_queue_[j]
    BY <2>1, <2>3 DEF FramesInOrder
  <2>q. \A i \in 1 .. n :
         /\ taskQ[i] <= Last
         /\ taskQ[i] # 0 =>
              /\ \A g \in Known : g < taskQ[i]
              /\ \A j \in 1 .. m : input_queue_[j] < taskQ[i]
              /\ \A j \in 1 .. n : i < j /\ taskQ[j] # 0 => taskQ[i] < taskQ[j]
    BY <2>1, <2>2, <2>3 DEF FramesInOrder, EosTask
  <2> HIDE DEF n, m, f
  <2>4. \A i \in DOMAIN input_queue_' :
         /\ input_queue_'[i] <= Last'
         /\ \A g \in Known' : g < input_queue_'[i]
         /\ \A j \in DOMAIN input_queue_' : i < j => input_queue_'[i] < input_queue_'[j]
    BY <2>1, <2>2, <2>3, <2>o, <2>p, FrameTypes
  <2>5. \A i \in DOMAIN taskQ' :
         /\ taskQ'[i] <= Last'
         /\ taskQ'[i] # EosTask =>
              /\ \A g \in Known' : g < taskQ'[i]
              /\ \A j \in DOMAIN input_queue_' : input_queue_'[j] < taskQ'[i]
              /\ \A j \in DOMAIN taskQ' : i < j /\ taskQ'[j] # EosTask => taskQ'[i] < taskQ'[j]
    <3> SUFFICES ASSUME NEW i \in 1 .. n - 1
                 PROVE  /\ taskQ[i + 1] <= Last
                        /\ taskQ[i + 1] # 0 =>
                             /\ \A g \in Known : g < taskQ[i + 1]
                             /\ \A j \in 1 .. m + 1 : input_queue_'[j] < taskQ[i + 1]
                             /\ \A j \in 1 .. n - 1 : i < j /\ taskQ[j + 1] # 0 =>
                                  taskQ[i + 1] < taskQ[j + 1]
      BY <2>1, <2>2, <2>3 DEF EosTask
    <3>1. i + 1 \in 2 .. n /\ \A j \in 1 .. n - 1 : j + 1 \in 1 .. n
      BY <2>2
    <3> QED BY <2>2, <2>3, <2>o, <2>q, <3>1
  <2> QED BY <2>1, <2>4, <2>5 DEF FramesInOrder
<1>6. CASE TakeEos
  <2> DEFINE n == Len(taskQ)
  <2>1. /\ taskQ # <<>> /\ taskQ' = Tail(taskQ) /\ Last' = Last /\ Known' = Known
        /\ UNCHANGED <<spc, in_frame, locked, input_queue_, sent>> /\ tpc' \notin PassHeld
    BY <1>6 DEF TakeEos, Process, Last, Known, PassHeld
  <2>2. /\ n \in Nat \ {0} /\ DOMAIN taskQ = 1 .. n /\ DOMAIN taskQ' = 1 .. n - 1
        /\ \A i \in 1 .. n - 1 : taskQ'[i] = taskQ[i + 1]
    BY <2>1, FrameTypes, Taken
  <2> QED BY <2>1, <2>2, FrameTypes DEF FramesInOrder, EosTask
<1>7. CASE LoopEnd
  BY <1>7, <1>r DEF LoopEnd, Return, PassHeld
<1>8. CASE LoopNext
  BY <1>8, <1>v DEF LoopNext, PassHeld
<1>9. CASE GetSurface
  BY <1>9, <1>v DEF GetSurface, PassHeld
<1>10. CASE NoSurface
  BY <1>10, <1>r DEF NoSurface, Fail, Return, PassHeld
<1>11. CASE TakeInput
  <2>1. CASE in_frame = None /\ input_queue_ # <<>>
    BY <1>11, <2>1, <1>h DEF TakeInput
  <2>2. CASE ~(in_frame = None /\ input_queue_ # <<>>)
    BY <1>11, <2>2, <1>v DEF TakeInput, PassHeld
  <2> QED BY <2>1, <2>2
<1>12. CASE RunBusy
  BY <1>12, <1>v DEF RunBusy, PassHeld
<1>13. CASE BusyTest
  BY <1>13, <1>v DEF BusyTest, PassHeld
<1>14. CASE RunFrame
  <2>1. /\ UNCHANGED <<taskQ, input_queue_, sent, spc>> /\ Known' = Known
        /\ tpc' \notin PassHeld
    BY <1>14 DEF RunFrame, LockInput, Known, PassHeld
  <2> QED BY <2>1, <1>u
<1>15. CASE RunMoreData
  <2>1. /\ UNCHANGED <<taskQ, input_queue_, sent, spc>> /\ Known' = Known
        /\ tpc' \notin PassHeld
    BY <1>15 DEF RunMoreData, LockInput, Known, PassHeld
  <2> QED BY <2>1, <1>u
<1>16. CASE RunDrained
  BY <1>16, <1>r DEF RunDrained, Return, PassHeld
<1>17. CASE RunError
  BY <1>17, <1>r DEF RunError, Fail, Return, PassHeld
<1>18. CASE ReleaseInputSurface
  BY <1>18, <1>r DEF ReleaseInputSurface, PassHeld
<1>19. CASE Submit
  BY <1>19, <1>v DEF Submit, PassHeld
<1>20. CASE PassTake
  BY <1>20, <1>h DEF PassTake
<1>21. CASE PassEos
  BY <1>21, <1>r DEF PassEos, Return, PassHeld
<1>22. CASE PassSurface
  BY <1>22, <1>v DEF PassSurface, PassHeld
<1>23. CASE PassError
  BY <1>23, <1>r DEF PassError, Fail, Return, PassHeld
<1>24. CASE PassPush
  BY <1>24, <1>r DEF PassPush, Return, PassHeld
<1>25. CASE TakeRelease
  BY <1>25, <1>v DEF TakeRelease, PassHeld
<1>26. CASE TakeNotifyEos
  BY <1>26, <1>v DEF TakeNotifyEos, PassHeld
<1>27. CASE TakeSync
  BY <1>27, <1>v DEF TakeSync, PassHeld
<1>28. CASE SyncDone
  BY <1>28, <1>v DEF SyncDone, PassHeld
<1>29. CASE SyncError
  BY <1>29, <1>v DEF SyncError, EndSync, PassHeld
<1>30. CASE Push
  BY <1>30, <1>v DEF Push, PassHeld
<1>31. CASE Clean
  BY <1>31, <1>v DEF Clean, EndSync, PassHeld
<1>32. ASSUME NEW f \in Frames, Unlock(f) PROVE FramesInOrder'
  <2>1. /\ UNCHANGED <<taskQ, input_queue_, sent, spc, tpc, in_frame>> /\ locked' \subseteq locked
    BY <1>32 DEF Unlock
  <2>2. Known' \subseteq Known /\ (tpc' \in PassHeld => in_frame' \notin locked')
    BY <2>1 DEF Known, FramesInOrder
  <2> QED BY <2>1, <2>2, <1>u
<1>33. CASE SetPassthrough
  BY <1>33, <1>v DEF SetPassthrough, PassHeld
<1>34. CASE Deactivate
  BY <1>34, <1>v DEF Deactivate, Change, PassHeld
<1>35. CASE Deactivated
  BY <1>35, <1>v DEF Deactivated, Change, PassHeld
<1>36. CASE StopTaskThread
  BY <1>36, <1>v DEF StopTaskThread, Change, PassHeld
<1>37. CASE JoinTaskThread
  <2>1. /\ taskQ' = <<>> /\ DOMAIN taskQ' = {} /\ Last' = Last /\ Known' = Known
        /\ UNCHANGED <<spc, in_frame, locked, input_queue_, sent, tpc>>
    BY <1>37, EmptySeq DEF JoinTaskThread, Change, Last, Known
  <2> QED BY <2>1 DEF FramesInOrder
<1>38. CASE StopSyncThread
  BY <1>38, <1>v DEF StopSyncThread, Change, PassHeld
<1>39. CASE JoinSyncThread
  BY <1>39, <1>v DEF JoinSyncThread, Change, PassHeld
<1>40. CASE FreeAll
  <2>1. /\ UNCHANGED <<taskQ, input_queue_, sent, spc, tpc, in_frame>> /\ locked' \subseteq locked
    BY <1>40 DEF FreeAll, Change
  <2>2. Known' \subseteq Known /\ (tpc' \in PassHeld => in_frame' \notin locked')
    BY <2>1 DEF Known, FramesInOrder
  <2> QED BY <2>1, <2>2, <1>u
<1>41. CASE UNCHANGED vars
  BY <1>41, <1>v DEF vars, PassHeld
<1> QED
  BY <1>1, <1>2, <1>3, <1>4, <1>5, <1>6, <1>7, <1>8, <1>9, <1>10, <1>11, <1>12, <1>13,
     <1>14, <1>15, <1>16, <1>17, <1>18, <1>19, <1>20, <1>21, <1>22, <1>23, <1>24, <1>25,
     <1>26, <1>27, <1>28, <1>29, <1>30, <1>31, <1>32, <1>33, <1>34, <1>35, <1>36, <1>37,
     <1>38, <1>39, <1>40, <1>41
  DEF Next, TaskStep, TaskFault, SyncStep, DisposeStep
-----------------------------------------------------------------------------
(* The counter of operations.                                              *)

\* The entries of the sync thread's queue.
LEMMA SyncTypes ==
  ASSUME TypeInv
  PROVE  /\ syncQ \in Seq(Tasks) /\ Len(syncQ) \in Nat /\ DOMAIN syncQ = 1 .. Len(syncQ)
         /\ \A i \in DOMAIN syncQ : syncQ[i] \in Tasks
         /\ Num(syncQ, Len(syncQ), IsSync) \in Nat
         /\ syncop_tasks_num_ \in Int
<1>1. syncQ \in Seq(Tasks) /\ syncop_tasks_num_ \in Int
  BY DEF TypeInv, TypeOK
<1>2. Len(syncQ) \in Nat
  BY <1>1, LenProperties
<1> QED BY <1>1, <1>2, LenProperties, ElementOfSeq, NumType

\* PostSync() of a task while sync_thread_ is open, and of any to a closed one.
LEMMA Posted ==
  ASSUME TypeInv, NEW t \in Tasks, syncQ' = PostSync(t)
  PROVE  /\ ~syncOpen => syncQ' = syncQ
         /\ syncOpen => /\ Len(syncQ') = Len(syncQ) + 1
                        /\ DOMAIN syncQ' = 1 .. Len(syncQ) + 1
                        /\ \A i \in 1 .. Len(syncQ) : syncQ'[i] = syncQ[i]
                        /\ syncQ'[Len(syncQ) + 1] = t
                        /\ Num(syncQ', Len(syncQ'), IsSync)
                             = Num(syncQ, Len(syncQ), IsSync) + One(t \in IsSync)
                        /\ \A n \in 0 .. Len(syncQ) : Num(syncQ', n, IsSync) = Num(syncQ, n, IsSync)
<1>1. CASE syncOpen
  <2>1. syncQ' = Append(syncQ, t)
    BY <1>1 DEF PostSync
  <2> QED BY <1>1, <2>1, SyncTypes, Appended, NumAppend
<1>2. CASE ~syncOpen
  BY <1>2 DEF PostSync
<1> QED BY <1>1, <1>2

\* What taking a task from sync_thread_'s queue leaves.
LEMMA SyncTaken ==
  ASSUME TypeInv, syncQ # <<>>, syncQ' = Tail(syncQ)
  PROVE  /\ Len(syncQ) \in Nat \ {0} /\ Len(syncQ') = Len(syncQ) - 1
         /\ DOMAIN syncQ = 1 .. Len(syncQ) /\ DOMAIN syncQ' = 1 .. Len(syncQ) - 1
         /\ Head(syncQ) = syncQ[1] /\ Head(syncQ) \in Tasks
         /\ \A i \in 1 .. Len(syncQ) - 1 : syncQ'[i] = syncQ[i + 1]
         /\ \A n \in 0 .. Len(syncQ) - 1 :
              Num(syncQ, n + 1, IsSync) = Num(syncQ', n, IsSync) + One(Head(syncQ) \in IsSync)
         /\ Num(syncQ, Len(syncQ), IsSync)
              = Num(syncQ', Len(syncQ'), IsSync) + One(Head(syncQ) \in IsSync)
<1>1. /\ Len(syncQ) \in Nat \ {0} /\ Len(syncQ') = Len(syncQ) - 1
      /\ DOMAIN syncQ = 1 .. Len(syncQ) /\ DOMAIN syncQ' = 1 .. Len(syncQ) - 1
      /\ Head(syncQ) = syncQ[1] /\ Head(syncQ) \in Tasks
      /\ \A i \in 1 .. Len(syncQ) - 1 : syncQ'[i] = syncQ[i + 1]
  BY SyncTypes, Taken
<1>2. \A n \in 0 .. Len(syncQ) - 1 :
        Num(syncQ, n + 1, IsSync) = Num(syncQ', n, IsSync) + One(Head(syncQ) \in IsSync)
  BY SyncTypes, NumTail
<1>3. Len(syncQ) - 1 \in 0 .. Len(syncQ) - 1 /\ (Len(syncQ) - 1) + 1 = Len(syncQ)
  BY <1>1
<1> QED BY <1>1, <1>2, <1>3

\* syncop_tasks_num_ follows every post, and every operation finished.
LEMMA CountedStep == TypeInv /\ PhaseInv /\ Counted /\ [Next]_vars => Counted'
<1> SUFFICES ASSUME TypeInv, PhaseInv, Counted, [Next]_vars, syncOpen' PROVE Counted'
  BY DEF Counted
<1> DEFINE Posts == Num(syncQ, Len(syncQ), IsSync)
<1>t. Posts \in Nat /\ Posts' \in Nat /\ syncop_tasks_num_ \in Int
  <2>1. syncQ' \in Seq(Tasks)
    BY TypeStep DEF TypeInv
  <2>2. Len(syncQ') \in Nat
    BY <2>1, LenProperties
  <2>3. Posts' \in Nat
    BY <2>2, NumType
  <2> QED BY <2>3, SyncTypes
<1>u. ASSUME UNCHANGED <<syncOpen, syncQ, syncop_tasks_num_>>, ypc = "idle" <=> ypc' = "idle"
      PROVE  Counted'
  BY <1>u DEF Counted, One
<1>p. ASSUME NEW t \in Tasks, t \notin IsSync, syncQ' = PostSync(t),
             UNCHANGED <<syncOpen, syncop_tasks_num_, ypc>>
      PROVE  Counted'
  <2>1. Posts' = Posts
    BY <1>p, <1>t, Posted DEF One
  <2> QED BY <1>p, <2>1 DEF Counted
<1>q. ASSUME syncQ # <<>>, syncQ' = Tail(syncQ), Head(syncQ) \notin IsSync,
             UNCHANGED <<syncOpen, syncop_tasks_num_, ypc>>
      PROVE  Counted'
  <2>1. Posts' = Posts
    BY <1>q, <1>t, SyncTaken DEF One
  <2> QED BY <1>q, <2>1 DEF Counted
<1> USE DEF stream, tasks, locals, mode, vpp, syncs, syncer, downstream
<1>1. CASE Chain
  BY <1>1, <1>u DEF Chain
<1>2. CASE ChainTest
  BY <1>2, <1>u DEF ChainTest
<1>3. CASE ChainPost
  BY <1>3, <1>u DEF ChainPost
<1>4. CASE SendEos
  BY <1>4, <1>u DEF SendEos
<1>5. CASE TakeFrame
  BY <1>5, <1>u DEF TakeFrame, Process
<1>6. CASE TakeEos
  BY <1>6, <1>u DEF TakeEos, Process
<1>7. CASE LoopEnd
  BY <1>7, <1>u DEF LoopEnd, Return
<1>8. CASE LoopNext
  BY <1>8, <1>u DEF LoopNext
<1>9. CASE GetSurface
  BY <1>9, <1>u DEF GetSurface
<1>10. CASE NoSurface
  BY <1>10, <1>u DEF NoSurface, Fail, Return
<1>11. CASE TakeInput
  BY <1>11, <1>u DEF TakeInput
<1>12. CASE RunBusy
  BY <1>12, <1>u DEF RunBusy
<1>13. CASE BusyTest
  BY <1>13, <1>u DEF BusyTest
<1>14. CASE RunFrame
  BY <1>14, <1>u DEF RunFrame, LockInput
<1>15. CASE RunMoreData
  BY <1>15, <1>u DEF RunMoreData, LockInput
<1>16. CASE RunDrained
  BY <1>16, <1>p, TaskTypes DEF RunDrained
<1>17. CASE RunError
  BY <1>17, <1>u DEF RunError, Fail, Return
<1>18. CASE ReleaseInputSurface
  <2>1. CASE in_frame \in locked
    <3>1. Release(in_frame) \in Tasks /\ Release(in_frame) \notin IsSync
      BY <2>1, TaskTypes DEF TypeInv, TypeOK
    <3> QED BY <1>18, <2>1, <3>1, <1>p DEF ReleaseInputSurface
  <2>2. CASE in_frame \notin locked
    BY <1>18, <2>2, <1>u DEF ReleaseInputSurface
  <2> QED BY <2>1, <2>2
<1>19. CASE Submit
  <2>1. /\ syncQ' = PostSync(SyncOp(out_frame, made)) /\ UNCHANGED <<syncOpen, ypc>>
        /\ syncop_tasks_num_' = syncop_tasks_num_ + 1
    BY <1>19 DEF Submit
  <2>2. SyncOp(out_frame, made) \in Tasks /\ SyncOp(out_frame, made) \in IsSync
    BY TaskTypes DEF TypeInv, TypeOK
  <2>3. Posts' = Posts + 1
    BY <1>t, <2>1, <2>2, Posted DEF One
  <2> QED BY <1>t, <2>1, <2>3 DEF Counted, One
<1>20. CASE PassTake
  BY <1>20, <1>u DEF PassTake
<1>21. CASE PassEos
  <2>1. CASE is_eos_
    BY <1>21, <2>1, <1>p, TaskTypes DEF PassEos
  <2>2. CASE ~is_eos_
    BY <1>21, <2>2, <1>u DEF PassEos
  <2> QED BY <2>1, <2>2
<1>22. CASE PassSurface
  BY <1>22, <1>u DEF PassSurface
<1>23. CASE PassError
  BY <1>23, <1>u DEF PassError, Fail, Return
<1>24. CASE PassPush
  BY <1>24, <1>u DEF PassPush, Return
<1>25. CASE TakeRelease
  BY <1>25, <1>q DEF TakeRelease, IsSync
<1>26. CASE TakeNotifyEos
  BY <1>26, <1>q DEF TakeNotifyEos, IsSync
<1>27. CASE TakeSync
  <2>1. /\ syncQ # <<>> /\ syncQ' = Tail(syncQ) /\ UNCHANGED <<syncOpen, syncop_tasks_num_>>
        /\ ypc = "idle" /\ ypc' = "sync" /\ Head(syncQ).kind = "sync"
    BY <1>27 DEF TakeSync
  <2>2. Head(syncQ) \in IsSync
    BY <2>1, SyncTaken, TaskTypes DEF IsSync
  <2>3. Posts = Posts' + 1
    BY <1>t, <2>1, <2>2, SyncTaken DEF One
  <2> QED BY <1>t, <2>1, <2>3 DEF Counted, One
<1>28. CASE SyncDone
  BY <1>28, <1>u DEF SyncDone
<1>29. CASE SyncError
  BY <1>29, <1>t DEF SyncError, EndSync, Counted, One
<1>30. CASE Push
  BY <1>30, <1>u DEF Push
<1>31. CASE Clean
  BY <1>31, <1>t DEF Clean, EndSync, Counted, One
<1>32. ASSUME NEW f \in Frames, Unlock(f) PROVE Counted'
  BY <1>32, <1>u DEF Unlock
<1>33. CASE SetPassthrough
  BY <1>33, <1>u DEF SetPassthrough
<1>34. CASE Deactivate
  BY <1>34, <1>u DEF Deactivate, Change
<1>35. CASE Deactivated
  BY <1>35, <1>u DEF Deactivated, Change
<1>36. CASE StopTaskThread
  BY <1>36, <1>u DEF StopTaskThread, Change
<1>37. CASE JoinTaskThread
  BY <1>37, <1>u DEF JoinTaskThread, Change
<1>38. CASE StopSyncThread
  BY <1>38 DEF StopSyncThread
<1>39. CASE JoinSyncThread
  <2>1. ~syncOpen
    BY <1>39 DEF JoinSyncThread, Change, PhaseInv
  <2> QED BY <1>39, <2>1 DEF JoinSyncThread
<1>40. CASE FreeAll
  BY <1>40, <1>u DEF FreeAll, Change
<1>41. CASE UNCHANGED vars
  BY <1>41, <1>u DEF vars
<1> QED
  BY <1>1, <1>2, <1>3, <1>4, <1>5, <1>6, <1>7, <1>8, <1>9, <1>10, <1>11, <1>12, <1>13,
     <1>14, <1>15, <1>16, <1>17, <1>18, <1>19, <1>20, <1>21, <1>22, <1>23, <1>24, <1>25,
     <1>26, <1>27, <1>28, <1>29, <1>30, <1>31, <1>32, <1>33, <1>34, <1>35, <1>36, <1>37,
     <1>38, <1>39, <1>40, <1>41
  DEF Next, TaskStep, TaskFault, SyncStep, DisposeStep
-----------------------------------------------------------------------------
(* The surfaces the VPP reads.                                             *)

\* Who takes a surface over holds it before the other lets it go.
LEMMA HeldStep ==
  TypeInv /\ PhaseInv /\ FramesInOrder /\ LockedIsHeld /\ [Next]_vars => LockedIsHeld'
<1> SUFFICES ASSUME TypeInv, PhaseInv, FramesInOrder, LockedIsHeld, [Next]_vars,
                    elem' \notin {"free", "null"}, failures' \cap {"buffer", "run"} = {},
                    NEW f \in locked'
             PROVE  Held(f)'
  BY DEF LockedIsHeld
<1> DEFINE Guard == elem \notin {"free", "null"} /\ failures \cap {"buffer", "run"} = {}
<1>t. syncQ \in Seq(Tasks) /\ DOMAIN syncQ = 1 .. Len(syncQ) /\ None \notin locked
  BY SyncTypes, FrameTypes
<1>u. ASSUME Guard, f \in locked, UNCHANGED <<in_frame, syncQ, input_locked_frames_>>
      PROVE  Held(f)'
  BY <1>u DEF LockedIsHeld, Held
<1>l. ASSUME Guard, f \in locked, in_frame \notin locked,
             UNCHANGED <<syncQ, input_locked_frames_>>
      PROVE  Held(f)'
  BY <1>l, <1>t DEF LockedIsHeld, Held
<1>p. ASSUME Guard, f \in locked, in_frame # f \/ in_frame' = f,
             NEW t \in Tasks, syncQ' = PostSync(t), UNCHANGED input_locked_frames_
      PROVE  Held(f)'
  <2>1. CASE \E i \in DOMAIN syncQ : syncQ[i] = Release(f)
    <3>1. PICK i \in DOMAIN syncQ : syncQ[i] = Release(f)
      BY <2>1
    <3>2. i \in DOMAIN syncQ' /\ syncQ'[i] = Release(f)
      BY <1>p, <1>t, <3>1, SyncTypes, Posted
    <3> QED BY <3>2 DEF Held, Release
  <2> QED BY <1>p, <2>1 DEF LockedIsHeld, Held
<1>q. ASSUME Guard, f \in locked, UNCHANGED in_frame,
             syncQ # <<>>, syncQ' = Tail(syncQ), input_locked_frames_ \subseteq input_locked_frames_',
             Head(syncQ) = Release(f) => f \in input_locked_frames_'
      PROVE  Held(f)'
  <2>1. CASE \E i \in DOMAIN syncQ : syncQ[i] = Release(f)
    <3>1. PICK i \in DOMAIN syncQ : syncQ[i] = Release(f)
      BY <2>1
    <3>2. i = 1 \/ (i - 1 \in DOMAIN syncQ' /\ syncQ'[i - 1] = Release(f))
      BY <1>q, <3>1, SyncTaken
    <3>3. CASE i = 1
      BY <1>q, <3>1, <3>3, SyncTaken DEF Held
    <3> QED BY <3>2, <3>3 DEF Held, Release
  <2> QED BY <1>q, <2>1 DEF LockedIsHeld, Held
<1> USE DEF stream, tasks, locals, mode, vpp, syncs, syncer, downstream
<1>1. CASE Chain
  BY <1>1, <1>u DEF Chain
<1>2. CASE ChainTest
  BY <1>2, <1>u DEF ChainTest
<1>3. CASE ChainPost
  BY <1>3, <1>u DEF ChainPost
<1>4. CASE SendEos
  BY <1>4, <1>u DEF SendEos
<1>5. CASE TakeFrame
  BY <1>5, <1>u DEF TakeFrame, Process
<1>6. CASE TakeEos
  BY <1>6, <1>u DEF TakeEos, Process
<1>7. CASE LoopEnd
  BY <1>7, <1>t, <1>l DEF LoopEnd
<1>8. CASE LoopNext
  BY <1>8, <1>u DEF LoopNext
<1>9. CASE GetSurface
  BY <1>9, <1>u DEF GetSurface
<1>10. CASE NoSurface
  <2>1. "buffer" \in failures'
    BY <1>10 DEF NoSurface, Fail
  <2> QED BY <2>1
<1>11. CASE TakeInput
  <2>1. CASE in_frame = None
    BY <1>11, <2>1, <1>t, <1>l DEF TakeInput
  <2>2. CASE in_frame # None
    BY <1>11, <2>2, <1>u DEF TakeInput
  <2> QED BY <2>1, <2>2
<1>12. CASE RunBusy
  BY <1>12, <1>u DEF RunBusy
<1>13. CASE BusyTest
  BY <1>13, <1>u DEF BusyTest
<1>14. CASE RunFrame
  <2>1. /\ UNCHANGED <<in_frame, syncQ, input_locked_frames_, elem, failures>>
        /\ f \in locked \/ f = in_frame
    BY <1>14 DEF RunFrame, LockInput
  <2> QED BY <2>1, <1>u DEF Held
<1>15. CASE RunMoreData
  <2>1. /\ UNCHANGED <<in_frame, syncQ, input_locked_frames_, elem, failures>>
        /\ f \in locked \/ f = in_frame
    BY <1>15 DEF RunMoreData, LockInput
  <2> QED BY <2>1, <1>u DEF Held
<1>16. CASE RunDrained
  <2>1. /\ in_frame = None /\ syncQ' = PostSync(NotifyEos) /\ f \in locked
        /\ UNCHANGED <<elem, failures, input_locked_frames_>>
    BY <1>16 DEF RunDrained
  <2> QED BY <1>p, <1>t, <2>1, TaskTypes
<1>17. CASE RunError
  <2>1. "run" \in failures'
    BY <1>17 DEF RunError, Fail
  <2> QED BY <2>1
<1>18. CASE ReleaseInputSurface
  <2>1. /\ tpc = "release" /\ in_frame' = None
        /\ UNCHANGED <<locked, input_locked_frames_, elem, syncOpen, failures>>
        /\ syncQ' = IF in_frame \in locked THEN PostSync(Release(in_frame)) ELSE syncQ
    BY <1>18 DEF ReleaseInputSurface
  <2>2. CASE f = in_frame
    <3>1. Release(f) \in Tasks
      BY <2>1, TaskTypes DEF TypeInv, TypeOK
    <3>2. syncQ' = PostSync(Release(f)) /\ syncOpen
      BY <2>1, <2>2 DEF PhaseInv, TypeInv, TypeOK
    <3>3. Len(syncQ) + 1 \in DOMAIN syncQ' /\ syncQ'[Len(syncQ) + 1] = Release(f)
      BY <3>1, <3>2, SyncTypes, Posted
    <3> QED BY <3>3 DEF Held, Release
  <2>3. CASE f # in_frame /\ in_frame \in locked
    <3>1. Release(in_frame) \in Tasks
      BY <2>3, TaskTypes DEF TypeInv, TypeOK
    <3> QED BY <1>p, <2>1, <2>3, <3>1
  <2>4. CASE f # in_frame /\ in_frame \notin locked
    BY <2>1, <2>4 DEF LockedIsHeld, Held
  <2> QED BY <2>2, <2>3, <2>4
<1>19. CASE Submit
  <2>1. /\ in_frame' = in_frame /\ syncQ' = PostSync(SyncOp(out_frame, made)) /\ f \in locked
        /\ UNCHANGED <<elem, failures, input_locked_frames_>>
    BY <1>19 DEF Submit
  <2>2. SyncOp(out_frame, made) \in Tasks
    BY TaskTypes DEF TypeInv, TypeOK
  <2> QED BY <1>p, <2>1, <2>2
<1>20. CASE PassTake
  BY <1>20, <1>t, <1>l DEF PassTake, PhaseInv
<1>21. CASE PassEos
  <2>1. /\ in_frame = None /\ f \in locked
        /\ syncQ' = IF is_eos_ THEN PostSync(NotifyEos) ELSE syncQ
        /\ UNCHANGED <<elem, failures, input_locked_frames_>>
    BY <1>21 DEF PassEos, PhaseInv
  <2>2. CASE is_eos_
    BY <1>p, <1>t, <2>1, <2>2, TaskTypes
  <2>3. CASE ~is_eos_
    BY <1>l, <1>t, <2>1, <2>3
  <2> QED BY <2>2, <2>3
<1>22. CASE PassSurface
  BY <1>22, <1>u DEF PassSurface
<1>23. CASE PassError
  <2>1. /\ in_frame \notin locked /\ f \in locked
        /\ UNCHANGED <<elem, syncQ, input_locked_frames_>> /\ failures \subseteq failures'
    BY <1>23 DEF PassError, Fail, FramesInOrder, PassHeld
  <2> QED BY <1>l, <2>1
<1>24. CASE PassPush
  <2>1. /\ in_frame \notin locked /\ f \in locked
        /\ UNCHANGED <<elem, syncQ, input_locked_frames_>> /\ failures \subseteq failures'
    BY <1>24 DEF PassPush, BufferReady, FramesInOrder, PassHeld
  <2> QED BY <1>l, <2>1
<1>25. CASE TakeRelease
  <2>1. /\ syncQ # <<>> /\ syncQ' = Tail(syncQ) /\ UNCHANGED <<elem, failures, locked, in_frame>>
        /\ input_locked_frames_' = input_locked_frames_ \cup ({Head(syncQ).arg} \cap locked)
    BY <1>25 DEF TakeRelease
  <2>2. Head(syncQ) = Release(f) => Head(syncQ).arg = f
    BY DEF Release
  <2> QED BY <1>q, <2>1, <2>2
<1>26. CASE TakeNotifyEos
  <2>1. /\ syncQ # <<>> /\ syncQ' = Tail(syncQ) /\ UNCHANGED <<elem, failures, locked, in_frame>>
        /\ UNCHANGED input_locked_frames_ /\ Head(syncQ).kind # "release"
    BY <1>26 DEF TakeNotifyEos
  <2>2. Head(syncQ) = Release(f) => Head(syncQ).kind = "release"
    BY DEF Release
  <2> QED BY <1>q, <2>1, <2>2
<1>27. CASE TakeSync
  <2>1. /\ syncQ # <<>> /\ syncQ' = Tail(syncQ) /\ UNCHANGED <<elem, failures, locked, in_frame>>
        /\ UNCHANGED input_locked_frames_ /\ Head(syncQ).kind # "release"
    BY <1>27 DEF TakeSync
  <2>2. Head(syncQ) = Release(f) => Head(syncQ).kind = "release"
    BY DEF Release
  <2> QED BY <1>q, <2>1, <2>2
<1>28. CASE SyncDone
  BY <1>28, <1>u DEF SyncDone
<1>29. CASE SyncError
  <2>1. /\ UNCHANGED <<in_frame, syncQ, input_locked_frames_, elem, locked>>
        /\ failures \subseteq failures'
    BY <1>29 DEF SyncError, EndSync
  <2> QED BY <2>1, <1>u
<1>30. CASE Push
  <2>1. /\ UNCHANGED <<in_frame, syncQ, input_locked_frames_, elem, locked>>
        /\ failures \subseteq failures'
    BY <1>30 DEF Push, BufferReady
  <2> QED BY <2>1, <1>u
<1>31. CASE Clean
  <2>1. /\ UNCHANGED <<in_frame, syncQ, elem, locked, failures>>
        /\ input_locked_frames_' = input_locked_frames_ \cap locked
    BY <1>31 DEF Clean
  <2> QED BY <2>1 DEF LockedIsHeld, Held
<1>32. ASSUME NEW g \in Frames, Unlock(g) PROVE Held(f)'
  BY <1>32, <1>u DEF Unlock
<1>33. CASE SetPassthrough
  BY <1>33, <1>u DEF SetPassthrough
<1>34. CASE Deactivate
  BY <1>34, <1>u DEF Deactivate, Change
<1>35. CASE Deactivated
  BY <1>35, <1>u DEF Deactivated, Change
<1>36. CASE StopTaskThread
  BY <1>36, <1>u DEF StopTaskThread, Change
<1>37. CASE JoinTaskThread
  BY <1>37, <1>u DEF JoinTaskThread, Change
<1>38. CASE StopSyncThread
  BY <1>38, <1>u DEF StopSyncThread, Change
<1>39. CASE JoinSyncThread
  BY <1>39 DEF JoinSyncThread, Change
<1>40. CASE FreeAll
  BY <1>40 DEF FreeAll, Change
<1>41. CASE UNCHANGED vars
  BY <1>41, <1>u DEF vars
<1> QED
  BY <1>1, <1>2, <1>3, <1>4, <1>5, <1>6, <1>7, <1>8, <1>9, <1>10, <1>11, <1>12, <1>13,
     <1>14, <1>15, <1>16, <1>17, <1>18, <1>19, <1>20, <1>21, <1>22, <1>23, <1>24, <1>25,
     <1>26, <1>27, <1>28, <1>29, <1>30, <1>31, <1>32, <1>33, <1>34, <1>35, <1>36, <1>37,
     <1>38, <1>39, <1>40, <1>41
  DEF Next, TaskStep, TaskFault, SyncStep, DisposeStep
-----------------------------------------------------------------------------
(* The operations.                                                         *)

\* The numbers of the frames made are natural numbers.
LEMMA OpTypes ==
  ASSUME TypeInv
  PROVE  /\ made \in Nat /\ syncing.num \in Nat
         /\ \A i \in DOMAIN syncQ : syncQ[i].num \in Nat
         /\ pushed \in Seq(Nat) /\ Len(pushed) \in Nat /\ DOMAIN pushed = 1 .. Len(pushed)
         /\ \A i \in DOMAIN pushed : pushed[i] \in Nat
<1>1. pushed \in Seq(Nat) /\ made \in Nat /\ syncing \in SyncTasks
  BY DEF TypeInv, TypeOK
<1>2. \A i \in DOMAIN syncQ : syncQ[i].num \in Nat
  BY SyncTypes, TaskTypes
<1> QED BY <1>1, <1>2, LenProperties, ElementOfSeq DEF SyncTasks

\* One mode is left alone as long as "passthrough" is.
LEMMA OneModeStep ==
  ASSUME TypeInv, PhaseInv, OneMode, [Next]_vars, switches' = 0
  PROVE  OneMode' /\ switches = 0
<1>t. switches \in Nat
  BY FramesAssumption DEF TypeInv, TypeOK
<1> DEFINE NoSync == \A i \in DOMAIN syncQ : syncQ[i] \notin IsSync
<1>u. ASSUME UNCHANGED <<is_passthrough_, switches, syncQ>>, ypc = "idle" => ypc' = "idle",
             is_passthrough_ => tpc' \notin Processing,
             ~is_passthrough_ => tpc' \notin {"pass", "passGet", "passPush"}
      PROVE  OneMode' /\ switches = 0
  BY <1>u DEF OneMode
<1>p. ASSUME NEW t \in Tasks, syncQ' = PostSync(t), t \notin IsSync \/ ~is_passthrough_,
             UNCHANGED <<is_passthrough_, switches, ypc>>, is_passthrough_ => tpc' \notin Processing,
             ~is_passthrough_ => tpc' \notin {"pass", "passGet", "passPush"}
      PROVE  OneMode' /\ switches = 0
  <2>1. ASSUME t \notin IsSync, NoSync PROVE NoSync'
    BY <1>p, <2>1, SyncTypes, Posted
  <2> QED BY <1>p, <2>1 DEF OneMode
<1>q. ASSUME syncQ # <<>>, syncQ' = Tail(syncQ), UNCHANGED <<is_passthrough_, switches, tpc>>,
             is_passthrough_ => ypc' = ypc
      PROVE  OneMode' /\ switches = 0
  <2>1. ASSUME NoSync PROVE NoSync'
    <3>1. \A i \in DOMAIN syncQ' : i + 1 \in DOMAIN syncQ /\ syncQ'[i] = syncQ[i + 1]
      BY <1>q, SyncTaken
    <3> QED BY <2>1, <3>1
  <2> QED BY <1>q, <2>1 DEF OneMode
<1> USE DEF stream, tasks, locals, mode, vpp, syncs, syncer, downstream, Processing, Running
<1>1. CASE Chain
  BY <1>1, <1>u DEF Chain, OneMode
<1>2. CASE ChainTest
  BY <1>2, <1>u DEF ChainTest, OneMode
<1>3. CASE ChainPost
  BY <1>3, <1>u DEF ChainPost, OneMode
<1>4. CASE SendEos
  BY <1>4, <1>u DEF SendEos, OneMode
<1>5. CASE TakeFrame
  BY <1>5, <1>u DEF TakeFrame, Process, OneMode
<1>6. CASE TakeEos
  BY <1>6, <1>u DEF TakeEos, Process, OneMode
<1>7. CASE LoopEnd
  BY <1>7, <1>u DEF LoopEnd, Return, OneMode
<1>8. CASE LoopNext
  BY <1>8, <1>u DEF LoopNext, OneMode
<1>9. CASE GetSurface
  BY <1>9, <1>u DEF GetSurface, OneMode
<1>10. CASE NoSurface
  BY <1>10, <1>u DEF NoSurface, Fail, Return, OneMode
<1>11. CASE TakeInput
  BY <1>11, <1>u DEF TakeInput, OneMode
<1>12. CASE RunBusy
  BY <1>12, <1>u DEF RunBusy, OneMode
<1>13. CASE BusyTest
  BY <1>13, <1>u DEF BusyTest, OneMode
<1>14. CASE RunFrame
  BY <1>14, <1>u DEF RunFrame, LockInput, OneMode
<1>15. CASE RunMoreData
  BY <1>15, <1>u DEF RunMoreData, LockInput, OneMode
<1>16. CASE RunDrained
  BY <1>16, <1>p, TaskTypes DEF RunDrained, Return, OneMode
<1>17. CASE RunError
  BY <1>17, <1>u DEF RunError, Fail, Return, OneMode
<1>18. CASE ReleaseInputSurface
  <2>1. CASE in_frame \in locked
    <3>1. Release(in_frame) \in Tasks /\ Release(in_frame) \notin IsSync
      BY <2>1, TaskTypes DEF TypeInv, TypeOK
    <3> QED BY <1>18, <2>1, <3>1, <1>p DEF ReleaseInputSurface, OneMode
  <2>2. CASE in_frame \notin locked
    BY <1>18, <2>2, <1>u DEF ReleaseInputSurface, OneMode
  <2> QED BY <2>1, <2>2
<1>19. CASE Submit
  <2>1. SyncOp(out_frame, made) \in Tasks
    BY TaskTypes DEF TypeInv, TypeOK
  <2>2. syncQ' = PostSync(SyncOp(out_frame, made)) /\ tpc = "submit" /\ tpc' = "loop"
        /\ UNCHANGED <<is_passthrough_, switches, ypc>>
    BY <1>19 DEF Submit
  <2> QED BY <2>1, <2>2, <1>p DEF OneMode
<1>20. CASE PassTake
  BY <1>20, <1>u DEF PassTake, OneMode
<1>21. CASE PassEos
  <2>1. CASE is_eos_
    BY <1>21, <2>1, <1>p, TaskTypes DEF PassEos, Return, OneMode
  <2>2. CASE ~is_eos_
    BY <1>21, <2>2, <1>u DEF PassEos, Return, OneMode
  <2> QED BY <2>1, <2>2
<1>22. CASE PassSurface
  BY <1>22, <1>u DEF PassSurface, OneMode
<1>23. CASE PassError
  BY <1>23, <1>u DEF PassError, Fail, Return, OneMode
<1>24. CASE PassPush
  BY <1>24, <1>u DEF PassPush, Return, OneMode
<1>25. CASE TakeRelease
  BY <1>25, <1>q DEF TakeRelease
<1>26. CASE TakeNotifyEos
  BY <1>26, <1>q DEF TakeNotifyEos
<1>27. CASE TakeSync
  <2>1. /\ syncQ # <<>> /\ syncQ' = Tail(syncQ) /\ Head(syncQ).kind = "sync"
        /\ UNCHANGED <<is_passthrough_, switches, tpc>>
    BY <1>27 DEF TakeSync
  <2>2. 1 \in DOMAIN syncQ /\ syncQ[1] \in IsSync
    BY <2>1, SyncTaken, TaskTypes DEF IsSync
  <2>3. ~is_passthrough_
    BY <2>2 DEF OneMode
  <2> QED BY <2>1, <2>3, <1>q
<1>28. CASE SyncDone
  BY <1>28, <1>u DEF SyncDone, OneMode
<1>29. CASE SyncError
  BY <1>29, <1>u DEF SyncError, EndSync, OneMode
<1>30. CASE Push
  BY <1>30, <1>u DEF Push, OneMode
<1>31. CASE Clean
  BY <1>31, <1>u DEF Clean, EndSync, OneMode
<1>32. ASSUME NEW f \in Frames, Unlock(f) PROVE OneMode' /\ switches = 0
  BY <1>32, <1>u DEF Unlock, OneMode
<1>33. CASE SetPassthrough
  BY <1>33, <1>t DEF SetPassthrough
<1>34. CASE Deactivate
  BY <1>34, <1>u DEF Deactivate, Change, OneMode
<1>35. CASE Deactivated
  BY <1>35, <1>u DEF Deactivated, Change, OneMode
<1>36. CASE StopTaskThread
  BY <1>36, <1>u DEF StopTaskThread, Change, OneMode
<1>37. CASE JoinTaskThread
  BY <1>37, <1>u DEF JoinTaskThread, Change, OneMode
<1>38. CASE StopSyncThread
  BY <1>38, <1>u DEF StopSyncThread, Change, OneMode
<1>39. CASE JoinSyncThread
  <2>1. DOMAIN syncQ' = {} /\ UNCHANGED <<is_passthrough_, switches, ypc, tpc>>
    BY <1>39, EmptySeq DEF JoinSyncThread, Change
  <2> QED BY <2>1 DEF OneMode
<1>40. CASE FreeAll
  BY <1>40, <1>u DEF FreeAll, Change, OneMode
<1>41. CASE UNCHANGED vars
  BY <1>41, <1>u DEF vars, OneMode
<1> QED
  BY <1>1, <1>2, <1>3, <1>4, <1>5, <1>6, <1>7, <1>8, <1>9, <1>10, <1>11, <1>12, <1>13,
     <1>14, <1>15, <1>16, <1>17, <1>18, <1>19, <1>20, <1>21, <1>22, <1>23, <1>24, <1>25,
     <1>26, <1>27, <1>28, <1>29, <1>30, <1>31, <1>32, <1>33, <1>34, <1>35, <1>36, <1>37,
     <1>38, <1>39, <1>40, <1>41
  DEF Next, TaskStep, TaskFault, SyncStep, DisposeStep

\* Frames go downstream in the order of their numbers, whatever else happens.
LEMMA OpsStep ==
  ASSUME TypeInv, PhaseInv, OneMode, OpsInOrder, [Next]_vars, switches' = 0
  PROVE  OpsInOrder'
<1>t. switches \in Nat /\ made \in Nat
  BY FramesAssumption DEF TypeInv, TypeOK
<1>u. ASSUME UNCHANGED <<made, syncQ, ypc, syncing, pushed>>, Fresh' => Fresh
      PROVE  OpsInOrder'
  BY <1>u DEF OpsInOrder, Syncing
<1>v. ASSUME UNCHANGED <<made, syncQ, ypc, syncing, pushed>>,
             UNCHANGED <<tpc, sts>> \/ tpc' \notin {"release", "submit"} \cup PassHeld
      PROVE  OpsInOrder'
  BY <1>u, <1>v DEF Fresh
<1>m. ASSUME UNCHANGED <<syncQ, ypc, syncing, pushed>>, made' = made + 1 PROVE OpsInOrder'
  <2>1. \A n \in Nat : n <= made => n <= made' /\ n < made'
    BY <1>m, <1>t
  <2> QED BY <1>m, <2>1, OpTypes DEF OpsInOrder, Syncing
<1>p. ASSUME UNCHANGED <<made, ypc, syncing, pushed>>, Fresh' => Fresh,
             NEW t \in Tasks, t \notin IsSync, syncQ' = PostSync(t)
      PROVE  OpsInOrder'
  <2>1. \A i \in DOMAIN syncQ' : syncQ'[i] \in IsSync => i \in DOMAIN syncQ /\ syncQ'[i] = syncQ[i]
    BY <1>p, SyncTypes, Posted
  <2> QED BY <1>p, <2>1 DEF OpsInOrder, Syncing
<1>q. ASSUME UNCHANGED <<made, ypc, syncing, pushed, tpc, sts>>, syncQ # <<>>, syncQ' = Tail(syncQ)
      PROVE  OpsInOrder'
  <2>1. \A i \in DOMAIN syncQ' :
          i \in Nat /\ i + 1 \in DOMAIN syncQ /\ syncQ'[i] = syncQ[i + 1]
    BY <1>q, SyncTaken
  <2>2. \A i, j \in DOMAIN syncQ' : i < j => i + 1 < j + 1
    BY <2>1
  <2>3. Fresh' = Fresh
    BY <1>q DEF Fresh
  <2> QED BY <1>q, <2>1, <2>2, <2>3 DEF OpsInOrder, Syncing
<1>s. ASSUME NEW n \in Nat, pushed' = Append(pushed, n) \/ pushed' = pushed,
             UNCHANGED <<made, syncQ>>, ~Syncing', n <= made,
             Fresh' => Fresh /\ n < made,
             \A i \in DOMAIN syncQ : syncQ[i] \in IsSync => n < syncQ[i].num,
             \A i \in DOMAIN pushed : pushed[i] < n
      PROVE  OpsInOrder'
  <2>1. CASE pushed' = Append(pushed, n)
    <3> DEFINE m == Len(pushed)
    <3>1. /\ m \in Nat /\ DOMAIN pushed = 1 .. m /\ DOMAIN pushed' = 1 .. m + 1
          /\ \A i \in 1 .. m : pushed'[i] = pushed[i]
          /\ pushed'[m + 1] = n
      BY <2>1, OpTypes, Appended
    <3> HIDE DEF m
    <3>2. \A i \in DOMAIN pushed' :
            /\ pushed'[i] <= made
            /\ Fresh' => pushed'[i] < made
            /\ \A j \in DOMAIN syncQ : syncQ[j] \in IsSync => pushed'[i] < syncQ[j].num
            /\ \A j \in DOMAIN pushed' : i < j => pushed'[i] < pushed'[j]
      BY <1>s, <3>1 DEF OpsInOrder
    <3> QED BY <1>s, <3>2 DEF OpsInOrder
  <2>2. CASE pushed' = pushed
    BY <1>s, <2>2 DEF OpsInOrder
  <2> QED BY <1>s, <2>1, <2>2
<1> USE DEF stream, tasks, locals, mode, vpp, syncs, syncer, downstream
<1>1. CASE Chain
  BY <1>1, <1>v DEF Chain, PassHeld
<1>2. CASE ChainTest
  BY <1>2, <1>v DEF ChainTest, PassHeld
<1>3. CASE ChainPost
  BY <1>3, <1>v DEF ChainPost, PassHeld
<1>4. CASE SendEos
  BY <1>4, <1>v DEF SendEos, PassHeld
<1>5. CASE TakeFrame
  BY <1>5, <1>v DEF TakeFrame, Process, PassHeld
<1>6. CASE TakeEos
  BY <1>6, <1>v DEF TakeEos, Process, PassHeld
<1>7. CASE LoopEnd
  BY <1>7, <1>v DEF LoopEnd, Return, PassHeld
<1>8. CASE LoopNext
  BY <1>8, <1>v DEF LoopNext, PassHeld
<1>9. CASE GetSurface
  BY <1>9, <1>v DEF GetSurface, PassHeld
<1>10. CASE NoSurface
  BY <1>10, <1>v DEF NoSurface, Fail, Return, PassHeld
<1>11. CASE TakeInput
  BY <1>11, <1>v DEF TakeInput, PassHeld
<1>12. CASE RunBusy
  BY <1>12, <1>v DEF RunBusy, PassHeld
<1>13. CASE BusyTest
  BY <1>13, <1>v DEF BusyTest, PassHeld
<1>14. CASE RunFrame
  BY <1>14, <1>m DEF RunFrame
<1>15. CASE RunMoreData
  BY <1>15, <1>u DEF RunMoreData, Fresh, PassHeld
<1>16. CASE RunDrained
  BY <1>16, <1>p, TaskTypes DEF RunDrained, Return, Fresh, PassHeld
<1>17. CASE RunError
  BY <1>17, <1>v DEF RunError, Fail, Return, PassHeld
<1>18. CASE ReleaseInputSurface
  <2>1. CASE in_frame \in locked
    <3>1. Release(in_frame) \in Tasks /\ Release(in_frame) \notin IsSync
      BY <2>1, TaskTypes DEF TypeInv, TypeOK
    <3> QED BY <1>18, <2>1, <3>1, <1>p DEF ReleaseInputSurface, Fresh, PassHeld
  <2>2. CASE in_frame \notin locked
    BY <1>18, <2>2, <1>u DEF ReleaseInputSurface, Fresh, PassHeld
  <2> QED BY <2>1, <2>2
<1>19. CASE Submit
  <2> DEFINE n == Len(syncQ)
             x == SyncOp(out_frame, made)
  <2>1. /\ tpc = "submit" /\ tpc' = "loop" /\ syncQ' = PostSync(x)
        /\ UNCHANGED <<made, ypc, syncing, pushed>>
    BY <1>19 DEF Submit
  <2>2. x \in IsSync /\ x \in Tasks /\ x.num = made
    BY TaskTypes DEF TypeInv, TypeOK
  <2>f. ~Fresh' /\ Fresh
    BY <2>1 DEF Fresh, PassHeld
  <2>3. CASE syncOpen
    <3>1. /\ n \in Nat /\ DOMAIN syncQ = 1 .. n /\ DOMAIN syncQ' = 1 .. n + 1
          /\ \A i \in 1 .. n : syncQ'[i] = syncQ[i]
          /\ syncQ'[n + 1].num = made
      BY <2>1, <2>2, <2>3, SyncTypes, Posted
    <3>2. \A i \in 1 .. n : syncQ[i] \in IsSync => syncQ[i].num < made
      BY <2>f, <3>1 DEF OpsInOrder
    <3>3. (Syncing => syncing.num < made) /\ \A i \in DOMAIN pushed : pushed[i] < made
      BY <2>f DEF OpsInOrder
    <3> HIDE DEF n, x
    <3>4. \A i \in DOMAIN syncQ' : syncQ'[i] \in IsSync =>
            /\ syncQ'[i].num <= made
            /\ Syncing => syncing.num < syncQ'[i].num
            /\ \A j \in DOMAIN syncQ' :
                 i < j /\ syncQ'[j] \in IsSync => syncQ'[i].num < syncQ'[j].num
      <4>1. ASSUME NEW i \in 1 .. n, syncQ[i] \in IsSync, NEW j \in 1 .. n + 1, i < j,
                   syncQ'[j] \in IsSync
            PROVE  syncQ[i].num < syncQ'[j].num
        BY <4>1, <3>1, <3>2 DEF OpsInOrder
      <4>2. \A i \in 1 .. n : syncQ[i] \in IsSync =>
              syncQ[i].num <= made /\ (Syncing => syncing.num < syncQ[i].num)
        BY <3>1 DEF OpsInOrder
      <4>3. \A j \in 1 .. n + 1 : ~(n + 1 < j)
        BY <3>1
      <4> QED BY <1>t, <3>1, <3>3, <4>1, <4>2, <4>3
    <3>5. \A i \in DOMAIN pushed : \A j \in DOMAIN syncQ' :
            syncQ'[j] \in IsSync => pushed[i] < syncQ'[j].num
      BY <3>1, <3>3 DEF OpsInOrder
    <3> QED BY <2>1, <2>f, <3>4, <3>5 DEF OpsInOrder, Syncing
  <2>4. CASE ~syncOpen
    <3>1. syncQ' = syncQ
      BY <2>1, <2>4 DEF PostSync
    <3> QED BY <2>1, <2>f, <3>1 DEF OpsInOrder, Syncing
  <2> QED BY <2>3, <2>4
<1>20. CASE PassTake
  BY <1>20, <1>m DEF PassTake
<1>21. CASE PassEos
  <2>1. CASE is_eos_
    BY <1>21, <2>1, <1>p, TaskTypes DEF PassEos, Return, Fresh, PassHeld
  <2>2. CASE ~is_eos_
    BY <1>21, <2>2, <1>v DEF PassEos, Return, PassHeld
  <2> QED BY <2>1, <2>2
<1>22. CASE PassSurface
  BY <1>22, <1>u DEF PassSurface, Fresh, PassHeld
<1>23. CASE PassError
  BY <1>23, <1>v DEF PassError, Fail, Return, PassHeld
<1>24. CASE PassPush
  <2>1. /\ tpc = "passPush" /\ UNCHANGED <<made, syncQ, ypc>> /\ tpc' = "idle"
        /\ pushed' = Append(pushed, made) \/ pushed' = pushed
    BY <1>24 DEF PassPush, BufferReady, Return
  <2>2. is_passthrough_
    BY <2>1 DEF OneMode
  <2>3. /\ ~Syncing' /\ ~Fresh' /\ (\A i \in DOMAIN syncQ : syncQ[i] \notin IsSync)
        /\ \A i \in DOMAIN pushed : pushed[i] < made
    BY <2>1, <2>2 DEF OneMode, Syncing, Fresh, PassHeld, OpsInOrder
  <2> QED BY <1>t, <2>1, <2>3, <1>s
<1>25. CASE TakeRelease
  BY <1>25, <1>q DEF TakeRelease
<1>26. CASE TakeNotifyEos
  BY <1>26, <1>q DEF TakeNotifyEos
<1>27. CASE TakeSync
  <2> DEFINE h == Head(syncQ)
  <2>1. /\ syncQ # <<>> /\ h.kind = "sync" /\ syncQ' = Tail(syncQ) /\ syncing' = h
        /\ ypc = "idle" /\ ypc' = "sync" /\ UNCHANGED <<made, pushed>>
    BY <1>27 DEF TakeSync
  <2>f. Fresh' = Fresh
    BY <1>27 DEF TakeSync, Fresh
  <2>2. /\ 1 \in DOMAIN syncQ /\ h = syncQ[1] /\ h \in IsSync
        /\ \A i \in DOMAIN syncQ' :
             i \in Nat \ {0} /\ i + 1 \in DOMAIN syncQ /\ syncQ'[i] = syncQ[i + 1]
    BY <2>1, SyncTaken, TaskTypes DEF IsSync
  <2>3. /\ h.num <= made /\ (Fresh => h.num < made)
        /\ \A i \in DOMAIN syncQ' : syncQ'[i] \in IsSync => h.num < syncQ'[i].num
        /\ \A i \in DOMAIN pushed : pushed[i] < h.num
    BY <2>2 DEF OpsInOrder
  <2>4. \A i, j \in DOMAIN syncQ' : i < j => i + 1 < j + 1
    BY <2>2
  <2> HIDE DEF h
  <2> QED BY <2>1, <2>2, <2>3, <2>4, <2>f DEF OpsInOrder, Syncing
<1>28. CASE SyncDone
  BY <1>28 DEF SyncDone, OpsInOrder, Syncing, Fresh
<1>29. CASE SyncError
  <2>1. ~Syncing' /\ UNCHANGED <<made, syncQ, pushed>>
    BY <1>29 DEF SyncError, EndSync, Syncing
  <2>2. Fresh' = Fresh
    BY <1>29 DEF SyncError, EndSync, Fresh, PassHeld
  <2> QED BY <2>1, <2>2 DEF OpsInOrder
<1>30. CASE Push
  <2>1. /\ ypc = "push" /\ ypc' = "clean" /\ UNCHANGED <<made, syncQ, tpc, sts>>
        /\ pushed' = Append(pushed, syncing.num) \/ pushed' = pushed
    BY <1>30 DEF Push, BufferReady
  <2>2. /\ syncing.num <= made /\ (Fresh => syncing.num < made) /\ Fresh' = Fresh /\ ~Syncing'
        /\ \A i \in DOMAIN syncQ : syncQ[i] \in IsSync => syncing.num < syncQ[i].num
        /\ \A i \in DOMAIN pushed : pushed[i] < syncing.num
    BY <2>1 DEF OpsInOrder, Syncing, Fresh
  <2>3. syncing.num \in Nat
    BY OpTypes
  <2> QED BY <2>1, <2>2, <2>3, <1>s
<1>31. CASE Clean
  <2>1. ~Syncing' /\ UNCHANGED <<made, syncQ, pushed>>
    BY <1>31 DEF Clean, EndSync, Syncing
  <2>2. Fresh' = Fresh
    BY <1>31 DEF Clean, EndSync, Fresh, PassHeld
  <2> QED BY <2>1, <2>2 DEF OpsInOrder
<1>32. ASSUME NEW f \in Frames, Unlock(f) PROVE OpsInOrder'
  BY <1>32, <1>v DEF Unlock, PassHeld
<1>33. CASE SetPassthrough
  BY <1>33, <1>t DEF SetPassthrough
<1>34. CASE Deactivate
  BY <1>34, <1>v DEF Deactivate, Change, PassHeld
<1>35. CASE Deactivated
  BY <1>35, <1>v DEF Deactivated, Change, PassHeld
<1>36. CASE StopTaskThread
  BY <1>36, <1>v DEF StopTaskThread, Change, PassHeld
<1>37. CASE JoinTaskThread
  BY <1>37, <1>v DEF JoinTaskThread, Change, PassHeld
<1>38. CASE StopSyncThread
  BY <1>38, <1>v DEF StopSyncThread, Change, PassHeld
<1>39. CASE JoinSyncThread
  <2>1. syncQ' = <<>> /\ UNCHANGED <<made, ypc, syncing, pushed, tpc, sts>>
    BY <1>39 DEF JoinSyncThread, Change
  <2>2. Fresh' = Fresh /\ DOMAIN syncQ' = {}
    BY <2>1, EmptySeq DEF Fresh
  <2> QED BY <2>1, <2>2 DEF OpsInOrder, Syncing
<1>40. CASE FreeAll
  BY <1>40, <1>v DEF FreeAll, Change, PassHeld
<1>41. CASE UNCHANGED vars
  BY <1>41, <1>v DEF vars, PassHeld
<1> QED
  BY <1>1, <1>2, <1>3, <1>4, <1>5, <1>6, <1>7, <1>8, <1>9, <1>10, <1>11, <1>12, <1>13,
     <1>14, <1>15, <1>16, <1>17, <1>18, <1>19, <1>20, <1>21, <1>22, <1>23, <1>24, <1>25,
     <1>26, <1>27, <1>28, <1>29, <1>30, <1>31, <1>32, <1>33, <1>34, <1>35, <1>36, <1>37,
     <1>38, <1>39, <1>40, <1>41
  DEF Next, TaskStep, TaskFault, SyncStep, DisposeStep
-----------------------------------------------------------------------------
(* The end of the stream.                                                  *)

\* The end of the stream is known to who forwards it.
LEMMA EosKnownStep ==
  TypeInv /\ PhaseInv /\ FramesInOrder /\ EosKnown /\ [Next]_vars => EosKnown'
<1> SUFFICES ASSUME TypeInv, PhaseInv, FramesInOrder, EosKnown, [Next]_vars PROVE EosKnown'
  OBVIOUS
<1>t. eosSent \in BOOLEAN /\ eosOut \in BOOLEAN /\ is_eos_ \in BOOLEAN
  BY DEF TypeInv, TypeOK
<1> DEFINE Outside(pc) == pc \notin {"get", "input"} \cup Running
<1>h. input_queue_ # <<>> => Head(input_queue_) # None
  BY Taken, TaskTypes DEF TypeInv, TypeOK
<1>u. ASSUME UNCHANGED <<stream, eosOut, is_eos_, taskQ, syncQ>>,
             Outside(tpc') \/ UNCHANGED <<tpc, in_frame, input_queue_>>
      PROVE  EosKnown'
  BY <1>u DEF EosKnown, stream
<1>p. ASSUME UNCHANGED <<stream, eosOut, taskQ>>, is_eos_' => is_eos_, Outside(tpc'),
             NEW t \in Tasks, t.kind = "eos" => eosSent, syncQ' = PostSync(t)
      PROVE  EosKnown'
  <2>1. \A i \in DOMAIN syncQ' : syncQ'[i].kind = "eos" =>
          (i \in DOMAIN syncQ /\ syncQ'[i] = syncQ[i]) \/ eosSent
    BY <1>p, SyncTypes, Posted
  <2> QED BY <1>p, <2>1 DEF EosKnown, stream
<1>q. ASSUME UNCHANGED <<stream, is_eos_, taskQ, tpc, in_frame, input_queue_>>,
             syncQ # <<>>, syncQ' = Tail(syncQ),
             eosOut' => eosOut \/ Head(syncQ).kind = "eos"
      PROVE  EosKnown'
  <2>1. /\ \A i \in DOMAIN syncQ' : i + 1 \in DOMAIN syncQ /\ syncQ'[i] = syncQ[i + 1]
        /\ 1 \in DOMAIN syncQ /\ Head(syncQ) = syncQ[1]
    BY <1>q, SyncTaken
  <2> QED BY <1>q, <2>1 DEF EosKnown, stream
<1>r. ASSUME taskQ # <<>>, taskQ' = Tail(taskQ)
      PROVE  /\ \A i \in DOMAIN taskQ' : i + 1 \in DOMAIN taskQ /\ taskQ'[i] = taskQ[i + 1]
             /\ 1 \in DOMAIN taskQ /\ Head(taskQ) = taskQ[1]
  BY <1>r, FrameTypes, Taken
<1> USE DEF stream, tasks, locals, mode, vpp, syncs, syncer, downstream
<1>1. CASE Chain
  BY <1>1, <1>t DEF Chain, EosKnown, Pending
<1>2. CASE ChainTest
  BY <1>2, <1>t DEF ChainTest, EosKnown, Pending
<1>3. CASE ChainPost
  <2>1. taskQ' = Append(taskQ, sent) /\ sent # 0
    BY <1>3 DEF ChainPost, FramesInOrder, Pending
  <2>2. \A i \in DOMAIN taskQ' : taskQ'[i] = EosTask => i \in DOMAIN taskQ /\ taskQ'[i] = taskQ[i]
    BY <2>1, FrameTypes, Appended DEF EosTask
  <2> QED BY <1>3, <2>2 DEF ChainPost, EosKnown, Pending
<1>4. CASE SendEos
  BY <1>4, <1>t DEF SendEos, EosKnown, Pending
<1>5. CASE TakeFrame
  <2>1. Outside(tpc') /\ (spc' \in Pending => spc \in Pending)
    BY <1>5 DEF TakeFrame, Process, Running, Pending
  <2> QED BY <1>5, <1>r, <2>1 DEF TakeFrame, EosKnown
<1>6. CASE TakeEos
  <2>1. Outside(tpc')
    BY <1>6 DEF TakeEos, Process, Running
  <2>2. eosSent
    BY <1>6, <1>r DEF TakeEos, EosKnown
  <2> QED BY <1>6, <1>r, <2>1, <2>2 DEF TakeEos, EosKnown
<1>7. CASE LoopEnd
  BY <1>7, <1>u DEF LoopEnd, Return, Running
<1>8. CASE LoopNext
  BY <1>8 DEF LoopNext, EosKnown, Running
<1>9. CASE GetSurface
  BY <1>9 DEF GetSurface, EosKnown, Running
<1>10. CASE NoSurface
  BY <1>10, <1>u DEF NoSurface, Fail, Return, Running
<1>11. CASE TakeInput
  BY <1>11, <1>h DEF TakeInput, EosKnown, Running
<1>12. CASE RunBusy
  BY <1>12 DEF RunBusy, EosKnown, Running
<1>13. CASE BusyTest
  BY <1>13 DEF BusyTest, EosKnown, Running
<1>14. CASE RunFrame
  BY <1>14, <1>u DEF RunFrame, Running, Return
<1>15. CASE RunMoreData
  BY <1>15, <1>u DEF RunMoreData, Running, Return
<1>16. CASE RunDrained
  <2>1. /\ syncQ' = PostSync(NotifyEos) /\ Outside(tpc') /\ ~is_eos_'
        /\ UNCHANGED <<stream, taskQ, eosOut>> /\ is_eos_
    BY <1>16 DEF RunDrained, Return, Running, EosKnown
  <2>2. eosSent
    BY <2>1 DEF EosKnown
  <2> QED BY <1>p, <2>1, <2>2, TaskTypes
<1>17. CASE RunError
  BY <1>17, <1>u DEF RunError, Fail, Return, Running
<1>18. CASE ReleaseInputSurface
  <2>1. /\ UNCHANGED <<stream, eosOut, is_eos_, taskQ>> /\ Outside(tpc')
        /\ syncQ' = IF in_frame \in locked THEN PostSync(Release(in_frame)) ELSE syncQ
    BY <1>18 DEF ReleaseInputSurface, Running
  <2>2. CASE in_frame \in locked
    <3>1. Release(in_frame) \in Tasks /\ Release(in_frame).kind # "eos"
      BY <2>2, TaskTypes DEF TypeInv, TypeOK, Release
    <3> QED BY <1>p, <2>1, <2>2, <3>1
  <2>3. CASE in_frame \notin locked
    BY <1>u, <2>1, <2>3
  <2> QED BY <2>2, <2>3
<1>19. CASE Submit
  <2>1. /\ UNCHANGED <<stream, eosOut, is_eos_, taskQ>> /\ Outside(tpc')
        /\ syncQ' = PostSync(SyncOp(out_frame, made))
    BY <1>19 DEF Submit, Running
  <2>2. SyncOp(out_frame, made) \in Tasks /\ SyncOp(out_frame, made).kind # "eos"
    BY TaskTypes DEF TypeInv, TypeOK, SyncOp
  <2> QED BY <1>p, <2>1, <2>2
<1>20. CASE PassTake
  BY <1>20, <1>u DEF PassTake, Running, Return
<1>21. CASE PassEos
  <2>1. /\ syncQ' = IF is_eos_ THEN PostSync(NotifyEos) ELSE syncQ
        /\ Outside(tpc') /\ UNCHANGED <<stream, taskQ, eosOut, is_eos_>>
    BY <1>21 DEF PassEos, Return, Running
  <2>2. is_eos_ => eosSent
    BY DEF EosKnown
  <2>3. CASE is_eos_
    BY <1>p, <2>1, <2>2, <2>3, TaskTypes
  <2>4. CASE ~is_eos_
    BY <1>u, <2>1, <2>4
  <2> QED BY <2>3, <2>4
<1>22. CASE PassSurface
  BY <1>22, <1>u DEF PassSurface, Running, Return
<1>23. CASE PassError
  BY <1>23, <1>u DEF PassError, Fail, Return, Running
<1>24. CASE PassPush
  BY <1>24, <1>u DEF PassPush, Running, Return
<1>25. CASE TakeRelease
  BY <1>25, <1>q DEF TakeRelease
<1>26. CASE TakeNotifyEos
  BY <1>26, <1>q DEF TakeNotifyEos
<1>27. CASE TakeSync
  BY <1>27, <1>q DEF TakeSync
<1>28. CASE SyncDone
  BY <1>28, <1>u DEF SyncDone, Running
<1>29. CASE SyncError
  BY <1>29 DEF SyncError, EndSync, EosKnown, Running
<1>30. CASE Push
  BY <1>30, <1>u DEF Push, Running
<1>31. CASE Clean
  BY <1>31 DEF Clean, EndSync, EosKnown, Running
<1>32. ASSUME NEW f \in Frames, Unlock(f) PROVE EosKnown'
  BY <1>32, <1>u DEF Unlock, Running
<1>33. CASE SetPassthrough
  BY <1>33, <1>u DEF SetPassthrough, Running
<1>34. CASE Deactivate
  BY <1>34, <1>u DEF Deactivate, Change, Running
<1>35. CASE Deactivated
  BY <1>35, <1>u DEF Deactivated, Change, Running
<1>36. CASE StopTaskThread
  BY <1>36, <1>u DEF StopTaskThread, Change, Running
<1>37. CASE JoinTaskThread
  <2>1. DOMAIN <<>> = {}
    BY EmptySeq
  <2> QED BY <1>37, <2>1 DEF JoinTaskThread, Change, EosKnown
<1>38. CASE StopSyncThread
  BY <1>38, <1>u DEF StopSyncThread, Change, Running
<1>39. CASE JoinSyncThread
  <2>1. DOMAIN <<>> = {}
    BY EmptySeq
  <2> QED BY <1>39, <2>1 DEF JoinSyncThread, Change, EosKnown
<1>40. CASE FreeAll
  BY <1>40, <1>u DEF FreeAll, Change, Running
<1>41. CASE UNCHANGED vars
  BY <1>41, <1>u DEF vars, Running
<1> QED
  BY <1>1, <1>2, <1>3, <1>4, <1>5, <1>6, <1>7, <1>8, <1>9, <1>10, <1>11, <1>12, <1>13,
     <1>14, <1>15, <1>16, <1>17, <1>18, <1>19, <1>20, <1>21, <1>22, <1>23, <1>24, <1>25,
     <1>26, <1>27, <1>28, <1>29, <1>30, <1>31, <1>32, <1>33, <1>34, <1>35, <1>36, <1>37,
     <1>38, <1>39, <1>40, <1>41
  DEF Next, TaskStep, TaskFault, SyncStep, DisposeStep

\* What disturbs the stream does so for the rest of the element's life.
LEMMA StillUndisturbed == TypeInv /\ [Next]_vars /\ Undisturbed' => Undisturbed
<1> SUFFICES ASSUME TypeInv, [Next]_vars, Undisturbed' PROVE Undisturbed
  OBVIOUS
<1> USE DEF Undisturbed, stream, tasks, locals, mode, vpp, syncs, syncer, downstream
<1>1. CASE SetPassthrough
  BY <1>1, FramesAssumption DEF SetPassthrough, TypeInv, TypeOK
<1>2. CASE Deactivate \/ Deactivated \/ StopTaskThread \/ DisposeStep
  BY <1>2 DEF Deactivate, Deactivated, StopTaskThread, DisposeStep, JoinTaskThread,
     StopSyncThread, JoinSyncThread, FreeAll, Change
<1>3. CASE Chain \/ ChainTest \/ ChainPost \/ SendEos
  BY <1>3 DEF Chain, ChainTest, ChainPost, SendEos
<1>4. CASE TakeFrame \/ TakeEos \/ LoopEnd \/ LoopNext \/ GetSurface \/ TakeInput \/ RunBusy
             \/ BusyTest
  BY <1>4 DEF TakeFrame, TakeEos, LoopEnd, LoopNext, GetSurface, TakeInput, RunBusy, BusyTest
<1>5. CASE RunFrame \/ RunMoreData \/ RunDrained \/ ReleaseInputSurface \/ Submit
  BY <1>5 DEF RunFrame, RunMoreData, RunDrained, ReleaseInputSurface, Submit
<1>6. CASE PassTake \/ PassEos \/ PassSurface \/ PassPush
  BY <1>6 DEF PassTake, PassEos, PassSurface, PassPush, BufferReady
<1>7. CASE TaskFault
  BY <1>7 DEF TaskFault, NoSurface, RunError, PassError, Fail
<1>8. CASE SyncStep
  BY <1>8 DEF SyncStep, TakeRelease, TakeNotifyEos, TakeSync, SyncDone, SyncError, Push,
     Clean, EndSync, BufferReady
<1>9. ASSUME NEW f \in Frames, Unlock(f) PROVE Undisturbed
  BY <1>9 DEF Unlock
<1>10. CASE UNCHANGED vars
  BY <1>10 DEF vars
<1> QED BY <1>1, <1>2, <1>3, <1>4, <1>5, <1>6, <1>7, <1>8, <1>9, <1>10 DEF Next, TaskStep

\* The end of the stream stays last in both queues, and nothing follows it.
LEMMA EosLastStep ==
  ASSUME TypeInv, PhaseInv, FramesInOrder, OneMode, EosKnown, EosLast, [Next]_vars,
         Undisturbed, Undisturbed'
  PROVE  EosLast'
<1>o. /\ switches' = 0 /\ switches = 0 /\ elem = "playing" /\ elem' = "playing"
      /\ failures = {} /\ failures' = {} /\ taskOpen /\ syncOpen
  BY DEF Undisturbed, PhaseInv
<1>t. eosSent \in BOOLEAN /\ eosOut \in BOOLEAN /\ is_eos_ \in BOOLEAN /\ is_passthrough_ \in BOOLEAN
  BY DEF TypeInv, TypeOK
<1>n. ASSUME ~Drained PROVE eosOut = FALSE /\ \A i \in DOMAIN syncQ : syncQ[i].kind # "eos"
  BY <1>n, <1>t DEF EosLast
<1>u. ASSUME ~Drained, UNCHANGED <<taskQ, is_eos_, syncQ, eosOut>>,
             tpc' \in {"idle", "passGet", "passPush"} => input_queue_' = <<>>, tpc' # "pass"
      PROVE  EosLast'
  BY <1>u, <1>n DEF EosLast
<1>p. ASSUME ~Drained, UNCHANGED <<taskQ, is_eos_, eosOut>>,
             tpc' \in {"loop", "submit"}, NEW t \in Tasks, t.kind # "eos", syncQ' = PostSync(t)
      PROVE  EosLast'
  <2>1. \A i \in DOMAIN syncQ' : syncQ'[i].kind # "eos"
    BY <1>p, <1>n, <1>o, SyncTypes, Posted
  <2> QED BY <1>p, <1>n, <2>1 DEF EosLast
<1>e. ASSUME ~Drained, Drained', UNCHANGED <<taskQ, eosOut>>, syncQ' = PostSync(NotifyEos),
             is_eos_' => is_eos_
      PROVE  EosLast'
  <2>1. \A i \in DOMAIN syncQ' : syncQ'[i].kind = "eos" => i = Len(syncQ')
    BY <1>n, <1>o, <1>e, SyncTypes, Posted, TaskTypes
  <2>2. taskQ' = taskQ /\ tpc' = "idle" /\ input_queue_' = <<>> /\ eosOut' = FALSE
    BY <1>e, <1>n DEF Drained
  <2> QED BY <1>e, <2>1, <2>2 DEF EosLast
<1>q. ASSUME UNCHANGED <<tasks, is_eos_, input_queue_, eosSent, eosOut, owed, tpc, is_passthrough_>>,
             syncQ # <<>>, syncQ' = Tail(syncQ)
      PROVE  EosLast'
  <2>1. /\ Len(syncQ) \in Nat \ {0} /\ Len(syncQ') = Len(syncQ) - 1
        /\ \A i \in DOMAIN syncQ' :
             i \in Nat /\ i + 1 \in DOMAIN syncQ /\ syncQ'[i] = syncQ[i + 1]
    BY <1>q, SyncTaken
  <2>2. \A i \in DOMAIN syncQ' : syncQ'[i].kind = "eos" => i = Len(syncQ') /\ Drained'
    BY <1>q, <2>1 DEF EosLast, Drained, tasks
  <2>3. ~eosOut
    BY <1>q DEF EosLast
  <2> QED BY <1>q, <2>2, <2>3 DEF EosLast, tasks
<1>r. ASSUME taskQ # <<>>, taskQ' = Tail(taskQ)
      PROVE  /\ Len(taskQ) \in Nat \ {0} /\ Len(taskQ') = Len(taskQ) - 1
             /\ \A i \in DOMAIN taskQ' :
                  i \in Nat /\ i + 1 \in DOMAIN taskQ /\ taskQ'[i] = taskQ[i + 1]
             /\ 1 \in DOMAIN taskQ /\ Head(taskQ) = taskQ[1]
             /\ Len(taskQ) = 1 => taskQ' = <<>>
             /\ \A i \in DOMAIN taskQ' : taskQ'[i] = EosTask => i = Len(taskQ')
             /\ ~Drained /\ ~is_eos_ /\ UNCHANGED syncQ => \A i \in DOMAIN syncQ' : syncQ'[i].kind # "eos"
  <2>1. /\ Len(taskQ) \in Nat \ {0} /\ Len(taskQ') = Len(taskQ) - 1
        /\ \A i \in DOMAIN taskQ' :
             i \in Nat /\ i + 1 \in DOMAIN taskQ /\ taskQ'[i] = taskQ[i + 1]
        /\ 1 \in DOMAIN taskQ /\ Head(taskQ) = taskQ[1] /\ taskQ' \in Seq(Nat)
    BY <1>r, FrameTypes, Taken
  <2>2. Len(taskQ) = 1 => taskQ' = <<>>
    BY <2>1, EmptySeq
  <2>3. \A i \in DOMAIN taskQ' : taskQ'[i] = EosTask => i = Len(taskQ')
    BY <2>1 DEF EosLast
  <2> QED BY <1>n, <2>1, <2>2, <2>3
<1> USE DEF stream, tasks, locals, mode, vpp, syncs, syncer, downstream
<1>1. CASE Chain
  BY <1>1 DEF Chain, EosLast, Drained
<1>2. CASE ChainTest
  BY <1>2 DEF ChainTest, EosLast, Drained
<1>3. CASE ChainPost
  <2>1. /\ taskQ' = Append(taskQ, sent) /\ ~eosSent /\ sent # EosTask
        /\ UNCHANGED <<eosSent, is_eos_, input_queue_, tpc, syncQ, eosOut>>
    BY <1>3, <1>o, <1>t DEF ChainPost, EosKnown, FramesInOrder, Pending, EosTask
  <2>2. ~Drained /\ ~is_eos_
    BY <2>1 DEF Drained, EosKnown
  <2>3. \A i \in DOMAIN taskQ' : taskQ'[i] # EosTask
    <3>1. \A i \in DOMAIN taskQ : taskQ[i] # EosTask
      BY <2>1 DEF EosKnown
    <3> QED BY <2>1, <3>1, FrameTypes, Appended
  <2> QED BY <1>n, <2>1, <2>2, <2>3 DEF EosLast
<1>4. CASE SendEos
  <2>1. /\ taskQ' = Append(taskQ, EosTask) /\ ~eosSent
        /\ UNCHANGED <<is_eos_, input_queue_, tpc, syncQ, eosOut>>
    BY <1>4, <1>o, <1>t DEF SendEos
  <2>2. ~Drained /\ ~is_eos_
    BY <2>1 DEF Drained, EosKnown
  <2>3. \A i \in DOMAIN taskQ' : taskQ'[i] = EosTask => i = Len(taskQ')
    <3>1. \A i \in DOMAIN taskQ : taskQ[i] # EosTask
      BY <2>1 DEF EosKnown
    <3> QED BY <2>1, <3>1, FrameTypes, Appended DEF EosTask
  <2> QED BY <1>n, <2>1, <2>2, <2>3 DEF EosLast
<1>5. CASE TakeFrame
  <2>1. /\ taskQ # <<>> /\ taskQ' = Tail(taskQ) /\ tpc' \in {"loop", "pass"} /\ tpc = "idle"
        /\ input_queue_' = Append(input_queue_, Head(taskQ))
        /\ UNCHANGED <<is_eos_, syncQ, eosOut>>
    BY <1>5 DEF TakeFrame, Process
  <2>2. ~Drained /\ ~is_eos_ /\ input_queue_ = <<>>
    BY <2>1, <1>t DEF Drained, EosLast
  <2>3. Len(input_queue_') <= 1
    <3>1. Len(input_queue_) = 0 /\ Head(taskQ) \in Nat
      BY <2>1, <2>2, EmptySeq, FrameTypes, Taken
    <3>2. Len(input_queue_') = Len(input_queue_) + 1
      BY <2>1, <3>1, FrameTypes, Appended
    <3> QED BY <3>1, <3>2
  <2> QED BY <1>n, <1>r, <2>1, <2>2, <2>3 DEF EosLast
<1>6. CASE TakeEos
  <2>1. /\ taskQ # <<>> /\ taskQ' = Tail(taskQ) /\ tpc' \in {"loop", "pass"} /\ tpc = "idle"
        /\ Head(taskQ) = EosTask /\ UNCHANGED <<input_queue_, syncQ, eosOut>>
    BY <1>6 DEF TakeEos, Process
  <2>2. ~Drained /\ input_queue_ = <<>> /\ Len(input_queue_) = 0
    BY <2>1, <1>t, EmptySeq DEF Drained, EosLast
  <2>3. taskQ' = <<>>
    BY <1>r, <2>1 DEF EosLast
  <2> QED BY <1>n, <1>r, <2>1, <2>2, <2>3 DEF EosLast
<1>7. CASE LoopEnd
  BY <1>7, <1>u DEF LoopEnd, Return, Drained
<1>8. CASE LoopNext
  BY <1>8, <1>u DEF LoopNext, Drained
<1>9. CASE GetSurface
  BY <1>9, <1>u DEF GetSurface, Drained
<1>10. CASE NoSurface
  BY <1>10, <1>o DEF NoSurface, Fail
<1>11. CASE TakeInput
  BY <1>11, <1>u DEF TakeInput, Drained
<1>12. CASE RunBusy
  BY <1>12, <1>u DEF RunBusy, Drained
<1>13. CASE BusyTest
  BY <1>13, <1>u DEF BusyTest, Drained
<1>14. CASE RunFrame
  BY <1>14, <1>u DEF RunFrame, LockInput, Drained
<1>15. CASE RunMoreData
  BY <1>15, <1>u DEF RunMoreData, LockInput, Drained
<1>16. CASE RunDrained
  <2>1. /\ tpc = "run" /\ in_frame = None /\ owed = 0 /\ tpc' = "idle" /\ is_eos_' = FALSE
        /\ UNCHANGED <<eosSent, taskQ, input_queue_, owed, eosOut>>
        /\ syncQ' = PostSync(NotifyEos)
    BY <1>16 DEF RunDrained, Return
  <2>2. is_eos_ /\ input_queue_ = <<>>
    BY <2>1 DEF EosKnown, Running
  <2>3. taskQ = <<>> /\ eosSent
    BY <2>2 DEF EosKnown, EosLast
  <2>4. ~Drained /\ Drained'
    BY <2>1, <2>2, <2>3 DEF Drained
  <2> QED BY <1>e, <2>1, <2>4
<1>17. CASE RunError
  BY <1>17, <1>o DEF RunError, Fail
<1>18. CASE ReleaseInputSurface
  <2>1. /\ UNCHANGED <<taskQ, is_eos_, eosOut>>
        /\ tpc' \in {"loop", "submit"} /\ ~Drained
        /\ syncQ' = IF in_frame \in locked THEN PostSync(Release(in_frame)) ELSE syncQ
    BY <1>18 DEF ReleaseInputSurface, Drained
  <2>2. CASE in_frame \in locked
    <3>1. Release(in_frame) \in Tasks /\ Release(in_frame).kind # "eos"
      BY <2>2, TaskTypes DEF TypeInv, TypeOK, Release
    <3> QED BY <1>p, <2>1, <2>2, <3>1
  <2>3. CASE in_frame \notin locked
    BY <1>u, <2>1, <2>3
  <2> QED BY <2>2, <2>3
<1>19. CASE Submit
  <2>1. /\ UNCHANGED <<taskQ, is_eos_, eosOut>>
        /\ tpc' = "loop" /\ ~Drained /\ syncQ' = PostSync(SyncOp(out_frame, made))
    BY <1>19 DEF Submit, Drained
  <2>2. SyncOp(out_frame, made) \in Tasks /\ SyncOp(out_frame, made).kind # "eos"
    BY TaskTypes DEF TypeInv, TypeOK, SyncOp
  <2> QED BY <1>p, <2>1, <2>2
<1>20. CASE PassTake
  <2>1. /\ tpc = "pass" /\ input_queue_ # <<>> /\ input_queue_' = Tail(input_queue_)
        /\ UNCHANGED <<taskQ, is_eos_, syncQ, eosOut>> /\ tpc' # "pass"
    BY <1>20 DEF PassTake
  <2>2. input_queue_' = <<>>
    <3>1. Len(input_queue_) = 1
      BY <2>1, FrameTypes, EmptySeq DEF EosLast
    <3>2. Len(input_queue_') = 0 /\ input_queue_' \in Seq(Nat)
      BY <2>1, <3>1, FrameTypes, Taken
    <3> QED BY <3>2, EmptySeq
  <2> QED BY <1>u, <2>1, <2>2 DEF Drained
<1>21. CASE PassEos
  <2>1. /\ tpc = "pass" /\ input_queue_ = <<>> /\ tpc' = "idle"
        /\ UNCHANGED <<eosSent, taskQ, input_queue_, is_eos_, is_passthrough_, eosOut>>
        /\ syncQ' = IF is_eos_ THEN PostSync(NotifyEos) ELSE syncQ
    BY <1>21 DEF PassEos, Return
  <2>2. is_passthrough_ /\ ~Drained
    BY <2>1, <1>t DEF OneMode, Drained
  <2>3. CASE is_eos_
    <3>1. taskQ = <<>> /\ eosSent
      BY <2>3 DEF EosKnown, EosLast
    <3>2. Drained'
      BY <2>1, <2>2, <3>1 DEF Drained
    <3> QED BY <1>e, <2>1, <2>2, <2>3, <3>2
  <2>4. CASE ~is_eos_
    BY <1>u, <2>1, <2>2, <2>4
  <2> QED BY <2>3, <2>4
<1>22. CASE PassSurface
  BY <1>22, <1>u DEF PassSurface, Return, Drained, EosLast
<1>23. CASE PassError
  BY <1>23, <1>o DEF PassError, Fail
<1>24. CASE PassPush
  BY <1>24, <1>u DEF PassPush, Return, Drained, EosLast
<1>25. CASE TakeRelease
  BY <1>25, <1>q DEF TakeRelease
<1>26. CASE TakeNotifyEos
  <2>1. /\ UNCHANGED <<eosSent, taskQ, input_queue_, is_eos_, owed, tpc, ypc, is_passthrough_>>
        /\ syncQ # <<>> /\ syncQ' = Tail(syncQ) /\ Head(syncQ).kind = "eos" /\ ypc = "idle"
    BY <1>26 DEF TakeNotifyEos
  <2>2. /\ 1 \in DOMAIN syncQ /\ syncQ[1].kind = "eos" /\ syncQ' \in Seq(Tasks)
        /\ Len(syncQ') = Len(syncQ) - 1
    BY <2>1, SyncTypes, Taken
  <2>3. Len(syncQ) = 1 /\ Drained
    BY <2>2 DEF EosLast
  <2>4. syncQ' = <<>> /\ Drained' /\ DOMAIN syncQ' = {}
    BY <2>1, <2>2, <2>3, EmptySeq DEF Drained
  <2> QED BY <2>1, <2>4 DEF EosLast
<1>27. CASE TakeSync
  BY <1>27, <1>q DEF TakeSync, EosLast
<1>28. CASE SyncDone
  BY <1>28 DEF SyncDone, EosLast, Drained
<1>29. CASE SyncError
  BY <1>29, <1>o DEF SyncError, Fail
<1>30. CASE Push
  BY <1>30 DEF Push, EosLast, Drained
<1>31. CASE Clean
  BY <1>31 DEF Clean, EndSync, EosLast, Drained
<1>32. ASSUME NEW f \in Frames, Unlock(f) PROVE EosLast'
  BY <1>32 DEF Unlock, EosLast, Drained
<1>33. CASE SetPassthrough
  BY <1>33, <1>o DEF SetPassthrough
<1>34. CASE Deactivate
  BY <1>34, <1>o DEF Deactivate, Change
<1>35. CASE Deactivated
  BY <1>35, <1>o DEF Deactivated, Change
<1>36. CASE StopTaskThread
  BY <1>36, <1>o DEF StopTaskThread, Change
<1>37. CASE JoinTaskThread
  BY <1>37, <1>o DEF JoinTaskThread, Change
<1>38. CASE StopSyncThread
  BY <1>38, <1>o DEF StopSyncThread, Change
<1>39. CASE JoinSyncThread
  BY <1>39, <1>o DEF JoinSyncThread, Change
<1>40. CASE FreeAll
  BY <1>40, <1>o DEF FreeAll, Change
<1>41. CASE UNCHANGED vars
  BY <1>41 DEF vars, EosLast, Drained
<1> QED
  BY <1>1, <1>2, <1>3, <1>4, <1>5, <1>6, <1>7, <1>8, <1>9, <1>10, <1>11, <1>12, <1>13,
     <1>14, <1>15, <1>16, <1>17, <1>18, <1>19, <1>20, <1>21, <1>22, <1>23, <1>24, <1>25,
     <1>26, <1>27, <1>28, <1>29, <1>30, <1>31, <1>32, <1>33, <1>34, <1>35, <1>36, <1>37,
     <1>38, <1>39, <1>40, <1>41
  DEF Next, TaskStep, TaskFault, SyncStep, DisposeStep
-----------------------------------------------------------------------------
(* Nothing is lost.                                                        *)

\* The frames made are those pushed, syncing, queued and new.
LEMMA OpsCountedStep ==
  ASSUME TypeInv, PhaseInv, OpsCounted, [Next]_vars, Undisturbed, Undisturbed'
  PROVE  OpsCounted'
<1>o. /\ switches' = 0 /\ switches = 0 /\ elem = "playing" /\ elem' = "playing"
      /\ failures = {} /\ failures' = {} /\ syncOpen
  BY DEF Undisturbed, PhaseInv
<1> DEFINE Posts == Num(syncQ, Len(syncQ), IsSync)
<1>t. Posts \in Nat /\ Posts' \in Nat /\ Len(pushed) \in Nat /\ made \in Nat
  <2>1. syncQ' \in Seq(Tasks)
    BY TypeStep DEF TypeInv
  <2>2. Len(syncQ') \in Nat
    BY <2>1, LenProperties
  <2>3. Posts' \in Nat
    BY <2>2, NumType
  <2> QED BY <2>3, SyncTypes, OpTypes
<1>u. ASSUME UNCHANGED <<made, syncQ, ypc, pushed>>, Fresh' <=> Fresh PROVE OpsCounted'
  BY <1>u DEF OpsCounted, Syncing, One
<1>v. ASSUME UNCHANGED <<made, syncQ, ypc, pushed>>,
             UNCHANGED <<tpc, sts>> \/ (~Fresh /\ tpc' \notin {"release", "submit"} \cup PassHeld)
      PROVE  OpsCounted'
  BY <1>u, <1>v DEF Fresh
<1>m. ASSUME UNCHANGED <<syncQ, ypc, pushed>>, made' = made + 1, ~Fresh, Fresh' PROVE OpsCounted'
  BY <1>m, <1>t DEF OpsCounted, Syncing, One
<1>p. ASSUME UNCHANGED <<made, ypc, pushed>>, Fresh' <=> Fresh,
             NEW t \in Tasks, t \notin IsSync, syncQ' = PostSync(t)
      PROVE  OpsCounted'
  <2>1. Posts' = Posts
    BY <1>o, <1>p, <1>t, Posted DEF One
  <2> QED BY <1>p, <2>1 DEF OpsCounted, Syncing, One
<1>q. ASSUME UNCHANGED <<made, ypc, pushed, tpc, sts>>,
             syncQ # <<>>, syncQ' = Tail(syncQ), Head(syncQ) \notin IsSync
      PROVE  OpsCounted'
  <2>1. Posts' = Posts
    BY <1>q, <1>t, SyncTaken DEF One
  <2>2. Fresh' <=> Fresh
    BY <1>q DEF Fresh
  <2> QED BY <1>q, <2>1, <2>2 DEF OpsCounted, Syncing, One
<1> USE DEF stream, tasks, locals, mode, vpp, syncs, syncer, downstream
<1>1. CASE Chain
  BY <1>1, <1>v DEF Chain, Fresh, PassHeld
<1>2. CASE ChainTest
  BY <1>2, <1>v DEF ChainTest, Fresh, PassHeld
<1>3. CASE ChainPost
  BY <1>3, <1>v DEF ChainPost, Fresh, PassHeld
<1>4. CASE SendEos
  BY <1>4, <1>v DEF SendEos, Fresh, PassHeld
<1>5. CASE TakeFrame
  BY <1>5, <1>v DEF TakeFrame, Process, Fresh, PassHeld
<1>6. CASE TakeEos
  BY <1>6, <1>v DEF TakeEos, Process, Fresh, PassHeld
<1>7. CASE LoopEnd
  BY <1>7, <1>v DEF LoopEnd, Return, Fresh, PassHeld
<1>8. CASE LoopNext
  BY <1>8, <1>v DEF LoopNext, Fresh, PassHeld
<1>9. CASE GetSurface
  BY <1>9, <1>v DEF GetSurface, Fresh, PassHeld
<1>10. CASE NoSurface
  BY <1>10, <1>o DEF NoSurface, Fail
<1>11. CASE TakeInput
  BY <1>11, <1>v DEF TakeInput, Fresh, PassHeld
<1>12. CASE RunBusy
  BY <1>12, <1>v DEF RunBusy, Fresh, PassHeld
<1>13. CASE BusyTest
  BY <1>13, <1>v DEF BusyTest, Fresh, PassHeld
<1>14. CASE RunFrame
  <2>1. ~Fresh /\ Fresh'
    BY <1>14 DEF RunFrame, Fresh, PassHeld
  <2> QED BY <1>14, <1>m, <2>1 DEF RunFrame
<1>15. CASE RunMoreData
  BY <1>15, <1>u DEF RunMoreData, Fresh, PassHeld
<1>16. CASE RunDrained
  BY <1>16, <1>p, TaskTypes DEF RunDrained, Return, Fresh, PassHeld
<1>17. CASE RunError
  BY <1>17, <1>o DEF RunError, Fail
<1>18. CASE ReleaseInputSurface
  <2>1. UNCHANGED <<made, ypc, pushed>> /\ (Fresh' <=> Fresh)
    BY <1>18 DEF ReleaseInputSurface, Fresh, PassHeld
  <2>2. CASE in_frame \in locked
    <3>1. Release(in_frame) \in Tasks /\ Release(in_frame) \notin IsSync
      BY <2>2, TaskTypes DEF TypeInv, TypeOK
    <3> QED BY <1>18, <2>1, <2>2, <3>1, <1>p DEF ReleaseInputSurface
  <2>3. CASE in_frame \notin locked
    BY <1>18, <2>1, <2>3, <1>u DEF ReleaseInputSurface
  <2> QED BY <2>2, <2>3
<1>19. CASE Submit
  <2>1. /\ syncQ' = PostSync(SyncOp(out_frame, made)) /\ UNCHANGED <<made, ypc, pushed>>
        /\ Fresh /\ ~Fresh'
    BY <1>19 DEF Submit, Fresh, PassHeld
  <2>2. SyncOp(out_frame, made) \in Tasks /\ SyncOp(out_frame, made) \in IsSync
    BY TaskTypes DEF TypeInv, TypeOK
  <2>3. Posts' = Posts + 1
    BY <1>o, <1>t, <2>1, <2>2, Posted DEF One
  <2> QED BY <1>t, <2>1, <2>3 DEF OpsCounted, Syncing, One
<1>20. CASE PassTake
  <2>1. ~Fresh /\ Fresh'
    BY <1>20 DEF PassTake, Fresh, PassHeld
  <2> QED BY <1>20, <1>m, <2>1 DEF PassTake
<1>21. CASE PassEos
  <2>1. CASE is_eos_
    BY <1>21, <2>1, <1>p, TaskTypes DEF PassEos, Return, Fresh, PassHeld
  <2>2. CASE ~is_eos_
    BY <1>21, <2>2, <1>v DEF PassEos, Return, Fresh, PassHeld
  <2> QED BY <2>1, <2>2
<1>22. CASE PassSurface
  BY <1>22, <1>u DEF PassSurface, Fresh, PassHeld
<1>23. CASE PassError
  BY <1>23, <1>o DEF PassError, Fail
<1>24. CASE PassPush
  <2>1. /\ pushed' = Append(pushed, made) /\ UNCHANGED <<made, ypc, syncQ>>
        /\ Fresh /\ ~Fresh'
    BY <1>24, <1>o DEF PassPush, BufferReady, Return, Fresh, PassHeld
  <2>2. Len(pushed') = Len(pushed) + 1
    BY <2>1, OpTypes, Appended
  <2> QED BY <1>t, <2>1, <2>2 DEF OpsCounted, Syncing, One
<1>25. CASE TakeRelease
  BY <1>25, <1>q DEF TakeRelease, IsSync
<1>26. CASE TakeNotifyEos
  BY <1>26, <1>q DEF TakeNotifyEos, IsSync
<1>27. CASE TakeSync
  <2>1. /\ syncQ # <<>> /\ Head(syncQ).kind = "sync" /\ syncQ' = Tail(syncQ)
        /\ ~Syncing /\ Syncing' /\ UNCHANGED <<made, pushed>>
    BY <1>27 DEF TakeSync, Syncing
  <2>2. Head(syncQ) \in IsSync
    BY <2>1, SyncTaken, TaskTypes DEF IsSync
  <2>3. Posts = Posts' + 1
    BY <1>t, <2>1, <2>2, SyncTaken DEF One
  <2>4. Fresh' <=> Fresh
    BY <1>27 DEF TakeSync, Fresh
  <2> QED BY <1>t, <2>1, <2>3, <2>4 DEF OpsCounted, One
<1>28. CASE SyncDone
  BY <1>28 DEF SyncDone, OpsCounted, Syncing, Fresh, One
<1>29. CASE SyncError
  BY <1>29, <1>o DEF SyncError, Fail
<1>30. CASE Push
  <2>1. /\ pushed' = Append(pushed, syncing.num) /\ UNCHANGED <<made, syncQ>>
        /\ Syncing /\ ~Syncing'
    BY <1>30, <1>o DEF Push, BufferReady, Syncing
  <2>2. Len(pushed') = Len(pushed) + 1
    BY <2>1, OpTypes, Appended
  <2>3. Fresh' <=> Fresh
    BY <1>30 DEF Push, Fresh
  <2> QED BY <1>t, <2>1, <2>2, <2>3 DEF OpsCounted, One
<1>31. CASE Clean
  <2>1. ~Syncing /\ ~Syncing' /\ UNCHANGED <<made, syncQ, pushed>>
    BY <1>31 DEF Clean, EndSync, Syncing
  <2>2. Fresh' <=> Fresh
    BY <1>31 DEF Clean, EndSync, Fresh, PassHeld
  <2> QED BY <2>1, <2>2 DEF OpsCounted, One
<1>32. ASSUME NEW f \in Frames, Unlock(f) PROVE OpsCounted'
  BY <1>32, <1>v DEF Unlock, Fresh, PassHeld
<1>33. CASE SetPassthrough
  BY <1>33, <1>o DEF SetPassthrough
<1>34. CASE Deactivate
  BY <1>34, <1>o DEF Deactivate, Change
<1>35. CASE Deactivated
  BY <1>35, <1>o DEF Deactivated, Change
<1>36. CASE StopTaskThread
  BY <1>36, <1>o DEF StopTaskThread, Change
<1>37. CASE JoinTaskThread
  BY <1>37, <1>o DEF JoinTaskThread, Change
<1>38. CASE StopSyncThread
  BY <1>38, <1>o DEF StopSyncThread, Change
<1>39. CASE JoinSyncThread
  BY <1>39, <1>o DEF JoinSyncThread, Change
<1>40. CASE FreeAll
  BY <1>40, <1>o DEF FreeAll, Change
<1>41. CASE UNCHANGED vars
  BY <1>41, <1>v DEF vars, Fresh, PassHeld
<1> QED
  BY <1>1, <1>2, <1>3, <1>4, <1>5, <1>6, <1>7, <1>8, <1>9, <1>10, <1>11, <1>12, <1>13,
     <1>14, <1>15, <1>16, <1>17, <1>18, <1>19, <1>20, <1>21, <1>22, <1>23, <1>24, <1>25,
     <1>26, <1>27, <1>28, <1>29, <1>30, <1>31, <1>32, <1>33, <1>34, <1>35, <1>36, <1>37,
     <1>38, <1>39, <1>40, <1>41
  DEF Next, TaskStep, TaskFault, SyncStep, DisposeStep

\* The frames received are those made, owed, queued and on their way.
LEMMA FramesCountedStep ==
  ASSUME TypeInv, PhaseInv, FramesInOrder, OneMode, FramesCounted, [Next]_vars,
         Undisturbed, Undisturbed'
  PROVE  FramesCounted'
<1>o. /\ switches' = 0 /\ switches = 0 /\ elem = "playing" /\ elem' = "playing"
      /\ failures = {} /\ failures' = {}
  BY DEF Undisturbed
<1> DEFINE Posts == Num(taskQ, Len(taskQ), Frames)
           Waiting == One(spc \in Pending)
<1>q. taskQ \in Seq(Frames \cup {EosTask}) /\ input_queue_ \in Seq(Frames) /\ EosTask \notin Frames
      /\ None \notin Frames
  BY TaskTypes, FramesAssumption DEF TypeInv, TypeOK, Frames, EosTask
<1>t. /\ Len(input_queue_) \in Nat /\ Posts \in Nat /\ Waiting \in Nat /\ Queued \in Nat
      /\ sent \in Nat /\ made \in Nat /\ owed \in Nat /\ Rate \in Nat /\ Given \in Int
      /\ is_passthrough_ \in BOOLEAN
  <2>1. /\ Len(input_queue_) \in Nat /\ Posts \in Nat /\ Waiting \in Nat
        /\ sent \in Nat /\ made \in Nat /\ owed \in Nat /\ Rate \in Nat
        /\ is_passthrough_ \in BOOLEAN
    BY FrameTypes, NumType, VppAssumption DEF One, TypeInv, TypeOK
  <2>2. Queued \in Nat
    BY <2>1 DEF Queued
  <2> QED BY <2>1, <2>2 DEF Given, One
<1>g. ASSUME \/ sent' = sent /\ Queued' = Queued
             \/ sent' = sent + 1 /\ Queued' = Queued + 1,
             Inside' <=> Inside, UNCHANGED <<made, owed, is_passthrough_>>
      PROVE  FramesCounted'
  <2>1. One(Inside') = One(Inside) /\ One(Inside) \in Nat
    BY <1>g DEF One
  <2>2. CASE sent' = sent /\ Queued' = Queued
    <3>1. Given' = Given
      BY <2>1, <2>2 DEF Given
    <3> QED BY <1>g, <2>2, <3>1 DEF FramesCounted
  <2>3. CASE sent' = sent + 1 /\ Queued' = Queued + 1
    <3>1. Given' = Given
      BY <1>t, <2>1, <2>3 DEF Given
    <3>2. is_passthrough_ => sent' = made' + Queued'
      <4>1. sent = made + Queued => sent' = made + Queued'
        BY <1>t, <2>3
      <4> QED BY <1>g, <4>1 DEF FramesCounted
    <3> QED BY <1>g, <3>1, <3>2 DEF FramesCounted
  <2> QED BY <1>g, <2>2, <2>3
<1>s. ASSUME UNCHANGED <<sent, input_queue_, taskQ>>, spc' \in Pending <=> spc \in Pending
      PROVE  sent' = sent /\ Queued' = Queued
  BY <1>s DEF Queued, One
<1>u. ASSUME UNCHANGED <<sent, input_queue_, taskQ, made, owed, is_passthrough_, spc>>,
             ~Inside /\ ~Inside'
      PROVE  FramesCounted'
  <2> QED BY <1>u, <1>s, <1>t, <1>g
<1>n. ASSUME taskQ # <<>>, taskQ' = Tail(taskQ)
      PROVE  Posts' \in Nat /\ Posts = Posts' + One(Head(taskQ) \in Frames)
  <2>1. Len(taskQ) \in Nat \ {0} /\ Len(taskQ') = Len(taskQ) - 1
    BY <1>n, FrameTypes, Taken
  <2>2. Num(taskQ, (Len(taskQ) - 1) + 1, Frames)
          = Num(taskQ', Len(taskQ) - 1, Frames) + One(Head(taskQ) \in Frames)
    BY <1>n, <1>q, <2>1, NumTail
  <2>3. Posts' \in Nat
    <3>1. Len(taskQ') \in Nat
      BY <2>1
    <3> QED BY <3>1, NumType
  <2> QED BY <2>1, <2>2, <2>3
<1>a. ASSUME NEW x \in Frames \cup {EosTask}, taskQ' = Append(taskQ, x)
      PROVE  Posts' = Posts + One(x \in Frames)
  <2>1. Len(taskQ') = Len(taskQ) + 1
    BY <1>a, <1>q, Appended
  <2> QED BY <1>a, <1>q, <2>1, NumAppend
<1>h. ASSUME input_queue_ # <<>>, input_queue_' = Tail(input_queue_),
             UNCHANGED <<sent, taskQ, spc>>
      PROVE  Queued' = Queued - 1 /\ Queued' \in Nat /\ Head(input_queue_) # None
  <2>1. Len(input_queue_) \in Nat \ {0} /\ Len(input_queue_') = Len(input_queue_) - 1
        /\ Head(input_queue_) # None
    BY <1>h, <1>q, Taken
  <2> QED BY <1>h, <1>t, <2>1 DEF Queued
<1>f. ASSUME tpc \in Processing, UNCHANGED <<sent, input_queue_, taskQ, is_passthrough_, spc>>,
             owed' \in Nat, made' \in Nat,
             made' + owed' = made + owed + (IF Inside THEN Rate ELSE 0), ~Inside'
      PROVE  FramesCounted'
  <2>1. ~is_passthrough_ /\ Rate * Given = made + owed
    BY <1>f DEF OneMode, FramesCounted
  <2>2. Queued' = Queued
    BY <1>f, <1>s
  <2>3. CASE Inside
    <3>1. Given' = Given + 1
      BY <1>f, <1>t, <2>2, <2>3 DEF Given, One
    <3>2. Rate * (Given + 1) = Rate * Given + Rate
      BY <1>t
    <3>3. Rate * Given' = made' + owed'
      BY <1>f, <1>t, <2>1, <2>3, <3>1, <3>2
    <3> QED BY <1>f, <2>1, <3>3 DEF FramesCounted
  <2>4. CASE ~Inside
    <3>1. Given' = Given
      BY <1>f, <1>t, <2>2, <2>4 DEF Given, One
    <3>2. made' + owed' = made + owed
      <4>1. made \in Nat /\ owed \in Nat
        BY <1>t
      <4>2. made' + owed' = made + owed + 0
        BY <1>f, <2>4
      <4> QED BY <4>1, <4>2
    <3>3. Rate * Given' = made' + owed'
      BY <2>1, <3>1, <3>2
    <3> QED BY <1>f, <2>1, <3>3 DEF FramesCounted
  <2> QED BY <2>3, <2>4
<1> HIDE DEF Posts, Waiting
<1> USE DEF stream, tasks, locals, mode, vpp, syncs, syncer, downstream
<1>1. CASE Chain
  <2>1. /\ sent' = sent + 1 /\ Waiting = 0 /\ Waiting' = 1
        /\ UNCHANGED <<input_queue_, taskQ, made, owed, is_passthrough_>>
    BY <1>1 DEF Chain, One, Pending, Waiting
  <2>2. Queued' = Queued + 1
    BY <1>t, <2>1 DEF Queued, Posts, Waiting
  <2>3. Inside' <=> Inside
    BY <1>1 DEF Chain, Inside
  <2> QED BY <1>g, <1>t, <2>1, <2>2, <2>3
<1>2. CASE ChainTest
  <2>1. /\ spc' \in Pending <=> spc \in Pending
        /\ UNCHANGED <<sent, input_queue_, taskQ, made, owed, is_passthrough_>>
    BY <1>2 DEF ChainTest, Pending
  <2>2. Inside' <=> Inside
    BY <1>2 DEF ChainTest, Inside
  <2> QED BY <1>g, <1>s, <1>t, <2>1, <2>2
<1>3. CASE ChainPost
  <2>1. sent \in Frames /\ taskQ' = Append(taskQ, sent)
    BY <1>3 DEF ChainPost, FramesInOrder, Pending, TypeInv, TypeOK, Frames
  <2>2. Posts' = Posts + 1
    BY <1>a, <2>1 DEF One
  <2>3. /\ Waiting = 1 /\ Waiting' = 0
        /\ UNCHANGED <<sent, input_queue_, made, owed, is_passthrough_>>
    BY <1>3 DEF ChainPost, One, Pending, Waiting
  <2>4. Queued' = Queued
    BY <1>t, <2>2, <2>3 DEF Queued, Posts, Waiting
  <2>5. Inside' <=> Inside
    BY <1>3 DEF ChainPost, Inside
  <2> QED BY <1>g, <1>t, <2>3, <2>4, <2>5
<1>4. CASE SendEos
  <2>1. taskQ' = Append(taskQ, EosTask) /\ UNCHANGED <<sent, input_queue_, spc>>
        /\ UNCHANGED <<made, owed, is_passthrough_>>
    BY <1>4 DEF SendEos
  <2>2. Posts' = Posts
    BY <1>a, <1>q, <1>t, <2>1 DEF One
  <2>3. Queued' = Queued
    BY <1>t, <2>1, <2>2 DEF Queued, Posts
  <2>4. Inside' <=> Inside
    BY <1>4 DEF SendEos, Inside
  <2> QED BY <1>g, <1>t, <2>1, <2>3, <2>4
<1>5. CASE TakeFrame
  <2>1. /\ taskQ # <<>> /\ taskQ' = Tail(taskQ) /\ Head(taskQ) # EosTask
        /\ input_queue_' = Append(input_queue_, Head(taskQ)) /\ Waiting' = Waiting
        /\ UNCHANGED <<sent, made, owed, is_passthrough_>>
    BY <1>5 DEF TakeFrame, Waiting, Pending, One
  <2>2. Head(taskQ) \in Frames
    BY <1>q, <2>1, Taken
  <2>3. Posts' \in Nat /\ Posts = Posts' + 1
    BY <1>n, <2>1, <2>2 DEF One
  <2>4. Len(input_queue_') = Len(input_queue_) + 1
    BY <1>q, <2>1, <2>2, Appended
  <2>5. Queued' = Queued
    BY <1>t, <2>1, <2>3, <2>4 DEF Queued, Posts, Waiting
  <2>6. Inside' <=> Inside
    BY <1>5 DEF TakeFrame, Process, Inside, Running
  <2> QED BY <1>g, <1>t, <2>1, <2>5, <2>6
<1>6. CASE TakeEos
  <2>1. /\ taskQ # <<>> /\ taskQ' = Tail(taskQ) /\ Head(taskQ) \notin Frames
        /\ UNCHANGED <<sent, made, owed, is_passthrough_, input_queue_, spc>>
    BY <1>6, <1>q DEF TakeEos
  <2>2. Posts = Posts'
    BY <1>n, <2>1 DEF One
  <2>3. Queued' = Queued
    BY <1>t, <2>1, <2>2 DEF Queued, Posts
  <2>4. Inside' <=> Inside
    BY <1>6 DEF TakeEos, Process, Inside, Running
  <2> QED BY <1>g, <1>t, <2>1, <2>3, <2>4
<1>7. CASE LoopEnd
  BY <1>7, <1>u DEF LoopEnd, Return, Inside, Running
<1>8. CASE LoopNext
  BY <1>8, <1>u DEF LoopNext, Inside, Running
<1>9. CASE GetSurface
  BY <1>9, <1>u DEF GetSurface, Inside, Running
<1>10. CASE NoSurface
  BY <1>10, <1>o DEF NoSurface, Fail
<1>11. CASE TakeInput
  <2>1. /\ tpc = "input" /\ tpc' = "run" /\ taken \in BOOLEAN
        /\ UNCHANGED <<sent, taskQ, spc, made, owed, is_passthrough_, taken>>
    BY <1>11 DEF TakeInput, TypeInv, TypeOK
  <2>2. ~is_passthrough_ /\ ~Inside
    BY <2>1 DEF OneMode, Processing, Inside, Running
  <2>3. CASE in_frame = None /\ input_queue_ # <<>>
    <3>1. Queued' = Queued - 1 /\ Queued' \in Nat
      BY <1>11, <1>h, <2>1, <2>3 DEF TakeInput
    <3>2. in_frame' # None /\ ~taken'
      BY <1>11, <1>h, <2>1, <2>3 DEF TakeInput, PhaseInv
    <3>3. Inside'
      BY <2>1, <3>2 DEF Inside, Running
    <3>4. Given' = Given
      BY <1>t, <2>1, <2>2, <3>1, <3>3 DEF Given, One, Inside
    <3> QED BY <2>1, <2>2, <3>4 DEF FramesCounted
  <2>4. CASE ~(in_frame = None /\ input_queue_ # <<>>)
    <3>1. UNCHANGED <<input_queue_, in_frame>>
      BY <1>11, <2>4 DEF TakeInput
    <3>2. ~Inside'
      BY <2>1, <3>1 DEF Inside, PhaseInv
    <3> QED BY <1>u, <2>1, <2>2, <3>1, <3>2
  <2> QED BY <2>3, <2>4
<1>12. CASE RunBusy
  <2>1. UNCHANGED <<sent, input_queue_, taskQ, made, owed, is_passthrough_, spc>>
    BY <1>12 DEF RunBusy
  <2>2. Inside' <=> Inside
    BY <1>12 DEF RunBusy, Inside, Running
  <2> QED BY <1>g, <1>s, <1>t, <2>1, <2>2
<1>13. CASE BusyTest
  <2>1. UNCHANGED <<sent, input_queue_, taskQ, made, owed, is_passthrough_, spc>>
    BY <1>13 DEF BusyTest
  <2>2. Inside' <=> Inside
    BY <1>13 DEF BusyTest, Inside, Running
  <2> QED BY <1>g, <1>s, <1>t, <2>1, <2>2
<1>14. CASE RunFrame
  <2>1. /\ tpc \in Processing /\ owed' = Available - 1 /\ made' = made + 1 /\ Available > 0
        /\ UNCHANGED <<sent, input_queue_, taskQ, is_passthrough_, spc>>
    BY <1>14 DEF RunFrame, Processing, Running
  <2>2. Available = owed + (IF Inside THEN Rate ELSE 0) /\ ~Inside' /\ Available \in Nat
    BY <1>14, <1>t DEF RunFrame, Available, Inside, Running
  <2> QED BY <1>f, <1>t, <2>1, <2>2
<1>15. CASE RunMoreData
  <2>1. /\ tpc \in Processing /\ owed' = Available /\ made' = made
        /\ UNCHANGED <<sent, input_queue_, taskQ, is_passthrough_, spc>>
    BY <1>15 DEF RunMoreData, Processing, Running
  <2>2. Available = owed + (IF Inside THEN Rate ELSE 0) /\ ~Inside' /\ Available \in Nat
    BY <1>15, <1>t DEF RunMoreData, Available, Inside, Running
  <2> QED BY <1>f, <1>t, <2>1, <2>2
<1>16. CASE RunDrained
  BY <1>16, <1>u DEF RunDrained, Return, Inside, Running
<1>17. CASE RunError
  BY <1>17, <1>o DEF RunError, Fail
<1>18. CASE ReleaseInputSurface
  BY <1>18, <1>u DEF ReleaseInputSurface, Inside, Running
<1>19. CASE Submit
  BY <1>19, <1>u DEF Submit, Inside, Running
<1>20. CASE PassTake
  <2>1. /\ tpc = "pass" /\ input_queue_ # <<>> /\ input_queue_' = Tail(input_queue_)
        /\ made' = made + 1 /\ UNCHANGED <<sent, taskQ, spc, is_passthrough_>>
    BY <1>20 DEF PassTake
  <2>2. is_passthrough_ /\ Queued' = Queued - 1
    BY <1>h, <2>1 DEF OneMode
  <2>3. sent' = made' + Queued'
    BY <1>t, <2>1, <2>2 DEF FramesCounted
  <2> QED BY <2>1, <2>2, <2>3 DEF FramesCounted
<1>21. CASE PassEos
  BY <1>21, <1>u DEF PassEos, Return, Inside, Running
<1>22. CASE PassSurface
  BY <1>22, <1>u DEF PassSurface, Inside, Running
<1>23. CASE PassError
  BY <1>23, <1>o DEF PassError, Fail
<1>24. CASE PassPush
  BY <1>24, <1>u DEF PassPush, Return, Inside, Running
<1>25. CASE TakeRelease
  <2>1. UNCHANGED <<sent, input_queue_, taskQ, made, owed, is_passthrough_, spc>>
    BY <1>25 DEF TakeRelease
  <2>2. Inside' <=> Inside
    BY <1>25 DEF TakeRelease, Inside
  <2> QED BY <1>g, <1>s, <1>t, <2>1, <2>2
<1>26. CASE TakeNotifyEos
  <2>1. UNCHANGED <<sent, input_queue_, taskQ, made, owed, is_passthrough_, spc>>
    BY <1>26 DEF TakeNotifyEos
  <2>2. Inside' <=> Inside
    BY <1>26 DEF TakeNotifyEos, Inside
  <2> QED BY <1>g, <1>s, <1>t, <2>1, <2>2
<1>27. CASE TakeSync
  <2>1. UNCHANGED <<sent, input_queue_, taskQ, made, owed, is_passthrough_, spc>>
    BY <1>27 DEF TakeSync
  <2>2. Inside' <=> Inside
    BY <1>27 DEF TakeSync, Inside
  <2> QED BY <1>g, <1>s, <1>t, <2>1, <2>2
<1>28. CASE SyncDone
  <2>1. UNCHANGED <<sent, input_queue_, taskQ, made, owed, is_passthrough_, spc>>
    BY <1>28 DEF SyncDone
  <2>2. Inside' <=> Inside
    BY <1>28 DEF SyncDone, Inside
  <2> QED BY <1>g, <1>s, <1>t, <2>1, <2>2
<1>29. CASE SyncError
  BY <1>29, <1>o DEF SyncError, Fail
<1>30. CASE Push
  <2>1. UNCHANGED <<sent, input_queue_, taskQ, made, owed, is_passthrough_, spc>>
    BY <1>30 DEF Push
  <2>2. Inside' <=> Inside
    BY <1>30 DEF Push, Inside
  <2> QED BY <1>g, <1>s, <1>t, <2>1, <2>2
<1>31. CASE Clean
  <2>1. UNCHANGED <<sent, input_queue_, taskQ, made, owed, is_passthrough_, spc>>
    BY <1>31 DEF Clean, EndSync
  <2>2. Inside' <=> Inside
    BY <1>31 DEF Clean, EndSync, Inside, Running
  <2> QED BY <1>g, <1>s, <1>t, <2>1, <2>2
<1>32. ASSUME NEW f \in Frames, Unlock(f) PROVE FramesCounted'
  <2>1. UNCHANGED <<sent, input_queue_, taskQ, made, owed, is_passthrough_, spc>>
    BY <1>32 DEF Unlock
  <2>2. Inside' <=> Inside
    BY <1>32 DEF Unlock, Inside
  <2> QED BY <1>g, <1>s, <1>t, <2>1, <2>2
<1>33. CASE SetPassthrough
  BY <1>33, <1>o DEF SetPassthrough
<1>34. CASE Deactivate
  BY <1>34, <1>o DEF Deactivate, Change
<1>35. CASE Deactivated
  BY <1>35, <1>o DEF Deactivated, Change
<1>36. CASE StopTaskThread
  BY <1>36, <1>o DEF StopTaskThread, Change
<1>37. CASE JoinTaskThread
  BY <1>37, <1>o DEF JoinTaskThread, Change
<1>38. CASE StopSyncThread
  BY <1>38, <1>o DEF StopSyncThread, Change
<1>39. CASE JoinSyncThread
  BY <1>39, <1>o DEF JoinSyncThread, Change
<1>40. CASE FreeAll
  BY <1>40, <1>o DEF FreeAll, Change
<1>41. CASE UNCHANGED vars
  <2>1. UNCHANGED <<sent, input_queue_, taskQ, made, owed, is_passthrough_, spc>>
    BY <1>41 DEF vars
  <2>2. Inside' <=> Inside
    BY <1>41 DEF vars, Inside
  <2> QED BY <1>g, <1>s, <1>t, <2>1, <2>2
<1> QED
  BY <1>1, <1>2, <1>3, <1>4, <1>5, <1>6, <1>7, <1>8, <1>9, <1>10, <1>11, <1>12, <1>13,
     <1>14, <1>15, <1>16, <1>17, <1>18, <1>19, <1>20, <1>21, <1>22, <1>23, <1>24, <1>25,
     <1>26, <1>27, <1>28, <1>29, <1>30, <1>31, <1>32, <1>33, <1>34, <1>35, <1>36, <1>37,
     <1>38, <1>39, <1>40, <1>41
  DEF Next, TaskStep, TaskFault, SyncStep, DisposeStep
-----------------------------------------------------------------------------
(* The invariant.                                                          *)

\* EOS comes out when everything made of the frames received is out.
LEMMA OutputStep ==
  ASSUME TypeInv, PhaseInv, OrderInv, switches' = 0 => OpsInOrder', [Next]_vars
  PROVE  OutputInOrder'
<1>t. /\ eosOut \in BOOLEAN /\ eosSent \in BOOLEAN /\ is_passthrough_ \in BOOLEAN
      /\ sent \in Nat /\ switches \in Nat /\ made \in Nat /\ owed \in Nat /\ Rate \in Nat
      /\ Len(pushed) \in Nat
  BY OpTypes, FramesAssumption, VppAssumption DEF TypeInv, TypeOK
<1>i. EosKnown /\ (Undisturbed => OneMode /\ OpsCounted /\ FramesCounted /\ EosLast)
  BY DEF OrderInv, Undisturbed
<1> DEFINE All == Len(pushed) = (IF is_passthrough_ THEN 1 ELSE Rate) * sent
           AllOut == switches = 0 /\ eosOut /\ failures = {} => All
<1>a. AllOut
  BY DEF OrderInv, OutputInOrder
<1> SUFFICES AllOut'
  BY DEF OpsInOrder, OutputInOrder
<1>u. ASSUME UNCHANGED <<switches, is_passthrough_, eosOut, sent, pushed>>, failures \subseteq failures'
      PROVE  AllOut'
  BY <1>a, <1>u
<1> HIDE DEF All
<1> USE DEF stream, tasks, locals, mode, vpp, syncs, syncer, downstream
<1>1. CASE Chain
  BY <1>1, <1>i, <1>t DEF Chain, EosKnown, AllOut
<1>2. CASE ChainTest
  BY <1>2, <1>u DEF ChainTest
<1>3. CASE ChainPost
  BY <1>3, <1>u DEF ChainPost
<1>4. CASE SendEos
  BY <1>4, <1>u DEF SendEos
<1>5. CASE TakeFrame
  BY <1>5, <1>u DEF TakeFrame, Process
<1>6. CASE TakeEos
  BY <1>6, <1>u DEF TakeEos, Process
<1>7. CASE LoopEnd
  BY <1>7, <1>u DEF LoopEnd, Return
<1>8. CASE LoopNext
  BY <1>8, <1>u DEF LoopNext
<1>9. CASE GetSurface
  BY <1>9, <1>u DEF GetSurface
<1>10. CASE NoSurface
  BY <1>10, <1>u DEF NoSurface, Fail, Return
<1>11. CASE TakeInput
  BY <1>11, <1>u DEF TakeInput
<1>12. CASE RunBusy
  BY <1>12, <1>u DEF RunBusy
<1>13. CASE BusyTest
  BY <1>13, <1>u DEF BusyTest
<1>14. CASE RunFrame
  BY <1>14, <1>u DEF RunFrame, LockInput
<1>15. CASE RunMoreData
  BY <1>15, <1>u DEF RunMoreData, LockInput
<1>16. CASE RunDrained
  BY <1>16, <1>u DEF RunDrained, Return
<1>17. CASE RunError
  BY <1>17, <1>u DEF RunError, Fail, Return
<1>18. CASE ReleaseInputSurface
  BY <1>18, <1>u DEF ReleaseInputSurface
<1>19. CASE Submit
  BY <1>19, <1>u DEF Submit
<1>20. CASE PassTake
  BY <1>20, <1>u DEF PassTake
<1>21. CASE PassEos
  BY <1>21, <1>u DEF PassEos, Return
<1>22. CASE PassSurface
  BY <1>22, <1>u DEF PassSurface
<1>23. CASE PassError
  BY <1>23, <1>u DEF PassError, Fail, Return
<1>24. CASE PassPush
  <2>1. /\ UNCHANGED <<switches, eosOut>> /\ tpc = "passPush"
        /\ failures' = {} => elem = "playing" /\ failures = {}
    BY <1>24 DEF PassPush, BufferReady
  <2> QED BY <1>i, <2>1 DEF Undisturbed, EosLast, Drained
<1>25. CASE TakeRelease
  BY <1>25, <1>u DEF TakeRelease
<1>26. CASE TakeNotifyEos
  <2>1. /\ UNCHANGED <<switches, is_passthrough_, sent, pushed, failures>> /\ ypc = "idle"
        /\ syncQ # <<>> /\ Head(syncQ).kind = "eos"
        /\ eosOut' => eosOut \/ elem = "playing"
    BY <1>26 DEF TakeNotifyEos
  <2>2. CASE switches = 0 /\ elem = "playing" /\ failures = {}
    <3>1. Undisturbed
      BY <2>2 DEF Undisturbed
    <3>2. 1 \in DOMAIN syncQ /\ syncQ[1].kind = "eos" /\ syncQ[1] \notin IsSync
      BY <2>1, SyncTypes, Taken DEF IsSync
    <3>3. Len(syncQ) = 1 /\ Drained
      BY <1>i, <3>1, <3>2 DEF EosLast
    <3>4. Num(syncQ, Len(syncQ), IsSync) = 0 /\ Num(taskQ, Len(taskQ), Frames) = 0
      <4>1. \A i \in 1 .. 1 : syncQ[i] \notin IsSync
        BY <3>2
      <4>2. Len(taskQ) = 0
        BY <3>3, EmptySeq DEF Drained
      <4> QED BY <3>3, <4>1, <4>2, NumZero, NumType
    <3>5. /\ Len(input_queue_) = 0 /\ One(spc \in Pending) = 0 /\ One(Inside) = 0
          /\ One(Syncing) = 0 /\ One(Fresh) = 0
      BY <1>i, <2>1, <3>3, EmptySeq
      DEF Drained, One, Inside, Running, Syncing, Fresh, PassHeld, EosKnown
    <3>6. Len(pushed) = made
      BY <1>i, <1>t, <3>1, <3>4, <3>5 DEF OpsCounted
    <3>7. Queued = 0 /\ Given = sent
      <4>1. Queued = 0
        BY <3>4, <3>5 DEF Queued
      <4> QED BY <1>t, <3>5, <4>1 DEF Given
    <3>8. CASE is_passthrough_
      <4>1. sent = made
        <5>1. sent = made + Queued
          BY <1>i, <3>1, <3>8 DEF FramesCounted
        <5> QED BY <1>t, <3>7, <5>1
      <4>2. All
        BY <1>t, <3>6, <3>8, <4>1 DEF All
      <4> QED BY <2>1, <4>2 DEF All
    <3>9. CASE ~is_passthrough_
      <4>1. Rate * sent = made
        <5>1. Rate * sent = made + owed /\ owed = 0
          BY <1>i, <3>1, <3>3, <3>7, <3>9 DEF FramesCounted, Drained
        <5> QED BY <1>t, <5>1
      <4>2. All
        BY <3>6, <3>9, <4>1 DEF All
      <4> QED BY <2>1, <4>2 DEF All
    <3> QED BY <3>8, <3>9
  <2>3. CASE ~(switches = 0 /\ elem = "playing" /\ failures = {})
    <3>1. All' <=> All
      BY <2>1 DEF All
    <3> QED BY <1>a, <2>1, <2>3, <3>1
  <2> QED BY <2>2, <2>3
<1>27. CASE TakeSync
  BY <1>27, <1>u DEF TakeSync
<1>28. CASE SyncDone
  BY <1>28, <1>u DEF SyncDone
<1>29. CASE SyncError
  BY <1>29, <1>u DEF SyncError, EndSync
<1>30. CASE Push
  <2>1. /\ UNCHANGED <<switches, eosOut>> /\ ypc = "push"
        /\ failures' = {} => elem = "playing" /\ failures = {}
    BY <1>30 DEF Push, BufferReady
  <2> QED BY <1>i, <2>1 DEF Undisturbed, EosLast
<1>31. CASE Clean
  BY <1>31, <1>u DEF Clean, EndSync
<1>32. ASSUME NEW f \in Frames, Unlock(f) PROVE AllOut'
  BY <1>32, <1>u DEF Unlock
<1>33. CASE SetPassthrough
  <2>1. switches' = switches + 1
    BY <1>33 DEF SetPassthrough
  <2> QED BY <1>t, <2>1
<1>34. CASE Deactivate
  BY <1>34, <1>u DEF Deactivate, Change
<1>35. CASE Deactivated
  BY <1>35, <1>u DEF Deactivated, Change
<1>36. CASE StopTaskThread
  BY <1>36, <1>u DEF StopTaskThread, Change
<1>37. CASE JoinTaskThread
  BY <1>37, <1>u DEF JoinTaskThread, Change
<1>38. CASE StopSyncThread
  BY <1>38, <1>u DEF StopSyncThread, Change
<1>39. CASE JoinSyncThread
  BY <1>39, <1>u DEF JoinSyncThread, Change
<1>40. CASE FreeAll
  BY <1>40, <1>u DEF FreeAll, Change
<1>41. CASE UNCHANGED vars
  BY <1>41, <1>u DEF vars
<1> QED
  BY <1>1, <1>2, <1>3, <1>4, <1>5, <1>6, <1>7, <1>8, <1>9, <1>10, <1>11, <1>12, <1>13,
     <1>14, <1>15, <1>16, <1>17, <1>18, <1>19, <1>20, <1>21, <1>22, <1>23, <1>24, <1>25,
     <1>26, <1>27, <1>28, <1>29, <1>30, <1>31, <1>32, <1>33, <1>34, <1>35, <1>36, <1>37,
     <1>38, <1>39, <1>40, <1>41
  DEF Next, TaskStep, TaskFault, SyncStep, DisposeStep


\* The property once changed is counted as changed.
LEMMA StillOneMode == TypeInv /\ [Next]_vars /\ switches' = 0 => switches = 0
<1> SUFFICES ASSUME TypeInv, [Next]_vars, switches' = 0 PROVE switches = 0
  OBVIOUS
<1>t. switches \in Nat
  BY FramesAssumption DEF TypeInv, TypeOK
<1>u. ASSUME switches' = switches PROVE switches = 0
  BY <1>u
<1> USE DEF stream, tasks, locals, mode, vpp, syncs, syncer, downstream
<1>1. CASE Chain
  BY <1>1, <1>u DEF Chain
<1>2. CASE ChainTest
  BY <1>2, <1>u DEF ChainTest
<1>3. CASE ChainPost
  BY <1>3, <1>u DEF ChainPost
<1>4. CASE SendEos
  BY <1>4, <1>u DEF SendEos
<1>5. CASE TakeFrame
  BY <1>5, <1>u DEF TakeFrame, Process
<1>6. CASE TakeEos
  BY <1>6, <1>u DEF TakeEos, Process
<1>7. CASE LoopEnd
  BY <1>7, <1>u DEF LoopEnd, Return
<1>8. CASE LoopNext
  BY <1>8, <1>u DEF LoopNext
<1>9. CASE GetSurface
  BY <1>9, <1>u DEF GetSurface
<1>10. CASE NoSurface
  BY <1>10, <1>u DEF NoSurface, Fail, Return
<1>11. CASE TakeInput
  BY <1>11, <1>u DEF TakeInput
<1>12. CASE RunBusy
  BY <1>12, <1>u DEF RunBusy
<1>13. CASE BusyTest
  BY <1>13, <1>u DEF BusyTest
<1>14. CASE RunFrame
  BY <1>14, <1>u DEF RunFrame, LockInput
<1>15. CASE RunMoreData
  BY <1>15, <1>u DEF RunMoreData, LockInput
<1>16. CASE RunDrained
  BY <1>16, <1>u DEF RunDrained, Return
<1>17. CASE RunError
  BY <1>17, <1>u DEF RunError, Fail, Return
<1>18. CASE ReleaseInputSurface
  BY <1>18, <1>u DEF ReleaseInputSurface
<1>19. CASE Submit
  BY <1>19, <1>u DEF Submit
<1>20. CASE PassTake
  BY <1>20, <1>u DEF PassTake
<1>21. CASE PassEos
  BY <1>21, <1>u DEF PassEos, Return
<1>22. CASE PassSurface
  BY <1>22, <1>u DEF PassSurface
<1>23. CASE PassError
  BY <1>23, <1>u DEF PassError, Fail, Return
<1>24. CASE PassPush
  BY <1>24, <1>u DEF PassPush, Return
<1>25. CASE TakeRelease
  BY <1>25, <1>u DEF TakeRelease
<1>26. CASE TakeNotifyEos
  BY <1>26, <1>u DEF TakeNotifyEos
<1>27. CASE TakeSync
  BY <1>27, <1>u DEF TakeSync
<1>28. CASE SyncDone
  BY <1>28, <1>u DEF SyncDone
<1>29. CASE SyncError
  BY <1>29, <1>u DEF SyncError, EndSync
<1>30. CASE Push
  BY <1>30, <1>u DEF Push
<1>31. CASE Clean
  BY <1>31, <1>u DEF Clean, EndSync
<1>32. ASSUME NEW f \in Frames, Unlock(f) PROVE switches = 0
  BY <1>32, <1>u DEF Unlock
<1>33. CASE SetPassthrough
  BY <1>33, <1>t DEF SetPassthrough
<1>34. CASE Deactivate
  BY <1>34, <1>u DEF Deactivate, Change
<1>35. CASE Deactivated
  BY <1>35, <1>u DEF Deactivated, Change
<1>36. CASE StopTaskThread
  BY <1>36, <1>u DEF StopTaskThread, Change
<1>37. CASE JoinTaskThread
  BY <1>37, <1>u DEF JoinTaskThread, Change
<1>38. CASE StopSyncThread
  BY <1>38, <1>u DEF StopSyncThread, Change
<1>39. CASE JoinSyncThread
  BY <1>39, <1>u DEF JoinSyncThread, Change
<1>40. CASE FreeAll
  BY <1>40, <1>u DEF FreeAll, Change
<1>41. CASE UNCHANGED vars
  BY <1>41, <1>u DEF vars
<1> QED
  BY <1>1, <1>2, <1>3, <1>4, <1>5, <1>6, <1>7, <1>8, <1>9, <1>10, <1>11, <1>12, <1>13,
     <1>14, <1>15, <1>16, <1>17, <1>18, <1>19, <1>20, <1>21, <1>22, <1>23, <1>24, <1>25,
     <1>26, <1>27, <1>28, <1>29, <1>30, <1>31, <1>32, <1>33, <1>34, <1>35, <1>36, <1>37,
     <1>38, <1>39, <1>40, <1>41
  DEF Next, TaskStep, TaskFault, SyncStep, DisposeStep

\* The invariant holds after the CAPS event.
LEMMA InitInv == Init => IInv
<1> SUFFICES ASSUME Init PROVE IInv
  OBVIOUS
<1>1. TypeInv
  BY InitType
<1>2. /\ elem = "playing" /\ syncQ = <<>> /\ taskQ = <<>> /\ pushed = <<>>
      /\ input_queue_ = <<>> /\ Len(<<>>) = 0 /\ DOMAIN <<>> = {}
  BY EmptySeq DEF Init
<1>3. PhaseInv
  BY DEF Init, PhaseInv
<1>4. FramesInOrder
  BY <1>2 DEF Init, FramesInOrder, Last, Known, Pending, PassHeld, None
<1>5. Num(<<>>, 0, IsSync) = 0 /\ Num(<<>>, 0, Frames) = 0
  BY NumType
<1>6. Counted
  BY <1>2, <1>5 DEF Init, Counted, One
<1>7. LockedIsHeld
  BY DEF Init, LockedIsHeld
<1>8. OneMode /\ OpsInOrder
  BY <1>2 DEF Init, OneMode, OpsInOrder, Processing, Running, Syncing
<1>9. EosKnown /\ EosLast
  BY <1>2 DEF Init, EosKnown, EosLast, Pending, Running
<1>10. OutputInOrder
  BY <1>2 DEF Init, OutputInOrder
<1>11. OpsCounted
  BY <1>2, <1>5 DEF Init, OpsCounted, Syncing, Fresh, PassHeld, One
<1>12. FramesCounted
  <2>1. Queued = 0 /\ One(Inside) = 0
    BY <1>2, <1>5 DEF Init, Queued, Inside, Running, Pending, One
  <2>2. Given = 0 /\ sent = 0 /\ made = 0 /\ owed = 0
    BY <2>1 DEF Init, Given
  <2>3. Rate * 0 = 0
    BY VppAssumption
  <2>4. Rate * Given = made + owed
    BY <2>2, <2>3
  <2> QED BY <2>1, <2>2, <2>4 DEF FramesCounted
<1> QED
  BY <1>1, <1>3, <1>4, <1>6, <1>7, <1>8, <1>9, <1>10, <1>11, <1>12 DEF IInv, OrderInv

\* Every step keeps the invariant.
LEMMA InvStep == IInv /\ [Next]_vars => IInv'
<1> SUFFICES ASSUME IInv, [Next]_vars PROVE IInv'
  OBVIOUS
<1>1. TypeInv' /\ PhaseInv' /\ FramesInOrder' /\ Counted' /\ LockedIsHeld'
  BY TypeStep, PhaseStep, FramesStep, CountedStep, HeldStep DEF IInv
<1>2. EosKnown'
  BY EosKnownStep DEF IInv, OrderInv
<1>3. ASSUME switches' = 0 PROVE OneMode' /\ OpsInOrder'
  <2>1. switches = 0 /\ OneMode /\ OpsInOrder
    BY <1>3, StillOneMode DEF IInv, OrderInv
  <2> QED BY <1>3, <2>1, OneModeStep, OpsStep DEF IInv
<1>4. ASSUME Undisturbed' PROVE OpsCounted' /\ FramesCounted' /\ EosLast'
  <2>1. Undisturbed
    BY <1>4, StillUndisturbed DEF IInv
  <2>2. OneMode /\ OpsCounted /\ FramesCounted /\ EosLast
    BY <2>1 DEF IInv, OrderInv, Undisturbed
  <2> QED BY <1>4, <2>1, <2>2, OpsCountedStep, FramesCountedStep, EosLastStep
          DEF IInv, OrderInv
<1>5. OutputInOrder'
  BY <1>3, OutputStep DEF IInv
<1> QED BY <1>1, <1>2, <1>3, <1>4, <1>5 DEF IInv, OrderInv

\* The counter in the words of the specification.
LEMMA InvConsistent == IInv => Consistent
<1> SUFFICES ASSUME IInv PROVE Consistent
  OBVIOUS
<1>1. TypeInv /\ TypeOK /\ Counted
  BY DEF IInv, TypeInv
<1>2. InFlight = Num(syncQ, Len(syncQ), IsSync) + One(ypc # "idle")
  <2>1. {i \in DOMAIN syncQ : syncQ[i].kind = "sync"} = {i \in 1 .. Len(syncQ) : syncQ[i] \in IsSync}
    BY <1>1, SyncTypes, TaskTypes DEF IsSync
  <2>2. (IF ypc = "idle" THEN 0 ELSE 1) = One(ypc # "idle")
    BY DEF One
  <2> QED BY <2>1, <2>2 DEF InFlight, Num
<1> QED BY <1>1, <1>2 DEF Counted, Consistent

(***************************************************************************)
(* The types; syncop_tasks_num_ counts the operations in flight while the  *)
(* sync thread accepts them, so the task thread never waits on             *)
(* cv_dev_busy_ for operations that are done.                              *)
(***************************************************************************)
THEOREM ConsistentCorrect == Spec => []Consistent
  BY InitInv, InvStep, InvConsistent, PTL DEF Spec

(***************************************************************************)
(* Unless GetBuffer() or RunFrameVPPAsync() failed, a surface the VPP      *)
(* reads is referenced by one of the two threads, or in the queue between  *)
(* them, until Dispose() has stopped both.                                 *)
(***************************************************************************)
THEOREM LockedIsHeldCorrect == Spec => []LockedIsHeld
<1>1. IInv => LockedIsHeld
  BY DEF IInv
<1> QED BY <1>1, InitInv, InvStep, PTL DEF Spec

(***************************************************************************)
(* While "passthrough" is left alone frames go downstream in the order     *)
(* they were made; when EOS is out and nothing failed, everything made of  *)
(* every frame received went out before it.                                *)
(***************************************************************************)
THEOREM OutputInOrderCorrect == Spec => []OutputInOrder
<1>1. IInv => OutputInOrder
  BY DEF IInv, OrderInv
<1> QED BY <1>1, InitInv, InvStep, PTL DEF Spec
=============================================================================
