------------------------- MODULE VencExecutorProofs -------------------------
(***************************************************************************)
(* Proofs about the encoder's executor for every number of frames, delay,  *)
(* depth and restarts, and every set of failures: Consistent, LockedIsHeld *)
(* and OutputInOrder.                                                      *)
(***************************************************************************)
EXTENDS VencExecutor, QueueCounts

Pending == {"wait", "test", "post"}        \* spc: a frame is counted, not yet posted
Encoding == {"encode", "busyTest", "busy"} \* tpc: the encoder has not taken frame_ref
Syncing == ypc \in {"sync", "push"}        \* an operation was taken and not pushed
IsSync == {t \in SyncTasks : t.kind = "sync"}

(***************************************************************************)
(* The phases.  A thread that was stopped stays stopped, also in the next  *)
(* life of the element; from then on the thread is idle, its queue empty.  *)
(***************************************************************************)
PhaseInv ==
  /\ taskOpen <=> restarts = 0 /\ elem \in {"playing", "flushing", "ready"}
  /\ syncOpen <=> restarts = 0 /\ elem \notin {"joinSync", "free", "null"}
  /\ restarts > 0 \/ elem \in {"stopSync", "joinSync", "free", "null"} =>
       tpc = "idle" /\ taskQ = <<>>
  /\ restarts > 0 \/ elem \in {"free", "null"} => ypc = "idle" /\ syncQ = <<>>
  /\ restarts > 0 \/ elem = "null" => locked = {} /\ buffered = {}
  /\ elem \notin {"playing", "flushing"} => spc \in {"idle", "failed"}
  /\ tpc \in {"idle", "loop", "submit"} => frame_ref = NoFrame

(***************************************************************************)
(* Frames go through the queues in the order they came, and the encoder    *)
(* has those before them.  Last is the one posted last.                    *)
(***************************************************************************)
Last == IF spc \in Pending THEN sent - 1 ELSE sent
Known == locked \cup buffered \cup {frame_ref}

FramesInOrder ==
  restarts = 0 =>
    /\ spc \in Pending => sent > 0
    /\ \A f \in Known : f <= Last
    /\ tpc \in Encoding => frame_ref \notin locked \cup buffered
    /\ \A i \in DOMAIN input_queue_ :
         /\ input_queue_[i] <= Last
         /\ \A f \in Known : f < input_queue_[i]
         /\ \A j \in DOMAIN input_queue_ : i < j => input_queue_[i] < input_queue_[j]
    /\ \A i \in DOMAIN taskQ :
         /\ taskQ[i] <= Last
         /\ taskQ[i] # EosTask =>
              /\ \A f \in Known : f < taskQ[i]
              /\ \A j \in DOMAIN input_queue_ : input_queue_[j] < taskQ[i]
              /\ \A j \in DOMAIN taskQ : i < j /\ taskQ[j] # EosTask => taskQ[i] < taskQ[j]

\* The counter of operations, in the terms of QueueCounts.
Counted == syncOpen => syncop_tasks_num_ = Num(syncQ, Len(syncQ), IsSync) + One(ypc # "idle")

(***************************************************************************)
(* Operations go through the sync thread in the order of their numbers.    *)
(***************************************************************************)
OpsInOrder ==
  /\ op \in {NoOp, ops}
  /\ op # NoOp => tpc \in {"release", "submit"}
  /\ tpc = "submit" => op # NoOp
  /\ Syncing => syncing <= ops /\ (op # NoOp => syncing < op)
  /\ \A i \in DOMAIN syncQ : syncQ[i] \in IsSync =>
       /\ syncQ[i].arg <= ops
       /\ op # NoOp => syncQ[i].arg < op
       /\ Syncing => syncing < syncQ[i].arg
       /\ \A j \in DOMAIN syncQ : i < j /\ syncQ[j] \in IsSync => syncQ[i].arg < syncQ[j].arg
  /\ \A i \in DOMAIN pushed :
       /\ pushed[i] <= ops
       /\ op # NoOp => pushed[i] < op
       /\ Syncing => pushed[i] < syncing
       /\ \A j \in DOMAIN syncQ : syncQ[j] \in IsSync => pushed[i] < syncQ[j].arg
       /\ \A j \in DOMAIN pushed : i < j => pushed[i] < pushed[j]

(***************************************************************************)
(* While nothing fails no number is left out, and every frame received is  *)
(* somewhere.                                                              *)
(***************************************************************************)
Base == Len(pushed) + One(Syncing)

OpsCounted ==
  /\ \A i \in DOMAIN pushed : pushed[i] = i
  /\ Syncing => syncing = Len(pushed) + 1
  /\ \A i \in DOMAIN syncQ : syncQ[i] \in IsSync => syncQ[i].arg = Base + Num(syncQ, i, IsSync)
  /\ ops = Base + Num(syncQ, Len(syncQ), IsSync) + One(op # NoOp)

FramesCounted ==
  sent = ops + Cardinality(buffered) + Len(input_queue_)
           + One(tpc \in Encoding /\ frame_ref # NoFrame)
           + Num(taskQ, Len(taskQ), Frames) + One(spc \in Pending)

NothingLost == OpsCounted /\ FramesCounted

\* The end of the stream is the last task of each thread.
Drained ==
  /\ eosSent /\ taskQ = <<>> /\ input_queue_ = <<>> /\ buffered = {}
  /\ tpc = "idle" /\ op = NoOp /\ ~is_eos_

EosLast ==
  /\ \A i \in DOMAIN taskQ : taskQ[i] = EosTask => i = Len(taskQ) /\ eosSent
  /\ is_eos_ => eosSent /\ taskQ = <<>>
  /\ tpc \in Encoding /\ frame_ref = NoFrame => is_eos_ /\ input_queue_ = <<>>
  /\ \A i \in DOMAIN syncQ : syncQ[i].kind = "eos" => i = Len(syncQ) /\ Drained
  /\ eosOut => Drained /\ syncQ = <<>> /\ ypc = "idle"

(***************************************************************************)
(* Whatever fails, the end of the stream is known to whoever forwards it.  *)
(***************************************************************************)
EosKnown ==
  /\ eosSent => spc \notin Pending
  /\ eosOut => eosSent
  /\ tpc \in Encoding /\ frame_ref = NoFrame => is_eos_
  /\ (restarts = 0 /\ (\/ is_eos_
                       \/ \E i \in DOMAIN taskQ : taskQ[i] = EosTask
                       \/ \E i \in DOMAIN syncQ : syncQ[i].kind = "eos")) => eosSent

\* In a later life nothing is accepted.
Spent ==
  restarts > 0 => pushed = <<>> /\ (sent > 0 => spc \in Pending \/ failures # {})

Undisturbed == restarts = 0 /\ elem = "playing" /\ failures = {}

OrderInv ==
  /\ OpsInOrder
  /\ EosKnown
  /\ Spent
  /\ Undisturbed => NothingLost /\ EosLast
  /\ OutputInOrder

IInv == TypeOK /\ PhaseInv /\ FramesInOrder /\ Counted /\ LockedIsHeld /\ OrderInv
-----------------------------------------------------------------------------
(* Types.                                                                  *)

\* The first values of the variables whose types are not obvious.
LEMMA FirstValues ==
  /\ 0 \in 0 .. MaxFrames /\ 0 \in 0 .. MaxRestarts /\ NoOp = 0
  /\ <<>> \in Seq(Nat) /\ <<>> \in Seq(Frames) /\ <<>> \in Seq(SyncTasks)
  /\ <<>> \in Seq(Frames \cup {EosTask})
  BY FramesAssumption, EmptySeq DEF NoOp

\* The variables have their types after the CAPS event.
LEMMA InitType == Init => TypeOK
<1> SUFFICES ASSUME Init PROVE TypeOK
  OBVIOUS
<1>1. /\ spc \in {"idle", "wait", "test", "post", "failed"}
      /\ tpc \in {"idle", "loop", "encode", "busy", "busyTest", "release", "submit"}
      /\ ypc \in {"idle", "sync", "push", "clean"}
      /\ elem \in {"playing", "flushing", "ready", "joinTask", "stopSync", "joinSync",
                   "free", "null"}
  BY DEF Init
<1>2. /\ eosSent \in BOOLEAN /\ taskOpen \in BOOLEAN /\ is_eos_ \in BOOLEAN
      /\ syncOpen \in BOOLEAN /\ eosOut \in BOOLEAN
  BY DEF Init
<1>3. /\ sent \in 0 .. MaxFrames /\ restarts \in 0 .. MaxRestarts
      /\ pending_tasks_num_ \in Int /\ syncop_tasks_num_ \in Int
      /\ op \in Nat /\ ops \in Nat /\ syncing \in Nat
      /\ taskQ \in Seq(Frames \cup {EosTask}) /\ input_queue_ \in Seq(Frames)
      /\ syncQ \in Seq(SyncTasks) /\ pushed \in Seq(Nat)
  BY FirstValues DEF Init
<1>4. /\ frame_ref \in Frames \cup {NoFrame}
      /\ buffered \in SUBSET Frames /\ locked \in SUBSET Frames
      /\ input_locked_frames_ \in SUBSET Frames
      /\ failures \subseteq Faults \cup {"flow", "refused"}
  BY DEF Init
<1> QED BY <1>1, <1>2, <1>3, <1>4 DEF TypeOK

\* The tasks of the sync thread have their type.
LEMMA TaskTypes ==
  /\ \A f \in Frames : Release(f) \in SyncTasks /\ Release(f) \notin IsSync
  /\ \A k \in Nat : SyncOp(k) \in IsSync /\ SyncOp(k).arg = k
  /\ NotifyEos \in SyncTasks /\ NotifyEos \notin IsSync
  /\ IsSync \subseteq SyncTasks
  BY DEF Release, SyncOp, NotifyEos, SyncTasks, IsSync, Frames

\* Every step keeps the types.
LEMMA TypeStep == TypeOK /\ [Next]_vars => TypeOK'
<1> SUFFICES ASSUME TypeOK, [Next]_vars PROVE TypeOK'
  OBVIOUS
<1> USE DEF TypeOK, stream, tasks, encoder, syncs, downstream, app, Fail
<1>1. CASE Chain
  BY <1>1, FramesAssumption DEF Chain
<1>2. CASE ChainTest
  BY <1>2 DEF ChainTest
<1>3. CASE ChainPost
  <2>1. Append(taskQ, sent) \in Seq(Frames \cup {EosTask})
    BY FramesAssumption DEF Frames, EosTask
  <2>2. /\ taskQ' \in Seq(Frames \cup {EosTask}) /\ spc' \in {"idle", "failed"}
        /\ failures' \subseteq Faults \cup {"flow", "refused"}
    BY <1>3, <2>1 DEF ChainPost
  <2> QED BY <1>3, <2>2 DEF ChainPost
<1>4. CASE SendEos
  BY <1>4 DEF SendEos
<1>5. CASE TakeFrame
  <2>1. taskQ # <<>> /\ Head(taskQ) # EosTask
    BY <1>5 DEF TakeFrame
  <2>2. Head(taskQ) \in Frames /\ Tail(taskQ) \in Seq(Frames \cup {EosTask})
    BY <2>1, Taken
  <2> QED BY <1>5, <2>2 DEF TakeFrame
<1>6. CASE TakeEos
  BY <1>6, Taken DEF TakeEos
<1>7. CASE LoopEnd
  BY <1>7 DEF LoopEnd
<1>8. CASE LoopNext
  <2>1. CASE input_queue_ # <<>>
    <3>1. Head(input_queue_) \in Frames /\ Tail(input_queue_) \in Seq(Frames)
      BY <2>1, Taken
    <3>2. frame_ref' \in Frames /\ input_queue_' \in Seq(Frames)
      BY <1>8, <2>1, <3>1 DEF LoopNext
    <3> QED BY <1>8, <3>2 DEF LoopNext
  <2>2. CASE input_queue_ = <<>>
    BY <1>8, <2>2 DEF LoopNext
  <2> QED BY <2>1, <2>2
<1>9. CASE LoopNoBuffer
  BY <1>9 DEF LoopNoBuffer
<1>10. CASE EncodeBusy
  BY <1>10 DEF EncodeBusy
<1>11. CASE BusyTest
  BY <1>11 DEF BusyTest
<1>12. CASE EncodeNone
  BY <1>12 DEF EncodeNone, NoFrame
<1>13. CASE EncodeMoreData
  BY <1>13 DEF EncodeMoreData, NoOp
<1>14. CASE EncodeDrained
  <2>1. Append(syncQ, NotifyEos) \in Seq(SyncTasks)
    BY TaskTypes
  <2> QED BY <1>14, <2>1 DEF EncodeDrained, PostSync
<1>15. CASE EncodeError
  BY <1>15 DEF EncodeError
<1>16. CASE ReleaseInputSurface
  <2>1. frame_ref \in locked => Append(syncQ, Release(frame_ref)) \in Seq(SyncTasks)
    BY TaskTypes
  <2> QED BY <1>16, <2>1 DEF ReleaseInputSurface, PostSync
<1>17. CASE Submit
  <2>1. Append(syncQ, SyncOp(op)) \in Seq(SyncTasks)
    BY TaskTypes DEF IsSync
  <2> QED BY <1>17, <2>1 DEF Submit, PostSync, NoOp
<1>18. CASE TakeRelease \/ TakeNotifyEos \/ TakeSync
  <2>1. syncQ # <<>>
    BY <1>18 DEF TakeRelease, TakeNotifyEos, TakeSync
  <2>2. Head(syncQ) \in SyncTasks /\ Tail(syncQ) \in Seq(SyncTasks)
    BY <2>1, Taken
  <2>3. Head(syncQ).arg \in Nat
    BY <2>2 DEF SyncTasks
  <2>4. CASE TakeRelease
    BY <2>2, <2>4 DEF TakeRelease
  <2>5. CASE TakeNotifyEos
    BY <2>2, <2>5 DEF TakeNotifyEos
  <2>6. CASE TakeSync
    BY <2>2, <2>3, <2>6 DEF TakeSync
  <2> QED BY <1>18, <2>4, <2>5, <2>6
<1>19. CASE SyncDone
  BY <1>19 DEF SyncDone
<1>20. CASE SyncError
  BY <1>20 DEF SyncError, EndSync, NoOp
<1>21. CASE Push
  <2>1. Append(pushed, syncing) \in Seq(Nat)
    OBVIOUS
  <2>2. pushed' \in Seq(Nat) /\ failures' \subseteq Faults \cup {"flow", "refused"}
    BY <1>21, <2>1 DEF Push
  <2> QED BY <1>21, <2>2 DEF Push
<1>22. CASE Clean
  BY <1>22 DEF Clean, EndSync, NoOp
<1>23. ASSUME NEW f \in Frames, Unlock(f) PROVE TypeOK'
  BY <1>23 DEF Unlock
<1>24. CASE Deactivate
  BY <1>24 DEF Deactivate, Change
<1>25. CASE Deactivated
  BY <1>25 DEF Deactivated, Change
<1>26. CASE StopTaskThread
  <2>1. taskOpen' \in BOOLEAN
    BY <1>26 DEF StopTaskThread
  <2> QED BY <1>26, <2>1 DEF StopTaskThread, Change
<1>27. CASE JoinTaskThread
  BY <1>27 DEF JoinTaskThread, Change
<1>28. CASE StopSyncThread
  <2>1. syncOpen' \in BOOLEAN
    BY <1>28 DEF StopSyncThread
  <2> QED BY <1>28, <2>1 DEF StopSyncThread, Change
<1>29. CASE JoinSyncThread
  BY <1>29 DEF JoinSyncThread, Change
<1>30. CASE Free
  BY <1>30 DEF Free, Change
<1>31. CASE Restart
  <2>1. spc' = "idle" /\ failures' = {} /\ elem' = "playing" /\ ops' \in Nat
    BY <1>31 DEF Restart
  <2>2. eosSent' \in BOOLEAN /\ eosOut' \in BOOLEAN
    BY <1>31 DEF Restart
  <2>3. sent' \in 0 .. MaxFrames /\ restarts' \in 0 .. MaxRestarts
    BY <1>31, FramesAssumption DEF Restart
  <2>4. pushed' \in Seq(Nat)
    BY <1>31, FirstValues DEF Restart
  <2> QED BY <1>31, <2>1, <2>2, <2>3, <2>4 DEF Restart
<1>32. CASE UNCHANGED vars
  BY <1>32 DEF vars
<1> QED
  BY <1>1, <1>2, <1>3, <1>4, <1>5, <1>6, <1>7, <1>8, <1>9, <1>10, <1>11, <1>12, <1>13,
     <1>14, <1>15, <1>16, <1>17, <1>18, <1>19, <1>20, <1>21, <1>22, <1>23, <1>24, <1>25,
     <1>26, <1>27, <1>28, <1>29, <1>30, <1>31, <1>32
  DEF Next, TaskStep, SyncStep, DisposeStep
-----------------------------------------------------------------------------
(* The phases.                                                             *)

\* A life begins with both threads running and ends with both stopped for ever.
LEMMA PhaseStep == TypeOK /\ PhaseInv /\ [Next]_vars => PhaseInv'
<1> SUFFICES ASSUME TypeOK, PhaseInv, [Next]_vars PROVE PhaseInv'
  OBVIOUS
<1> USE DEF PhaseInv, stream, tasks, encoder, syncs, downstream, app
<1>t. /\ restarts \in Nat /\ taskOpen \in BOOLEAN /\ syncOpen \in BOOLEAN
      /\ elem \in {"playing", "flushing", "ready", "joinTask", "stopSync", "joinSync",
                   "free", "null"}
  BY FramesAssumption DEF TypeOK
<1>1. CASE Chain
  BY <1>1, <1>t DEF Chain
<1>2. CASE ChainTest
  BY <1>2, <1>t DEF ChainTest
<1>3. CASE ChainPost
  BY <1>3, <1>t DEF ChainPost
<1>4. CASE SendEos
  BY <1>4, <1>t DEF SendEos
<1>5. CASE TakeFrame
  BY <1>5, <1>t DEF TakeFrame
<1>6. CASE TakeEos
  BY <1>6, <1>t DEF TakeEos
<1>7. CASE LoopEnd
  BY <1>7, <1>t DEF LoopEnd
<1>8. CASE LoopNext
  BY <1>8, <1>t DEF LoopNext
<1>9. CASE LoopNoBuffer
  BY <1>9, <1>t DEF LoopNoBuffer
<1>10. CASE EncodeBusy
  BY <1>10, <1>t DEF EncodeBusy
<1>11. CASE BusyTest
  BY <1>11, <1>t DEF BusyTest
<1>12. CASE EncodeNone
  BY <1>12, <1>t DEF EncodeNone
<1>13. CASE EncodeMoreData
  BY <1>13, <1>t DEF EncodeMoreData
<1>14. CASE EncodeDrained
  BY <1>14, <1>t DEF EncodeDrained, PostSync
<1>15. CASE EncodeError
  BY <1>15, <1>t DEF EncodeError
<1>16. CASE ReleaseInputSurface
  BY <1>16, <1>t DEF ReleaseInputSurface, PostSync
<1>17. CASE Submit
  BY <1>17, <1>t DEF Submit, PostSync
<1>18. CASE TakeRelease
  BY <1>18, <1>t DEF TakeRelease
<1>19. CASE TakeNotifyEos
  BY <1>19, <1>t DEF TakeNotifyEos
<1>20. CASE TakeSync
  BY <1>20, <1>t DEF TakeSync
<1>21. CASE SyncDone
  BY <1>21, <1>t DEF SyncDone
<1>22. CASE SyncError
  BY <1>22, <1>t DEF SyncError, EndSync
<1>23. CASE Push
  BY <1>23, <1>t DEF Push
<1>24. CASE Clean
  BY <1>24, <1>t DEF Clean, EndSync
<1>25. ASSUME NEW f \in Frames, Unlock(f) PROVE PhaseInv'
  BY <1>25, <1>t DEF Unlock
<1>26. CASE Deactivate
  BY <1>26, <1>t DEF Deactivate, Change
<1>27. CASE Deactivated
  BY <1>27, <1>t DEF Deactivated, Change
<1>28. CASE StopTaskThread
  BY <1>28, <1>t DEF StopTaskThread, Change
<1>29. CASE JoinTaskThread
  BY <1>29, <1>t DEF JoinTaskThread, Change
<1>30. CASE StopSyncThread
  BY <1>30, <1>t DEF StopSyncThread, Change
<1>31. CASE JoinSyncThread
  BY <1>31, <1>t DEF JoinSyncThread, Change
<1>32. CASE Free
  BY <1>32, <1>t DEF Free, Change
<1>33. CASE Restart
  BY <1>33, <1>t DEF Restart
<1>34. CASE UNCHANGED vars
  BY <1>34 DEF vars
<1> QED
  BY <1>1, <1>2, <1>3, <1>4, <1>5, <1>6, <1>7, <1>8, <1>9, <1>10, <1>11, <1>12, <1>13,
     <1>14, <1>15, <1>16, <1>17, <1>18, <1>19, <1>20, <1>21, <1>22, <1>23, <1>24, <1>25,
     <1>26, <1>27, <1>28, <1>29, <1>30, <1>31, <1>32, <1>33, <1>34
  DEF Next, TaskStep, SyncStep, DisposeStep
-----------------------------------------------------------------------------
(* The frames.                                                             *)

\* The entries of the queues of frames, and the frames the encoder has.
LEMMA FrameTypes ==
  TypeOK => /\ sent \in Nat /\ frame_ref \in Nat
            /\ taskQ \in Seq(Nat) /\ Len(taskQ) \in Nat /\ DOMAIN taskQ = 1 .. Len(taskQ)
            /\ \A i \in DOMAIN taskQ : taskQ[i] \in Nat
            /\ input_queue_ \in Seq(Nat) /\ Len(input_queue_) \in Nat
            /\ DOMAIN input_queue_ = 1 .. Len(input_queue_)
            /\ \A i \in DOMAIN input_queue_ : input_queue_[i] \in Nat \ {0}
            /\ locked \subseteq Nat \ {0} /\ buffered \subseteq Nat \ {0}
<1> SUFFICES ASSUME TypeOK
             PROVE  /\ sent \in Nat /\ frame_ref \in Nat
                    /\ taskQ \in Seq(Nat) /\ Len(taskQ) \in Nat
                    /\ DOMAIN taskQ = 1 .. Len(taskQ)
                    /\ \A i \in DOMAIN taskQ : taskQ[i] \in Nat
                    /\ input_queue_ \in Seq(Nat) /\ Len(input_queue_) \in Nat
                    /\ DOMAIN input_queue_ = 1 .. Len(input_queue_)
                    /\ \A i \in DOMAIN input_queue_ : input_queue_[i] \in Nat \ {0}
                    /\ locked \subseteq Nat \ {0} /\ buffered \subseteq Nat \ {0}
  OBVIOUS
<1>1. Frames \subseteq Nat \ {0} /\ EosTask = 0 /\ NoFrame = 0
  BY FramesAssumption DEF Frames, EosTask, NoFrame
<1>2. taskQ \in Seq(Frames \cup {EosTask}) /\ input_queue_ \in Seq(Frames)
  BY DEF TypeOK
<1>3. taskQ \in Seq(Nat) /\ input_queue_ \in Seq(Nat \ {0}) /\ input_queue_ \in Seq(Nat)
  <2>1. Seq(Frames \cup {EosTask}) \subseteq Seq(Nat)
    <3>1. Frames \cup {EosTask} \subseteq Nat
      BY <1>1
    <3> QED BY <3>1, SeqMonotonic
  <2>2. Seq(Frames) \subseteq Seq(Nat \ {0})
    BY <1>1, SeqMonotonic
  <2>3. Seq(Frames) \subseteq Seq(Nat)
    <3>1. Frames \subseteq Nat
      BY <1>1
    <3> QED BY <3>1, SeqMonotonic
  <2> QED BY <1>2, <2>1, <2>2, <2>3
<1>4. sent \in Nat /\ frame_ref \in Nat /\ locked \subseteq Nat \ {0} /\ buffered \subseteq Nat \ {0}
  BY <1>1, FramesAssumption DEF TypeOK
<1> QED BY <1>3, <1>4, LenProperties, ElementOfSeq

\* Frames stay in the order they came, whoever takes them.
LEMMA FramesStep ==
  TypeOK /\ PhaseInv /\ FramesInOrder /\ [Next]_vars => FramesInOrder'
<1> SUFFICES ASSUME TypeOK, PhaseInv, FramesInOrder, [Next]_vars, restarts' = 0
             PROVE  FramesInOrder'
  BY DEF FramesInOrder
<1> USE DEF FramesInOrder, Last, Known, Pending, Encoding, EosTask, NoFrame,
            stream, tasks, encoder, syncs, downstream, app
<1>1. CASE Chain
  BY <1>1, FrameTypes DEF Chain
<1>2. CASE ChainTest
  BY <1>2, FrameTypes DEF ChainTest
<1>3. CASE ChainPost
  <2>1. CASE taskOpen
    <3> DEFINE n == Len(taskQ)
    <3>1. /\ taskQ' = Append(taskQ, sent) /\ Last' = sent /\ Last = sent - 1
          /\ spc' = "idle" /\ Known' = Known /\ restarts = 0
          /\ UNCHANGED <<tpc, frame_ref, locked, buffered, input_queue_>>
      BY <1>3, <2>1 DEF ChainPost
    <3>2. /\ n \in Nat /\ DOMAIN taskQ = 1 .. n /\ DOMAIN taskQ' = 1 .. n + 1
          /\ \A i \in 1 .. n : taskQ'[i] = taskQ[i]
          /\ taskQ'[n + 1] = sent
      BY <3>1, FrameTypes, Appended
    <3> QED BY <3>1, <3>2, FrameTypes
  <2>2. CASE ~taskOpen
    BY <1>3, <2>2, FrameTypes DEF ChainPost
  <2> QED BY <2>1, <2>2
<1>4. CASE SendEos
  BY <1>4, FrameTypes DEF SendEos
<1>5. CASE TakeFrame
  <2> DEFINE n == Len(taskQ)
             m == Len(input_queue_)
             f == Head(taskQ)
  <2>1. /\ taskQ # <<>> /\ f # 0
        /\ taskQ' = Tail(taskQ) /\ input_queue_' = Append(input_queue_, f)
        /\ Last' = Last /\ Known' = Known /\ restarts = 0 /\ tpc' = "loop"
        /\ spc' \in Pending => spc \in Pending
        /\ sent' = sent
    BY <1>5 DEF TakeFrame
  <2>2. /\ n \in Nat \ {0} /\ DOMAIN taskQ = 1 .. n /\ DOMAIN taskQ' = 1 .. n - 1
        /\ f = taskQ[1] /\ f \in Nat
        /\ \A i \in 1 .. n - 1 : taskQ'[i] = taskQ[i + 1]
    BY <2>1, FrameTypes, Taken
  <2>3. /\ m \in Nat /\ DOMAIN input_queue_ = 1 .. m /\ DOMAIN input_queue_' = 1 .. m + 1
        /\ \A i \in 1 .. m : input_queue_'[i] = input_queue_[i]
        /\ input_queue_'[m + 1] = f
    BY <2>1, <2>2, FrameTypes, Appended
  <2>o. /\ f <= Last /\ (\A g \in Known : g < f)
        /\ \A j \in 1 .. m : input_queue_[j] < f
        /\ \A j \in 2 .. n : taskQ[j] # 0 => f < taskQ[j]
    BY <2>1, <2>2, <2>3
  <2>p. \A i \in 1 .. m :
         /\ input_queue_[i] <= Last /\ (\A g \in Known : g < input_queue_[i])
         /\ \A j \in 1 .. m : i < j => input_queue_[i] < input_queue_[j]
    BY <2>1, <2>3
  <2>q. \A i \in 1 .. n :
         /\ taskQ[i] <= Last
         /\ taskQ[i] # 0 =>
              /\ \A g \in Known : g < taskQ[i]
              /\ \A j \in 1 .. m : input_queue_[j] < taskQ[i]
              /\ \A j \in 1 .. n : i < j /\ taskQ[j] # 0 => taskQ[i] < taskQ[j]
    BY <2>1, <2>2, <2>3
  <2> HIDE DEF n, m, f, FramesInOrder, Last, Known
  <2>4. \A i \in DOMAIN input_queue_' :
         /\ input_queue_'[i] <= Last'
         /\ \A g \in Known' : g < input_queue_'[i]
         /\ \A j \in DOMAIN input_queue_' : i < j => input_queue_'[i] < input_queue_'[j]
    BY <2>1, <2>2, <2>3, <2>o, <2>p, FrameTypes
  <2>5. \A i \in DOMAIN taskQ' :
         /\ taskQ'[i] <= Last'
         /\ taskQ'[i] # EosTask =>
              /\ \A g \in Known' : g < taskQ'[i]
              /\ \A j \in DOMAIN input_queue_' : input_queue_'[j] < taskQ'[i]
              /\ \A j \in DOMAIN taskQ' : i < j /\ taskQ'[j] # EosTask => taskQ'[i] < taskQ'[j]
    <3> SUFFICES ASSUME NEW i \in 1 .. n - 1
                 PROVE  /\ taskQ[i + 1] <= Last
                        /\ taskQ[i + 1] # 0 =>
                             /\ \A g \in Known : g < taskQ[i + 1]
                             /\ \A j \in 1 .. m + 1 : input_queue_'[j] < taskQ[i + 1]
                             /\ \A j \in 1 .. n - 1 : i < j /\ taskQ[j + 1] # 0 =>
                                  taskQ[i + 1] < taskQ[j + 1]
      BY <2>1, <2>2, <2>3
    <3>1. i + 1 \in 2 .. n /\ \A j \in 1 .. n - 1 : j + 1 \in 1 .. n
      BY <2>2
    <3> QED BY <2>2, <2>3, <2>o, <2>q, <3>1
  <2> QED BY <2>1, <2>4, <2>5 DEF FramesInOrder, Last, Known
<1>6. CASE TakeEos
  BY <1>6, FrameTypes DEF TakeEos
<1>7. CASE LoopNext
  <2>1. CASE input_queue_ # <<>>
    <3> DEFINE m == Len(input_queue_)
               f == Head(input_queue_)
    <3>1. /\ frame_ref' = f /\ input_queue_' = Tail(input_queue_) /\ tpc' = "encode"
          /\ UNCHANGED <<taskQ, locked, buffered, sent, spc>>
          /\ Last' = Last /\ restarts = 0
      BY <1>7, <2>1 DEF LoopNext
    <3>2. /\ m \in Nat \ {0} /\ DOMAIN input_queue_ = 1 .. m
          /\ DOMAIN input_queue_' = 1 .. m - 1
          /\ f = input_queue_[1] /\ f \in Nat
          /\ \A i \in 1 .. m - 1 : input_queue_'[i] = input_queue_[i + 1]
      BY <2>1, <3>1, FrameTypes, Taken
    <3>3. /\ f <= Last /\ (\A g \in Known : g < f)
          /\ \A j \in 2 .. m : f < input_queue_[j]
          /\ \A i \in DOMAIN taskQ : taskQ[i] # 0 => f < taskQ[i]
      BY <3>1, <3>2
    <3>4. Known' \subseteq Known \cup {f} /\ locked \cup buffered \subseteq Known
      BY <3>1
    <3> HIDE DEF m, f, Known
    <3>5. f \notin locked \cup buffered
      BY <3>2, <3>3, <3>4
    <3>6. \A i \in DOMAIN input_queue_' :
           /\ input_queue_'[i] <= Last
           /\ \A g \in Known' : g < input_queue_'[i]
           /\ \A j \in DOMAIN input_queue_' : i < j => input_queue_'[i] < input_queue_'[j]
      BY <3>1, <3>2, <3>3, <3>4, FrameTypes
    <3>7. \A i \in DOMAIN taskQ : taskQ[i] # 0 =>
           \A j \in DOMAIN input_queue_' : input_queue_'[j] < taskQ[i]
      BY <3>1, <3>2, FrameTypes
    <3> QED BY <3>1, <3>2, <3>3, <3>4, <3>5, <3>6, <3>7, FrameTypes
  <2>2. CASE input_queue_ = <<>>
    BY <1>7, <2>2, FrameTypes DEF LoopNext, PhaseInv
  <2> QED BY <2>1, <2>2
<1>8. CASE LoopEnd
  BY <1>8, FrameTypes DEF LoopEnd
<1>9. CASE LoopNoBuffer
  BY <1>9, FrameTypes DEF LoopNoBuffer
<1>10. CASE EncodeBusy
  BY <1>10, FrameTypes DEF EncodeBusy
<1>11. CASE BusyTest
  BY <1>11, FrameTypes DEF BusyTest
<1>12. CASE EncodeNone
  BY <1>12, FrameTypes DEF EncodeNone
<1>13. CASE EncodeMoreData
  BY <1>13, FrameTypes DEF EncodeMoreData
<1>14. CASE EncodeDrained
  BY <1>14, FrameTypes DEF EncodeDrained
<1>15. CASE EncodeError
  BY <1>15, FrameTypes DEF EncodeError
<1>16. CASE ReleaseInputSurface
  BY <1>16, FrameTypes DEF ReleaseInputSurface
<1>17. CASE Submit
  BY <1>17, FrameTypes DEF Submit
<1>18. CASE TakeRelease
  BY <1>18, FrameTypes DEF TakeRelease
<1>19. CASE TakeNotifyEos
  BY <1>19, FrameTypes DEF TakeNotifyEos
<1>20. CASE TakeSync
  BY <1>20, FrameTypes DEF TakeSync
<1>21. CASE SyncDone
  BY <1>21, FrameTypes DEF SyncDone
<1>22. CASE SyncError
  BY <1>22, FrameTypes DEF SyncError, EndSync
<1>23. CASE Push
  BY <1>23, FrameTypes DEF Push
<1>24. CASE Clean
  BY <1>24, FrameTypes DEF Clean, EndSync
<1>25. ASSUME NEW f \in Frames, Unlock(f) PROVE FramesInOrder'
  BY <1>25, FrameTypes DEF Unlock
<1>26. CASE Deactivate
  BY <1>26, FrameTypes DEF Deactivate, Change
<1>27. CASE Deactivated
  BY <1>27, FrameTypes DEF Deactivated, Change
<1>28. CASE StopTaskThread
  BY <1>28, FrameTypes DEF StopTaskThread, Change
<1>29. CASE JoinTaskThread
  BY <1>29, FrameTypes DEF JoinTaskThread, Change
<1>30. CASE StopSyncThread
  BY <1>30, FrameTypes DEF StopSyncThread, Change
<1>31. CASE JoinSyncThread
  BY <1>31, FrameTypes DEF JoinSyncThread, Change
<1>32. CASE Free
  BY <1>32, FrameTypes DEF Free, Change
<1>33. CASE Restart
  BY <1>33 DEF Restart, TypeOK
<1>34. CASE UNCHANGED vars
  BY <1>34 DEF vars
<1> QED
  BY <1>1, <1>2, <1>3, <1>4, <1>5, <1>6, <1>7, <1>8, <1>9, <1>10, <1>11, <1>12, <1>13,
     <1>14, <1>15, <1>16, <1>17, <1>18, <1>19, <1>20, <1>21, <1>22, <1>23, <1>24, <1>25,
     <1>26, <1>27, <1>28, <1>29, <1>30, <1>31, <1>32, <1>33, <1>34
  DEF Next, TaskStep, SyncStep, DisposeStep
-----------------------------------------------------------------------------
(* The counter of operations.                                              *)

\* The entries of the sync thread's queue.
LEMMA SyncTypes ==
  ASSUME TypeOK
  PROVE  /\ syncQ \in Seq(SyncTasks) /\ Len(syncQ) \in Nat /\ DOMAIN syncQ = 1 .. Len(syncQ)
         /\ \A i \in DOMAIN syncQ : syncQ[i] \in SyncTasks
         /\ Num(syncQ, Len(syncQ), IsSync) \in Nat
         /\ syncop_tasks_num_ \in Int
<1>1. syncQ \in Seq(SyncTasks) /\ syncop_tasks_num_ \in Int
  BY DEF TypeOK
<1>2. Len(syncQ) \in Nat
  BY <1>1, LenProperties
<1> QED BY <1>1, <1>2, LenProperties, ElementOfSeq, NumType

\* PostSync() of a task while sync_thread_ is open, and of any to a closed one.
LEMMA Posted ==
  ASSUME TypeOK, NEW t \in SyncTasks, syncQ' = PostSync(t)
  PROVE  /\ ~syncOpen => syncQ' = syncQ
         /\ syncOpen => /\ Len(syncQ') = Len(syncQ) + 1
                        /\ DOMAIN syncQ' = 1 .. Len(syncQ) + 1
                        /\ \A i \in 1 .. Len(syncQ) : syncQ'[i] = syncQ[i]
                        /\ syncQ'[Len(syncQ) + 1] = t
                        /\ Num(syncQ', Len(syncQ'), IsSync)
                             = Num(syncQ, Len(syncQ), IsSync) + One(t \in IsSync)
                        /\ \A n \in 0 .. Len(syncQ) : Num(syncQ', n, IsSync) = Num(syncQ, n, IsSync)
<1>1. CASE syncOpen
  <2>1. syncQ' = Append(syncQ, t)
    BY <1>1 DEF PostSync
  <2> QED BY <1>1, <2>1, SyncTypes, Appended, NumAppend
<1>2. CASE ~syncOpen
  BY <1>2 DEF PostSync
<1> QED BY <1>1, <1>2

\* What taking a task from sync_thread_'s queue leaves.
LEMMA SyncTaken ==
  ASSUME TypeOK, syncQ # <<>>, syncQ' = Tail(syncQ)
  PROVE  /\ Len(syncQ) \in Nat \ {0} /\ Len(syncQ') = Len(syncQ) - 1
         /\ DOMAIN syncQ = 1 .. Len(syncQ) /\ DOMAIN syncQ' = 1 .. Len(syncQ) - 1
         /\ Head(syncQ) = syncQ[1] /\ Head(syncQ) \in SyncTasks
         /\ \A i \in 1 .. Len(syncQ) - 1 : syncQ'[i] = syncQ[i + 1]
         /\ \A n \in 0 .. Len(syncQ) - 1 :
              Num(syncQ, n + 1, IsSync) = Num(syncQ', n, IsSync) + One(Head(syncQ) \in IsSync)
         /\ Num(syncQ, Len(syncQ), IsSync)
              = Num(syncQ', Len(syncQ'), IsSync) + One(Head(syncQ) \in IsSync)
<1>1. /\ Len(syncQ) \in Nat \ {0} /\ Len(syncQ') = Len(syncQ) - 1
      /\ DOMAIN syncQ = 1 .. Len(syncQ) /\ DOMAIN syncQ' = 1 .. Len(syncQ) - 1
      /\ Head(syncQ) = syncQ[1] /\ Head(syncQ) \in SyncTasks
      /\ \A i \in 1 .. Len(syncQ) - 1 : syncQ'[i] = syncQ[i + 1]
  BY SyncTypes, Taken
<1>2. \A n \in 0 .. Len(syncQ) - 1 :
        Num(syncQ, n + 1, IsSync) = Num(syncQ', n, IsSync) + One(Head(syncQ) \in IsSync)
  BY SyncTypes, NumTail
<1>3. Len(syncQ) - 1 \in 0 .. Len(syncQ) - 1 /\ (Len(syncQ) - 1) + 1 = Len(syncQ)
  BY <1>1
<1> QED BY <1>1, <1>2, <1>3

\* syncop_tasks_num_ follows every post, and every operation finished.
LEMMA CountedStep == TypeOK /\ PhaseInv /\ Counted /\ [Next]_vars => Counted'
<1> SUFFICES ASSUME TypeOK, PhaseInv, Counted, [Next]_vars, syncOpen' PROVE Counted'
  BY DEF Counted
<1> DEFINE Posts == Num(syncQ, Len(syncQ), IsSync)
<1>t. Posts \in Nat /\ Posts' \in Nat /\ syncop_tasks_num_ \in Int
  <2>1. syncQ' \in Seq(SyncTasks)
    BY TypeStep DEF TypeOK
  <2>2. Len(syncQ') \in Nat
    BY <2>1, LenProperties
  <2>3. Posts' \in Nat
    BY <2>2, NumType
  <2> QED BY <2>3, SyncTypes
<1>u. ASSUME UNCHANGED <<syncOpen, syncQ, syncop_tasks_num_>>, ypc = "idle" <=> ypc' = "idle"
      PROVE  Counted'
  BY <1>u DEF Counted, One
<1> USE DEF stream, tasks, encoder, syncs, downstream, app
<1>1. CASE Chain
  BY <1>1, <1>u DEF Chain
<1>2. CASE ChainTest
  BY <1>2, <1>u DEF ChainTest
<1>3. CASE ChainPost
  BY <1>3, <1>u DEF ChainPost
<1>4. CASE SendEos
  BY <1>4, <1>u DEF SendEos
<1>5. CASE TakeFrame
  BY <1>5, <1>u DEF TakeFrame
<1>6. CASE TakeEos
  BY <1>6, <1>u DEF TakeEos
<1>7. CASE LoopEnd
  BY <1>7, <1>u DEF LoopEnd
<1>8. CASE LoopNext
  BY <1>8, <1>u DEF LoopNext
<1>9. CASE LoopNoBuffer
  BY <1>9, <1>u DEF LoopNoBuffer
<1>10. CASE EncodeBusy
  BY <1>10, <1>u DEF EncodeBusy
<1>11. CASE BusyTest
  BY <1>11, <1>u DEF BusyTest
<1>12. CASE EncodeNone
  BY <1>12, <1>u DEF EncodeNone
<1>13. CASE EncodeMoreData
  BY <1>13, <1>u DEF EncodeMoreData
<1>14. CASE EncodeDrained
  <2>1. syncQ' = PostSync(NotifyEos) /\ UNCHANGED <<syncOpen, syncop_tasks_num_, ypc>>
    BY <1>14 DEF EncodeDrained
  <2>2. Posts' = Posts
    BY <2>1, <1>t, Posted, TaskTypes DEF One
  <2> QED BY <2>1, <2>2 DEF Counted
<1>15. CASE EncodeError
  BY <1>15, <1>u DEF EncodeError
<1>16. CASE ReleaseInputSurface
  <2>1. UNCHANGED <<syncOpen, syncop_tasks_num_, ypc>>
    BY <1>16 DEF ReleaseInputSurface
  <2>2. CASE frame_ref \in locked
    <3>1. Release(frame_ref) \in SyncTasks /\ Release(frame_ref) \notin IsSync
      BY <2>2, TaskTypes DEF TypeOK
    <3>2. syncQ' = PostSync(Release(frame_ref))
      BY <1>16, <2>2 DEF ReleaseInputSurface
    <3>3. Posts' = Posts
      BY <1>t, <2>1, <3>1, <3>2, Posted DEF One
    <3> QED BY <2>1, <3>3 DEF Counted
  <2>3. CASE frame_ref \notin locked
    BY <1>16, <2>3, <1>u DEF ReleaseInputSurface
  <2> QED BY <2>2, <2>3
<1>17. CASE Submit
  <2>1. /\ syncQ' = PostSync(SyncOp(op)) /\ UNCHANGED <<syncOpen, ypc>>
        /\ syncop_tasks_num_' = syncop_tasks_num_ + 1
    BY <1>17 DEF Submit
  <2>2. SyncOp(op) \in SyncTasks /\ SyncOp(op) \in IsSync
    BY TaskTypes DEF TypeOK
  <2>3. Posts' = Posts + 1
    BY <1>t, <2>1, <2>2, Posted DEF One
  <2> QED BY <1>t, <2>1, <2>3 DEF Counted, One
<1>18. CASE TakeRelease
  <2>1. /\ syncQ # <<>> /\ syncQ' = Tail(syncQ) /\ UNCHANGED <<syncOpen, syncop_tasks_num_>>
        /\ ypc = "idle" /\ ypc' = "idle" /\ Head(syncQ).kind = "release"
    BY <1>18 DEF TakeRelease
  <2>2. Head(syncQ) \notin IsSync
    BY <2>1, SyncTaken DEF IsSync
  <2>3. Posts = Posts'
    BY <1>t, <2>1, <2>2, SyncTaken DEF One
  <2> QED BY <1>t, <2>1, <2>3 DEF Counted, One
<1>19. CASE TakeNotifyEos
  <2>1. /\ syncQ # <<>> /\ syncQ' = Tail(syncQ) /\ UNCHANGED <<syncOpen, syncop_tasks_num_>>
        /\ ypc = "idle" /\ ypc' = "idle" /\ Head(syncQ).kind = "eos"
    BY <1>19 DEF TakeNotifyEos
  <2>2. Head(syncQ) \notin IsSync
    BY <2>1, SyncTaken DEF IsSync
  <2>3. Posts = Posts'
    BY <1>t, <2>1, <2>2, SyncTaken DEF One
  <2> QED BY <1>t, <2>1, <2>3 DEF Counted, One
<1>20. CASE TakeSync
  <2>1. /\ syncQ # <<>> /\ syncQ' = Tail(syncQ) /\ UNCHANGED <<syncOpen, syncop_tasks_num_>>
        /\ ypc = "idle" /\ ypc' = "sync" /\ Head(syncQ).kind = "sync"
    BY <1>20 DEF TakeSync
  <2>2. Head(syncQ) \in IsSync
    BY <2>1, SyncTaken DEF IsSync
  <2>3. Posts = Posts' + 1
    BY <1>t, <2>1, <2>2, SyncTaken DEF One
  <2> QED BY <1>t, <2>1, <2>3 DEF Counted, One
<1>21. CASE SyncDone
  BY <1>21, <1>u DEF SyncDone
<1>22. CASE SyncError
  BY <1>22, <1>t DEF SyncError, EndSync, Counted, One
<1>23. CASE Push
  BY <1>23, <1>u DEF Push
<1>24. CASE Clean
  BY <1>24, <1>t DEF Clean, EndSync, Counted, One
<1>25. ASSUME NEW f \in Frames, Unlock(f) PROVE Counted'
  BY <1>25, <1>u DEF Unlock
<1>26. CASE Deactivate
  BY <1>26, <1>u DEF Deactivate, Change
<1>27. CASE Deactivated
  BY <1>27, <1>u DEF Deactivated, Change
<1>28. CASE StopTaskThread
  BY <1>28, <1>u DEF StopTaskThread, Change
<1>29. CASE JoinTaskThread
  BY <1>29, <1>u DEF JoinTaskThread, Change
<1>30. CASE StopSyncThread
  BY <1>30 DEF StopSyncThread
<1>31. CASE JoinSyncThread
  <2>1. ~syncOpen
    BY <1>31 DEF JoinSyncThread, Change, PhaseInv
  <2> QED BY <1>31, <2>1 DEF JoinSyncThread
<1>32. CASE Free
  BY <1>32, <1>u DEF Free, Change
<1>33. CASE Restart
  BY <1>33, <1>u DEF Restart
<1>34. CASE UNCHANGED vars
  BY <1>34, <1>u DEF vars
<1> QED
  BY <1>1, <1>2, <1>3, <1>4, <1>5, <1>6, <1>7, <1>8, <1>9, <1>10, <1>11, <1>12, <1>13,
     <1>14, <1>15, <1>16, <1>17, <1>18, <1>19, <1>20, <1>21, <1>22, <1>23, <1>24, <1>25,
     <1>26, <1>27, <1>28, <1>29, <1>30, <1>31, <1>32, <1>33, <1>34
  DEF Next, TaskStep, SyncStep, DisposeStep
-----------------------------------------------------------------------------
(* The surfaces the encoder reads.                                         *)

\* Who takes a surface over holds it before the other lets it go.
LEMMA HeldStep ==
  TypeOK /\ PhaseInv /\ FramesInOrder /\ LockedIsHeld /\ [Next]_vars => LockedIsHeld'
<1> SUFFICES ASSUME TypeOK, PhaseInv, FramesInOrder, LockedIsHeld, [Next]_vars,
                    elem' \notin {"free", "null"}, NEW f \in locked'
             PROVE  Held(f)'
  BY DEF LockedIsHeld
<1>t. syncQ \in Seq(SyncTasks) /\ DOMAIN syncQ = 1 .. Len(syncQ) /\ NoFrame \notin locked
  BY SyncTypes, FramesAssumption DEF TypeOK, Frames, NoFrame
<1>u. ASSUME elem \notin {"free", "null"}, f \in locked,
             UNCHANGED <<frame_ref, syncQ, input_locked_frames_>>
      PROVE  Held(f)'
  BY <1>u DEF LockedIsHeld, Held
<1>l. ASSUME elem \notin {"free", "null"}, f \in locked, frame_ref = NoFrame,
             UNCHANGED <<syncQ, input_locked_frames_>>
      PROVE  Held(f)'
  BY <1>l, <1>t DEF LockedIsHeld, Held
<1>p. ASSUME elem \notin {"free", "null"}, f \in locked, frame_ref # f \/ frame_ref' = f,
             NEW t \in SyncTasks, syncQ' = PostSync(t), UNCHANGED input_locked_frames_
      PROVE  Held(f)'
  <2>1. CASE \E i \in DOMAIN syncQ : syncQ[i] = Release(f)
    <3>1. PICK i \in DOMAIN syncQ : syncQ[i] = Release(f)
      BY <2>1
    <3>2. i \in DOMAIN syncQ' /\ syncQ'[i] = Release(f)
      BY <1>p, <1>t, <3>1, SyncTypes, Posted
    <3> QED BY <3>2 DEF Held, Release
  <2> QED BY <1>p, <2>1 DEF LockedIsHeld, Held
<1>q. ASSUME elem \notin {"free", "null"}, f \in locked, UNCHANGED frame_ref,
             syncQ # <<>>, syncQ' = Tail(syncQ), input_locked_frames_ \subseteq input_locked_frames_',
             Head(syncQ) = Release(f) => f \in input_locked_frames_'
      PROVE  Held(f)'
  <2>1. CASE \E i \in DOMAIN syncQ : syncQ[i] = Release(f)
    <3>1. PICK i \in DOMAIN syncQ : syncQ[i] = Release(f)
      BY <2>1
    <3>2. i = 1 \/ (i - 1 \in DOMAIN syncQ' /\ syncQ'[i - 1] = Release(f))
      BY <1>q, <3>1, SyncTaken
    <3>3. CASE i = 1
      BY <1>q, <3>1, <3>3, SyncTaken DEF Held
    <3> QED BY <3>2, <3>3 DEF Held, Release
  <2> QED BY <1>q, <2>1 DEF LockedIsHeld, Held
<1> USE DEF stream, tasks, encoder, syncs, downstream, app
<1>1. CASE Chain
  BY <1>1, <1>u DEF Chain
<1>2. CASE ChainTest
  BY <1>2, <1>u DEF ChainTest
<1>3. CASE ChainPost
  BY <1>3, <1>u DEF ChainPost
<1>4. CASE SendEos
  BY <1>4, <1>u DEF SendEos
<1>5. CASE TakeFrame
  BY <1>5, <1>u DEF TakeFrame
<1>6. CASE TakeEos
  BY <1>6, <1>u DEF TakeEos
<1>7. CASE LoopEnd
  BY <1>7, <1>u DEF LoopEnd
<1>8. CASE LoopNext
  BY <1>8, <1>l DEF LoopNext, PhaseInv
<1>9. CASE LoopNoBuffer
  BY <1>9, <1>u DEF LoopNoBuffer
<1>10. CASE EncodeBusy
  BY <1>10, <1>u DEF EncodeBusy
<1>11. CASE BusyTest
  BY <1>11, <1>u DEF BusyTest
<1>12. CASE EncodeNone \/ EncodeMoreData
  <2>1. /\ UNCHANGED <<frame_ref, syncQ, input_locked_frames_, elem>>
        /\ f \in locked \/ f = frame_ref
    BY <1>12 DEF EncodeNone, EncodeMoreData
  <2> QED BY <2>1, <1>u DEF Held
<1>13. CASE EncodeDrained
  <2>1. frame_ref' = frame_ref /\ syncQ' = PostSync(NotifyEos) /\ f \in locked
    BY <1>13 DEF EncodeDrained
  <2>2. elem' = elem /\ UNCHANGED input_locked_frames_
    BY <1>13 DEF EncodeDrained
  <2> QED BY <1>p, <2>1, <2>2, TaskTypes
<1>14. CASE EncodeError
  <2>1. tpc = "encode" /\ UNCHANGED <<locked, syncQ, input_locked_frames_, elem>>
    BY <1>14 DEF EncodeError
  <2>2. frame_ref \notin locked
    BY <2>1, FramesAssumption DEF PhaseInv, FramesInOrder, Encoding, TypeOK
  <2> QED BY <2>1, <2>2 DEF LockedIsHeld, Held
<1>15. CASE ReleaseInputSurface
  <2>1. /\ tpc = "release" /\ frame_ref' = NoFrame
        /\ UNCHANGED <<locked, input_locked_frames_, elem, syncOpen>>
        /\ syncQ' = IF frame_ref \in locked THEN PostSync(Release(frame_ref)) ELSE syncQ
    BY <1>15 DEF ReleaseInputSurface
  <2>2. CASE f = frame_ref
    <3>1. Release(f) \in SyncTasks
      BY <2>1, TaskTypes DEF TypeOK
    <3>2. syncQ' = PostSync(Release(f)) /\ syncOpen
      BY <2>1, <2>2, FramesAssumption DEF PhaseInv, TypeOK
    <3>3. Len(syncQ) + 1 \in DOMAIN syncQ' /\ syncQ'[Len(syncQ) + 1] = Release(f)
      BY <3>1, <3>2, SyncTypes, Posted
    <3> QED BY <3>3 DEF Held, Release
  <2>3. CASE f # frame_ref /\ frame_ref \in locked
    <3>1. Release(frame_ref) \in SyncTasks
      BY <2>3, TaskTypes DEF TypeOK
    <3> QED BY <1>p, <2>1, <2>3, <3>1
  <2>4. CASE f # frame_ref /\ frame_ref \notin locked
    BY <2>1, <2>4 DEF LockedIsHeld, Held
  <2> QED BY <2>2, <2>3, <2>4
<1>16. CASE Submit
  <2>1. frame_ref' = frame_ref /\ syncQ' = PostSync(SyncOp(op)) /\ f \in locked
    BY <1>16 DEF Submit
  <2>2. elem' = elem /\ UNCHANGED input_locked_frames_
    BY <1>16 DEF Submit
  <2>3. SyncOp(op) \in SyncTasks
    BY TaskTypes DEF TypeOK
  <2> QED BY <1>p, <2>1, <2>2, <2>3
<1>17. CASE TakeRelease
  <2>1. /\ syncQ # <<>> /\ syncQ' = Tail(syncQ) /\ UNCHANGED <<elem, locked, frame_ref>>
        /\ input_locked_frames_' = input_locked_frames_ \cup ({Head(syncQ).arg} \cap locked)
    BY <1>17 DEF TakeRelease
  <2>2. Head(syncQ) = Release(f) => Head(syncQ).arg = f
    BY DEF Release
  <2> QED BY <1>q, <2>1, <2>2
<1>18. CASE TakeNotifyEos \/ TakeSync
  <2>1. /\ syncQ # <<>> /\ syncQ' = Tail(syncQ) /\ UNCHANGED <<elem, locked, frame_ref>>
        /\ UNCHANGED input_locked_frames_ /\ Head(syncQ).kind # "release"
    BY <1>18 DEF TakeNotifyEos, TakeSync
  <2>2. Head(syncQ) = Release(f) => Head(syncQ).kind = "release"
    BY DEF Release
  <2> QED BY <1>q, <2>1, <2>2
<1>19. CASE SyncDone
  BY <1>19, <1>u DEF SyncDone
<1>20. CASE SyncError
  BY <1>20, <1>u DEF SyncError, EndSync
<1>21. CASE Push
  BY <1>21, <1>u DEF Push
<1>22. CASE Clean
  <2>1. /\ UNCHANGED <<frame_ref, syncQ, elem, locked>>
        /\ input_locked_frames_' = input_locked_frames_ \cap locked
    BY <1>22 DEF Clean
  <2> QED BY <2>1 DEF LockedIsHeld, Held
<1>23. ASSUME NEW g \in Frames, Unlock(g) PROVE Held(f)'
  BY <1>23, <1>u DEF Unlock
<1>24. CASE Deactivate
  BY <1>24, <1>u DEF Deactivate, Change
<1>25. CASE Deactivated
  BY <1>25, <1>u DEF Deactivated, Change
<1>26. CASE StopTaskThread
  BY <1>26, <1>u DEF StopTaskThread, Change
<1>27. CASE JoinTaskThread
  BY <1>27, <1>u DEF JoinTaskThread, Change
<1>28. CASE StopSyncThread
  BY <1>28, <1>u DEF StopSyncThread, Change
<1>29. CASE JoinSyncThread
  BY <1>29 DEF JoinSyncThread, Change
<1>30. CASE Free
  BY <1>30 DEF Free, Change
<1>31. CASE Restart
  BY <1>31 DEF Restart, PhaseInv
<1>32. CASE UNCHANGED vars
  BY <1>32, <1>u DEF vars
<1> QED
  BY <1>1, <1>2, <1>3, <1>4, <1>5, <1>6, <1>7, <1>8, <1>9, <1>10, <1>11, <1>12, <1>13,
     <1>14, <1>15, <1>16, <1>17, <1>18, <1>19, <1>20, <1>21, <1>22, <1>23, <1>24, <1>25,
     <1>26, <1>27, <1>28, <1>29, <1>30, <1>31, <1>32
  DEF Next, TaskStep, SyncStep, DisposeStep
-----------------------------------------------------------------------------
(* The operations.                                                         *)

\* The numbers of the operations are natural numbers.
LEMMA OpTypes ==
  ASSUME TypeOK
  PROVE  /\ op \in Nat /\ ops \in Nat /\ syncing \in Nat
         /\ \A i \in DOMAIN syncQ : syncQ[i] \in IsSync => syncQ[i].arg \in Nat
         /\ pushed \in Seq(Nat) /\ Len(pushed) \in Nat /\ DOMAIN pushed = 1 .. Len(pushed)
         /\ \A i \in DOMAIN pushed : pushed[i] \in Nat
<1>1. pushed \in Seq(Nat) /\ op \in Nat /\ ops \in Nat /\ syncing \in Nat
  BY DEF TypeOK
<1>2. \A i \in DOMAIN syncQ : syncQ[i] \in IsSync => syncQ[i].arg \in Nat
  BY DEF IsSync, SyncTasks
<1> QED BY <1>1, <1>2, LenProperties, ElementOfSeq

\* Operations go downstream in the order of their numbers, whatever else happens.
LEMMA OpsStep == TypeOK /\ PhaseInv /\ OpsInOrder /\ [Next]_vars => OpsInOrder'
<1> SUFFICES ASSUME TypeOK, PhaseInv, OpsInOrder, [Next]_vars PROVE OpsInOrder'
  OBVIOUS
<1>u. ASSUME UNCHANGED <<op, ops, syncQ, ypc, syncing, pushed>>,
             tpc' = tpc \/ (tpc \notin {"release", "submit"} /\ tpc' # "submit")
      PROVE  OpsInOrder'
  BY <1>u DEF OpsInOrder, Syncing
<1>p. ASSUME UNCHANGED <<op, ops, ypc, syncing, pushed>>, op # NoOp => tpc' \in {"release", "submit"},
             tpc' = "submit" => op # NoOp,
             NEW t \in SyncTasks, t \notin IsSync, syncQ' = PostSync(t)
      PROVE  OpsInOrder'
  <2>1. \A i \in DOMAIN syncQ' : syncQ'[i] \in IsSync => i \in DOMAIN syncQ /\ syncQ'[i] = syncQ[i]
    BY <1>p, SyncTypes, Posted
  <2> QED BY <1>p, <2>1 DEF OpsInOrder, Syncing
<1>q. ASSUME UNCHANGED <<op, ops, ypc, syncing, pushed, tpc>>, syncQ # <<>>, syncQ' = Tail(syncQ)
      PROVE  OpsInOrder'
  <2>1. \A i \in DOMAIN syncQ' :
          i \in Nat /\ i + 1 \in DOMAIN syncQ /\ syncQ'[i] = syncQ[i + 1]
    BY <1>q, SyncTaken
  <2>2. \A i, j \in DOMAIN syncQ' : i < j => i + 1 < j + 1
    BY <2>1
  <2> QED BY <1>q, <2>1, <2>2 DEF OpsInOrder, Syncing
<1> USE DEF stream, tasks, encoder, syncs, downstream, app
<1>1. CASE Chain
  BY <1>1, <1>u DEF Chain
<1>2. CASE ChainTest
  BY <1>2, <1>u DEF ChainTest
<1>3. CASE ChainPost
  BY <1>3, <1>u DEF ChainPost
<1>4. CASE SendEos
  BY <1>4, <1>u DEF SendEos
<1>5. CASE TakeFrame
  BY <1>5, <1>u DEF TakeFrame
<1>6. CASE TakeEos
  BY <1>6, <1>u DEF TakeEos
<1>7. CASE LoopEnd
  BY <1>7, <1>u DEF LoopEnd
<1>8. CASE LoopNext
  BY <1>8, <1>u DEF LoopNext
<1>9. CASE LoopNoBuffer
  BY <1>9, <1>u DEF LoopNoBuffer
<1>10. CASE EncodeBusy
  BY <1>10, <1>u DEF EncodeBusy
<1>11. CASE BusyTest
  BY <1>11, <1>u DEF BusyTest
<1>12. CASE EncodeNone
  BY <1>12, OpTypes DEF EncodeNone, OpsInOrder, NoOp, Syncing
<1>13. CASE EncodeMoreData
  BY <1>13 DEF EncodeMoreData, OpsInOrder, NoOp, Syncing
<1>14. CASE EncodeDrained
  <2>1. syncQ' = PostSync(NotifyEos) /\ tpc = "encode" /\ tpc' = "idle"
    BY <1>14 DEF EncodeDrained
  <2>2. UNCHANGED <<op, ops, ypc, syncing, pushed>>
    BY <1>14 DEF EncodeDrained
  <2> QED BY <1>p, <2>1, <2>2, TaskTypes DEF OpsInOrder
<1>15. CASE EncodeError
  BY <1>15, <1>u DEF EncodeError
<1>16. CASE ReleaseInputSurface
  <2>1. /\ tpc = "release" /\ tpc' = (IF op = NoOp THEN "loop" ELSE "submit")
        /\ UNCHANGED <<op, ops, ypc, syncing, pushed>>
    BY <1>16 DEF ReleaseInputSurface
  <2>2. CASE frame_ref \in locked
    <3>1. Release(frame_ref) \in SyncTasks /\ Release(frame_ref) \notin IsSync
      BY <2>2, TaskTypes DEF TypeOK
    <3>2. syncQ' = PostSync(Release(frame_ref))
      BY <1>16, <2>2 DEF ReleaseInputSurface
    <3> QED BY <1>p, <2>1, <3>1, <3>2
  <2>3. CASE frame_ref \notin locked
    <3>1. syncQ' = syncQ
      BY <1>16, <2>3 DEF ReleaseInputSurface
    <3> QED BY <2>1, <3>1 DEF OpsInOrder, Syncing
  <2> QED BY <2>2, <2>3
<1>17. CASE Submit
  <2> DEFINE n == Len(syncQ)
  <2>1. /\ tpc = "submit" /\ tpc' = "loop" /\ op' = NoOp /\ syncQ' = PostSync(SyncOp(op))
        /\ UNCHANGED <<ops, ypc, syncing, pushed>>
    BY <1>17 DEF Submit
  <2>2. SyncOp(op) \in IsSync /\ SyncOp(op) \in SyncTasks /\ SyncOp(op).arg = op
    BY OpTypes, TaskTypes
  <2>3. CASE syncOpen
    <3>1. /\ n \in Nat /\ DOMAIN syncQ = 1 .. n /\ DOMAIN syncQ' = 1 .. n + 1
          /\ \A i \in 1 .. n : syncQ'[i] = syncQ[i]
          /\ syncQ'[n + 1].arg = op
      BY <2>1, <2>2, <2>3, SyncTypes, Posted
    <3>2. op = ops /\ op # NoOp
      BY <2>1 DEF OpsInOrder
    <3>3. \A i \in 1 .. n : syncQ[i] \in IsSync => syncQ[i].arg < op
      BY <3>1, <3>2 DEF OpsInOrder
    <3>4. (Syncing => syncing < op) /\ \A i \in DOMAIN pushed : pushed[i] < op
      BY <3>2 DEF OpsInOrder
    <3> HIDE DEF n
    <3>5. \A i \in DOMAIN syncQ' : syncQ'[i] \in IsSync =>
            /\ syncQ'[i].arg <= ops
            /\ Syncing => syncing < syncQ'[i].arg
            /\ \A j \in DOMAIN syncQ' :
                 i < j /\ syncQ'[j] \in IsSync => syncQ'[i].arg < syncQ'[j].arg
      <4>1. ASSUME NEW i \in 1 .. n, syncQ[i] \in IsSync, NEW j \in 1 .. n + 1, i < j,
                   syncQ'[j] \in IsSync
            PROVE  syncQ[i].arg < syncQ'[j].arg
        BY <4>1, <3>1, <3>3 DEF OpsInOrder
      <4>2. \A i \in 1 .. n : syncQ[i] \in IsSync =>
              syncQ[i].arg <= ops /\ (Syncing => syncing < syncQ[i].arg)
        BY <3>1 DEF OpsInOrder
      <4>3. \A j \in 1 .. n + 1 : ~(n + 1 < j)
        BY <3>1
      <4> QED BY <3>1, <3>2, <3>4, <4>1, <4>2, <4>3, OpTypes
    <3>6. \A i \in DOMAIN pushed : \A j \in DOMAIN syncQ' :
            syncQ'[j] \in IsSync => pushed[i] < syncQ'[j].arg
      BY <3>1, <3>4 DEF OpsInOrder
    <3> QED BY <2>1, <3>5, <3>6 DEF OpsInOrder, Syncing
  <2>4. CASE ~syncOpen
    <3>1. syncQ' = syncQ
      BY <2>1, <2>4 DEF PostSync
    <3> QED BY <2>1, <3>1 DEF OpsInOrder, Syncing
  <2> QED BY <2>3, <2>4
<1>18. CASE TakeRelease
  BY <1>18, <1>q DEF TakeRelease
<1>19. CASE TakeNotifyEos
  BY <1>19, <1>q DEF TakeNotifyEos
<1>20. CASE TakeSync
  <2> DEFINE h == Head(syncQ)
  <2>1. /\ syncQ # <<>> /\ h.kind = "sync" /\ syncQ' = Tail(syncQ) /\ syncing' = h.arg
        /\ ypc = "idle" /\ ypc' = "sync" /\ UNCHANGED <<op, ops, pushed, tpc>>
    BY <1>20 DEF TakeSync
  <2>2. /\ 1 \in DOMAIN syncQ /\ h = syncQ[1] /\ h \in IsSync
        /\ \A i \in DOMAIN syncQ' :
             i \in Nat \ {0} /\ i + 1 \in DOMAIN syncQ /\ syncQ'[i] = syncQ[i + 1]
    BY <2>1, SyncTaken DEF IsSync
  <2>3. /\ h.arg <= ops /\ (op # NoOp => h.arg < op)
        /\ \A i \in DOMAIN syncQ' : syncQ'[i] \in IsSync => h.arg < syncQ'[i].arg
        /\ \A i \in DOMAIN pushed : pushed[i] < h.arg
    BY <2>2 DEF OpsInOrder
  <2>4. \A i, j \in DOMAIN syncQ' : i < j => i + 1 < j + 1
    BY <2>2
  <2> HIDE DEF h
  <2> QED BY <2>1, <2>2, <2>3, <2>4 DEF OpsInOrder, Syncing
<1>21. CASE SyncDone
  BY <1>21 DEF SyncDone, OpsInOrder, Syncing
<1>22. CASE SyncError
  BY <1>22 DEF SyncError, EndSync, OpsInOrder, Syncing
<1>23. CASE Push
  <2>1. /\ ypc = "push" /\ ypc' = "clean" /\ UNCHANGED <<op, ops, syncQ, syncing, tpc>>
        /\ pushed' = Append(pushed, syncing) \/ pushed' = pushed
    BY <1>23 DEF Push
  <2>2. CASE pushed' = Append(pushed, syncing)
    <3> DEFINE n == Len(pushed)
    <3>1. /\ n \in Nat /\ DOMAIN pushed = 1 .. n /\ DOMAIN pushed' = 1 .. n + 1
          /\ \A i \in 1 .. n : pushed'[i] = pushed[i]
          /\ pushed'[n + 1] = syncing
      BY <2>2, OpTypes, Appended
    <3>2. /\ syncing <= ops /\ (op # NoOp => syncing < op)
          /\ \A i \in DOMAIN syncQ : syncQ[i] \in IsSync => syncing < syncQ[i].arg
          /\ \A i \in 1 .. n : pushed[i] < syncing
      BY <2>1, <3>1 DEF OpsInOrder, Syncing
    <3> HIDE DEF n
    <3>3. \A i \in DOMAIN pushed' :
            /\ pushed'[i] <= ops
            /\ op # NoOp => pushed'[i] < op
            /\ \A j \in DOMAIN syncQ : syncQ[j] \in IsSync => pushed'[i] < syncQ[j].arg
            /\ \A j \in DOMAIN pushed' : i < j => pushed'[i] < pushed'[j]
      BY <3>1, <3>2 DEF OpsInOrder
    <3> QED BY <2>1, <3>3 DEF OpsInOrder, Syncing
  <2>3. CASE pushed' = pushed
    BY <2>1, <2>3 DEF OpsInOrder, Syncing
  <2> QED BY <2>1, <2>2, <2>3
<1>24. CASE Clean
  BY <1>24 DEF Clean, EndSync, OpsInOrder, Syncing
<1>25. ASSUME NEW f \in Frames, Unlock(f) PROVE OpsInOrder'
  BY <1>25, <1>u DEF Unlock
<1>26. CASE Deactivate
  BY <1>26, <1>u DEF Deactivate, Change
<1>27. CASE Deactivated
  BY <1>27, <1>u DEF Deactivated, Change
<1>28. CASE StopTaskThread
  BY <1>28, <1>u DEF StopTaskThread, Change
<1>29. CASE JoinTaskThread
  BY <1>29, <1>u DEF JoinTaskThread, Change
<1>30. CASE StopSyncThread
  BY <1>30, <1>u DEF StopSyncThread, Change
<1>31. CASE JoinSyncThread
  BY <1>31 DEF JoinSyncThread, Change, OpsInOrder, Syncing
<1>32. CASE Free
  BY <1>32, <1>u DEF Free, Change
<1>33. CASE Restart
  <2>1. /\ tpc = "idle" /\ ypc = "idle" /\ syncQ = <<>>
        /\ UNCHANGED <<op, tpc, ypc, syncQ>> /\ pushed' = <<>>
    BY <1>33 DEF Restart, PhaseInv
  <2>2. op = NoOp
    BY <2>1 DEF OpsInOrder
  <2> QED BY <2>1, <2>2 DEF OpsInOrder, Syncing
<1>34. CASE UNCHANGED vars
  BY <1>34, <1>u DEF vars
<1> QED
  BY <1>1, <1>2, <1>3, <1>4, <1>5, <1>6, <1>7, <1>8, <1>9, <1>10, <1>11, <1>12, <1>13,
     <1>14, <1>15, <1>16, <1>17, <1>18, <1>19, <1>20, <1>21, <1>22, <1>23, <1>24, <1>25,
     <1>26, <1>27, <1>28, <1>29, <1>30, <1>31, <1>32, <1>33, <1>34
  DEF Next, TaskStep, SyncStep, DisposeStep
-----------------------------------------------------------------------------
(* The end of the stream.                                                  *)

\* The end of the stream is known to who forwards it.
LEMMA EosKnownStep ==
  TypeOK /\ PhaseInv /\ FramesInOrder /\ EosKnown /\ [Next]_vars => EosKnown'
<1> SUFFICES ASSUME TypeOK, PhaseInv, FramesInOrder, EosKnown, [Next]_vars PROVE EosKnown'
  OBVIOUS
<1>t. restarts \in Nat /\ eosSent \in BOOLEAN /\ eosOut \in BOOLEAN /\ is_eos_ \in BOOLEAN
  BY FramesAssumption DEF TypeOK
<1>p. ASSUME UNCHANGED <<stream, eosOut, is_eos_, taskQ, restarts>>,
             tpc' \in Encoding => tpc \in Encoding /\ UNCHANGED frame_ref,
             NEW t \in SyncTasks, t.kind # "eos", syncQ' = PostSync(t)
      PROVE  EosKnown'
  <2>1. \A i \in DOMAIN syncQ' : syncQ'[i].kind = "eos" => i \in DOMAIN syncQ /\ syncQ'[i] = syncQ[i]
    BY <1>p, SyncTypes, Posted
  <2> QED BY <1>p, <2>1 DEF EosKnown, stream
<1>q. ASSUME UNCHANGED <<stream, is_eos_, taskQ, restarts, tpc, frame_ref>>,
             syncQ # <<>>, syncQ' = Tail(syncQ),
             eosOut' => eosOut \/ (restarts = 0 /\ Head(syncQ).kind = "eos")
      PROVE  EosKnown'
  <2>1. /\ \A i \in DOMAIN syncQ' : i + 1 \in DOMAIN syncQ /\ syncQ'[i] = syncQ[i + 1]
        /\ 1 \in DOMAIN syncQ /\ Head(syncQ) = syncQ[1]
    BY <1>q, SyncTaken
  <2> QED BY <1>q, <2>1 DEF EosKnown, stream
<1> USE DEF EosKnown, Pending, Encoding, stream, tasks, encoder, syncs, downstream, app
<1>1. CASE Chain
  BY <1>1, <1>t DEF Chain
<1>2. CASE ChainTest
  BY <1>2, <1>t DEF ChainTest
<1>3. CASE ChainPost
  <2>1. CASE taskOpen
    <3>1. restarts = 0 /\ taskQ' = Append(taskQ, sent) /\ sent # 0
      BY <1>3, <1>t, <2>1 DEF ChainPost, PhaseInv, FramesInOrder
    <3>2. \A i \in DOMAIN taskQ' : taskQ'[i] = EosTask => i \in DOMAIN taskQ /\ taskQ'[i] = taskQ[i]
      BY <3>1, FrameTypes, Appended DEF EosTask
    <3> QED BY <1>3, <2>1, <3>2 DEF ChainPost
  <2>2. CASE ~taskOpen
    BY <1>3, <2>2 DEF ChainPost
  <2> QED BY <2>1, <2>2
<1>4. CASE SendEos
  BY <1>4, <1>t DEF SendEos
<1>5. CASE TakeFrame
  <2>1. taskQ # <<>> /\ taskQ' = Tail(taskQ)
    BY <1>5 DEF TakeFrame
  <2>2. /\ \A i \in DOMAIN taskQ' : i + 1 \in DOMAIN taskQ /\ taskQ'[i] = taskQ[i + 1]
        /\ 1 \in DOMAIN taskQ /\ Head(taskQ) = taskQ[1]
    BY <2>1, FrameTypes, Taken
  <2> QED BY <1>5, <2>2 DEF TakeFrame
<1>6. CASE TakeEos
  <2>1. taskQ # <<>> /\ taskQ' = Tail(taskQ)
    BY <1>6 DEF TakeEos
  <2>2. /\ \A i \in DOMAIN taskQ' : i + 1 \in DOMAIN taskQ /\ taskQ'[i] = taskQ[i + 1]
        /\ 1 \in DOMAIN taskQ /\ Head(taskQ) = taskQ[1]
    BY <2>1, FrameTypes, Taken
  <2> QED BY <1>6, <2>2 DEF TakeEos
<1>7. CASE LoopEnd
  BY <1>7 DEF LoopEnd
<1>8. CASE LoopNext
  <2>1. input_queue_ # <<>> => frame_ref' # NoFrame
    <3>1. input_queue_ # <<>> => Head(input_queue_) \in Frames
      BY Taken DEF TypeOK
    <3> QED BY <1>8, <3>1, FramesAssumption DEF LoopNext, Frames, NoFrame
  <2> QED BY <1>8, <2>1 DEF LoopNext
<1>9. CASE LoopNoBuffer
  BY <1>9 DEF LoopNoBuffer
<1>10. CASE EncodeBusy
  BY <1>10 DEF EncodeBusy
<1>11. CASE BusyTest
  BY <1>11 DEF BusyTest
<1>12. CASE EncodeNone
  BY <1>12 DEF EncodeNone
<1>13. CASE EncodeMoreData
  BY <1>13 DEF EncodeMoreData
<1>14. CASE EncodeDrained
  <2>1. /\ syncQ' = PostSync(NotifyEos) /\ tpc' = "idle" /\ ~is_eos_'
        /\ UNCHANGED <<stream, taskQ, eosOut, restarts>> /\ is_eos_
    BY <1>14 DEF EncodeDrained
  <2>2. restarts = 0 => eosSent
    BY <2>1
  <2> QED BY <2>1, <2>2
<1>15. CASE EncodeError
  BY <1>15 DEF EncodeError
<1>16. CASE ReleaseInputSurface
  <2>1. /\ UNCHANGED <<stream, eosOut, is_eos_, taskQ, restarts>> /\ tpc' \notin Encoding
        /\ syncQ' = IF frame_ref \in locked THEN PostSync(Release(frame_ref)) ELSE syncQ
    BY <1>16 DEF ReleaseInputSurface
  <2>2. CASE frame_ref \in locked
    <3>1. Release(frame_ref) \in SyncTasks /\ Release(frame_ref).kind # "eos"
      BY <2>2, TaskTypes DEF TypeOK, Release
    <3> QED BY <1>p, <2>1, <2>2, <3>1
  <2>3. CASE frame_ref \notin locked
    BY <2>1, <2>3
  <2> QED BY <2>2, <2>3
<1>17. CASE Submit
  <2>1. /\ UNCHANGED <<stream, eosOut, is_eos_, taskQ, restarts>> /\ tpc' \notin Encoding
        /\ syncQ' = PostSync(SyncOp(op))
    BY <1>17 DEF Submit
  <2>2. SyncOp(op) \in SyncTasks /\ SyncOp(op).kind # "eos"
    BY TaskTypes DEF TypeOK, SyncOp
  <2> QED BY <1>p, <2>1, <2>2
<1>18. CASE TakeRelease
  BY <1>18, <1>q DEF TakeRelease
<1>19. CASE TakeNotifyEos
  <2>1. /\ UNCHANGED <<stream, is_eos_, taskQ, restarts, tpc, frame_ref>>
        /\ syncQ # <<>> /\ syncQ' = Tail(syncQ) /\ Head(syncQ).kind = "eos"
        /\ eosOut' => eosOut \/ elem = "playing"
    BY <1>19 DEF TakeNotifyEos
  <2>2. restarts = 0
    BY <1>t, <2>1 DEF PhaseInv
  <2> QED BY <1>q, <2>1, <2>2
<1>20. CASE TakeSync
  BY <1>20, <1>q DEF TakeSync
<1>21. CASE SyncDone
  BY <1>21 DEF SyncDone
<1>22. CASE SyncError
  BY <1>22 DEF SyncError, EndSync
<1>23. CASE Push
  BY <1>23 DEF Push
<1>24. CASE Clean
  BY <1>24 DEF Clean, EndSync
<1>25. ASSUME NEW f \in Frames, Unlock(f) PROVE EosKnown'
  BY <1>25 DEF Unlock
<1>26. CASE Deactivate
  BY <1>26 DEF Deactivate, Change
<1>27. CASE Deactivated
  BY <1>27 DEF Deactivated, Change
<1>28. CASE StopTaskThread
  BY <1>28 DEF StopTaskThread, Change
<1>29. CASE JoinTaskThread
  BY <1>29 DEF JoinTaskThread, Change
<1>30. CASE StopSyncThread
  BY <1>30 DEF StopSyncThread, Change
<1>31. CASE JoinSyncThread
  BY <1>31 DEF JoinSyncThread, Change
<1>32. CASE Free
  BY <1>32 DEF Free, Change
<1>33. CASE Restart
  <2>1. tpc' = "idle" /\ restarts' # 0 /\ ~eosSent' /\ ~eosOut'
    BY <1>33, <1>t DEF Restart, PhaseInv
  <2> QED BY <2>1
<1>34. CASE UNCHANGED vars
  BY <1>34 DEF vars
<1> QED
  BY <1>1, <1>2, <1>3, <1>4, <1>5, <1>6, <1>7, <1>8, <1>9, <1>10, <1>11, <1>12, <1>13,
     <1>14, <1>15, <1>16, <1>17, <1>18, <1>19, <1>20, <1>21, <1>22, <1>23, <1>24, <1>25,
     <1>26, <1>27, <1>28, <1>29, <1>30, <1>31, <1>32, <1>33, <1>34
  DEF Next, TaskStep, SyncStep, DisposeStep

\* In a later life nothing is accepted.
LEMMA SpentStep == TypeOK /\ PhaseInv /\ Spent /\ [Next]_vars => Spent'
<1> SUFFICES ASSUME TypeOK, PhaseInv, Spent, [Next]_vars PROVE Spent'
  OBVIOUS
<1>u. ASSUME UNCHANGED <<restarts, pushed, sent, spc>>, failures \subseteq failures' PROVE Spent'
  BY <1>u DEF Spent
<1> USE DEF stream, tasks, encoder, syncs, downstream, app
<1>1. CASE Chain
  BY <1>1 DEF Chain, Spent, Pending
<1>2. CASE ChainTest
  BY <1>2 DEF ChainTest, Spent, Pending
<1>3. CASE ChainPost
  BY <1>3 DEF ChainPost, Spent, PhaseInv, Fail
<1>4. CASE SendEos
  BY <1>4, <1>u DEF SendEos
<1>5. CASE TakeFrame
  BY <1>5 DEF TakeFrame, Spent, Pending
<1>6. CASE TakeEos
  BY <1>6, <1>u DEF TakeEos
<1>7. CASE LoopEnd
  BY <1>7, <1>u DEF LoopEnd
<1>8. CASE LoopNext
  BY <1>8, <1>u DEF LoopNext
<1>9. CASE LoopNoBuffer
  BY <1>9, <1>u DEF LoopNoBuffer, Fail
<1>10. CASE EncodeBusy
  BY <1>10, <1>u DEF EncodeBusy
<1>11. CASE BusyTest
  BY <1>11, <1>u DEF BusyTest
<1>12. CASE EncodeNone
  BY <1>12, <1>u DEF EncodeNone
<1>13. CASE EncodeMoreData
  BY <1>13, <1>u DEF EncodeMoreData
<1>14. CASE EncodeDrained
  BY <1>14, <1>u DEF EncodeDrained
<1>15. CASE EncodeError
  BY <1>15, <1>u DEF EncodeError, Fail
<1>16. CASE ReleaseInputSurface
  BY <1>16, <1>u DEF ReleaseInputSurface
<1>17. CASE Submit
  BY <1>17, <1>u DEF Submit
<1>18. CASE TakeRelease
  BY <1>18, <1>u DEF TakeRelease
<1>19. CASE TakeNotifyEos
  BY <1>19, <1>u DEF TakeNotifyEos
<1>20. CASE TakeSync
  BY <1>20, <1>u DEF TakeSync
<1>21. CASE SyncDone
  BY <1>21, <1>u DEF SyncDone
<1>22. CASE SyncError
  BY <1>22, <1>u DEF SyncError, EndSync, Fail
<1>23. CASE Push
  BY <1>23, <1>u DEF Push, Fail, Spent, PhaseInv
<1>24. CASE Clean
  BY <1>24, <1>u DEF Clean, EndSync
<1>25. ASSUME NEW f \in Frames, Unlock(f) PROVE Spent'
  BY <1>25, <1>u DEF Unlock
<1>26. CASE Deactivate
  BY <1>26, <1>u DEF Deactivate, Change
<1>27. CASE Deactivated
  BY <1>27, <1>u DEF Deactivated, Change
<1>28. CASE StopTaskThread
  BY <1>28, <1>u DEF StopTaskThread, Change
<1>29. CASE JoinTaskThread
  BY <1>29, <1>u DEF JoinTaskThread, Change
<1>30. CASE StopSyncThread
  BY <1>30, <1>u DEF StopSyncThread, Change
<1>31. CASE JoinSyncThread
  BY <1>31, <1>u DEF JoinSyncThread, Change
<1>32. CASE Free
  BY <1>32, <1>u DEF Free, Change
<1>33. CASE Restart
  BY <1>33 DEF Restart, Spent
<1>34. CASE UNCHANGED vars
  BY <1>34, <1>u DEF vars
<1> QED
  BY <1>1, <1>2, <1>3, <1>4, <1>5, <1>6, <1>7, <1>8, <1>9, <1>10, <1>11, <1>12, <1>13,
     <1>14, <1>15, <1>16, <1>17, <1>18, <1>19, <1>20, <1>21, <1>22, <1>23, <1>24, <1>25,
     <1>26, <1>27, <1>28, <1>29, <1>30, <1>31, <1>32, <1>33, <1>34
  DEF Next, TaskStep, SyncStep, DisposeStep

\* What disturbs the stream does so for the rest of the element's lives.
LEMMA StillUndisturbed == TypeOK /\ [Next]_vars /\ Undisturbed' => Undisturbed
<1> SUFFICES ASSUME TypeOK, [Next]_vars, Undisturbed' PROVE Undisturbed
  OBVIOUS
<1> USE DEF Undisturbed, stream, tasks, encoder, syncs, downstream, app
<1>1. CASE Restart
  BY <1>1, FramesAssumption DEF Restart, TypeOK
<1>2. CASE Deactivate \/ Deactivated \/ StopTaskThread \/ DisposeStep
  BY <1>2 DEF Deactivate, Deactivated, StopTaskThread, DisposeStep, JoinTaskThread,
     StopSyncThread, JoinSyncThread, Free, Change
<1>3. CASE Chain \/ ChainTest \/ ChainPost \/ SendEos
  BY <1>3 DEF Chain, ChainTest, ChainPost, SendEos, Fail
<1>4. CASE TakeFrame \/ TakeEos \/ LoopEnd \/ LoopNext \/ LoopNoBuffer \/ EncodeBusy
             \/ BusyTest
  BY <1>4 DEF TakeFrame, TakeEos, LoopEnd, LoopNext, LoopNoBuffer, EncodeBusy, BusyTest, Fail
<1>5. CASE EncodeNone \/ EncodeMoreData \/ EncodeDrained \/ EncodeError \/ ReleaseInputSurface
             \/ Submit
  BY <1>5 DEF EncodeNone, EncodeMoreData, EncodeDrained, EncodeError, ReleaseInputSurface,
     Submit, Fail
<1>6. CASE SyncStep
  BY <1>6 DEF SyncStep, TakeRelease, TakeNotifyEos, TakeSync, SyncDone, SyncError, Push,
     Clean, EndSync, Fail
<1>7. ASSUME NEW f \in Frames, Unlock(f) PROVE Undisturbed
  BY <1>7 DEF Unlock
<1>8. CASE UNCHANGED vars
  BY <1>8 DEF vars
<1> QED BY <1>1, <1>2, <1>3, <1>4, <1>5, <1>6, <1>7, <1>8 DEF Next, TaskStep

\* The end of the stream stays last in both queues, and nothing follows it.
LEMMA EosLastStep ==
  ASSUME TypeOK, PhaseInv, FramesInOrder, OpsInOrder, EosKnown, EosLast, [Next]_vars,
         Undisturbed, Undisturbed'
  PROVE  EosLast'
<1>o. /\ restarts = 0 /\ restarts' = 0 /\ elem = "playing" /\ elem' = "playing"
      /\ failures = {} /\ failures' = {} /\ taskOpen /\ syncOpen
  BY DEF Undisturbed, PhaseInv
<1>t. eosSent \in BOOLEAN /\ eosOut \in BOOLEAN /\ is_eos_ \in BOOLEAN
  BY DEF TypeOK
<1>d. Drained => tpc = "idle" /\ op = NoOp
  BY DEF Drained
<1>n. ASSUME ~Drained PROVE eosOut = FALSE /\ \A i \in DOMAIN syncQ : syncQ[i].kind # "eos"
  BY <1>n, <1>t DEF EosLast
<1>p. ASSUME ~Drained, UNCHANGED <<taskQ, is_eos_, input_queue_, eosSent, eosOut>>,
             tpc' \notin Encoding, NEW t \in SyncTasks, t.kind # "eos", syncQ' = PostSync(t)
      PROVE  EosLast'
  <2>1. \A i \in DOMAIN syncQ' : syncQ'[i].kind # "eos"
    BY <1>p, <1>n, <1>o, SyncTypes, Posted
  <2> QED BY <1>p, <1>n, <2>1 DEF EosLast
<1>q. ASSUME UNCHANGED <<tasks, is_eos_, input_queue_, eosSent, eosOut, buffered, tpc, op, frame_ref>>,
             syncQ # <<>>, syncQ' = Tail(syncQ)
      PROVE  EosLast'
  <2>1. /\ Len(syncQ) \in Nat \ {0} /\ Len(syncQ') = Len(syncQ) - 1
        /\ \A i \in DOMAIN syncQ' :
             i \in Nat /\ i + 1 \in DOMAIN syncQ /\ syncQ'[i] = syncQ[i + 1]
    BY <1>q, SyncTaken
  <2>2. \A i \in DOMAIN syncQ' : syncQ'[i].kind = "eos" => i = Len(syncQ') /\ Drained'
    BY <1>q, <2>1 DEF EosLast, Drained, tasks
  <2>3. ~eosOut
    BY <1>q DEF EosLast
  <2> QED BY <1>q, <2>2, <2>3 DEF EosLast, tasks
<1> USE DEF stream, tasks, encoder, syncs, downstream, app
<1>1. CASE Chain
  BY <1>1 DEF Chain, EosLast, Drained, Encoding
<1>2. CASE ChainTest
  BY <1>2 DEF ChainTest, EosLast, Drained, Encoding
<1>3. CASE ChainPost
  <2>1. /\ taskQ' = Append(taskQ, sent) /\ ~eosSent /\ sent # EosTask
        /\ UNCHANGED <<eosSent, is_eos_, input_queue_, tpc, frame_ref, syncQ, eosOut>>
    BY <1>3, <1>o, <1>t DEF ChainPost, EosKnown, FramesInOrder, Pending, EosTask
  <2>2. ~Drained
    BY <2>1 DEF Drained
  <2>3. \A i \in DOMAIN taskQ' : taskQ'[i] # EosTask
    <3>1. \A i \in DOMAIN taskQ : taskQ[i] # EosTask
      BY <2>1 DEF EosLast
    <3> QED BY <2>1, <3>1, FrameTypes, Appended
  <2>4. ~is_eos_
    BY <2>1 DEF EosLast
  <2> QED BY <1>n, <2>1, <2>2, <2>3, <2>4 DEF EosLast
<1>4. CASE SendEos
  <2>1. /\ taskQ' = Append(taskQ, EosTask) /\ ~eosSent /\ eosSent' /\ eosOut' = eosOut
        /\ UNCHANGED <<is_eos_, input_queue_, tpc, frame_ref, syncQ>>
    BY <1>4, <1>o, <1>t DEF SendEos
  <2>2. ~Drained /\ ~is_eos_
    BY <2>1 DEF Drained, EosLast
  <2>3. \A i \in DOMAIN taskQ' : taskQ'[i] = EosTask => i = Len(taskQ')
    <3>1. \A i \in DOMAIN taskQ : taskQ[i] # EosTask
      BY <2>1 DEF EosLast
    <3> QED BY <2>1, <3>1, FrameTypes, Appended DEF EosTask
  <2> QED BY <1>n, <2>1, <2>2, <2>3 DEF EosLast
<1>5. CASE TakeFrame
  <2>1. taskQ # <<>> /\ taskQ' = Tail(taskQ) /\ tpc' = "loop"
    BY <1>5 DEF TakeFrame
  <2>2. /\ Len(taskQ) \in Nat \ {0} /\ Len(taskQ') = Len(taskQ) - 1
        /\ \A i \in DOMAIN taskQ' :
             i \in Nat /\ i + 1 \in DOMAIN taskQ /\ taskQ'[i] = taskQ[i + 1]
        /\ 1 \in DOMAIN taskQ /\ Head(taskQ) = taskQ[1]
        /\ Len(taskQ) = 1 => taskQ' = <<>>
    BY <2>1, FrameTypes, Taken, EmptySeq
  <2>3. ~Drained /\ ~is_eos_
    BY <2>1, <1>t DEF Drained, EosLast
  <2>4. \A i \in DOMAIN taskQ' : taskQ'[i] = EosTask => i = Len(taskQ') /\ eosSent
    BY <2>2 DEF EosLast
  <2> QED BY <1>5, <1>n, <2>1, <2>2, <2>3, <2>4 DEF TakeFrame, EosLast, Encoding
<1>6. CASE TakeEos
  <2>1. taskQ # <<>> /\ taskQ' = Tail(taskQ) /\ tpc' = "loop"
    BY <1>6 DEF TakeEos
  <2>2. /\ Len(taskQ) \in Nat \ {0} /\ Len(taskQ') = Len(taskQ) - 1
        /\ \A i \in DOMAIN taskQ' :
             i \in Nat /\ i + 1 \in DOMAIN taskQ /\ taskQ'[i] = taskQ[i + 1]
        /\ 1 \in DOMAIN taskQ /\ Head(taskQ) = taskQ[1]
        /\ Len(taskQ) = 1 => taskQ' = <<>>
    BY <2>1, FrameTypes, Taken, EmptySeq
  <2>3. ~Drained /\ ~is_eos_
    BY <2>1, <1>t DEF Drained, EosLast
  <2>4. \A i \in DOMAIN taskQ' : taskQ'[i] = EosTask => i = Len(taskQ') /\ eosSent
    BY <2>2 DEF EosLast
  <2>5. eosSent /\ taskQ' = <<>>
    BY <1>6, <2>2 DEF TakeEos, EosLast
  <2> QED BY <1>6, <1>n, <2>1, <2>2, <2>3, <2>4, <2>5 DEF TakeEos, EosLast, Encoding
<1>7. CASE LoopEnd
  BY <1>7, <1>n DEF LoopEnd, EosLast, Drained, Encoding
<1>8. CASE LoopNext
  <2>1. ~Drained
    BY <1>8 DEF LoopNext, Drained
  <2>2. input_queue_ # <<>> => frame_ref' # NoFrame
    <3>1. input_queue_ # <<>> => Head(input_queue_) \in Frames
      BY Taken DEF TypeOK
    <3> QED BY <1>8, <3>1, FramesAssumption DEF LoopNext, Frames, NoFrame
  <2> QED BY <1>8, <1>n, <2>1, <2>2 DEF LoopNext, EosLast
<1>9. CASE LoopNoBuffer
  BY <1>9, <1>o DEF LoopNoBuffer, Fail
<1>10. CASE EncodeBusy
  BY <1>10, <1>n DEF EncodeBusy, EosLast, Drained, Encoding
<1>11. CASE BusyTest
  BY <1>11, <1>n DEF BusyTest, EosLast, Drained, Encoding
<1>12. CASE EncodeNone
  BY <1>12, <1>n DEF EncodeNone, EosLast, Drained, Encoding
<1>13. CASE EncodeMoreData
  BY <1>13, <1>n DEF EncodeMoreData, EosLast, Drained, Encoding
<1>14. CASE EncodeDrained
  <2>1. /\ tpc = "encode" /\ frame_ref = NoFrame /\ buffered = {} /\ ~is_eos_' /\ tpc' = "idle"
        /\ UNCHANGED <<eosSent, taskQ, input_queue_, buffered, op, eosOut>>
        /\ syncQ' = PostSync(NotifyEos)
    BY <1>14 DEF EncodeDrained
  <2>2. ~Drained /\ Drained'
    BY <2>1 DEF Drained, EosLast, Encoding, OpsInOrder
  <2>3. \A i \in DOMAIN syncQ' : syncQ'[i].kind = "eos" => i = Len(syncQ')
    BY <1>n, <1>o, <2>1, <2>2, SyncTypes, Posted, TaskTypes
  <2> QED BY <1>n, <2>1, <2>2, <2>3 DEF EosLast, Encoding
<1>15. CASE EncodeError
  BY <1>15, <1>o DEF EncodeError, Fail
<1>16. CASE ReleaseInputSurface
  <2>1. /\ UNCHANGED <<taskQ, is_eos_, input_queue_, eosSent, eosOut>>
        /\ tpc' \notin Encoding /\ ~Drained
        /\ syncQ' = IF frame_ref \in locked THEN PostSync(Release(frame_ref)) ELSE syncQ
    BY <1>16 DEF ReleaseInputSurface, Drained, Encoding
  <2>2. CASE frame_ref \in locked
    <3>1. Release(frame_ref) \in SyncTasks /\ Release(frame_ref).kind # "eos"
      BY <2>2, TaskTypes DEF TypeOK, Release
    <3> QED BY <1>p, <2>1, <2>2, <3>1
  <2>3. CASE frame_ref \notin locked
    BY <1>n, <2>1, <2>3 DEF EosLast
  <2> QED BY <2>2, <2>3
<1>17. CASE Submit
  <2>1. /\ UNCHANGED <<taskQ, is_eos_, input_queue_, eosSent, eosOut>>
        /\ tpc' \notin Encoding /\ ~Drained /\ syncQ' = PostSync(SyncOp(op))
    BY <1>17 DEF Submit, Drained, Encoding
  <2>2. SyncOp(op) \in SyncTasks /\ SyncOp(op).kind # "eos"
    BY TaskTypes DEF TypeOK, SyncOp
  <2> QED BY <1>p, <2>1, <2>2
<1>18. CASE TakeRelease
  BY <1>18, <1>q DEF TakeRelease
<1>19. CASE TakeNotifyEos
  <2>1. /\ UNCHANGED <<eosSent, taskQ, input_queue_, is_eos_, buffered, op, tpc, frame_ref, ypc>>
        /\ syncQ # <<>> /\ syncQ' = Tail(syncQ) /\ Head(syncQ).kind = "eos" /\ ypc = "idle"
    BY <1>19 DEF TakeNotifyEos
  <2>2. /\ 1 \in DOMAIN syncQ /\ syncQ[1].kind = "eos" /\ syncQ' \in Seq(SyncTasks)
        /\ Len(syncQ') = Len(syncQ) - 1
    BY <2>1, SyncTypes, Taken
  <2>3. Len(syncQ) = 1 /\ Drained
    BY <2>2 DEF EosLast
  <2>4. syncQ' = <<>> /\ Drained'
    BY <2>1, <2>2, <2>3, EmptySeq DEF Drained
  <2> QED BY <2>1, <2>4 DEF EosLast
<1>20. CASE TakeSync
  BY <1>20, <1>q DEF TakeSync, EosLast
<1>21. CASE SyncDone
  BY <1>21 DEF SyncDone, EosLast, Drained, Encoding
<1>22. CASE SyncError
  BY <1>22, <1>o DEF SyncError, Fail
<1>23. CASE Push
  BY <1>23 DEF Push, EosLast, Drained, Encoding
<1>24. CASE Clean
  BY <1>24 DEF Clean, EosLast, Drained, Encoding, EndSync
<1>25. ASSUME NEW f \in Frames, Unlock(f) PROVE EosLast'
  BY <1>25 DEF Unlock, EosLast, Drained, Encoding
<1>26. CASE Deactivate
  BY <1>26, <1>o DEF Deactivate, Change
<1>27. CASE Deactivated
  BY <1>27, <1>o DEF Deactivated, Change
<1>28. CASE StopTaskThread
  BY <1>28, <1>o DEF StopTaskThread, Change
<1>29. CASE JoinTaskThread
  BY <1>29, <1>o DEF JoinTaskThread, Change
<1>30. CASE StopSyncThread
  BY <1>30, <1>o DEF StopSyncThread, Change
<1>31. CASE JoinSyncThread
  BY <1>31, <1>o DEF JoinSyncThread, Change
<1>32. CASE Free
  BY <1>32, <1>o DEF Free, Change
<1>33. CASE Restart
  BY <1>33, <1>o DEF Restart, Change
<1>34. CASE UNCHANGED vars
  BY <1>34 DEF vars, EosLast, Drained, Encoding
<1> QED
  BY <1>1, <1>2, <1>3, <1>4, <1>5, <1>6, <1>7, <1>8, <1>9, <1>10, <1>11, <1>12, <1>13,
     <1>14, <1>15, <1>16, <1>17, <1>18, <1>19, <1>20, <1>21, <1>22, <1>23, <1>24, <1>25,
     <1>26, <1>27, <1>28, <1>29, <1>30, <1>31, <1>32, <1>33, <1>34
  DEF Next, TaskStep, SyncStep, DisposeStep
-----------------------------------------------------------------------------
(* Nothing is lost.                                                        *)

\* The operations submitted are those pushed, syncing, queued and new.
LEMMA OpsCountedStep ==
  ASSUME TypeOK, PhaseInv, OpsInOrder, OpsCounted, [Next]_vars, Undisturbed, Undisturbed'
  PROVE  OpsCounted'
<1>o. /\ restarts = 0 /\ elem = "playing" /\ elem' = "playing"
      /\ failures = {} /\ failures' = {} /\ syncOpen
  BY DEF Undisturbed, PhaseInv
<1> DEFINE Posts == Num(syncQ, Len(syncQ), IsSync)
<1>t. Posts \in Nat /\ Len(pushed) \in Nat /\ op \in Nat /\ ops \in Nat /\ syncing \in Nat
  BY SyncTypes, OpTypes
<1>u. ASSUME UNCHANGED <<ops, op, syncQ, ypc, syncing, pushed>> PROVE OpsCounted'
  BY <1>u DEF OpsCounted, Base, Syncing
<1>p. ASSUME UNCHANGED <<ops, op, ypc, syncing, pushed>>,
             NEW t \in SyncTasks, t \notin IsSync, syncQ' = PostSync(t)
      PROVE  OpsCounted'
  <2>1. \A i \in DOMAIN syncQ' : syncQ'[i] \in IsSync =>
          /\ i \in DOMAIN syncQ /\ syncQ'[i] = syncQ[i]
          /\ Num(syncQ', i, IsSync) = Num(syncQ, i, IsSync)
    BY <1>o, <1>p, SyncTypes, Posted
  <2>2. Posts' = Posts
    BY <1>o, <1>p, <1>t, Posted DEF One
  <2> QED BY <1>p, <2>1, <2>2 DEF OpsCounted, Base, Syncing
<1>q. ASSUME UNCHANGED <<ops, op, ypc, syncing, pushed>>,
             syncQ # <<>>, syncQ' = Tail(syncQ), Head(syncQ) \notin IsSync
      PROVE  OpsCounted'
  <2>1. One(Head(syncQ) \in IsSync) = 0
    BY <1>q DEF One
  <2>2. \A n \in Nat : Num(syncQ', n, IsSync) \in Nat
    BY NumType
  <2>3. Len(syncQ) \in Nat \ {0} /\ Len(syncQ') = Len(syncQ) - 1
    BY <1>q, SyncTaken
  <2>4. \A i \in DOMAIN syncQ' :
          /\ i + 1 \in DOMAIN syncQ /\ syncQ'[i] = syncQ[i + 1]
          /\ Num(syncQ, i + 1, IsSync) = Num(syncQ', i, IsSync)
    <3> SUFFICES ASSUME NEW i \in DOMAIN syncQ'
                 PROVE  /\ i + 1 \in DOMAIN syncQ /\ syncQ'[i] = syncQ[i + 1]
                        /\ Num(syncQ, i + 1, IsSync) = Num(syncQ', i, IsSync)
      OBVIOUS
    <3>1. i \in 1 .. Len(syncQ) - 1 /\ i \in Nat
      BY <1>q, <2>3, SyncTaken
    <3>2. i + 1 \in DOMAIN syncQ /\ syncQ'[i] = syncQ[i + 1]
      BY <1>q, <2>3, <3>1, SyncTaken
    <3>3. Num(syncQ, i + 1, IsSync) = Num(syncQ', i, IsSync) + One(Head(syncQ) \in IsSync)
      BY <1>q, <2>3, <3>1, SyncTaken
    <3> QED BY <2>1, <2>2, <3>1, <3>2, <3>3
  <2>5. Posts' = Posts
    BY <1>q, <2>1, <2>2, <2>3, SyncTaken
  <2> QED BY <1>q, <2>4, <2>5 DEF OpsCounted, Base, Syncing
<1> USE DEF stream, tasks, encoder, syncs, downstream, app
<1>1. CASE Chain
  BY <1>1, <1>u DEF Chain
<1>2. CASE ChainTest
  BY <1>2, <1>u DEF ChainTest
<1>3. CASE ChainPost
  BY <1>3, <1>u DEF ChainPost
<1>4. CASE SendEos
  BY <1>4, <1>u DEF SendEos
<1>5. CASE TakeFrame
  BY <1>5, <1>u DEF TakeFrame
<1>6. CASE TakeEos
  BY <1>6, <1>u DEF TakeEos
<1>7. CASE LoopEnd
  BY <1>7, <1>u DEF LoopEnd
<1>8. CASE LoopNext
  BY <1>8, <1>u DEF LoopNext
<1>9. CASE LoopNoBuffer
  BY <1>9, <1>u DEF LoopNoBuffer
<1>10. CASE EncodeBusy
  BY <1>10, <1>u DEF EncodeBusy
<1>11. CASE BusyTest
  BY <1>11, <1>u DEF BusyTest
<1>12. CASE EncodeNone
  <2>1. /\ op = NoOp /\ ops' = ops + 1 /\ op' = ops + 1
        /\ UNCHANGED <<syncQ, ypc, syncing, pushed>>
    BY <1>12 DEF EncodeNone, OpsInOrder
  <2>2. One(op # NoOp) = 0 /\ One(op' # NoOp) = 1
    BY <1>t, <2>1 DEF One, NoOp
  <2>3. Base' = Base /\ Posts' = Posts /\ Base \in Nat
    BY <1>t, <2>1 DEF Base, Syncing, One
  <2> QED BY <1>t, <2>1, <2>2, <2>3 DEF OpsCounted, Syncing
<1>13. CASE EncodeMoreData
  <2>1. op = NoOp /\ op' = NoOp /\ UNCHANGED <<ops, syncQ, ypc, syncing, pushed>>
    BY <1>13 DEF EncodeMoreData, OpsInOrder
  <2> QED BY <1>u, <2>1
<1>14. CASE EncodeDrained
  <2>1. syncQ' = PostSync(NotifyEos) /\ UNCHANGED <<ops, op, ypc, syncing, pushed>>
    BY <1>14 DEF EncodeDrained
  <2> QED BY <1>p, <2>1, TaskTypes
<1>15. CASE EncodeError
  BY <1>15, <1>o DEF EncodeError, Fail
<1>16. CASE ReleaseInputSurface
  <2>1. /\ UNCHANGED <<ops, op, ypc, syncing, pushed>>
        /\ syncQ' = IF frame_ref \in locked THEN PostSync(Release(frame_ref)) ELSE syncQ
    BY <1>16 DEF ReleaseInputSurface
  <2>2. CASE frame_ref \in locked
    <3>1. Release(frame_ref) \in SyncTasks /\ Release(frame_ref) \notin IsSync
      BY <2>2, TaskTypes DEF TypeOK
    <3> QED BY <1>p, <2>1, <2>2, <3>1
  <2>3. CASE frame_ref \notin locked
    BY <1>u, <2>1, <2>3
  <2> QED BY <2>2, <2>3
<1>17. CASE Submit
  <2> DEFINE n == Len(syncQ)
  <2>1. /\ op # NoOp /\ op = ops /\ op' = NoOp /\ syncQ' = PostSync(SyncOp(op))
        /\ UNCHANGED <<ops, ypc, syncing, pushed>>
    BY <1>17 DEF Submit, OpsInOrder
  <2>2. SyncOp(op) \in IsSync /\ SyncOp(op) \in SyncTasks /\ SyncOp(op).arg = op
    BY OpTypes, TaskTypes
  <2>3. /\ n \in Nat /\ DOMAIN syncQ = 1 .. n /\ DOMAIN syncQ' = 1 .. n + 1 /\ Len(syncQ') = n + 1
        /\ \A i \in 1 .. n : syncQ'[i] = syncQ[i] /\ Num(syncQ', i, IsSync) = Num(syncQ, i, IsSync)
        /\ syncQ'[n + 1].arg = op
        /\ Num(syncQ', n + 1, IsSync) = Posts + 1
    BY <1>o, <2>1, <2>2, SyncTypes, Posted DEF One
  <2>4. ops = Base + Posts + 1
    BY <2>1 DEF OpsCounted, One
  <2>5. Base' = Base /\ Base \in Nat
    BY <1>t, <2>1 DEF Base, Syncing, One
  <2> HIDE DEF n
  <2>6. \A i \in DOMAIN syncQ' : syncQ'[i] \in IsSync =>
          syncQ'[i].arg = Base + Num(syncQ', i, IsSync)
    <3>1. \A i \in 1 .. n : syncQ'[i] \in IsSync =>
            syncQ'[i].arg = Base + Num(syncQ', i, IsSync)
      BY <2>3 DEF OpsCounted
    <3>2. syncQ'[n + 1].arg = Base + Num(syncQ', n + 1, IsSync)
      BY <1>t, <2>1, <2>3, <2>4, <2>5
    <3> QED BY <2>3, <3>1, <3>2
  <2>7. ops' = Base' + Posts' + One(op' # NoOp)
    BY <1>t, <2>1, <2>3, <2>4, <2>5 DEF One
  <2> QED BY <2>1, <2>5, <2>6, <2>7 DEF OpsCounted, Syncing
<1>18. CASE TakeRelease
  <2>1. /\ UNCHANGED <<ops, op, ypc, syncing, pushed>>
        /\ syncQ # <<>> /\ syncQ' = Tail(syncQ) /\ Head(syncQ).kind # "sync"
    BY <1>18 DEF TakeRelease
  <2> QED BY <1>q, <2>1 DEF IsSync
<1>19. CASE TakeNotifyEos
  <2>1. /\ UNCHANGED <<ops, op, ypc, syncing, pushed>>
        /\ syncQ # <<>> /\ syncQ' = Tail(syncQ) /\ Head(syncQ).kind # "sync"
    BY <1>19 DEF TakeNotifyEos
  <2> QED BY <1>q, <2>1 DEF IsSync
<1>20. CASE TakeSync
  <2> DEFINE h == Head(syncQ)
  <2>1. /\ syncQ # <<>> /\ h.kind = "sync" /\ syncQ' = Tail(syncQ) /\ syncing' = h.arg
        /\ ~Syncing /\ Syncing' /\ UNCHANGED <<op, ops, pushed>>
    BY <1>20 DEF TakeSync, Syncing
  <2>2. /\ 1 \in DOMAIN syncQ /\ h = syncQ[1] /\ h \in IsSync
        /\ \A i \in DOMAIN syncQ' :
             /\ i \in Nat /\ i + 1 \in DOMAIN syncQ /\ syncQ'[i] = syncQ[i + 1]
             /\ Num(syncQ, i + 1, IsSync) = Num(syncQ', i, IsSync) + 1
        /\ Num(syncQ, 0 + 1, IsSync) = Num(syncQ', 0, IsSync) + 1
        /\ Posts = Posts' + 1
    BY <2>1, SyncTaken DEF IsSync, One
  <2>3. Base = Len(pushed) /\ Base' = Base + 1
    BY <1>t, <2>1 DEF Base, One
  <2>4. h.arg = Len(pushed) + 1
    <3>1. Num(syncQ, 1, IsSync) = 1
      <4>1. Num(syncQ', 0, IsSync) = 0
        BY NumType
      <4>2. 0 + 1 = 1
        OBVIOUS
      <4> QED BY <2>2, <4>1, <4>2
    <3> QED BY <2>2, <2>3, <3>1 DEF OpsCounted
  <2>5. Posts' \in Nat /\ \A i \in DOMAIN syncQ' : Num(syncQ', i, IsSync) \in Nat
    <3>1. Len(syncQ') \in Nat
      BY <2>1, SyncTaken
    <3> QED BY <2>2, <3>1, NumType
  <2>6. \A i \in DOMAIN syncQ' : syncQ'[i] \in IsSync =>
          syncQ'[i].arg = Base' + Num(syncQ', i, IsSync)
    <3> SUFFICES ASSUME NEW i \in DOMAIN syncQ', syncQ'[i] \in IsSync
                 PROVE  syncQ'[i].arg = Base' + Num(syncQ', i, IsSync)
      OBVIOUS
    <3>1. syncQ'[i].arg = Base + Num(syncQ, i + 1, IsSync)
      BY <2>2 DEF OpsCounted
    <3>2. /\ Num(syncQ, i + 1, IsSync) = Num(syncQ', i, IsSync) + 1
          /\ Num(syncQ', i, IsSync) \in Nat
      BY <2>2, <2>5
    <3> QED BY <1>t, <2>3, <3>1, <3>2
  <2>7. ops' = Base' + Posts' + One(op' # NoOp)
    <3>1. One(op # NoOp) \in Nat
      BY DEF One
    <3> QED BY <1>t, <2>1, <2>2, <2>3, <2>5, <3>1 DEF OpsCounted
  <2> HIDE DEF h
  <2> QED BY <2>1, <2>4, <2>6, <2>7 DEF OpsCounted
<1>21. CASE SyncDone
  BY <1>21 DEF SyncDone, OpsCounted, Base, Syncing
<1>22. CASE SyncError
  BY <1>22, <1>o DEF SyncError, Fail
<1>23. CASE Push
  <2> DEFINE n == Len(pushed)
  <2>1. /\ Syncing /\ ~Syncing' /\ UNCHANGED <<op, ops, syncQ>>
        /\ pushed' = Append(pushed, syncing)
    BY <1>23, <1>o DEF Push, Syncing, Fail
  <2>2. /\ n \in Nat /\ DOMAIN pushed = 1 .. n /\ DOMAIN pushed' = 1 .. n + 1
        /\ \A i \in 1 .. n : pushed'[i] = pushed[i]
        /\ pushed'[n + 1] = syncing /\ Len(pushed') = n + 1
    BY <2>1, OpTypes, Appended
  <2>3. syncing = n + 1
    BY <2>1 DEF OpsCounted
  <2>4. Base' = Base
    BY <2>1, <2>2 DEF Base, One
  <2> HIDE DEF n
  <2>5. \A i \in DOMAIN pushed' : pushed'[i] = i
    BY <2>2, <2>3 DEF OpsCounted
  <2> QED BY <2>1, <2>4, <2>5 DEF OpsCounted
<1>24. CASE Clean
  BY <1>24 DEF Clean, EndSync, OpsCounted, Base, Syncing
<1>25. ASSUME NEW f \in Frames, Unlock(f) PROVE OpsCounted'
  BY <1>25, <1>u DEF Unlock
<1>26. CASE Deactivate \/ Deactivated \/ StopTaskThread \/ DisposeStep
  BY <1>26, <1>o DEF Deactivate, Deactivated, StopTaskThread, DisposeStep, JoinTaskThread,
     StopSyncThread, JoinSyncThread, Free, Change
<1>27. CASE Restart
  BY <1>27, <1>o, FramesAssumption DEF Restart, Undisturbed
<1>28. CASE UNCHANGED vars
  BY <1>28, <1>u DEF vars
<1> QED
  BY <1>1, <1>2, <1>3, <1>4, <1>5, <1>6, <1>7, <1>8, <1>9, <1>10, <1>11, <1>12, <1>13,
     <1>14, <1>15, <1>16, <1>17, <1>18, <1>19, <1>20, <1>21, <1>22, <1>23, <1>24, <1>25,
     <1>26, <1>27, <1>28
  DEF Next, TaskStep, SyncStep

\* The frames received are those coded, held back, queued and on their way.
LEMMA FramesCountedStep ==
  ASSUME TypeOK, PhaseInv, FramesInOrder, FramesCounted, [Next]_vars, Undisturbed, Undisturbed'
  PROVE  FramesCounted'
<1>o. /\ restarts = 0 /\ elem = "playing" /\ elem' = "playing"
      /\ failures = {} /\ failures' = {} /\ taskOpen
  BY DEF Undisturbed, PhaseInv
<1> DEFINE Kept == Cardinality(buffered)
           Queued == Len(input_queue_)
           Given == One(tpc \in Encoding /\ frame_ref # NoFrame)
           Posts == Num(taskQ, Len(taskQ), Frames)
           Waiting == One(spc \in Pending)
<1>f. IsFiniteSet(buffered) /\ Kept \in Nat
  <2>1. buffered \subseteq 1 .. MaxFrames /\ IsFiniteSet(1 .. MaxFrames)
    BY FramesAssumption, FS_Interval DEF TypeOK, Frames
  <2> QED BY <2>1, FS_Subset, FS_CardinalityType
<1>q. taskQ \in Seq(Frames \cup {EosTask}) /\ input_queue_ \in Seq(Frames) /\ EosTask \notin Frames
      /\ NoFrame \notin Frames
  BY FramesAssumption DEF TypeOK, Frames, EosTask, NoFrame
<1>t. /\ Queued \in Nat /\ Given \in {0, 1} /\ Posts \in Nat /\ Waiting \in {0, 1}
      /\ sent \in Nat /\ ops \in Nat
  BY <1>q, FrameTypes, NumType DEF One, TypeOK
<1>u. ASSUME UNCHANGED <<sent, ops, buffered, input_queue_, taskQ>>,
             tpc' \in Encoding <=> tpc \in Encoding,
             tpc \in Encoding => UNCHANGED frame_ref,
             spc' \in Pending <=> spc \in Pending
      PROVE  FramesCounted'
  BY <1>u DEF FramesCounted, One
<1>n. ASSUME taskQ # <<>>, taskQ' = Tail(taskQ)
      PROVE  Posts' \in Nat /\ Posts = Posts' + One(Head(taskQ) \in Frames)
  <2>1. Len(taskQ) \in Nat \ {0} /\ Len(taskQ') = Len(taskQ) - 1
    BY <1>n, FrameTypes, Taken
  <2>2. Num(taskQ, (Len(taskQ) - 1) + 1, Frames)
          = Num(taskQ', Len(taskQ) - 1, Frames) + One(Head(taskQ) \in Frames)
    BY <1>n, <1>q, <2>1, NumTail
  <2>3. Posts' \in Nat
    <3>1. Len(taskQ') \in Nat
      BY <2>1
    <3> QED BY <3>1, NumType
  <2> QED BY <2>1, <2>2, <2>3
<1>a. ASSUME NEW x \in Frames \cup {EosTask}, taskQ' = Append(taskQ, x)
      PROVE  Posts' = Posts + One(x \in Frames)
  <2>1. Len(taskQ') = Len(taskQ) + 1
    BY <1>a, <1>q, Appended
  <2> QED BY <1>a, <1>q, <2>1, NumAppend
<1> USE DEF stream, tasks, encoder, syncs, downstream, app
<1>1. CASE Chain
  <2>1. /\ sent' = sent + 1 /\ Waiting = 0 /\ Waiting' = 1
        /\ Kept' = Kept /\ Queued' = Queued /\ Given' = Given /\ Posts' = Posts
        /\ ops' = ops
    BY <1>1 DEF Chain, One, Pending
  <2> QED BY <1>f, <1>t, <2>1 DEF FramesCounted
<1>2. CASE ChainTest
  BY <1>2, <1>u DEF ChainTest, Pending
<1>3. CASE ChainPost
  <2>1. sent \in Frames /\ taskQ' = Append(taskQ, sent)
    BY <1>3, <1>o DEF ChainPost, FramesInOrder, Pending, TypeOK, Frames
  <2>2. Posts' = Posts + 1
    BY <1>a, <2>1 DEF One
  <2>3. /\ sent' = sent /\ Waiting = 1 /\ Waiting' = 0 /\ ops' = ops
        /\ Kept' = Kept /\ Queued' = Queued /\ Given' = Given
    BY <1>3, <1>o DEF ChainPost, One, Pending
  <2> QED BY <1>f, <1>t, <2>2, <2>3 DEF FramesCounted
<1>4. CASE SendEos
  <2>1. taskQ' = Append(taskQ, EosTask)
    BY <1>4, <1>o DEF SendEos
  <2>2. Posts' = Posts
    BY <1>a, <1>q, <1>t, <2>1 DEF One
  <2>3. UNCHANGED <<sent, ops, buffered, input_queue_, tpc, frame_ref, spc>>
    BY <1>4 DEF SendEos
  <2> QED BY <2>2, <2>3 DEF FramesCounted
<1>5. CASE TakeFrame
  <2>1. taskQ # <<>> /\ taskQ' = Tail(taskQ) /\ Head(taskQ) # EosTask
        /\ input_queue_' = Append(input_queue_, Head(taskQ))
    BY <1>5 DEF TakeFrame
  <2>2. Head(taskQ) \in Frames
    BY <1>q, <2>1, Taken
  <2>3. Posts' \in Nat /\ Posts = Posts' + 1
    BY <1>n, <2>1, <2>2 DEF One
  <2>4. Queued' = Queued + 1
    BY <1>q, <2>1, <2>2, Appended
  <2>5. /\ sent' = sent /\ Waiting = Waiting' /\ ops' = ops
        /\ Kept' = Kept /\ Given' = Given
    BY <1>5 DEF TakeFrame, One, Pending, Encoding
  <2>6. sent = ops + Kept + Queued + Given + Posts + Waiting
    BY DEF FramesCounted
  <2>7. sent' = ops' + Kept' + Queued' + Given' + Posts' + Waiting'
    <3> HIDE DEF Kept, Queued, Given, Posts, Waiting
    <3> QED BY <1>f, <1>t, <2>3, <2>4, <2>5, <2>6
  <2> QED BY <2>7 DEF FramesCounted
<1>6. CASE TakeEos
  <2>1. taskQ # <<>> /\ taskQ' = Tail(taskQ) /\ Head(taskQ) \notin Frames
    BY <1>6, <1>q DEF TakeEos
  <2>2. Posts = Posts'
    BY <1>n, <2>1 DEF One
  <2>3. /\ UNCHANGED <<sent, ops, buffered, input_queue_, frame_ref, spc>>
        /\ Given = 0 /\ Given' = 0
    BY <1>6 DEF TakeEos, Encoding, One
  <2> QED BY <2>2, <2>3 DEF FramesCounted
<1>7. CASE LoopEnd
  BY <1>7, <1>u DEF LoopEnd, Encoding
<1>8. CASE LoopNext
  <2>1. /\ sent' = sent /\ Waiting = Waiting' /\ ops' = ops /\ Kept' = Kept
        /\ Posts' = Posts /\ Given = 0
    BY <1>8 DEF LoopNext, One, Encoding
  <2>2. CASE input_queue_ # <<>>
    <3>1. Head(input_queue_) \in Frames /\ Queued' = Queued - 1
      BY <1>8, <1>q, <2>2, Taken DEF LoopNext
    <3>2. Given' = 1
      BY <1>8, <1>q, <2>2, <3>1 DEF LoopNext, One, Encoding
    <3> QED BY <1>f, <1>t, <2>1, <3>1, <3>2 DEF FramesCounted
  <2>3. CASE input_queue_ = <<>>
    <3>1. Given' = 0 /\ Queued' = Queued
      BY <1>8, <2>3 DEF LoopNext, One
    <3> QED BY <1>f, <1>t, <2>1, <3>1 DEF FramesCounted
  <2> QED BY <2>2, <2>3
<1>9. CASE LoopNoBuffer
  BY <1>9, <1>o DEF LoopNoBuffer, Fail
<1>10. CASE EncodeBusy
  BY <1>10, <1>u DEF EncodeBusy, Encoding
<1>11. CASE BusyTest
  BY <1>11, <1>u DEF BusyTest, Encoding
<1>12. CASE EncodeNone
  <2> DEFINE ready == buffered \cup ({frame_ref} \ {NoFrame})
  <2>1. /\ tpc = "encode" /\ tpc' = "release" /\ ops' = ops + 1
        /\ UNCHANGED <<sent, input_queue_, taskQ, frame_ref, spc>>
    BY <1>12 DEF EncodeNone
  <2>2. PICK g \in ready : buffered' = ready \ {g}
    BY <1>12 DEF EncodeNone
  <2>3. IsFiniteSet(ready) /\ Cardinality(ready) = Kept + Given
    <3>1. CASE frame_ref = NoFrame
      <4>1. ready = buffered /\ Given = 0
        BY <3>1 DEF One
      <4> QED BY <1>f, <4>1
    <3>2. CASE frame_ref # NoFrame
      <4>1. frame_ref \notin buffered
        BY <1>o, <2>1 DEF FramesInOrder, Encoding
      <4>2. ready = buffered \cup {frame_ref} /\ Given = 1
        BY <2>1, <3>2 DEF One, Encoding
      <4> QED BY <1>f, <4>1, <4>2, FS_AddElement
    <3> QED BY <3>1, <3>2
  <2>4. Kept' = Cardinality(ready) - 1
    BY <2>2, <2>3, FS_RemoveElement
  <2>5. Given' = 0 /\ Waiting' = Waiting /\ Posts' = Posts /\ Queued' = Queued
    BY <2>1 DEF One, Encoding
  <2> HIDE DEF ready
  <2> QED BY <1>f, <1>t, <2>1, <2>3, <2>4, <2>5 DEF FramesCounted
<1>13. CASE EncodeMoreData
  <2>1. /\ tpc = "encode" /\ tpc' = "release" /\ ops' = ops /\ frame_ref # NoFrame
        /\ buffered' = buffered \cup {frame_ref}
        /\ UNCHANGED <<sent, input_queue_, taskQ, frame_ref, spc>>
    BY <1>13 DEF EncodeMoreData
  <2>2. frame_ref \notin buffered
    BY <1>o, <2>1 DEF FramesInOrder, Encoding
  <2>3. Kept' = Kept + 1
    BY <1>f, <2>1, <2>2, FS_AddElement
  <2>4. Given = 1 /\ Given' = 0 /\ Waiting' = Waiting /\ Posts' = Posts /\ Queued' = Queued
    BY <2>1 DEF One, Encoding
  <2> QED BY <1>f, <1>t, <2>1, <2>3, <2>4 DEF FramesCounted
<1>14. CASE EncodeDrained
  <2>1. UNCHANGED <<sent, ops, buffered, input_queue_, taskQ, frame_ref, spc>>
        /\ Given = 0 /\ Given' = 0
    BY <1>14 DEF EncodeDrained, One
  <2> QED BY <2>1 DEF FramesCounted
<1>15. CASE EncodeError
  BY <1>15, <1>o DEF EncodeError, Fail
<1>16. CASE ReleaseInputSurface
  BY <1>16, <1>u DEF ReleaseInputSurface, Encoding
<1>17. CASE Submit
  BY <1>17, <1>u DEF Submit, Encoding
<1>18. CASE TakeRelease
  BY <1>18, <1>u DEF TakeRelease
<1>19. CASE TakeNotifyEos
  BY <1>19, <1>u DEF TakeNotifyEos
<1>20. CASE TakeSync
  BY <1>20, <1>u DEF TakeSync
<1>21. CASE SyncDone
  BY <1>21, <1>u DEF SyncDone
<1>22. CASE SyncError
  BY <1>22, <1>o DEF SyncError, Fail
<1>23. CASE Push
  BY <1>23, <1>u DEF Push
<1>24. CASE Clean
  BY <1>24, <1>u DEF Clean, EndSync, Encoding
<1>25. ASSUME NEW f \in Frames, Unlock(f) PROVE FramesCounted'
  BY <1>25, <1>u DEF Unlock
<1>26. CASE Deactivate \/ Deactivated \/ StopTaskThread \/ DisposeStep
  BY <1>26, <1>o DEF Deactivate, Deactivated, StopTaskThread, DisposeStep, JoinTaskThread,
     StopSyncThread, JoinSyncThread, Free, Change
<1>27. CASE Restart
  BY <1>27, <1>o, FramesAssumption DEF Restart, Undisturbed
<1>28. CASE UNCHANGED vars
  BY <1>28, <1>u DEF vars
<1> QED
  BY <1>1, <1>2, <1>3, <1>4, <1>5, <1>6, <1>7, <1>8, <1>9, <1>10, <1>11, <1>12, <1>13,
     <1>14, <1>15, <1>16, <1>17, <1>18, <1>19, <1>20, <1>21, <1>22, <1>23, <1>24, <1>25,
     <1>26, <1>27, <1>28
  DEF Next, TaskStep, SyncStep
-----------------------------------------------------------------------------
(* The results.                                                            *)

\* EOS goes out after every frame.
LEMMA OutputStep ==
  ASSUME TypeOK, PhaseInv, FramesInOrder, OrderInv, OpsInOrder', [Next]_vars
  PROVE  OutputInOrder'
<1>t. /\ restarts \in Nat /\ eosOut \in BOOLEAN /\ eosSent \in BOOLEAN /\ taskOpen \in BOOLEAN
      /\ sent \in Nat
  BY FramesAssumption DEF TypeOK
<1>i. EosKnown /\ Spent /\ (Undisturbed => NothingLost /\ EosLast)
  BY DEF OrderInv
<1> DEFINE AllOut == eosOut /\ failures = {} => pushed = [k \in 1 .. sent |-> k]
<1>a. AllOut
  BY DEF OrderInv, OutputInOrder
<1> SUFFICES AllOut'
  BY DEF OpsInOrder, OutputInOrder
<1>u. ASSUME UNCHANGED <<eosOut, sent, pushed>>, failures \subseteq failures' PROVE AllOut'
  BY <1>a, <1>u
<1> USE DEF stream, tasks, encoder, syncs, downstream, app, Fail
<1>1. CASE Chain
  BY <1>1, <1>i, <1>t DEF Chain, EosKnown
<1>2. CASE ChainTest
  BY <1>2, <1>u DEF ChainTest
<1>3. CASE ChainPost
  BY <1>3, <1>u DEF ChainPost
<1>4. CASE SendEos
  <2>1. /\ UNCHANGED <<sent, pushed, failures>>
        /\ eosOut' => eosOut \/ (~taskOpen /\ elem = "playing")
    BY <1>4 DEF SendEos
  <2>2. CASE ~taskOpen /\ elem = "playing" /\ failures = {}
    <3>1. restarts > 0 /\ spc \notin Pending
      BY <1>4, <1>t, <2>2 DEF PhaseInv, SendEos, Pending
    <3>2. pushed = <<>> /\ sent = 0
      BY <1>i, <1>t, <2>2, <3>1 DEF Spent
    <3>3. [k \in 1 .. 0 |-> k] = <<>>
      OBVIOUS
    <3> QED BY <2>1, <3>2, <3>3
  <2> QED BY <1>a, <2>1, <2>2
<1>5. CASE TakeFrame
  BY <1>5, <1>u DEF TakeFrame
<1>6. CASE TakeEos
  BY <1>6, <1>u DEF TakeEos
<1>7. CASE LoopEnd
  BY <1>7, <1>u DEF LoopEnd
<1>8. CASE LoopNext
  BY <1>8, <1>u DEF LoopNext
<1>9. CASE LoopNoBuffer
  BY <1>9, <1>u DEF LoopNoBuffer
<1>10. CASE EncodeBusy
  BY <1>10, <1>u DEF EncodeBusy
<1>11. CASE BusyTest
  BY <1>11, <1>u DEF BusyTest
<1>12. CASE EncodeNone
  BY <1>12, <1>u DEF EncodeNone
<1>13. CASE EncodeMoreData
  BY <1>13, <1>u DEF EncodeMoreData
<1>14. CASE EncodeDrained
  BY <1>14, <1>u DEF EncodeDrained
<1>15. CASE EncodeError
  BY <1>15, <1>u DEF EncodeError
<1>16. CASE ReleaseInputSurface
  BY <1>16, <1>u DEF ReleaseInputSurface
<1>17. CASE Submit
  BY <1>17, <1>u DEF Submit
<1>18. CASE TakeRelease
  BY <1>18, <1>u DEF TakeRelease
<1>19. CASE TakeNotifyEos
  <2>1. /\ UNCHANGED <<sent, pushed, failures>> /\ ypc = "idle"
        /\ syncQ # <<>> /\ Head(syncQ).kind = "eos"
        /\ eosOut' => eosOut \/ elem = "playing"
    BY <1>19 DEF TakeNotifyEos
  <2>2. CASE elem = "playing" /\ failures = {}
    <3>1. Undisturbed
      BY <1>t, <2>1, <2>2 DEF Undisturbed, PhaseInv
    <3>2. 1 \in DOMAIN syncQ /\ syncQ[1].kind = "eos" /\ syncQ[1] \notin IsSync
      BY <2>1, SyncTypes, Taken DEF IsSync
    <3>3. Len(syncQ) = 1 /\ Drained
      BY <1>i, <3>1, <3>2 DEF EosLast
    <3>4. Num(syncQ, Len(syncQ), IsSync) = 0 /\ Num(taskQ, Len(taskQ), Frames) = 0
      <4>1. \A i \in 1 .. 1 : syncQ[i] \notin IsSync
        BY <3>2
      <4>2. Len(taskQ) = 0
        BY <3>3, EmptySeq DEF Drained
      <4> QED BY <3>3, <4>1, <4>2, NumZero, NumType
    <3>5. /\ Cardinality(buffered) = 0 /\ Len(input_queue_) = 0 /\ One(spc \in Pending) = 0
          /\ One(tpc \in Encoding /\ frame_ref # NoFrame) = 0 /\ One(op # NoOp) = 0
          /\ One(Syncing) = 0
      BY <1>i, <2>1, <3>3, FS_EmptySet, EmptySeq DEF Drained, One, Encoding, Syncing, EosKnown
    <3>6. sent = Len(pushed)
      BY <1>i, <3>1, <3>4, <3>5, OpTypes DEF NothingLost, OpsCounted, FramesCounted, Base
    <3>7. pushed = [k \in 1 .. Len(pushed) |-> pushed[k]] /\ DOMAIN pushed = 1 .. Len(pushed)
      BY OpTypes
    <3>8. \A k \in 1 .. Len(pushed) : pushed[k] = k
      BY <1>i, <3>1, <3>7 DEF NothingLost, OpsCounted
    <3> QED BY <2>1, <3>6, <3>7, <3>8
  <2> QED BY <1>a, <2>1, <2>2
<1>20. CASE TakeSync
  BY <1>20, <1>u DEF TakeSync
<1>21. CASE SyncDone
  BY <1>21, <1>u DEF SyncDone
<1>22. CASE SyncError
  BY <1>22, <1>u DEF SyncError, EndSync
<1>23. CASE Push
  <2>1. /\ UNCHANGED <<sent, eosOut>> /\ ypc = "push"
        /\ failures' = {} => elem = "playing" /\ failures = {}
    BY <1>23 DEF Push
  <2>2. CASE eosOut /\ failures' = {}
    <3>1. Undisturbed
      BY <1>t, <2>1, <2>2 DEF Undisturbed, PhaseInv
    <3> QED BY <1>i, <2>1, <2>2, <3>1 DEF EosLast
  <2> QED BY <2>1, <2>2
<1>24. CASE Clean
  BY <1>24, <1>u DEF Clean, EndSync
<1>25. ASSUME NEW f \in Frames, Unlock(f) PROVE AllOut'
  BY <1>25, <1>u DEF Unlock
<1>26. CASE Deactivate \/ Deactivated \/ StopTaskThread \/ DisposeStep
  BY <1>26, <1>u DEF Deactivate, Deactivated, StopTaskThread, DisposeStep, JoinTaskThread,
     StopSyncThread, JoinSyncThread, Free, Change
<1>27. CASE Restart
  BY <1>27 DEF Restart
<1>28. CASE UNCHANGED vars
  BY <1>28, <1>u DEF vars
<1> QED
  BY <1>1, <1>2, <1>3, <1>4, <1>5, <1>6, <1>7, <1>8, <1>9, <1>10, <1>11, <1>12, <1>13,
     <1>14, <1>15, <1>16, <1>17, <1>18, <1>19, <1>20, <1>21, <1>22, <1>23, <1>24, <1>25,
     <1>26, <1>27, <1>28
  DEF Next, TaskStep, SyncStep

\* The invariant holds after the CAPS event.
LEMMA InitInv == Init => IInv
<1> SUFFICES ASSUME Init PROVE IInv
  OBVIOUS
<1>1. TypeOK
  BY InitType
<1>2. /\ restarts = 0 /\ elem = "playing" /\ syncQ = <<>> /\ taskQ = <<>> /\ pushed = <<>>
      /\ input_queue_ = <<>> /\ Len(<<>>) = 0 /\ DOMAIN <<>> = {}
  BY EmptySeq DEF Init
<1>3. PhaseInv
  BY DEF Init, PhaseInv
<1>4. FramesInOrder
  BY <1>2, FramesAssumption DEF Init, FramesInOrder, Last, Known, Pending, Encoding, NoFrame
<1>5. Num(<<>>, 0, IsSync) = 0 /\ Num(<<>>, 0, Frames) = 0
  BY NumType
<1>6. Counted
  BY <1>2, <1>5 DEF Init, Counted, One
<1>7. LockedIsHeld
  BY DEF Init, LockedIsHeld
<1>8. OpsInOrder
  BY <1>2 DEF Init, OpsInOrder, NoOp, Syncing
<1>9. EosKnown /\ Spent /\ EosLast /\ OutputInOrder
  BY <1>2 DEF Init, EosKnown, Spent, EosLast, OutputInOrder, Pending, Encoding
<1>10. OpsCounted
  BY <1>2, <1>5 DEF Init, OpsCounted, Base, Syncing, One
<1>11. FramesCounted
  <2>1. Cardinality(buffered) = 0
    BY FS_EmptySet DEF Init
  <2> QED BY <1>2, <1>5, <2>1 DEF Init, FramesCounted, One, Pending, Encoding
<1> QED BY <1>1, <1>3, <1>4, <1>6, <1>7, <1>8, <1>9, <1>10, <1>11 DEF IInv, OrderInv, NothingLost

\* Every step keeps the invariant.
LEMMA InvStep == IInv /\ [Next]_vars => IInv'
<1> SUFFICES ASSUME IInv, [Next]_vars PROVE IInv'
  OBVIOUS
<1>1. TypeOK' /\ PhaseInv' /\ FramesInOrder' /\ Counted' /\ LockedIsHeld'
  BY TypeStep, PhaseStep, FramesStep, CountedStep, HeldStep DEF IInv
<1>2. OpsInOrder' /\ EosKnown' /\ Spent'
  BY OpsStep, EosKnownStep, SpentStep DEF IInv, OrderInv
<1>3. ASSUME Undisturbed' PROVE NothingLost' /\ EosLast'
  <2>1. Undisturbed
    BY <1>3, StillUndisturbed DEF IInv
  <2>2. OpsCounted /\ FramesCounted /\ EosLast
    BY <2>1 DEF IInv, OrderInv, NothingLost
  <2> QED BY <1>3, <2>1, <2>2, OpsCountedStep, FramesCountedStep, EosLastStep
          DEF IInv, OrderInv, NothingLost
<1>4. OutputInOrder'
  BY <1>2, OutputStep DEF IInv
<1> QED BY <1>1, <1>2, <1>3, <1>4 DEF IInv, OrderInv

\* The counter and the quiescence, in the words of the specification.
LEMMA InvConsistent == IInv => Consistent
<1> SUFFICES ASSUME IInv PROVE Consistent
  OBVIOUS
<1>1. TypeOK /\ PhaseInv /\ Counted
  BY DEF IInv
<1>2. InFlight = Num(syncQ, Len(syncQ), IsSync) + One(ypc # "idle")
  <2>1. {i \in DOMAIN syncQ : syncQ[i].kind = "sync"} = {i \in 1 .. Len(syncQ) : syncQ[i] \in IsSync}
    BY <1>1, SyncTypes DEF IsSync
  <2>2. (IF ypc = "idle" THEN 0 ELSE 1) = One(ypc # "idle")
    BY DEF One
  <2> QED BY <2>1, <2>2 DEF InFlight, Num
<1>3. QuiescentWhenFreed
  BY <1>1 DEF PhaseInv, QuiescentWhenFreed
<1> QED BY <1>1, <1>2, <1>3 DEF Counted, Consistent

(***************************************************************************)
(* The types; syncop_tasks_num_ counts the operations in flight while the  *)
(* sync thread accepts them, so EncodeFrameAsync() never waits on          *)
(* cv_dev_busy_ for operations that are done; and Dispose() deletes the    *)
(* encoder only after both threads are idle with empty queues.             *)
(***************************************************************************)
THEOREM ConsistentCorrect == Spec => []Consistent
  BY InitInv, InvStep, InvConsistent, PTL DEF Spec

(***************************************************************************)
(* A surface the encoder reads is referenced by one of the two threads or  *)
(* in the queue between them until Dispose() has stopped both.             *)
(***************************************************************************)
THEOREM LockedIsHeldCorrect == Spec => []LockedIsHeld
<1>1. IInv => LockedIsHeld
  BY DEF IInv
<1> QED BY <1>1, InitInv, InvStep, PTL DEF Spec

(***************************************************************************)
(* Coded frames go downstream in the order the encoder made them; when EOS *)
(* is out and nothing failed, every frame received went out before it.     *)
(***************************************************************************)
THEOREM OutputInOrderCorrect == Spec => []OutputInOrder
<1>1. IInv => OutputInOrder
  BY DEF IInv, OrderInv
<1> QED BY <1>1, InitInv, InvStep, PTL DEF Spec
=============================================================================
