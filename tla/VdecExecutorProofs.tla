-------------------------- MODULE VdecExecutorProofs --------------------------
(***************************************************************************)
(* Proofs about the decoder executor for every number of buffers, frames   *)
(* in them, surfaces and failures: Consistent, LockedIsKept and EosIsLast. *)
(***************************************************************************)
EXTENDS VdecExecutor, QueueCounts, FiniteSetTheorems

Inputs == 1 .. MaxInputs                    \* the decode tasks
Pending == {"wait", "test", "post"}         \* spc: a buffer is counted, not yet posted
Working == {"decode", "busyTest", "busy"}   \* tpc: at DecodeFrameAsync()
Calling == {"loop", "get", "out"} \cup Working
Syncing == ypc \in {"sync", "push"}         \* a surface was taken and not pushed
SyncTasks == Surfaces \cup {NotifyEos}
SyncSet == {syncQ[i] : i \in DOMAIN syncQ}
Outgoing == {syncing} \cup SyncSet

(***************************************************************************)
(* The threads work with surfaces, never with a null reference.            *)
(***************************************************************************)
TypeInv ==
  /\ TypeOK
  /\ ypc # "idle" => syncing # None
  /\ tpc \in Working => work # None

(***************************************************************************)
(* The decoder was never given more than the buffers that were sent and    *)
(* are not queued: Given of them, of which bits frames are left.           *)
(***************************************************************************)
Queued == Len(input_queue_) + Num(taskQ, Len(taskQ), Inputs) + One(spc \in Pending)
Given == sent - Queued
Bounded == Given \in Nat /\ bits <= PerInput * Given

(***************************************************************************)
(* The phases of Dispose().                                                *)
(***************************************************************************)
PhaseInv ==
  /\ taskOpen <=> elem \in {"playing", "flushing", "ready"}
  /\ syncOpen <=> elem \notin {"joinSync", "free", "null"}
  /\ elem \in {"stopSync", "joinSync", "free", "null"} => tpc = "idle" /\ taskQ = <<>>
  /\ elem \in {"free", "null"} => ypc = "idle" /\ syncQ = <<>>
  /\ elem \notin {"playing", "flushing"} => spc = "idle"
  /\ spc \in Pending => sent > 0

\* The counter of operations, in the terms of QueueCounts.
Counted == syncOpen => syncop_tasks_num_ = Num(syncQ, Len(syncQ), Surfaces) + One(ypc # "idle")

(***************************************************************************)
(* A surface that is to be shown is in locked_frames_ and is not on its    *)
(* way out: what the sync thread erases is another one.  The same holds of *)
(* the work surface, which may be shown, and of the one shown last.        *)
(***************************************************************************)
KeptInv ==
  /\ toShow \subseteq locked
  /\ toShow \cap Outgoing = {}
  /\ elem # "null" => toShow \subseteq locked_frames_
  /\ tpc \in Working => work \in locked_frames_ /\ work \notin Outgoing
  /\ tpc = "out" /\ out # None => out \in locked_frames_ /\ out \notin Outgoing \cup toShow

\* Unless it keeps references, the decoder locks what it has not decoded or shown.
Shown == (IF tpc = "out" THEN {out} ELSE {})
           \cup SyncSet \cup (IF ypc = "sync" THEN {syncing} ELSE {})
LockedInv ==
  ~KeepsRefs /\ elem \notin {"free", "null"} =>
    /\ locked \subseteq toShow \cup Shown
    /\ tpc \in Working => work \notin locked

Undisturbed == ~KeepsRefs /\ elem = "playing" /\ failures = {}

(***************************************************************************)
(* While nothing fails every frame decoded is somewhere.                   *)
(***************************************************************************)
Out == Cardinality(toShow) + One(tpc = "out" /\ out # None)
            + Num(syncQ, Len(syncQ), Surfaces) + One(Syncing) + pushed
FramesCounted == PerInput * Given = bits + Out

(***************************************************************************)
(* Whatever fails, the end of the stream is known to whoever forwards it,  *)
(* and the decoder is drained when there is nothing left to decode.        *)
(***************************************************************************)
EosKnown ==
  /\ eosSent => spc \notin Pending
  /\ is_eos_ => eosSent
  /\ eosOut => eosSent
  /\ bst = "null" => eosSent
  /\ \A i \in DOMAIN taskQ : taskQ[i] = EosTask => eosSent
  /\ \A i \in DOMAIN syncQ : syncQ[i] = NotifyEos => eosSent

DrainInv ==
  /\ tpc \in {"loop", "out"} /\ sts = "more_data" => bits = 0
  /\ tpc \in Calling /\ bst = "null" => bits = 0 /\ input_queue_ = <<>>

\* Unless something fails the drain goes on to the last frame ...
DrainsToEos ==
  bst = "null" =>
    /\ tpc \in {"get", "out"} \cup Working \/ (tpc = "loop" /\ sts = "none") => is_eos_
    /\ tpc = "out" /\ out = None => toShow = {} /\ sts = "more_data"

\* ... and the end of the stream is the last task of each thread.
Drained ==
  /\ eosSent /\ taskQ = <<>> /\ input_queue_ = <<>> /\ bits = 0 /\ toShow = {} /\ ~is_eos_
  /\ tpc = "idle" \/ (tpc = "loop" /\ sts = "more_data")

EosLast ==
  /\ \A i \in DOMAIN taskQ : taskQ[i] = EosTask => i = Len(taskQ)
  /\ is_eos_ => taskQ = <<>>
  /\ DrainsToEos
  /\ \A i \in DOMAIN syncQ : syncQ[i] = NotifyEos => i = Len(syncQ) /\ Drained
  /\ eosOut => Drained /\ syncQ = <<>> /\ ypc = "idle"

OrderInv ==
  /\ EosKnown
  /\ DrainInv
  /\ Undisturbed => FramesCounted /\ EosLast
  /\ EosIsLast

IInv == TypeInv /\ Bounded /\ PhaseInv /\ Counted /\ KeptInv /\ LockedInv /\ OrderInv
-----------------------------------------------------------------------------
(* Types, and what the decoder is given.                                   *)

\* The constants and the queues.
LEMMA DataTypes ==
  ASSUME TypeOK
  PROVE  /\ sent \in Nat /\ bits \in Nat /\ PerInput \in Nat \ {0} /\ MaxInputs \in Nat
         /\ input_queue_ \in Seq(Inputs) /\ Len(input_queue_) \in Nat
         /\ taskQ \in Seq(Inputs \cup {EosTask}) /\ Len(taskQ) \in Nat
         /\ DOMAIN taskQ = 1 .. Len(taskQ)
         /\ \A i \in DOMAIN taskQ : taskQ[i] \in Inputs \cup {EosTask}
         /\ EosTask \notin Inputs /\ Surfaces \subseteq Nat /\ None \notin Surfaces
         /\ pushed \in Nat
<1>1. PerInput \in Nat \ {0} /\ MaxInputs \in Nat
  BY InputsAssumption, PoolAssumption
<1>2. MaxInputs * PerInput \in Nat
  BY <1>1
<1>3. sent \in Nat /\ bits \in Nat /\ pushed \in Nat
  BY <1>1, <1>2 DEF TypeOK
<1>4. Inputs \cup {EosTask} = 0 .. MaxInputs /\ EosTask \notin Inputs
  BY <1>1 DEF Inputs, EosTask
<1>5. input_queue_ \in Seq(Inputs) /\ taskQ \in Seq(Inputs \cup {EosTask})
  BY <1>4 DEF TypeOK, Inputs
<1>6. Surfaces \subseteq Nat /\ None \notin Surfaces
  BY PoolAssumption DEF Surfaces, None
<1> QED BY <1>1, <1>3, <1>4, <1>5, <1>6, LenProperties, ElementOfSeq

\* A buffer is somewhere: it is sent, posted, queued, then given to the decoder.
Moved ==
  /\ Queued' \in Nat /\ sent' \in 0 .. MaxInputs
  /\ \/ Given' = Given /\ bits' = bits
     \/ Given' = Given /\ bits > 0 /\ bits' = bits - 1
     \/ \E n \in Nat : Given' = Given + n /\ bits' = bits + PerInput * n
     \/ elem' # "playing" /\ Given' \in Int /\ Given' >= Given /\ bits' = bits

\* No step makes or loses one before the threads stop.
LEMMA MovedStep == ASSUME TypeOK, PhaseInv, [Next]_vars PROVE Moved
<1> DEFINE Posts == Num(taskQ, Len(taskQ), Inputs)
           Waiting == One(spc \in Pending)
<1>t. /\ Len(input_queue_) \in Nat /\ Posts \in Nat /\ Waiting \in Nat /\ Queued \in Nat
      /\ sent \in Nat /\ bits \in Nat /\ PerInput \in Nat /\ Given \in Int
      /\ sent \in 0 .. MaxInputs
  <2>1. /\ Len(input_queue_) \in Nat /\ Posts \in Nat /\ Waiting \in Nat
        /\ sent \in Nat /\ bits \in Nat /\ PerInput \in Nat /\ sent \in 0 .. MaxInputs
    BY DataTypes, NumType DEF One, TypeOK
  <2>2. Queued \in Nat
    BY <2>1 DEF Queued
  <2> QED BY <2>1, <2>2 DEF Given
<1>g. ASSUME sent' = sent, Queued' = Queued, bits' = bits PROVE Moved
  BY <1>g, <1>t DEF Moved, Given
<1>u. ASSUME UNCHANGED <<sent, input_queue_, taskQ, bits>>, spc' \in Pending <=> spc \in Pending
      PROVE  Moved
  <2>1. Queued' = Queued
    BY <1>u DEF Queued, One
  <2> QED BY <1>u, <1>g, <2>1
<1>n. ASSUME taskQ # <<>>, taskQ' = Tail(taskQ)
      PROVE  Posts' \in Nat /\ Posts = Posts' + One(Head(taskQ) \in Inputs)
  <2>1. /\ Len(taskQ) \in Nat \ {0} /\ Len(taskQ') = Len(taskQ) - 1
        /\ taskQ \in Seq(Inputs \cup {EosTask})
    BY <1>n, DataTypes, Taken
  <2>2. Num(taskQ, (Len(taskQ) - 1) + 1, Inputs)
          = Num(taskQ', Len(taskQ) - 1, Inputs) + One(Head(taskQ) \in Inputs)
    BY <1>n, <2>1, NumTail
  <2>3. Posts' \in Nat
    <3>1. Len(taskQ') \in Nat
      BY <2>1
    <3> QED BY <3>1, NumType
  <2> QED BY <2>1, <2>2, <2>3
<1>a. ASSUME NEW x \in Inputs \cup {EosTask}, taskQ' = Append(taskQ, x)
      PROVE  Posts' = Posts + One(x \in Inputs)
  <2>1. Len(taskQ') = Len(taskQ) + 1
    BY <1>a, DataTypes, Appended
  <2> QED BY <1>a, DataTypes, <2>1, NumAppend
<1>e. Len(<<>>) = 0
  BY EmptySeq
<1> HIDE DEF Posts, Waiting
<1> USE DEF stream, tasks, locals, input, decoder, syncs, downstream
<1>1. CASE Chain
  <2>1. /\ sent' = sent + 1 /\ sent < MaxInputs /\ Waiting = 0 /\ Waiting' = 1
        /\ UNCHANGED <<input_queue_, taskQ, bits>>
    BY <1>1 DEF Chain, One, Pending, Waiting
  <2>2. Queued' = Queued + 1
    BY <1>t, <2>1 DEF Queued, Posts, Waiting
  <2>3. Given' = Given
    BY <1>t, <2>1, <2>2 DEF Given
  <2>4. sent' \in 0 .. MaxInputs
    BY <1>t, <2>1, DataTypes
  <2> QED BY <1>t, <2>1, <2>2, <2>3, <2>4 DEF Moved
<1>2. CASE ChainTest
  BY <1>2, <1>u DEF ChainTest, Pending
<1>3. CASE ChainPost
  <2>1. sent \in Inputs \cup {EosTask} /\ taskQ' = Append(taskQ, sent)
    BY <1>3, <1>t DEF ChainPost, Inputs, EosTask
  <2>2. /\ Waiting = 1 /\ Waiting' = 0 /\ UNCHANGED <<sent, input_queue_, bits>>
    BY <1>3 DEF ChainPost, One, Pending, Waiting
  <2>3. CASE sent \in Inputs
    <3>1. Posts' = Posts + 1
      BY <1>a, <2>1, <2>3 DEF One
    <3>2. Queued' = Queued
      BY <1>t, <2>2, <3>1 DEF Queued, Posts, Waiting
    <3> QED BY <1>g, <2>2, <3>2
  <2>4. CASE sent \notin Inputs
    <3>1. sent > 0
      BY <1>3 DEF ChainPost, PhaseInv, Pending
    <3> QED BY <1>t, <2>4, <3>1 DEF Inputs
  <2> QED BY <2>3, <2>4
<1>4. CASE SendEos
  <2>1. taskQ' = Append(taskQ, EosTask) /\ UNCHANGED <<sent, input_queue_, spc, bits>>
    BY <1>4 DEF SendEos
  <2>2. Posts' = Posts
    BY <1>a, <1>t, <2>1, DataTypes DEF One
  <2>3. Queued' = Queued
    BY <2>1, <2>2 DEF Queued, Posts
  <2> QED BY <1>g, <2>1, <2>3
<1>5. CASE TakeInput
  <2>1. /\ taskQ # <<>> /\ taskQ' = Tail(taskQ) /\ Head(taskQ) # EosTask
        /\ input_queue_' = Append(input_queue_, Head(taskQ)) /\ Waiting' = Waiting
        /\ UNCHANGED <<sent, bits>>
    BY <1>5 DEF TakeInput, Waiting, Pending, One
  <2>2. Head(taskQ) \in Inputs
    <3>1. Head(taskQ) \in Inputs \cup {EosTask}
      BY <2>1, DataTypes, Taken
    <3> QED BY <2>1, <3>1
  <2>3. Posts' \in Nat /\ Posts = Posts' + 1
    BY <1>n, <2>1, <2>2 DEF One
  <2>4. Len(input_queue_') = Len(input_queue_) + 1
    BY <2>1, <2>2, DataTypes, Appended
  <2>5. Queued' = Queued
    BY <1>t, <2>1, <2>3, <2>4 DEF Queued, Posts, Waiting
  <2> QED BY <1>g, <2>1, <2>5
<1>6. CASE TakeEos
  <2>1. /\ taskQ # <<>> /\ taskQ' = Tail(taskQ) /\ Head(taskQ) \notin Inputs
        /\ UNCHANGED <<sent, bits, input_queue_, spc>>
    BY <1>6, DataTypes DEF TakeEos
  <2>2. Posts = Posts'
    BY <1>n, <2>1 DEF One
  <2>3. Queued' = Queued
    BY <2>1, <2>2 DEF Queued, Posts
  <2> QED BY <1>g, <2>1, <2>3
<1>7. CASE InitDecoder
  <2>1. /\ input_queue_' = <<>> /\ bits' = bits + PerInput * Len(input_queue_)
        /\ UNCHANGED <<sent, taskQ, spc>>
    BY <1>7 DEF InitDecoder
  <2>2. Queued' = Queued - Len(input_queue_) /\ Queued' \in Nat
    BY <1>t, <1>e, <2>1 DEF Queued, Posts, Waiting
  <2>3. Given' = Given + Len(input_queue_)
    BY <1>t, <2>1, <2>2 DEF Given
  <2> QED BY <1>t, <2>1, <2>2, <2>3 DEF Moved
<1>8. CASE HeaderMissing
  <2>1. /\ input_queue_' = <<>> /\ bits' = bits + PerInput * Len(input_queue_)
        /\ UNCHANGED <<sent, taskQ, spc>>
    BY <1>8 DEF HeaderMissing
  <2>2. Queued' = Queued - Len(input_queue_) /\ Queued' \in Nat
    BY <1>t, <1>e, <2>1 DEF Queued, Posts, Waiting
  <2>3. Given' = Given + Len(input_queue_)
    BY <1>t, <2>1, <2>2 DEF Given
  <2> QED BY <1>t, <2>1, <2>2, <2>3 DEF Moved
<1>9. CASE Begin
  BY <1>9, <1>u DEF Begin
<1>10. CASE LoopTop
  <2>1. UNCHANGED <<sent, taskQ, spc>>
    BY <1>10 DEF LoopTop
  <2>2. CASE sts = "more_data" /\ input_queue_ # <<>>
    <3>1. input_queue_' = Tail(input_queue_) /\ bits' = bits + PerInput
      BY <1>10, <2>2 DEF LoopTop
    <3>2. Len(input_queue_') = Len(input_queue_) - 1 /\ Len(input_queue_) # 0
      BY <2>2, <3>1, DataTypes, Taken
    <3>3. Queued' = Queued - 1 /\ Queued' \in Nat
      BY <1>t, <2>1, <3>2 DEF Queued, Posts, Waiting
    <3>4. Given' = Given + 1 /\ bits' = bits + PerInput * 1
      BY <1>t, <2>1, <3>1, <3>3 DEF Given
    <3> QED BY <1>t, <2>1, <3>3, <3>4 DEF Moved
  <2>3. CASE ~(sts = "more_data" /\ input_queue_ # <<>>)
    BY <1>10, <1>u, <2>3 DEF LoopTop
  <2> QED BY <2>2, <2>3
<1>11. CASE LoopEnd
  BY <1>11, <1>u DEF LoopEnd, Leave
<1>12. CASE GetSurface
  BY <1>12, <1>u DEF GetSurface
<1>13. CASE NoPool
  BY <1>13, <1>u DEF NoPool, Fail
<1>14. CASE DecodeBusy
  BY <1>14, <1>u DEF DecodeBusy
<1>15. CASE BusyTest
  BY <1>15, <1>u DEF BusyTest
<1>16. CASE DecodeFrame
  <2>1. UNCHANGED <<sent, taskQ, spc, input_queue_>> /\ bits > 0 /\ bits' = bits - 1
    BY <1>16 DEF DecodeFrame
  <2>2. Queued' = Queued
    BY <2>1 DEF Queued
  <2>3. Given' = Given
    BY <2>1, <2>2 DEF Given
  <2> QED BY <1>t, <2>1, <2>2, <2>3 DEF Moved
<1>17. CASE DecodeNoData
  BY <1>17, <1>u DEF DecodeNoData
<1>18. CASE DecodeMoreSurface
  BY <1>18, <1>u DEF DecodeMoreSurface
<1>19. CASE DecodeError
  BY <1>19, <1>u DEF DecodeError, Fail
<1>20. CASE Output
  BY <1>20, <1>u DEF Output, Fail
<1>21. CASE NoOutput
  BY <1>21, <1>u DEF NoOutput
<1>22. CASE TakeNotifyEos
  BY <1>22, <1>u DEF TakeNotifyEos
<1>23. CASE TakeSync
  BY <1>23, <1>u DEF TakeSync
<1>24. CASE SyncDone
  BY <1>24, <1>u DEF SyncDone
<1>25. CASE SyncError
  BY <1>25, <1>u DEF SyncError, EndSync
<1>26. CASE Push
  BY <1>26, <1>u DEF Push
<1>27. CASE Erase
  BY <1>27, <1>u DEF Erase, EndSync
<1>28. ASSUME NEW s \in Surfaces, Unlock(s) PROVE Moved
  BY <1>28, <1>u DEF Unlock
<1>29. CASE Deactivate
  BY <1>29, <1>u DEF Deactivate, Change
<1>30. CASE Deactivated
  BY <1>30, <1>u DEF Deactivated, Change
<1>31. CASE StopTaskThread
  BY <1>31, <1>u DEF StopTaskThread, Change
<1>32. CASE JoinTaskThread
  <2>1. /\ taskQ' = <<>> /\ UNCHANGED <<sent, bits, spc, input_queue_>> /\ elem' # "playing"
    BY <1>32 DEF JoinTaskThread, Change
  <2>2. Posts' = 0
    BY <1>e, <2>1, NumType DEF Posts
  <2>3. Queued' = Queued - Posts /\ Queued' \in Nat
    BY <1>t, <2>1, <2>2 DEF Queued, Posts, Waiting
  <2>4. Given' = Given + Posts
    BY <1>t, <2>1, <2>3 DEF Given
  <2>5. Given' \in Int /\ Given' >= Given
    BY <1>t, <2>4
  <2> QED BY <1>t, <2>1, <2>3, <2>5 DEF Moved
<1>33. CASE StopSyncThread
  BY <1>33, <1>u DEF StopSyncThread, Change
<1>34. CASE JoinSyncThread
  BY <1>34, <1>u DEF JoinSyncThread, Change
<1>35. CASE FreeAll
  BY <1>35, <1>u DEF FreeAll, Change
<1>36. CASE UNCHANGED vars
  BY <1>36, <1>u DEF vars
<1> QED
  BY <1>1, <1>2, <1>3, <1>4, <1>5, <1>6, <1>7, <1>8, <1>9, <1>10, <1>11, <1>12, <1>13,
     <1>14, <1>15, <1>16, <1>17, <1>18, <1>19, <1>20, <1>21, <1>22, <1>23, <1>24, <1>25,
     <1>26, <1>27, <1>28, <1>29, <1>30, <1>31, <1>32, <1>33, <1>34, <1>35, <1>36
  DEF Next, TaskStep, SyncStep, DisposeStep

\* The decoder was not given more than it has been sent.
LEMMA BoundedStep ==
  ASSUME TypeOK, PhaseInv, Bounded, [Next]_vars
  PROVE  Bounded' /\ bits' \in 0 .. MaxInputs * PerInput
<1>t. /\ Given \in Nat /\ bits \in Nat /\ bits <= PerInput * Given
      /\ PerInput \in Nat \ {0} /\ MaxInputs \in Nat
  BY DataTypes DEF Bounded
<1>m. Moved
  BY MovedStep
<1>1. Given' \in Nat /\ bits' \in Nat /\ bits' <= PerInput * Given'
  <2>1. CASE Given' = Given /\ bits' = bits
    BY <1>t, <2>1
  <2>2. CASE Given' = Given /\ bits > 0 /\ bits' = bits - 1
    <3>1. bits' \in Nat /\ bits' <= PerInput * Given
      <4>1. PerInput * Given \in Nat
        BY <1>t
      <4> QED BY <1>t, <2>2, <4>1
    <3> QED BY <1>t, <2>2, <3>1
  <2>3. ASSUME NEW n \in Nat, Given' = Given + n, bits' = bits + PerInput * n
        PROVE  Given' \in Nat /\ bits' \in Nat /\ bits' <= PerInput * Given'
    <3>1. PerInput * (Given + n) = PerInput * Given + PerInput * n
      BY <1>t
    <3>2. PerInput * Given \in Nat /\ PerInput * n \in Nat
      BY <1>t
    <3>3. bits' \in Nat /\ bits' <= PerInput * (Given + n)
      BY <1>t, <2>3, <3>1, <3>2
    <3> QED BY <1>t, <2>3, <3>3
  <2>4. CASE elem' # "playing" /\ Given' \in Int /\ Given' >= Given /\ bits' = bits
    <3>1. PICK n \in Nat : Given' = Given + n
      <4>1. Given \in Nat /\ Given' \in Int /\ Given' >= Given
        BY <1>t, <2>4
      <4>2. \A g \in Nat, h \in Int : h >= g => h - g \in Nat /\ h = g + (h - g)
        OBVIOUS
      <4> QED BY <4>1, <4>2
    <3>2. PerInput * (Given + n) = PerInput * Given + PerInput * n
      BY <1>t
    <3>3. PerInput * Given \in Nat /\ PerInput * n \in Nat
      BY <1>t
    <3>4. bits' \in Nat /\ bits' <= PerInput * (Given + n)
      BY <1>t, <2>4, <3>2, <3>3
    <3> QED BY <1>t, <3>1, <3>4
  <2> QED BY <1>m, <2>1, <2>2, <2>3, <2>4 DEF Moved
<1>2. bits' <= MaxInputs * PerInput
  <2>1. Given' <= MaxInputs
    <3>1. PICK q \in Nat : q = Queued'
      BY <1>m DEF Moved
    <3>2. Given' = sent' - q
      BY <3>1 DEF Given
    <3>3. sent' \in Nat /\ sent' <= MaxInputs
      BY <1>m, <1>t DEF Moved
    <3>4. \A a, b, c \in Nat : a <= c => a - b <= c
      OBVIOUS
    <3>5. sent' - q <= MaxInputs
      BY <3>3, <3>4, InputsAssumption
    <3> QED BY <3>2, <3>5
  <2>2. PICK g \in Nat : g = Given' /\ g <= MaxInputs /\ bits' <= PerInput * g
    BY <1>1, <2>1
  <2>3. PICK d \in Nat : MaxInputs = g + d
    <3>1. \A h \in Nat : h >= g => h - g \in Nat /\ h = g + (h - g)
      OBVIOUS
    <3> QED BY <1>t, <2>2, <3>1
  <2>4. (g + d) * PerInput = PerInput * g + PerInput * d
    BY <1>t
  <2>5. PerInput * g \in Nat /\ PerInput * d \in Nat
    BY <1>t
  <2>6. bits' <= (g + d) * PerInput
    BY <1>1, <2>2, <2>4, <2>5
  <2> QED BY <2>3, <2>6
<1>3. MaxInputs * PerInput \in Nat
  BY <1>t
<1> QED BY <1>1, <1>2, <1>3 DEF Bounded

\* The variables have their types after the CAPS event.
LEMMA InitType == Init => TypeInv
<1> SUFFICES ASSUME Init PROVE TypeInv
  OBVIOUS
<1>0. \A S : <<>> \in Seq(S)
  BY EmptySeq
<1>1. /\ spc \in {"idle", "wait", "test", "post"}
      /\ tpc \in {"idle", "init", "spin", "begin", "loop", "get", "decode", "busyTest",
                  "busy", "out"}
      /\ sts \in {"none", "more_data", "more_surface"} /\ bst \in {"data", "null"}
      /\ ypc \in {"idle", "sync", "push", "erase"}
      /\ elem \in {"playing", "flushing", "ready", "joinTask", "stopSync", "joinSync",
                   "free", "null"}
  BY DEF Init
<1>2. /\ eosSent \in BOOLEAN /\ taskOpen \in BOOLEAN /\ buffered \in BOOLEAN
      /\ is_eos_ \in BOOLEAN /\ is_dec_initialized_ \in BOOLEAN /\ syncOpen \in BOOLEAN
      /\ eosOut \in BOOLEAN
  BY DEF Init
<1>3. /\ sent \in 0 .. MaxInputs /\ pending_tasks_num_ \in Int /\ syncop_tasks_num_ \in Int
      /\ pushed \in Nat
  BY InputsAssumption DEF Init
<1>4. bits \in 0 .. MaxInputs * PerInput
  <2>1. MaxInputs * PerInput \in Nat
    BY InputsAssumption, PoolAssumption
  <2> QED BY <2>1 DEF Init
<1>5. /\ taskQ \in Seq(0 .. MaxInputs) /\ input_queue_ \in Seq(1 .. MaxInputs)
      /\ syncQ \in Seq(Surfaces \cup {NotifyEos}) /\ sink \in Seq(Surfaces)
  BY <1>0 DEF Init
<1>6. /\ work \in Surfaces \cup {None} /\ out \in Surfaces \cup {None}
      /\ syncing \in Surfaces \cup {None}
      /\ locked \in SUBSET Surfaces /\ toShow \in SUBSET Surfaces
      /\ locked_frames_ \in SUBSET Surfaces /\ failures \subseteq Faults \cup {"flow", "pool"}
  BY DEF Init
<1>7. ypc = "idle" /\ tpc \notin Working
  BY DEF Init, Working
<1> QED BY <1>1, <1>2, <1>3, <1>4, <1>5, <1>6, <1>7 DEF TypeOK, TypeInv

\* Every step keeps the types: the find in DecodeFrameAsync() never fails.
LEMMA TypeStep == ASSUME TypeInv, PhaseInv, Bounded, KeptInv, [Next]_vars PROVE TypeInv'
<1>b. bits' \in 0 .. MaxInputs * PerInput
  BY BoundedStep DEF TypeInv
<1>p. ASSUME NEW t \in Surfaces \cup {NotifyEos}
      PROVE  PostSync(t) \in Seq(Surfaces \cup {NotifyEos})
  <2>1. Append(syncQ, t) \in Seq(Surfaces \cup {NotifyEos})
    BY DEF TypeInv, TypeOK
  <2> QED BY <2>1 DEF PostSync, TypeInv, TypeOK
<1>0. /\ \A S : <<>> \in Seq(S)
      /\ NotifyEos \in Surfaces \cup {NotifyEos} /\ None \notin Surfaces /\ NotifyEos = None
  BY EmptySeq, PoolAssumption DEF Surfaces, None, NotifyEos
<1> USE DEF TypeInv, TypeOK, Working, stream, tasks, locals, input, decoder, syncs, downstream
<1>1. CASE Chain
  BY <1>1, InputsAssumption DEF Chain
<1>2. CASE ChainTest
  BY <1>2 DEF ChainTest
<1>3. CASE ChainPost
  <2>1. Append(taskQ, sent) \in Seq(0 .. MaxInputs)
    BY InputsAssumption
  <2> QED BY <1>3, <2>1 DEF ChainPost
<1>4. CASE SendEos
  <2>1. Append(taskQ, EosTask) \in Seq(0 .. MaxInputs)
    BY InputsAssumption DEF EosTask
  <2> QED BY <1>4, <2>1 DEF SendEos
<1>5. CASE TakeInput
  <2>1. taskQ # <<>> /\ Head(taskQ) # EosTask
    BY <1>5 DEF TakeInput
  <2>2. Head(taskQ) \in 1 .. MaxInputs /\ Tail(taskQ) \in Seq(0 .. MaxInputs)
    BY <2>1, Taken, InputsAssumption DEF EosTask
  <2>3. Append(input_queue_, Head(taskQ)) \in Seq(1 .. MaxInputs)
    BY <2>2
  <2> QED BY <1>5, <2>2, <2>3 DEF TakeInput
<1>6. CASE TakeEos
  BY <1>6, Taken DEF TakeEos
<1>7. CASE InitDecoder
  <2>1. is_dec_initialized_' \in BOOLEAN /\ buffered' \in BOOLEAN
    BY <1>7 DEF InitDecoder
  <2>2. tpc' \in {"begin", "idle"} /\ failures' \subseteq Faults \cup {"flow", "pool"}
    BY <1>7 DEF InitDecoder, MayFail
  <2> QED BY <1>7, <1>b, <1>0, <2>1, <2>2 DEF InitDecoder
<1>8. CASE HeaderMissing
  BY <1>8, <1>b, <1>0 DEF HeaderMissing
<1>9. CASE Begin
  BY <1>9 DEF Begin
<1>10. CASE LoopTop
  <2>1. input_queue_' \in Seq(1 .. MaxInputs)
    <3>1. input_queue_ # <<>> => Tail(input_queue_) \in Seq(1 .. MaxInputs)
      BY Taken
    <3> QED BY <1>10, <3>1 DEF LoopTop
  <2>2. bst' \in {"data", "null"}
    BY <1>10 DEF LoopTop
  <2> QED BY <1>10, <1>b, <2>1, <2>2 DEF LoopTop
<1>11. CASE LoopEnd
  <2>1. buffered' \in BOOLEAN
    BY <1>11 DEF LoopEnd, Leave
  <2> QED BY <1>11, <2>1 DEF LoopEnd, Leave
<1>12. CASE GetSurface
  BY <1>12, <1>0 DEF GetSurface, Free
<1>13. CASE NoPool
  <2>1. buffered' \in BOOLEAN /\ failures' \subseteq Faults \cup {"flow", "pool"}
    BY <1>13 DEF NoPool, Fail, MayFail
  <2> QED BY <1>13, <2>1 DEF NoPool, Fail
<1>14. CASE DecodeBusy
  BY <1>14 DEF DecodeBusy
<1>15. CASE BusyTest
  BY <1>15 DEF BusyTest
<1>16. CASE DecodeFrame
  <2>1. /\ work \in Surfaces /\ toShow' \in SUBSET Surfaces
        /\ out' \in Surfaces \cup {None}
    BY <1>16 DEF DecodeFrame, Show
  <2>2. sts' \in {"none", "more_data", "more_surface"}
    BY <1>16 DEF DecodeFrame
  <2> QED BY <1>16, <1>b, <2>1, <2>2 DEF DecodeFrame
<1>17. CASE DecodeNoData
  BY <1>17 DEF DecodeNoData
<1>18. CASE DecodeMoreSurface
  <2>1. failures' \subseteq Faults \cup {"flow", "pool"}
    BY <1>18 DEF DecodeMoreSurface, MayFail
  <2> QED BY <1>18, <2>1 DEF DecodeMoreSurface
<1>19. CASE DecodeError
  <2>1. buffered' \in BOOLEAN /\ failures' \subseteq Faults \cup {"flow", "pool"}
    BY <1>19 DEF DecodeError, Fail, MayFail
  <2> QED BY <1>19, <2>1 DEF DecodeError, Fail
<1>20. CASE Output
  <2>1. CASE out \in locked_frames_
    <3>1. syncQ' \in Seq(Surfaces \cup {NotifyEos})
      BY <1>20, <1>p, <2>1 DEF Output
    <3> QED BY <1>20, <2>1, <3>1 DEF Output
  <2> QED BY <1>20, <2>1 DEF Output, KeptInv
<1>21. CASE NoOutput
  <2>1. syncQ' \in Seq(Surfaces \cup {NotifyEos}) /\ is_eos_' \in BOOLEAN
    <3>1. CASE bst = "null"
      BY <1>21, <1>p, <1>0, <3>1 DEF NoOutput
    <3>2. CASE bst # "null"
      BY <1>21, <3>2 DEF NoOutput
    <3> QED BY <3>1, <3>2
  <2> QED BY <1>21, <2>1 DEF NoOutput
<1>22. CASE TakeNotifyEos
  <2>1. eosOut' \in BOOLEAN
    BY <1>22 DEF TakeNotifyEos
  <2> QED BY <1>22, <2>1, Taken DEF TakeNotifyEos
<1>23. CASE TakeSync
  <2>1. Head(syncQ) \in Surfaces /\ Tail(syncQ) \in Seq(Surfaces \cup {NotifyEos})
    BY <1>23, Taken DEF TakeSync
  <2> QED BY <1>23, <1>0, <2>1 DEF TakeSync
<1>24. CASE SyncDone
  BY <1>24 DEF SyncDone
<1>25. CASE SyncError
  <2>1. failures' \subseteq Faults \cup {"flow", "pool"}
    BY <1>25 DEF SyncError, MayFail
  <2> QED BY <1>25, <2>1 DEF SyncError, EndSync
<1>26. CASE Push
  <2>1. syncing \in Surfaces
    BY <1>26, <1>0 DEF Push
  <2>2. Append(sink, syncing) \in Seq(Surfaces) /\ Append(sink, syncing) # <<>>
    BY <2>1, Appended, EmptySeq
  <2>3. Tail(Append(sink, syncing)) \in Seq(Surfaces)
    BY <2>2, Taken
  <2>4. sink' \in Seq(Surfaces)
    BY <1>26, <2>2, <2>3 DEF Push
  <2>5. pushed' \in Nat /\ failures' \subseteq Faults \cup {"flow", "pool"}
    BY <1>26 DEF Push
  <2> QED BY <1>26, <2>4, <2>5 DEF Push
<1>27. CASE Erase
  BY <1>27 DEF Erase, EndSync
<1>28. ASSUME NEW s \in Surfaces, Unlock(s) PROVE TypeInv'
  BY <1>28 DEF Unlock
<1>29. CASE Deactivate
  BY <1>29, <1>0 DEF Deactivate, Change
<1>30. CASE Deactivated
  BY <1>30 DEF Deactivated, Change
<1>31. CASE StopTaskThread
  <2>1. taskOpen' \in BOOLEAN /\ syncOpen' \in BOOLEAN /\ is_dec_initialized_' \in BOOLEAN
    BY <1>31 DEF StopTaskThread, Change
  <2> QED BY <1>31, <2>1 DEF StopTaskThread, Change
<1>32. CASE JoinTaskThread
  BY <1>32, <1>0 DEF JoinTaskThread, Change
<1>33. CASE StopSyncThread
  <2>1. taskOpen' \in BOOLEAN /\ syncOpen' \in BOOLEAN /\ is_dec_initialized_' \in BOOLEAN
    BY <1>33 DEF StopSyncThread, Change
  <2> QED BY <1>33, <2>1 DEF StopSyncThread, Change
<1>34. CASE JoinSyncThread
  BY <1>34, <1>0 DEF JoinSyncThread, Change
<1>35. CASE FreeAll
  <2>1. taskOpen' \in BOOLEAN /\ syncOpen' \in BOOLEAN /\ is_dec_initialized_' \in BOOLEAN
    BY <1>35 DEF FreeAll, Change
  <2> QED BY <1>35, <2>1 DEF FreeAll, Change
<1>36. CASE UNCHANGED vars
  BY <1>36 DEF vars
<1> QED
  BY <1>1, <1>2, <1>3, <1>4, <1>5, <1>6, <1>7, <1>8, <1>9, <1>10, <1>11, <1>12, <1>13,
     <1>14, <1>15, <1>16, <1>17, <1>18, <1>19, <1>20, <1>21, <1>22, <1>23, <1>24, <1>25,
     <1>26, <1>27, <1>28, <1>29, <1>30, <1>31, <1>32, <1>33, <1>34, <1>35, <1>36
  DEF Next, TaskStep, SyncStep, DisposeStep
-----------------------------------------------------------------------------
(* The phases, and the counter of operations.                              *)

\* Dispose() closes and empties one thread after the other.
LEMMA PhaseStep == TypeInv /\ PhaseInv /\ [Next]_vars => PhaseInv'
<1> SUFFICES ASSUME TypeInv, PhaseInv, [Next]_vars PROVE PhaseInv'
  OBVIOUS
<1>t. /\ taskOpen \in BOOLEAN /\ syncOpen \in BOOLEAN /\ sent \in Nat
      /\ elem \in {"playing", "flushing", "ready", "joinTask", "stopSync", "joinSync",
                   "free", "null"}
  BY DataTypes DEF TypeInv, TypeOK
<1> USE DEF PhaseInv, Pending, stream, tasks, locals, input, decoder, syncs, downstream
<1>1. CASE Chain
  BY <1>1, <1>t DEF Chain
<1>2. CASE ChainTest
  BY <1>2, <1>t DEF ChainTest
<1>3. CASE ChainPost
  BY <1>3, <1>t DEF ChainPost
<1>4. CASE SendEos
  BY <1>4, <1>t DEF SendEos
<1>5. CASE TakeInput
  BY <1>5, <1>t DEF TakeInput
<1>6. CASE TakeEos
  BY <1>6, <1>t DEF TakeEos
<1>7. CASE InitDecoder
  BY <1>7, <1>t DEF InitDecoder
<1>8. CASE HeaderMissing
  BY <1>8, <1>t DEF HeaderMissing
<1>9. CASE Begin
  BY <1>9, <1>t DEF Begin
<1>10. CASE LoopTop
  BY <1>10 DEF LoopTop
<1>11. CASE LoopEnd
  BY <1>11, <1>t DEF LoopEnd, Leave
<1>12. CASE GetSurface
  BY <1>12, <1>t DEF GetSurface
<1>13. CASE NoPool
  BY <1>13, <1>t DEF NoPool, Fail
<1>14. CASE DecodeBusy
  BY <1>14, <1>t DEF DecodeBusy
<1>15. CASE BusyTest
  BY <1>15, <1>t DEF BusyTest
<1>16. CASE DecodeFrame
  BY <1>16, <1>t DEF DecodeFrame
<1>17. CASE DecodeNoData
  BY <1>17, <1>t DEF DecodeNoData
<1>18. CASE DecodeMoreSurface
  BY <1>18, <1>t DEF DecodeMoreSurface
<1>19. CASE DecodeError
  BY <1>19, <1>t DEF DecodeError, Fail
<1>20. CASE Output
  BY <1>20 DEF Output, Fail, PostSync
<1>21. CASE NoOutput
  BY <1>21 DEF NoOutput, PostSync
<1>22. CASE TakeNotifyEos
  BY <1>22, <1>t DEF TakeNotifyEos
<1>23. CASE TakeSync
  BY <1>23, <1>t DEF TakeSync
<1>24. CASE SyncDone
  BY <1>24, <1>t DEF SyncDone
<1>25. CASE SyncError
  BY <1>25, <1>t DEF SyncError, EndSync
<1>26. CASE Push
  BY <1>26, <1>t DEF Push
<1>27. CASE Erase
  BY <1>27, <1>t DEF Erase, EndSync
<1>28. ASSUME NEW s \in Surfaces, Unlock(s) PROVE PhaseInv'
  BY <1>28, <1>t DEF Unlock
<1>29. CASE Deactivate
  BY <1>29, <1>t DEF Deactivate, Change
<1>30. CASE Deactivated
  BY <1>30, <1>t DEF Deactivated, Change
<1>31. CASE StopTaskThread
  BY <1>31, <1>t DEF StopTaskThread, Change
<1>32. CASE JoinTaskThread
  BY <1>32, <1>t DEF JoinTaskThread, Change
<1>33. CASE StopSyncThread
  BY <1>33, <1>t DEF StopSyncThread, Change
<1>34. CASE JoinSyncThread
  BY <1>34, <1>t DEF JoinSyncThread, Change
<1>35. CASE FreeAll
  BY <1>35, <1>t DEF FreeAll, Change
<1>36. CASE UNCHANGED vars
  BY <1>36, <1>t DEF vars
<1> QED
  BY <1>1, <1>2, <1>3, <1>4, <1>5, <1>6, <1>7, <1>8, <1>9, <1>10, <1>11, <1>12, <1>13,
     <1>14, <1>15, <1>16, <1>17, <1>18, <1>19, <1>20, <1>21, <1>22, <1>23, <1>24, <1>25,
     <1>26, <1>27, <1>28, <1>29, <1>30, <1>31, <1>32, <1>33, <1>34, <1>35, <1>36
  DEF Next, TaskStep, SyncStep, DisposeStep

\* The entries of the sync thread's queue.
LEMMA SyncTypes ==
  ASSUME TypeInv
  PROVE  /\ syncQ \in Seq(SyncTasks) /\ Len(syncQ) \in Nat /\ DOMAIN syncQ = 1 .. Len(syncQ)
         /\ \A i \in DOMAIN syncQ : syncQ[i] \in SyncTasks
         /\ Num(syncQ, Len(syncQ), Surfaces) \in Nat
         /\ syncop_tasks_num_ \in Int
<1>1. syncQ \in Seq(SyncTasks) /\ syncop_tasks_num_ \in Int
  BY DEF TypeInv, TypeOK, SyncTasks
<1>2. Len(syncQ) \in Nat
  BY <1>1, LenProperties
<1> QED BY <1>1, <1>2, LenProperties, ElementOfSeq, NumType

\* PostSync() of a task while sync_thread_ is open, and of any to a closed one.
LEMMA Posted ==
  ASSUME TypeInv, NEW t \in SyncTasks, syncQ' = PostSync(t)
  PROVE  /\ ~syncOpen => syncQ' = syncQ
         /\ syncOpen => /\ Len(syncQ') = Len(syncQ) + 1
                        /\ DOMAIN syncQ' = 1 .. Len(syncQ) + 1
                        /\ \A i \in 1 .. Len(syncQ) : syncQ'[i] = syncQ[i]
                        /\ syncQ'[Len(syncQ) + 1] = t
                        /\ Num(syncQ', Len(syncQ'), Surfaces)
                             = Num(syncQ, Len(syncQ), Surfaces) + One(t \in Surfaces)
                        /\ \A n \in 0 .. Len(syncQ) : Num(syncQ', n, Surfaces) = Num(syncQ, n, Surfaces)
<1>1. CASE syncOpen
  <2>1. syncQ' = Append(syncQ, t)
    BY <1>1 DEF PostSync
  <2> QED BY <1>1, <2>1, SyncTypes, Appended, NumAppend
<1>2. CASE ~syncOpen
  BY <1>2 DEF PostSync
<1> QED BY <1>1, <1>2

\* What taking a task from sync_thread_'s queue leaves.
LEMMA SyncTaken ==
  ASSUME TypeInv, syncQ # <<>>, syncQ' = Tail(syncQ)
  PROVE  /\ Len(syncQ) \in Nat \ {0} /\ Len(syncQ') = Len(syncQ) - 1
         /\ DOMAIN syncQ = 1 .. Len(syncQ) /\ DOMAIN syncQ' = 1 .. Len(syncQ) - 1
         /\ Head(syncQ) = syncQ[1] /\ Head(syncQ) \in SyncTasks
         /\ \A i \in 1 .. Len(syncQ) - 1 : syncQ'[i] = syncQ[i + 1]
         /\ \A n \in 0 .. Len(syncQ) - 1 :
              Num(syncQ, n + 1, Surfaces) = Num(syncQ', n, Surfaces) + One(Head(syncQ) \in Surfaces)
         /\ Num(syncQ, Len(syncQ), Surfaces)
              = Num(syncQ', Len(syncQ'), Surfaces) + One(Head(syncQ) \in Surfaces)
<1>1. /\ Len(syncQ) \in Nat \ {0} /\ Len(syncQ') = Len(syncQ) - 1
      /\ DOMAIN syncQ = 1 .. Len(syncQ) /\ DOMAIN syncQ' = 1 .. Len(syncQ) - 1
      /\ Head(syncQ) = syncQ[1] /\ Head(syncQ) \in SyncTasks
      /\ \A i \in 1 .. Len(syncQ) - 1 : syncQ'[i] = syncQ[i + 1]
  BY SyncTypes, Taken
<1>2. \A n \in 0 .. Len(syncQ) - 1 :
        Num(syncQ, n + 1, Surfaces) = Num(syncQ', n, Surfaces) + One(Head(syncQ) \in Surfaces)
  BY SyncTypes, NumTail
<1>3. Len(syncQ) - 1 \in 0 .. Len(syncQ) - 1 /\ (Len(syncQ) - 1) + 1 = Len(syncQ)
  BY <1>1
<1> QED BY <1>1, <1>2, <1>3

\* The tasks in the queue of the sync thread: a post adds one ...
LEMMA SetPosted ==
  ASSUME TypeInv, NEW t \in SyncTasks, syncQ' = PostSync(t)
  PROVE  /\ SyncSet' \subseteq SyncSet \cup {t} /\ SyncSet \subseteq SyncSet'
         /\ syncOpen => t \in SyncSet'
<1>1. CASE syncOpen
  <2>1. /\ DOMAIN syncQ' = 1 .. Len(syncQ) + 1 /\ DOMAIN syncQ = 1 .. Len(syncQ)
        /\ \A i \in 1 .. Len(syncQ) : syncQ'[i] = syncQ[i]
        /\ syncQ'[Len(syncQ) + 1] = t /\ Len(syncQ) \in Nat
    BY <1>1, Posted, SyncTypes
  <2>2. /\ \A i \in 1 .. Len(syncQ) : i \in 1 .. Len(syncQ) + 1
        /\ \A i \in 1 .. Len(syncQ) + 1 : i \in 1 .. Len(syncQ) \/ i = Len(syncQ) + 1
        /\ Len(syncQ) + 1 \in 1 .. Len(syncQ) + 1
    BY <2>1
  <2> QED BY <2>1, <2>2 DEF SyncSet
<1>2. CASE ~syncOpen
  BY <1>2 DEF SyncSet, PostSync
<1> QED BY <1>1, <1>2

\* ... and taking one removes no other.
LEMMA SetTaken ==
  ASSUME TypeInv, syncQ # <<>>, syncQ' = Tail(syncQ)
  PROVE  SyncSet = SyncSet' \cup {Head(syncQ)}
<1>1. /\ Len(syncQ) \in Nat \ {0} /\ DOMAIN syncQ = 1 .. Len(syncQ)
      /\ DOMAIN syncQ' = 1 .. Len(syncQ) - 1 /\ Head(syncQ) = syncQ[1]
      /\ \A i \in 1 .. Len(syncQ) - 1 : syncQ'[i] = syncQ[i + 1]
  BY SyncTaken
<1>2. /\ \A i \in 1 .. Len(syncQ) - 1 : i + 1 \in 1 .. Len(syncQ)
      /\ \A i \in 1 .. Len(syncQ) : i = 1 \/ (i - 1 \in 1 .. Len(syncQ) - 1 /\ (i - 1) + 1 = i)
      /\ 1 \in 1 .. Len(syncQ)
  BY <1>1
<1>3. SyncSet' \subseteq SyncSet /\ Head(syncQ) \in SyncSet
  BY <1>1, <1>2 DEF SyncSet
<1>4. ASSUME NEW i \in DOMAIN syncQ PROVE syncQ[i] \in SyncSet' \cup {Head(syncQ)}
  BY <1>1, <1>2 DEF SyncSet
<1> QED BY <1>3, <1>4 DEF SyncSet

\* syncop_tasks_num_ follows every post, and every operation finished.
LEMMA CountedStep == ASSUME TypeInv, TypeInv', PhaseInv, KeptInv, Counted, [Next]_vars PROVE Counted'
<1> SUFFICES ASSUME syncOpen' PROVE Counted'
  BY DEF Counted
<1> DEFINE Posts == Num(syncQ, Len(syncQ), Surfaces)
<1>t. Posts \in Nat /\ Posts' \in Nat /\ syncop_tasks_num_ \in Int
  <2>1. syncQ' \in Seq(SyncTasks)
    BY DEF TypeInv, TypeOK, SyncTasks
  <2>2. Len(syncQ') \in Nat
    BY <2>1, LenProperties
  <2>3. Posts' \in Nat
    BY <2>2, NumType
  <2> QED BY <2>3, SyncTypes
<1>n. NotifyEos \in SyncTasks /\ NotifyEos \notin Surfaces
  BY PoolAssumption DEF SyncTasks, NotifyEos, Surfaces
<1>u. ASSUME UNCHANGED <<syncOpen, syncQ, syncop_tasks_num_>>, ypc = "idle" <=> ypc' = "idle"
      PROVE  Counted'
  BY <1>u DEF Counted, One
<1> USE DEF stream, tasks, locals, input, decoder, syncs, downstream
<1>1. CASE Chain
  BY <1>1, <1>u DEF Chain
<1>2. CASE ChainTest
  BY <1>2, <1>u DEF ChainTest
<1>3. CASE ChainPost
  BY <1>3, <1>u DEF ChainPost
<1>4. CASE SendEos
  BY <1>4, <1>u DEF SendEos
<1>5. CASE TakeInput
  BY <1>5, <1>u DEF TakeInput
<1>6. CASE TakeEos
  BY <1>6, <1>u DEF TakeEos
<1>7. CASE InitDecoder
  BY <1>7, <1>u DEF InitDecoder
<1>8. CASE HeaderMissing
  BY <1>8, <1>u DEF HeaderMissing
<1>9. CASE Begin
  BY <1>9, <1>u DEF Begin
<1>10. CASE LoopTop
  BY <1>10, <1>u DEF LoopTop
<1>11. CASE LoopEnd
  BY <1>11, <1>u DEF LoopEnd, Leave
<1>12. CASE GetSurface
  BY <1>12, <1>u DEF GetSurface
<1>13. CASE NoPool
  BY <1>13, <1>u DEF NoPool, Fail
<1>14. CASE DecodeBusy
  BY <1>14, <1>u DEF DecodeBusy
<1>15. CASE BusyTest
  BY <1>15, <1>u DEF BusyTest
<1>16. CASE DecodeFrame
  BY <1>16, <1>u DEF DecodeFrame
<1>17. CASE DecodeNoData
  BY <1>17, <1>u DEF DecodeNoData
<1>18. CASE DecodeMoreSurface
  BY <1>18, <1>u DEF DecodeMoreSurface
<1>19. CASE DecodeError
  BY <1>19, <1>u DEF DecodeError, Fail
<1>20. CASE Output
  <2>1. /\ syncQ' = PostSync(out) /\ UNCHANGED <<syncOpen, ypc>>
        /\ syncop_tasks_num_' = syncop_tasks_num_ + 1
    BY <1>20 DEF Output, KeptInv
  <2>2. out \in SyncTasks /\ out \in Surfaces
    BY <1>20 DEF Output, TypeInv, TypeOK, SyncTasks
  <2>3. Posts' = Posts + 1
    BY <1>t, <2>1, <2>2, Posted DEF One
  <2> QED BY <1>t, <2>1, <2>3 DEF Counted, One
<1>21. CASE NoOutput
  <2>1. UNCHANGED <<syncOpen, syncop_tasks_num_, ypc>>
    BY <1>21 DEF NoOutput
  <2>2. CASE bst = "null"
    <3>1. syncQ' = PostSync(NotifyEos)
      BY <1>21, <2>2 DEF NoOutput
    <3>2. Posts' = Posts
      BY <1>n, <1>t, <2>1, <3>1, Posted DEF One
    <3> QED BY <2>1, <3>2 DEF Counted
  <2>3. CASE bst # "null"
    BY <1>21, <1>u, <2>3 DEF NoOutput
  <2> QED BY <2>2, <2>3
<1>22. CASE TakeNotifyEos
  <2>1. /\ syncQ # <<>> /\ syncQ' = Tail(syncQ) /\ Head(syncQ) \notin Surfaces
        /\ UNCHANGED <<syncOpen, syncop_tasks_num_, ypc>>
    BY <1>22, <1>n DEF TakeNotifyEos
  <2>2. Posts' = Posts
    BY <1>t, <2>1, SyncTaken DEF One
  <2> QED BY <2>1, <2>2 DEF Counted
<1>23. CASE TakeSync
  <2>1. /\ syncQ # <<>> /\ syncQ' = Tail(syncQ) /\ UNCHANGED <<syncOpen, syncop_tasks_num_>>
        /\ ypc = "idle" /\ ypc' = "sync" /\ Head(syncQ) # NotifyEos
    BY <1>23 DEF TakeSync
  <2>2. Head(syncQ) \in Surfaces
    BY <2>1, SyncTaken DEF SyncTasks
  <2>3. Posts = Posts' + 1
    BY <1>t, <2>1, <2>2, SyncTaken DEF One
  <2> QED BY <1>t, <2>1, <2>3 DEF Counted, One
<1>24. CASE SyncDone
  BY <1>24, <1>u DEF SyncDone
<1>25. CASE SyncError
  BY <1>25, <1>t DEF SyncError, EndSync, Counted, One
<1>26. CASE Push
  BY <1>26, <1>u DEF Push
<1>27. CASE Erase
  BY <1>27, <1>t DEF Erase, EndSync, Counted, One
<1>28. ASSUME NEW s \in Surfaces, Unlock(s) PROVE Counted'
  BY <1>28, <1>u DEF Unlock
<1>29. CASE Deactivate
  BY <1>29, <1>u DEF Deactivate, Change
<1>30. CASE Deactivated
  BY <1>30, <1>u DEF Deactivated, Change
<1>31. CASE StopTaskThread
  BY <1>31, <1>u DEF StopTaskThread, Change
<1>32. CASE JoinTaskThread
  BY <1>32, <1>u DEF JoinTaskThread, Change
<1>33. CASE StopSyncThread
  BY <1>33 DEF StopSyncThread
<1>34. CASE JoinSyncThread
  <2>1. ~syncOpen
    BY <1>34 DEF JoinSyncThread, Change, PhaseInv
  <2> QED BY <1>34, <2>1 DEF JoinSyncThread
<1>35. CASE FreeAll
  BY <1>35, <1>u DEF FreeAll, Change
<1>36. CASE UNCHANGED vars
  BY <1>36, <1>u DEF vars
<1> QED
  BY <1>1, <1>2, <1>3, <1>4, <1>5, <1>6, <1>7, <1>8, <1>9, <1>10, <1>11, <1>12, <1>13,
     <1>14, <1>15, <1>16, <1>17, <1>18, <1>19, <1>20, <1>21, <1>22, <1>23, <1>24, <1>25,
     <1>26, <1>27, <1>28, <1>29, <1>30, <1>31, <1>32, <1>33, <1>34, <1>35, <1>36
  DEF Next, TaskStep, SyncStep, DisposeStep
-----------------------------------------------------------------------------
(* The surfaces.                                                           *)

\* What is to be shown is kept by the task thread's pruning and out of the
\* sync thread's reach.
LEMMA KeptStep == ASSUME TypeInv, PhaseInv, KeptInv, [Next]_vars PROVE KeptInv'
<1>t. /\ toShow \subseteq Surfaces /\ locked \subseteq Surfaces
      /\ locked_frames_ \subseteq Surfaces /\ None \notin Surfaces /\ NotifyEos = None
      /\ work \in Surfaces \cup {None} /\ out \in Surfaces \cup {None}
      /\ NotifyEos \in SyncTasks
      /\ tpc \in Working => work # None
  BY DataTypes DEF TypeInv, TypeOK, NotifyEos, None, SyncTasks
<1>u. ASSUME Outgoing' \subseteq Outgoing \cup {None},
             UNCHANGED <<toShow, locked, locked_frames_, work, out>>,
             tpc' \in Working => tpc \in Working, tpc' = "out" => tpc = "out" \/ out' = None,
             elem' # "null" => elem # "null"
      PROVE  KeptInv'
  BY <1>t, <1>u DEF KeptInv
<1>s. ASSUME UNCHANGED <<syncing, syncQ>> PROVE Outgoing' = Outgoing
  BY <1>s DEF Outgoing, SyncSet
<1>v. ASSUME UNCHANGED <<syncing, syncQ, toShow, locked, locked_frames_, work, out>>,
             tpc' \in Working => tpc \in Working, tpc' = "out" => tpc = "out",
             elem' # "null" => elem # "null"
      PROVE  KeptInv'
  BY <1>s, <1>u, <1>v
\* Idle or at the top of the loop, whatever the pruning leaves.
<1>l. ASSUME UNCHANGED <<toShow, locked>>, Outgoing' \cap toShow = {},
             tpc' \notin Working \cup {"out"}, locked_frames_ \cap locked \subseteq locked_frames_',
             elem' # "null" => elem # "null"
      PROVE  KeptInv'
  BY <1>l DEF KeptInv
<1>k. toShow \cap Outgoing = {}
  BY DEF KeptInv
<1> USE DEF stream, tasks, locals, input, decoder, syncs, downstream
<1>1. CASE Chain
  BY <1>1, <1>v DEF Chain, Working
<1>2. CASE ChainTest
  BY <1>2, <1>v DEF ChainTest, Working
<1>3. CASE ChainPost
  BY <1>3, <1>v DEF ChainPost, Working
<1>4. CASE SendEos
  BY <1>4, <1>v DEF SendEos, Working
<1>5. CASE TakeInput
  BY <1>5, <1>v DEF TakeInput, Working
<1>6. CASE TakeEos
  BY <1>6, <1>v DEF TakeEos, Working
<1>7. CASE InitDecoder
  BY <1>7, <1>v DEF InitDecoder, Working
<1>8. CASE HeaderMissing
  BY <1>8, <1>v DEF HeaderMissing, Working
<1>9. CASE Begin
  BY <1>9, <1>l, <1>s, <1>k DEF Begin, Working
<1>10. CASE LoopTop
  <2>1. /\ UNCHANGED <<toShow, locked, syncing, syncQ, locked_frames_, elem>> /\ tpc' = "get"
    BY <1>10 DEF LoopTop
  <2> QED BY <1>l, <1>s, <1>k, <2>1 DEF Working
<1>11. CASE LoopEnd
  BY <1>11, <1>l, <1>s, <1>k DEF LoopEnd, Leave, Working
<1>12. CASE GetSurface
  <2>1. PICK s \in Free : work' = s /\ locked_frames_' = locked_frames_ \cup {s}
    BY <1>12 DEF GetSurface
  <2>2. s \notin Outgoing
    BY <2>1 DEF Free, InUse, Outgoing, SyncSet
  <2>3. UNCHANGED <<toShow, locked, syncing, syncQ, out, elem>> /\ tpc' = "decode"
    BY <1>12 DEF GetSurface
  <2>4. Outgoing' = Outgoing
    BY <1>s, <2>3
  <2> QED BY <2>1, <2>2, <2>3, <2>4 DEF KeptInv, Working
<1>13. CASE NoPool
  BY <1>13, <1>l, <1>s, <1>k DEF NoPool, Fail, Working
<1>14. CASE DecodeBusy
  BY <1>14, <1>v DEF DecodeBusy, Working
<1>15. CASE BusyTest
  BY <1>15, <1>v DEF BusyTest, Working
<1>16. CASE DecodeFrame
  <2>1. /\ tpc = "decode" /\ tpc' = "out" /\ work \notin locked /\ locked' = locked \cup {work}
        /\ UNCHANGED <<syncing, syncQ, locked_frames_, elem, work>>
        /\ \/ toShow' = toShow \cup {work} /\ out' = None
           \/ \E s \in toShow \cup {work} : toShow' = (toShow \cup {work}) \ {s} /\ out' = s
    BY <1>16 DEF DecodeFrame, Show
  <2>2. work \in locked_frames_ /\ work \notin Outgoing /\ elem # "null"
    BY <2>1 DEF KeptInv, PhaseInv, Working
  <2>3. Outgoing' = Outgoing
    BY <1>s, <2>1
  <2> QED BY <2>1, <2>2, <2>3 DEF KeptInv, Working
<1>17. CASE DecodeNoData
  <2>1. /\ tpc = "decode" /\ tpc' = "out"
        /\ UNCHANGED <<locked, syncing, syncQ, locked_frames_, elem, work>>
        /\ \/ toShow' = toShow /\ out' = None
           \/ \E s \in toShow : toShow' = toShow \ {s} /\ out' = s
    BY <1>17 DEF DecodeNoData
  <2>2. Outgoing' = Outgoing
    BY <1>s, <2>1
  <2>3. elem # "null"
    BY <2>1 DEF PhaseInv
  <2> QED BY <2>1, <2>2, <2>3 DEF KeptInv, Working
<1>18. CASE DecodeMoreSurface
  BY <1>18, <1>u, <1>s DEF DecodeMoreSurface, KeptInv, Working
<1>19. CASE DecodeError
  BY <1>19, <1>l, <1>s, <1>k DEF DecodeError, Fail, Working
<1>20. CASE Output
  <2>1. /\ tpc = "out" /\ tpc' = "loop" /\ out \in Surfaces /\ syncQ' = PostSync(out)
        /\ locked_frames_' = locked_frames_ \cap locked
        /\ UNCHANGED <<toShow, locked, syncing, elem>>
    BY <1>20, <1>t DEF Output, KeptInv
  <2>2. SyncSet' \subseteq SyncSet \cup {out}
    BY <2>1, SetPosted DEF SyncTasks
  <2>3. out \notin toShow
    BY <1>20, <2>1 DEF Output, KeptInv
  <2> QED BY <1>k, <1>l, <2>1, <2>2, <2>3 DEF Outgoing, Working
<1>21. CASE NoOutput
  <2>1. /\ tpc' = "loop" /\ locked_frames_' = locked_frames_ \cap locked
        /\ UNCHANGED <<toShow, locked, syncing, elem>>
        /\ syncQ' = syncQ \/ syncQ' = PostSync(NotifyEos)
    BY <1>21 DEF NoOutput
  <2>2. SyncSet' \subseteq SyncSet \cup {None}
    BY <1>t, <2>1, SetPosted DEF SyncSet
  <2> QED BY <1>k, <1>l, <1>t, <2>1, <2>2 DEF Outgoing, Working
<1>22. CASE TakeNotifyEos
  <2>1. SyncSet' \subseteq SyncSet
    BY <1>22, SetTaken DEF TakeNotifyEos
  <2> QED BY <1>22, <1>u, <2>1 DEF TakeNotifyEos, Outgoing, Working
<1>23. CASE TakeSync
  <2>1. SyncSet = SyncSet' \cup {Head(syncQ)}
    BY <1>23, SetTaken DEF TakeSync
  <2> QED BY <1>23, <1>u, <2>1 DEF TakeSync, Outgoing, Working
<1>24. CASE SyncDone
  <2>1. /\ locked \ {syncing} \subseteq locked' /\ syncing \notin toShow
        /\ UNCHANGED <<tpc, work, out, toShow, locked_frames_, syncQ, syncing, elem>>
    BY <1>24, <1>k DEF SyncDone, Outgoing
  <2>2. Outgoing' = Outgoing
    BY <1>s, <2>1
  <2> QED BY <2>1, <2>2 DEF KeptInv
<1>25. CASE SyncError
  <2>1. /\ locked \ {syncing} \subseteq locked' /\ locked_frames_ \ {syncing} \subseteq locked_frames_'
        /\ UNCHANGED <<work, out, toShow, syncQ, elem>> /\ syncing' = None
        /\ tpc' = tpc \/ (tpc = "busy" /\ tpc' = "busyTest")
    BY <1>25 DEF SyncError, EndSync
  <2>2. Outgoing' \subseteq Outgoing \cup {None} /\ syncing \in Outgoing
    BY <2>1 DEF Outgoing, SyncSet
  <2> QED BY <1>t, <2>1, <2>2 DEF KeptInv, Working
<1>26. CASE Push
  BY <1>26, <1>v DEF Push, Working
<1>27. CASE Erase
  <2>1. /\ locked \ {syncing} \subseteq locked' /\ locked_frames_ \ {syncing} \subseteq locked_frames_'
        /\ UNCHANGED <<work, out, toShow, syncQ, elem>> /\ syncing' = None
        /\ tpc' = tpc \/ (tpc = "busy" /\ tpc' = "busyTest")
    BY <1>27 DEF Erase, EndSync
  <2>2. Outgoing' \subseteq Outgoing \cup {None} /\ syncing \in Outgoing
    BY <2>1 DEF Outgoing, SyncSet
  <2> QED BY <1>t, <2>1, <2>2 DEF KeptInv, Working
<1>28. ASSUME NEW s \in Surfaces, Unlock(s) PROVE KeptInv'
  <2>1. /\ s \notin toShow /\ locked' = locked \ {s}
        /\ UNCHANGED <<tpc, work, out, toShow, locked_frames_, syncQ, syncing, elem>>
    BY <1>28 DEF Unlock
  <2>2. Outgoing' = Outgoing
    BY <1>s, <2>1
  <2> QED BY <2>1, <2>2 DEF KeptInv
<1>29. CASE Deactivate
  BY <1>29, <1>v DEF Deactivate, Change, Working
<1>30. CASE Deactivated
  BY <1>30, <1>v DEF Deactivated, Change, Working
<1>31. CASE StopTaskThread
  BY <1>31, <1>v DEF StopTaskThread, Change, Working
<1>32. CASE JoinTaskThread
  BY <1>32, <1>v DEF JoinTaskThread, Change
<1>33. CASE StopSyncThread
  BY <1>33, <1>v DEF StopSyncThread, Change, Working
<1>34. CASE JoinSyncThread
  <2>1. SyncSet' = {}
    BY <1>34, EmptySeq DEF JoinSyncThread, SyncSet
  <2> QED BY <1>34, <1>u, <2>1 DEF JoinSyncThread, Change, Outgoing
<1>35. CASE FreeAll
  <2>1. /\ tpc = "idle" /\ tpc' = "idle" /\ toShow' = {} /\ elem' = "null"
    BY <1>35 DEF FreeAll, Change, PhaseInv
  <2> QED BY <2>1 DEF KeptInv, Working
<1>36. CASE UNCHANGED vars
  BY <1>36, <1>v DEF vars
<1> QED
  BY <1>1, <1>2, <1>3, <1>4, <1>5, <1>6, <1>7, <1>8, <1>9, <1>10, <1>11, <1>12, <1>13,
     <1>14, <1>15, <1>16, <1>17, <1>18, <1>19, <1>20, <1>21, <1>22, <1>23, <1>24, <1>25,
     <1>26, <1>27, <1>28, <1>29, <1>30, <1>31, <1>32, <1>33, <1>34, <1>35, <1>36
  DEF Next, TaskStep, SyncStep, DisposeStep

\* Without references to keep, a surface is locked until it is shown and synced.
LEMMA LockedStep ==
  ASSUME TypeInv, PhaseInv, KeptInv, LockedInv, [Next]_vars
  PROVE  LockedInv'
<1> SUFFICES ASSUME ~KeepsRefs, elem' \notin {"free", "null"}
             PROVE  /\ locked' \subseteq toShow' \cup Shown'
                    /\ tpc' \in Working => work' \notin locked'
  BY DEF LockedInv
<1> DEFINE Goal == /\ locked' \subseteq toShow' \cup Shown'
                   /\ tpc' \in Working => work' \notin locked'
           Before == elem \notin {"free", "null"}
<1>t. /\ locked \subseteq Surfaces /\ None \notin Surfaces /\ NotifyEos = None
      /\ NotifyEos \in SyncTasks
  BY DataTypes DEF TypeInv, TypeOK, NotifyEos, None, SyncTasks
<1>i. ASSUME Before
      PROVE  locked \subseteq toShow \cup Shown /\ (tpc \in Working => work \notin locked)
  BY <1>i DEF LockedInv
<1>u. ASSUME Before, toShow' = toShow, locked' \subseteq locked, Shown \subseteq Shown' \cup {None},
             tpc' \in Working => tpc \in Working /\ work' = work
      PROVE  Goal
  BY <1>i, <1>t, <1>u
<1>s. ASSUME UNCHANGED <<ypc, syncing, syncQ>>, tpc # "out" \/ out = None \/ UNCHANGED <<tpc, out>>
      PROVE  Shown \subseteq Shown' \cup {None}
  BY <1>s DEF Shown, SyncSet
<1> HIDE DEF Goal
<1> SUFFICES Goal
  BY DEF Goal
<1> USE DEF Before, stream, tasks, locals, input, decoder, syncs, downstream
<1>1. CASE Chain
  BY <1>1, <1>u, <1>s DEF Chain, Working
<1>2. CASE ChainTest
  BY <1>2, <1>u, <1>s DEF ChainTest, Working
<1>3. CASE ChainPost
  BY <1>3, <1>u, <1>s DEF ChainPost, Working
<1>4. CASE SendEos
  BY <1>4, <1>u, <1>s DEF SendEos, Working
<1>5. CASE TakeInput
  <2>1. /\ UNCHANGED <<toShow, locked, elem, ypc, syncing>> /\ (tpc # "out" \/ out = None)
        /\ tpc' \in Working => tpc \in Working /\ work' = work
    BY <1>5 DEF TakeInput, Working
  <2> QED BY <1>5, <1>u, <1>s, <2>1 DEF TakeInput
<1>6. CASE TakeEos
  <2>1. /\ UNCHANGED <<toShow, locked, elem, ypc, syncing>> /\ (tpc # "out" \/ out = None)
        /\ tpc' \in Working => tpc \in Working /\ work' = work
    BY <1>6 DEF TakeEos, Working
  <2> QED BY <1>6, <1>u, <1>s, <2>1 DEF TakeEos
<1>7. CASE InitDecoder
  <2>1. /\ UNCHANGED <<toShow, locked, elem, ypc, syncing>> /\ (tpc # "out" \/ out = None)
        /\ tpc' \in Working => tpc \in Working /\ work' = work
    BY <1>7 DEF InitDecoder, Working
  <2> QED BY <1>7, <1>u, <1>s, <2>1 DEF InitDecoder
<1>8. CASE HeaderMissing
  <2>1. /\ UNCHANGED <<toShow, locked, elem, ypc, syncing>> /\ (tpc # "out" \/ out = None)
        /\ tpc' \in Working => tpc \in Working /\ work' = work
    BY <1>8 DEF HeaderMissing, Working
  <2> QED BY <1>8, <1>u, <1>s, <2>1 DEF HeaderMissing
<1>9. CASE Begin
  <2>1. /\ UNCHANGED <<toShow, locked, elem, ypc, syncing>> /\ (tpc # "out" \/ out = None)
        /\ tpc' \in Working => tpc \in Working /\ work' = work
    BY <1>9 DEF Begin, Working
  <2> QED BY <1>9, <1>u, <1>s, <2>1 DEF Begin
<1>10. CASE LoopTop
  <2>1. /\ UNCHANGED <<toShow, locked, elem, ypc, syncing>> /\ (tpc # "out" \/ out = None)
        /\ tpc' \in Working => tpc \in Working /\ work' = work
    BY <1>10 DEF LoopTop, Working
  <2> QED BY <1>10, <1>u, <1>s, <2>1 DEF LoopTop
<1>11. CASE LoopEnd
  <2>1. /\ UNCHANGED <<toShow, locked, elem, ypc, syncing>> /\ (tpc # "out" \/ out = None)
        /\ tpc' \in Working => tpc \in Working /\ work' = work
    BY <1>11 DEF LoopEnd, Working, Leave
  <2> QED BY <1>11, <1>u, <1>s, <2>1 DEF LoopEnd, Leave
<1>12. CASE GetSurface
  <2>1. PICK s \in Free : work' = s
    BY <1>12 DEF GetSurface
  <2>2. UNCHANGED <<toShow, locked, ypc, syncing, syncQ, elem>> /\ tpc = "get" /\ tpc' = "decode"
    BY <1>12 DEF GetSurface
  <2>3. toShow \subseteq locked_frames_
    BY <2>2 DEF KeptInv
  <2>4. s \notin toShow \cup Shown
    BY <2>1, <2>2, <2>3 DEF Free, InUse, Shown, SyncSet
  <2>5. Shown' = Shown
    BY <2>2 DEF Shown, SyncSet
  <2> QED BY <1>i, <2>1, <2>2, <2>4, <2>5 DEF Goal
<1>13. CASE NoPool
  <2>1. /\ UNCHANGED <<toShow, locked, elem, ypc, syncing>> /\ (tpc # "out" \/ out = None)
        /\ tpc' \in Working => tpc \in Working /\ work' = work
    BY <1>13 DEF NoPool, Working, Fail
  <2> QED BY <1>13, <1>u, <1>s, <2>1 DEF NoPool, Fail
<1>14. CASE DecodeBusy
  <2>1. /\ UNCHANGED <<toShow, locked, elem, ypc, syncing>> /\ (tpc # "out" \/ out = None)
        /\ tpc' \in Working => tpc \in Working /\ work' = work
    BY <1>14 DEF DecodeBusy, Working
  <2> QED BY <1>14, <1>u, <1>s, <2>1 DEF DecodeBusy
<1>15. CASE BusyTest
  <2>1. /\ UNCHANGED <<toShow, locked, elem, ypc, syncing>> /\ (tpc # "out" \/ out = None)
        /\ tpc' \in Working => tpc \in Working /\ work' = work
    BY <1>15 DEF BusyTest, Working
  <2> QED BY <1>15, <1>u, <1>s, <2>1 DEF BusyTest
<1>16. CASE DecodeFrame
  <2>1. /\ tpc = "decode" /\ tpc' = "out" /\ locked' = locked \cup {work}
        /\ UNCHANGED <<ypc, syncing, syncQ, elem>>
        /\ toShow \cup {work} \subseteq toShow' \cup {out'}
    BY <1>16 DEF DecodeFrame, Show
  <2>2. Shown \cup {out'} \subseteq Shown'
    BY <2>1 DEF Shown, SyncSet
  <2> QED BY <1>i, <2>1, <2>2 DEF Goal, Working
<1>17. CASE DecodeNoData
  <2>1. /\ tpc = "decode" /\ tpc' = "out" /\ UNCHANGED <<locked, ypc, syncing, syncQ, elem>>
        /\ toShow \subseteq toShow' \cup {out'}
    BY <1>17 DEF DecodeNoData
  <2>2. Shown \cup {out'} \subseteq Shown'
    BY <2>1 DEF Shown, SyncSet
  <2> QED BY <1>i, <2>1, <2>2 DEF Goal, Working
<1>18. CASE DecodeMoreSurface
  <2>1. /\ tpc = "decode" /\ tpc' = "out" /\ UNCHANGED <<toShow, locked, ypc, syncing, syncQ, elem>>
    BY <1>18 DEF DecodeMoreSurface
  <2> QED BY <1>u, <1>s, <2>1 DEF Working
<1>19. CASE DecodeError
  <2>1. /\ UNCHANGED <<toShow, locked, elem, ypc, syncing>> /\ (tpc # "out" \/ out = None)
        /\ tpc' \in Working => tpc \in Working /\ work' = work
    BY <1>19 DEF DecodeError, Working, Fail
  <2> QED BY <1>19, <1>u, <1>s, <2>1 DEF DecodeError, Fail
<1>20. CASE Output
  <2>1. /\ tpc = "out" /\ tpc' = "loop" /\ syncQ' = PostSync(out) /\ syncOpen
        /\ UNCHANGED <<toShow, locked, syncing, ypc, elem>> /\ out \in SyncTasks
    BY <1>20 DEF Output, KeptInv, PhaseInv, TypeInv, TypeOK, SyncTasks
  <2>2. SyncSet \cup {out} \subseteq SyncSet'
    BY <2>1, SetPosted
  <2> QED BY <1>u, <2>1, <2>2 DEF Shown, Working
<1>21. CASE NoOutput
  <2>1. /\ UNCHANGED <<toShow, locked, elem, ypc, syncing>> /\ out = None /\ tpc' = "loop"
        /\ syncQ' = syncQ \/ syncQ' = PostSync(NotifyEos)
    BY <1>21 DEF NoOutput
  <2>2. SyncSet \subseteq SyncSet'
    BY <1>t, <2>1, SetPosted DEF SyncSet
  <2> QED BY <1>u, <2>1, <2>2 DEF Shown, Working
<1>22. CASE TakeNotifyEos
  <2>1. SyncSet \subseteq SyncSet' \cup {None}
    BY <1>22, <1>t, SetTaken DEF TakeNotifyEos
  <2> QED BY <1>22, <1>u, <2>1 DEF TakeNotifyEos, Shown
<1>23. CASE TakeSync
  <2>1. SyncSet \subseteq SyncSet' \cup {Head(syncQ)}
    BY <1>23, SetTaken DEF TakeSync
  <2> QED BY <1>23, <1>u, <2>1 DEF TakeSync, Shown
<1>24. CASE SyncDone
  <2>1. /\ locked' = locked \ {syncing} /\ ypc = "sync"
        /\ UNCHANGED <<tpc, work, out, toShow, syncQ, syncing, elem>>
    BY <1>24 DEF SyncDone
  <2>2. Shown \ {syncing} \subseteq Shown'
    BY <2>1 DEF Shown, SyncSet
  <2> QED BY <1>i, <2>1, <2>2 DEF Goal
<1>25. CASE SyncError
  <2>1. /\ locked' = locked \ {syncing} /\ ypc = "sync"
        /\ UNCHANGED <<work, out, toShow, syncQ, elem>>
        /\ tpc' = tpc \/ (tpc = "busy" /\ tpc' = "busyTest")
    BY <1>25 DEF SyncError, EndSync
  <2>2. Shown \ {syncing} \subseteq Shown'
    BY <2>1 DEF Shown, SyncSet
  <2> QED BY <1>i, <2>1, <2>2 DEF Goal, Working
<1>26. CASE Push
  BY <1>26, <1>u DEF Push, Shown, SyncSet
<1>27. CASE Erase
  <2>1. /\ ypc = "erase" /\ UNCHANGED <<work, out, toShow, locked, syncQ, elem>>
        /\ tpc' = tpc \/ (tpc = "busy" /\ tpc' = "busyTest")
    BY <1>27 DEF Erase, EndSync
  <2>2. Shown \subseteq Shown'
    BY <2>1 DEF Shown, SyncSet
  <2> QED BY <1>u, <2>1, <2>2 DEF Working
<1>28. ASSUME NEW s \in Surfaces, Unlock(s) PROVE Goal
  BY <1>28, <1>u, <1>s DEF Unlock, Working
<1>29. CASE Deactivate
  BY <1>29, <1>u, <1>s DEF Deactivate, Change, Working
<1>30. CASE Deactivated
  BY <1>30, <1>u, <1>s DEF Deactivated, Change, Working
<1>31. CASE StopTaskThread
  BY <1>31, <1>u, <1>s DEF StopTaskThread, Change, Working
<1>32. CASE JoinTaskThread
  BY <1>32, <1>u, <1>s DEF JoinTaskThread, Change
<1>33. CASE StopSyncThread
  BY <1>33, <1>u, <1>s DEF StopSyncThread, Change, Working
<1>34. CASE JoinSyncThread
  BY <1>34 DEF JoinSyncThread, Change
<1>35. CASE FreeAll
  BY <1>35 DEF FreeAll, Change
<1>36. CASE UNCHANGED vars
  BY <1>36, <1>u, <1>s DEF vars
<1> QED
  BY <1>1, <1>2, <1>3, <1>4, <1>5, <1>6, <1>7, <1>8, <1>9, <1>10, <1>11, <1>12, <1>13,
     <1>14, <1>15, <1>16, <1>17, <1>18, <1>19, <1>20, <1>21, <1>22, <1>23, <1>24, <1>25,
     <1>26, <1>27, <1>28, <1>29, <1>30, <1>31, <1>32, <1>33, <1>34, <1>35, <1>36
  DEF Next, TaskStep, SyncStep, DisposeStep

\* The two together.
LEMMA InvLockedIsKept == TypeInv /\ PhaseInv /\ KeptInv /\ LockedInv => LockedIsKept
<1> SUFFICES ASSUME TypeInv, PhaseInv, KeptInv, LockedInv PROVE LockedIsKept
  OBVIOUS
<1>1. tpc = "out" => out \in locked_frames_ \cup {None}
  BY DEF KeptInv
<1>2. ASSUME ~KeepsRefs, elem \notin {"free", "null"}, NEW s \in locked PROVE s \notin Free
  <2>1. s \in toShow \cup Shown
    BY <1>2 DEF LockedInv
  <2>2. s # None
    BY DataTypes DEF TypeInv, TypeOK
  <2>3. s \in InUse
    BY <1>2, <2>1, <2>2 DEF InUse, Shown, SyncSet, KeptInv
  <2> QED BY <2>3 DEF Free
<1> QED BY <1>1, <1>2 DEF LockedIsKept, KeptInv
-----------------------------------------------------------------------------
(* The end of the stream.                                                  *)

\* The end of the stream is known to who forwards it.
LEMMA EosKnownStep == ASSUME TypeInv, PhaseInv, EosKnown, [Next]_vars PROVE EosKnown'
<1>t. eosSent \in BOOLEAN /\ eosOut \in BOOLEAN /\ is_eos_ \in BOOLEAN
  BY DEF TypeInv, TypeOK
<1>u. ASSUME UNCHANGED <<stream, eosOut, is_eos_, taskQ, syncQ>>, bst' \in {bst, "data"}
      PROVE  EosKnown'
  BY <1>u DEF EosKnown, stream
<1>p. ASSUME UNCHANGED <<stream, eosOut, taskQ, bst>>, is_eos_' => is_eos_,
             NEW t \in SyncTasks, t = NotifyEos => eosSent, syncQ' = PostSync(t)
      PROVE  EosKnown'
  <2>1. \A i \in DOMAIN syncQ' : syncQ'[i] = NotifyEos =>
          (i \in DOMAIN syncQ /\ syncQ'[i] = syncQ[i]) \/ eosSent
    BY <1>p, SyncTypes, Posted
  <2> QED BY <1>p, <2>1 DEF EosKnown, stream
<1>q. ASSUME UNCHANGED <<stream, is_eos_, taskQ, bst>>, syncQ # <<>>, syncQ' = Tail(syncQ),
             eosOut' => eosOut \/ Head(syncQ) = NotifyEos
      PROVE  EosKnown'
  <2>1. /\ \A i \in DOMAIN syncQ' : i + 1 \in DOMAIN syncQ /\ syncQ'[i] = syncQ[i + 1]
        /\ 1 \in DOMAIN syncQ /\ Head(syncQ) = syncQ[1]
    BY <1>q, SyncTaken
  <2> QED BY <1>q, <2>1 DEF EosKnown, stream
<1>r. ASSUME taskQ # <<>>, taskQ' = Tail(taskQ)
      PROVE  /\ \A i \in DOMAIN taskQ' : i + 1 \in DOMAIN taskQ /\ taskQ'[i] = taskQ[i + 1]
             /\ 1 \in DOMAIN taskQ /\ Head(taskQ) = taskQ[1]
  BY <1>r, DataTypes, Taken DEF TypeInv
<1>d. TypeOK
  BY DEF TypeInv
<1> USE DEF stream, tasks, locals, input, decoder, syncs, downstream
<1>1. CASE Chain
  BY <1>1, <1>t DEF Chain, EosKnown, Pending
<1>2. CASE ChainTest
  BY <1>2, <1>t DEF ChainTest, EosKnown, Pending
<1>3. CASE ChainPost
  <2>1. taskQ' = Append(taskQ, sent) /\ sent # EosTask /\ sent \in Inputs \cup {EosTask}
    <3>1. taskQ' = Append(taskQ, sent) /\ sent > 0 /\ sent \in 0 .. MaxInputs
      BY <1>3 DEF ChainPost, PhaseInv, Pending, TypeInv, TypeOK
    <3> QED BY <3>1 DEF EosTask, Inputs
  <2>2. \A i \in DOMAIN taskQ' : taskQ'[i] = EosTask => i \in DOMAIN taskQ /\ taskQ'[i] = taskQ[i]
    BY <1>d, <2>1, DataTypes, Appended
  <2> QED BY <1>3, <2>2 DEF ChainPost, EosKnown, Pending
<1>4. CASE SendEos
  BY <1>4, <1>t DEF SendEos, EosKnown, Pending
<1>5. CASE TakeInput
  <2>1. spc' \in Pending => spc \in Pending
    BY <1>5 DEF TakeInput, Pending
  <2> QED BY <1>5, <1>r, <2>1 DEF TakeInput, EosKnown
<1>6. CASE TakeEos
  <2>1. eosSent
    BY <1>6, <1>r DEF TakeEos, EosKnown
  <2> QED BY <1>6, <1>r, <2>1 DEF TakeEos, EosKnown
<1>7. CASE InitDecoder
  BY <1>7, <1>u DEF InitDecoder
<1>8. CASE HeaderMissing
  BY <1>8, <1>u DEF HeaderMissing
<1>9. CASE Begin
  BY <1>9, <1>u DEF Begin
<1>10. CASE LoopTop
  <2>1. /\ UNCHANGED <<stream, eosOut, is_eos_, taskQ, syncQ>>
        /\ bst' \in {bst, "data"} \/ is_eos_
    BY <1>10, <1>t DEF LoopTop
  <2> QED BY <1>u, <2>1 DEF EosKnown
<1>11. CASE LoopEnd
  BY <1>11, <1>u DEF LoopEnd, Leave
<1>12. CASE GetSurface
  BY <1>12, <1>u DEF GetSurface
<1>13. CASE NoPool
  BY <1>13, <1>u DEF NoPool, Fail
<1>14. CASE DecodeBusy
  BY <1>14, <1>u DEF DecodeBusy
<1>15. CASE BusyTest
  BY <1>15, <1>u DEF BusyTest
<1>16. CASE DecodeFrame
  BY <1>16, <1>u DEF DecodeFrame
<1>17. CASE DecodeNoData
  BY <1>17, <1>u DEF DecodeNoData
<1>18. CASE DecodeMoreSurface
  BY <1>18, <1>u DEF DecodeMoreSurface
<1>19. CASE DecodeError
  BY <1>19, <1>u DEF DecodeError, Fail
<1>20. CASE Output
  <2>1. CASE out \in locked_frames_
    <3>1. /\ UNCHANGED <<stream, eosOut, is_eos_, taskQ, bst>> /\ syncQ' = PostSync(out)
      BY <1>20, <2>1 DEF Output
    <3>2. out \in SyncTasks /\ out # NotifyEos
      BY <1>20 DEF Output, TypeInv, TypeOK, SyncTasks, None, NotifyEos
    <3> QED BY <1>p, <3>1, <3>2
  <2>2. CASE out \notin locked_frames_
    BY <1>20, <1>u, <2>2 DEF Output, Fail
  <2> QED BY <2>1, <2>2
<1>21. CASE NoOutput
  <2>1. CASE bst = "null"
    <3>1. /\ UNCHANGED <<stream, eosOut, taskQ, bst>> /\ syncQ' = PostSync(NotifyEos) /\ is_eos_' = FALSE
      BY <1>21, <2>1 DEF NoOutput
    <3>2. eosSent
      BY <2>1 DEF EosKnown
    <3> QED BY <1>p, <3>1, <3>2 DEF SyncTasks
  <2>2. CASE bst # "null"
    BY <1>21, <1>u, <2>2 DEF NoOutput
  <2> QED BY <2>1, <2>2
<1>22. CASE TakeNotifyEos
  BY <1>22, <1>q DEF TakeNotifyEos
<1>23. CASE TakeSync
  BY <1>23, <1>q DEF TakeSync
<1>24. CASE SyncDone
  BY <1>24, <1>u DEF SyncDone
<1>25. CASE SyncError
  BY <1>25, <1>u DEF SyncError, EndSync
<1>26. CASE Push
  BY <1>26, <1>u DEF Push
<1>27. CASE Erase
  BY <1>27, <1>u DEF Erase, EndSync
<1>28. ASSUME NEW s \in Surfaces, Unlock(s) PROVE EosKnown'
  BY <1>28, <1>u DEF Unlock
<1>29. CASE Deactivate
  BY <1>29, <1>u DEF Deactivate, Change
<1>30. CASE Deactivated
  BY <1>30, <1>u DEF Deactivated, Change
<1>31. CASE StopTaskThread
  BY <1>31, <1>u DEF StopTaskThread, Change
<1>32. CASE JoinTaskThread
  <2>1. DOMAIN <<>> = {}
    BY EmptySeq
  <2> QED BY <1>32, <2>1 DEF JoinTaskThread, Change, EosKnown
<1>33. CASE StopSyncThread
  BY <1>33, <1>u DEF StopSyncThread, Change
<1>34. CASE JoinSyncThread
  <2>1. DOMAIN <<>> = {}
    BY EmptySeq
  <2> QED BY <1>34, <2>1 DEF JoinSyncThread, Change, EosKnown
<1>35. CASE FreeAll
  BY <1>35, <1>u DEF FreeAll, Change
<1>36. CASE UNCHANGED vars
  BY <1>36, <1>u DEF vars
<1> QED
  BY <1>1, <1>2, <1>3, <1>4, <1>5, <1>6, <1>7, <1>8, <1>9, <1>10, <1>11, <1>12, <1>13,
     <1>14, <1>15, <1>16, <1>17, <1>18, <1>19, <1>20, <1>21, <1>22, <1>23, <1>24, <1>25,
     <1>26, <1>27, <1>28, <1>29, <1>30, <1>31, <1>32, <1>33, <1>34, <1>35, <1>36
  DEF Next, TaskStep, SyncStep, DisposeStep

\* The decoder gets a null bitstream when it was given all there is.
LEMMA DrainStep == ASSUME TypeInv, PhaseInv, DrainInv, [Next]_vars PROVE DrainInv'
<1>t. bits \in Nat /\ buffered \in BOOLEAN /\ is_eos_ \in BOOLEAN
  BY DataTypes DEF TypeInv, TypeOK
<1>u. ASSUME UNCHANGED <<bits, input_queue_, sts, bst>>,
             tpc' \in {"loop", "out"} => tpc \in {"loop", "out"}, tpc' \in Calling => tpc \in Calling
      PROVE  DrainInv'
  BY <1>u DEF DrainInv
<1>x. ASSUME tpc' \notin Calling PROVE DrainInv'
  BY <1>x DEF DrainInv, Calling
<1> USE DEF Calling, Working, stream, tasks, locals, input, decoder, syncs, downstream
<1>1. CASE Chain
  BY <1>1, <1>u DEF Chain
<1>2. CASE ChainTest
  BY <1>2, <1>u DEF ChainTest
<1>3. CASE ChainPost
  BY <1>3, <1>u DEF ChainPost
<1>4. CASE SendEos
  BY <1>4, <1>u DEF SendEos
<1>5. CASE TakeInput
  BY <1>5, <1>x DEF TakeInput
<1>6. CASE TakeEos
  BY <1>6, <1>x DEF TakeEos
<1>7. CASE InitDecoder
  BY <1>7, <1>x DEF InitDecoder
<1>8. CASE HeaderMissing
  BY <1>8, <1>x DEF HeaderMissing
<1>9. CASE Begin
  <2>1. sts' = "more_data" => bits = 0
    BY <1>9, <1>t DEF Begin
  <2> QED BY <1>9, <2>1 DEF Begin, DrainInv
<1>10. CASE LoopTop
  <2>1. CASE sts = "more_data" /\ input_queue_ # <<>>
    BY <1>10, <2>1 DEF LoopTop, DrainInv
  <2>2. CASE sts = "more_data" /\ input_queue_ = <<>>
    BY <1>10, <2>2 DEF LoopTop, DrainInv
  <2>3. CASE sts # "more_data"
    BY <1>10, <2>3 DEF LoopTop, DrainInv
  <2> QED BY <2>1, <2>2, <2>3
<1>11. CASE LoopEnd
  BY <1>11, <1>x DEF LoopEnd, Leave
<1>12. CASE GetSurface
  BY <1>12, <1>u DEF GetSurface
<1>13. CASE NoPool
  BY <1>13, <1>x DEF NoPool, Fail
<1>14. CASE DecodeBusy
  BY <1>14, <1>u DEF DecodeBusy
<1>15. CASE BusyTest
  BY <1>15, <1>u DEF BusyTest
<1>16. CASE DecodeFrame
  <2>1. /\ tpc' = "out" /\ bst' = "data"
        /\ sts' = "more_data" => ~(bits > 1) /\ bits > 0 /\ bits' = bits - 1
    BY <1>16 DEF DecodeFrame
  <2>2. sts' = "more_data" => bits' = 0
    BY <1>t, <2>1
  <2> QED BY <2>1, <2>2 DEF DrainInv
<1>17. CASE DecodeNoData
  <2>1. tpc = "decode" /\ tpc' = "out" /\ UNCHANGED <<bits, input_queue_, bst>>
    BY <1>17 DEF DecodeNoData
  <2>2. bits = 0
    BY <1>17, <2>1 DEF DecodeNoData, DrainInv
  <2> QED BY <2>1, <2>2 DEF DrainInv
<1>18. CASE DecodeMoreSurface
  BY <1>18 DEF DecodeMoreSurface, DrainInv
<1>19. CASE DecodeError
  BY <1>19, <1>x DEF DecodeError, Fail
<1>20. CASE Output
  <2>1. CASE out \in locked_frames_
    BY <1>20, <1>u, <2>1 DEF Output
  <2>2. CASE out \notin locked_frames_
    BY <1>20, <1>x, <2>2 DEF Output, Fail
  <2> QED BY <2>1, <2>2
<1>21. CASE NoOutput
  BY <1>21, <1>u DEF NoOutput
<1>22. CASE TakeNotifyEos
  BY <1>22, <1>u DEF TakeNotifyEos
<1>23. CASE TakeSync
  BY <1>23, <1>u DEF TakeSync
<1>24. CASE SyncDone
  BY <1>24, <1>u DEF SyncDone
<1>25. CASE SyncError
  BY <1>25, <1>u DEF SyncError, EndSync
<1>26. CASE Push
  BY <1>26, <1>u DEF Push
<1>27. CASE Erase
  BY <1>27, <1>u DEF Erase, EndSync
<1>28. ASSUME NEW s \in Surfaces, Unlock(s) PROVE DrainInv'
  BY <1>28, <1>u DEF Unlock
<1>29. CASE Deactivate
  BY <1>29, <1>u DEF Deactivate, Change
<1>30. CASE Deactivated
  BY <1>30, <1>u DEF Deactivated, Change
<1>31. CASE StopTaskThread
  BY <1>31, <1>u DEF StopTaskThread, Change
<1>32. CASE JoinTaskThread
  BY <1>32, <1>u DEF JoinTaskThread, Change
<1>33. CASE StopSyncThread
  BY <1>33, <1>u DEF StopSyncThread, Change
<1>34. CASE JoinSyncThread
  BY <1>34, <1>u DEF JoinSyncThread, Change
<1>35. CASE FreeAll
  BY <1>35, <1>u DEF FreeAll, Change
<1>36. CASE UNCHANGED vars
  BY <1>36, <1>u DEF vars
<1> QED
  BY <1>1, <1>2, <1>3, <1>4, <1>5, <1>6, <1>7, <1>8, <1>9, <1>10, <1>11, <1>12, <1>13,
     <1>14, <1>15, <1>16, <1>17, <1>18, <1>19, <1>20, <1>21, <1>22, <1>23, <1>24, <1>25,
     <1>26, <1>27, <1>28, <1>29, <1>30, <1>31, <1>32, <1>33, <1>34, <1>35, <1>36
  DEF Next, TaskStep, SyncStep, DisposeStep

\* What disturbs the stream does so for the rest of the element's life.
LEMMA StillUndisturbed == TypeInv /\ [Next]_vars /\ Undisturbed' => Undisturbed
<1> SUFFICES ASSUME TypeInv, [Next]_vars, Undisturbed' PROVE Undisturbed
  OBVIOUS
<1> USE DEF Undisturbed
<1> USE DEF stream, tasks, locals, input, decoder, syncs, downstream
<1>1. CASE Chain
  BY <1>1 DEF Chain
<1>2. CASE ChainTest
  BY <1>2 DEF ChainTest
<1>3. CASE ChainPost
  BY <1>3 DEF ChainPost
<1>4. CASE SendEos
  BY <1>4 DEF SendEos
<1>5. CASE TakeInput
  BY <1>5 DEF TakeInput
<1>6. CASE TakeEos
  BY <1>6 DEF TakeEos
<1>7. CASE InitDecoder
  BY <1>7 DEF InitDecoder
<1>8. CASE HeaderMissing
  BY <1>8 DEF HeaderMissing
<1>9. CASE Begin
  BY <1>9 DEF Begin
<1>10. CASE LoopTop
  BY <1>10 DEF LoopTop
<1>11. CASE LoopEnd
  BY <1>11 DEF LoopEnd, Leave
<1>12. CASE GetSurface
  BY <1>12 DEF GetSurface
<1>13. CASE NoPool
  BY <1>13 DEF NoPool, Fail
<1>14. CASE DecodeBusy
  BY <1>14 DEF DecodeBusy
<1>15. CASE BusyTest
  BY <1>15 DEF BusyTest
<1>16. CASE DecodeFrame
  BY <1>16 DEF DecodeFrame
<1>17. CASE DecodeNoData
  BY <1>17 DEF DecodeNoData
<1>18. CASE DecodeMoreSurface
  BY <1>18 DEF DecodeMoreSurface
<1>19. CASE DecodeError
  BY <1>19 DEF DecodeError, Fail
<1>20. CASE Output
  BY <1>20 DEF Output, Fail
<1>21. CASE NoOutput
  BY <1>21 DEF NoOutput
<1>22. CASE TakeNotifyEos
  BY <1>22 DEF TakeNotifyEos
<1>23. CASE TakeSync
  BY <1>23 DEF TakeSync
<1>24. CASE SyncDone
  BY <1>24 DEF SyncDone
<1>25. CASE SyncError
  BY <1>25 DEF SyncError, EndSync
<1>26. CASE Push
  BY <1>26 DEF Push
<1>27. CASE Erase
  BY <1>27 DEF Erase, EndSync
<1>28. ASSUME NEW s \in Surfaces, Unlock(s) PROVE Undisturbed
  BY <1>28 DEF Unlock
<1>29. CASE Deactivate
  BY <1>29 DEF Deactivate, Change
<1>30. CASE Deactivated
  BY <1>30 DEF Deactivated, Change
<1>31. CASE StopTaskThread
  BY <1>31 DEF StopTaskThread, Change
<1>32. CASE JoinTaskThread
  BY <1>32 DEF JoinTaskThread, Change
<1>33. CASE StopSyncThread
  BY <1>33 DEF StopSyncThread, Change
<1>34. CASE JoinSyncThread
  BY <1>34 DEF JoinSyncThread, Change
<1>35. CASE FreeAll
  BY <1>35 DEF FreeAll, Change
<1>36. CASE UNCHANGED vars
  BY <1>36 DEF vars
<1> QED
  BY <1>1, <1>2, <1>3, <1>4, <1>5, <1>6, <1>7, <1>8, <1>9, <1>10, <1>11, <1>12, <1>13,
     <1>14, <1>15, <1>16, <1>17, <1>18, <1>19, <1>20, <1>21, <1>22, <1>23, <1>24, <1>25,
     <1>26, <1>27, <1>28, <1>29, <1>30, <1>31, <1>32, <1>33, <1>34, <1>35, <1>36
  DEF Next, TaskStep, SyncStep, DisposeStep

\* The end of the stream stays last in both queues, and nothing follows it.
LEMMA EosLastStep ==
  ASSUME TypeInv, PhaseInv, KeptInv, LockedInv, EosKnown, DrainInv, EosLast, [Next]_vars,
         Undisturbed, Undisturbed'
  PROVE  EosLast'
<1>o. /\ elem = "playing" /\ elem' = "playing" /\ ~KeepsRefs
      /\ failures = {} /\ failures' = {} /\ taskOpen /\ syncOpen
  BY DEF Undisturbed, PhaseInv
<1>t. /\ eosSent \in BOOLEAN /\ eosOut \in BOOLEAN /\ is_eos_ \in BOOLEAN
      /\ bst \in {"data", "null"} /\ NotifyEos = None /\ NotifyEos \in SyncTasks
      /\ sts \in {"none", "more_data", "more_surface"}
  BY DEF TypeInv, TypeOK, NotifyEos, None, SyncTasks
<1>n. ASSUME ~Drained PROVE eosOut = FALSE /\ \A i \in DOMAIN syncQ : syncQ[i] # NotifyEos
  BY <1>n, <1>t DEF EosLast
<1>f. DrainsToEos
  BY DEF EosLast
<1>u. ASSUME ~Drained, UNCHANGED <<taskQ, is_eos_, syncQ, eosOut>>, DrainsToEos'
      PROVE  EosLast'
  BY <1>u, <1>n DEF EosLast
<1>v. ASSUME UNCHANGED <<tpc, sts, bst, out, toShow, is_eos_>> PROVE DrainsToEos'
  BY <1>f, <1>v DEF DrainsToEos
\* What the task thread does not see.
<1>w. ASSUME UNCHANGED <<taskQ, is_eos_, syncQ, eosOut, eosSent, input_queue_, bits, toShow,
                         tpc, sts, bst, out>>, ypc = "idle" => ypc' = "idle"
      PROVE  EosLast'
  BY <1>v, <1>w DEF EosLast, Drained
<1>q. ASSUME UNCHANGED <<taskQ, is_eos_, eosSent, input_queue_, bits, toShow, tpc, sts, bst,
                         out, eosOut>>, syncQ # <<>>, syncQ' = Tail(syncQ)
      PROVE  EosLast'
  <2>1. /\ Len(syncQ) \in Nat \ {0} /\ Len(syncQ') = Len(syncQ) - 1
        /\ \A i \in DOMAIN syncQ' :
             i \in Nat /\ i + 1 \in DOMAIN syncQ /\ syncQ'[i] = syncQ[i + 1]
    BY <1>q, SyncTaken
  <2>2. \A i \in DOMAIN syncQ' : syncQ'[i] = NotifyEos => i = Len(syncQ') /\ Drained'
    BY <1>q, <2>1 DEF EosLast, Drained
  <2>3. ~eosOut
    BY <1>q DEF EosLast
  <2> QED BY <1>q, <1>v, <2>2, <2>3 DEF EosLast
<1>r. ASSUME taskQ # <<>>, taskQ' = Tail(taskQ)
      PROVE  /\ Head(taskQ) = EosTask => taskQ' = <<>>
             /\ \A i \in DOMAIN taskQ' : taskQ'[i] = EosTask => i = Len(taskQ')
             /\ ~Drained /\ ~is_eos_
  <2>1. /\ Len(taskQ) \in Nat \ {0} /\ Len(taskQ') = Len(taskQ) - 1
        /\ \A i \in DOMAIN taskQ' :
             i \in Nat /\ i + 1 \in DOMAIN taskQ /\ taskQ'[i] = taskQ[i + 1]
        /\ 1 \in DOMAIN taskQ /\ Head(taskQ) = taskQ[1] /\ taskQ' \in Seq(Inputs \cup {EosTask})
    BY <1>r, DataTypes, Taken DEF TypeInv
  <2>2. Len(taskQ) = 1 => taskQ' = <<>>
    BY <2>1, EmptySeq
  <2>3. \A i \in DOMAIN taskQ' : taskQ'[i] = EosTask => i = Len(taskQ')
    BY <2>1 DEF EosLast
  <2>4. Head(taskQ) = EosTask => taskQ' = <<>>
    BY <2>1, <2>2 DEF EosLast
  <2> QED BY <1>r, <2>3, <2>4 DEF EosLast, Drained
<1>d. TypeOK
  BY DEF TypeInv
<1> USE DEF Working, stream, tasks, locals, input, decoder, syncs, downstream
<1>1. CASE Chain
  BY <1>1, <1>w DEF Chain
<1>2. CASE ChainTest
  BY <1>2, <1>w DEF ChainTest
<1>3. CASE ChainPost
  <2>1. /\ taskQ' = Append(taskQ, sent) /\ ~eosSent
        /\ UNCHANGED <<is_eos_, syncQ, eosOut, tpc, sts, bst, out, toShow>>
    BY <1>3, <1>t DEF ChainPost, EosKnown, Pending
  <2>2. sent \in Inputs /\ sent # EosTask
    <3>1. sent > 0 /\ sent \in 0 .. MaxInputs
      BY <1>3 DEF ChainPost, PhaseInv, Pending, TypeInv, TypeOK
    <3> QED BY <3>1 DEF EosTask, Inputs
  <2>3. ~Drained /\ ~is_eos_
    BY <2>1 DEF Drained, EosKnown
  <2>4. \A i \in DOMAIN taskQ' : taskQ'[i] # EosTask
    <3>1. \A i \in DOMAIN taskQ : taskQ[i] # EosTask
      BY <2>1 DEF EosKnown
    <3> QED BY <1>d, <2>1, <2>2, <3>1, DataTypes, Appended
  <2> QED BY <1>n, <1>v, <2>1, <2>3, <2>4 DEF EosLast
<1>4. CASE SendEos
  <2>1. /\ taskQ' = Append(taskQ, EosTask) /\ ~eosSent
        /\ UNCHANGED <<is_eos_, syncQ, eosOut, tpc, sts, bst, out, toShow>>
    BY <1>4, <1>t DEF SendEos
  <2>2. ~Drained /\ ~is_eos_
    BY <2>1 DEF Drained, EosKnown
  <2>3. \A i \in DOMAIN taskQ' : taskQ'[i] = EosTask => i = Len(taskQ')
    <3>1. \A i \in DOMAIN taskQ : taskQ[i] # EosTask
      BY <2>1 DEF EosKnown
    <3> QED BY <1>d, <2>1, <3>1, DataTypes, Appended
  <2> QED BY <1>n, <1>v, <2>1, <2>2, <2>3 DEF EosLast
<1>5. CASE TakeInput
  <2>1. /\ taskQ # <<>> /\ taskQ' = Tail(taskQ) /\ UNCHANGED <<is_eos_, syncQ, eosOut>>
        /\ tpc' \in {"begin", "init"}
    BY <1>5 DEF TakeInput
  <2> QED BY <1>n, <1>r, <2>1 DEF EosLast, DrainsToEos
<1>6. CASE TakeEos
  <2>1. /\ taskQ # <<>> /\ taskQ' = Tail(taskQ) /\ UNCHANGED <<syncQ, eosOut>>
        /\ tpc' = "begin" /\ Head(taskQ) = EosTask
    BY <1>6 DEF TakeEos
  <2> QED BY <1>n, <1>r, <2>1 DEF EosLast, DrainsToEos
<1>7. CASE InitDecoder
  <2>1. /\ ~Drained /\ DrainsToEos' /\ UNCHANGED <<taskQ, is_eos_, syncQ, eosOut>>
    BY <1>7, <1>f DEF InitDecoder, Drained, DrainsToEos
  <2> QED BY <1>u, <2>1
<1>8. CASE HeaderMissing
  <2>1. /\ ~Drained /\ DrainsToEos' /\ UNCHANGED <<taskQ, is_eos_, syncQ, eosOut>>
    BY <1>8, <1>f DEF HeaderMissing, Drained, DrainsToEos
  <2> QED BY <1>u, <2>1
<1>9. CASE Begin
  <2>1. /\ ~Drained /\ DrainsToEos' /\ UNCHANGED <<taskQ, is_eos_, syncQ, eosOut>>
    BY <1>9, <1>f DEF Begin, Drained, DrainsToEos
  <2> QED BY <1>u, <2>1
<1>10. CASE LoopTop
  <2>1. tpc = "loop" /\ tpc' = "get" /\ UNCHANGED <<taskQ, is_eos_, syncQ, eosOut, sts>>
    BY <1>10 DEF LoopTop
  <2>2. ~Drained
    BY <1>10, <1>t DEF LoopTop, Drained
  <2>3. bst' = "null" => is_eos_
    <3>1. CASE sts = "more_data"
      BY <1>10, <1>t, <3>1 DEF LoopTop
    <3>2. CASE sts = "none"
      BY <1>10, <1>f, <2>1, <3>2 DEF LoopTop, DrainsToEos
    <3> QED BY <1>10, <3>1, <3>2 DEF LoopTop
  <2> QED BY <1>u, <2>1, <2>2, <2>3 DEF DrainsToEos
<1>11. CASE LoopEnd
  <2>1. /\ tpc = "loop" /\ tpc' = "idle"
        /\ UNCHANGED <<taskQ, is_eos_, syncQ, eosOut, eosSent, input_queue_, bits, toShow, ypc>>
    BY <1>11 DEF LoopEnd, Leave
  <2>2. DrainsToEos' /\ (Drained => Drained')
    BY <2>1 DEF DrainsToEos, Drained
  <2> QED BY <2>1, <2>2 DEF EosLast
<1>12. CASE GetSurface
  <2>1. /\ ~Drained /\ DrainsToEos' /\ UNCHANGED <<taskQ, is_eos_, syncQ, eosOut>>
    BY <1>12, <1>f DEF GetSurface, Drained, DrainsToEos
  <2> QED BY <1>u, <2>1
<1>13. CASE NoPool
  BY <1>13, <1>o DEF NoPool, Fail
<1>14. CASE DecodeBusy
  <2>1. /\ ~Drained /\ DrainsToEos' /\ UNCHANGED <<taskQ, is_eos_, syncQ, eosOut>>
    BY <1>14, <1>f DEF DecodeBusy, Drained, DrainsToEos
  <2> QED BY <1>u, <2>1
<1>15. CASE BusyTest
  <2>1. /\ ~Drained /\ DrainsToEos' /\ UNCHANGED <<taskQ, is_eos_, syncQ, eosOut>>
    BY <1>15, <1>f DEF BusyTest, Drained, DrainsToEos
  <2> QED BY <1>u, <2>1
<1>16. CASE DecodeFrame
  <2>1. /\ tpc = "decode" /\ tpc' = "out" /\ bst' = bst /\ UNCHANGED <<taskQ, is_eos_, syncQ, eosOut>>
        /\ bst = "null" /\ out' = None => toShow' = {} /\ sts' = "more_data"
    BY <1>16 DEF DecodeFrame
  <2> QED BY <1>f, <1>u, <2>1 DEF Drained, DrainsToEos
<1>17. CASE DecodeNoData
  <2>1. /\ tpc = "decode" /\ tpc' = "out" /\ bst' = bst /\ UNCHANGED <<taskQ, is_eos_, syncQ, eosOut>>
    BY <1>17 DEF DecodeNoData
  <2>2. bst = "null" /\ out' = None => toShow' = {} /\ sts' = "more_data"
    <3>1. CASE bst = "null" /\ toShow # {}
      <4>1. PICK s \in toShow : out' = s
        BY <1>17, <3>1 DEF DecodeNoData
      <4>2. s # None
        BY <1>d, DataTypes DEF TypeOK
      <4> QED BY <4>1, <4>2
    <3>2. CASE ~(bst = "null" /\ toShow # {})
      BY <1>17, <3>2 DEF DecodeNoData
    <3> QED BY <3>1, <3>2
  <2> QED BY <1>f, <1>u, <2>1, <2>2 DEF Drained, DrainsToEos
<1>18. CASE DecodeMoreSurface
  <2>1. tpc = "decode" /\ (work \in locked \/ "params" \in failures')
    BY <1>18 DEF DecodeMoreSurface
  <2> QED BY <1>o, <2>1 DEF LockedInv
<1>19. CASE DecodeError
  BY <1>19, <1>o DEF DecodeError, Fail
<1>20. CASE Output
  <2>1. /\ tpc = "out" /\ tpc' = "loop" /\ UNCHANGED <<taskQ, is_eos_, eosOut, bst>>
        /\ syncQ' = PostSync(out) /\ out # None /\ out \in SyncTasks
    BY <1>20 DEF Output, KeptInv, TypeInv, TypeOK, SyncTasks
  <2>2. ~Drained /\ DrainsToEos'
    BY <1>f, <2>1 DEF Drained, DrainsToEos
  <2>3. \A i \in DOMAIN syncQ' : syncQ'[i] # NotifyEos
    BY <1>n, <1>o, <1>t, <2>1, <2>2, SyncTypes, Posted
  <2> QED BY <1>n, <2>1, <2>2, <2>3 DEF EosLast
<1>21. CASE NoOutput
  <2>1. /\ tpc = "out" /\ out = None /\ tpc' = "loop"
        /\ UNCHANGED <<taskQ, eosOut, bst, sts, eosSent, input_queue_, bits, toShow>>
    BY <1>21 DEF NoOutput
  <2>2. ~Drained
    BY <2>1 DEF Drained
  <2>3. CASE bst = "null"
    <3>1. is_eos_' = FALSE /\ syncQ' = PostSync(NotifyEos)
      BY <1>21, <2>3 DEF NoOutput
    <3>2. is_eos_ /\ toShow = {} /\ sts = "more_data"
      BY <1>f, <2>1, <2>3 DEF DrainsToEos
    <3>3. bits = 0 /\ input_queue_ = <<>>
      BY <2>1, <2>3 DEF DrainInv, Calling
    <3>4. taskQ = <<>> /\ eosSent
      BY <3>2 DEF EosLast, EosKnown
    <3>5. Drained' /\ DrainsToEos'
      BY <2>1, <3>1, <3>2, <3>3, <3>4 DEF Drained, DrainsToEos
    <3>6. \A i \in DOMAIN syncQ' : syncQ'[i] = NotifyEos => i = Len(syncQ')
      BY <1>n, <1>o, <1>t, <2>2, <3>1, SyncTypes, Posted
    <3>7. eosOut' = FALSE /\ taskQ' = <<>> /\ DOMAIN taskQ' = {}
      BY <1>n, <2>1, <2>2, <3>4, EmptySeq
    <3> QED BY <3>1, <3>5, <3>6, <3>7 DEF EosLast
  <2>4. CASE bst # "null"
    BY <1>21, <1>u, <2>1, <2>2, <2>4 DEF NoOutput, DrainsToEos
  <2> QED BY <2>3, <2>4
<1>22. CASE TakeNotifyEos
  <2>1. /\ UNCHANGED <<taskQ, is_eos_, eosSent, input_queue_, bits, toShow, tpc, sts, bst, out,
                       ypc>>
        /\ syncQ # <<>> /\ syncQ' = Tail(syncQ) /\ Head(syncQ) = NotifyEos /\ ypc = "idle"
    BY <1>22 DEF TakeNotifyEos
  <2>2. /\ 1 \in DOMAIN syncQ /\ syncQ[1] = NotifyEos /\ syncQ' \in Seq(SyncTasks)
        /\ Len(syncQ') = Len(syncQ) - 1
    BY <2>1, SyncTypes, Taken
  <2>3. Len(syncQ) = 1 /\ Drained
    BY <2>2 DEF EosLast
  <2>4. syncQ' = <<>> /\ Drained' /\ DOMAIN syncQ' = {}
    BY <2>1, <2>2, <2>3, EmptySeq DEF Drained
  <2> QED BY <1>v, <2>1, <2>4 DEF EosLast
<1>23. CASE TakeSync
  <2>1. /\ UNCHANGED <<taskQ, is_eos_, eosSent, input_queue_, bits, toShow, tpc, sts, bst, out,
                       eosOut>>
        /\ syncQ # <<>> /\ syncQ' = Tail(syncQ)
    BY <1>23 DEF TakeSync
  <2> QED BY <1>q, <2>1
<1>24. CASE SyncDone
  BY <1>24, <1>w DEF SyncDone
<1>25. CASE SyncError
  BY <1>25, <1>o DEF SyncError, Fail
<1>26. CASE Push
  BY <1>26, <1>w DEF Push
<1>27. CASE Erase
  <2>1. CASE tpc = "busy"
    <3>1. /\ ~Drained /\ tpc' = "busyTest" /\ UNCHANGED <<taskQ, is_eos_, syncQ, eosOut, sts, bst>>
      BY <1>27, <2>1 DEF Erase, EndSync, Drained
    <3> QED BY <1>f, <1>u, <2>1, <3>1 DEF DrainsToEos
  <2>2. CASE tpc # "busy"
    BY <1>27, <1>w, <2>2 DEF Erase, EndSync
  <2> QED BY <2>1, <2>2
<1>28. ASSUME NEW s \in Surfaces, Unlock(s) PROVE EosLast'
  BY <1>28, <1>w DEF Unlock
<1>29. CASE Deactivate
  BY <1>29, <1>o DEF Deactivate, Change
<1>30. CASE Deactivated
  BY <1>30, <1>o DEF Deactivated, Change
<1>31. CASE StopTaskThread
  BY <1>31, <1>o DEF StopTaskThread, Change
<1>32. CASE JoinTaskThread
  BY <1>32, <1>o DEF JoinTaskThread, Change
<1>33. CASE StopSyncThread
  BY <1>33, <1>o DEF StopSyncThread, Change
<1>34. CASE JoinSyncThread
  BY <1>34, <1>o DEF JoinSyncThread, Change
<1>35. CASE FreeAll
  BY <1>35, <1>o DEF FreeAll, Change
<1>36. CASE UNCHANGED vars
  BY <1>36, <1>w DEF vars
<1> QED
  BY <1>1, <1>2, <1>3, <1>4, <1>5, <1>6, <1>7, <1>8, <1>9, <1>10, <1>11, <1>12, <1>13,
     <1>14, <1>15, <1>16, <1>17, <1>18, <1>19, <1>20, <1>21, <1>22, <1>23, <1>24, <1>25,
     <1>26, <1>27, <1>28, <1>29, <1>30, <1>31, <1>32, <1>33, <1>34, <1>35, <1>36
  DEF Next, TaskStep, SyncStep, DisposeStep

\* While nothing fails no frame is lost, and none is shown twice.
LEMMA FramesCountedStep ==
  ASSUME TypeInv, TypeInv', PhaseInv, Bounded, KeptInv, LockedInv, FramesCounted, [Next]_vars,
         Undisturbed, Undisturbed'
  PROVE  FramesCounted'
<1> DEFINE Held == Cardinality(toShow)
           AtOut == One(tpc = "out" /\ out # None)
           Posts == Num(syncQ, Len(syncQ), Surfaces)
<1>o. /\ elem = "playing" /\ elem' = "playing" /\ ~KeepsRefs
      /\ failures = {} /\ failures' = {} /\ taskOpen /\ syncOpen
  BY DEF Undisturbed, PhaseInv
<1>b. IsFiniteSet(Surfaces)
  BY PoolAssumption, FS_Interval DEF Surfaces
<1>c. IsFiniteSet(toShow) /\ IsFiniteSet(toShow') /\ Held \in Nat /\ Held' \in Nat
  <2>1. toShow \subseteq Surfaces /\ toShow' \subseteq Surfaces
    BY DEF TypeInv, TypeOK
  <2>2. IsFiniteSet(toShow) /\ IsFiniteSet(toShow')
    BY <1>b, <2>1, FS_Subset
  <2> QED BY <2>2, FS_CardinalityType
<1>y. One(TRUE) = 1 /\ One(FALSE) = 0
  BY DEF One
<1>t. /\ bits \in Nat /\ pushed \in Nat /\ Posts \in Nat /\ Posts' \in Nat
      /\ AtOut \in Nat /\ One(Syncing) \in Nat /\ AtOut' \in Nat /\ One(Syncing)' \in Nat
      /\ None \notin Surfaces /\ NotifyEos \in SyncTasks /\ NotifyEos \notin Surfaces
      /\ toShow \subseteq Surfaces
  <2>1. bits \in Nat /\ pushed \in Nat /\ None \notin Surfaces
    BY DataTypes DEF TypeInv
  <2>2. Posts \in Nat
    BY SyncTypes
  <2>3. Posts' \in Nat
    <3>1. syncQ' \in Seq(SyncTasks)
      BY DEF TypeInv, TypeOK, SyncTasks
    <3>2. Len(syncQ') \in Nat
      BY <3>1, LenProperties
    <3> QED BY <3>2, NumType
  <2> QED BY <2>1, <2>2, <2>3 DEF One, NotifyEos, None, SyncTasks, TypeInv, TypeOK
<1>p. PerInput \in Nat /\ \A n \in Nat : PerInput * n \in Nat
  BY PoolAssumption
<1>g. ASSUME NEW n \in Nat, Given' = Given + n, bits' + Out' = bits + Out + PerInput * n
      PROVE  FramesCounted'
  <2>1. Given \in Nat /\ PerInput * Given = bits + Out
    BY DEF Bounded, FramesCounted
  <2>2. PerInput * (Given + n) = PerInput * Given + PerInput * n
    BY <1>p, <2>1
  <2> QED BY <1>g, <2>1, <2>2 DEF FramesCounted
<1>m. \/ Given' = Given /\ bits' = bits
      \/ Given' = Given /\ bits > 0 /\ bits' = bits - 1
      \/ \E n \in Nat : Given' = Given + n /\ bits' = bits + PerInput * n
  <2>1. Moved
    BY MovedStep DEF TypeInv
  <2> QED BY <1>o, <2>1 DEF Moved
<1>q. Given \in Nat /\ Out \in Nat /\ Out' \in Nat
  <2>1. Out \in Nat
    BY <1>c, <1>t DEF Out
  <2>2. pushed' \in Nat
    BY DEF TypeInv, TypeOK
  <2>3. Out' \in Nat
    BY <1>c, <1>t, <2>2 DEF Out
  <2> QED BY <2>1, <2>3 DEF Bounded
<1>z. \A n \in Nat : n = 0 => PerInput * n = 0
  BY <1>p
\* The decoder takes what it is given ...
<1>k. ASSUME bits' >= bits, Out' = Out PROVE FramesCounted'
  <2>1. CASE Given' = Given /\ bits' = bits
    <3>1. Given' = Given + 0 /\ bits' + Out' = bits + Out + PerInput * 0
      BY <1>k, <1>q, <1>t, <1>z, <2>1
    <3> QED BY <1>g, <3>1
  <2>2. CASE Given' = Given /\ bits > 0 /\ bits' = bits - 1
    BY <1>k, <1>t, <2>2
  <2>3. ASSUME NEW n \in Nat, Given' = Given + n, bits' = bits + PerInput * n
        PROVE  FramesCounted'
    <3>1. PerInput * n \in Nat
      BY <1>p
    <3>2. \A a, b, c, d \in Nat : a = b + c => a + d = b + d + c
      OBVIOUS
    <3>3. bits' + Out' = bits + Out + PerInput * n
      BY <1>k, <1>q, <1>t, <2>3, <3>1, <3>2
    <3> QED BY <1>g, <2>3, <3>3
  <2> QED BY <1>m, <2>1, <2>2, <2>3
\* ... and makes one frame after the other of it.
<1>d. ASSUME bits' = bits - 1, bits > 0, Out' = Out + 1 PROVE FramesCounted'
  <2>1. Given' = Given
    <3>1. ASSUME NEW n \in Nat, bits' = bits + PerInput * n PROVE FALSE
      <4>1. PerInput * n \in Nat
        BY <1>p
      <4>2. \A a, b \in Nat : a - 1 # a + b
        OBVIOUS
      <4> QED BY <1>d, <1>t, <3>1, <4>1, <4>2
    <3> QED BY <1>d, <1>m, <1>t, <3>1
  <2>2. Given' = Given + 0 /\ bits' + Out' = bits + Out + PerInput * 0
    BY <1>d, <1>q, <1>t, <1>z, <2>1
  <2> QED BY <1>g, <2>2
<1>u. ASSUME UNCHANGED <<toShow, syncQ, pushed>>, bits' >= bits,
             ypc' \in {"sync", "push"} <=> ypc \in {"sync", "push"},
             (tpc' = "out" /\ out' # None) <=> (tpc = "out" /\ out # None)
      PROVE  FramesCounted'
  <2>1. Out' = Out
    BY <1>u DEF Out, Syncing, One
  <2> QED BY <1>k, <1>u, <2>1
<1>e. bits >= bits
  BY <1>t
<1> HIDE DEF Held, AtOut, Posts
<1> USE DEF stream, tasks, locals, input, decoder, syncs, downstream
<1>1. CASE Chain
  BY <1>1, <1>e, <1>u DEF Chain
<1>2. CASE ChainTest
  BY <1>2, <1>e, <1>u DEF ChainTest
<1>3. CASE ChainPost
  BY <1>3, <1>e, <1>u DEF ChainPost
<1>4. CASE SendEos
  BY <1>4, <1>e, <1>u DEF SendEos
<1>5. CASE TakeInput
  BY <1>5, <1>e, <1>u DEF TakeInput
<1>6. CASE TakeEos
  BY <1>6, <1>e, <1>u DEF TakeEos
<1>7. CASE InitDecoder
  <2>1. /\ bits' = bits + PerInput * Len(input_queue_) /\ UNCHANGED <<toShow, syncQ, pushed, ypc>>
        /\ tpc # "out" /\ tpc' # "out"
    BY <1>7 DEF InitDecoder
  <2>2. bits' >= bits
    <3>1. Len(input_queue_) \in Nat
      BY DataTypes DEF TypeInv
    <3>2. PerInput * Len(input_queue_) \in Nat
      BY <1>p, <3>1
    <3> QED BY <1>t, <2>1, <3>2
  <2> QED BY <1>u, <2>1, <2>2
<1>8. CASE HeaderMissing
  <2>1. /\ bits' = bits + PerInput * Len(input_queue_) /\ UNCHANGED <<toShow, syncQ, pushed, ypc>>
        /\ tpc # "out" /\ tpc' # "out"
    BY <1>8 DEF HeaderMissing
  <2>2. bits' >= bits
    <3>1. Len(input_queue_) \in Nat
      BY DataTypes DEF TypeInv
    <3>2. PerInput * Len(input_queue_) \in Nat
      BY <1>p, <3>1
    <3> QED BY <1>t, <2>1, <3>2
  <2> QED BY <1>u, <2>1, <2>2
<1>9. CASE Begin
  BY <1>9, <1>e, <1>u DEF Begin
<1>10. CASE LoopTop
  <2>1. UNCHANGED <<toShow, syncQ, pushed, ypc>> /\ tpc = "loop" /\ tpc' = "get"
    BY <1>10 DEF LoopTop
  <2>2. bits' \in {bits, bits + PerInput}
    BY <1>10 DEF LoopTop
  <2>3. bits' >= bits
    BY <1>p, <1>t, <2>2
  <2> QED BY <1>u, <2>1, <2>3
<1>11. CASE LoopEnd
  BY <1>11, <1>e, <1>u DEF LoopEnd, Leave
<1>12. CASE GetSurface
  BY <1>12, <1>e, <1>u DEF GetSurface
<1>13. CASE NoPool
  BY <1>13, <1>o DEF NoPool, Fail
<1>14. CASE DecodeBusy
  BY <1>14, <1>e, <1>u DEF DecodeBusy
<1>15. CASE BusyTest
  BY <1>15, <1>e, <1>u DEF BusyTest
<1>16. CASE DecodeFrame
  <2>1. /\ tpc = "decode" /\ tpc' = "out" /\ work \notin locked /\ bits > 0 /\ bits' = bits - 1
        /\ UNCHANGED <<syncQ, pushed, ypc>>
        /\ \/ toShow' = toShow \cup {work} /\ out' = None
           \/ \E s \in toShow \cup {work} : toShow' = (toShow \cup {work}) \ {s} /\ out' = s
    BY <1>16 DEF DecodeFrame, Show
  <2>2. work \notin toShow /\ work \in Surfaces
    BY <1>t, <2>1 DEF KeptInv, TypeInv, TypeOK, Working, None
  <2>3. /\ IsFiniteSet(toShow \cup {work}) /\ Cardinality(toShow \cup {work}) = Held + 1
    BY <1>c, <2>2, FS_AddElement DEF Held
  <2>4. AtOut = 0 /\ Posts' = Posts /\ One(Syncing)' = One(Syncing) /\ pushed' = pushed
    BY <2>1 DEF AtOut, One, Posts, Syncing
  <2>5. Held' + AtOut' = Held + 1
    <3>1. CASE toShow' = toShow \cup {work} /\ out' = None
      <4>1. AtOut' = 0 /\ Held' = Held + 1
        BY <2>3, <3>1 DEF AtOut, One, Held
      <4> QED BY <1>c, <4>1
    <3>2. ASSUME NEW s \in toShow \cup {work}, toShow' = (toShow \cup {work}) \ {s}, out' = s
          PROVE  Held' + AtOut' = Held + 1
      <4>1. s # None
        BY <1>t, <2>2
      <4>2. AtOut' = 1
        BY <2>1, <3>2, <4>1 DEF AtOut, One
      <4>3. Cardinality((toShow \cup {work}) \ {s}) = Cardinality(toShow \cup {work}) - 1
        BY <2>3, FS_RemoveElement
      <4>4. Held' = Held
        BY <1>c, <2>3, <3>2, <4>3 DEF Held
      <4> QED BY <1>c, <4>2, <4>4
    <3> QED BY <2>1, <3>1, <3>2
  <2>6. Out' = Out + 1
    BY <1>c, <1>t, <2>4, <2>5 DEF Out, Held, AtOut, Posts
  <2> QED BY <1>d, <2>1, <2>6
<1>17. CASE DecodeNoData
  <2>1. /\ tpc = "decode" /\ tpc' = "out" /\ UNCHANGED <<syncQ, pushed, ypc, bits>>
        /\ \/ toShow' = toShow /\ out' = None
           \/ \E s \in toShow : toShow' = toShow \ {s} /\ out' = s
    BY <1>17 DEF DecodeNoData
  <2>2. CASE toShow' = toShow /\ out' = None
    BY <1>e, <1>u, <2>1, <2>2
  <2>3. ASSUME NEW s \in toShow, toShow' = toShow \ {s}, out' = s PROVE FramesCounted'
    <3>1. AtOut = 0 /\ AtOut' = 1
      BY <1>t, <2>1, <2>3 DEF AtOut, One
    <3>2. Held' = Held - 1
      BY <1>c, <2>3, FS_RemoveElement DEF Held
    <3>3. Posts' = Posts /\ One(Syncing)' = One(Syncing) /\ pushed' = pushed
      BY <2>1 DEF Posts, Syncing, One
    <3>4. Out' = Out
      BY <1>c, <1>t, <3>1, <3>2, <3>3 DEF Out, Held, AtOut, Posts
    <3> QED BY <1>e, <1>k, <2>1, <3>4
  <2> QED BY <2>1, <2>2, <2>3
<1>18. CASE DecodeMoreSurface
  BY <1>18, <1>e, <1>u DEF DecodeMoreSurface
<1>19. CASE DecodeError
  BY <1>19, <1>o DEF DecodeError, Fail
<1>20. CASE Output
  <2>1. /\ tpc = "out" /\ tpc' = "loop" /\ UNCHANGED <<toShow, pushed, ypc, bits>>
        /\ syncQ' = PostSync(out) /\ out # None
    BY <1>20 DEF Output, KeptInv
  <2>2. out \in SyncTasks /\ out \in Surfaces
    BY <2>1 DEF TypeInv, TypeOK, SyncTasks
  <2>3. Posts' = Posts + 1
    BY <1>o, <2>1, <2>2, Posted DEF One, Posts
  <2>4. AtOut = 1 /\ AtOut' = 0 /\ Held' = Held /\ One(Syncing)' = One(Syncing) /\ pushed' = pushed
    BY <2>1 DEF AtOut, One, Held, Syncing
  <2>5. Out' = Out
    BY <1>c, <1>t, <2>3, <2>4 DEF Out, Held, AtOut, Posts
  <2> QED BY <1>e, <1>k, <2>1, <2>5
<1>21. CASE NoOutput
  <2>1. /\ tpc = "out" /\ out = None /\ tpc' = "loop" /\ UNCHANGED <<toShow, pushed, ypc, bits>>
    BY <1>21 DEF NoOutput
  <2>2. Posts' = Posts
    <3>1. CASE bst = "null"
      <4>1. syncQ' = PostSync(NotifyEos)
        BY <1>21, <3>1 DEF NoOutput
      <4> QED BY <1>o, <1>t, <4>1, Posted DEF One, Posts
    <3>2. CASE bst # "null"
      BY <1>21, <3>2 DEF NoOutput, Posts
    <3> QED BY <3>1, <3>2
  <2>3. AtOut = 0 /\ AtOut' = 0 /\ Held' = Held /\ One(Syncing)' = One(Syncing) /\ pushed' = pushed
    BY <2>1 DEF AtOut, One, Held, Syncing
  <2>4. Out' = Out
    BY <2>2, <2>3 DEF Out, Held, AtOut, Posts
  <2> QED BY <1>e, <1>k, <2>1, <2>4
<1>22. CASE TakeNotifyEos
  <2>1. /\ syncQ # <<>> /\ syncQ' = Tail(syncQ) /\ Head(syncQ) \notin Surfaces
        /\ UNCHANGED <<toShow, pushed, ypc, bits, tpc, out>>
    BY <1>22, <1>t DEF TakeNotifyEos
  <2>2. Posts' = Posts
    BY <1>t, <2>1, SyncTaken DEF One, Posts
  <2>3. AtOut' = AtOut /\ Held' = Held /\ One(Syncing)' = One(Syncing) /\ pushed' = pushed
    BY <2>1 DEF AtOut, Held, Syncing, One
  <2>4. Out' = Out
    BY <2>2, <2>3 DEF Out, Held, AtOut, Posts
  <2> QED BY <1>e, <1>k, <2>1, <2>4
<1>23. CASE TakeSync
  <2>1. /\ syncQ # <<>> /\ syncQ' = Tail(syncQ) /\ Head(syncQ) # NotifyEos
        /\ UNCHANGED <<toShow, pushed, bits, tpc, out>> /\ ypc = "idle" /\ ypc' = "sync"
    BY <1>23 DEF TakeSync
  <2>2. Head(syncQ) \in Surfaces
    BY <2>1, SyncTaken DEF SyncTasks
  <2>3. Posts = Posts' + 1
    BY <1>t, <2>1, <2>2, SyncTaken DEF One, Posts
  <2>4. AtOut' = AtOut /\ Held' = Held /\ pushed' = pushed
    BY <2>1 DEF AtOut, One, Held
  <2>5. One(Syncing) = 0 /\ One(Syncing)' = 1
    BY <2>1 DEF One, Syncing
  <2>6. Out' = Out
    BY <1>c, <1>t, <2>3, <2>4, <2>5 DEF Out, Held, AtOut, Posts
  <2> QED BY <1>e, <1>k, <2>1, <2>6
<1>24. CASE SyncDone
  BY <1>24, <1>e, <1>u DEF SyncDone
<1>25. CASE SyncError
  BY <1>25, <1>o DEF SyncError, Fail
<1>26. CASE Push
  <2>1. /\ UNCHANGED <<toShow, syncQ, bits, tpc, out>> /\ ypc = "push" /\ ypc' = "erase"
        /\ pushed' = pushed + 1
    BY <1>26, <1>o DEF Push
  <2>2. AtOut' = AtOut /\ Held' = Held /\ Posts' = Posts
    BY <2>1 DEF AtOut, One, Held, Posts
  <2>3. One(Syncing) = 1 /\ One(Syncing)' = 0
    BY <2>1 DEF One, Syncing
  <2>4. Out' = Out
    BY <1>c, <1>t, <2>1, <2>2, <2>3 DEF Out, Held, AtOut, Posts
  <2> QED BY <1>e, <1>k, <2>1, <2>4
<1>27. CASE Erase
  BY <1>27, <1>e, <1>u DEF Erase, EndSync
<1>28. ASSUME NEW s \in Surfaces, Unlock(s) PROVE FramesCounted'
  BY <1>28, <1>e, <1>u DEF Unlock
<1>29. CASE Deactivate
  BY <1>29, <1>o DEF Deactivate, Change
<1>30. CASE Deactivated
  BY <1>30, <1>o DEF Deactivated, Change
<1>31. CASE StopTaskThread
  BY <1>31, <1>o DEF StopTaskThread, Change
<1>32. CASE JoinTaskThread
  BY <1>32, <1>o DEF JoinTaskThread, Change
<1>33. CASE StopSyncThread
  BY <1>33, <1>o DEF StopSyncThread, Change
<1>34. CASE JoinSyncThread
  BY <1>34, <1>o DEF JoinSyncThread, Change
<1>35. CASE FreeAll
  BY <1>35, <1>o DEF FreeAll, Change
<1>36. CASE UNCHANGED vars
  BY <1>36, <1>e, <1>u DEF vars
<1> QED
  BY <1>1, <1>2, <1>3, <1>4, <1>5, <1>6, <1>7, <1>8, <1>9, <1>10, <1>11, <1>12, <1>13,
     <1>14, <1>15, <1>16, <1>17, <1>18, <1>19, <1>20, <1>21, <1>22, <1>23, <1>24, <1>25,
     <1>26, <1>27, <1>28, <1>29, <1>30, <1>31, <1>32, <1>33, <1>34, <1>35, <1>36
  DEF Next, TaskStep, SyncStep, DisposeStep
-----------------------------------------------------------------------------
(* The invariant.                                                          *)

\* EOS comes out when every frame received is out.
LEMMA OutputStep ==
  ASSUME TypeInv, PhaseInv, Bounded, OrderInv, [Next]_vars
  PROVE  EosIsLast'
<1>t. /\ eosOut \in BOOLEAN /\ eosSent \in BOOLEAN /\ sent \in Nat /\ bits \in Nat
      /\ pushed \in Nat
  BY DataTypes DEF TypeInv, TypeOK
<1>i. EosKnown /\ DrainInv /\ (Undisturbed => FramesCounted /\ EosLast)
  BY DEF OrderInv
<1> DEFINE All == pushed = PerInput * sent
           AllOut == ~KeepsRefs /\ eosOut /\ failures = {} => All
<1>a. AllOut
  BY DEF OrderInv, EosIsLast
<1> SUFFICES AllOut'
  BY DEF EosIsLast
<1>u. ASSUME UNCHANGED <<eosOut, sent, pushed>>, failures \subseteq failures'
      PROVE  AllOut'
  BY <1>a, <1>u
<1> HIDE DEF All
<1> USE DEF stream, tasks, locals, input, decoder, syncs, downstream
<1>1. CASE Chain
  BY <1>1, <1>i, <1>t DEF Chain, EosKnown, AllOut
<1>2. CASE ChainTest
  BY <1>2, <1>u DEF ChainTest
<1>3. CASE ChainPost
  BY <1>3, <1>u DEF ChainPost
<1>4. CASE SendEos
  BY <1>4, <1>u DEF SendEos
<1>5. CASE TakeInput
  BY <1>5, <1>u DEF TakeInput
<1>6. CASE TakeEos
  BY <1>6, <1>u DEF TakeEos
<1>7. CASE InitDecoder
  BY <1>7, <1>u DEF InitDecoder
<1>8. CASE HeaderMissing
  BY <1>8, <1>u DEF HeaderMissing
<1>9. CASE Begin
  BY <1>9, <1>u DEF Begin
<1>10. CASE LoopTop
  BY <1>10, <1>u DEF LoopTop
<1>11. CASE LoopEnd
  BY <1>11, <1>u DEF LoopEnd, Leave
<1>12. CASE GetSurface
  BY <1>12, <1>u DEF GetSurface
<1>13. CASE NoPool
  BY <1>13, <1>u DEF NoPool, Fail
<1>14. CASE DecodeBusy
  BY <1>14, <1>u DEF DecodeBusy
<1>15. CASE BusyTest
  BY <1>15, <1>u DEF BusyTest
<1>16. CASE DecodeFrame
  BY <1>16, <1>u DEF DecodeFrame
<1>17. CASE DecodeNoData
  BY <1>17, <1>u DEF DecodeNoData
<1>18. CASE DecodeMoreSurface
  BY <1>18, <1>u DEF DecodeMoreSurface
<1>19. CASE DecodeError
  BY <1>19, <1>u DEF DecodeError, Fail
<1>20. CASE Output
  BY <1>20, <1>u DEF Output, Fail
<1>21. CASE NoOutput
  BY <1>21, <1>u DEF NoOutput
<1>22. CASE TakeNotifyEos
  <2>1. /\ UNCHANGED <<sent, pushed, failures>> /\ ypc = "idle"
        /\ syncQ # <<>> /\ Head(syncQ) = NotifyEos
        /\ eosOut' => eosOut \/ elem = "playing"
    BY <1>22 DEF TakeNotifyEos
  <2>2. CASE ~KeepsRefs /\ elem = "playing" /\ failures = {}
    <3>1. Undisturbed
      BY <2>2 DEF Undisturbed
    <3>2. 1 \in DOMAIN syncQ /\ syncQ[1] = NotifyEos /\ syncQ[1] \notin Surfaces
      BY <2>1, SyncTypes, Taken DEF Surfaces, NotifyEos
    <3>3. Len(syncQ) = 1 /\ Drained
      BY <1>i, <3>1, <3>2 DEF EosLast
    <3>4. Num(syncQ, Len(syncQ), Surfaces) = 0 /\ Num(taskQ, Len(taskQ), Inputs) = 0
      <4>1. \A i \in 1 .. 1 : syncQ[i] \notin Surfaces
        BY <3>2
      <4>2. Len(taskQ) = 0
        BY <3>3, EmptySeq DEF Drained
      <4> QED BY <3>3, <4>1, <4>2, NumZero, NumType
    <3>5. /\ Len(input_queue_) = 0 /\ One(spc \in Pending) = 0 /\ One(Syncing) = 0
          /\ One(tpc = "out" /\ out # None) = 0
      BY <1>i, <2>1, <3>3, EmptySeq DEF Drained, One, Syncing, EosKnown
    <3>6. Cardinality(toShow) = 0 /\ bits = 0
      BY <3>3, FS_EmptySet DEF Drained
    <3>7. Out = pushed
      BY <1>t, <3>4, <3>5, <3>6 DEF Out
    <3>8. Queued = 0
      BY <3>4, <3>5 DEF Queued
    <3>9. Given = sent
      BY <1>t, <3>8 DEF Given
    <3>10. PerInput * sent = bits + Out
      BY <1>i, <3>1, <3>9 DEF FramesCounted
    <3>11. All
      BY <1>t, <3>6, <3>7, <3>10 DEF All
    <3> QED BY <2>1, <3>11 DEF All
  <2>3. CASE ~(~KeepsRefs /\ elem = "playing" /\ failures = {})
    <3>1. All' <=> All
      BY <2>1 DEF All
    <3> QED BY <1>a, <2>1, <2>3, <3>1
  <2> QED BY <2>2, <2>3
<1>23. CASE TakeSync
  BY <1>23, <1>u DEF TakeSync
<1>24. CASE SyncDone
  BY <1>24, <1>u DEF SyncDone
<1>25. CASE SyncError
  BY <1>25, <1>u DEF SyncError, EndSync
<1>26. CASE Push
  <2>1. /\ UNCHANGED eosOut /\ ypc = "push"
        /\ failures' = {} => elem = "playing" /\ failures = {}
    BY <1>26 DEF Push
  <2> QED BY <1>i, <2>1 DEF Undisturbed, EosLast
<1>27. CASE Erase
  BY <1>27, <1>u DEF Erase, EndSync
<1>28. ASSUME NEW s \in Surfaces, Unlock(s) PROVE AllOut'
  BY <1>28, <1>u DEF Unlock
<1>29. CASE Deactivate
  BY <1>29, <1>u DEF Deactivate, Change
<1>30. CASE Deactivated
  BY <1>30, <1>u DEF Deactivated, Change
<1>31. CASE StopTaskThread
  BY <1>31, <1>u DEF StopTaskThread, Change
<1>32. CASE JoinTaskThread
  BY <1>32, <1>u DEF JoinTaskThread, Change
<1>33. CASE StopSyncThread
  BY <1>33, <1>u DEF StopSyncThread, Change
<1>34. CASE JoinSyncThread
  BY <1>34, <1>u DEF JoinSyncThread, Change
<1>35. CASE FreeAll
  BY <1>35, <1>u DEF FreeAll, Change
<1>36. CASE UNCHANGED vars
  BY <1>36, <1>u DEF vars
<1> QED
  BY <1>1, <1>2, <1>3, <1>4, <1>5, <1>6, <1>7, <1>8, <1>9, <1>10, <1>11, <1>12, <1>13,
     <1>14, <1>15, <1>16, <1>17, <1>18, <1>19, <1>20, <1>21, <1>22, <1>23, <1>24, <1>25,
     <1>26, <1>27, <1>28, <1>29, <1>30, <1>31, <1>32, <1>33, <1>34, <1>35, <1>36
  DEF Next, TaskStep, SyncStep, DisposeStep

\* The invariant holds after the CAPS event.
LEMMA InitInv == Init => IInv
<1> SUFFICES ASSUME Init PROVE IInv
  OBVIOUS
<1>1. TypeInv
  BY InitType
<1>2. /\ elem = "playing" /\ syncQ = <<>> /\ taskQ = <<>> /\ pushed = 0 /\ toShow = {}
      /\ input_queue_ = <<>> /\ Len(<<>>) = 0 /\ DOMAIN <<>> = {} /\ bits = 0 /\ sent = 0
  BY EmptySeq DEF Init
<1>3. PhaseInv
  BY DEF Init, PhaseInv, Pending
<1>4. Num(<<>>, 0, Surfaces) = 0 /\ Num(<<>>, 0, Inputs) = 0
  BY NumType
<1>5. Counted
  BY <1>2, <1>4 DEF Init, Counted, One
<1>6. KeptInv /\ LockedInv
  BY DEF Init, KeptInv, LockedInv, Working
<1>7. EosKnown /\ DrainInv /\ EosLast /\ EosIsLast
  BY <1>2 DEF Init, EosKnown, DrainInv, EosLast, DrainsToEos, Pending, Calling, Working, EosIsLast
<1>8. Given = 0
  <2>1. Queued = 0
    BY <1>2, <1>4 DEF Init, Queued, Pending, One
  <2> QED BY <1>2, <2>1 DEF Given
<1>9. PerInput * 0 = 0
  BY PoolAssumption
<1>10. Bounded
  <2>1. PerInput * Given = 0
    BY <1>8, <1>9
  <2> QED BY <1>2, <1>8, <2>1 DEF Bounded
<1>11. FramesCounted
  <2>1. Cardinality(toShow) = 0
    BY <1>2, FS_EmptySet
  <2>2. Out = 0
    BY <1>2, <1>4, <2>1 DEF Init, Out, Syncing, One
  <2> QED BY <1>2, <1>8, <1>9, <2>2 DEF FramesCounted
<1> QED
  BY <1>1, <1>3, <1>5, <1>6, <1>7, <1>10, <1>11 DEF IInv, OrderInv

\* Every step keeps the invariant.
LEMMA InvStep == IInv /\ [Next]_vars => IInv'
<1> SUFFICES ASSUME IInv, [Next]_vars PROVE IInv'
  OBVIOUS
<1>1. TypeInv'
  BY TypeStep DEF IInv
<1>2. Bounded' /\ PhaseInv' /\ Counted' /\ KeptInv' /\ LockedInv'
  BY <1>1, BoundedStep, PhaseStep, CountedStep, KeptStep, LockedStep DEF IInv, TypeInv
<1>3. EosKnown' /\ DrainInv'
  BY EosKnownStep, DrainStep DEF IInv, OrderInv
<1>4. ASSUME Undisturbed' PROVE FramesCounted' /\ EosLast'
  <2>1. Undisturbed
    BY <1>4, StillUndisturbed DEF IInv
  <2>2. FramesCounted /\ EosLast /\ EosKnown /\ DrainInv
    BY <2>1 DEF IInv, OrderInv
  <2> QED BY <1>1, <1>4, <2>1, <2>2, FramesCountedStep, EosLastStep DEF IInv
<1>5. EosIsLast'
  BY OutputStep DEF IInv
<1> QED BY <1>1, <1>2, <1>3, <1>4, <1>5 DEF IInv, OrderInv

\* The counter in the words of the specification.
LEMMA InvConsistent == IInv => Consistent
<1> SUFFICES ASSUME IInv PROVE Consistent
  OBVIOUS
<1>1. TypeInv /\ TypeOK /\ Counted
  BY DEF IInv, TypeInv
<1>2. InFlight = Num(syncQ, Len(syncQ), Surfaces) + One(ypc # "idle")
  <2>1. \A t \in SyncTasks : t # NotifyEos <=> t \in Surfaces
    BY DEF SyncTasks, Surfaces, NotifyEos
  <2>2. {i \in DOMAIN syncQ : syncQ[i] # NotifyEos} = {i \in 1 .. Len(syncQ) : syncQ[i] \in Surfaces}
    BY <1>1, <2>1, SyncTypes
  <2>3. (IF ypc = "idle" THEN 0 ELSE 1) = One(ypc # "idle")
    BY DEF One
  <2> QED BY <2>2, <2>3 DEF InFlight, Num
<1> QED BY <1>1, <1>2 DEF Counted, Consistent

(***************************************************************************)
(* The types; syncop_tasks_num_ counts the operations in flight while the  *)
(* sync thread accepts them, so the task thread never waits on             *)
(* cv_dev_busy_ for operations that are done.                              *)
(***************************************************************************)
THEOREM ConsistentCorrect == Spec => []Consistent
  BY InitInv, InvStep, InvConsistent, PTL DEF Spec

(***************************************************************************)
(* Until Dispose() frees the decoder, what it has yet to show is in        *)
(* locked_frames_, so the task thread finds every surface it is shown, and *)
(* while it keeps no references no surface it locks is free in the pool.   *)
(***************************************************************************)
THEOREM LockedIsKeptCorrect == Spec => []LockedIsKept
<1>1. IInv => LockedIsKept
  BY InvLockedIsKept DEF IInv
<1> QED BY <1>1, InitInv, InvStep, PTL DEF Spec

(***************************************************************************)
(* When EOS is out and nothing failed every frame received was decoded,    *)
(* shown and pushed before it, if the decoder keeps no references.         *)
(***************************************************************************)
THEOREM EosIsLastCorrect == Spec => []EosIsLast
<1>1. IInv => EosIsLast
  BY DEF IInv, OrderInv
<1> QED BY <1>1, InitInv, InvStep, PTL DEF Spec
=============================================================================
