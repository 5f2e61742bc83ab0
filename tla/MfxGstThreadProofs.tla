------------------------- MODULE MfxGstThreadProofs -------------------------
(***************************************************************************)
(* Proofs about mfxGstThread, for every number of tasks, of starts and of  *)
(* waiting threads.                                                        *)
(***************************************************************************)
EXTENDS MfxGstThread, SequenceTheorems, TLAPS

(***************************************************************************)
(* The types, and what they need: stop() joins only an existing thread.    *)
(***************************************************************************)
JoinsThread == cpc \in {"join", "joining"} => thread_ # NULL

BaseInv == TypeOK /\ JoinsThread

(***************************************************************************)
(* The FIFO invariant.  thread_mutex_ keeps all but one worker out of the  *)
(* loop, even when start() is called twice; the tasks executed, the one    *)
(* running and the queued ones are consecutive.                            *)
(***************************************************************************)
LoopMutex == \A v, w \in Workers : pc[v] \in InLoop /\ pc[w] \in InLoop => v = w

Taken == Len(executed) + One(Running)

Consecutive ==
  /\ \A i \in DOMAIN executed : executed[i] = i
  /\ \A w \in Workers : pc[w] = "run" => task[w] = Len(executed) + 1
  /\ \A i \in DOMAIN tasks_ : tasks_[i] = Taken + i
  /\ ~stop_thread_ => accepted = Taken + Len(tasks_)

\* Before the first stop() of a started object, stop() finds nothing to drop.
BeforeStop ==
  ~stop_thread_ => /\ cpc \in {"idle", "clear"}
                   /\ cpc = "clear" => thread_ = NULL
                   /\ thread_ = NULL => tasks_ = <<>>

FifoInv == BaseInv /\ LoopMutex /\ BeforeStop /\ Consecutive

(***************************************************************************)
(* The accounting invariant, when start() is called only on an object that *)
(* is not started: the only worker alive is thread_, so the second         *)
(* critical section of stop() runs with no worker left.                    *)
(***************************************************************************)
OneWorker == \A w \in Workers : pc[w] \in Alive => w = thread_

StopPhase ==
  /\ cpc = "clear" => thread_ = NULL
  /\ thread_ # NULL => pc[thread_] # "none"

WorkerInv == BaseInv /\ OneWorker /\ StopPhase

StopInv == FifoInv /\ WorkerInv /\ Accounting

-----------------------------------------------------------------------------
\* g_cond_signal changes at most threads blocked at "from", and moves them to "to".
LEMMA SignalMoves ==
  ASSUME NEW X, NEW Y, NEW f \in [X -> Y], NEW from, NEW to \in Y,
         NEW g \in Signal(f, from, to)
  PROVE  /\ g \in [X -> Y]
         /\ \A x \in X : g[x] = f[x] \/ (f[x] = from /\ g[x] = to)
  BY DEF Signal

\* Every action keeps the type invariant.
LEMMA BaseStep == BaseInv /\ [Next]_vars => BaseInv'
<1> SUFFICES ASSUME BaseInv, [Next]_vars PROVE BaseInv'
  OBVIOUS
<1> USE DEF BaseInv, TypeOK, JoinsThread, queueVars, history, Goto, At, NoTask, NULL
<1>p1. ASSUME NEW w \in Workers, NEW p \in WorkerPC
       PROVE  [pc EXCEPT ![w] = p] \in [Workers -> WorkerPC]
  BY DEF BaseInv, TypeOK
<1>p2. \A g \in Signal(pc, "wait", "pop") : g \in [Workers -> WorkerPC]
  <2>1. "pop" \in WorkerPC
    BY DEF WorkerPC, Alive, InLoop
  <2>2. QED
    BY <2>1, SignalMoves
<1>p3. \A g \in Signal(upc, "blocked", "awake") : g \in [Waiters -> WaiterPC]
  <2>1. "awake" \in WaiterPC
    BY DEF WaiterPC
  <2>2. QED
    BY <2>1, SignalMoves
<1>c. /\ "spawned" \in WorkerPC /\ "failed" \in WorkerPC /\ "exited" \in WorkerPC
      /\ "lock" \in WorkerPC /\ InLoop \subseteq WorkerPC
  BY DEF WorkerPC, Alive
<1>1. ASSUME NEW w \in Workers, Start(w) PROVE BaseInv'
  <2>1. w # 0
    BY DEF Workers
  <2>2. QED
    BY <1>1, <1>p1, <1>c, <2>1 DEF Start
<1>2. CASE StopSignal
  BY <1>2, <1>p2 DEF StopSignal
<1>3. CASE JoinStop
  BY <1>3 DEF JoinStop
<1>4. CASE Joined
  BY <1>4 DEF Joined
<1>5. CASE StopNoThread
  BY <1>5 DEF StopNoThread
<1>6. CASE Clear
  BY <1>6, <1>p3 DEF Clear
<1>7. CASE Post
  <2>1. accepted + 1 \in 1 .. MaxPosts
    BY <1>7, BoundsAssumption DEF Post
  <2>2. Append(tasks_, accepted + 1) \in Seq(1 .. MaxPosts)
    BY <2>1
  <2>3. QED
    BY <1>7, <1>p2, <2>1, <2>2 DEF Post
<1>8. ASSUME NEW u \in Waiters, WaitTest(u) \/ WaitSpurious(u) PROVE BaseInv'
  BY <1>8 DEF WaitTest, WaitSpurious, WaiterPC
<1>9. ASSUME NEW w \in Workers, Enter(w) \/ Lock(w) \/ Check(w) PROVE BaseInv'
  BY <1>9, <1>p1, <1>c DEF Enter, Lock, Check, InLoop
<1>10. ASSUME NEW w \in Workers, PopEmpty(w) \/ PopSpurious(w) PROVE BaseInv'
  BY <1>10, <1>p1, <1>c DEF PopEmpty, PopSpurious, InLoop
<1>11. ASSUME NEW w \in Workers, PopTask(w) PROVE BaseInv'
  <2>1. tasks_ # <<>>
    BY <1>11 DEF PopTask
  <2>2. Head(tasks_) \in 1 .. MaxPosts /\ Tail(tasks_) \in Seq(1 .. MaxPosts)
    BY <2>1, HeadTailProperties
  <2>3. QED
    BY <1>11, <1>p1, <1>c, <2>2 DEF PopTask, InLoop
<1>12. ASSUME NEW w \in Workers, Run(w) PROVE BaseInv'
  <2>1. Append(executed, task[w]) \in Seq(0 .. MaxPosts)
    OBVIOUS
  <2>2. QED
    BY <1>12, <1>p1, <1>c, <2>1 DEF Run, InLoop
<1>13. ASSUME NEW w \in Workers, Finish(w) PROVE BaseInv'
  BY <1>13, <1>p1, <1>p3, <1>c, BoundsAssumption DEF Finish, InLoop
<1>14. CASE UNCHANGED vars
  BY <1>14 DEF vars
<1>. QED
  BY <1>1, <1>2, <1>3, <1>4, <1>5, <1>6, <1>7, <1>8, <1>9, <1>10, <1>11, <1>12,
     <1>13, <1>14
  DEF Next, StopStep, WorkerStep

\* The initial state has the types.
LEMMA InitBase == Init => BaseInv
<1>1. 0 \in 0 .. MaxPosts
  BY BoundsAssumption
<1>2. <<>> \in Seq(1 .. MaxPosts) /\ <<>> \in Seq(0 .. MaxPosts)
  BY EmptySeq
<1>3. "none" \in WorkerPC /\ "out" \in WaiterPC
  BY DEF WorkerPC, WaiterPC
<1>4. ASSUME Init PROVE TypeOK
  <2>1. /\ tasks_ \in Seq(1 .. MaxPosts) /\ executed \in Seq(0 .. MaxPosts)
        /\ pc \in [Workers -> WorkerPC] /\ upc \in [Waiters -> WaiterPC]
        /\ task \in [Workers -> 0 .. MaxPosts]
    BY <1>1, <1>2, <1>3, <1>4 DEF Init, NoTask
  <2>2. thread_ \in Workers \cup {NULL} /\ tasks_num_ \in Int /\ accepted \in 0 .. MaxPosts
    BY <1>1, <1>4 DEF Init, NULL
  <2>3. stop_thread_ \in BOOLEAN /\ stopped \in SUBSET Workers
    BY <1>4 DEF Init
  <2>4. cpc \in {"idle", "join", "joining", "clear"}
    BY <1>4 DEF Init
  <2>5. QED
    BY <2>1, <2>2, <2>3, <2>4 DEF TypeOK
<1>5. QED
  BY <1>4 DEF Init, BaseInv, JoinsThread

(***************************************************************************)
(* The variables of the object have their types in every state, however    *)
(* often it is started and stopped.                                        *)
(***************************************************************************)
THEOREM TypeCorrect == Spec => []TypeOK
<1>1. BaseInv => TypeOK
  BY DEF BaseInv
<1>. QED
  BY <1>1, InitBase, BaseStep, PTL DEF Spec

-----------------------------------------------------------------------------
\* Whether a task runs depends on the program counters alone.
LEMMA OneType == \A b \in BOOLEAN : One(b) \in Nat
  BY DEF One

\* g_cond_signal neither starts nor ends a task, and keeps the loop's occupants.
LEMMA SignalKeeps ==
  ASSUME TypeOK, NEW g \in Signal(pc, "wait", "pop")
  PROVE  \A w \in Workers : /\ g[w] \in InLoop <=> pc[w] \in InLoop
                            /\ g[w] = "run" <=> pc[w] = "run"
                            /\ g[w] = "finish" <=> pc[w] = "finish"
                            /\ g[w] \in Alive <=> pc[w] \in Alive
                            /\ g[w] = "none" <=> pc[w] = "none"
<1>1. "pop" \in WorkerPC
  BY DEF WorkerPC, Alive, InLoop
<1>2. pc \in [Workers -> WorkerPC]
  BY DEF TypeOK
<1>3. \A w \in Workers : g[w] = pc[w] \/ (pc[w] = "wait" /\ g[w] = "pop")
  BY <1>2 DEF Signal
<1>. QED
  BY <1>3 DEF InLoop, Alive

\* At most one worker is in the loop after every step: Lock waits for the others.
LEMMA LoopMutexStep == BaseInv /\ LoopMutex /\ [Next]_vars => LoopMutex'
<1> SUFFICES ASSUME BaseInv, LoopMutex, [Next]_vars PROVE LoopMutex'
  OBVIOUS
<1>0. TypeOK
  BY DEF BaseInv
<1>1. ASSUME \A w \in Workers : pc'[w] \in InLoop => pc[w] \in InLoop
      PROVE  LoopMutex'
  BY <1>1 DEF LoopMutex, Workers
<1>2. ASSUME NEW w \in Workers, Lock(w) PROVE LoopMutex'
  BY <1>0, <1>2 DEF Lock, LoopMutex, Goto, TypeOK, Workers
<1>3. ASSUME NEW w \in Workers, Start(w) \/ Enter(w) PROVE LoopMutex'
  BY <1>0, <1>1, <1>3 DEF Start, Enter, Goto, TypeOK, InLoop
<1>4. ASSUME NEW w \in Workers,
             Check(w) \/ PopEmpty(w) \/ PopSpurious(w) \/ PopTask(w) \/ Run(w) \/ Finish(w)
      PROVE  LoopMutex'
  <2>1. pc[w] \in InLoop
    BY <1>4 DEF Check, PopEmpty, PopSpurious, PopTask, Run, Finish, At, InLoop
  <2>2. \A v \in Workers : v # w => pc'[v] = pc[v]
    BY <1>0, <1>4
    DEF Check, PopEmpty, PopSpurious, PopTask, Run, Finish, Goto, TypeOK
  <2>3. QED
    BY <1>1, <2>1, <2>2
<1>5. CASE StopSignal \/ Post
  BY <1>0, <1>1, <1>5, SignalKeeps DEF StopSignal, Post
<1>6. CASE pc' = pc
  BY <1>1, <1>6
<1>. QED
  BY <1>2, <1>3, <1>4, <1>5, <1>6
  DEF Next, WorkerStep, StopStep, JoinStop, Joined, Clear, StopNoThread, WaitTest,
      WaitSpurious, vars
\* The FIFO invariant survives every step that leaves queue and history alone.
LEMMA ConsecutiveKept ==
  ASSUME BaseInv, Consecutive,
         UNCHANGED <<executed, tasks_, task>>,
         \A w \in Workers : pc'[w] = "run" <=> pc[w] = "run",
         accepted' = accepted, stop_thread_ => stop_thread_'
  PROVE  Consecutive'
<1>1. Running' = Running
  BY DEF Running
<1>2. Taken' = Taken
  BY <1>1 DEF Taken, One
<1>. QED
  BY <1>2 DEF Consecutive, BaseInv, TypeOK

\* Only stop() of a started object clears thread_, after raising stop_thread_.
LEMMA BeforeStopStep == BaseInv /\ BeforeStop /\ [Next]_vars => BeforeStop'
<1> SUFFICES ASSUME BaseInv, BeforeStop, [Next]_vars PROVE BeforeStop'
  OBVIOUS
<1> USE DEF BeforeStop, queueVars, history
<1>1. ASSUME NEW w \in Workers, Start(w) PROVE BeforeStop'
  <2>1. w # NULL
    BY DEF Workers, NULL
  <2>2. QED
    BY <1>1, <2>1 DEF Start
<1>2. CASE StopSignal \/ JoinStop \/ Joined \/ StopNoThread \/ Clear \/ Post
  BY <1>2 DEF StopSignal, JoinStop, Joined, StopNoThread, Clear, Post
<1>3. ASSUME NEW w \in Workers, WorkerStep(w) \/ PopSpurious(w) PROVE BeforeStop'
  BY <1>3
  DEF WorkerStep, PopSpurious, Enter, Lock, Check, PopEmpty, PopTask, Run, Finish
<1>4. CASE UNCHANGED vars \/ \E u \in Waiters : WaitTest(u) \/ WaitSpurious(u)
  BY <1>4 DEF vars, WaitTest, WaitSpurious
<1>. QED
  BY <1>1, <1>2, <1>3, <1>4 DEF Next, StopStep

\* Post appends the next number, PopTask moves the head, Run retires it.
LEMMA FifoStep == FifoInv /\ [Next]_vars => FifoInv'
<1> SUFFICES ASSUME FifoInv, [Next]_vars PROVE Consecutive'
  BY BaseStep, LoopMutexStep, BeforeStopStep DEF FifoInv
<1>0. BaseInv /\ TypeOK /\ LoopMutex /\ BeforeStop /\ Consecutive
  BY DEF FifoInv, BaseInv
<1>l. /\ Len(executed) \in Nat /\ DOMAIN executed = 1 .. Len(executed)
      /\ Len(tasks_) \in Nat /\ DOMAIN tasks_ = 1 .. Len(tasks_)
      /\ accepted \in Nat /\ One(Running) \in Nat
  BY <1>0, LenProperties, BoundsAssumption DEF TypeOK, One
<1>t. Taken \in Nat /\ \A i \in 1 .. Len(tasks_) : tasks_[i] = Taken + i
  BY <1>0, <1>l DEF Consecutive, Taken
<1>1. ASSUME NEW w \in Workers, Start(w) \/ Enter(w) \/ Lock(w) \/ Check(w)
             \/ PopEmpty(w) \/ PopSpurious(w)
      PROVE  Consecutive'
  <2>1. \A v \in Workers : pc'[v] = "run" <=> pc[v] = "run"
    BY <1>0, <1>1
    DEF Start, Enter, Lock, Check, PopEmpty, PopSpurious, At, Goto, TypeOK
  <2>2. UNCHANGED <<executed, tasks_, task, accepted, stop_thread_>>
    BY <1>1
    DEF Start, Enter, Lock, Check, PopEmpty, PopSpurious, queueVars, history
  <2>3. QED
    BY <1>0, <2>1, <2>2, ConsecutiveKept
<1>2. CASE StopSignal
  <2>1. \A v \in Workers : pc'[v] = "run" <=> pc[v] = "run"
    BY <1>0, <1>2, SignalKeeps DEF StopSignal
  <2>2. QED
    BY <1>0, <1>2, <2>1, ConsecutiveKept DEF StopSignal, queueVars, history
<1>3. CASE \/ JoinStop \/ Joined \/ StopNoThread \/ UNCHANGED vars
           \/ \E u \in Waiters : WaitTest(u) \/ WaitSpurious(u)
  <2>1. UNCHANGED <<executed, tasks_, task, accepted, stop_thread_, pc>>
    BY <1>3
    DEF JoinStop, Joined, StopNoThread, WaitTest, WaitSpurious, vars, queueVars, history
  <2>2. QED
    BY <1>0, <2>1, ConsecutiveKept
<1>4. CASE Clear
  <2>1. Running' = Running
    BY <1>4 DEF Clear, Running
  <2>2. Taken' = Taken
    BY <1>4, <2>1 DEF Taken, One, Clear, history
  <2>3. QED
    BY <1>0, <1>4, <2>2 DEF Consecutive, BeforeStop, Clear, history
<1>5. CASE Post
  <2>1. \A v \in Workers : pc'[v] = "run" <=> pc[v] = "run"
    BY <1>0, <1>5, SignalKeeps DEF Post
  <2>2. Running' = Running
    BY <2>1 DEF Running
  <2>3. Taken' = Taken
    BY <1>5, <2>2 DEF Taken, One, Post
  <2>4. accepted + 1 = Taken + Len(tasks_) + 1
    BY <1>0, <1>5 DEF Consecutive, Post
  <2>5. /\ Len(tasks_') = Len(tasks_) + 1
        /\ \A i \in 1 .. Len(tasks_) : tasks_'[i] = tasks_[i]
        /\ tasks_'[Len(tasks_) + 1] = accepted + 1
        /\ DOMAIN tasks_' = 1 .. Len(tasks_')
    BY <1>5, <1>0, AppendProperties, LenProperties, BaseStep
    DEF Post, TypeOK
  <2>6. \A i \in DOMAIN tasks_' : tasks_'[i] = Taken' + i
    <3>1. ASSUME NEW i \in 1 .. Len(tasks_) + 1 PROVE tasks_'[i] = Taken + i
      <4>1. CASE i = Len(tasks_) + 1
        BY <1>l, <1>t, <2>4, <2>5, <4>1
      <4>2. CASE i \in 1 .. Len(tasks_)
        BY <1>t, <2>5, <4>2
      <4>3. QED
        BY <1>l, <4>1, <4>2
    <3>2. QED
      BY <2>3, <2>5, <3>1
  <2>7. QED
    BY <1>0, <1>5, <1>l, <2>1, <2>3, <2>4, <2>5, <2>6 DEF Consecutive, Post, Taken
<1>6. ASSUME NEW w \in Workers, PopTask(w) PROVE Consecutive'
  <2>1. ~Running /\ Running'
    BY <1>0, <1>6 DEF Running, LoopMutex, InLoop, PopTask, At, Goto, TypeOK
  <2>2. Taken = Len(executed) /\ Taken' = Len(executed) + 1
    BY <1>6, <1>l, <2>1 DEF Taken, One, PopTask, history
  <2>3. /\ tasks_ # <<>>
        /\ tasks_' = Tail(tasks_)
        /\ task' = [task EXCEPT ![w] = Head(tasks_)]
    BY <1>6 DEF PopTask
  <2>4. /\ Len(tasks_') = Len(tasks_) - 1
        /\ \A i \in 1 .. Len(tasks_') : tasks_'[i] = tasks_[i + 1]
        /\ tasks_' \in Seq(1 .. MaxPosts)
    BY <1>0, <2>3, HeadTailProperties DEF TypeOK
  <2>5. DOMAIN tasks_' = 1 .. Len(tasks_') /\ Len(tasks_') \in Nat
    BY <2>4, LenProperties
  <2>6. Head(tasks_) = tasks_[1] /\ 1 \in DOMAIN tasks_
    BY <1>l, <2>3, <2>4, <2>5
  <2>7. \A i \in DOMAIN tasks_' : tasks_'[i] = Taken' + i
    <3>1. ASSUME NEW i \in 1 .. Len(tasks_') PROVE tasks_'[i] = Taken + 1 + i
      <4>1. i + 1 \in 1 .. Len(tasks_)
        BY <1>l, <2>4
      <4>2. tasks_[i + 1] = Taken + (i + 1)
        BY <1>t, <4>1
      <4>3. QED
        BY <1>t, <2>4, <4>2
    <3>2. QED
      BY <1>l, <2>2, <2>5, <3>1
  <2>8. \A v \in Workers : pc'[v] = "run" => v = w
    BY <1>0, <1>6 DEF LoopMutex, InLoop, PopTask, At, Goto, TypeOK
  <2>9. task'[w] = Len(executed) + 1
    BY <1>0, <1>l, <2>2, <2>3, <2>6 DEF Consecutive, TypeOK
  <2>10. QED
    BY <1>0, <1>6, <1>l, <2>2, <2>4, <2>7, <2>8, <2>9 DEF Consecutive, PopTask, history
<1>7. ASSUME NEW w \in Workers, Run(w) PROVE Consecutive'
  <2>1. Running /\ ~Running'
    BY <1>0, <1>7 DEF Running, LoopMutex, InLoop, Run, At, Goto, TypeOK
  <2>2. task[w] = Len(executed) + 1
    BY <1>0, <1>7 DEF Consecutive, Run, At
  <2>3. /\ Len(executed') = Len(executed) + 1
        /\ \A i \in 1 .. Len(executed) : executed'[i] = executed[i]
        /\ executed'[Len(executed) + 1] = task[w]
        /\ executed' \in Seq(0 .. MaxPosts)
    BY <1>0, <1>7, AppendProperties DEF Run, TypeOK
  <2>4. DOMAIN executed' = 1 .. Len(executed')
    BY <2>3, LenProperties
  <2>5. Taken' = Taken
    BY <1>l, <2>1, <2>3 DEF Taken, One
  <2>6. \A v \in Workers : pc'[v] # "run"
    BY <2>1 DEF Running
  <2>7. \A i \in DOMAIN executed' : executed'[i] = i
    BY <1>0, <1>l, <2>2, <2>3, <2>4 DEF Consecutive
  <2>8. QED
    BY <1>0, <1>7, <2>5, <2>6, <2>7 DEF Consecutive, Run, queueVars
<1>8. ASSUME NEW w \in Workers, Finish(w) PROVE Consecutive'
  <2>1. \A v \in Workers : pc'[v] = "run" <=> pc[v] = "run"
    BY <1>0, <1>8 DEF Finish, At, Goto, TypeOK
  <2>2. Running' = Running
    BY <2>1 DEF Running
  <2>3. Taken' = Taken
    BY <1>8, <2>2 DEF Taken, One, Finish, history
  <2>4. \A v \in Workers : v # w => task'[v] = task[v]
    BY <1>0, <1>8 DEF Finish, TypeOK
  <2>5. pc'[w] # "run"
    BY <1>0, <1>8 DEF Finish, Goto, TypeOK
  <2>6. QED
    BY <1>0, <1>8, <2>1, <2>3, <2>4, <2>5 DEF Consecutive, Finish, history
<1>. QED
  BY <1>1, <1>2, <1>3, <1>4, <1>5, <1>6, <1>7, <1>8 DEF Next, WorkerStep, StopStep
\* Nothing is queued or taken initially.
LEMMA InitFifo == Init => FifoInv
<1>1. Init => LoopMutex /\ BeforeStop
  BY DEF Init, LoopMutex, BeforeStop, InLoop
<1>2. ASSUME Init PROVE ~Running /\ Len(executed) = 0 /\ Len(tasks_) = 0
  BY <1>2 DEF Init, Running
<1>3. ASSUME Init PROVE Consecutive
  <2>1. Taken = 0
    BY <1>2, <1>3 DEF Taken, One
  <2>2. DOMAIN executed = {} /\ DOMAIN tasks_ = {}
    BY <1>3 DEF Init
  <2>3. \A w \in Workers : pc[w] # "run"
    BY <1>2, <1>3 DEF Running
  <2>4. QED
    BY <1>2, <1>3, <2>1, <2>2, <2>3 DEF Init, Consecutive
<1>4. QED
  BY <1>1, <1>3, InitBase DEF FifoInv

(***************************************************************************)
(* Tasks run one at a time, in the order posted, none lost before a stop,  *)
(* whether or not start() is called on a started object: thread_mutex_ is  *)
(* what keeps a second worker out.                                         *)
(***************************************************************************)
THEOREM FifoCorrect == Spec => []FifoNoLoss
<1>1. FifoInv => FifoNoLoss
  BY DEF FifoInv, Consecutive, Taken, FifoNoLoss
<1>. QED
  BY <1>1, InitFifo, FifoStep, PTL DEF Spec
-----------------------------------------------------------------------------
(***************************************************************************)
(* From here on start() is called only on an object that is not started.   *)
(***************************************************************************)

\* With thread_ NULL no worker is alive.
LEMMA NoThreadNoWorker ==
  ASSUME OneWorker, thread_ = NULL
  PROVE  \A w \in Workers : pc[w] \notin Alive
  BY DEF OneWorker, Workers, NULL

\* Only the current GstTask has a worker: join outlives it, start finds none.
LEMMA WorkerStepInv ==
  ASSUME RestartWhileRunning = FALSE
  PROVE  WorkerInv /\ [Next]_vars => WorkerInv'
<1> SUFFICES ASSUME WorkerInv, [Next]_vars PROVE OneWorker' /\ StopPhase'
  BY BaseStep DEF WorkerInv
<1>0. TypeOK /\ OneWorker /\ StopPhase /\ BaseInv
  BY DEF WorkerInv, BaseInv
<1>1. ASSUME NEW w \in Workers, Start(w) PROVE OneWorker' /\ StopPhase'
  <2>1. thread_ = NULL /\ thread_' = w /\ cpc' = cpc /\ cpc = "idle"
    BY <1>1 DEF Start
  <2>2. \A v \in Workers : pc[v] \notin Alive
    BY <1>0, <2>1, NoThreadNoWorker
  <2>3. \A v \in Workers : v # w => pc'[v] = pc[v]
    BY <1>0, <1>1 DEF Start, TypeOK
  <2>4. pc'[w] # "none"
    BY <1>0, <1>1 DEF Start, TypeOK
  <2>5. QED
    BY <2>1, <2>2, <2>3, <2>4 DEF OneWorker, StopPhase
<1>2. CASE StopSignal \/ Post
  <2>1. \A v \in Workers : /\ pc'[v] \in Alive <=> pc[v] \in Alive
                           /\ pc'[v] = "none" <=> pc[v] = "none"
    BY <1>0, <1>2, SignalKeeps DEF StopSignal, Post
  <2>2. thread_' = thread_ /\ (cpc' = cpc \/ (cpc' = "join" /\ thread_ # NULL))
    BY <1>2 DEF StopSignal, Post
  <2>3. QED
    BY <1>0, <2>1, <2>2 DEF OneWorker, StopPhase, TypeOK
<1>3. CASE Joined
  <2>1. thread_ # NULL /\ thread_ \in Workers
    BY <1>0, <1>3 DEF Joined, BaseInv, JoinsThread, TypeOK
  <2>2. \A v \in Workers : pc[v] \notin Alive
    BY <1>0, <1>3, <2>1 DEF Joined, OneWorker
  <2>3. QED
    BY <1>3, <2>2 DEF Joined, OneWorker, StopPhase
<1>4. CASE \/ JoinStop \/ StopNoThread \/ Clear \/ UNCHANGED vars
           \/ \E u \in Waiters : WaitTest(u) \/ WaitSpurious(u)
  BY <1>0, <1>4
  DEF JoinStop, StopNoThread, Clear, WaitTest, WaitSpurious, vars, OneWorker, StopPhase
<1>5. ASSUME NEW w \in Workers, WorkerStep(w) \/ PopSpurious(w)
      PROVE  OneWorker' /\ StopPhase'
  <2>1. pc[w] \in Alive
    BY <1>5 DEF WorkerStep, PopSpurious, Enter, Lock, Check, PopEmpty, PopTask, Run,
                Finish, At, Alive, InLoop
  <2>2. w = thread_
    BY <1>0, <2>1 DEF OneWorker
  <2>3. \A v \in Workers : v # w => pc'[v] = pc[v]
    BY <1>0, <1>5
    DEF WorkerStep, PopSpurious, Enter, Lock, Check, PopEmpty, PopTask, Run, Finish,
        Goto, TypeOK
  <2>4. pc'[w] # "none"
    BY <1>0, <1>5
    DEF WorkerStep, PopSpurious, Enter, Lock, Check, PopEmpty, PopTask, Run, Finish,
        Goto, TypeOK
  <2>5. thread_' = thread_ /\ cpc' = cpc
    BY <1>5 DEF WorkerStep, PopSpurious, Enter, Lock, Check, PopEmpty, PopTask, Run,
                Finish
  <2>6. QED
    BY <1>0, <2>2, <2>3, <2>4, <2>5 DEF OneWorker, StopPhase
<1>. QED
  BY <1>1, <1>2, <1>3, <1>4, <1>5 DEF Next, StopStep

\* Each critical section changes the count as it changes queue and held task.
LEMMA AccountingStep ==
  ASSUME WorkerInv, Accounting, [Next]_vars
  PROVE  Accounting'
<1>0. TypeOK /\ OneWorker /\ StopPhase
  BY DEF WorkerInv, BaseInv
<1>l. Len(tasks_) \in Nat
  BY <1>0, LenProperties DEF TypeOK
<1>1. ASSUME UNCHANGED queueVars,
             \A w \in Workers : pc'[w] \in {"run", "finish"} <=> pc[w] \in {"run", "finish"}
      PROVE  Accounting'
  <2>1. Holding' = Holding
    BY <1>1 DEF Holding
  <2>2. QED
    BY <1>1, <2>1 DEF Accounting, One, queueVars
<1>2. ASSUME NEW w \in Workers, Start(w) \/ Enter(w) \/ Lock(w) \/ Check(w)
             \/ PopEmpty(w) \/ PopSpurious(w) \/ Run(w)
      PROVE  Accounting'
  <2>1. UNCHANGED queueVars
    BY <1>2 DEF Start, Enter, Lock, Check, PopEmpty, PopSpurious, Run
  <2>2. \A v \in Workers : pc'[v] \in {"run", "finish"} <=> pc[v] \in {"run", "finish"}
    BY <1>0, <1>2
    DEF Start, Enter, Lock, Check, PopEmpty, PopSpurious, Run, At, Goto, TypeOK
  <2>3. QED
    BY <1>1, <2>1, <2>2
<1>3. CASE StopSignal
  BY <1>0, <1>1, <1>3, SignalKeeps DEF StopSignal
<1>4. CASE \/ JoinStop \/ Joined \/ StopNoThread \/ UNCHANGED vars
           \/ \E u \in Waiters : WaitTest(u) \/ WaitSpurious(u)
  BY <1>1, <1>4
  DEF JoinStop, Joined, StopNoThread, WaitTest, WaitSpurious, vars, queueVars
<1>5. CASE Clear
  <2>1. \A w \in Workers : pc[w] \notin Alive
    BY <1>0, <1>5, NoThreadNoWorker DEF Clear, StopPhase
  <2>2. ~Holding'
    BY <1>5, <2>1 DEF Clear, Holding, Alive, InLoop
  <2>3. tasks_' = <<>> /\ tasks_num_' = 0
    BY <1>5 DEF Clear
  <2>4. QED
    BY <2>2, <2>3 DEF Accounting, One
<1>6. CASE Post
  <2>1. Holding' = Holding
    BY <1>0, <1>6, SignalKeeps DEF Post, Holding
  <2>2. Len(tasks_') = Len(tasks_) + 1
    <3>1. accepted + 1 \in 1 .. MaxPosts
      BY <1>0, <1>6, BoundsAssumption DEF Post, TypeOK
    <3>2. QED
      BY <1>0, <1>6, <3>1, AppendProperties DEF Post, TypeOK
  <2>3. QED
    BY <1>0, <1>6, <1>l, <2>1, <2>2 DEF Post, Accounting, One
<1>7. ASSUME NEW w \in Workers, PopTask(w) PROVE Accounting'
  <2>1. \A v \in Workers : pc[v] \in Alive => v = w
    BY <1>0, <1>7 DEF PopTask, At, OneWorker, Alive, InLoop
  <2>2. ~Holding
    BY <1>7, <2>1 DEF Holding, PopTask, At, Alive, InLoop
  <2>3. Holding'
    BY <1>0, <1>7 DEF Holding, PopTask, Goto, TypeOK
  <2>4. Len(tasks_') = Len(tasks_) - 1
    BY <1>0, <1>7, HeadTailProperties DEF PopTask, TypeOK
  <2>5. QED
    BY <1>7, <1>l, <2>2, <2>3, <2>4 DEF PopTask, Accounting, One
<1>8. ASSUME NEW w \in Workers, Finish(w) PROVE Accounting'
  <2>1. \A v \in Workers : pc[v] \in Alive => v = w
    BY <1>0, <1>8 DEF Finish, At, OneWorker, Alive, InLoop
  <2>2. Holding
    BY <1>8 DEF Holding, Finish, At
  <2>3. ~Holding'
    BY <1>0, <1>8, <2>1 DEF Holding, Finish, Goto, TypeOK, Alive, InLoop
  <2>4. QED
    BY <1>0, <1>8, <1>l, <2>2, <2>3 DEF Finish, Accounting, One
<1>. QED
  BY <1>2, <1>3, <1>4, <1>5, <1>6, <1>7, <1>8 DEF Next, StopStep, WorkerStep

\* The invariant holds initially and in every step.
LEMMA StopInvariant ==
  ASSUME RestartWhileRunning = FALSE
  PROVE  Spec => []StopInv
<1>1. Init => StopInv
  <2>1. Init => FifoInv
    BY InitFifo
  <2>2. Init => OneWorker /\ StopPhase
    BY DEF Init, OneWorker, StopPhase, Alive, InLoop
  <2>3. ASSUME Init PROVE Accounting
    <3>1. ~Holding
      BY <2>3 DEF Init, Holding
    <3>2. tasks_ = <<>> /\ tasks_num_ = 0
      BY <2>3 DEF Init
    <3>3. QED
      BY <3>1, <3>2 DEF Accounting, One
  <2>4. QED
    BY <2>1, <2>2, <2>3 DEF StopInv, WorkerInv, FifoInv
<1>2. StopInv /\ [Next]_vars => StopInv'
  BY FifoStep, WorkerStepInv, AccountingStep DEF StopInv
<1>. QED
  BY <1>1, <1>2, PTL DEF Spec

(***************************************************************************)
(* tasks_num_ counts the tasks not executed, so wait() can rely on it.     *)
(***************************************************************************)
THEOREM AccountingCorrect ==
  ASSUME RestartWhileRunning = FALSE
  PROVE  Spec => []Accounting
<1>1. StopInv => Accounting
  BY DEF StopInv
<1>. QED
  BY <1>1, StopInvariant, PTL

(***************************************************************************)
(* Once stop() has joined, no worker of the object is alive.               *)
(***************************************************************************)
THEOREM StopQuiesces ==
  ASSUME RestartWhileRunning = FALSE
  PROVE  Spec => []QuiescentAfterStop
<1>1. StopInv => QuiescentAfterStop
  BY NoThreadNoWorker DEF StopInv, WorkerInv, QuiescentAfterStop
<1>. QED
  BY <1>1, StopInvariant, PTL
-----------------------------------------------------------------------------
(* The refinement: every step of the object is a step of TaskQueue or      *)
(* leaves what its users see unchanged.                                    *)

Opened == thread_ # NULL /\ ~stop_thread_
RunningTask == IF thread_ # NULL /\ pc[thread_] = "run" THEN task[thread_] ELSE NoTask

\* With one worker the task running is the one thread_ holds.
LEMMA RunningIsCurrent ==
  ASSUME StopInv, NEW w \in Workers, pc[w] = "run"
  PROVE  w = thread_ /\ thread_ # NULL /\ RunningTask = task[w] /\ task[w] # NoTask
<1>1. w = thread_ /\ thread_ # NULL
  BY DEF StopInv, WorkerInv, OneWorker, Alive, InLoop, Workers, NULL
<1>2. task[w] = Len(executed) + 1 /\ Len(executed) \in Nat
  BY LenProperties DEF StopInv, FifoInv, Consecutive, BaseInv, TypeOK
<1>. QED
  BY <1>1, <1>2 DEF RunningTask, NoTask

\* The step simulation.
LEMMA PromiseStep ==
  ASSUME RestartWhileRunning = FALSE, StopInv, StopInv', [Next]_vars
  PROVE  [Promise!Next]_(Promise!vars)
<1>0. TypeOK /\ OneWorker /\ StopPhase /\ BeforeStop /\ JoinsThread
  BY DEF StopInv, FifoInv, WorkerInv, BaseInv
<1> DEFINE Same == UNCHANGED <<Opened, tasks_, RunningTask, executed>>
<1>s. Same => UNCHANGED Promise!vars
  BY DEF Promise!vars, Opened, RunningTask
<1>1. ASSUME NEW w \in Workers, Start(w) PROVE Same \/ Promise!Open
  <2>1. /\ thread_ = NULL /\ thread_' = w /\ w # NULL
        /\ pc'[w] # "run"
        /\ UNCHANGED <<tasks_, executed, stop_thread_>>
    BY <1>0, <1>1 DEF Start, TypeOK, Workers, NULL, queueVars, history
  <2>2. RunningTask = NoTask /\ RunningTask' = NoTask
    BY <2>1 DEF RunningTask
  <2>3. QED
    BY <2>1, <2>2 DEF Opened, RunningTask, Promise!Open
<1>2. ASSUME StopSignal PROVE Same \/ Promise!Close
  <2>1. pc'[thread_] = "run" <=> pc[thread_] = "run"
    BY <1>0, <1>2, SignalKeeps DEF StopSignal, TypeOK
  <2>2. RunningTask' = RunningTask
    BY <1>2, <2>1 DEF StopSignal, RunningTask
  <2>3. thread_ # NULL /\ thread_' = thread_ /\ stop_thread_'
        /\ UNCHANGED <<tasks_, executed>>
    BY <1>2 DEF StopSignal, queueVars, history
  <2>4. QED
    BY <2>2, <2>3 DEF Opened, RunningTask, Promise!Close
<1>3. ASSUME \/ JoinStop \/ StopNoThread \/ UNCHANGED vars
             \/ \E u \in Waiters : WaitTest(u) \/ WaitSpurious(u)
      PROVE  Same
  <2>1. UNCHANGED <<thread_, stop_thread_, pc, task, tasks_, executed>>
    BY <1>3
    DEF JoinStop, StopNoThread, WaitTest, WaitSpurious, vars, queueVars, history
  <2>2. QED
    BY <2>1 DEF Opened, RunningTask
<1>4. ASSUME Joined PROVE Same
  <2>1. /\ stop_thread_ /\ stop_thread_' = stop_thread_
        /\ thread_ # NULL /\ thread_' = NULL
        /\ pc[thread_] # "run"
        /\ UNCHANGED <<tasks_, executed>>
    BY <1>0, <1>4
    DEF Joined, BeforeStop, JoinsThread, Alive, InLoop, queueVars, history
  <2>2. QED
    BY <2>1 DEF Opened, RunningTask
<1>5. ASSUME Clear PROVE Promise!Discard
  <2>1. thread_ = NULL /\ thread_' = NULL /\ tasks_' = <<>> /\ executed' = executed
    BY <1>0, <1>5 DEF Clear, StopPhase, history
  <2>2. QED
    BY <2>1 DEF Opened, RunningTask, NoTask, Promise!NoTask, Promise!Discard
<1>6. CASE Post
  <2>1. pc'[thread_] = "run" <=> pc[thread_] = "run"
    BY <1>0, <1>6, SignalKeeps DEF Post, TypeOK
  <2>2. RunningTask' = RunningTask
    BY <1>6, <2>1 DEF Post, RunningTask
  <2>3. accepted + 1 \in 1 .. MaxPosts
    BY <1>0, <1>6, BoundsAssumption DEF Post, TypeOK
  <2>4. Promise!Submit(accepted + 1)
    BY <1>6, <2>2 DEF Post, RunningTask, Promise!Submit
  <2>5. QED
    BY <2>3, <2>4 DEF Promise!Next
<1>7. ASSUME NEW w \in Workers, PopTask(w) PROVE Promise!Take
  <2>1. w = thread_ /\ thread_ # NULL
    BY <1>0, <1>7 DEF PopTask, At, OneWorker, Alive, InLoop, Workers, NULL
  <2>2. pc[thread_] # "run" /\ pc'[thread_] = "run" /\ thread_' = thread_
        /\ task'[thread_] = Head(tasks_)
    BY <1>0, <1>7, <2>1 DEF PopTask, At, Goto, TypeOK
  <2>3. RunningTask = NoTask /\ RunningTask' = Head(tasks_)
    BY <2>1, <2>2 DEF RunningTask
  <2>4. QED
    BY <1>7, <2>3
    DEF PopTask, Promise!Take, RunningTask, NoTask, Promise!NoTask, history
<1>8. ASSUME NEW w \in Workers, Run(w) PROVE Promise!Complete
  <2>1. w = thread_ /\ thread_ # NULL /\ RunningTask = task[w] /\ task[w] # NoTask
    BY <1>8, RunningIsCurrent DEF Run, At
  <2>2. pc'[thread_] # "run" /\ thread_' = thread_
    BY <1>0, <1>8, <2>1 DEF Run, Goto, TypeOK
  <2>3. RunningTask' = NoTask
    BY <2>1, <2>2 DEF RunningTask
  <2>4. QED
    BY <1>8, <2>1, <2>3
    DEF Run, Promise!Complete, RunningTask, NoTask, Promise!NoTask, queueVars
<1>9. ASSUME NEW w \in Workers,
             \/ Enter(w) \/ Lock(w) \/ Check(w) \/ PopEmpty(w) \/ PopSpurious(w)
             \/ Finish(w)
      PROVE  Same
  <2>1. w = thread_
    BY <1>0, <1>9 DEF Enter, Lock, Check, PopEmpty, PopSpurious, Finish, At,
                      OneWorker, Alive, InLoop
  <2>2. pc[w] # "run" /\ pc'[w] # "run"
    BY <1>0, <1>9
    DEF Enter, Lock, Check, PopEmpty, PopSpurious, Finish, At, Goto, TypeOK
  <2>3. UNCHANGED <<thread_, stop_thread_, tasks_, executed>>
    BY <1>9 DEF Enter, Lock, Check, PopEmpty, PopSpurious, Finish, queueVars, history
  <2>4. QED
    BY <2>1, <2>2, <2>3 DEF Opened, RunningTask
<1>. QED
  BY <1>s, <1>1, <1>2, <1>3, <1>4, <1>5, <1>6, <1>7, <1>8, <1>9
  DEF Next, StopStep, WorkerStep, Promise!Next

(***************************************************************************)
(* mfxGstThread implements TaskQueue, the promise the executors build on.  *)
(***************************************************************************)
THEOREM ImplementsPromise ==
  ASSUME RestartWhileRunning = FALSE
  PROVE  Spec => PromiseSpec
<1>1. Init => Promise!Init
  BY DEF Init, Promise!Init, NULL, NoTask, Promise!NoTask
<1>2. StopInv /\ StopInv' /\ [Next]_vars => [Promise!Next]_(Promise!vars)
  BY PromiseStep
<1>. QED
  BY <1>1, <1>2, StopInvariant, PTL DEF Spec, PromiseSpec, Promise!Spec
=============================================================================
