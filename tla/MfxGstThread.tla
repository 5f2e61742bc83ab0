---------------------------- MODULE MfxGstThread ----------------------------
(***************************************************************************)
(* mfxGstThread (utils/src/mfx_gst_thread.cpp): the FIFO of tasks and the  *)
(* GstTask worker behind each executor's task thread and sync thread.      *)
(*                                                                         *)
(* Every critical section of tasks_mutex_ is one action; a thread blocked  *)
(* in g_cond_wait is a program counter value, and g_cond_signal moves one  *)
(* blocked thread on.  thread_mutex_ is the lock gst_task_set_lock gives   *)
(* the worker: the GStreamer task function holds it for its whole loop.    *)
(* The GstTask steps (Enter, Lock, Check, JoinStop, Joined) are GStreamer  *)
(* code, modelled from the calls made here.                                *)
(***************************************************************************)
EXTENDS Integers, Sequences

CONSTANTS
  MaxPosts,            \* bound: number of accepted post() calls
  MaxStarts,           \* bound: number of start() calls
  Waiters,             \* the threads that call wait()
  RestartWhileRunning  \* may start() be called on an object already started?

ASSUME BoundsAssumption == MaxPosts \in Nat /\ MaxStarts \in Nat
ASSUME RestartAssumption == RestartWhileRunning \in BOOLEAN

VARIABLES
  thread_,       \* the current GstTask, NULL if none
  stop_thread_,
  tasks_,
  tasks_num_,
  stopped,       \* the GstTasks whose state is GST_TASK_STOPPED
  pc,            \* where the pool thread of each GstTask is
  task,          \* the task each worker took in pop()
  cpc,           \* where the thread that calls start() and stop() is
  upc,           \* where each caller of wait() is
  accepted,      \* history: number of post() calls that returned true
  executed       \* history: the tasks run, in order

queueVars == <<tasks_, tasks_num_>>
history == <<accepted, executed>>
vars == <<thread_, stop_thread_, tasks_, tasks_num_, stopped, pc, task, cpc,
          upc, accepted, executed>>

Workers == 1 .. MaxStarts
NULL == 0
NoTask == 0

\* The program counters at which a worker holds thread_mutex_.
InLoop == {"check", "pop", "wait", "run", "finish"}
Alive == {"spawned", "lock"} \cup InLoop
WorkerPC == {"none", "failed", "exited"} \cup Alive
WaiterPC == {"out", "blocked", "awake"}

TypeOK ==
  /\ thread_ \in Workers \cup {NULL}
  /\ stop_thread_ \in BOOLEAN
  /\ tasks_ \in Seq(1 .. MaxPosts)
  /\ tasks_num_ \in Int
  /\ stopped \in SUBSET Workers
  /\ pc \in [Workers -> WorkerPC]
  /\ task \in [Workers -> 0 .. MaxPosts]
  /\ cpc \in {"idle", "join", "joining", "clear"}
  /\ upc \in [Waiters -> WaiterPC]
  /\ accepted \in 0 .. MaxPosts
  /\ executed \in Seq(0 .. MaxPosts)

Init ==
  /\ thread_ = NULL
  /\ stop_thread_ = FALSE
  /\ tasks_ = <<>>
  /\ tasks_num_ = 0
  /\ stopped = {}
  /\ pc = [w \in Workers |-> "none"]
  /\ task = [w \in Workers |-> NoTask]
  /\ cpc = "idle"
  /\ upc = [u \in Waiters |-> "out"]
  /\ accepted = 0
  /\ executed = <<>>

\* g_cond_signal: one thread blocked at "from", if there is one, goes on at "to".
Signal(f, from, to) ==
  LET blocked == {x \in DOMAIN f : f[x] = from}
  IN  IF blocked = {} THEN {f} ELSE {[f EXCEPT ![x] = to] : x \in blocked}

-----------------------------------------------------------------------------
(* The thread that starts and stops the object.                            *)

\* start(): a new GstTask replaces thread_; gst_task_start may fail.
Start(w) ==
  /\ cpc = "idle"
  /\ thread_ = NULL \/ RestartWhileRunning
  /\ pc[w] = "none"
  /\ \A v \in Workers : v < w => pc[v] # "none"
  /\ thread_' = w
  /\ \E p \in {"spawned", "failed"} : pc' = [pc EXCEPT ![w] = p]
  /\ UNCHANGED <<stop_thread_, queueVars, stopped, task, cpc, upc, history>>

\* Mutant of StopSignal: the worker blocked in pop() is not woken.
StopSignalSilent ==
  /\ cpc = "idle"
  /\ thread_ # NULL
  /\ stop_thread_' = TRUE
  /\ cpc' = "join"
  /\ UNCHANGED <<thread_, queueVars, stopped, pc, task, upc, history>>

\* stop() with a thread: raise stop_thread_ and wake the worker.
StopSignal ==
  /\ cpc = "idle"
  /\ thread_ # NULL
  /\ stop_thread_' = TRUE
  /\ pc' \in Signal(pc, "wait", "pop")
  /\ cpc' = "join"
  /\ UNCHANGED <<thread_, queueVars, stopped, task, upc, history>>

\* gst_task_join sets GST_TASK_STOPPED, then waits for the pool thread to leave.
JoinStop ==
  /\ cpc = "join"
  /\ stopped' = stopped \cup {thread_}
  /\ cpc' = "joining"
  /\ UNCHANGED <<thread_, stop_thread_, queueVars, pc, task, upc, history>>

\* Mutant of Joined: the task is stopped but not waited for.
JoinedEarly ==
  /\ cpc = "joining"
  /\ thread_' = NULL
  /\ cpc' = "clear"
  /\ UNCHANGED <<stop_thread_, queueVars, stopped, pc, task, upc, history>>

Joined ==
  /\ cpc = "joining"
  /\ pc[thread_] \notin Alive
  /\ thread_' = NULL
  /\ cpc' = "clear"
  /\ UNCHANGED <<stop_thread_, queueVars, stopped, pc, task, upc, history>>

\* stop() without a thread goes straight to the second critical section.
StopNoThread ==
  /\ cpc = "idle"
  /\ thread_ = NULL
  /\ cpc' = "clear"
  /\ UNCHANGED <<thread_, stop_thread_, queueVars, stopped, pc, task, upc, history>>

\* Mutant of Clear: the count of the discarded tasks stays.
ClearKeepsCount ==
  /\ cpc = "clear"
  /\ tasks_' = <<>>
  /\ upc' \in Signal(upc, "blocked", "awake")
  /\ cpc' = "idle"
  /\ UNCHANGED <<thread_, stop_thread_, tasks_num_, stopped, pc, task, history>>

\* The end of stop(): what remains in the queue is dropped.
Clear ==
  /\ cpc = "clear"
  /\ tasks_' = <<>>
  /\ tasks_num_' = 0
  /\ upc' \in Signal(upc, "blocked", "awake")
  /\ cpc' = "idle"
  /\ UNCHANGED <<thread_, stop_thread_, stopped, pc, task, history>>

-----------------------------------------------------------------------------
(* The threads that post and wait.                                         *)

\* Mutant of Post: accepted although stop() has begun.
PostWhileStopping ==
  /\ accepted < MaxPosts
  /\ thread_ # NULL
  /\ accepted' = accepted + 1
  /\ tasks_' = Append(tasks_, accepted + 1)
  /\ tasks_num_' = tasks_num_ + 1
  /\ pc' \in Signal(pc, "wait", "pop")
  /\ UNCHANGED <<thread_, stop_thread_, stopped, task, cpc, upc, executed>>

\* Mutant of Post: the worker is not woken.
PostSilent ==
  /\ accepted < MaxPosts
  /\ thread_ # NULL
  /\ ~stop_thread_
  /\ accepted' = accepted + 1
  /\ tasks_' = Append(tasks_, accepted + 1)
  /\ tasks_num_' = tasks_num_ + 1
  /\ UNCHANGED <<thread_, stop_thread_, stopped, pc, task, cpc, upc, executed>>

\* post() that returns true.  One that returns false changes nothing.
Post ==
  /\ accepted < MaxPosts
  /\ thread_ # NULL
  /\ ~stop_thread_
  /\ accepted' = accepted + 1
  /\ tasks_' = Append(tasks_, accepted + 1)
  /\ tasks_num_' = tasks_num_ + 1
  /\ pc' \in Signal(pc, "wait", "pop")
  /\ UNCHANGED <<thread_, stop_thread_, stopped, task, cpc, upc, executed>>

\* wait(), called or woken: blocks while tasks_num_ is not zero.  g_cond_wait
\* may also return without a signal.
WaitTest(u) ==
  /\ upc[u] \in {"out", "awake"}
  /\ upc' = [upc EXCEPT ![u] = IF tasks_num_ # 0 THEN "blocked" ELSE "out"]
  /\ UNCHANGED <<thread_, stop_thread_, queueVars, stopped, pc, task, cpc, history>>

WaitSpurious(u) ==
  /\ upc[u] = "blocked"
  /\ upc' = [upc EXCEPT ![u] = "awake"]
  /\ UNCHANGED <<thread_, stop_thread_, queueVars, stopped, pc, task, cpc, history>>

-----------------------------------------------------------------------------
(* The worker.                                                             *)

At(w, p) == pc[w] = p
Goto(w, p) == pc' = [pc EXCEPT ![w] = p]

\* The pool thread leaves at once when the task was stopped before it ran.
Enter(w) ==
  /\ At(w, "spawned")
  /\ Goto(w, IF w \in stopped THEN "exited" ELSE "lock")
  /\ UNCHANGED <<thread_, stop_thread_, queueVars, stopped, task, cpc, upc, history>>

\* g_rec_mutex_lock(&thread_mutex_): only one worker is in the loop.
Lock(w) ==
  /\ At(w, "lock")
  /\ \A v \in Workers : pc[v] \notin InLoop
  /\ Goto(w, "check")
  /\ UNCHANGED <<thread_, stop_thread_, queueVars, stopped, task, cpc, upc, history>>

\* GStreamer calls loop() again until the state is GST_TASK_STOPPED.
Check(w) ==
  /\ At(w, "check")
  /\ Goto(w, IF w \in stopped THEN "exited" ELSE "pop")
  /\ UNCHANGED <<thread_, stop_thread_, queueVars, stopped, task, cpc, upc, history>>

\* pop() of an empty queue: blocks, or returns an empty task when stopping.
PopEmpty(w) ==
  /\ At(w, "pop")
  /\ tasks_ = <<>>
  /\ Goto(w, IF stop_thread_ THEN "check" ELSE "wait")
  /\ UNCHANGED <<thread_, stop_thread_, queueVars, stopped, task, cpc, upc, history>>

PopSpurious(w) ==
  /\ At(w, "wait")
  /\ Goto(w, "pop")
  /\ UNCHANGED <<thread_, stop_thread_, queueVars, stopped, task, cpc, upc, history>>

\* Mutant of PopTask: the newest task first.
PopNewest(w) ==
  /\ At(w, "pop")
  /\ tasks_ # <<>>
  /\ task' = [task EXCEPT ![w] = tasks_[Len(tasks_)]]
  /\ tasks_' = SubSeq(tasks_, 1, Len(tasks_) - 1)
  /\ Goto(w, "run")
  /\ UNCHANGED <<thread_, stop_thread_, tasks_num_, stopped, cpc, upc, history>>

\* pop() of a task: also when stop_thread_ is already set.
PopTask(w) ==
  /\ At(w, "pop")
  /\ tasks_ # <<>>
  /\ task' = [task EXCEPT ![w] = Head(tasks_)]
  /\ tasks_' = Tail(tasks_)
  /\ Goto(w, "run")
  /\ UNCHANGED <<thread_, stop_thread_, tasks_num_, stopped, cpc, upc, history>>

\* task.task() and task.notify(); an exception of either ends here as well.
Run(w) ==
  /\ At(w, "run")
  /\ executed' = Append(executed, task[w])
  /\ Goto(w, "finish")
  /\ UNCHANGED <<thread_, stop_thread_, queueVars, stopped, task, cpc, upc, accepted>>

Finish(w) ==
  /\ At(w, "finish")
  /\ tasks_num_' = tasks_num_ - 1
  /\ task' = [task EXCEPT ![w] = NoTask]
  /\ upc' \in Signal(upc, "blocked", "awake")
  /\ Goto(w, "check")
  /\ UNCHANGED <<thread_, stop_thread_, tasks_, stopped, cpc, history>>

WorkerStep(w) ==
  Enter(w) \/ Lock(w) \/ Check(w) \/ PopEmpty(w) \/ PopTask(w) \/ Run(w) \/ Finish(w)

StopStep == JoinStop \/ Joined \/ Clear

Next ==
  \/ \E w \in Workers : Start(w) \/ WorkerStep(w) \/ PopSpurious(w)
  \/ StopSignal \/ StopNoThread \/ StopStep
  \/ Post
  \/ \E u \in Waiters : WaitTest(u) \/ WaitSpurious(u)

Spec == Init /\ [][Next]_vars

(***************************************************************************)
(* Fairness: a running thread keeps taking steps (tasks terminate), and so *)
(* does a thread inside stop() or woken in wait().  Nothing forces anyone  *)
(* to call start, stop, post or wait, nor a spurious wake-up.              *)
(***************************************************************************)
Fairness ==
  /\ \A w \in Workers : WF_vars(WorkerStep(w))
  /\ WF_vars(StopStep)
  /\ \A u \in Waiters : WF_vars(upc[u] = "awake" /\ WaitTest(u))

FairSpec == Spec /\ Fairness

-----------------------------------------------------------------------------
(* Properties.                                                             *)

Running == \E w \in Workers : pc[w] = "run"
Holding == \E w \in Workers : pc[w] \in {"run", "finish"}
One(b) == IF b THEN 1 ELSE 0

(***************************************************************************)
(* tasks_num_ is the "number of not executed tasks": those in the queue    *)
(* and the one a worker took and has not accounted for.  post, pop, the    *)
(* decrement of loop() and the reset of stop() are four critical sections, *)
(* so the count could drift, and wait() would return early or never.       *)
(***************************************************************************)
Accounting == tasks_num_ = Len(tasks_) + One(Holding)

(***************************************************************************)
(* Tasks run one after another in the order they were accepted, each at    *)
(* most once and with none skipped; until someone calls stop(), the        *)
(* accepted tasks are exactly the executed ones, the one running and the   *)
(* queued ones.                                                            *)
(***************************************************************************)
FifoNoLoss ==
  /\ \A i \in DOMAIN executed : executed[i] = i
  /\ ~stop_thread_ => accepted = Len(executed) + One(Running) + Len(tasks_)

(***************************************************************************)
(* When stop() has joined its thread no worker of the object is left: none *)
(* runs a task or will take one ("waiting for the thread to stop"), so the *)
(* executor may free what the tasks use.                                   *)
(***************************************************************************)
QuiescentAfterStop ==
  thread_ = NULL => \A w \in Workers : pc[w] \notin Alive

\* The object implements the promise it makes to the executors (TaskQueue):
\* across start(), post(), the worker's loop and stop(), tasks are accepted only
\* while it is started, run in order, and are dropped only when none is running.
Promise == INSTANCE TaskQueue WITH
  open <- thread_ # NULL /\ ~stop_thread_,
  queue <- tasks_,
  Tasks <- 1 .. MaxPosts,
  running <- IF thread_ # NULL /\ pc[thread_] = "run" THEN task[thread_] ELSE NoTask

PromiseSpec == Promise!Spec

\* stop() returns: the wake-up of a worker blocked in pop() is never lost.
StopReturns == cpc = "join" ~> cpc = "idle"

\* A task that post() accepted is executed, unless stop() is called before or
\* there is no worker to run it.
AcceptedRuns ==
  \A t \in 1 .. MaxPosts :
    accepted >= t ~> \/ Len(executed) >= t
                     \/ stop_thread_
                     \/ \E w \in Workers : pc[w] = "failed"
=============================================================================
