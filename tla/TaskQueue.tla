----------------------------- MODULE TaskQueue -----------------------------
(***************************************************************************)
(* What mfxGstThread promises to the executors that post tasks to it: one  *)
(* task at a time, in the order of submission, each at most once; tasks    *)
(* are accepted only while the queue is open, and tasks still queued when  *)
(* it closes may be discarded, but only while none is running.             *)
(***************************************************************************)
EXTENDS Integers, Sequences

CONSTANT
  Tasks       \* the tasks that can be submitted, none of them NoTask

VARIABLES
  open,       \* does submit accept tasks?
  queue,      \* the accepted tasks that have not been taken, in order
  running,    \* the task being executed, NoTask if none
  executed    \* the tasks executed so far, in order of completion

vars == <<open, queue, running, executed>>

NoTask == 0

Init ==
  /\ open = FALSE
  /\ queue = <<>>
  /\ running = NoTask
  /\ executed = <<>>

Open ==
  /\ ~open
  /\ open' = TRUE
  /\ UNCHANGED <<queue, running, executed>>

Submit(t) ==
  /\ open
  /\ queue' = Append(queue, t)
  /\ UNCHANGED <<open, running, executed>>

Take ==
  /\ running = NoTask
  /\ queue # <<>>
  /\ running' = Head(queue)
  /\ queue' = Tail(queue)
  /\ UNCHANGED <<open, executed>>

Complete ==
  /\ running # NoTask
  /\ executed' = Append(executed, running)
  /\ running' = NoTask
  /\ UNCHANGED <<open, queue>>

Close ==
  /\ open
  /\ open' = FALSE
  /\ UNCHANGED <<queue, running, executed>>

Discard ==
  /\ ~open
  /\ running = NoTask
  /\ queue' = <<>>
  /\ UNCHANGED <<open, running, executed>>

Next ==
  \/ Open
  \/ \E t \in Tasks : Submit(t)
  \/ Take
  \/ Complete
  \/ Close
  \/ Discard

Spec == Init /\ [][Next]_vars
=============================================================================
