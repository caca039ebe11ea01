------------------------------ MODULE TaskQueue -----------------------------
(***************************************************************************)
(* What the task buffer of lab08/zad1 promises to one producer and one     *)
(* consumer: tasks are executed whole, once, and in the order in which     *)
(* they were put, and never more than Capacity of them wait.               *)
(***************************************************************************)
EXTENDS Naturals, Sequences

CONSTANTS Capacity, Task, NoTask

VARIABLES
  queue,                \* the tasks put and not yet executed
  executed              \* the task executed last, NoTask before the first

vars == <<queue, executed>>

Init == queue = <<>> /\ executed = NoTask

Put(t) ==
  /\ Len(queue) < Capacity
  /\ queue' = Append(queue, t)
  /\ UNCHANGED executed

Execute ==
  /\ queue # <<>>
  /\ executed' = Head(queue)
  /\ queue' = Tail(queue)

Next == Execute \/ \E t \in Task : Put(t)

\* Whatever has been put is executed in the end.
Spec == Init /\ [][Next]_vars /\ WF_vars(Execute)

=============================================================================
