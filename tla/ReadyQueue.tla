----------------------------- MODULE ReadyQueue -----------------------------
(***************************************************************************)
(* The list surgery of src/kernel/task/scheduler.c on its intrusive list   *)
(* ready_queue, as operators on the sequence of task_t addresses it links. *)
(***************************************************************************)
EXTENDS Integers, Sequences

CONSTANTS Addr,    \* addresses a task_t may be allocated at
          Idle     \* the address of the idle task

ASSUME IdleAssumption == Idle \in Addr

\* task_init gives idle priority 255, task_create_user gives user tasks 10.
Priority(a) == IF a = Idle THEN 255 ELSE 10

Positions(q, a) == {i \in 1 .. Len(q) : q[i] = a}

\* The positions the walk of scheduler_add_task does not step over.
Lower(q, a) == {i \in 1 .. Len(q) : Priority(q[i]) > Priority(a)}

First(S) == CHOOSE i \in S : \A j \in S : i <= j

InsertBefore(q, i, a) == SubSeq(q, 1, i - 1) \o <<a>> \o SubSeq(q, i, Len(q))

Without(q, i) == SubSeq(q, 1, i - 1) \o SubSeq(q, i + 1, Len(q))

\* The insertion of scheduler_add_task: behind every task that is at least
\* as urgent, hence first in first out among equals.
Enqueue(q, a) ==
    IF Lower(q, a) = {} THEN Append(q, a) ELSE InsertBefore(q, First(Lower(q, a)), a)

\* scheduler_remove_task unlinks the first occurrence, if there is one.
scheduler_remove_task(q, a) ==
    IF Positions(q, a) = {} THEN q ELSE Without(q, First(Positions(q, a)))
=============================================================================
