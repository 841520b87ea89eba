--------------------------- MODULE TaskingProofs ----------------------------
(***************************************************************************)
(* Proofs about Tasking, for any number of tasks, PTYs and programs and    *)
(* whatever system calls the programs make.                                *)
(***************************************************************************)
EXTENDS Tasking, SequenceTheorems, WellFoundedInduction, TLAPS

-----------------------------------------------------------------------------
(* The ready queue.                                                        *)

\* A non-empty set of positions has a first one.
LEMMA FirstIsLeast ==
    ASSUME NEW S \in SUBSET Nat, S # {}
    PROVE  First(S) \in S /\ \A j \in S : First(S) <= j
<1> DEFINE LT == {ss \in Nat \X Nat : ss[1] < ss[2]}
<1>1. IsWellFoundedOn(LT, Nat)
  BY NatLessThanWellFounded, Zenon DEF OpToRel
<1> HIDE DEF LT
<1>2. PICK x \in S : \A y \in S : ~(<<y, x>> \in LT)
  BY <1>1, WFMin
<1>3. ASSUME NEW y \in S PROVE x <= y
  <2>1. <<y, x>> \in Nat \X Nat /\ <<y, x>>[1] = y /\ <<y, x>>[2] = x
    OBVIOUS
  <2>2. y < x => <<y, x>> \in LT
    BY <2>1, Zenon DEF LT
  <2> QED BY <1>2, <2>2
<1> QED BY <1>3 DEF First

\* scheduler_add_task keeps the ready queue a list of tasks.
LEMMA EnqueueType ==
    ASSUME NEW q \in Seq(Addr), NEW a \in Addr
    PROVE  Enqueue(q, a) \in Seq(Addr)
<1>1. CASE Lower(q, a) = {}
  BY <1>1 DEF Enqueue
<1>2. CASE Lower(q, a) # {}
  <2> DEFINE i == First(Lower(q, a))
  <2>1. i \in 1 .. Len(q)
    <3>1. Lower(q, a) \in SUBSET Nat /\ Lower(q, a) \subseteq 1 .. Len(q)
      BY DEF Lower
    <3> QED BY <1>2, <3>1, FirstIsLeast
  <2> HIDE DEF i
  <2>2. SubSeq(q, 1, i - 1) \in Seq(Addr) /\ SubSeq(q, i, Len(q)) \in Seq(Addr)
    BY <2>1, SubSeqProperties
  <2>3. InsertBefore(q, i, a) \in Seq(Addr)
    BY <2>2 DEF InsertBefore
  <2> QED BY <1>2, <2>3 DEF Enqueue, i
<1> QED BY <1>1, <1>2

\* scheduler_remove_task keeps the ready queue a list of tasks.
LEMMA RemoveType ==
    ASSUME NEW q \in Seq(Addr), NEW a \in Addr
    PROVE  scheduler_remove_task(q, a) \in Seq(Addr)
<1>1. CASE Positions(q, a) = {}
  BY <1>1 DEF scheduler_remove_task
<1>2. CASE Positions(q, a) # {}
  <2> DEFINE i == First(Positions(q, a))
  <2>1. i \in 1 .. Len(q)
    <3>1. Positions(q, a) \in SUBSET Nat /\ Positions(q, a) \subseteq 1 .. Len(q)
      BY DEF Positions
    <3> QED BY <1>2, <3>1, FirstIsLeast
  <2> HIDE DEF i
  <2>2. SubSeq(q, 1, i - 1) \in Seq(Addr) /\ SubSeq(q, i + 1, Len(q)) \in Seq(Addr)
    BY <2>1, SubSeqProperties
  <2>3. Without(q, i) \in Seq(Addr)
    BY <2>2 DEF Without
  <2> QED BY <1>2, <2>3 DEF scheduler_remove_task, i
<1> QED BY <1>1, <1>2

-----------------------------------------------------------------------------
(* Type correctness.                                                       *)

\* A fresh task_t is well formed.
LEMMA NewTaskType ==
    ASSUME NEW pid \in Pids, NEW parent \in Pids, NEW prog \in Programs
    PROVE  NewTask(pid, parent, prog) \in TaskRecord
BY TaskingAssumption DEF NewTask, TaskRecord

\* So is the context a task starts or resumes user mode with.
LEMMA ContextType ==
    ASSUME NEW pc \in {"user", "idle"}
    PROVE  Context(pc) \in SavedContext
BY TaskingAssumption DEF Context, SavedContext, Pids

\* Moving a task inside the kernel keeps its context well formed.
LEMMA MoveType ==
    ASSUME NEW f \in [Addr -> SavedContext], NEW a \in Addr,
           NEW pc \in {"wait", "scan", "hlt", "pick", "unlink"}
    PROVE  /\ \A i \in BOOLEAN :
                [f EXCEPT ![a].pc = pc, ![a].intr = i] \in [Addr -> SavedContext]
           /\ \A t \in {-1} \cup Pids :
                [f EXCEPT ![a].pc = pc, ![a].target = t] \in [Addr -> SavedContext]
           /\ \A v \in Addr :
                [f EXCEPT ![a].pc = pc, ![a].victim = v] \in [Addr -> SavedContext]
<1>1. ASSUME NEW i \in BOOLEAN
      PROVE  [f EXCEPT ![a].pc = pc, ![a].intr = i] \in [Addr -> SavedContext]
  <2> DEFINE g == [f EXCEPT ![a].pc = pc]
  <2>1. g \in [Addr -> SavedContext]
    BY DEF SavedContext
  <2> HIDE DEF g
  <2>2. [g EXCEPT ![a].intr = i] \in [Addr -> SavedContext]
    BY <2>1 DEF SavedContext
  <2> QED BY <2>2 DEF g
<1>2. ASSUME NEW t \in {-1} \cup Pids
      PROVE  [f EXCEPT ![a].pc = pc, ![a].target = t] \in [Addr -> SavedContext]
  <2> DEFINE g == [f EXCEPT ![a].pc = pc]
  <2>1. g \in [Addr -> SavedContext]
    BY DEF SavedContext
  <2> HIDE DEF g
  <2>2. [g EXCEPT ![a].target = t] \in [Addr -> SavedContext]
    BY <2>1 DEF SavedContext
  <2> QED BY <2>2 DEF g
<1>3. ASSUME NEW v \in Addr
      PROVE  [f EXCEPT ![a].pc = pc, ![a].victim = v] \in [Addr -> SavedContext]
  <2> DEFINE g == [f EXCEPT ![a].pc = pc]
  <2>1. g \in [Addr -> SavedContext]
    BY DEF SavedContext
  <2> HIDE DEF g
  <2>2. [g EXCEPT ![a].victim = v] \in [Addr -> SavedContext]
    BY <2>1 DEF SavedContext
  <2> QED BY <2>2 DEF g
<1> QED BY <1>1, <1>2, <1>3

\* Setting a flag or the state of a task keeps the table well formed.
LEMMA PreemptFlagType ==
    ASSUME NEW f \in [Addr -> TaskRecord], NEW a \in Addr, NEW b \in BOOLEAN
    PROVE  [f EXCEPT ![a].kernel_preempt_ok = b] \in [Addr -> TaskRecord]
BY DEF TaskRecord

LEMMA ReapFlagType ==
    ASSUME NEW f \in [Addr -> TaskRecord], NEW a \in Addr, NEW b \in BOOLEAN
    PROVE  [f EXCEPT ![a].reap_blocked = b] \in [Addr -> TaskRecord]
BY DEF TaskRecord

LEMMA StateType ==
    ASSUME NEW f \in [Addr -> TaskRecord], NEW a \in Addr,
           NEW st \in {"READY", "RUNNING", "TERMINATED"}
    PROVE  [f EXCEPT ![a].state = st] \in [Addr -> TaskRecord]
BY DEF TaskRecord

\* Detaching slaves keeps the session table well formed.
LEMMA DetachType ==
    ASSUME TypeOK, NEW pids
    PROVE  pty_detach_slave(pids) \in [Ptys -> Pids]
BY TaskingAssumption DEF TypeOK, pty_detach_slave, Pids

\* Queueing keeps the ready queue a list of tasks.
LEMMA AddTaskType ==
    ASSUME NEW q \in Seq(Addr), NEW a \in Addr, NEW st
    PROVE  scheduler_add_task(q, st, a) \in Seq(Addr)
BY EnqueueType DEF scheduler_add_task

LEMMA InitType == Init => TypeOK
<1> SUFFICES ASSUME Init PROVE TypeOK OBVIOUS
<1>1. PICK shell \in Addr \ {Idle} :
        /\ task = [a \in Addr |->
                     IF a = Idle
                     THEN [NewTask(0, 0, BootProgram) EXCEPT !.state = "RUNNING"]
                     ELSE NewTask(1, 0, BootProgram)]
        /\ heap = {Idle, shell}
        /\ tasks = {Idle, shell}
        /\ ready_queue = <<shell>>
        /\ cpu = [a \in Addr |-> Context(IF a = Idle THEN "idle" ELSE "user")]
  BY DEF Init
<1>2. 0 \in Pids /\ 1 \in Pids /\ BootProgram \in Programs /\ 2 \in 1 .. MaxPid + 1
  BY TaskingAssumption DEF Pids
<1>3. [NewTask(0, 0, BootProgram) EXCEPT !.state = "RUNNING"] \in TaskRecord
  BY <1>2, NewTaskType DEF TaskRecord
<1>4. task \in [Addr -> TaskRecord]
  BY <1>1, <1>2, <1>3, NewTaskType
<1>5. cpu \in [Addr -> SavedContext]
  BY <1>1, ContextType
<1> QED
  BY <1>1, <1>2, <1>4, <1>5, IdleAssumption DEF Init, TypeOK

LEMMA ScheduleType == TypeOK /\ schedule_from_irq => TypeOK'
<1> SUFFICES ASSUME TypeOK, schedule_from_irq PROVE TypeOK' OBVIOUS
<1> DEFINE next == Head(ready_queue)
<1>1. next \in Addr /\ Tail(ready_queue) \in Seq(Addr)
  BY DEF TypeOK, schedule_from_irq
<1> DEFINE popped == [task EXCEPT ![next].state = "RUNNING"]
<1>2. popped \in [Addr -> TaskRecord]
  BY <1>1, StateType DEF TypeOK
<1>3. cpu' \in [Addr -> SavedContext]
  <2>1. [cpu EXCEPT ![current_task].pc = "scan", ![current_task].intr = FALSE]
           \in [Addr -> SavedContext]
    BY MoveType DEF TypeOK
  <2> QED BY <2>1 DEF schedule_from_irq, Woken, TypeOK
<1>4. CASE KeepsCurrent(next) /\ task' = popped /\ ready_queue' = Requeued(next)
           /\ UNCHANGED current_task
  <2>1. ready_queue' \in Seq(Addr)
    BY <1>1, <1>4, AddTaskType DEF Requeued
  <2> QED BY <1>2, <1>3, <1>4, <2>1 DEF TypeOK, schedule_from_irq
<1>5. CASE /\ current_task' = next
           /\ ready_queue' = Switched(Tail(ready_queue))
           /\ task' = [popped EXCEPT ![current_task].state =
                             IF @ = "RUNNING" THEN "READY" ELSE @]
  <2>1. ready_queue' \in Seq(Addr)
    BY <1>1, <1>5, AddTaskType DEF Switched, TypeOK
  <2> HIDE DEF popped
  <2> DEFINE st == IF popped[current_task].state = "RUNNING"
                   THEN "READY" ELSE popped[current_task].state
  <2>2. st \in {"READY", "RUNNING", "TERMINATED"}
    BY <1>2 DEF TypeOK, TaskRecord
  <2>3. task' = [popped EXCEPT ![current_task].state = st]
    BY <1>5
  <2> HIDE DEF st
  <2>4. task' \in [Addr -> TaskRecord]
    BY <1>2, <2>2, <2>3, StateType DEF TypeOK
  <2> QED BY <1>1, <1>3, <1>5, <2>1, <2>4 DEF TypeOK, schedule_from_irq
<1> QED BY <1>4, <1>5 DEF schedule_from_irq

\* Creating a task: what SpawnOk does to everything but the contexts.
LEMMA SpawnType ==
    ASSUME TypeOK, NEW a \in Addr, NEW prog \in Programs, NEW pty \in Ptys \cup {NoPty},
           SpawnOk(a, prog, pty), cpu' \in [Addr -> SavedContext]
    PROVE  TypeOK'
<1>1. next_pid \in Pids /\ next_pid + 1 \in 1 .. MaxPid + 1 /\ me.pid \in Pids
  BY TaskingAssumption DEF TypeOK, SpawnOk, Pids, me, TaskRecord
<1>2. [NewTask(next_pid, me.pid, prog) EXCEPT !.pty_id = pty] \in TaskRecord
  BY <1>1, NewTaskType DEF TaskRecord
<1>3. task' \in [Addr -> TaskRecord]
  BY <1>2 DEF SpawnOk, TypeOK
<1>4. ready_queue' \in Seq(Addr)
  BY AddTaskType DEF SpawnOk, TypeOK
<1>5. slave_pid' \in [Ptys -> Pids]
  BY <1>1 DEF SpawnOk, TypeOK
<1> QED BY <1>1, <1>3, <1>4, <1>5 DEF SpawnOk, TypeOK

LEMMA RefusedType ==
    ASSUME TypeOK, NEW a \in Addr, NEW pty, SpawnRefused(a, pty)
    PROVE  TypeOK'
<1>1. slave_pid' \in [Ptys -> Pids]
  BY DetachType DEF SpawnRefused
<1>2. next_pid' \in 1 .. MaxPid + 1
  BY TaskingAssumption DEF SpawnRefused, TypeOK
<1> QED BY <1>1, <1>2 DEF SpawnRefused, TypeOK

LEMMA NoMemoryType == TypeOK /\ SpawnNoMemory => TypeOK'
BY TaskingAssumption DEF SpawnNoMemory, TypeOK

LEMMA ExecType == TypeOK /\ sys_exec => TypeOK'
<1> SUFFICES ASSUME TypeOK, sys_exec PROVE TypeOK' OBVIOUS
<1>1. me.pty_id \in Ptys \cup {NoPty}
  BY DEF TypeOK, TaskRecord, me
<1>2. ASSUME NEW a \in Addr, NEW prog \in Programs, SpawnOk(a, prog, me.pty_id),
             cpu' = [cpu EXCEPT ![a] = Context("user"),
                                ![current_task].pc = "wait",
                                ![current_task].target = next_pid]
      PROVE  TypeOK'
  <2>1. next_pid \in Pids
    BY <1>2, TaskingAssumption DEF TypeOK, SpawnOk, Pids
  <2>2. [cpu EXCEPT ![a] = Context("user")] \in [Addr -> SavedContext]
    BY ContextType DEF TypeOK
  <2> DEFINE g == [cpu EXCEPT ![a] = Context("user")]
  <2>4. cpu' = [g EXCEPT ![current_task].pc = "wait", ![current_task].target = next_pid]
    BY <1>2
  <2> HIDE DEF g
  <2>3. cpu' \in [Addr -> SavedContext]
    BY <2>1, <2>2, <2>4, MoveType DEF TypeOK, g
  <2> QED BY <1>1, <1>2, <2>3, SpawnType
<1> QED BY <1>2, RefusedType, NoMemoryType DEF sys_exec

LEMMA PtySpawnType == TypeOK /\ sys_pty_spawn => TypeOK'
<1> SUFFICES ASSUME TypeOK, sys_pty_spawn PROVE TypeOK' OBVIOUS
<1>1. PICK pty \in open_ptys :
          \/ \E a \in Addr, prog \in Programs :
                /\ SpawnOk(a, prog, pty)
                /\ cpu' = [cpu EXCEPT ![a] = Context("user")]
          \/ \E a \in Addr : SpawnRefused(a, pty)
          \/ SpawnNoMemory
  BY DEF sys_pty_spawn
<1>2. ASSUME NEW a \in Addr, NEW prog \in Programs, SpawnOk(a, prog, pty),
             cpu' = [cpu EXCEPT ![a] = Context("user")]
      PROVE  TypeOK'
  <2>1. cpu' \in [Addr -> SavedContext]
    BY <1>2, ContextType DEF TypeOK
  <2>2. pty \in Ptys \cup {NoPty}
    BY DEF TypeOK
  <2> QED BY <1>2, <2>1, <2>2, SpawnType
<1> QED BY <1>1, <1>2, RefusedType, NoMemoryType

LEMMA ExitType ==
    ASSUME TypeOK, NEW code \in ExitCodes, task_exit(code)
    PROVE  TypeOK'
<1>1. me \in TaskRecord /\ 0 \in Pids
  BY TaskingAssumption DEF TypeOK, me, Pids
<1>2. [me EXCEPT !.pty_id = NoPty, !.exit_code = code,
                 !.reap_blocked = me.parent_pid # 0, !.state = "TERMINATED"] \in TaskRecord
  BY <1>1 DEF TaskRecord
<1>3. \A a \in Addr :
        [task[a] EXCEPT !.parent_pid = 0, !.reap_blocked = FALSE] \in TaskRecord
  BY <1>1 DEF TypeOK, TaskRecord
<1>4. task' \in [Addr -> TaskRecord]
  BY <1>2, <1>3 DEF task_exit, TypeOK
<1>5. slave_pid' \in [Ptys -> Pids] /\ ready_queue' \in Seq(Addr)
  BY DetachType, RemoveType DEF task_exit, TypeOK
<1>6. cpu' \in [Addr -> SavedContext]
  <2>1. cpu' = [cpu EXCEPT ![current_task].pc = "dead"]
    BY Zenon DEF task_exit
  <2>2. cpu \in [Addr -> SavedContext]
    BY DEF TypeOK
  <2> QED BY <2>1, <2>2 DEF SavedContext
<1>7. unclaimed' \subseteq [parent : Pids, child : Pids, code : ExitCodes]
  BY <1>1 DEF task_exit, TypeOK, TaskRecord
<1> QED BY <1>4, <1>5, <1>6, <1>7 DEF task_exit, TypeOK

\* The calls that only move the caller or touch the session table.
LEMMA PlainCallType ==
    ASSUME TypeOK, sys_waitpid \/ sys_pty_open \/ sys_pty_close \/ sys_read \/ sys_sleep
    PROVE  TypeOK'
<1>1. ASSUME sys_waitpid PROVE TypeOK'
  <2>1. PICK target \in {-1} \cup 1 .. MaxPid :
          cpu' = [cpu EXCEPT ![current_task].pc = "wait", ![current_task].target = target]
    BY <1>1 DEF sys_waitpid
  <2>2. target \in {-1} \cup Pids
    BY <2>1, TaskingAssumption DEF Pids
  <2>3. cpu' \in [Addr -> SavedContext]
    BY <2>1, <2>2, MoveType DEF TypeOK
  <2> QED BY <1>1, <2>3 DEF sys_waitpid, TypeOK
<1>2. ASSUME sys_pty_open PROVE TypeOK'
  <2>1. 0 \in Pids
    BY TaskingAssumption DEF Pids
  <2> QED BY <1>2, <2>1 DEF sys_pty_open, TypeOK
<1>3. ASSUME sys_pty_close PROVE TypeOK'
  BY <1>3 DEF sys_pty_close, TypeOK
<1>4. ASSUME sys_read PROVE TypeOK'
  <2>1. task' \in [Addr -> TaskRecord]
    BY <1>4, PreemptFlagType DEF sys_read, TypeOK
  <2>2. cpu' \in [Addr -> SavedContext]
    BY <1>4 DEF sys_read, TypeOK, SavedContext
  <2> QED BY <1>4, <2>1, <2>2 DEF sys_read, TypeOK
<1>5. ASSUME sys_sleep PROVE TypeOK'
  <2>1. cpu' \in [Addr -> SavedContext]
    BY <1>5 DEF sys_sleep, TypeOK, SavedContext
  <2> QED BY <1>5, <2>1 DEF sys_sleep, TypeOK
<1> QED BY <1>1, <1>2, <1>3, <1>4, <1>5

\* The steps inside the kernel.
LEMMA KernelStepType == TypeOK /\ (KernelStep \/ InputArrives) => TypeOK'
<1> SUFFICES ASSUME TypeOK, KernelStep \/ InputArrives PROVE TypeOK' OBVIOUS
<1> USE DEF KernelStep, task_wait_pid
<1>1. ASSUME NEW a \in Addr, NEW b \in BOOLEAN
      PROVE  /\ [task EXCEPT ![a].kernel_preempt_ok = b] \in [Addr -> TaskRecord]
             /\ [task EXCEPT ![a].reap_blocked = b] \in [Addr -> TaskRecord]
  BY PreemptFlagType, ReapFlagType DEF TypeOK
<1>2. ASSUME NEW pc \in {"user", "pick", "destroy", "hlt"}
      PROVE  /\ [cpu EXCEPT ![current_task].pc = pc] \in [Addr -> SavedContext]
             /\ [cpu EXCEPT ![current_task] = Context("user")] \in [Addr -> SavedContext]
  BY ContextType DEF TypeOK, SavedContext
<1>3. CASE WaitEnter
  <2>1. cpu' \in [Addr -> SavedContext]
    BY <1>3, MoveType DEF WaitEnter, TypeOK
  <2> QED BY <1>1, <1>3, <2>1 DEF WaitEnter, TypeOK
<1>4. CASE WaitCollects
  <2>1. PICK child \in ExitedChildren :
          /\ task' = [task EXCEPT ![child].reap_blocked = FALSE]
          /\ unclaimed' \subseteq unclaimed
    BY <1>4 DEF WaitCollects
  <2>2. child \in Addr
    BY <2>1 DEF ExitedChildren, Awaited, Children, TypeOK
  <2>3. task' \in [Addr -> TaskRecord] /\ unclaimed' \subseteq unclaimed
    BY <1>1, <2>1, <2>2
  <2> QED BY <1>2, <1>4, <2>3 DEF WaitCollects, TypeOK
<1>5. CASE WaitFails
  BY <1>1, <1>2, <1>5 DEF WaitFails, TypeOK
<1>6. CASE WaitBlocks
  BY <1>2, <1>6 DEF WaitBlocks, TypeOK
<1>7. CASE ReapPick
  <2>1. PICK v \in tasks :
          cpu' = [cpu EXCEPT ![current_task].pc = "unlink", ![current_task].victim = v]
    BY <1>7 DEF ReapPick
  <2>2. v \in Addr /\ current_task \in Addr /\ cpu \in [Addr -> SavedContext]
    BY DEF TypeOK
  <2>3. cpu' \in [Addr -> SavedContext]
    BY <2>1, <2>2, MoveType
  <2> QED BY <1>7, <2>3 DEF ReapPick, TypeOK
<1>8. CASE ReapUnlink
  BY <1>2, <1>8 DEF ReapUnlink, TypeOK
<1>9. CASE ReapDestroy
  BY <1>2, <1>9, DetachType DEF ReapDestroy, TypeOK
<1>10. CASE WaitReturns
  BY <1>1, <1>2, <1>10 DEF WaitReturns, TypeOK
<1>11. CASE WakeFromHlt
  <2>1. cpu' \in [Addr -> SavedContext]
    BY <1>11, MoveType DEF WakeFromHlt, Woken, TypeOK
  <2> QED BY <1>11, <2>1 DEF WakeFromHlt, TypeOK
<1>12. CASE SleepEnds
  BY <1>2, <1>12 DEF SleepEnds, TypeOK
<1>13. CASE InputArrives
  BY <1>1, <1>2, <1>13 DEF InputArrives, TypeOK
<1> QED
  BY <1>3, <1>4, <1>5, <1>6, <1>7, <1>8, <1>9, <1>10, <1>11, <1>12, <1>13

\* No step of any task, interrupt or system call breaks the types.
LEMMA NextType == TypeOK /\ [Next]_vars => TypeOK'
<1> SUFFICES ASSUME TypeOK, [Next]_vars PROVE TypeOK' OBVIOUS
<1>1. CASE UNCHANGED vars
  BY <1>1 DEF vars, TypeOK
<1>2. CASE Next
  BY <1>2, ScheduleType, ExecType, PtySpawnType, PlainCallType, ExitType, KernelStepType
     DEF Next, UserCall
<1> QED BY <1>1, <1>2

\* Every reachable state of the tasking core is well typed.
THEOREM TaskingTypeCorrect == Spec => []TypeOK
BY InitType, NextType, PTL DEF Spec

-----------------------------------------------------------------------------
(* kernel_preempt_ok.                                                      *)

PreemptiblePcs == {"scan", "hlt", "pick", "unlink", "destroy", "input"}

\* Steps that leave every flag alone and move no task into or out of a wait.
LEMMA FlagsUntouched ==
    ASSUME PreemptOnlyInWaits,
           \A a \in Addr : task'[a].kernel_preempt_ok = task[a].kernel_preempt_ok,
           \A a \in Addr : cpu'[a].pc \in PreemptiblePcs <=> cpu[a].pc \in PreemptiblePcs
    PROVE  PreemptOnlyInWaits'
BY DEF PreemptOnlyInWaits, PreemptiblePcs

\* The scheduler switches tasks without touching kernel_preempt_ok.
LEMMA ScheduleKeepsFlags == TypeOK /\ PreemptOnlyInWaits /\ schedule_from_irq => PreemptOnlyInWaits'
<1> SUFFICES ASSUME TypeOK, PreemptOnlyInWaits, schedule_from_irq PROVE PreemptOnlyInWaits'
  OBVIOUS
<1>1. \A a \in Addr : cpu'[a].pc \in PreemptiblePcs <=> cpu[a].pc \in PreemptiblePcs
  <2>1. CASE here.pc = "hlt"
    BY <2>1 DEF schedule_from_irq, Woken, TypeOK, SavedContext, here, PreemptiblePcs
  <2>2. CASE here.pc # "hlt"
    BY <2>2 DEF schedule_from_irq, Woken
  <2> QED BY <2>1, <2>2
<1>2. \A a \in Addr : task'[a].kernel_preempt_ok = task[a].kernel_preempt_ok
  <2> DEFINE next == Head(ready_queue)
             popped == [task EXCEPT ![next].state = "RUNNING"]
  <2>1. next \in Addr
    BY DEF TypeOK, schedule_from_irq
  <2>2. /\ popped \in [Addr -> TaskRecord]
        /\ \A a \in Addr : popped[a].kernel_preempt_ok = task[a].kernel_preempt_ok
    BY <2>1, SMTT(30) DEF TypeOK, TaskRecord
  <2>3. CASE task' = popped
    BY <2>2, <2>3
  <2>4. CASE task' = [popped EXCEPT ![current_task].state =
                             IF @ = "RUNNING" THEN "READY" ELSE @]
    <3> HIDE DEF popped
    <3> QED BY <2>2, <2>4 DEF TypeOK, TaskRecord
  <2> QED BY <2>3, <2>4 DEF schedule_from_irq
<1> QED BY <1>1, <1>2, FlagsUntouched

\* A step that sets the flag of the current task to b and takes it to a place
\* where the flag should be b.
LEMMA FlagFollows ==
    ASSUME TypeOK, PreemptOnlyInWaits, NEW b \in BOOLEAN,
           task' = [task EXCEPT ![current_task].kernel_preempt_ok = b],
           \A a \in Addr \ {current_task} : cpu'[a].pc = cpu[a].pc,
           cpu'[current_task].pc \in PreemptiblePcs <=> b
    PROVE  PreemptOnlyInWaits'
<1>1. \A a \in Addr : task'[a].kernel_preempt_ok =
                          IF a = current_task THEN b ELSE task[a].kernel_preempt_ok
  BY DEF TypeOK, TaskRecord
<1>2. ASSUME NEW a \in Addr
      PROVE  task'[a].kernel_preempt_ok <=> cpu'[a].pc \in PreemptiblePcs
  BY <1>1 DEF PreemptOnlyInWaits, PreemptiblePcs
<1> QED BY <1>2 DEF PreemptOnlyInWaits, PreemptiblePcs

\* A new task starts in user mode with the flag clear.
LEMMA SpawnKeepsFlags ==
    ASSUME TypeOK, PreemptOnlyInWaits, here.pc = "user",
           NEW a \in Addr, NEW prog, NEW pty, SpawnOk(a, prog, pty),
           \/ cpu' = [cpu EXCEPT ![a] = Context("user")]
           \/ cpu' = [cpu EXCEPT ![a] = Context("user"),
                                 ![current_task].pc = "wait",
                                 ![current_task].target = next_pid]
    PROVE  PreemptOnlyInWaits'
<1>1. \A x \in Addr : task'[x].kernel_preempt_ok =
                          IF x = a THEN FALSE ELSE task[x].kernel_preempt_ok
  BY DEF SpawnOk, TypeOK, NewTask
<1>2. \A x \in Addr : cpu'[x].pc = cpu[x].pc \/ cpu'[x].pc \in {"user", "wait"}
  BY DEF TypeOK, SavedContext, Context
<1>3. cpu'[a].pc \in {"user", "wait"}
  BY DEF TypeOK, SavedContext, Context
<1>4. \A x \in Addr \ {a, current_task} : cpu'[x].pc = cpu[x].pc
  BY DEF TypeOK, SavedContext
<1>5. ~task[current_task].kernel_preempt_ok
  BY DEF PreemptOnlyInWaits, here, TypeOK
<1>6. cpu'[current_task].pc \in {"user", "wait"}
  BY <1>2 DEF here, TypeOK
<1>7. ASSUME NEW x \in Addr
      PROVE  task'[x].kernel_preempt_ok <=> cpu'[x].pc \in PreemptiblePcs
  <2>1. CASE x = a
    BY <1>1, <1>3, <2>1 DEF PreemptiblePcs
  <2>2. CASE x = current_task /\ x # a
    BY <1>1, <1>5, <1>6, <2>2 DEF PreemptiblePcs
  <2>3. CASE x # a /\ x # current_task
    BY <1>1, <1>4, <2>3 DEF PreemptOnlyInWaits, PreemptiblePcs
  <2> QED BY <2>1, <2>2, <2>3
<1> QED BY <1>7 DEF PreemptOnlyInWaits, PreemptiblePcs

\* System calls leave user mode with the flag clear, or set it as they enter
\* terminal_wait_input.
LEMMA CallKeepsFlags == TypeOK /\ PreemptOnlyInWaits /\ UserCall => PreemptOnlyInWaits'
<1> SUFFICES ASSUME TypeOK, PreemptOnlyInWaits, UserCall PROVE PreemptOnlyInWaits'
  OBVIOUS
<1> USE DEF Call
<1>1. CASE sys_exec
  <2>1. CASE \E a \in Addr, prog \in Programs :
             /\ SpawnOk(a, prog, me.pty_id)
             /\ cpu' = [cpu EXCEPT ![a] = Context("user"),
                                   ![current_task].pc = "wait",
                                   ![current_task].target = next_pid]
    BY <1>1, <2>1, SpawnKeepsFlags DEF sys_exec
  <2>2. CASE UNCHANGED <<task, cpu>>
    BY <2>2, FlagsUntouched
  <2> QED BY <1>1, <2>1, <2>2 DEF sys_exec, SpawnRefused, SpawnNoMemory
<1>2. CASE sys_pty_spawn
  <2>1. CASE \E a \in Addr, prog \in Programs, pty \in open_ptys :
             /\ SpawnOk(a, prog, pty)
             /\ cpu' = [cpu EXCEPT ![a] = Context("user")]
    BY <1>2, <2>1, SpawnKeepsFlags DEF sys_pty_spawn
  <2>2. CASE UNCHANGED <<task, cpu>>
    BY <2>2, FlagsUntouched
  <2> QED BY <1>2, <2>1, <2>2 DEF sys_pty_spawn, SpawnRefused, SpawnNoMemory
<1>3. CASE sys_waitpid
  <2>1. \A a \in Addr : cpu'[a].pc \in PreemptiblePcs <=> cpu[a].pc \in PreemptiblePcs
    BY <1>3 DEF sys_waitpid, TypeOK, SavedContext, here, PreemptiblePcs
  <2> QED BY <1>3, <2>1, FlagsUntouched DEF sys_waitpid
<1>4. CASE sys_pty_open \/ sys_pty_close
  BY <1>4, FlagsUntouched DEF sys_pty_open, sys_pty_close
<1>5. CASE sys_read
  <2>1. /\ cpu'[current_task].pc = "input"
        /\ \A a \in Addr \ {current_task} : cpu'[a].pc = cpu[a].pc
    BY <1>5 DEF sys_read, TypeOK, SavedContext
  <2> QED BY <1>5, <2>1, FlagFollows DEF sys_read, PreemptiblePcs
<1>6. CASE sys_sleep
  <2>1. \A a \in Addr : cpu'[a].pc \in PreemptiblePcs <=> cpu[a].pc \in PreemptiblePcs
    BY <1>6 DEF sys_sleep, TypeOK, SavedContext, here, PreemptiblePcs
  <2> QED BY <1>6, <2>1, FlagsUntouched DEF sys_sleep
<1>7. CASE \E code \in ExitCodes : task_exit(code)
  <2>1. PICK code \in ExitCodes : task_exit(code)
    BY <1>7
  <2>2. \A a \in Addr : cpu'[a].pc \in PreemptiblePcs <=> cpu[a].pc \in PreemptiblePcs
    BY <2>1 DEF task_exit, TypeOK, SavedContext, here, PreemptiblePcs
  <2>3. ASSUME NEW a \in Addr
        PROVE  task'[a].kernel_preempt_ok = task[a].kernel_preempt_ok
    <3>1. task[a] \in TaskRecord
      BY DEF TypeOK
    <3>2. CASE a = current_task
      BY <2>1, <3>1, <3>2 DEF task_exit, TaskRecord, me
    <3>3. CASE a # current_task
      BY <2>1, <3>1, <3>3 DEF task_exit, TaskRecord
    <3> QED BY <3>2, <3>3
  <2> QED BY <2>2, <2>3, FlagsUntouched
<1> QED BY <1>1, <1>2, <1>3, <1>4, <1>5, <1>6, <1>7 DEF UserCall

\* Inside the kernel the flag is set on entry to task_wait_pid and cleared on
\* each of its returns and when input has arrived.
LEMMA KernelStepKeepsFlags ==
    TypeOK /\ PreemptOnlyInWaits /\ (KernelStep \/ InputArrives) => PreemptOnlyInWaits'
<1> SUFFICES ASSUME TypeOK, PreemptOnlyInWaits, KernelStep \/ InputArrives
             PROVE  PreemptOnlyInWaits'
  OBVIOUS
<1> USE DEF KernelStep, task_wait_pid
<1>1. CASE WaitEnter
  <2>1. /\ cpu'[current_task].pc = "scan"
        /\ \A a \in Addr \ {current_task} : cpu'[a].pc = cpu[a].pc
    BY <1>1 DEF WaitEnter, TypeOK, SavedContext
  <2> QED BY <1>1, <2>1, FlagFollows DEF WaitEnter, PreemptiblePcs
<1>2. CASE WaitFails \/ WaitReturns
  <2>1. /\ cpu'[current_task].pc = "user"
        /\ \A a \in Addr \ {current_task} : cpu'[a].pc = cpu[a].pc
    BY <1>2 DEF WaitFails, WaitReturns, TypeOK, Context
  <2> QED BY <1>2, <2>1, FlagFollows DEF WaitFails, WaitReturns, PreemptiblePcs
<1>3. CASE InputArrives
  <2>1. /\ cpu'[current_task].pc = "user"
        /\ \A a \in Addr \ {current_task} : cpu'[a].pc = cpu[a].pc
    BY <1>3 DEF InputArrives, TypeOK, SavedContext
  <2> QED BY <1>3, <2>1, FlagFollows DEF InputArrives, PreemptiblePcs
<1>4. CASE WaitCollects
  <2>1. \A a \in Addr : cpu'[a].pc \in PreemptiblePcs <=> cpu[a].pc \in PreemptiblePcs
    BY <1>4 DEF WaitCollects, TypeOK, SavedContext, here, PreemptiblePcs
  <2>2. \A a \in Addr : task'[a].kernel_preempt_ok = task[a].kernel_preempt_ok
    BY <1>4 DEF WaitCollects, TypeOK, TaskRecord
  <2> QED BY <2>1, <2>2, FlagsUntouched
<1>5. CASE WaitBlocks \/ ReapPick \/ ReapUnlink \/ ReapDestroy
  <2>1. \A a \in Addr : cpu'[a].pc \in PreemptiblePcs <=> cpu[a].pc \in PreemptiblePcs
    <3> USE DEF TypeOK, SavedContext, here, PreemptiblePcs
    <3>1. CASE WaitBlocks
      BY <3>1 DEF WaitBlocks
    <3>2. CASE ReapPick
      <4>1. PICK v \in tasks : cpu' = [cpu EXCEPT ![current_task].pc = "unlink",
                                                 ![current_task].victim = v]
        BY <3>2 DEF ReapPick
      <4>2. cpu[current_task].pc = "pick"
        BY <3>2 DEF ReapPick
      <4> QED BY <4>1, <4>2
    <3>3. CASE ReapUnlink
      <4>1. PICK pc \in {"destroy", "pick"} : cpu' = [cpu EXCEPT ![current_task].pc = pc]
        BY <3>3 DEF ReapUnlink
      <4>2. cpu[current_task].pc = "unlink"
        BY <3>3 DEF ReapUnlink
      <4> QED BY <4>1, <4>2
    <3>4. CASE ReapDestroy
      BY <3>4 DEF ReapDestroy
    <3> QED BY <1>5, <3>1, <3>2, <3>3, <3>4
  <2> QED BY <1>5, <2>1, FlagsUntouched DEF WaitBlocks, ReapPick, ReapUnlink, ReapDestroy
<1>6. CASE SleepEnds
  <2>1. \A a \in Addr : cpu'[a].pc \in PreemptiblePcs <=> cpu[a].pc \in PreemptiblePcs
    BY <1>6 DEF SleepEnds, TypeOK, SavedContext, here, PreemptiblePcs
  <2> QED BY <1>6, <2>1, FlagsUntouched DEF SleepEnds
<1>7. CASE WakeFromHlt
  <2>1. cpu' = [cpu EXCEPT ![current_task].pc = "scan", ![current_task].intr = FALSE]
    BY <1>7 DEF WakeFromHlt, Woken
  <2>2. cpu[current_task].pc = "hlt"
    BY <1>7 DEF WakeFromHlt, here
  <2>3. \A a \in Addr : cpu'[a].pc \in PreemptiblePcs <=> cpu[a].pc \in PreemptiblePcs
    BY <2>1, <2>2 DEF TypeOK, SavedContext, PreemptiblePcs
  <2> QED BY <1>7, <2>3, FlagsUntouched DEF WakeFromHlt
<1> QED BY <1>1, <1>2, <1>3, <1>4, <1>5, <1>6, <1>7

\* Whatever the programs do, kernel_preempt_ok is set exactly while a task is
\* inside task_wait_pid or terminal_wait_input: every other system call runs
\* to its end before another task gets the CPU.
THEOREM PreemptFlagScoped == Spec => []PreemptOnlyInWaits
<1>1. Init => PreemptOnlyInWaits
  <2> SUFFICES ASSUME Init, NEW a \in Addr
               PROVE  ~task[a].kernel_preempt_ok /\ cpu[a].pc \in {"idle", "user"}
    BY DEF PreemptOnlyInWaits
  <2>1. task[a].kernel_preempt_ok = FALSE
    <3>1. CASE a = Idle
      BY <3>1 DEF Init, NewTask
    <3>2. CASE a # Idle
      BY <3>2 DEF Init, NewTask
    <3> QED BY <3>1, <3>2
  <2>2. cpu[a].pc = IF a = Idle THEN "idle" ELSE "user"
    BY DEF Init, Context
  <2> QED BY <2>1, <2>2
<1>2. TypeOK /\ PreemptOnlyInWaits /\ [Next]_vars => PreemptOnlyInWaits'
  <2> SUFFICES ASSUME TypeOK, PreemptOnlyInWaits, [Next]_vars PROVE PreemptOnlyInWaits'
    OBVIOUS
  <2>1. CASE UNCHANGED vars
    BY <2>1, FlagsUntouched DEF vars
  <2>2. CASE Next
    BY <2>2, ScheduleKeepsFlags, CallKeepsFlags, KernelStepKeepsFlags DEF Next
  <2> QED BY <2>1, <2>2
<1> QED BY TaskingTypeCorrect, <1>1, <1>2, PTL DEF Spec

-----------------------------------------------------------------------------
(* What tasks, queue, statuses and PTYs promise one another.  The reaper   *)
(* gives interrupts a chance between its choice of a victim and the        *)
(* unlinking (task.c: two critical sections), so two reapers may choose    *)
(* the same task; when the memory of a task_t freed in between is given to *)
(* a new task, the second reaper unlinks and frees a live task.  The       *)
(* theorems say that nothing else goes wrong: in every behaviour in which  *)
(* that does not happen, the invariants hold.                              *)

\* A task_t whose address a reaper has picked, in task_reap_terminated, but not
\* yet unlinked, was freed by another reaper, and its memory is handed out again.
VictimReused ==
    \E a \in heap' \ heap, b \in Addr : cpu[b].pc = "unlink" /\ cpu[b].victim = a

Dead(a) == task[a].state = "TERMINATED"

KernelPcs == {"wait", "scan", "hlt", "pick", "unlink", "destroy", "input", "busy"}

\* The boot task, which never ends.
IdleSound ==
    /\ Idle \in tasks /\ cpu[Idle].pc = "idle" /\ ~Dead(Idle)
    /\ task[Idle].pid = 0 /\ task[Idle].parent_pid = 0 /\ task[Idle].pty_id = NoPty

\* A user task and the memory at its address.
UserSound(a) ==
    /\ a \in heap =>
          /\ task[a].pid \in 1 .. next_pid - 1 /\ task[a].parent_pid < task[a].pid
          /\ cpu[a].pc # "idle" /\ (Dead(a) <=> cpu[a].pc = "dead")
          /\ Dead(a) => task[a].pty_id = NoPty
          /\ a \notin tasks => Dead(a)
    /\ a \notin heap => cpu[a].pc \notin KernelPcs

PidsDiffer == \A a, b \in heap : task[a].pid = task[b].pid => a = b

PlacesSound ==
    /\ IdleSound /\ tasks \subseteq heap /\ current_task \in tasks /\ PidsDiffer
    /\ \A a \in Addr \ {Idle} : UserSound(a)

\* Who has the CPU is not in the queue, and will be put back.
QueueSound ==
    /\ RunnableQueuedOnce
    /\ Alive(current_task) /\ current_task # Idle => me.state = "RUNNING"
    /\ current_task = Idle => Positions(ready_queue, Idle) = {}

\* What a reaper has chosen stays dead; only one of them can have unlinked it.
ReaperSound(b) ==
    LET v == cpu[b].victim
    IN  /\ cpu[b].pc = "unlink" =>
              /\ v \in Addr \ {Idle} /\ Dead(v) /\ v # current_task
              /\ ~task[v].reap_blocked
        /\ cpu[b].pc = "destroy" => v \in heap \ tasks

ReapersSound ==
    /\ \A b \in Addr : ReaperSound(b)
    /\ \A b, c \in Addr : /\ cpu[b].pc = "destroy" /\ cpu[c].pc = "destroy"
                          /\ cpu[b].victim = cpu[c].victim
                          => b = c

\* The status of a task that has exited is either unclaimed or its parent is
\* about to reap it.
StatusOf(a) == [parent |-> task[a].parent_pid, child |-> task[a].pid, code |-> task[a].exit_code]

StatusSound(a) ==
    Dead(a) =>
        /\ task[a].reap_blocked => task[a].parent_pid # 0 /\ StatusOf(a) \in unclaimed
        /\ ~task[a].reap_blocked /\ task[a].parent_pid # 0 =>
              \E b \in tasks : task[b].pid = task[a].parent_pid
                               /\ cpu[b].pc \in {"pick", "unlink", "destroy"}

StatusesSound == ZombieKeptForParent /\ \A a \in tasks : StatusSound(a)

IInv ==
    /\ TypeOK /\ PlacesSound /\ QueueSound /\ ReapersSound /\ StatusesSound
    /\ PtyBoundToLiveTask

-----------------------------------------------------------------------------
(* The queue's contents.                                                   *)

Once(q) == \A i, j \in 1 .. Len(q) : q[i] = q[j] => i = j

LEMMA QueuedIs ==
    ASSUME NEW q, NEW a
    PROVE  Positions(q, a) # {} <=> \E i \in 1 .. Len(q) : q[i] = a
BY DEF Positions

\* The head leaves.
LEMMA TailHolds ==
    ASSUME NEW q \in Seq(Addr), q # <<>>, Once(q)
    PROVE  /\ Head(q) \in Addr /\ Tail(q) \in Seq(Addr) /\ Once(Tail(q))
           /\ Positions(Tail(q), Head(q)) = {} /\ Positions(q, Head(q)) # {}
           /\ \A b : b # Head(q) => (Positions(Tail(q), b) # {} <=> Positions(q, b) # {})
<1>1. /\ Head(q) \in Addr /\ Tail(q) \in Seq(Addr) /\ Head(q) = q[1]
      /\ Len(q) \in Nat \ {0} /\ Len(Tail(q)) = Len(q) - 1
      /\ \A i \in 1 .. Len(Tail(q)) : Tail(q)[i] = q[i + 1]
  BY HeadTailProperties
<1> DEFINE t == Tail(q)
           h == Head(q)
           n == Len(q)
<1>2. /\ n \in Nat \ {0} /\ Len(t) = n - 1 /\ h = q[1]
      /\ \A i \in 1 .. n - 1 : t[i] = q[i + 1]
  BY <1>1
<1>3. \A i, j \in 1 .. n : q[i] = q[j] => i = j
  BY DEF Once
<1> HIDE DEF t, h, n
<1>4. Once(t)
  BY <1>2, <1>3 DEF Once
<1>5. Positions(t, h) = {}
  <2> SUFFICES ASSUME NEW i \in 1 .. n - 1, t[i] = h PROVE FALSE
    BY <1>2 DEF Positions
  <2>1. i + 1 \in 1 .. n /\ 1 \in 1 .. n /\ i + 1 # 1
    BY <1>2
  <2> QED BY <1>2, <1>3, <2>1
<1>6. Positions(q, h) # {}
  BY <1>2 DEF Positions, n
<1>7. ASSUME NEW b, b # h
      PROVE  Positions(t, b) # {} <=> Positions(q, b) # {}
  <2>1. ASSUME NEW i \in 1 .. n - 1, t[i] = b PROVE \E j \in 1 .. n : q[j] = b
    <3>1. i + 1 \in 1 .. n
      BY <1>2
    <3> QED BY <1>2, <2>1, <3>1
  <2>2. ASSUME NEW j \in 1 .. n, q[j] = b PROVE \E i \in 1 .. n - 1 : t[i] = b
    <3>1. j # 1
      BY <1>2, <1>7, <2>2
    <3>2. j - 1 \in 1 .. n - 1 /\ (j - 1) + 1 = j
      BY <1>2, <3>1
    <3> QED BY <1>2, <2>2, <3>2
  <2> QED BY <1>2, <2>1, <2>2 DEF Positions, n
<1> QED BY <1>1, <1>4, <1>5, <1>6, <1>7 DEF t, h

\* A task that is not queued is, once, after scheduler_add_task; nothing else changes.
LEMMA EnqueueHolds ==
    ASSUME NEW q \in Seq(Addr), NEW a \in Addr, Once(q), Positions(q, a) = {}
    PROVE  /\ Once(Enqueue(q, a)) /\ Positions(Enqueue(q, a), a) # {}
           /\ \A b : b # a => (Positions(Enqueue(q, a), b) # {} <=> Positions(q, b) # {})
<1> DEFINE n == Len(q)
           r == Enqueue(q, a)
<1>1. n \in Nat /\ (\A i, j \in 1 .. n : q[i] = q[j] => i = j) /\ \A i \in 1 .. n : q[i] # a
  BY DEF Once, Positions
<1>2. \E k \in 1 .. n + 1 :
         /\ Len(r) = n + 1 /\ r[k] = a
         /\ \A i \in 1 .. k - 1 : r[i] = q[i]
         /\ \A i \in k + 1 .. n + 1 : r[i] = q[i - 1]
  <2>1. CASE Lower(q, a) = {}
    <3>1. r = Append(q, a)
      BY <2>1 DEF Enqueue
    <3>2. Len(r) = n + 1 /\ r[n + 1] = a /\ \A i \in 1 .. n : r[i] = q[i]
      BY <3>1, AppendProperties
    <3> WITNESS n + 1 \in 1 .. n + 1
    <3> QED BY <1>1, <3>2
  <2>2. CASE Lower(q, a) # {}
    <3> DEFINE k == First(Lower(q, a))
    <3>1. k \in 1 .. n
      <4>1. Lower(q, a) \in SUBSET Nat /\ Lower(q, a) \subseteq 1 .. n
        BY DEF Lower
      <4> QED BY <2>2, <4>1, FirstIsLeast
    <3> HIDE DEF k
    <3> DEFINE s == SubSeq(q, 1, k - 1)
               t == SubSeq(q, k, n)
               u == s \o <<a>>
    <3>2. r = u \o t
      BY <2>2 DEF Enqueue, InsertBefore, k
    <3> HIDE DEF r
    <3>3. /\ s \in Seq(Addr) /\ Len(s) = k - 1 /\ \A i \in 1 .. k - 1 : s[i] = q[i]
      <4>1. k - 1 \in 0 .. n
        BY <1>1, <3>1
      <4>2. /\ s \in Seq(Addr)
            /\ Len(s) = IF 1 <= k - 1 THEN (k - 1) - 1 + 1 ELSE 0
            /\ \A i \in 1 .. (k - 1) - 1 + 1 : s[i] = q[1 + i - 1]
        BY <1>1, <4>1, SubSeqProperties
      <4> QED BY <1>1, <3>1, <4>2
    <3>4. /\ t \in Seq(Addr) /\ Len(t) = n - k + 1
          /\ \A i \in 1 .. n - k + 1 : t[i] = q[k + i - 1]
      BY <1>1, <3>1, SubSeqProperties
    <3> HIDE DEF s, t
    <3>5. /\ u \in Seq(Addr) /\ Len(u) = k /\ u[k] = a
          /\ \A i \in 1 .. k - 1 : u[i] = q[i]
      <4>1. <<a>> \in Seq(Addr) /\ Len(<<a>>) = 1 /\ <<a>>[1] = a
        OBVIOUS
      <4>2. /\ u \in Seq(Addr) /\ Len(u) = Len(s) + 1
            /\ \A i \in 1 .. Len(u) : u[i] = IF i <= Len(s) THEN s[i] ELSE <<a>>[i - Len(s)]
        BY <3>3, <4>1, ConcatProperties
      <4> QED BY <1>1, <3>1, <3>3, <4>1, <4>2
    <3> HIDE DEF u
    <3>6. /\ Len(r) = Len(u) + Len(t)
          /\ \A i \in 1 .. Len(r) : r[i] = IF i <= Len(u) THEN u[i] ELSE t[i - Len(u)]
      <4>1. u \in Seq(Addr) /\ t \in Seq(Addr)
        BY <3>4, <3>5
      <4>2. /\ Len(u \o t) = Len(u) + Len(t)
            /\ \A i \in 1 .. Len(u) + Len(t) :
                  (u \o t)[i] = IF i <= Len(u) THEN u[i] ELSE t[i - Len(u)]
        BY <4>1, ConcatProperties
      <4> QED BY <3>2, <4>2
    <3>7. /\ Len(r) = n + 1 /\ r[k] = a
          /\ \A i \in 1 .. k - 1 : r[i] = q[i]
      BY <1>1, <3>1, <3>4, <3>5, <3>6
    <3>8. ASSUME NEW i \in k + 1 .. n + 1 PROVE r[i] = q[i - 1]
      <4>1. i - k \in 1 .. n - k + 1 /\ i \in 1 .. n + 1 /\ ~(i <= k) /\ k + (i - k) - 1 = i - 1
        BY <1>1, <3>1
      <4> QED BY <3>4, <3>5, <3>6, <3>7, <4>1
    <3>9. k \in 1 .. n + 1
      BY <1>1, <3>1
    <3> QED BY <3>7, <3>8, <3>9 DEF r
  <2> QED BY <2>1, <2>2
<1>3. PICK k \in 1 .. n + 1 :
         /\ Len(r) = n + 1 /\ r[k] = a
         /\ \A i \in 1 .. k - 1 : r[i] = q[i]
         /\ \A i \in k + 1 .. n + 1 : r[i] = q[i - 1]
  BY <1>2
<1> HIDE DEF n, r
<1>4. \A i \in 1 .. n + 1 : i # k =>
         \E j \in 1 .. n : r[i] = q[j] /\ j = (IF i < k THEN i ELSE i - 1)
  <2> SUFFICES ASSUME NEW i \in 1 .. n + 1, i # k
               PROVE  \E j \in 1 .. n : r[i] = q[j] /\ j = (IF i < k THEN i ELSE i - 1)
    OBVIOUS
  <2>1. CASE i < k
    <3>1. i \in 1 .. n /\ i \in 1 .. k - 1
      BY <1>1, <2>1
    <3> QED BY <1>3, <2>1, <3>1
  <2>2. CASE ~(i < k)
    <3>1. i - 1 \in 1 .. n /\ i \in k + 1 .. n + 1
      BY <1>1, <2>2
    <3> QED BY <1>3, <2>2, <3>1
  <2> QED BY <2>1, <2>2
<1>5. Once(r)
  <2> SUFFICES ASSUME NEW i \in 1 .. n + 1, NEW j \in 1 .. n + 1, r[i] = r[j] PROVE i = j
    BY <1>3 DEF Once
  <2>1. CASE i = k \/ j = k
    BY <1>1, <1>3, <1>4, <2>1
  <2>2. CASE i # k /\ j # k
    <3>1. PICK x \in 1 .. n : r[i] = q[x] /\ x = (IF i < k THEN i ELSE i - 1)
      BY <1>4, <2>2
    <3>2. PICK y \in 1 .. n : r[j] = q[y] /\ y = (IF j < k THEN j ELSE j - 1)
      BY <1>4, <2>2
    <3>3. x = y
      BY <1>1, <3>1, <3>2
    <3> QED BY <1>1, <2>2, <3>1, <3>2, <3>3
  <2> QED BY <2>1, <2>2
<1>6. Positions(r, a) # {}
  BY <1>3 DEF Positions
<1>7. ASSUME NEW b, b # a
      PROVE  Positions(r, b) # {} <=> Positions(q, b) # {}
  <2>1. ASSUME NEW i \in 1 .. n + 1, r[i] = b PROVE \E j \in 1 .. n : q[j] = b
    BY <1>3, <1>4, <1>7, <2>1
  <2>2. ASSUME NEW j \in 1 .. n, q[j] = b PROVE \E i \in 1 .. n + 1 : r[i] = b
    <3>1. CASE j < k
      <4>1. j \in 1 .. k - 1 /\ j \in 1 .. n + 1
        BY <1>1, <3>1
      <4> QED BY <1>3, <2>2, <4>1
    <3>2. CASE ~(j < k)
      <4>1. j + 1 \in k + 1 .. n + 1 /\ (j + 1) - 1 = j /\ j + 1 \in 1 .. n + 1
        BY <1>1, <3>2
      <4> QED BY <1>3, <2>2, <4>1
    <3> QED BY <3>1, <3>2
  <2> QED BY <1>3, <2>1, <2>2 DEF Positions, n
<1> QED BY <1>5, <1>6, <1>7 DEF r

-----------------------------------------------------------------------------
(* Steps that move the current task or change only the PTY table.          *)

\* What a task_t says, but for kernel_preempt_ok.
SameTask(a) ==
    /\ task'[a].pid = task[a].pid /\ task'[a].parent_pid = task[a].parent_pid
    /\ task'[a].state = task[a].state /\ task'[a].pty_id = task[a].pty_id
    /\ task'[a].reap_blocked = task[a].reap_blocked /\ task'[a].exit_code = task[a].exit_code

SameTasks == \A a \in Addr : SameTask(a)

LEMMA FlagIsApart ==
    ASSUME TypeOK, NEW a \in Addr, NEW b \in BOOLEAN,
           task' = [task EXCEPT ![a].kernel_preempt_ok = b]
    PROVE  SameTasks
BY DEF SameTasks, SameTask, TypeOK, TaskRecord

LEMMA TasksRest == UNCHANGED task => SameTasks
BY DEF SameTasks, SameTask

LEMMA PtyRests ==
    ASSUME TypeOK, PtyBoundToLiveTask, SameTasks, UNCHANGED <<tasks, open_ptys, slave_pid>>
    PROVE  PtyBoundToLiveTask'
<1>1. tasks \subseteq Addr
  BY DEF TypeOK
<1>2. \A a \in tasks : SameTask(a)
  BY <1>1 DEF SameTasks
<1> QED BY <1>2 DEF PtyBoundToLiveTask, Alive, SameTask

\* The task that runs in user mode or in a system call.
LEMMA CurrentIs ==
    ASSUME IInv
    PROVE  /\ current_task \in tasks /\ tasks \subseteq heap /\ heap \subseteq Addr
           /\ Idle \in tasks /\ current_task \in Addr
           /\ here.pc \in {"user"} \cup KernelPcs =>
                 /\ current_task # Idle /\ ~Dead(current_task) /\ Alive(current_task)
                 /\ me.pid \in 1 .. next_pid - 1 /\ me.parent_pid < me.pid
                 /\ me.state = "RUNNING"
<1>1. /\ current_task \in tasks /\ tasks \subseteq heap /\ heap \subseteq Addr
      /\ Idle \in tasks /\ current_task \in Addr
  BY DEF IInv, PlacesSound, IdleSound, TypeOK
<1>2. ASSUME here.pc \in {"user"} \cup KernelPcs
      PROVE  /\ current_task # Idle /\ ~Dead(current_task)
             /\ me.pid \in 1 .. next_pid - 1 /\ me.parent_pid < me.pid
  <2>1. current_task # Idle
    BY <1>2 DEF IInv, PlacesSound, IdleSound, here, KernelPcs
  <2>2. UserSound(current_task)
    BY <1>1, <2>1 DEF IInv, PlacesSound
  <2> QED BY <1>1, <1>2, <2>1, <2>2 DEF UserSound, here, me, KernelPcs
<1>3. here.pc \in {"user"} \cup KernelPcs => Alive(current_task)
  BY <1>1, <1>2 DEF Alive, Dead
<1>4. here.pc \in {"user"} \cup KernelPcs => me.state = "RUNNING"
  BY <1>2, <1>3 DEF IInv, QueueSound
<1> QED BY <1>1, <1>2, <1>3, <1>4

Reaping == {"pick", "unlink", "destroy"}

\* The current task moves on, inside a call or out of it.
LEMMA MoveKeeps ==
    ASSUME IInv, TypeOK', SameTasks, PtyBoundToLiveTask',
           UNCHANGED <<heap, tasks, ready_queue, current_task, unclaimed>>,
           next_pid' >= next_pid,
           \A a \in Addr \ {current_task} : cpu'[a] = cpu[a],
           here.pc \in {"user"} \cup KernelPcs,
           cpu'[current_task].pc \in ({"user"} \cup KernelPcs) \ {"destroy"},
           cpu'[current_task].pc = "unlink" =>
               \/ cpu'[current_task].victim \in tasks
                  /\ Reapable(cpu'[current_task].victim, task)
               \/ here.pc = "unlink" /\ cpu'[current_task].victim = here.victim,
           \/ here.pc \notin Reaping
           \/ cpu'[current_task].pc \in Reaping
           \/ {a \in tasks : Reapable(a, task)} = {}
    PROVE  IInv'
<1> DEFINE c == current_task
<1>1. /\ c \in tasks /\ tasks \subseteq heap /\ heap \subseteq Addr /\ Idle \in tasks /\ c \in Addr
      /\ c # Idle /\ ~Dead(c) /\ Alive(c)
  BY CurrentIs
<1>2. \A a \in Addr : SameTask(a)
  BY DEF SameTasks
<1>3. next_pid \in Nat /\ next_pid' \in Nat
  BY DEF IInv, TypeOK
<1>4. PlacesSound'
  <2>1. IdleSound'
    BY <1>1, <1>2 DEF IInv, PlacesSound, IdleSound, SameTask, Dead
  <2>2. PidsDiffer'
    BY <1>1, <1>2 DEF IInv, PlacesSound, PidsDiffer, SameTask
  <2>3. ASSUME NEW a \in Addr \ {Idle} PROVE UserSound(a)'
    <3>1. UserSound(a)
      BY DEF IInv, PlacesSound
    <3>2. task[a].pid \in 1 .. next_pid - 1 => task[a].pid \in 1 .. next_pid' - 1
      BY <1>3
    <3>3. CASE a = c
      BY <1>1, <1>2, <3>1, <3>2, <3>3 DEF UserSound, SameTask, Dead, KernelPcs, here
    <3>4. CASE a # c
      BY <1>2, <3>1, <3>2, <3>4 DEF UserSound, SameTask, Dead
    <3> QED BY <3>3, <3>4
  <2> QED BY <1>1, <2>1, <2>2, <2>3 DEF PlacesSound
<1>5. QueueSound'
  <2>1. \A a \in Addr : Alive(a)' <=> Alive(a)
    BY <1>2 DEF Alive, SameTask
  <2>2. RunnableQueuedOnce'
    BY <2>1 DEF IInv, QueueSound, RunnableQueuedOnce
  <2> QED BY <1>1, <1>2, <2>1, <2>2 DEF IInv, QueueSound, SameTask, me
<1>6. ReapersSound'
  <2>1. ASSUME NEW b \in Addr PROVE ReaperSound(b)'
    <3>1. ReaperSound(b)
      BY DEF IInv, ReapersSound
    <3>2. CASE b # c
      BY <1>2, <3>1, <3>2 DEF ReaperSound, SameTask, Dead
    <3>3. CASE b = c
      <4>1. ASSUME cpu'[c].pc = "unlink"
            PROVE  /\ cpu'[c].victim \in Addr \ {Idle} /\ Dead(cpu'[c].victim)
                   /\ cpu'[c].victim # c /\ ~task[cpu'[c].victim].reap_blocked
        <5>1. CASE here.pc = "unlink" /\ cpu'[c].victim = here.victim
          BY <3>1, <3>3, <5>1 DEF ReaperSound, here
        <5>2. CASE cpu'[c].victim \in tasks /\ Reapable(cpu'[c].victim, task)
          <6>1. ~Dead(Idle)
            BY DEF IInv, PlacesSound, IdleSound
          <6> QED BY <1>1, <5>2, <6>1 DEF Reapable, Dead
        <5> QED BY <4>1, <5>1, <5>2
      <4>2. cpu'[c].pc # "destroy"
        OBVIOUS
      <4> QED BY <1>2, <3>3, <4>1, <4>2 DEF ReaperSound, SameTask, Dead
    <3> QED BY <3>2, <3>3
  <2>2. \A b, d \in Addr : /\ cpu'[b].pc = "destroy" /\ cpu'[d].pc = "destroy"
                           /\ cpu'[b].victim = cpu'[d].victim
                           => b = d
    <3>1. \A b \in Addr : cpu'[b].pc = "destroy" => cpu'[b] = cpu[b]
      OBVIOUS
    <3> QED BY <3>1 DEF IInv, ReapersSound
  <2> QED BY <2>1, <2>2 DEF ReapersSound
<1>7. StatusesSound'
  <2>1. ZombieKeptForParent'
    <3>1. \A a \in tasks : SameTask(a)
      BY <1>1, <1>2
    <3> QED BY <3>1 DEF IInv, StatusesSound, ZombieKeptForParent, Alive, SameTask
  <2>2. ASSUME NEW a \in tasks PROVE StatusSound(a)'
    <3>1. StatusSound(a) /\ SameTask(a)
      BY <1>1, <1>2 DEF IInv, StatusesSound
    <3>2. StatusOf(a)' = StatusOf(a)
      BY <3>1 DEF StatusOf, SameTask
    <3>3. ASSUME Dead(a), ~task[a].reap_blocked, task[a].parent_pid # 0
          PROVE  \E b \in tasks : task'[b].pid = task[a].parent_pid /\ cpu'[b].pc \in Reaping
      <4>1. PICK b \in tasks : task[b].pid = task[a].parent_pid /\ cpu[b].pc \in Reaping
        BY <3>1, <3>3 DEF StatusSound, Reaping
      <4>2. task'[b].pid = task[b].pid
        BY <1>1, <1>2 DEF SameTask
      <4>3. cpu'[b].pc \in Reaping
        <5>1. CASE b # c
          BY <1>1, <4>1, <5>1
        <5>2. CASE b = c
          <6>1. a # c
            BY <1>1, <3>3
          <6>2. Reapable(a, task)
            BY <3>3, <6>1 DEF Reapable, Dead
          <6> QED BY <4>1, <5>2, <6>2 DEF here
        <5> QED BY <5>1, <5>2
      <4> QED BY <4>1, <4>2, <4>3
    <3> QED BY <3>1, <3>2, <3>3 DEF StatusSound, SameTask, Dead, Reaping
  <2> QED BY <2>1, <2>2 DEF StatusesSound
<1> QED BY <1>4, <1>5, <1>6, <1>7 DEF IInv

\* A call that is entered, goes on or returns.
LEMMA CallsMove ==
    ASSUME IInv, TypeOK',
           \/ sys_waitpid \/ sys_read \/ sys_sleep \/ InputArrives \/ SleepEnds
           \/ WaitEnter \/ WaitFails \/ WaitBlocks \/ WakeFromHlt \/ WaitReturns \/ ReapPick
    PROVE  IInv'
<1> DEFINE c == current_task
           Quietly == UNCHANGED <<heap, tasks, ready_queue, current_task, next_pid, open_ptys,
                                  slave_pid, unclaimed>>
<1>1. /\ TypeOK /\ cpu \in [Addr -> SavedContext] /\ c \in Addr
      /\ task \in [Addr -> TaskRecord] /\ next_pid \in Nat
  BY DEF IInv, TypeOK
<1>2. ASSUME SameTasks, Quietly, \A a \in Addr \ {c} : cpu'[a] = cpu[a],
             here.pc \in {"user"} \cup KernelPcs, here.pc \notin Reaping,
             cpu'[c].pc \in ({"user"} \cup KernelPcs) \ {"destroy", "unlink"}
      PROVE  IInv'
  <2>1. PtyBoundToLiveTask'
    BY <1>1, <1>2, PtyRests DEF IInv
  <2> QED BY <1>1, <1>2, <2>1, MoveKeeps
<1>3. ASSUME UNCHANGED task \/ \E b \in BOOLEAN : task' = [task EXCEPT ![c].kernel_preempt_ok = b]
      PROVE  SameTasks
  BY <1>1, <1>3, FlagIsApart, TasksRest
<1>4. CASE sys_waitpid
  <2>1. cpu'[c].pc = "wait" /\ (\A a \in Addr \ {c} : cpu'[a] = cpu[a]) /\ here.pc = "user"
    BY <1>1, <1>4 DEF sys_waitpid, Call, SavedContext
  <2> QED BY <1>2, <1>3, <1>4, <2>1 DEF sys_waitpid, KernelPcs, Reaping
<1>5. CASE sys_read
  <2>1. cpu'[c].pc = "input" /\ (\A a \in Addr \ {c} : cpu'[a] = cpu[a]) /\ here.pc = "user"
    BY <1>1, <1>5 DEF sys_read, Call, SavedContext
  <2> QED BY <1>2, <1>3, <1>5, <2>1 DEF sys_read, KernelPcs, Reaping
<1>6. CASE sys_sleep
  <2>1. cpu'[c].pc = "busy" /\ (\A a \in Addr \ {c} : cpu'[a] = cpu[a]) /\ here.pc = "user"
    BY <1>1, <1>6 DEF sys_sleep, Call, SavedContext
  <2> QED BY <1>2, <1>3, <1>6, <2>1 DEF sys_sleep, KernelPcs, Reaping
<1>7. CASE InputArrives
  <2>1. cpu'[c].pc = "user" /\ (\A a \in Addr \ {c} : cpu'[a] = cpu[a]) /\ here.pc = "input"
    BY <1>1, <1>7 DEF InputArrives, SavedContext
  <2> QED BY <1>2, <1>3, <1>7, <2>1 DEF InputArrives, KernelPcs, Reaping
<1>8. CASE SleepEnds
  <2>1. cpu'[c].pc = "user" /\ (\A a \in Addr \ {c} : cpu'[a] = cpu[a]) /\ here.pc = "busy"
    BY <1>1, <1>8 DEF SleepEnds, SavedContext
  <2> QED BY <1>2, <1>3, <1>8, <2>1 DEF SleepEnds, KernelPcs, Reaping
<1>9. CASE WaitEnter
  <2>1. cpu'[c].pc = "scan" /\ (\A a \in Addr \ {c} : cpu'[a] = cpu[a]) /\ here.pc = "wait"
    BY <1>1, <1>9 DEF WaitEnter, SavedContext
  <2> QED BY <1>2, <1>3, <1>9, <2>1 DEF WaitEnter, KernelPcs, Reaping
<1>10. CASE WaitFails
  <2>1. cpu'[c].pc = "user" /\ (\A a \in Addr \ {c} : cpu'[a] = cpu[a]) /\ here.pc = "scan"
    BY <1>1, <1>10 DEF WaitFails, Context
  <2> QED BY <1>2, <1>3, <1>10, <2>1 DEF WaitFails, KernelPcs, Reaping
<1>11. CASE WaitBlocks
  <2>1. cpu'[c].pc = "hlt" /\ (\A a \in Addr \ {c} : cpu'[a] = cpu[a]) /\ here.pc = "scan"
    BY <1>1, <1>11 DEF WaitBlocks, SavedContext
  <2> QED BY <1>2, <1>3, <1>11, <2>1 DEF WaitBlocks, KernelPcs, Reaping
<1>12. CASE WakeFromHlt
  <2>1. cpu'[c].pc = "scan" /\ (\A a \in Addr \ {c} : cpu'[a] = cpu[a]) /\ here.pc = "hlt"
    BY <1>1, <1>12 DEF WakeFromHlt, Woken, SavedContext
  <2> QED BY <1>2, <1>3, <1>12, <2>1 DEF WakeFromHlt, KernelPcs, Reaping
<1>13. CASE WaitReturns
  <2>1. /\ cpu'[c].pc = "user" /\ (\A a \in Addr \ {c} : cpu'[a] = cpu[a]) /\ here.pc = "pick"
        /\ {a \in tasks : Reapable(a, task)} = {} /\ Quietly
    BY <1>1, <1>13 DEF WaitReturns, Context
  <2>2. SameTasks
    BY <1>3, <1>13 DEF WaitReturns
  <2>3. PtyBoundToLiveTask'
    BY <1>1, <2>1, <2>2, PtyRests DEF IInv
  <2> QED BY <1>1, <2>1, <2>2, <2>3, MoveKeeps DEF KernelPcs
<1>14. CASE ReapPick
  <2>1. PICK v \in tasks :
          /\ FirstInList(v, {a \in tasks : Reapable(a, task)})
          /\ cpu' = [cpu EXCEPT ![c].pc = "unlink", ![c].victim = v]
    BY <1>14 DEF ReapPick
  <2>2. /\ cpu'[c].pc = "unlink" /\ (\A a \in Addr \ {c} : cpu'[a] = cpu[a])
        /\ cpu'[c].victim = v
    BY <1>1, <2>1 DEF SavedContext
  <2>3. here.pc = "pick" /\ Quietly /\ SameTasks
    BY <1>3, <1>14 DEF ReapPick
  <2>4. v \in tasks /\ Reapable(v, task)
    BY <2>1 DEF FirstInList
  <2>5. PtyBoundToLiveTask'
    BY <1>1, <2>3, PtyRests DEF IInv
  <2> QED BY <1>1, <2>2, <2>3, <2>4, <2>5, MoveKeeps DEF KernelPcs, Reaping
<1> QED BY <1>4, <1>5, <1>6, <1>7, <1>8, <1>9, <1>10, <1>11, <1>12, <1>13, <1>14

\* Opening and closing PTYs, and a creation that gives everything back.
LEMMA TablesMove ==
    ASSUME IInv, TypeOK', here.pc = "user",
           \/ sys_pty_open \/ sys_pty_close \/ SpawnNoMemory
    PROVE  IInv'
<1>1. TypeOK /\ next_pid \in Nat /\ PtyBoundToLiveTask /\ tasks \subseteq Addr
  BY DEF IInv, TypeOK
<1>2. /\ UNCHANGED <<task, heap, tasks, ready_queue, current_task, cpu, unclaimed>>
      /\ next_pid' >= next_pid
  BY <1>1 DEF sys_pty_open, sys_pty_close, SpawnNoMemory
<1>3. SameTasks
  BY <1>2, TasksRest
<1>4. PtyBoundToLiveTask'
  <2>1. CASE SpawnNoMemory
    BY <1>1, <1>2, <1>3, <2>1, PtyRests DEF SpawnNoMemory
  <2>2. CASE sys_pty_open
    <3>1. PICK p \in Ptys \ open_ptys :
            open_ptys' = open_ptys \cup {p} /\ slave_pid' = [slave_pid EXCEPT ![p] = 0]
      BY <2>2 DEF sys_pty_open
    <3>2. slave_pid[p] = 0 /\ slave_pid \in [Ptys -> Pids]
      BY <1>1, <3>1 DEF PtyBoundToLiveTask, TypeOK
    <3>3. slave_pid' = slave_pid
      BY <3>1, <3>2
    <3> QED BY <1>1, <1>2, <3>1, <3>3 DEF PtyBoundToLiveTask, Alive
  <2>3. CASE sys_pty_close
    <3>1. PICK p \in open_ptys : slave_pid[p] = 0 /\ open_ptys' = open_ptys \ {p}
      BY <2>3 DEF sys_pty_close
    <3>2. slave_pid' = slave_pid
      BY <2>3 DEF sys_pty_close
    <3> QED BY <1>1, <1>2, <3>1, <3>2 DEF PtyBoundToLiveTask, Alive
  <2> QED BY <2>1, <2>2, <2>3
<1> QED BY <1>2, <1>3, <1>4, MoveKeeps DEF here, KernelPcs, Reaping

-----------------------------------------------------------------------------
(* Reaping.                                                                *)

\* A PTY is bound to a live task: the end of others does not touch it.
LEMMA DetachesNobody ==
    ASSUME TypeOK, PtyBoundToLiveTask, NEW D,
           \A a \in tasks : Alive(a) => task[a].pid \notin D
    PROVE  pty_detach_slave(D) = slave_pid
<1>1. slave_pid \in [Ptys -> Pids]
  BY DEF TypeOK
<1>2. ASSUME NEW p \in Ptys PROVE ~(p \in open_ptys /\ slave_pid[p] \in D \ {0})
  BY DEF PtyBoundToLiveTask
<1> QED BY <1>1, <1>2 DEF pty_detach_slave

\* Dead tasks nobody waits for, V, leave the list; W, dead too, leave the memory.
LEMMA RemovalKeeps ==
    ASSUME IInv, TypeOK', NEW V \in SUBSET tasks, NEW W \in SUBSET heap,
           UNCHANGED <<task, ready_queue, current_task, unclaimed, open_ptys, slave_pid>>,
           \A a \in V : Dead(a) /\ ~task[a].reap_blocked /\ a # current_task,
           \A a \in W : Dead(a) /\ (a \in V \/ a \notin tasks),
           tasks' = tasks \ V, heap' = heap \ W, next_pid' >= next_pid,
           \A a \in Addr : \/ cpu'[a] = cpu[a]
                           \/ a = current_task /\ cpu[a].pc \in Reaping /\ cpu'[a].pc \in Reaping,
           ReapersSound'
    PROVE  IInv'
<1>1. /\ current_task \in tasks /\ tasks \subseteq heap /\ heap \subseteq Addr /\ Idle \in tasks
      /\ current_task \in Addr /\ ~Dead(Idle)
  BY CurrentIs DEF IInv, PlacesSound, IdleSound
<1>2. next_pid \in Nat /\ next_pid' \in Nat
  BY DEF IInv, TypeOK
<1>3. ASSUME NEW a \in heap, Dead(a) PROVE cpu[a].pc = "dead" /\ a \in Addr \ {Idle}
  <2>1. a \in Addr \ {Idle}
    BY <1>1, <1>3
  <2>2. UserSound(a)
    BY <2>1 DEF IInv, PlacesSound
  <2> QED BY <1>3, <2>1, <2>2 DEF UserSound
<1>4. PlacesSound'
  <2>1. IdleSound'
    <3>1. Idle \in tasks' /\ cpu'[Idle].pc = "idle"
      BY <1>1 DEF IInv, PlacesSound, IdleSound, Reaping
    <3> QED BY <3>1 DEF IInv, PlacesSound, IdleSound, Dead
  <2>2. PidsDiffer'
    BY DEF IInv, PlacesSound, PidsDiffer
  <2>3. tasks' \subseteq heap' /\ current_task' \in tasks'
    BY <1>1
  <2>4. ASSUME NEW a \in Addr \ {Idle} PROVE UserSound(a)'
    <3>1. UserSound(a)
      BY DEF IInv, PlacesSound
    <3>2. task[a].pid \in 1 .. next_pid - 1 => task[a].pid \in 1 .. next_pid' - 1
      BY <1>2
    <3>3. CASE a \in heap'
      <4>1. a \in heap /\ (a \notin tasks' => Dead(a))
        BY <3>1, <3>3 DEF UserSound
      <4>2. cpu'[a].pc # "idle" /\ (Dead(a) <=> cpu'[a].pc = "dead")
        BY <3>1, <4>1 DEF UserSound, Reaping
      <4> QED BY <3>1, <3>2, <3>3, <4>1, <4>2 DEF UserSound, Dead
    <3>4. CASE a \notin heap'
      <4>1. CASE a \in heap
        <5>1. cpu[a].pc = "dead"
          BY <1>3, <3>4, <4>1
        <5>2. cpu'[a].pc = "dead"
          BY <5>1 DEF Reaping
        <5> QED BY <3>4, <5>2 DEF UserSound, KernelPcs
      <4>2. CASE a \notin heap
        <5>1. cpu[a].pc \notin KernelPcs
          BY <3>1, <4>2 DEF UserSound
        <5>2. cpu'[a].pc \notin KernelPcs
          BY <5>1 DEF Reaping, KernelPcs
        <5> QED BY <3>4, <5>2 DEF UserSound
      <4> QED BY <4>1, <4>2
    <3> QED BY <3>3, <3>4
  <2> QED BY <2>1, <2>2, <2>3, <2>4 DEF PlacesSound
<1>5. \A a \in Addr : Alive(a)' <=> Alive(a)
  BY DEF Alive, Dead
<1>6. QueueSound'
  <2>1. RunnableQueuedOnce'
    BY <1>5 DEF IInv, QueueSound, RunnableQueuedOnce
  <2> QED BY <1>1, <1>5, <2>1 DEF IInv, QueueSound, me
<1>7. StatusesSound'
  <2>1. ZombieKeptForParent'
    <3>1. ASSUME NEW u \in unclaimed
          PROVE  \E a \in tasks' : /\ task[a].pid = u.child /\ task[a].parent_pid = u.parent
                                   /\ task[a].state = "TERMINATED" /\ task[a].reap_blocked
                                   /\ task[a].exit_code = u.code
      BY DEF IInv, StatusesSound, ZombieKeptForParent
    <3>2. ASSUME NEW a \in tasks', task[a].parent_pid # 0
          PROVE  \E b \in tasks' : Alive(b)' /\ task[b].pid = task[a].parent_pid
      <4>1. PICK b \in tasks : Alive(b) /\ task[b].pid = task[a].parent_pid
        BY <3>2 DEF IInv, StatusesSound, ZombieKeptForParent
      <4>2. b \in Addr /\ b \notin V
        BY <1>1, <4>1 DEF Alive, Dead
      <4> QED BY <1>5, <4>1, <4>2
    <3> QED BY <3>1, <3>2 DEF ZombieKeptForParent
  <2>2. ASSUME NEW a \in tasks' PROVE StatusSound(a)'
    <3>1. StatusSound(a)
      BY DEF IInv, StatusesSound
    <3>2. ASSUME NEW b \in tasks, cpu[b].pc \in Reaping
          PROVE  b \in tasks' /\ cpu'[b].pc \in Reaping
      <4>1. b \notin V
        BY <1>1, <1>3, <3>2 DEF Reaping
      <4> QED BY <1>1, <3>2, <4>1
    <3> QED BY <3>1, <3>2 DEF StatusSound, StatusOf, Dead, Reaping
  <2> QED BY <2>1, <2>2 DEF StatusesSound
<1>8. PtyBoundToLiveTask'
  <2>1. PtyBoundToLiveTask
    BY DEF IInv
  <2>2. ASSUME NEW p \in Ptys, slave_pid[p] # 0
        PROVE  \E a \in tasks' : Alive(a)' /\ task[a].pid = slave_pid[p] /\ task[a].pty_id = p
    <3>1. PICK a \in tasks : Alive(a) /\ task[a].pid = slave_pid[p] /\ task[a].pty_id = p
      BY <2>1, <2>2 DEF PtyBoundToLiveTask
    <3>2. a \in Addr /\ a \notin V
      BY <1>1, <3>1 DEF Alive, Dead
    <3> QED BY <1>5, <3>1, <3>2
  <2> QED BY <2>1, <2>2 DEF PtyBoundToLiveTask
<1> QED BY <1>4, <1>6, <1>7, <1>8 DEF IInv

LEMMA UnlinkKeeps ==
    ASSUME IInv, TypeOK', ReapUnlink
    PROVE  IInv'
<1> DEFINE c == current_task
           v == here.victim
<1>1. /\ cpu \in [Addr -> SavedContext] /\ c \in Addr /\ TypeOK /\ next_pid \in Nat
  BY DEF IInv, TypeOK
<1>2. /\ here.pc = "unlink" /\ tasks' = tasks \ {v}
      /\ UNCHANGED <<task, heap, ready_queue, current_task, next_pid, open_ptys,
                     slave_pid, unclaimed>>
      /\ cpu' = [cpu EXCEPT ![c].pc = IF v \in tasks THEN "destroy" ELSE "pick"]
  BY DEF ReapUnlink
<1>3. /\ v \in Addr \ {Idle} /\ Dead(v) /\ v # c /\ ~task[v].reap_blocked
  BY <1>1, <1>2 DEF IInv, ReapersSound, ReaperSound, here
<1>4. /\ \A a \in Addr \ {c} : cpu'[a] = cpu[a]
      /\ cpu'[c].pc = (IF v \in tasks THEN "destroy" ELSE "pick") /\ cpu'[c].victim = v
  <2> DEFINE pc == IF v \in tasks THEN "destroy" ELSE "pick"
  <2>1. cpu' = [cpu EXCEPT ![c].pc = pc]
    BY <1>2
  <2> HIDE DEF pc
  <2>2. (\A a \in Addr \ {c} : cpu'[a] = cpu[a]) /\ cpu'[c].pc = pc /\ cpu'[c].victim = v
    BY <1>1, <2>1 DEF SavedContext, here
  <2> QED BY <2>2 DEF pc
<1> HIDE DEF v
<1>5. CASE v \notin tasks
  <2>1. tasks' = tasks /\ cpu'[c].pc = "pick" /\ SameTasks
    BY <1>2, <1>4, <1>5, TasksRest
  <2>2. PtyBoundToLiveTask'
    BY <1>1, <1>2, <2>1, PtyRests DEF IInv
  <2> QED BY <1>1, <1>2, <1>4, <2>1, <2>2, MoveKeeps DEF KernelPcs, Reaping
<1>6. CASE v \in tasks
  <2>1. cpu'[c].pc = "destroy" /\ v \in heap
    BY <1>4, <1>6, CurrentIs
  <2>2. ReapersSound'
    <3>1. ASSUME NEW b \in Addr PROVE ReaperSound(b)'
      <4>1. ReaperSound(b)
        BY DEF IInv, ReapersSound
      <4>2. CASE b = c
        BY <1>2, <1>4, <1>6, <2>1, <4>2 DEF ReaperSound
      <4>3. CASE b # c
        BY <1>2, <1>4, <4>1, <4>3 DEF ReaperSound, Dead
      <4> QED BY <4>2, <4>3
    <3>2. ASSUME NEW b \in Addr, NEW d \in Addr, cpu'[b].pc = "destroy",
                 cpu'[d].pc = "destroy", cpu'[b].victim = cpu'[d].victim
          PROVE  b = d
      <4>1. \A x \in Addr : x # c /\ cpu'[x].pc = "destroy" => cpu'[x].victim # v
        BY <1>4, <1>6 DEF IInv, ReapersSound, ReaperSound
      <4>2. CASE b = c \/ d = c
        BY <1>4, <3>2, <4>1, <4>2
      <4>3. CASE b # c /\ d # c
        BY <1>4, <3>2, <4>3 DEF IInv, ReapersSound
      <4> QED BY <4>2, <4>3
    <3> QED BY <3>1, <3>2 DEF ReapersSound
  <2> DEFINE V == {v}
             W == {}
  <2>3. V \in SUBSET tasks /\ W \in SUBSET heap /\ tasks' = tasks \ V /\ heap' = heap \ W
    BY <1>2, <1>6
  <2>4. \A a \in V : Dead(a) /\ ~task[a].reap_blocked /\ a # current_task
    BY <1>3
  <2>5. \A a \in W : Dead(a) /\ (a \in V \/ a \notin tasks)
    OBVIOUS
  <2>6. \A a \in Addr : \/ cpu'[a] = cpu[a]
                        \/ a = current_task /\ cpu[a].pc \in Reaping /\ cpu'[a].pc \in Reaping
    BY <1>2, <1>4, <2>1 DEF here, Reaping
  <2> HIDE DEF V, W
  <2> QED BY <1>1, <1>2, <2>2, <2>3, <2>4, <2>5, <2>6, RemovalKeeps
<1> QED BY <1>5, <1>6

LEMMA DestroyKeeps ==
    ASSUME IInv, TypeOK', ReapDestroy
    PROVE  IInv'
<1> DEFINE c == current_task
           v == here.victim
<1>1. /\ cpu \in [Addr -> SavedContext] /\ c \in Addr /\ TypeOK /\ next_pid \in Nat
      /\ PtyBoundToLiveTask
  BY DEF IInv, TypeOK
<1>2. /\ here.pc = "destroy" /\ heap' = heap \ {v}
      /\ UNCHANGED <<task, tasks, ready_queue, current_task, next_pid, open_ptys, unclaimed>>
      /\ cpu' = [cpu EXCEPT ![c].pc = "pick"]
      /\ slave_pid' = pty_detach_slave({task[v].pid})
  BY DEF ReapDestroy
<1>3. v \in heap /\ v \notin tasks
  BY <1>1, <1>2 DEF IInv, ReapersSound, ReaperSound, here
<1>4. (\A a \in Addr \ {c} : cpu'[a] = cpu[a]) /\ cpu'[c].pc = "pick"
  BY <1>1, <1>2 DEF SavedContext
<1> HIDE DEF v
<1>5. Dead(v)
  <2>1. v \in Addr \ {Idle}
    BY <1>3, CurrentIs
  <2>2. UserSound(v)
    BY <2>1 DEF IInv, PlacesSound
  <2> QED BY <1>3, <2>2 DEF UserSound
<1>6. slave_pid' = slave_pid
  <2>1. \A a \in tasks : task[a].pid \notin {task[v].pid}
    BY <1>3, CurrentIs DEF IInv, PlacesSound, PidsDiffer
  <2> QED BY <1>1, <1>2, <2>1, DetachesNobody
<1>7. ReapersSound'
  <2>1. \A x \in Addr \ {c} : cpu[x].pc = "destroy" => cpu[x].victim # v
    BY <1>1, <1>2 DEF IInv, ReapersSound, here, v
  <2>2. ASSUME NEW b \in Addr PROVE ReaperSound(b)'
    <3>1. ReaperSound(b)
      BY DEF IInv, ReapersSound
    <3>2. CASE b = c
      BY <1>4, <3>2 DEF ReaperSound
    <3>3. CASE b # c
      BY <1>2, <1>4, <2>1, <3>1, <3>3 DEF ReaperSound, Dead
    <3> QED BY <3>2, <3>3
  <2>3. \A x \in Addr : cpu'[x].pc = "destroy" => cpu'[x] = cpu[x]
    BY <1>4
  <2> QED BY <2>2, <2>3 DEF IInv, ReapersSound
<1> DEFINE V == {}
           W == {v}
<1>8. V \in SUBSET tasks /\ W \in SUBSET heap /\ tasks' = tasks \ V /\ heap' = heap \ W
  BY <1>2, <1>3
<1>9. \A a \in V : Dead(a) /\ ~task[a].reap_blocked /\ a # current_task
  OBVIOUS
<1>10. \A a \in W : Dead(a) /\ (a \in V \/ a \notin tasks)
  BY <1>3, <1>5
<1>11. \A a \in Addr : \/ cpu'[a] = cpu[a]
                       \/ a = current_task /\ cpu[a].pc \in Reaping /\ cpu'[a].pc \in Reaping
  BY <1>2, <1>4 DEF here, Reaping
<1>12. /\ UNCHANGED <<task, ready_queue, current_task, unclaimed, open_ptys, slave_pid>>
       /\ next_pid' >= next_pid
  BY <1>1, <1>2, <1>6
<1> HIDE DEF V, W
<1> QED BY <1>7, <1>8, <1>9, <1>10, <1>11, <1>12, RemovalKeeps

\* A creation that is taken back reaps along the way.
LEMMA RefusedKeeps ==
    ASSUME IInv, TypeOK', NEW a \in Addr, NEW pty, SpawnRefused(a, pty)
    PROVE  IInv'
<1> DEFINE V == {b \in tasks : Reapable(b, task)}
           D == {task[b].pid : b \in V} \cup {next_pid}
<1>1. /\ tasks' = tasks \ V /\ heap' = heap \ V /\ slave_pid' = pty_detach_slave(D)
      /\ next_pid' = next_pid + 1
      /\ UNCHANGED <<task, ready_queue, current_task, cpu, open_ptys, unclaimed>>
  BY DEF SpawnRefused
<1>2. /\ TypeOK /\ next_pid \in Nat /\ PtyBoundToLiveTask /\ tasks \subseteq heap
      /\ heap \subseteq Addr
  BY CurrentIs DEF IInv, TypeOK
<1>3. \A b \in V : Dead(b) /\ ~task[b].reap_blocked /\ b # current_task /\ b \in tasks
  BY DEF Reapable, Dead
<1>4. ASSUME NEW b \in tasks, Alive(b) PROVE task[b].pid \notin D
  <2>1. task[b].pid # next_pid
    <3>1. task[b].pid = 0 \/ task[b].pid \in 1 .. next_pid - 1
      <4>1. CASE b = Idle
        BY <4>1 DEF IInv, PlacesSound, IdleSound
      <4>2. CASE b # Idle
        <5>1. UserSound(b)
          BY <1>2, <4>2 DEF IInv, PlacesSound
        <5> QED BY <1>2, <5>1 DEF UserSound
      <4> QED BY <4>1, <4>2
    <3>2. next_pid # 0
      BY DEF IInv, TypeOK
    <3> QED BY <1>2, <3>1, <3>2
  <2>2. ASSUME NEW d \in V PROVE task[b].pid # task[d].pid
    <3>1. b # d
      BY <1>3, <1>4, <2>2 DEF Alive, Dead
    <3> QED BY <1>2, <1>3, <3>1 DEF IInv, PlacesSound, PidsDiffer
  <2> QED BY <2>1, <2>2
<1> HIDE DEF V
<1>5. slave_pid' = slave_pid
  <2> HIDE DEF D
  <2> QED BY <1>1, <1>2, <1>4, DetachesNobody
<1>6. ReapersSound'
  <2>1. ASSUME NEW b \in Addr PROVE ReaperSound(b)'
    <3>1. ReaperSound(b)
      BY DEF IInv, ReapersSound
    <3> QED BY <1>1, <1>3, <3>1 DEF ReaperSound, Dead
  <2> QED BY <1>1, <2>1 DEF IInv, ReapersSound
<1>7. V \in SUBSET tasks /\ V \in SUBSET heap
  BY <1>2, <1>3
<1>8. \A b \in V : Dead(b) /\ (b \in V \/ b \notin tasks)
  BY <1>3
<1>9. next_pid' >= next_pid
  BY <1>1, <1>2
<1> QED BY <1>1, <1>3, <1>5, <1>6, <1>7, <1>8, <1>9, RemovalKeeps

-----------------------------------------------------------------------------
(* A status is collected.                                                  *)

LEMMA CollectKeeps ==
    ASSUME IInv, TypeOK', WaitCollects
    PROVE  IInv'
<1> DEFINE c == current_task
<1>1. /\ cpu \in [Addr -> SavedContext] /\ task \in [Addr -> TaskRecord]
      /\ unclaimed \subseteq [parent : Pids, child : Pids, code : ExitCodes]
  BY DEF IInv, TypeOK
<1>2. PICK child \in ExitedChildren :
          /\ task' = [task EXCEPT ![child].reap_blocked = FALSE]
          /\ unclaimed' = unclaimed \ {[parent |-> me.pid, child |-> task[child].pid,
                                        code |-> task[child].exit_code]}
  BY DEF WaitCollects
<1>3. /\ here.pc = "scan" /\ cpu' = [cpu EXCEPT ![c].pc = "pick"]
      /\ UNCHANGED <<heap, tasks, ready_queue, current_task, next_pid, open_ptys, slave_pid>>
  BY DEF WaitCollects
<1>4. child \in tasks /\ task[child].parent_pid = me.pid /\ Dead(child)
  BY DEF ExitedChildren, Awaited, Children, Dead
<1>5. /\ c \in tasks /\ tasks \subseteq heap /\ heap \subseteq Addr /\ Idle \in tasks /\ c \in Addr
      /\ c # Idle /\ ~Dead(c) /\ Alive(c) /\ me.pid \in 1 .. next_pid - 1
  BY <1>3, CurrentIs DEF KernelPcs
<1>6. /\ (\A a \in Addr \ {c} : cpu'[a] = cpu[a]) /\ cpu'[c].pc = "pick"
  BY <1>1, <1>3, <1>5 DEF SavedContext
<1>7. /\ \A a \in Addr :
            /\ task'[a].pid = task[a].pid /\ task'[a].parent_pid = task[a].parent_pid
            /\ task'[a].state = task[a].state /\ task'[a].pty_id = task[a].pty_id
            /\ task'[a].exit_code = task[a].exit_code
            /\ a # child => task'[a].reap_blocked = task[a].reap_blocked
      /\ ~task'[child].reap_blocked
  BY <1>1, <1>2, <1>4, <1>5 DEF TaskRecord
<1>8. PlacesSound'
  <2>1. IdleSound'
    BY <1>3, <1>5, <1>6, <1>7 DEF IInv, PlacesSound, IdleSound, Dead
  <2>2. PidsDiffer'
    BY <1>3, <1>5, <1>7 DEF IInv, PlacesSound, PidsDiffer
  <2>3. ASSUME NEW a \in Addr \ {Idle} PROVE UserSound(a)'
    <3>1. UserSound(a)
      BY DEF IInv, PlacesSound
    <3>2. CASE a = c
      BY <1>3, <1>5, <1>6, <1>7, <3>1, <3>2 DEF UserSound, Dead
    <3>3. CASE a # c
      BY <1>3, <1>6, <1>7, <3>1, <3>3 DEF UserSound, Dead
    <3> QED BY <3>2, <3>3
  <2> QED BY <1>3, <1>5, <2>1, <2>2, <2>3 DEF PlacesSound
<1>9. QueueSound'
  <2>1. \A a \in Addr : Alive(a)' <=> Alive(a)
    BY <1>3, <1>7 DEF Alive
  <2>2. RunnableQueuedOnce'
    BY <1>3, <2>1 DEF IInv, QueueSound, RunnableQueuedOnce
  <2> QED BY <1>3, <1>5, <1>7, <2>1, <2>2 DEF IInv, QueueSound, me
<1>10. ReapersSound'
  <2>1. ASSUME NEW b \in Addr PROVE ReaperSound(b)'
    <3>1. ReaperSound(b)
      BY DEF IInv, ReapersSound
    <3>2. CASE b = c
      BY <1>6, <3>2 DEF ReaperSound
    <3>3. CASE b # c
      BY <1>3, <1>6, <1>7, <3>1, <3>3 DEF ReaperSound, Dead
    <3> QED BY <3>2, <3>3
  <2>2. \A x \in Addr : cpu'[x].pc = "destroy" => cpu'[x] = cpu[x]
    BY <1>6
  <2> QED BY <2>1, <2>2 DEF IInv, ReapersSound
<1> DEFINE u0 == [parent |-> me.pid, child |-> task[child].pid, code |-> task[child].exit_code]
<1>11. StatusesSound'
  <2>1. ASSUME NEW u \in unclaimed'
        PROVE  \E a \in tasks' : /\ task'[a].pid = u.child /\ task'[a].parent_pid = u.parent
                                 /\ task'[a].state = "TERMINATED" /\ task'[a].reap_blocked
                                 /\ task'[a].exit_code = u.code
    <3>1. u \in unclaimed /\ u # u0
      BY <1>2
    <3>2. PICK a \in tasks : /\ task[a].pid = u.child /\ task[a].parent_pid = u.parent
                             /\ task[a].state = "TERMINATED" /\ task[a].reap_blocked
                             /\ task[a].exit_code = u.code
      BY <3>1 DEF IInv, StatusesSound, ZombieKeptForParent
    <3>3. u = [parent |-> u.parent, child |-> u.child, code |-> u.code]
      BY <1>1, <3>1
    <3>4. a # child
      BY <1>4, <3>1, <3>2, <3>3
    <3> QED BY <1>3, <1>5, <1>7, <3>2, <3>4
  <2>2. ASSUME NEW a \in tasks', task'[a].parent_pid # 0
        PROVE  \E b \in tasks' : Alive(b)' /\ task'[b].pid = task'[a].parent_pid
    <3>1. PICK b \in tasks : Alive(b) /\ task[b].pid = task[a].parent_pid
      BY <1>3, <1>5, <1>7, <2>2 DEF IInv, StatusesSound, ZombieKeptForParent
    <3> QED BY <1>3, <1>5, <1>7, <3>1 DEF Alive
  <2>3. ASSUME NEW a \in tasks' PROVE StatusSound(a)'
    <3>1. StatusSound(a) /\ a \in Addr /\ a \in tasks
      BY <1>3, <1>5 DEF IInv, StatusesSound
    <3>2. CASE a = child
      <4>1. task'[c].pid = task'[a].parent_pid /\ cpu'[c].pc \in {"pick", "unlink", "destroy"}
        BY <1>4, <1>5, <1>6, <1>7, <3>1, <3>2 DEF me
      <4> QED BY <1>3, <1>5, <1>7, <3>2, <4>1 DEF StatusSound
    <3>3. CASE a # child
      <4>1. StatusOf(a)' = StatusOf(a)
        BY <1>7, <3>1 DEF StatusOf
      <4>2. StatusOf(a) # u0
        <5>1. task[a].pid # task[child].pid
          BY <1>4, <1>5, <3>1, <3>3 DEF IInv, PlacesSound, PidsDiffer
        <5> QED BY <5>1 DEF StatusOf
      <4>3. ASSUME NEW b \in tasks, cpu[b].pc \in {"pick", "unlink", "destroy"}
            PROVE  cpu'[b].pc \in {"pick", "unlink", "destroy"} /\ task'[b].pid = task[b].pid
        BY <1>3, <1>5, <1>6, <1>7, <4>3
      <4> QED BY <1>2, <1>3, <1>7, <3>1, <3>3, <4>1, <4>2, <4>3 DEF StatusSound, Dead
    <3> QED BY <3>2, <3>3
  <2> QED BY <2>1, <2>2, <2>3 DEF StatusesSound, ZombieKeptForParent
<1>12. PtyBoundToLiveTask'
  <2>1. \A a \in tasks : /\ task'[a].pid = task[a].pid /\ task'[a].pty_id = task[a].pty_id
                         /\ task'[a].state = task[a].state
    BY <1>5, <1>7
  <2> QED BY <1>3, <2>1 DEF IInv, PtyBoundToLiveTask, Alive
<1> QED BY <1>8, <1>9, <1>10, <1>11, <1>12 DEF IInv

-----------------------------------------------------------------------------
(* A task is created.                                                      *)

LEMMA SpawnKeeps ==
    ASSUME IInv, TypeOK', here.pc = "user", ~VictimReused,
           NEW a \in Addr, NEW prog \in Programs, NEW pty \in Ptys \cup {NoPty},
           SpawnOk(a, prog, pty), cpu'[a].pc = "user",
           a # current_task => cpu'[current_task].pc \in {"user", "wait"},
           \A b \in Addr \ {a, current_task} : cpu'[b] = cpu[b]
    PROVE  IInv'
<1> DEFINE c == current_task
<1>1. /\ task \in [Addr -> TaskRecord] /\ ready_queue \in Seq(Addr) /\ next_pid \in Nat \ {0}
      /\ slave_pid \in [Ptys -> Pids] /\ TypeOK /\ open_ptys \subseteq Ptys /\ heap' \subseteq Addr
  BY DEF IInv, TypeOK
<1>2. /\ c \in tasks /\ tasks \subseteq heap /\ heap \subseteq Addr /\ Idle \in tasks /\ c \in Addr
      /\ c # Idle /\ ~Dead(c) /\ Alive(c) /\ me.pid \in 1 .. next_pid - 1 /\ me.state = "RUNNING"
  BY CurrentIs
<1>3. /\ a \notin heap /\ CanAttach(pty, next_pid)
      /\ task' = [task EXCEPT ![a] = [NewTask(next_pid, me.pid, prog) EXCEPT !.pty_id = pty]]
      /\ heap' = heap \cup {a} /\ tasks' = tasks \cup {a}
      /\ ready_queue' = Enqueue(ready_queue, a) /\ next_pid' = next_pid + 1
      /\ slave_pid' = IF pty = NoPty THEN slave_pid ELSE [slave_pid EXCEPT ![pty] = next_pid]
      /\ UNCHANGED <<current_task, open_ptys, unclaimed>>
  BY DEF SpawnOk, scheduler_add_task
<1>4. a \notin tasks /\ a # c /\ a # Idle
  BY <1>2, <1>3
<1>5. /\ \A b \in Addr \ {a} : task'[b] = task[b]
      /\ task'[a].pid = next_pid /\ task'[a].parent_pid = me.pid /\ task'[a].state = "READY"
      /\ task'[a].pty_id = pty
  BY <1>1, <1>3 DEF NewTask
<1>6. ASSUME NEW b \in heap PROVE task[b].pid \in 0 .. next_pid - 1
  <2>1. CASE b = Idle
    BY <1>1, <2>1 DEF IInv, PlacesSound, IdleSound
  <2>2. CASE b # Idle
    <3>1. UserSound(b)
      BY <1>2, <2>2 DEF IInv, PlacesSound
    <3> QED BY <1>1, <3>1 DEF UserSound
  <2> QED BY <2>1, <2>2
<1>7. PlacesSound'
  <2>1. IdleSound'
    <3>1. task'[Idle] = task[Idle] /\ cpu'[Idle] = cpu[Idle] /\ Idle \in tasks'
      BY <1>2, <1>3, <1>4, <1>5
    <3> QED BY <3>1 DEF IInv, PlacesSound, IdleSound, Dead
  <2>2. PidsDiffer'
    <3>1. \A b \in heap : b \in Addr \ {a} /\ task'[b].pid = task[b].pid
      BY <1>2, <1>3, <1>5
    <3>2. \A b \in heap : task[b].pid # next_pid
      BY <1>1, <1>6
    <3>3. PidsDiffer
      BY DEF IInv, PlacesSound
    <3> QED BY <1>3, <1>5, <3>1, <3>2, <3>3 DEF PidsDiffer
  <2>3. tasks' \subseteq heap' /\ current_task' \in tasks'
    BY <1>2, <1>3
  <2>4. ASSUME NEW b \in Addr \ {Idle} PROVE UserSound(b)'
    <3>1. CASE b = a
      <4>1. next_pid \in 1 .. (next_pid + 1) - 1 /\ me.pid < next_pid
        BY <1>1, <1>2
      <4>2. task'[a].pid \in 1 .. next_pid' - 1 /\ task'[a].parent_pid < task'[a].pid
        BY <1>3, <1>5, <4>1
      <4>3. ~Dead(a)' /\ a \in heap' /\ a \in tasks' /\ cpu'[a].pc = "user"
        BY <1>3, <1>5 DEF Dead
      <4> QED BY <3>1, <4>2, <4>3 DEF UserSound
    <3>2. CASE b = c
      <4>1. UserSound(b)
        BY DEF IInv, PlacesSound
      <4>2. task[b].pid \in 1 .. next_pid - 1 => task[b].pid \in 1 .. next_pid' - 1
        BY <1>1, <1>3
      <4>3. ~Dead(b)' /\ b \in heap' /\ b \in tasks' /\ task'[b] = task[b] /\ b \in heap
        BY <1>2, <1>3, <1>4, <1>5, <3>2 DEF Dead
      <4> QED BY <1>4, <3>2, <4>1, <4>2, <4>3 DEF UserSound
    <3>3. CASE b # a /\ b # c
      <4>1. UserSound(b)
        BY DEF IInv, PlacesSound
      <4>2. task[b].pid \in 1 .. next_pid - 1 => task[b].pid \in 1 .. next_pid' - 1
        BY <1>1, <1>3
      <4>3. /\ task'[b] = task[b] /\ cpu'[b] = cpu[b]
            /\ (b \in heap' <=> b \in heap) /\ (b \in tasks' <=> b \in tasks)
        BY <1>3, <1>5, <3>3
      <4> QED BY <4>1, <4>2, <4>3 DEF UserSound, Dead
    <3> QED BY <3>1, <3>2, <3>3
  <2> QED BY <2>1, <2>2, <2>3, <2>4 DEF PlacesSound
<1>8. /\ Alive(a)' /\ ~Alive(a)
      /\ \A b \in Addr : b # a => (Alive(b)' <=> Alive(b))
  BY <1>3, <1>4, <1>5 DEF Alive
<1>9. QueueSound'
  <2>1. Once(ready_queue) /\ Positions(ready_queue, a) = {}
    BY <1>4, <1>8 DEF IInv, QueueSound, RunnableQueuedOnce, Once
  <2>2. /\ Once(ready_queue') /\ Positions(ready_queue', a) # {}
        /\ \A b : b # a => (Positions(ready_queue', b) # {} <=> Positions(ready_queue, b) # {})
    BY <1>1, <1>3, <2>1, EnqueueHolds
  <2>3. ASSUME NEW b \in Addr \ {Idle}
        PROVE  Positions(ready_queue', b) # {} <=> Alive(b)' /\ b # c
    <3>1. CASE b = a
      BY <1>4, <1>8, <2>2, <3>1
    <3>2. CASE b # a
      BY <1>8, <2>2, <3>2 DEF IInv, QueueSound, RunnableQueuedOnce
    <3> QED BY <3>1, <3>2
  <2>4. RunnableQueuedOnce'
    BY <1>3, <2>2, <2>3 DEF RunnableQueuedOnce, Once
  <2>5. me'.state = "RUNNING"
    BY <1>2, <1>3, <1>4, <1>5 DEF me
  <2> QED BY <1>2, <1>3, <2>4, <2>5 DEF QueueSound
<1>10. ReapersSound'
  <2>1. \A b \in Addr : cpu[b].pc = "unlink" => cpu[b].victim # a
    BY <1>3 DEF VictimReused
  <2>2. \A b \in Addr : cpu'[b].pc \in {"unlink", "destroy"} => b # a /\ b # c /\ cpu'[b] = cpu[b]
    BY <1>4
  <2>3. ASSUME NEW b \in Addr PROVE ReaperSound(b)'
    <3>1. ReaperSound(b)
      BY DEF IInv, ReapersSound
    <3>2. CASE cpu'[b].pc = "unlink"
      <4>1. cpu'[b] = cpu[b] /\ cpu[b].victim # a
        BY <2>1, <2>2, <3>2
      <4>2. cpu[b].victim \in Addr \ {Idle} /\ task'[cpu[b].victim] = task[cpu[b].victim]
        BY <1>5, <3>1, <3>2, <4>1 DEF ReaperSound
      <4> QED BY <1>3, <3>1, <3>2, <4>1, <4>2 DEF ReaperSound, Dead
    <3>3. CASE cpu'[b].pc = "destroy"
      <4>1. cpu'[b] = cpu[b]
        BY <2>2, <3>3
      <4> QED BY <1>3, <3>1, <3>3, <4>1 DEF ReaperSound
    <3> QED BY <3>2, <3>3 DEF ReaperSound
  <2> QED BY <2>2, <2>3 DEF IInv, ReapersSound
<1>11. \A b \in tasks : b \in tasks' /\ task'[b] = task[b] /\ b \in Addr
  BY <1>2, <1>3, <1>4, <1>5
<1>12. StatusesSound'
  <2>1. ASSUME NEW u \in unclaimed
        PROVE  \E b \in tasks' : /\ task'[b].pid = u.child /\ task'[b].parent_pid = u.parent
                                 /\ task'[b].state = "TERMINATED" /\ task'[b].reap_blocked
                                 /\ task'[b].exit_code = u.code
    <3>1. PICK b \in tasks : /\ task[b].pid = u.child /\ task[b].parent_pid = u.parent
                             /\ task[b].state = "TERMINATED" /\ task[b].reap_blocked
                             /\ task[b].exit_code = u.code
      BY DEF IInv, StatusesSound, ZombieKeptForParent
    <3>2. b \in tasks' /\ task'[b] = task[b]
      BY <1>11
    <3> QED BY <3>1, <3>2
  <2>2. ASSUME NEW b \in tasks', task'[b].parent_pid # 0
        PROVE  \E d \in tasks' : Alive(d)' /\ task'[d].pid = task'[b].parent_pid
    <3>1. CASE b = a
      <4>1. Alive(c)' /\ c \in tasks' /\ task'[c].pid = me.pid
        <5>1. task'[c] = task[c] /\ c \in tasks' /\ (Alive(c)' <=> Alive(c))
          BY <1>2, <1>3, <1>4, <1>8, <1>11
        <5> QED BY <1>2, <5>1 DEF me
      <4>2. task'[b].parent_pid = me.pid
        BY <1>5, <3>1
      <4> QED BY <1>3, <4>1, <4>2
    <3>2. CASE b # a
      <4>1. PICK d \in tasks : Alive(d) /\ task[d].pid = task[b].parent_pid
        BY <1>3, <1>11, <2>2, <3>2 DEF IInv, StatusesSound, ZombieKeptForParent
      <4>2. d # a /\ b \in tasks
        BY <1>3, <1>4, <3>2, <4>1
      <4> QED BY <1>8, <1>11, <4>1, <4>2
    <3> QED BY <3>1, <3>2
  <2>3. ASSUME NEW b \in tasks' PROVE StatusSound(b)'
    <3>1. CASE b = a
      BY <1>5, <3>1 DEF StatusSound, Dead
    <3>2. CASE b # a
      <4>1. StatusSound(b) /\ b \in tasks
        BY <1>3, <3>2 DEF IInv, StatusesSound
      <4>2. ASSUME NEW d \in tasks, cpu[d].pc \in {"pick", "unlink", "destroy"}
            PROVE  d \in tasks' /\ cpu'[d] = cpu[d] /\ task'[d] = task[d]
        BY <1>4, <1>11, <4>2 DEF here
      <4>3. task'[b] = task[b] /\ unclaimed' = unclaimed
        BY <1>3, <1>11, <4>1
      <4>4. StatusOf(b)' = StatusOf(b) /\ (Dead(b)' <=> Dead(b))
        BY <4>3 DEF StatusOf, Dead
      <4>5. ASSUME Dead(b), ~task[b].reap_blocked, task[b].parent_pid # 0
            PROVE  \E d \in tasks' : task'[d].pid = task[b].parent_pid
                                     /\ cpu'[d].pc \in {"pick", "unlink", "destroy"}
        <5>1. PICK d \in tasks : task[d].pid = task[b].parent_pid
                                 /\ cpu[d].pc \in {"pick", "unlink", "destroy"}
          BY <4>1, <4>5 DEF StatusSound
        <5> QED BY <4>2, <5>1
      <4> QED BY <4>1, <4>3, <4>4, <4>5 DEF StatusSound
    <3> QED BY <3>1, <3>2
  <2> QED BY <1>3, <2>1, <2>2, <2>3 DEF StatusesSound, ZombieKeptForParent
<1>13. PtyBoundToLiveTask'
  <2>1. PtyBoundToLiveTask
    BY DEF IInv
  <2>2. CASE pty = NoPty
    <3>1. slave_pid' = slave_pid
      BY <1>3, <2>2
    <3>2. ASSUME NEW p \in Ptys, slave_pid[p] # 0
          PROVE  \E b \in tasks' : Alive(b)' /\ task'[b].pid = slave_pid[p] /\ task'[b].pty_id = p
      <4>1. PICK b \in tasks : Alive(b) /\ task[b].pid = slave_pid[p] /\ task[b].pty_id = p
        BY <2>1, <3>2 DEF PtyBoundToLiveTask
      <4> QED BY <1>4, <1>8, <1>11, <4>1
    <3>3. ASSUME NEW b \in tasks', task'[b].pty_id # NoPty
          PROVE  slave_pid[task'[b].pty_id] = task'[b].pid
      <4>1. b \in tasks /\ task'[b] = task[b]
        BY <1>3, <1>5, <1>11, <2>2, <3>3
      <4> QED BY <2>1, <3>3, <4>1 DEF PtyBoundToLiveTask
    <3> QED BY <1>3, <2>1, <3>1, <3>2, <3>3 DEF PtyBoundToLiveTask
  <2>3. CASE pty # NoPty
    <3>1. pty \in Ptys /\ pty \in open_ptys /\ slave_pid[pty] \in {0, next_pid}
          /\ slave_pid' = [slave_pid EXCEPT ![pty] = next_pid]
      BY <1>3, <2>3 DEF CanAttach
    <3>2. slave_pid[pty] = 0
      <4>1. SUFFICES ASSUME slave_pid[pty] # 0 PROVE FALSE
        OBVIOUS
      <4>2. PICK b \in tasks : task[b].pid = slave_pid[pty]
        BY <2>1, <3>1, <4>1 DEF PtyBoundToLiveTask
      <4>3. task[b].pid \in 0 .. next_pid - 1
        BY <1>2, <1>6
      <4> QED BY <1>1, <3>1, <4>1, <4>2, <4>3
    <3>3. ASSUME NEW b \in tasks PROVE task[b].pty_id # pty
      <4>1. SUFFICES ASSUME task[b].pty_id = pty PROVE FALSE
        OBVIOUS
      <4>2. task[b].pid = 0
        BY <2>1, <2>3, <3>2, <4>1 DEF PtyBoundToLiveTask
      <4>3. b = Idle
        BY <1>2, <4>2 DEF IInv, PlacesSound, PidsDiffer, IdleSound
      <4> QED BY <2>3, <4>1, <4>3 DEF IInv, PlacesSound, IdleSound
    <3>4. slave_pid'[pty] = next_pid /\ \A p \in Ptys \ {pty} : slave_pid'[p] = slave_pid[p]
      BY <1>1, <3>1
    <3>5. ASSUME NEW p \in Ptys, slave_pid'[p] # 0
          PROVE  /\ p \in open_ptys
                 /\ \E b \in tasks' : Alive(b)' /\ task'[b].pid = slave_pid'[p]
                                      /\ task'[b].pty_id = p
      <4>1. CASE p = pty
        BY <1>3, <1>5, <1>8, <3>1, <3>4, <4>1
      <4>2. CASE p # pty
        <5>1. slave_pid'[p] = slave_pid[p]
          BY <3>4, <4>2
        <5>2. p \in open_ptys
          BY <2>1, <3>5, <5>1 DEF PtyBoundToLiveTask
        <5>3. PICK b \in tasks : Alive(b) /\ task[b].pid = slave_pid[p] /\ task[b].pty_id = p
          BY <2>1, <3>5, <5>1 DEF PtyBoundToLiveTask
        <5> QED BY <1>4, <1>8, <1>11, <5>1, <5>2, <5>3
      <4> QED BY <4>1, <4>2
    <3>6. ASSUME NEW b \in tasks', task'[b].pty_id # NoPty
          PROVE  slave_pid'[task'[b].pty_id] = task'[b].pid
      <4>1. CASE b = a
        BY <1>5, <3>4, <4>1
      <4>2. CASE b # a
        <5>1. b \in tasks /\ task'[b] = task[b] /\ task[b].pty_id # pty
          BY <1>3, <1>11, <3>3, <4>2
        <5>2. task[b].pty_id \in Ptys \ {pty}
          BY <1>1, <1>11, <3>6, <5>1 DEF TaskRecord
        <5> QED BY <2>1, <3>4, <3>6, <5>1, <5>2 DEF PtyBoundToLiveTask
      <4> QED BY <4>1, <4>2
    <3> QED BY <1>3, <3>5, <3>6 DEF PtyBoundToLiveTask
  <2> QED BY <2>2, <2>3
<1> QED BY <1>7, <1>9, <1>10, <1>12, <1>13 DEF IInv

\* exec waits for what it starts.
LEMMA ExecKeeps ==
    ASSUME IInv, TypeOK', ~VictimReused, sys_exec
    PROVE  IInv'
<1> DEFINE c == current_task
<1>1. /\ TypeOK /\ cpu \in [Addr -> SavedContext] /\ c \in Addr /\ here.pc = "user"
      /\ me.pty_id \in Ptys \cup {NoPty} /\ c \in heap
  BY CurrentIs DEF IInv, TypeOK, TaskRecord, me, sys_exec, Call
<1>2. ASSUME NEW a \in Addr, NEW prog \in Programs, SpawnOk(a, prog, me.pty_id),
             cpu' = [cpu EXCEPT ![a] = Context("user"), ![c].pc = "wait", ![c].target = next_pid]
      PROVE  IInv'
  <2>1. a # c
    BY <1>1, <1>2 DEF SpawnOk
  <2>2. /\ cpu'[a].pc = "user" /\ cpu'[c].pc = "wait"
        /\ \A b \in Addr \ {a, c} : cpu'[b] = cpu[b]
    <3> DEFINE g == [cpu EXCEPT ![a] = Context("user")]
    <3>1. g \in [Addr -> SavedContext] /\ g[a].pc = "user" /\ \A b \in Addr \ {a} : g[b] = cpu[b]
      BY <1>1, ContextType DEF Context
    <3>2. cpu' = [g EXCEPT ![c].pc = "wait", ![c].target = next_pid]
      BY <1>2
    <3> HIDE DEF g
    <3> QED BY <1>1, <2>1, <3>1, <3>2 DEF SavedContext
  <2> QED BY <1>1, <1>2, <2>2, SpawnKeeps
<1> QED BY <1>1, <1>2, RefusedKeeps, TablesMove DEF sys_exec

\* pty_spawn returns at once.
LEMMA PtySpawnKeeps ==
    ASSUME IInv, TypeOK', ~VictimReused, sys_pty_spawn
    PROVE  IInv'
<1> DEFINE c == current_task
<1>1. /\ cpu \in [Addr -> SavedContext] /\ c \in Addr /\ here.pc = "user" /\ c \in heap
      /\ open_ptys \subseteq Ptys
  BY CurrentIs DEF IInv, TypeOK, sys_pty_spawn, Call
<1>2. ASSUME NEW pty \in open_ptys, NEW a \in Addr, NEW prog \in Programs,
             SpawnOk(a, prog, pty), cpu' = [cpu EXCEPT ![a] = Context("user")]
      PROVE  IInv'
  <2>1. a # c
    BY <1>1, <1>2 DEF SpawnOk
  <2>2. cpu'[a].pc = "user" /\ \A b \in Addr \ {a} : cpu'[b] = cpu[b]
    BY <1>1, <1>2 DEF Context
  <2>3. pty \in Ptys \cup {NoPty} /\ cpu'[c].pc \in {"user", "wait"}
    BY <1>1, <2>1, <2>2 DEF here
  <2> QED BY <1>1, <1>2, <2>2, <2>3, SpawnKeeps
<1> QED BY <1>1, <1>2, RefusedKeeps, TablesMove DEF sys_pty_spawn

-----------------------------------------------------------------------------
(* A task ends.                                                            *)

\* What task_exit writes in the task_t of the caller, of its children and of others.
LEMMA ExitWrites ==
    ASSUME TypeOK, NEW code \in ExitCodes, task_exit(code)
    PROVE  /\ \A a \in Addr : task'[a].pid = task[a].pid
           /\ LET r == task'[current_task]
              IN  /\ r.parent_pid = me.parent_pid /\ r.state = "TERMINATED"
                  /\ r.pty_id = NoPty /\ r.exit_code = code
                  /\ r.reap_blocked <=> me.parent_pid # 0
           /\ \A a \in tasks \ {current_task} : task[a].parent_pid = me.pid =>
                  /\ task'[a].parent_pid = 0 /\ task'[a].state = task[a].state
                  /\ task'[a].pty_id = task[a].pty_id /\ ~task'[a].reap_blocked
           /\ \A a \in Addr \ {current_task} :
                  a \notin tasks \/ task[a].parent_pid # me.pid => task'[a] = task[a]
<1> DEFINE c == current_task
           mine == [me EXCEPT !.pty_id = NoPty, !.exit_code = code,
                              !.reap_blocked = me.parent_pid # 0, !.state = "TERMINATED"]
           orphan(a) == [task[a] EXCEPT !.parent_pid = 0, !.reap_blocked = FALSE]
<1>1. /\ task \in [Addr -> TaskRecord] /\ c \in Addr /\ tasks \subseteq Addr
      /\ me = task[c] /\ me \in TaskRecord
  BY DEF TypeOK, me
<1>2. task' = [a \in Addr |->
                 IF a = c THEN mine
                 ELSE IF a \in tasks /\ task[a].parent_pid = me.pid THEN orphan(a) ELSE task[a]]
  BY DEF task_exit
<1>3. /\ mine.pid = me.pid /\ mine.parent_pid = me.parent_pid /\ mine.state = "TERMINATED"
      /\ mine.pty_id = NoPty /\ mine.exit_code = code
      /\ mine.reap_blocked = (me.parent_pid # 0)
  BY <1>1 DEF TaskRecord
<1>4. ASSUME NEW a \in Addr
      PROVE  /\ orphan(a).pid = task[a].pid /\ orphan(a).parent_pid = 0
             /\ orphan(a).state = task[a].state /\ orphan(a).pty_id = task[a].pty_id
             /\ ~orphan(a).reap_blocked
  <2>1. task[a] \in TaskRecord
    BY <1>1
  <2> QED BY <2>1 DEF TaskRecord
<1> HIDE DEF mine, orphan
<1>5. task'[c] = mine
  BY <1>1, <1>2
<1>6. \A a \in tasks \ {c} : task[a].parent_pid = me.pid => task'[a] = orphan(a)
  BY <1>1, <1>2
<1>7. \A a \in Addr \ {c} : a \notin tasks \/ task[a].parent_pid # me.pid => task'[a] = task[a]
  BY <1>1, <1>2
<1>8. \A a \in Addr : task'[a].pid = task[a].pid
  BY <1>1, <1>3, <1>4, <1>5, <1>6, <1>7
<1>9. mine.reap_blocked <=> me.parent_pid # 0
  BY <1>3, Zenon
<1> QED BY <1>1, <1>3, <1>4, <1>5, <1>6, <1>7, <1>8, <1>9

LEMMA ExitKeeps ==
    ASSUME IInv, TypeOK', NEW code \in ExitCodes, task_exit(code)
    PROVE  IInv'
<1> DEFINE c == current_task
           u0 == [parent |-> me.parent_pid, child |-> me.pid, code |-> code]
<1>1. /\ cpu \in [Addr -> SavedContext] /\ TypeOK /\ here.pc = "user" /\ next_pid \in Nat \ {0}
      /\ slave_pid \in [Ptys -> Pids] /\ task \in [Addr -> TaskRecord]
  <2>1. here.pc = "user"
    BY Zenon DEF task_exit, Call
  <2> QED BY <2>1 DEF IInv, TypeOK
<1>2. /\ c \in tasks /\ tasks \subseteq heap /\ heap \subseteq Addr /\ Idle \in tasks /\ c \in Addr
      /\ c # Idle /\ ~Dead(c) /\ Alive(c) /\ me.pid \in 1 .. next_pid - 1
      /\ me.parent_pid < me.pid /\ me = task[c]
  BY <1>1, CurrentIs DEF me
<1>3. /\ UNCHANGED <<heap, tasks, current_task, next_pid, open_ptys>>
      /\ cpu' = [cpu EXCEPT ![c].pc = "dead"] /\ slave_pid' = pty_detach_slave({me.pid})
      /\ ready_queue' = scheduler_remove_task(ready_queue, c)
      /\ unclaimed' = {u \in unclaimed : u.parent # me.pid} \cup
                      {u \in [parent : {me.parent_pid}, child : {me.pid}, code : {code}] :
                          u.parent # 0}
  BY DEF task_exit
<1>4. (\A a \in Addr \ {c} : cpu'[a] = cpu[a]) /\ cpu'[c].pc = "dead"
  BY <1>1, <1>2, <1>3 DEF SavedContext
<1>5. ready_queue' = ready_queue
  <2>1. Positions(ready_queue, c) = {}
    BY <1>2 DEF IInv, QueueSound, RunnableQueuedOnce
  <2> QED BY <1>3, <2>1 DEF scheduler_remove_task
<1>6. \A a \in Addr : task'[a].pid = task[a].pid
  BY <1>1, ExitWrites
<1>7. /\ task'[c].parent_pid = me.parent_pid /\ task'[c].state = "TERMINATED"
      /\ task'[c].pty_id = NoPty /\ task'[c].exit_code = code
      /\ task'[c].reap_blocked <=> me.parent_pid # 0
  BY <1>1, ExitWrites
<1>8. \A a \in tasks \ {c} : task[a].parent_pid = me.pid =>
         /\ task'[a].parent_pid = 0 /\ task'[a].state = task[a].state
         /\ task'[a].pty_id = task[a].pty_id /\ ~task'[a].reap_blocked
  BY <1>1, ExitWrites
<1>9. \A a \in Addr \ {c} : a \notin tasks \/ task[a].parent_pid # me.pid => task'[a] = task[a]
  BY <1>1, ExitWrites
<1>10. \A a \in Addr \ {c} : /\ task'[a].state = task[a].state /\ task'[a].pty_id = task[a].pty_id
                             /\ task'[a].parent_pid \in {0, task[a].parent_pid}
                             /\ task'[a].reap_blocked => task[a].reap_blocked
  BY <1>8, <1>9
<1>11. PlacesSound'
  <2>1. IdleSound'
    <3>1. Idle \in Addr \ {c} /\ IdleSound
      BY <1>2 DEF IInv, PlacesSound
    <3> QED BY <1>3, <1>4, <1>6, <1>10, <3>1 DEF IdleSound, Dead
  <2>2. PidsDiffer'
    BY <1>2, <1>3, <1>6 DEF IInv, PlacesSound, PidsDiffer
  <2>3. ASSUME NEW a \in Addr \ {Idle} PROVE UserSound(a)'
    <3>1. UserSound(a)
      BY DEF IInv, PlacesSound
    <3>2. CASE a = c
      <4>1. Dead(a)' /\ a \in tasks' /\ a \in heap' /\ cpu'[a].pc = "dead"
        BY <1>2, <1>3, <1>4, <1>7, <3>2 DEF Dead
      <4>2. task'[a].pid \in 1 .. next_pid' - 1 /\ task'[a].parent_pid < task'[a].pid
        BY <1>2, <1>3, <1>6, <1>7, <3>2
      <4> QED BY <1>7, <3>2, <4>1, <4>2 DEF UserSound
    <3>3. CASE a # c
      <4>1. cpu'[a] = cpu[a] /\ (Dead(a)' <=> Dead(a)) /\ task'[a].pty_id = task[a].pty_id
        BY <1>4, <1>10, <3>3 DEF Dead
      <4>2. a \in heap => /\ task'[a].pid \in 1 .. next_pid' - 1
                          /\ task'[a].parent_pid < task'[a].pid
        <5>1. a \in heap => task[a].pid \in 1 .. next_pid - 1 /\ task[a].parent_pid < task[a].pid
          BY <3>1 DEF UserSound
        <5>2. task[a].pid \in 1 .. next_pid - 1 => 0 < task[a].pid
          BY <1>1
        <5> QED BY <1>3, <1>6, <1>10, <3>3, <5>1, <5>2
      <4> QED BY <1>3, <3>1, <4>1, <4>2 DEF UserSound
    <3> QED BY <3>2, <3>3
  <2> QED BY <1>2, <1>3, <2>1, <2>2, <2>3 DEF IInv, PlacesSound
<1>12. (\A a \in Addr \ {c} : Alive(a)' <=> Alive(a)) /\ ~Alive(current_task)'
  BY <1>3, <1>7, <1>10 DEF Alive
<1>13. QueueSound'
  <2>1. \A a \in Addr \ {Idle} : Positions(ready_queue', a) # {} <=> Alive(a)' /\ a # c
    BY <1>5, <1>12 DEF IInv, QueueSound, RunnableQueuedOnce
  <2>2. RunnableQueuedOnce'
    BY <1>3, <1>5, <2>1 DEF IInv, QueueSound, RunnableQueuedOnce
  <2> QED BY <1>2, <1>3, <1>12, <2>2 DEF QueueSound
<1>14. ReapersSound'
  <2>1. ASSUME NEW b \in Addr PROVE ReaperSound(b)'
    <3>1. ReaperSound(b)
      BY DEF IInv, ReapersSound
    <3>2. CASE b = c
      BY <1>4, <3>2 DEF ReaperSound
    <3>3. CASE b # c
      <4>1. cpu'[b] = cpu[b]
        BY <1>4, <3>3
      <4> QED BY <1>3, <1>10, <3>1, <4>1 DEF ReaperSound, Dead
    <3> QED BY <3>2, <3>3
  <2>2. \A x \in Addr : cpu'[x].pc = "destroy" => cpu'[x] = cpu[x]
    BY <1>4
  <2> QED BY <2>1, <2>2 DEF IInv, ReapersSound
<1>15. StatusesSound'
  <2>1. ASSUME NEW u \in unclaimed'
        PROVE  \E a \in tasks : /\ task'[a].pid = u.child /\ task'[a].parent_pid = u.parent
                                /\ task'[a].state = "TERMINATED" /\ task'[a].reap_blocked
                                /\ task'[a].exit_code = u.code
    <3>1. CASE u \in unclaimed /\ u.parent # me.pid
      <4>1. PICK a \in tasks : /\ task[a].pid = u.child /\ task[a].parent_pid = u.parent
                               /\ task[a].state = "TERMINATED" /\ task[a].reap_blocked
                               /\ task[a].exit_code = u.code
        BY <3>1 DEF IInv, StatusesSound, ZombieKeptForParent
      <4>2. a \in Addr \ {c} /\ task[a].parent_pid # me.pid
        BY <1>2, <3>1, <4>1 DEF Dead
      <4>3. task'[a] = task[a]
        BY <1>9, <4>2
      <4> QED BY <4>1, <4>3
    <3>2. CASE u \in [parent : {me.parent_pid}, child : {me.pid}, code : {code}] /\ u.parent # 0
      <4>1. u.parent = me.parent_pid /\ u.child = me.pid /\ u.code = code /\ me.parent_pid # 0
        BY <3>2
      <4>2. /\ task'[c].pid = u.child /\ task'[c].parent_pid = u.parent
            /\ task'[c].state = "TERMINATED" /\ task'[c].reap_blocked
            /\ task'[c].exit_code = u.code
        BY <1>2, <1>6, <1>7, <4>1
      <4> QED BY <1>2, <4>2
    <3> QED BY <1>3, <3>1, <3>2
  <2>2. ASSUME NEW a \in tasks, task'[a].parent_pid # 0
        PROVE  \E b \in tasks : Alive(b)' /\ task'[b].pid = task'[a].parent_pid
    <3>1. /\ task'[a].parent_pid = task[a].parent_pid /\ task[a].parent_pid # 0
          /\ task[a].parent_pid # me.pid
      <4>1. CASE a = c
        <5>1. me.parent_pid # me.pid
          BY <1>2
        <5> QED BY <1>2, <1>7, <2>2, <4>1, <5>1
      <4>2. CASE a # c
        BY <1>2, <1>8, <1>9, <2>2, <4>2
      <4> QED BY <4>1, <4>2
    <3>2. PICK b \in tasks : Alive(b) /\ task[b].pid = task[a].parent_pid
      BY <3>1 DEF IInv, StatusesSound, ZombieKeptForParent
    <3>3. b \in Addr \ {c}
      BY <1>2, <3>1, <3>2
    <3> QED BY <1>6, <1>12, <3>1, <3>2, <3>3
  <2>3. ASSUME NEW a \in tasks PROVE StatusSound(a)'
    <3>1. StatusSound(a) /\ a \in Addr
      BY <1>2 DEF IInv, StatusesSound
    <3>2. CASE a = c
      <4>1. StatusOf(a)' = u0
        BY <1>2, <1>6, <1>7, <3>2 DEF StatusOf
      <4>2. me.parent_pid # 0 => u0 \in unclaimed'
        BY <1>3
      <4> QED BY <1>7, <3>2, <4>1, <4>2 DEF StatusSound
    <3>3. CASE a # c /\ task[a].parent_pid = me.pid
      BY <1>8, <3>3 DEF StatusSound
    <3>4. CASE a # c /\ task[a].parent_pid # me.pid
      <4>1. task'[a] = task[a]
        BY <1>9, <3>1, <3>4
      <4>2. StatusOf(a)' = StatusOf(a) /\ (Dead(a)' <=> Dead(a))
        BY <4>1 DEF StatusOf, Dead
      <4>3. StatusOf(a) \in unclaimed => StatusOf(a) \in unclaimed'
        BY <1>3, <3>4 DEF StatusOf
      <4>4. ASSUME Dead(a), ~task[a].reap_blocked, task[a].parent_pid # 0
            PROVE  \E b \in tasks : /\ task'[b].pid = task[a].parent_pid
                                    /\ cpu'[b].pc \in {"pick", "unlink", "destroy"}
        <5>1. PICK b \in tasks : /\ task[b].pid = task[a].parent_pid
                                 /\ cpu[b].pc \in {"pick", "unlink", "destroy"}
          BY <3>1, <4>4 DEF StatusSound
        <5>2. b \in Addr \ {c}
          BY <1>1, <1>2, <5>1 DEF here
        <5> QED BY <1>4, <1>6, <5>1, <5>2
      <4> QED BY <1>3, <3>1, <4>1, <4>2, <4>3, <4>4 DEF StatusSound
    <3> QED BY <3>2, <3>3, <3>4
  <2> QED BY <1>3, <2>1, <2>2, <2>3 DEF StatusesSound, ZombieKeptForParent
<1>16. PtyBoundToLiveTask'
  <2>1. PtyBoundToLiveTask
    BY DEF IInv
  <2>2. ASSUME NEW p \in Ptys, slave_pid'[p] # 0
        PROVE  slave_pid'[p] = slave_pid[p] /\ (p \in open_ptys => slave_pid[p] # me.pid)
    BY <1>2, <1>3, <2>2 DEF pty_detach_slave
  <2>3. ASSUME NEW p \in Ptys, slave_pid'[p] # 0
        PROVE  /\ p \in open_ptys
               /\ \E a \in tasks : /\ Alive(a)' /\ task'[a].pid = slave_pid'[p]
                                   /\ task'[a].pty_id = p
    <3>1. slave_pid'[p] = slave_pid[p] /\ p \in open_ptys /\ slave_pid[p] # me.pid
      BY <2>1, <2>2, <2>3 DEF PtyBoundToLiveTask
    <3>2. PICK a \in tasks : Alive(a) /\ task[a].pid = slave_pid[p] /\ task[a].pty_id = p
      BY <2>1, <2>3, <3>1 DEF PtyBoundToLiveTask
    <3>3. a \in Addr \ {c}
      BY <1>2, <3>1, <3>2
    <3> QED BY <1>6, <1>10, <1>12, <3>1, <3>2, <3>3
  <2>4. ASSUME NEW a \in tasks, task'[a].pty_id # NoPty
        PROVE  slave_pid'[task'[a].pty_id] = task'[a].pid
    <3>1. a \in Addr \ {c}
      BY <1>2, <1>7, <2>4
    <3>2. task'[a].pty_id = task[a].pty_id /\ task'[a].pid = task[a].pid
      BY <1>6, <1>10, <3>1
    <3>3. slave_pid[task[a].pty_id] = task[a].pid /\ task[a].pty_id \in Ptys
      BY <1>1, <2>1, <2>4, <3>1, <3>2 DEF PtyBoundToLiveTask, TaskRecord
    <3>4. task[a].pid # me.pid
      BY <1>2, <3>1 DEF IInv, PlacesSound, PidsDiffer
    <3> QED BY <1>3, <3>2, <3>3, <3>4 DEF pty_detach_slave
  <2> QED BY <1>3, <2>3, <2>4 DEF PtyBoundToLiveTask
<1> QED BY <1>11, <1>13, <1>14, <1>15, <1>16 DEF IInv

-----------------------------------------------------------------------------
(* The timer switches tasks.                                               *)

\* What a task_t says, but for READY and RUNNING.
LifeRests ==
    \A a \in Addr :
        /\ task'[a].pid = task[a].pid /\ task'[a].parent_pid = task[a].parent_pid
        /\ task'[a].pty_id = task[a].pty_id /\ task'[a].reap_blocked = task[a].reap_blocked
        /\ task'[a].exit_code = task[a].exit_code /\ (Dead(a)' <=> Dead(a))

\* Handing out the CPU touches nothing but the queue's promises.
LEMMA DispatchKeeps ==
    ASSUME IInv, TypeOK', LifeRests, QueueSound',
           UNCHANGED <<heap, tasks, next_pid, open_ptys, slave_pid, unclaimed>>,
           \A a \in Addr : \/ cpu'[a] = cpu[a]
                           \/ cpu[a].pc = "hlt" /\ cpu'[a].pc = "scan",
           current_task' \in tasks, current_task' = current_task \/ ~Dead(current_task')
    PROVE  IInv'
<1>1. /\ tasks \subseteq heap /\ heap \subseteq Addr /\ Idle \in tasks
  BY CurrentIs
<1>2. \A a \in Addr :
        /\ task'[a].pid = task[a].pid /\ task'[a].parent_pid = task[a].parent_pid
        /\ task'[a].pty_id = task[a].pty_id /\ task'[a].reap_blocked = task[a].reap_blocked
        /\ task'[a].exit_code = task[a].exit_code /\ (Dead(a)' <=> Dead(a))
  BY DEF LifeRests
<1>3. PlacesSound'
  <2>1. IdleSound'
    <3>1. IdleSound
      BY DEF IInv, PlacesSound
    <3> QED BY <1>1, <1>2, <3>1 DEF IdleSound
  <2>2. PidsDiffer'
    BY <1>1, <1>2 DEF IInv, PlacesSound, PidsDiffer
  <2>3. ASSUME NEW a \in Addr \ {Idle} PROVE UserSound(a)'
    <3>1. UserSound(a)
      BY DEF IInv, PlacesSound
    <3>2. CASE cpu'[a] = cpu[a]
      BY <1>2, <3>1, <3>2 DEF UserSound
    <3>3. CASE cpu[a].pc = "hlt" /\ cpu'[a].pc = "scan"
      BY <1>2, <3>1, <3>3 DEF UserSound, KernelPcs
    <3> QED BY <3>2, <3>3
  <2> QED BY <1>1, <2>1, <2>2, <2>3 DEF PlacesSound
<1>4. ReapersSound'
  <2>1. ASSUME NEW b \in Addr PROVE ReaperSound(b)'
    <3>1. ReaperSound(b)
      BY DEF IInv, ReapersSound
    <3>2. CASE cpu'[b] = cpu[b]
      <4>1. ASSUME cpu[b].pc = "unlink"
            PROVE  /\ cpu[b].victim \in Addr \ {Idle} /\ Dead(cpu[b].victim)
                   /\ cpu[b].victim # current_task /\ ~task[cpu[b].victim].reap_blocked
        BY <3>1, <4>1 DEF ReaperSound
      <4>2. cpu[b].pc = "unlink" => cpu[b].victim # current_task'
        BY <4>1
      <4>3. cpu[b].pc = "unlink" => /\ task'[cpu[b].victim].state = "TERMINATED"
                                    /\ ~task'[cpu[b].victim].reap_blocked
        BY <1>2, <4>1 DEF Dead
      <4> QED BY <3>1, <3>2, <4>1, <4>2, <4>3 DEF ReaperSound, Dead
    <3>3. CASE cpu[b].pc = "hlt" /\ cpu'[b].pc = "scan"
      BY <3>3 DEF ReaperSound
    <3> QED BY <3>2, <3>3
  <2>2. \A x \in Addr : cpu'[x].pc = "destroy" => cpu'[x] = cpu[x]
    OBVIOUS
  <2> QED BY <2>1, <2>2 DEF IInv, ReapersSound
<1>5. \A a \in tasks : a \in Addr /\ (Alive(a)' <=> Alive(a)) /\ (Dead(a)' <=> Dead(a))
  BY <1>1, <1>2 DEF Alive, Dead
<1>6. StatusesSound'
  <2>1. ASSUME NEW u \in unclaimed
        PROVE  \E a \in tasks : /\ task'[a].pid = u.child /\ task'[a].parent_pid = u.parent
                                /\ task'[a].state = "TERMINATED" /\ task'[a].reap_blocked
                                /\ task'[a].exit_code = u.code
    <3>1. PICK a \in tasks : /\ task[a].pid = u.child /\ task[a].parent_pid = u.parent
                             /\ task[a].state = "TERMINATED" /\ task[a].reap_blocked
                             /\ task[a].exit_code = u.code
      BY DEF IInv, StatusesSound, ZombieKeptForParent
    <3> QED BY <1>2, <1>5, <3>1 DEF Dead
  <2>2. ASSUME NEW a \in tasks, task'[a].parent_pid # 0
        PROVE  \E b \in tasks : Alive(b)' /\ task'[b].pid = task'[a].parent_pid
    <3>1. PICK b \in tasks : Alive(b) /\ task[b].pid = task[a].parent_pid
      BY <1>2, <1>5, <2>2 DEF IInv, StatusesSound, ZombieKeptForParent
    <3> QED BY <1>2, <1>5, <3>1
  <2>3. ASSUME NEW a \in tasks PROVE StatusSound(a)'
    <3>1. StatusSound(a) /\ a \in Addr
      BY <1>5 DEF IInv, StatusesSound
    <3>2. StatusOf(a)' = StatusOf(a)
      BY <1>2, <3>1 DEF StatusOf
    <3>3. ASSUME NEW b \in tasks, cpu[b].pc \in {"pick", "unlink", "destroy"}
          PROVE  cpu'[b].pc \in {"pick", "unlink", "destroy"} /\ task'[b].pid = task[b].pid
      BY <1>2, <1>5, <3>3
    <3> QED BY <1>2, <3>1, <3>2, <3>3 DEF StatusSound
  <2> QED BY <2>1, <2>2, <2>3 DEF StatusesSound, ZombieKeptForParent
<1>7. PtyBoundToLiveTask'
  <2>1. \A a \in tasks : task'[a].pid = task[a].pid /\ task'[a].pty_id = task[a].pty_id
    BY <1>1, <1>2
  <2> QED BY <1>5, <2>1 DEF IInv, PtyBoundToLiveTask
<1> QED BY <1>3, <1>4, <1>6, <1>7 DEF IInv

LEMMA ScheduleKeeps ==
    ASSUME IInv, TypeOK', schedule_from_irq
    PROVE  IInv'
<1> DEFINE c == current_task
           next == Head(ready_queue)
           popped == [task EXCEPT ![next].state = "RUNNING"]
           rest == Tail(ready_queue)
<1>1. /\ cpu \in [Addr -> SavedContext] /\ task \in [Addr -> TaskRecord]
      /\ ready_queue \in Seq(Addr) /\ RunnableQueuedOnce
      /\ c = Idle => Positions(ready_queue, Idle) = {}
      /\ Alive(c) /\ c # Idle => me.state = "RUNNING"
      /\ ~Dead(Idle)
  BY DEF IInv, TypeOK, QueueSound, PlacesSound, IdleSound
<1>2. /\ c \in tasks /\ tasks \subseteq heap /\ heap \subseteq Addr /\ Idle \in tasks /\ c \in Addr
      /\ me = task[c]
  BY CurrentIs DEF me
<1>3. /\ ready_queue # <<>> /\ cpu' = Woken
      /\ UNCHANGED <<heap, tasks, next_pid, open_ptys, slave_pid, unclaimed>>
      /\ \/ /\ KeepsCurrent(next) /\ task' = popped /\ ready_queue' = Requeued(next)
            /\ UNCHANGED current_task
         \/ /\ ~KeepsCurrent(next) /\ current_task' = next
            /\ ready_queue' = Switched(rest)
            /\ task' = [popped EXCEPT ![c].state = IF @ = "RUNNING" THEN "READY" ELSE @]
  BY DEF schedule_from_irq
<1>4. /\ next \in Addr /\ rest \in Seq(Addr) /\ Once(rest) /\ Once(ready_queue)
      /\ Positions(rest, next) = {} /\ Positions(ready_queue, next) # {}
      /\ \A b : b # next => (Positions(rest, b) # {} <=> Positions(ready_queue, b) # {})
  <2>1. Once(ready_queue)
    BY <1>1 DEF RunnableQueuedOnce, Once
  <2> QED BY <1>1, <1>3, <2>1, TailHolds
<1> HIDE DEF next, rest
<1>5. /\ next # c /\ next \in tasks /\ ~Dead(next)
      /\ Positions(ready_queue, c) = {}
  <2>1. Positions(ready_queue, c) = {}
    BY <1>1, <1>2 DEF RunnableQueuedOnce
  <2>2. next # Idle => Alive(next)
    BY <1>1, <1>4 DEF RunnableQueuedOnce
  <2> QED BY <1>1, <1>2, <1>4, <2>1, <2>2 DEF Alive, Dead
<1>6. Positions(rest, c) = {}
  BY <1>4, <1>5
<1>7. \A a \in Addr : cpu'[a] = cpu[a] \/ (cpu[a].pc = "hlt" /\ cpu'[a].pc = "scan")
  <2>1. CASE here.pc = "hlt"
    <3>1. cpu' = [cpu EXCEPT ![c].pc = "scan", ![c].intr = FALSE]
      BY <1>3, <2>1 DEF Woken
    <3> QED BY <1>1, <1>2, <2>1, <3>1 DEF SavedContext, here
  <2>2. CASE here.pc # "hlt"
    BY <1>3, <2>2 DEF Woken
  <2> QED BY <2>1, <2>2
<1>8. /\ popped \in [Addr -> TaskRecord] /\ popped[next].state = "RUNNING"
      /\ \A a \in Addr \ {next} : popped[a] = task[a]
      /\ \A a \in Addr :
            /\ popped[a].pid = task[a].pid /\ popped[a].parent_pid = task[a].parent_pid
            /\ popped[a].pty_id = task[a].pty_id /\ popped[a].reap_blocked = task[a].reap_blocked
            /\ popped[a].exit_code = task[a].exit_code
  BY <1>1, <1>4, SMTT(30) DEF TaskRecord
<1> HIDE DEF popped
<1>9. CASE KeepsCurrent(next) /\ task' = popped /\ ready_queue' = Requeued(next)
           /\ UNCHANGED current_task
  <2>1. c # Idle /\ me.state # "TERMINATED" /\ next = Idle
    BY <1>5, <1>9 DEF KeepsCurrent, IsUser
  <2>2. ready_queue' = rest
    BY <1>9 DEF Requeued, scheduler_add_task, rest
  <2>3. \A a \in Addr : Dead(a)' <=> Dead(a)
    BY <1>5, <1>8, <1>9 DEF Dead
  <2>4. LifeRests
    BY <1>8, <1>9, <2>3 DEF LifeRests
  <2>5. \A a \in Addr : Alive(a)' <=> Alive(a)
    BY <1>3, <2>3 DEF Alive, Dead
  <2>6. ASSUME NEW a \in Addr \ {Idle}
        PROVE  Positions(rest, a) # {} <=> Alive(a)' /\ a # c
    BY <1>1, <1>4, <2>1, <2>5 DEF RunnableQueuedOnce
  <2>7. RunnableQueuedOnce'
    BY <1>4, <1>9, <2>2, <2>6 DEF RunnableQueuedOnce, Once
  <2>8. me'.state = me.state
    BY <1>2, <1>8, <1>9, <2>1 DEF me
  <2>9. Alive(current_task)' <=> Alive(c)
    BY <1>2, <1>9, <2>5
  <2>10. QueueSound'
    BY <1>1, <1>9, <2>1, <2>7, <2>8, <2>9 DEF QueueSound
  <2> QED BY <1>2, <1>3, <1>7, <1>9, <2>4, <2>10, DispatchKeeps
<1>10. CASE /\ ~KeepsCurrent(next) /\ current_task' = next /\ ready_queue' = Switched(rest)
            /\ task' = [popped EXCEPT ![c].state = IF @ = "RUNNING" THEN "READY" ELSE @]
  <2> DEFINE st == IF me.state = "RUNNING" THEN "READY" ELSE me.state
  <2>1. task' = [popped EXCEPT ![c].state = st]
    BY <1>2, <1>5, <1>8, <1>10
  <2>2. st = "TERMINATED" <=> me.state = "TERMINATED"
    OBVIOUS
  <2> HIDE DEF st
  <2>3. /\ task'[c].state = st /\ task'[next].state = "RUNNING"
        /\ \A a \in Addr \ {c} : task'[a] = popped[a]
        /\ \A a \in Addr :
             /\ task'[a].pid = task[a].pid /\ task'[a].parent_pid = task[a].parent_pid
             /\ task'[a].pty_id = task[a].pty_id /\ task'[a].reap_blocked = task[a].reap_blocked
             /\ task'[a].exit_code = task[a].exit_code
    BY <1>2, <1>4, <1>5, <1>8, <2>1 DEF TaskRecord
  <2>4. ASSUME NEW a \in Addr PROVE Dead(a)' <=> Dead(a)
    <3>1. CASE a = c
      BY <1>2, <2>2, <2>3, <3>1 DEF Dead
    <3>2. CASE a = next
      BY <1>5, <2>3, <3>2 DEF Dead
    <3>3. CASE a # c /\ a # next
      BY <1>8, <2>3, <3>3 DEF Dead
    <3> QED BY <3>1, <3>2, <3>3
  <2>5. LifeRests
    BY <2>3, <2>4 DEF LifeRests
  <2>6. \A a \in Addr : Alive(a)' <=> Alive(a)
    BY <1>3, <2>4 DEF Alive, Dead
  <2>7. /\ Once(ready_queue')
        /\ \A b \in Addr : b # c => (Positions(ready_queue', b) # {} <=> Positions(rest, b) # {})
        /\ Positions(ready_queue', c) # {} <=> me.state = "RUNNING"
    <3>1. CASE me.state = "RUNNING"
      <4>1. ready_queue' = Enqueue(rest, c)
        BY <1>10, <3>1 DEF Switched, scheduler_add_task
      <4> QED BY <1>2, <1>4, <1>6, <3>1, <4>1, EnqueueHolds
    <3>2. CASE me.state # "RUNNING"
      <4>1. ready_queue' = rest
        BY <1>10, <3>2 DEF Switched
      <4> QED BY <1>4, <1>6, <3>2, <4>1
    <3> QED BY <3>1, <3>2
  <2>8. ASSUME NEW a \in Addr \ {Idle}
        PROVE  Positions(ready_queue', a) # {} <=> Alive(a)' /\ a # next
    <3>1. CASE a = c
      <4>1. me.state = "RUNNING" <=> Alive(c)
        BY <1>1, <1>2, <3>1 DEF Alive
      <4>2. Alive(a)' <=> Alive(a)
        BY <2>6
      <4> QED BY <1>5, <2>7, <3>1, <4>1, <4>2
    <3>2. CASE a = next
      BY <1>4, <1>5, <2>7, <3>2
    <3>3. CASE a # c /\ a # next
      BY <1>1, <1>4, <2>6, <2>7, <3>3 DEF RunnableQueuedOnce
    <3> QED BY <3>1, <3>2, <3>3
  <2>9. RunnableQueuedOnce'
    BY <1>10, <2>7, <2>8 DEF RunnableQueuedOnce, Once
  <2>10. next = Idle => Positions(ready_queue', Idle) = {}
    BY <1>4, <1>5, <2>7
  <2>11. me'.state = "RUNNING"
    BY <1>10, <2>3 DEF me
  <2>12. QueueSound'
    BY <1>10, <2>9, <2>10, <2>11 DEF QueueSound
  <2>13. current_task' \in tasks /\ ~Dead(current_task')
    BY <1>5, <1>10
  <2> QED BY <1>3, <1>7, <2>5, <2>12, <2>13, DispatchKeeps
<1> QED BY <1>3, <1>9, <1>10

-----------------------------------------------------------------------------
(* The theorems.                                                           *)

LEMMA InitSound == Init => IInv
<1> SUFFICES ASSUME Init PROVE IInv OBVIOUS
<1>1. PICK shell \in Addr \ {Idle} :
        /\ task = [a \in Addr |->
                     IF a = Idle
                     THEN [NewTask(0, 0, BootProgram) EXCEPT !.state = "RUNNING"]
                     ELSE NewTask(1, 0, BootProgram)]
        /\ heap = {Idle, shell} /\ tasks = {Idle, shell} /\ ready_queue = <<shell>>
        /\ current_task = Idle /\ next_pid = 2
        /\ cpu = [a \in Addr |-> Context(IF a = Idle THEN "idle" ELSE "user")]
        /\ slave_pid = [p \in Ptys |-> 0] /\ unclaimed = {}
  BY DEF Init
<1>2. /\ Idle \in Addr
      /\ task[Idle].pid = 0 /\ task[Idle].parent_pid = 0 /\ task[Idle].state = "RUNNING"
      /\ task[Idle].pty_id = NoPty
      /\ \A a \in Addr \ {Idle} : /\ task[a].pid = 1 /\ task[a].parent_pid = 0
                                  /\ task[a].state = "READY" /\ task[a].pty_id = NoPty
  BY <1>1, IdleAssumption DEF NewTask
<1>3. cpu[Idle].pc = "idle" /\ \A a \in Addr \ {Idle} : cpu[a].pc = "user"
  BY <1>1, <1>2 DEF Context
<1>4. /\ Len(ready_queue) = 1 /\ ready_queue[1] = shell
  BY <1>1
<1>5. PlacesSound
  <2>1. IdleSound
    BY <1>1, <1>2, <1>3 DEF IdleSound, Dead
  <2>4. heap = {Idle, shell} /\ tasks = {Idle, shell} /\ next_pid = 2 /\ shell # Idle
    BY <1>1
  <2>2. PidsDiffer
    BY <1>2, <2>4 DEF PidsDiffer
  <2>3. ASSUME NEW a \in Addr \ {Idle} PROVE UserSound(a)
    <3>1. 1 \in 1 .. next_pid - 1 /\ 0 < 1
      BY <2>4
    <3>2. ~Dead(a) /\ cpu[a].pc = "user" /\ task[a].pid = 1 /\ task[a].parent_pid = 0
      BY <1>2, <1>3 DEF Dead
    <3>3. a \in heap => a \in tasks
      BY <2>4
    <3> QED BY <3>1, <3>2, <3>3 DEF UserSound, KernelPcs
  <2> QED BY <1>1, <2>1, <2>2, <2>3 DEF PlacesSound
<1>6. QueueSound
  <2>1. \A a : Positions(ready_queue, a) # {} <=> a = shell
    BY <1>4 DEF Positions
  <2>2. \A a \in Addr : Alive(a) <=> a \in {Idle, shell}
    BY <1>1, <1>2 DEF Alive
  <2>3. \A i, j \in 1 .. Len(ready_queue) : ready_queue[i] = ready_queue[j] => i = j
    BY <1>4
  <2> QED BY <1>1, <2>1, <2>2, <2>3 DEF QueueSound, RunnableQueuedOnce
<1>7. ReapersSound
  <2>1. \A a \in Addr : cpu[a].pc \in {"user", "idle"}
    BY <1>2, <1>3
  <2> QED BY <2>1 DEF ReapersSound, ReaperSound
<1>8. StatusesSound
  BY <1>1, <1>2 DEF StatusesSound, ZombieKeptForParent, StatusSound, Dead
<1>9. PtyBoundToLiveTask
  BY <1>1, <1>2 DEF PtyBoundToLiveTask
<1> QED BY <1>5, <1>6, <1>7, <1>8, <1>9, InitType DEF IInv

LEMMA StepSound == IInv /\ [Next]_vars /\ [~VictimReused]_vars => IInv'
<1> SUFFICES ASSUME IInv, [Next]_vars, [~VictimReused]_vars PROVE IInv' OBVIOUS
<1>1. TypeOK'
  BY NextType DEF IInv
<1>2. CASE UNCHANGED vars
  <2>1. /\ UNCHANGED <<heap, tasks, next_pid, open_ptys, slave_pid, unclaimed>>
        /\ UNCHANGED <<task, cpu, current_task, ready_queue>>
    BY <1>2 DEF vars
  <2>2. LifeRests
    BY <2>1 DEF LifeRests, Dead
  <2>3. QueueSound'
    BY <2>1 DEF IInv, QueueSound, RunnableQueuedOnce, Alive, me
  <2>4. current_task' \in tasks
    BY <2>1, CurrentIs
  <2> QED BY <1>1, <2>1, <2>2, <2>3, <2>4, DispatchKeeps
<1>3. CASE Next /\ ~VictimReused
  <2>1. CASE schedule_from_irq
    BY <1>1, <2>1, ScheduleKeeps
  <2>2. CASE UserCall
    <3>1. CASE sys_pty_open \/ sys_pty_close
      <4>1. here.pc = "user"
        BY <3>1 DEF sys_pty_open, sys_pty_close, Call
      <4> QED BY <1>1, <3>1, <4>1, TablesMove
    <3>2. CASE \E code \in ExitCodes : task_exit(code)
      BY <1>1, <3>2, ExitKeeps
    <3> QED BY <1>1, <1>3, <2>2, <3>1, <3>2, ExecKeeps, PtySpawnKeeps, CallsMove DEF UserCall
  <2>3. CASE KernelStep \/ InputArrives
    BY <1>1, <2>3, CallsMove, CollectKeeps, UnlinkKeeps, DestroyKeeps
       DEF KernelStep, task_wait_pid
  <2> QED BY <1>3, <2>1, <2>2, <2>3 DEF Next
<1> QED BY <1>2, <1>3

\* Whatever the tasks, the timer and the reapers do, the invariant can only be
\* broken by a task_t that is allocated at an address some reaper has picked and
\* not unlinked yet.
THEOREM TaskingSound == Spec /\ [][~VictimReused]_vars => []IInv
BY InitSound, StepSound, PTL DEF Spec

\* schedule_from_irq, the creation and the exit of tasks never lose a runnable
\* task or queue it twice, unless a reaper's victim is allocated anew under it.
THEOREM TasksQueuedOnce == Spec /\ [][~VictimReused]_vars => []RunnableQueuedOnce
<1>1. IInv => RunnableQueuedOnce
  BY DEF IInv, QueueSound
<1> QED BY <1>1, TaskingSound, PTL

\* Under the same condition an exit status that the parent has not collected is
\* kept for it by every task_reap_terminated, and every parent named in a task_t
\* is alive and can wait.
THEOREM StatusKept == Spec /\ [][~VictimReused]_vars => []ZombieKeptForParent
<1>1. IInv => ZombieKeptForParent
  BY DEF IInv, StatusesSound
<1> QED BY <1>1, TaskingSound, PTL

\* Under the same condition slave_pid and pty_id agree: a PTY is bound exactly
\* while the task that was started on it lives.
THEOREM SessionsFollowTasks == Spec /\ [][~VictimReused]_vars => []PtyBoundToLiveTask
<1>1. IInv => PtyBoundToLiveTask
  BY DEF IInv
<1> QED BY <1>1, TaskingSound, PTL

\* The one race that lets task_destroy free the task that has the CPU is that
\* one: without it current_task always points at an allocated task_t.
THEOREM CpuOnAllocatedTask == Spec /\ [][~VictimReused]_vars => []CurrentAllocated
<1>1. IInv => CurrentAllocated
  BY DEF IInv, PlacesSound, CurrentAllocated
<1> QED BY <1>1, TaskingSound, PTL

\* What is freed is dead, off the CPU, unqueued and unlinked.
LEMMA FreedIsDead ==
    ASSUME IInv, [Next]_vars, NEW a \in heap, a \notin heap'
    PROVE  /\ task[a].state = "TERMINATED" /\ a # current_task
           /\ Positions(ready_queue, a) = {} /\ a \notin tasks'
<1>1. /\ current_task \in tasks /\ tasks \subseteq heap /\ heap \subseteq Addr /\ ~Dead(Idle)
  BY CurrentIs DEF IInv, PlacesSound, IdleSound
<1>2. Dead(a) => a # Idle /\ ~Alive(a)
  BY <1>1 DEF Alive, Dead
<1>3. Dead(a) => Positions(ready_queue, a) = {}
  BY <1>1, <1>2 DEF IInv, QueueSound, RunnableQueuedOnce
<1>4. CASE ReapDestroy
  <2>1. a = here.victim /\ here.pc = "destroy" /\ tasks' = tasks
    BY <1>4 DEF ReapDestroy
  <2>2. a \notin tasks
    BY <1>1, <2>1 DEF IInv, ReapersSound, ReaperSound, here
  <2>3. a # Idle
    BY <2>2 DEF IInv, PlacesSound, IdleSound
  <2>4. Dead(a)
    BY <1>1, <2>2, <2>3 DEF IInv, PlacesSound, UserSound
  <2> QED BY <1>1, <1>3, <2>1, <2>2, <2>4 DEF Dead
<1>5. ASSUME NEW b \in Addr, NEW pty, SpawnRefused(b, pty)
      PROVE  /\ task[a].state = "TERMINATED" /\ a # current_task
             /\ Positions(ready_queue, a) = {} /\ a \notin tasks'
  BY <1>3, <1>5 DEF SpawnRefused, Reapable, Dead
<1>6. ReapDestroy \/ \E b \in Addr, pty \in Ptys \cup {NoPty} : SpawnRefused(b, pty)
  <2>1. me.pty_id \in Ptys \cup {NoPty} /\ open_ptys \subseteq Ptys
    BY DEF IInv, TypeOK, TaskRecord, me
  <2>2. heap' # heap /\ ~(heap \subseteq heap')
    OBVIOUS
  <2>3. ~UNCHANGED vars
    BY <2>2 DEF vars
  <2>4. CASE UserCall
    <3>1. CASE sys_exec
      BY <2>1, <2>2, <3>1 DEF sys_exec, SpawnOk, SpawnNoMemory
    <3>2. CASE sys_pty_spawn
      BY <2>1, <2>2, <3>2 DEF sys_pty_spawn, SpawnOk, SpawnNoMemory
    <3>3. ~(\E code \in ExitCodes : task_exit(code))
      BY <2>2 DEF task_exit
    <3> QED BY <2>2, <2>4, <3>1, <3>2, <3>3
       DEF UserCall, sys_waitpid, sys_pty_open, sys_pty_close, sys_read, sys_sleep
  <2>5. CASE KernelStep \/ InputArrives
    BY <2>2, <2>5 DEF KernelStep, task_wait_pid, WaitEnter, WaitCollects, WaitFails, WaitBlocks,
       ReapPick, ReapUnlink, WaitReturns, WakeFromHlt, SleepEnds, InputArrives
  <2>6. CASE schedule_from_irq
    BY <2>2, <2>6 DEF schedule_from_irq
  <2> QED BY <2>3, <2>4, <2>5, <2>6 DEF Next
<1> QED BY <1>4, <1>5, <1>6

\* The step to "pick" from "scan" is the collection of a status nobody has collected.
LEMMA CollectsUnclaimed ==
    ASSUME IInv, [Next]_vars, NEW a \in Addr, cpu[a].pc = "scan", cpu'[a].pc = "pick"
    PROVE  \E u \in unclaimed : u.parent = task[a].pid /\ unclaimed' = unclaimed \ {u}
<1>1. /\ cpu \in [Addr -> SavedContext] /\ current_task \in Addr /\ current_task \in tasks
      /\ tasks \subseteq heap
  BY CurrentIs DEF IInv, TypeOK
<1>2. WaitCollects /\ a = current_task
  <2>1. cpu' # cpu /\ ~UNCHANGED vars
    BY DEF vars
  <2>2. \A x : Context(x).pc = x
    BY DEF Context
  <2>3. CASE UserCall
    <3>1. here.pc = "user"
      BY <2>3 DEF UserCall, sys_exec, sys_pty_spawn, sys_waitpid, sys_pty_open, sys_pty_close,
         sys_read, sys_sleep, task_exit, Call
    <3>2. a # current_task
      BY <3>1 DEF here
    <3>3. CASE sys_exec
      <4>1. PICK b \in Addr, prog \in Programs :
              cpu' = [cpu EXCEPT ![b] = Context("user"), ![current_task].pc = "wait",
                                 ![current_task].target = next_pid]
        BY <2>1, <3>3 DEF sys_exec, SpawnRefused, SpawnNoMemory
      <4>2. cpu'[a] = cpu[a] \/ cpu'[a] = Context("user")
        BY <1>1, <3>2, <4>1
      <4> QED BY <2>2, <4>2
    <3>4. CASE sys_pty_spawn
      <4>1. PICK b \in Addr, prog \in Programs : cpu' = [cpu EXCEPT ![b] = Context("user")]
        BY <2>1, <3>4 DEF sys_pty_spawn, SpawnRefused, SpawnNoMemory
      <4>2. cpu'[a] = cpu[a] \/ cpu'[a] = Context("user")
        BY <1>1, <4>1
      <4> QED BY <2>2, <4>2
    <3>5. CASE \E code \in ExitCodes : task_exit(code)
      <4>1. cpu' = [cpu EXCEPT ![current_task].pc = "dead"]
        BY <3>5, Zenon DEF task_exit
      <4> QED BY <1>1, <3>2, <4>1
    <3>6. CASE sys_waitpid \/ sys_pty_open \/ sys_pty_close \/ sys_read \/ sys_sleep
      <4>1. cpu'[a] = cpu[a]
        BY <1>1, <3>2, <3>6 DEF sys_waitpid, sys_pty_open, sys_pty_close, sys_read, sys_sleep
      <4> QED BY <4>1
    <3> QED BY <2>3, <3>3, <3>4, <3>5, <3>6 DEF UserCall
  <2>4. CASE schedule_from_irq \/ WakeFromHlt
    <3>1. cpu' = Woken
      BY <2>4 DEF schedule_from_irq, WakeFromHlt
    <3>2. cpu'[a] = cpu[a] \/ cpu'[a].pc = "scan"
      BY <1>1, <3>1 DEF Woken, SavedContext
    <3> QED BY <3>2
  <2>5. CASE KernelStep \/ InputArrives
    <3>1. CASE a = current_task
      BY <2>4, <2>5, <3>1, <1>1, <2>2
         DEF KernelStep, task_wait_pid, WaitEnter, WaitFails, WaitBlocks, ReapPick, ReapUnlink,
         ReapDestroy, WaitReturns, SleepEnds, InputArrives, here, SavedContext
    <3>2. CASE a # current_task
      <4>1. cpu'[a] = cpu[a]
        BY <1>1, <2>4, <2>5, <3>2
           DEF KernelStep, task_wait_pid, WaitEnter, WaitCollects, WaitFails, WaitBlocks,
           ReapPick, ReapUnlink, ReapDestroy, WaitReturns, SleepEnds, InputArrives
      <4> QED BY <4>1
    <3> QED BY <3>1, <3>2
  <2> QED BY <2>1, <2>3, <2>4, <2>5 DEF Next
<1>3. PICK child \in ExitedChildren :
        unclaimed' = unclaimed \ {[parent |-> me.pid, child |-> task[child].pid,
                                   code |-> task[child].exit_code]}
  BY <1>2 DEF WaitCollects
<1>4. /\ child \in tasks /\ task[child].parent_pid = me.pid /\ Dead(child)
      /\ me.pid = task[a].pid /\ me.pid # 0
  <2>1. me.pid \in 1 .. next_pid - 1 /\ next_pid \in Nat
    BY <1>2, CurrentIs DEF here, KernelPcs, IInv, TypeOK
  <2> QED BY <1>2, <2>1 DEF ExitedChildren, Awaited, Children, Dead, me
<1>5. task[child].reap_blocked
  <2> SUFFICES ASSUME ~task[child].reap_blocked PROVE FALSE
    OBVIOUS
  <2>1. PICK b \in tasks : task[b].pid = me.pid /\ cpu[b].pc \in {"pick", "unlink", "destroy"}
    BY <1>4 DEF IInv, StatusesSound, StatusSound
  <2>2. b = a
    BY <1>1, <1>2, <1>4, <2>1 DEF IInv, PlacesSound, PidsDiffer
  <2> QED BY <2>1, <2>2
<1>6. StatusOf(child) \in unclaimed
  BY <1>4, <1>5 DEF IInv, StatusesSound, StatusSound
<1>7. /\ StatusOf(child) = [parent |-> me.pid, child |-> task[child].pid,
                            code |-> task[child].exit_code]
      /\ StatusOf(child).parent = task[a].pid
  BY <1>4 DEF StatusOf
<1> QED BY <1>3, <1>6, <1>7

\* Under the same condition a task ends once: each wait that succeeds delivers one
\* status that was still unclaimed, and task_destroy frees only what is dead, off
\* the CPU, out of the ready queue and out of the task list.
THEOREM TasksEndOnce == Spec /\ [][~VictimReused]_vars => EndsOnce
<1>1. IInv /\ [Next]_vars =>
        [/\ \A a \in Addr : (cpu[a].pc = "scan" /\ cpu'[a].pc = "pick") =>
               \E u \in unclaimed : u.parent = task[a].pid /\ unclaimed' = unclaimed \ {u}
         /\ \A a \in heap : a \notin heap' =>
               /\ task[a].state = "TERMINATED"
               /\ a # current_task
               /\ Positions(ready_queue, a) = {}
               /\ a \notin tasks']_vars
  BY CollectsUnclaimed, FreedIsDead
<1> QED BY <1>1, TaskingSound, PTL DEF Spec, EndsOnce

=============================================================================
