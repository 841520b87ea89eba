------------------------------ MODULE Tasking -------------------------------
(***************************************************************************)
(* Tasks of SzczupakOS from creation to reaping: the timer-driven          *)
(* scheduler (task/scheduler.c), the life of a task_t (task/task.c), the   *)
(* system calls that create, wait for and end tasks (task/syscall.c) and   *)
(* the PTY session table they keep in step with (pty.c).                   *)
(*                                                                         *)
(* One CPU.  Interleaving comes from schedule_from_irq alone, which may    *)
(* leave a task in user mode, in kernel mode only while kernel_preempt_ok  *)
(* is set (task_wait_pid, terminal_wait_input), and always when it is idle *)
(* or terminated.  Whatever else a system call does is one atomic action.  *)
(* Inside task_wait_pid the steps between two critical sections are        *)
(* separate actions; `intr` says whether interrupts are enabled there:     *)
(* they are on the first pass, and after the first arch_idle_once          *)
(* (sti; hlt; cli) only inside the hlt.                                    *)
(***************************************************************************)
EXTENDS ReadyQueue

CONSTANTS Nil,          \* the null task_t pointer
          Ptys,         \* PTY identifiers
          NoPty,        \* pty_id -1
          Programs,     \* executables
          Calls,        \* Calls[p]: the system calls program p makes
          BootProgram,  \* what kernel_main starts
          ExitCodes,
          MaxPid        \* bound: task creations are cut off past this pid

Syscalls == {"exec", "pty_spawn", "pty_open", "pty_close", "waitpid",
             "read", "sleep", "exit"}

ASSUME TaskingAssumption ==
    /\ Nil \notin Addr
    /\ NoPty \notin Ptys
    /\ BootProgram \in Programs
    /\ Calls \in [Programs -> SUBSET Syscalls]
    /\ 0 \in ExitCodes
    /\ MaxPid \in Nat \ {0}

VARIABLES
    task,          \* the task_t at each address
    heap,          \* addresses whose task_t is allocated
    tasks,         \* the addresses linked in task_list_head
    ready_queue,
    current_task,
    next_pid,
    cpu,           \* saved context: where each task is, and its locals there
    open_ptys,     \* PTYs whose `used` is set
    slave_pid,     \* slave_pid of each PTY
    unclaimed      \* history: exit statuses a live parent has yet to collect

vars == <<task, heap, tasks, ready_queue, current_task, next_pid, cpu,
          open_ptys, slave_pid, unclaimed>>

me == task[current_task]
here == cpu[current_task]

-----------------------------------------------------------------------------
NewTask(pid, parent, prog) ==
    [pid |-> pid, parent_pid |-> parent, state |-> "READY", prog |-> prog,
     kernel_preempt_ok |-> FALSE, pty_id |-> NoPty,
     reap_blocked |-> parent # 0, exit_code |-> 0]

Context(pc) == [pc |-> pc, intr |-> TRUE, target |-> 0, victim |-> Nil]

\* kernel_main has created the boot program from the idle task and enabled
\* the scheduler; the idle loop is running.
Init ==
    \E shell \in Addr \ {Idle} :
        /\ task = [a \in Addr |->
                     IF a = Idle
                     THEN [NewTask(0, 0, BootProgram) EXCEPT !.state = "RUNNING"]
                     ELSE NewTask(1, 0, BootProgram)]
        /\ heap = {Idle, shell}
        /\ tasks = {Idle, shell}
        /\ ready_queue = <<shell>>
        /\ current_task = Idle
        /\ next_pid = 2
        /\ cpu = [a \in Addr |-> Context(IF a = Idle THEN "idle" ELSE "user")]
        /\ open_ptys = {}
        /\ slave_pid = [p \in Ptys |-> 0]
        /\ unclaimed = {}

-----------------------------------------------------------------------------
(* The scheduler.                                                          *)

IsUser(a) == a # Idle

\* scheduler_add_task: a running task is not queued.
scheduler_add_task(q, state, a) == IF state = "RUNNING" THEN q ELSE Enqueue(q, a)

\* Interrupts reach the current task: always in user mode, in idle, halted
\* after task_exit, in the hlt of a wait; elsewhere if it left them enabled.
InterruptsOn ==
    here.pc \in {"user", "idle", "dead", "hlt", "input", "busy"} \/ here.intr

\* Slip: a task that has exited keeps the CPU.
Preemptible_NotDead == here.pc = "user" \/ me.pid = 0 \/ me.kernel_preempt_ok

\* The test of schedule_from_irq on the saved code segment and the task.
Preemptible ==
    \/ here.pc = "user"
    \/ me.pid = 0
    \/ me.state = "TERMINATED"
    \/ me.kernel_preempt_ok

\* The interrupt ends the hlt of arch_idle_once, whose cli comes next.
Woken ==
    IF here.pc = "hlt"
    THEN [cpu EXCEPT ![current_task].pc = "scan", ![current_task].intr = FALSE]
    ELSE cpu

\* Slip: a user task that can still run keeps the CPU whoever is next.
KeepsCurrent_WhileRunnable(next) ==
    \/ next = current_task
    \/ IsUser(current_task) /\ me.state # "TERMINATED"

\* schedule_from_irq keeps the interrupted task: next is that task, or idle
\* while the interrupted user task can still run.
KeepsCurrent(next) ==
    \/ next = current_task
    \/ IsUser(current_task) /\ me.state # "TERMINATED" /\ next = Idle

Requeued(next) == scheduler_add_task(Tail(ready_queue), "RUNNING", next)

\* Slip: the interrupted task is not put back.
Switched_Forgets(q) == q

Switched(q) ==
    IF me.state = "RUNNING" THEN scheduler_add_task(q, "READY", current_task) ELSE q

schedule_from_irq ==
    /\ InterruptsOn
    /\ Preemptible
    /\ ready_queue # <<>>
    /\ LET next == Head(ready_queue)
           popped == [task EXCEPT ![next].state = "RUNNING"]
       IN  \/ /\ KeepsCurrent(next)
              /\ task' = popped
              /\ ready_queue' = Requeued(next)
              /\ UNCHANGED current_task
           \/ /\ ~KeepsCurrent(next)
              /\ current_task' = next
              /\ ready_queue' = Switched(Tail(ready_queue))
              /\ task' = [popped EXCEPT ![current_task].state =
                             IF @ = "RUNNING" THEN "READY" ELSE @]
    /\ cpu' = Woken
    /\ UNCHANGED <<heap, tasks, next_pid, open_ptys, slave_pid, unclaimed>>

\* Any interrupt that does not reschedule still ends the hlt.
WakeFromHlt ==
    /\ here.pc = "hlt"
    /\ cpu' = Woken
    /\ UNCHANGED <<task, heap, tasks, ready_queue, current_task, next_pid,
                   open_ptys, slave_pid, unclaimed>>

-----------------------------------------------------------------------------
(* Reaping.                                                                *)

\* Slip: statuses are not kept.
Reapable_Uncollected(a, tk) == a # current_task /\ tk[a].state = "TERMINATED"

\* What the scan of task_reap_terminated accepts as its victim.
Reapable(a, tk) ==
    /\ a # current_task
    /\ tk[a].state = "TERMINATED"
    /\ ~tk[a].reap_blocked

\* task_list_insert links at the head and pids only grow, so the list is
\* walked from the highest pid down; this is the first task of S met.
FirstInList(a, S) == a \in S /\ \A b \in S : task[b].pid <= task[a].pid

pty_detach_slave(pids) ==
    [p \in Ptys |-> IF p \in open_ptys /\ slave_pid[p] \in pids \ {0}
                    THEN 0 ELSE slave_pid[p]]

-----------------------------------------------------------------------------
(* System calls made in user mode.                                         *)

Call(name) == here.pc = "user" /\ name \in Calls[me.prog]

\* pty_is_open and pty_attach_slave both succeed; without a PTY neither runs.
CanAttach(pty, pid) == pty = NoPty \/ (pty \in open_ptys /\ slave_pid[pty] \in {0, pid})

\* task_create_user and the attach of spawn_task_from_cmdline succeed.
SpawnOk(a, prog, pty) ==
    /\ a \in Addr \ heap
    /\ next_pid <= MaxPid
    /\ CanAttach(pty, next_pid)
    /\ task' = [task EXCEPT ![a] = [NewTask(next_pid, me.pid, prog) EXCEPT !.pty_id = pty]]
    /\ heap' = heap \cup {a}
    /\ tasks' = tasks \cup {a}
    /\ ready_queue' = scheduler_add_task(ready_queue, "READY", a)
    /\ next_pid' = next_pid + 1
    /\ slave_pid' = IF pty = NoPty THEN slave_pid ELSE [slave_pid EXCEPT ![pty] = next_pid]
    /\ UNCHANGED <<current_task, open_ptys, unclaimed>>

\* The attach fails: the fresh task is killed, then every terminated task
\* that is not blocked is reaped together with it, without preemption.
SpawnRefused(a, pty) ==
    /\ a \in Addr \ heap
    /\ next_pid <= MaxPid
    /\ ~CanAttach(pty, next_pid)
    /\ LET victims == {b \in tasks : Reapable(b, task)}
       IN  /\ tasks' = tasks \ victims
           /\ heap' = heap \ victims
           /\ slave_pid' = pty_detach_slave({task[b].pid : b \in victims} \cup {next_pid})
    /\ next_pid' = next_pid + 1
    /\ UNCHANGED <<task, ready_queue, current_task, cpu, open_ptys, unclaimed>>

\* A task_t was allocated, then the stack, the address space, the image or
\* the arguments failed: all is given back but the pid stays used.
SpawnNoMemory ==
    /\ heap # Addr
    /\ next_pid <= MaxPid
    /\ next_pid' = next_pid + 1
    /\ UNCHANGED <<task, heap, tasks, ready_queue, current_task, cpu, open_ptys,
                   slave_pid, unclaimed>>

\* sys_exec runs a program on the caller's own PTY and waits for it.
sys_exec ==
    /\ Call("exec")
    /\ \/ \E a \in Addr, prog \in Programs :
             /\ SpawnOk(a, prog, me.pty_id)
             /\ cpu' = [cpu EXCEPT ![a] = Context("user"),
                                   ![current_task].pc = "wait",
                                   ![current_task].target = next_pid]
       \/ \E a \in Addr : SpawnRefused(a, me.pty_id)
       \/ SpawnNoMemory

\* sys_pty_spawn starts a program on an open PTY and returns at once.
sys_pty_spawn ==
    /\ Call("pty_spawn")
    /\ \E pty \in open_ptys :
          \/ \E a \in Addr, prog \in Programs :
                /\ SpawnOk(a, prog, pty)
                /\ cpu' = [cpu EXCEPT ![a] = Context("user")]
          \/ \E a \in Addr : SpawnRefused(a, pty)
          \/ SpawnNoMemory

sys_waitpid ==
    /\ Call("waitpid")
    /\ \E target \in {-1} \cup 1 .. MaxPid :
          cpu' = [cpu EXCEPT ![current_task].pc = "wait",
                             ![current_task].target = target]
    /\ UNCHANGED <<task, heap, tasks, ready_queue, current_task, next_pid,
                   open_ptys, slave_pid, unclaimed>>

sys_pty_open ==
    /\ Call("pty_open")
    /\ \E p \in Ptys \ open_ptys :
          /\ \A q \in Ptys \ open_ptys : p <= q
          /\ open_ptys' = open_ptys \cup {p}
          /\ slave_pid' = [slave_pid EXCEPT ![p] = 0]
    /\ UNCHANGED <<task, heap, tasks, ready_queue, current_task, next_pid, cpu, unclaimed>>

sys_pty_close ==
    /\ Call("pty_close")
    /\ \E p \in open_ptys :
          /\ slave_pid[p] = 0
          /\ open_ptys' = open_ptys \ {p}
    /\ UNCHANGED <<task, heap, tasks, ready_queue, current_task, next_pid, cpu,
                   slave_pid, unclaimed>>

\* terminal_wait_input polls for a key or PTY byte and may be preempted.
sys_read ==
    /\ Call("read")
    /\ task' = [task EXCEPT ![current_task].kernel_preempt_ok = TRUE]
    /\ cpu' = [cpu EXCEPT ![current_task].pc = "input"]
    /\ UNCHANGED <<heap, tasks, ready_queue, current_task, next_pid, open_ptys,
                   slave_pid, unclaimed>>

InputArrives ==
    /\ here.pc = "input"
    /\ task' = [task EXCEPT ![current_task].kernel_preempt_ok = FALSE]
    /\ cpu' = [cpu EXCEPT ![current_task].pc = "user"]
    /\ UNCHANGED <<heap, tasks, ready_queue, current_task, next_pid, open_ptys,
                   slave_pid, unclaimed>>

\* sys_sleep and the network calls spin in the kernel without ever letting
\* the scheduler switch; they end at a deadline.
sys_sleep ==
    /\ Call("sleep")
    /\ cpu' = [cpu EXCEPT ![current_task].pc = "busy"]
    /\ UNCHANGED <<task, heap, tasks, ready_queue, current_task, next_pid,
                   open_ptys, slave_pid, unclaimed>>

SleepEnds ==
    /\ here.pc = "busy"
    /\ cpu' = [cpu EXCEPT ![current_task].pc = "user"]
    /\ UNCHANGED <<task, heap, tasks, ready_queue, current_task, next_pid,
                   open_ptys, slave_pid, unclaimed>>

\* Slip: pty_detach_slave is not called.
task_exit_KeepsPty(code) ==
    /\ Call("exit")
    /\ task' = [a \in Addr |->
         IF a = current_task
         THEN [me EXCEPT !.pty_id = NoPty, !.exit_code = code,
                         !.reap_blocked = me.parent_pid # 0, !.state = "TERMINATED"]
         ELSE IF a \in tasks /\ task[a].parent_pid = me.pid
              THEN [task[a] EXCEPT !.parent_pid = 0, !.reap_blocked = FALSE]
              ELSE task[a]]
    /\ UNCHANGED slave_pid
    /\ ready_queue' = scheduler_remove_task(ready_queue, current_task)
    /\ cpu' = [cpu EXCEPT ![current_task].pc = "dead"]
    /\ unclaimed' = {u \in unclaimed : u.parent # me.pid} \cup
                    {u \in [parent : {me.parent_pid}, child : {me.pid}, code : {code}] :
                        u.parent # 0}
    /\ UNCHANGED <<heap, tasks, current_task, next_pid, open_ptys>>

\* task_exit orphans the children, leaves the PTY, keeps the status for the
\* parent and halts until the timer takes the CPU away for good.
task_exit(code) ==
    /\ Call("exit")
    /\ task' = [a \in Addr |->
         IF a = current_task
         THEN [me EXCEPT !.pty_id = NoPty, !.exit_code = code,
                         !.reap_blocked = me.parent_pid # 0, !.state = "TERMINATED"]
         ELSE IF a \in tasks /\ task[a].parent_pid = me.pid
              THEN [task[a] EXCEPT !.parent_pid = 0, !.reap_blocked = FALSE]
              ELSE task[a]]
    /\ slave_pid' = pty_detach_slave({me.pid})
    /\ ready_queue' = scheduler_remove_task(ready_queue, current_task)
    /\ cpu' = [cpu EXCEPT ![current_task].pc = "dead"]
    /\ unclaimed' = {u \in unclaimed : u.parent # me.pid} \cup
                    {u \in [parent : {me.parent_pid}, child : {me.pid}, code : {code}] :
                        u.parent # 0}
    /\ UNCHANGED <<heap, tasks, current_task, next_pid, open_ptys>>

-----------------------------------------------------------------------------
(* task_wait_pid and the task_reap_terminated it calls.                    *)

Children == {a \in tasks : task[a].parent_pid = me.pid}

Awaited == {a \in Children : here.target \in {-1, task[a].pid}}

ExitedChildren == {a \in Awaited : task[a].state = "TERMINATED"}

\* From here on the waiter can be preempted in kernel mode.
WaitEnter ==
    /\ here.pc = "wait"
    /\ task' = [task EXCEPT ![current_task].kernel_preempt_ok = TRUE]
    /\ cpu' = [cpu EXCEPT ![current_task].pc = "scan", ![current_task].intr = TRUE]
    /\ UNCHANGED <<heap, tasks, ready_queue, current_task, next_pid, open_ptys,
                   slave_pid, unclaimed>>

\* An exited child is found: its status is read and it may now be reaped.
WaitCollects ==
    /\ here.pc = "scan"
    /\ \E child \in ExitedChildren :
          /\ FirstInList(child, ExitedChildren)
          /\ task' = [task EXCEPT ![child].reap_blocked = FALSE]
          /\ unclaimed' = unclaimed \ {[parent |-> me.pid, child |-> task[child].pid,
                                        code |-> task[child].exit_code]}
    /\ cpu' = [cpu EXCEPT ![current_task].pc = "pick"]
    /\ UNCHANGED <<heap, tasks, ready_queue, current_task, next_pid, open_ptys, slave_pid>>

\* Slip: the error return leaves the task preemptible in the kernel.
WaitFails_LeavesFlag ==
    /\ here.pc = "scan"
    /\ Awaited = {}
    /\ cpu' = [cpu EXCEPT ![current_task] = Context("user")]
    /\ UNCHANGED <<task, heap, tasks, ready_queue, current_task, next_pid, open_ptys,
                   slave_pid, unclaimed>>

\* No such child: the call returns -1.
WaitFails ==
    /\ here.pc = "scan"
    /\ Awaited = {}
    /\ task' = [task EXCEPT ![current_task].kernel_preempt_ok = FALSE]
    /\ cpu' = [cpu EXCEPT ![current_task] = Context("user")]
    /\ UNCHANGED <<heap, tasks, ready_queue, current_task, next_pid, open_ptys,
                   slave_pid, unclaimed>>

WaitBlocks ==
    /\ here.pc = "scan"
    /\ Awaited # {}
    /\ ExitedChildren = {}
    /\ cpu' = [cpu EXCEPT ![current_task].pc = "hlt"]
    /\ UNCHANGED <<task, heap, tasks, ready_queue, current_task, next_pid,
                   open_ptys, slave_pid, unclaimed>>

\* The reaper chooses its victim in one critical section ...
ReapPick ==
    /\ here.pc = "pick"
    /\ \E v \in tasks :
          /\ FirstInList(v, {a \in tasks : Reapable(a, task)})
          /\ cpu' = [cpu EXCEPT ![current_task].pc = "unlink", ![current_task].victim = v]
    /\ UNCHANGED <<task, heap, tasks, ready_queue, current_task, next_pid,
                   open_ptys, slave_pid, unclaimed>>

\* Slip: the victim is destroyed while still linked.
ReapUnlink_Skipped ==
    /\ here.pc = "unlink"
    /\ cpu' = [cpu EXCEPT ![current_task].pc = "destroy"]
    /\ UNCHANGED <<task, heap, tasks, ready_queue, current_task, next_pid, open_ptys,
                   slave_pid, unclaimed>>

\* ... and unlinks it, by address, in the next one.
ReapUnlink ==
    /\ here.pc = "unlink"
    /\ tasks' = tasks \ {here.victim}
    /\ cpu' = [cpu EXCEPT ![current_task].pc =
                   IF here.victim \in tasks THEN "destroy" ELSE "pick"]
    /\ UNCHANGED <<task, heap, ready_queue, current_task, next_pid, open_ptys,
                   slave_pid, unclaimed>>

ReapDestroy ==
    /\ here.pc = "destroy"
    /\ slave_pid' = pty_detach_slave({task[here.victim].pid})
    /\ heap' = heap \ {here.victim}
    /\ cpu' = [cpu EXCEPT ![current_task].pc = "pick"]
    /\ UNCHANGED <<task, tasks, ready_queue, current_task, next_pid, open_ptys, unclaimed>>

\* Nothing is left to reap: the wait returns the child's pid.
WaitReturns ==
    /\ here.pc = "pick"
    /\ {a \in tasks : Reapable(a, task)} = {}
    /\ task' = [task EXCEPT ![current_task].kernel_preempt_ok = FALSE]
    /\ cpu' = [cpu EXCEPT ![current_task] = Context("user")]
    /\ UNCHANGED <<heap, tasks, ready_queue, current_task, next_pid, open_ptys,
                   slave_pid, unclaimed>>

task_wait_pid ==
    \/ WaitEnter \/ WaitCollects \/ WaitFails \/ WaitBlocks
    \/ ReapPick \/ ReapUnlink \/ ReapDestroy \/ WaitReturns

-----------------------------------------------------------------------------
UserCall ==
    \/ sys_exec \/ sys_pty_spawn \/ sys_waitpid \/ sys_pty_open \/ sys_pty_close
    \/ sys_read \/ sys_sleep \/ \E code \in ExitCodes : task_exit(code)

KernelStep == task_wait_pid \/ WakeFromHlt \/ SleepEnds

Next == schedule_from_irq \/ UserCall \/ KernelStep \/ InputArrives

\* From some point on no task is in sys_sleep or in a network call.
SleepingStops == <>[](\A a \in Addr : cpu[a].pc # "busy")

\* The PIT interrupts forever, and a tick raised while interrupts are off is
\* latched until they are on again, so code that stays preemptible is
\* preempted.  Nothing but those calls keeps step with the ticks, so without
\* them a tick also finds code that is preemptible only now and then; but
\* sys_sleep absorbs its ticks and returns right after one, and a program
\* that sleeps in a loop may never be in user mode when a tick comes.  A task
\* that is dispatched over and over executes its kernel code between two
\* ticks.  Programs promise nothing.
Fairness ==
    /\ WF_vars(schedule_from_irq)
    /\ SleepingStops => SF_vars(schedule_from_irq)
    /\ \A a \in Addr : SF_vars(current_task = a /\ KernelStep)

Spec == Init /\ [][Next]_vars /\ Fairness

-----------------------------------------------------------------------------
Pids == 0 .. MaxPid

TaskRecord ==
    [pid : Pids, parent_pid : Pids, state : {"READY", "RUNNING", "TERMINATED"},
     prog : Programs, kernel_preempt_ok : BOOLEAN, pty_id : Ptys \cup {NoPty},
     reap_blocked : BOOLEAN, exit_code : ExitCodes]

SavedContext ==
    [pc : {"user", "idle", "dead", "wait", "scan", "hlt", "pick", "unlink",
           "destroy", "input", "busy"},
     intr : BOOLEAN, target : {-1} \cup Pids, victim : Addr \cup {Nil}]

\* Every variable keeps its type.
TypeOK ==
    /\ task \in [Addr -> TaskRecord]
    /\ heap \subseteq Addr
    /\ tasks \subseteq Addr
    /\ ready_queue \in Seq(Addr)
    /\ current_task \in Addr
    /\ next_pid \in 1 .. MaxPid + 1
    /\ cpu \in [Addr -> SavedContext]
    /\ open_ptys \subseteq Ptys
    /\ slave_pid \in [Ptys -> Pids]
    /\ unclaimed \subseteq [parent : Pids, child : Pids, code : ExitCodes]

Alive(a) == a \in tasks /\ task[a].state # "TERMINATED"

\* No task is lost or run twice: a user task that has not exited is either
\* the current one or waits in the ready queue exactly once, and the queue
\* holds nothing else but idle.
RunnableQueuedOnce ==
    /\ \A i, j \in 1 .. Len(ready_queue) : ready_queue[i] = ready_queue[j] => i = j
    /\ \A a \in Addr \ {Idle} :
          Positions(ready_queue, a) # {} <=> Alive(a) /\ a # current_task

\* The CPU is never on a task whose memory has been given back.
CurrentAllocated == current_task \in heap

\* A status that its parent has not collected is still there to be collected,
\* whatever other tasks reap meanwhile; and whoever is named as a parent can
\* still wait, for task_exit leaves no task pointing at a parent that is gone.
ZombieKeptForParent ==
    /\ \A u \in unclaimed :
          \E a \in tasks :
              /\ task[a].pid = u.child
              /\ task[a].parent_pid = u.parent
              /\ task[a].state = "TERMINATED"
              /\ task[a].reap_blocked
              /\ task[a].exit_code = u.code
    /\ \A a \in tasks : task[a].parent_pid # 0 =>
          \E b \in tasks : Alive(b) /\ task[b].pid = task[a].parent_pid

\* A PTY is bound to a slave exactly as long as a live task is bound to it,
\* so pty_close, which host programs use to see that the program on the PTY
\* has ended, answers truly.
PtyBoundToLiveTask ==
    /\ \A p \in Ptys : slave_pid[p] # 0 =>
          /\ p \in open_ptys
          /\ \E a \in tasks : Alive(a) /\ task[a].pid = slave_pid[p] /\ task[a].pty_id = p
    /\ \A a \in tasks : task[a].pty_id # NoPty => slave_pid[task[a].pty_id] = task[a].pid

\* kernel_preempt_ok never leaks out of the two waits that set it: were it
\* left set, the creation of a task could be preempted half way.
PreemptOnlyInWaits ==
    \A a \in Addr : task[a].kernel_preempt_ok <=>
        cpu[a].pc \in {"scan", "hlt", "pick", "unlink", "destroy", "input"}

\* A task ends once.  Its status is delivered to a waiting parent once, and is
\* the status it exited with; and its memory is given back once, when it is
\* dead, off the CPU, out of the ready queue and out of the task list.
EndsOnce ==
    [][/\ \A a \in Addr : (cpu[a].pc = "scan" /\ cpu'[a].pc = "pick") =>
             \E u \in unclaimed : u.parent = task[a].pid /\ unclaimed' = unclaimed \ {u}
       /\ \A a \in heap : a \notin heap' =>
             /\ task[a].state = "TERMINATED"
             /\ a # current_task
             /\ Positions(ready_queue, a) = {}
             /\ a \notin tasks']_vars

\* Round robin among user tasks: a queued user task gets the CPU, unless some
\* task goes on sleeping for ever: sys_sleep keeps the CPU through every tick
\* (scheduler.c:165), and a loop over it can starve every other task.
ReadyTaskRuns ==
    SleepingStops => \A a \in Addr \ {Idle} :
        (Positions(ready_queue, a) # {}) ~> (current_task = a)

\* A parent waiting for any child gets its answer once a child has exited,
\* with the same exception: a third task that sleeps over and over can keep
\* the CPU from the parent.
WaitEventuallyReturns ==
    SleepingStops => \A a \in Addr \ {Idle} :
        (/\ cpu[a].pc \in {"wait", "scan", "hlt", "pick"}
         /\ \E u \in unclaimed : u.parent = task[a].pid /\ cpu[a].target \in {-1, u.child})
        ~> (cpu[a].pc = "user")

\* Once every user task has exited the idle loop has the CPU again.
IdleRunsWhenAllExited ==
    (\A a \in tasks \ {Idle} : task[a].state = "TERMINATED") ~> (current_task = Idle)
=============================================================================
