--------------------------------- MODULE Pty ---------------------------------
(***************************************************************************)
(* Pseudo terminals, src/kernel/pty.c: a table of sessions, each with two  *)
(* rings of bytes between its host (a program that opened it, the desktop  *)
(* or ptysh) and its slave (the task started on it).  Every function runs  *)
(* with interrupts disabled, so each call is one action.  Tasks reach them *)
(* through task/syscall.c, task.c and terminal.c.                          *)
(***************************************************************************)
EXTENDS Integers, Sequences

CONSTANTS PtyCount,  \* PTY_MAX_COUNT
          BufSize,   \* PTY_BUF_SIZE
          Bytes,     \* byte values
          Chunks,    \* buffers a write may offer, bounded
          Pids,      \* pids of tasks that may run on a PTY
          NoPty      \* pty_id -1

Ptys == 0 .. PtyCount - 1

Cells == 0 .. BufSize - 1

PtyAssumption ==
    /\ PtyCount \in Nat \ {0}
    /\ BufSize \in Nat \ {0}
    /\ 0 \in Bytes
    /\ Chunks \subseteq Seq(Bytes)
    /\ Pids \subseteq Nat \ {0}
    /\ NoPty \notin Ptys

ASSUME PtyConstants == PtyAssumption

VARIABLES used,           \* sessions that are open
          slave_pid,      \* the task attached to each session, or 0
          host_to_slave,  \* rings
          slave_to_host,
          pty_id,         \* pty_id of each task
          last_read       \* the bytes the last read returned

ptyVars == <<used, slave_pid, host_to_slave, slave_to_host, pty_id, last_read>>

-----------------------------------------------------------------------------
(* Rings.                                                                  *)

EmptyRing == [data |-> [i \in Cells |-> 0], head |-> 0, tail |-> 0, count |-> 0]

\* The bytes a reset or a pop leaves behind are written again before they are
\* read; the model forgets them.
ring_reset(r) == EmptyRing

Least(m, n) == IF m < n THEN m ELSE n

\* Slip: head moves by what was offered, not by what was taken.
Pushed_MovesTooFar(r, chunk) ==
    LET n == Least(Len(chunk), BufSize - r.count)
    IN  [data  |-> [i \in Cells |->
                      LET k == (i - r.head) % BufSize
                      IN  IF k < n THEN chunk[k + 1] ELSE r.data[i]],
         head  |-> (r.head + Len(chunk)) % BufSize,
         tail  |-> r.tail,
         count |-> r.count + n]

\* ring_push for each byte of the chunk until the ring is full.
Pushed(r, chunk) ==
    LET n == Least(Len(chunk), BufSize - r.count)
    IN  [data  |-> [i \in Cells |->
                      LET k == (i - r.head) % BufSize
                      IN  IF k < n THEN chunk[k + 1] ELSE r.data[i]],
         head  |-> (r.head + n) % BufSize,
         tail  |-> r.tail,
         count |-> r.count + n]

\* ring_pop until n bytes are out or the ring is empty.
Popped(r, n) ==
    LET taken == Least(n, r.count)
    IN  [data  |-> [i \in Cells |-> IF (i - r.tail) % BufSize < taken THEN 0 ELSE r.data[i]],
         head  |-> r.head,
         tail  |-> (r.tail + taken) % BufSize,
         count |-> r.count - taken]

PoppedBytes(r, n) ==
    [i \in 1 .. Least(n, r.count) |-> r.data[(r.tail + i - 1) % BufSize]]

-----------------------------------------------------------------------------
(* Sessions.                                                               *)

\* pty_init
PtyInit ==
    /\ used = {}
    /\ slave_pid = [p \in Ptys |-> 0]
    /\ host_to_slave = [p \in Ptys |-> EmptyRing]
    /\ slave_to_host = [p \in Ptys |-> EmptyRing]
    /\ pty_id = [t \in Pids |-> NoPty]
    /\ last_read = <<>>

pty_open(p) ==
    /\ p \notin used
    /\ 0 .. p - 1 \subseteq used
    /\ used' = used \cup {p}
    /\ slave_pid' = [slave_pid EXCEPT ![p] = 0]
    /\ host_to_slave' = [host_to_slave EXCEPT ![p] = ring_reset(@)]
    /\ slave_to_host' = [slave_to_host EXCEPT ![p] = ring_reset(@)]
    /\ UNCHANGED <<pty_id, last_read>>

pty_close(p) ==
    /\ p \in used
    /\ slave_pid[p] = 0
    /\ used' = used \ {p}
    /\ slave_pid' = [slave_pid EXCEPT ![p] = 0]
    /\ host_to_slave' = [host_to_slave EXCEPT ![p] = ring_reset(@)]
    /\ slave_to_host' = [slave_to_host EXCEPT ![p] = ring_reset(@)]
    /\ UNCHANGED <<pty_id, last_read>>

\* A task is started on a session: the attach and the assignment of pty_id
\* in spawn_task_from_cmdline.  A pid is used once.
pty_attach_slave(p, t) ==
    /\ pty_id[t] = NoPty
    /\ p \in used
    /\ slave_pid[p] \in {0, t}
    /\ slave_pid' = [slave_pid EXCEPT ![p] = t]
    /\ pty_id' = [pty_id EXCEPT ![t] = p]
    /\ UNCHANGED <<used, host_to_slave, slave_to_host, last_read>>

\* The task exits: pty_detach_slave and pty_id = -1 in task_exit.
pty_detach_slave(t) ==
    /\ pty_id[t] # NoPty
    /\ slave_pid' = [p \in Ptys |-> IF p \in used /\ slave_pid[p] = t THEN 0 ELSE slave_pid[p]]
    /\ pty_id' = [pty_id EXCEPT ![t] = NoPty]
    /\ UNCHANGED <<used, host_to_slave, slave_to_host, last_read>>

\* pty_task_attached_locked
Attached(t) == pty_id[t] \in used /\ slave_pid[pty_id[t]] = t

\* terminal_read of an attached task, which has waited for a byte to be there.
pty_slave_read(t, n) ==
    /\ Attached(t)
    /\ LET p == pty_id[t]
       IN  /\ host_to_slave[p].count > 0
           /\ last_read' = PoppedBytes(host_to_slave[p], n)
           /\ host_to_slave' = [host_to_slave EXCEPT ![p] = Popped(@, n)]
    /\ UNCHANGED <<used, slave_pid, slave_to_host, pty_id>>

\* terminal_write of an attached task, which ignores how much was taken.
pty_slave_write(t, chunk) ==
    /\ Attached(t)
    /\ slave_to_host' = [slave_to_host EXCEPT ![pty_id[t]] = Pushed(@, chunk)]
    /\ UNCHANGED <<used, slave_pid, host_to_slave, pty_id, last_read>>

\* sys_pty_read; with nothing to read it answers 0 and changes nothing.
pty_host_read(p, n) ==
    /\ p \in used
    /\ slave_to_host[p].count > 0
    /\ last_read' = PoppedBytes(slave_to_host[p], n)
    /\ slave_to_host' = [slave_to_host EXCEPT ![p] = Popped(@, n)]
    /\ UNCHANGED <<used, slave_pid, host_to_slave, pty_id>>

\* sys_pty_write
pty_host_write(p, chunk) ==
    /\ p \in used
    /\ host_to_slave' = [host_to_slave EXCEPT ![p] = Pushed(@, chunk)]
    /\ UNCHANGED <<used, slave_pid, slave_to_host, pty_id, last_read>>

-----------------------------------------------------------------------------
\* A task started on a session keeps it until it exits, and it is alone on
\* it: no close, reopening or second start takes the session away.
SlaveKeepsSession ==
    /\ \A t \in Pids : pty_id[t] # NoPty => Attached(t)
    /\ \A p \in Ptys : slave_pid[p] # 0 => pty_id[slave_pid[p]] = p

\* The bytes a ring holds, oldest first.
Contents(r) == [i \in 1 .. r.count |-> r.data[(r.tail + i - 1) % BufSize]]

Channel == INSTANCE PtyChannel WITH
    Sessions <- Ptys, Capacity <- BufSize, Chunks <- Chunks, live <- used,
    to_slave <- [p \in Ptys |-> Contents(host_to_slave[p])],
    to_host <- [p \in Ptys |-> Contents(slave_to_host[p])],
    got <- last_read

\* The rings are the two queues of the abstract channel: bytes arrive once,
\* in order and in the session they were written in, through every wrap of
\* head and tail, a full ring and the reuse of a slot.
ImplementsPtyChannel == Channel!CSpec
=============================================================================
