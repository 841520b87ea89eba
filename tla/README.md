# A TLA+ model of SzczupakOS

SzczupakOS is a small x86_64 kernel (one CPU, preemptive round robin, a
doubly-linked heap, a bitmap page allocator, FAT16 and tmpfs, a polled
network stack over an RTL8139 or an E1000, PS/2 and USB input, pseudo
terminals) with a shell, a desktop and some command line programs. This
directory models its core in TLA+, model-checks small instances with TLC and
proves general statements with TLAPS. Source paths below are relative to
`src/src/`.

## Inventory

| Part | State | Operations | Depends on |
|---|---|---|---|
| page allocator `kernel/mm/pmm.c` | bitmap, used count, next-fit hint | init, reserve, alloc, free | memory map (`multiboot2.c`) |
| heap `kernel/mm/heap.c` | doubly linked block list over a static array | kmalloc, kfree | nothing |
| virtual memory `kernel/mm/vmm.c`, `uaccess.c`, `kernel/loader/elf.c` | page tables, kernel page window, user mappings | create/destroy space, map, copy to and from user, load | page allocator, heap |
| scheduler `kernel/task/scheduler.c` | ready queue by priority | add, remove, schedule_from_irq | timer interrupt |
| tasks `kernel/task/task.c` | list of `task_t`, current task, pid counter, per-task preemption flag | create, exit, wait, reap | scheduler, heap, vmm, PTYs |
| system calls `kernel/task/syscall.c` | none of its own | dispatch to all other parts | everything |
| PTYs `kernel/pty.c` | 8 sessions: slave pid, two 4096-byte rings | open, close, attach, detach, read and write at both ends | tasks |
| terminal `kernel/terminal.c` | cursor | write, blocking read | PTYs, keyboard, serial, `net_poll` |
| network `kernel/net/*` | rings of the card, ARP cache, DNS cache, DHCP, ICMP and TCP client state, one reentrancy flag | poll, and blocking calls that poll until a deadline | timer, card |
| file systems `kernel/fs/*`, disk `kernel/drivers/ata.c` | mounts, nodes, FAT and directory sectors, tmpfs buffers | open, read, write, create, delete, mount | disk, heap |
| input `kernel/drivers/keyboard.c`, `mouse.c`, `serial.c`, `usb/*` | rings fed by interrupts or polls, modifiers, USB addresses and data toggles | interrupt, inject, enumerate, poll, read | interrupts |
| desktop `userland/programs/desktop/*` | windows, their order, what is on the screen, file panel, scrollback, history, the session of an external command | a loop of keyboard, mouse, command, panels and frame | PTYs, waitpid, files, framebuffer |
| shell, ptysh, other programs `userland/*` | a PTY session (ptysh) | system calls | PTYs, network, files |

What is hard here:

* **Preemption inside the kernel.** A task is switched away in kernel mode
  only while its `kernel_preempt_ok` is set, in `task_wait_pid` and
  `terminal_wait_input`. Everything these two call (the reaper, `net_poll`,
  `usb_poll`) can be left half way; everything else relies on not being.
* **Life and death of tasks.** Exit, a waiting parent, a reaper running in a
  third task and the reuse of a freed `task_t` address meet over one zombie.
* **Memory that runs out half way.** Making a process takes tables, segments,
  a user stack and a kernel stack from the page allocator, in this order, and
  each of them may be the one that is not there.
* **PTY sessions** follow the life of the slave task; hosts use a refused
  `pty_close` to learn that it still lives.
* **Allocators** with rounding, wrap-around and merging.
* **An unreliable network.** Segments, offers and answers are lost, repeated,
  late, and meet the state of a later call; every call must still return.
* **A poll inside a poll.** A handler inside `net_poll` may itself resolve an
  address by polling, and a task may be preempted inside its poll.
* **Devices that work beside their drivers.** A card fills and empties rings
  between any two register accesses; a USB device repeats a report whose
  acknowledgement was lost.
* **A disk that fails or stops.** An update of FAT16 is several sector writes
  with no journal, and the node tree in memory must agree with the disk.
* **A screen repainted in parts.** A frame repaints what changed, under a
  cursor that saves and restores what is below it.

`PROJECT.json` lists each of these as a hazard at its line, with the
properties that watch it; a hazard that nothing covers yet says why.

What makes each part correct, in one line each: the allocators never give
memory out twice and fail only when full; every frame has one owner and comes
back, and the kernel touches of a program's memory only what the program may;
a task that has not exited runs, and its status reaches its parent once; a PTY
is a pair of bounded FIFO queues that stays with its slave; a network call
returns, with bytes that belong to it; a lease or an answer comes from whom it
should; a file reads as written and is there after a reboot; keys, movements
and frames arrive once, whole and in order; the screen shows the windows, and
input goes to the window it shows on top.

## Modules

| Module | Models |
|---|---|
| `PageAllocator` | the promise of a page allocator: runs of free pages, failure only if there is none |
| `Pmm` | `pmm.c` |
| `AddressSpace` | over `Pmm`: `vmm.c`, `elf.c`, and what `task_create_user` and `task_destroy` do with frames |
| `UserAccess` | over `AddressSpace`: `uaccess.c`; `MCMemory` has the instance of all of memory, `MemoryProofs` the proofs about `Pmm`, `AddressSpace` and `UserAccess` |
| `ReadyQueue` | the list surgery of `scheduler.c` on sequences |
| `Tasking` | `scheduler.c`, `task.c`, the task calls of `syscall.c` and the PTY table; `MCTasking` has the instances, `TaskingProofs` the proofs |
| `Heap` | `heap.c`; `HeapProofs` |
| `PtyChannel` | the promise of a PTY: two bounded FIFO queues per session |
| `Pty` | `pty.c` and its rings |
| `DesktopShell` | over `Pty`: the desktop's shell window, the programs it runs, and ptysh |
| `DesktopWindows` | windows, focus, and what a frame repaints |
| `Desktop` | both under the desktop's loop, with the file panel; `MCDesktop` has the users, `DesktopProofs` the proofs about `Pty` and the desktop |
| `NetPoll` | `net_poll`, its reentrancy flag, ARP resolution, and the tasks that poll, under interrupts; `NetPollProofs` |
| `TcpClient` | `net_tcp.c` and the HTTP client: one request or probe at a time, resets for the rest; `TcpProofs` |
| `Dhcp` | the DHCP exchange and the fallback of boot |
| `Dns` | the resolver and its cache |
| `Icmp` | ping, traceroute and the ARP cache; `MCNetServices` has the instance of these three, `NetServicesProofs` the proofs |
| `Input` | `keyboard.c`, `mouse.c` and their readers |
| `UsbHid` | over `Input`: `usb/uhci.c` |
| `Nic` | `net_driver.c`: E1000 and RTL8139; `MCDevices` has the instance of these three, `DeviceProofs` the proofs |
| `Tmpfs` | `tmpfs.c` |
| `FileSystem` | `fat16.c` under `vfs.c` with `Tmpfs` mounted over one name, the file calls of `syscall.c`, the mounts of boot; `MCFileSystem` has the instance |

Operators named `X_Slip` after an operator `X` (for example `InOrder_Always`)
are deliberately faulty forms of `X`. They are used only to show that a
property notices such a slip; the specifications do not use them.

A `TypeOK` documents the types of a module's state; for `Tasking` and `Pmm` it
is proved.

### Pmm

`bitmap` is the set of pages whose bit is set, `used_pages` and `hint` are
`pmm_used_pages` and `last_alloc_hint`. Each function holds `pmm_lock` with
interrupts off, so each call is one action. Byte ranges are rounded to pages
as `pmm_mark_used_locked` does. `runs` and `reserved` are history: what
clients hold and which byte ranges boot withdrew. Clients free runs they hold
or make calls that the checks of `pmm_free_pages` refuse; a free of part of a
foreign run is outside the contract of every caller.

### AddressSpace and UserAccess

Page tables are frames, entries hold a frame and flags, and a walk follows
them; tables hold a few entries instead of 512. Every call of `pmm_alloc_pages`
and `pmm_free_pages` is a step of its own, and each may be the one that finds
no memory, so `call` (the one creation or destruction under way, which the
kernel does not preempt) has a state for every place from which the code undoes
what it has. `dropped` is history: frames that belong to nobody any more
because the code forgot them (see Observations); `FramesOwnedOnce` says that
every other allocated frame is reached from exactly one owner.
`vmm_destroy_address_space` gives a table back after everything below it:
`Places` are the places of the tree with a frame, each named by the last page
below it and its level, and the work left of them is done in that order.
`UserAccess` adds the page-by-page loops of checking and copying user ranges
and strings, with their partial effect when a page is missing; `reply` is
the last call with its result, `written` the history of what programs had
written in their memory, which reads must return and writes may change only
within their range.

### Tasking

`task`, `heap`, `tasks` and `ready_queue` are the `task_t` contents, the
allocated addresses, `task_list_head` and the ready queue. A freed address
may be used again for a new task, which is what makes stale pointers visible.
`cpu[a]` is the saved context: `pc` says where the task is ("user", the steps
of `task_wait_pid` and `task_reap_terminated`, "input" for
`terminal_wait_input`, "busy" for a sleep or a blocking network call, "dead"
after exit), `target` and `victim` are locals, `intr` is the interrupt flag.
`schedule_from_irq` is enabled where the test in the code lets it switch:
user mode, idle, terminated tasks, `kernel_preempt_ok`. A system call that
cannot be preempted is one action, with the failure paths of
`spawn_task_from_cmdline` and `task_create_user` as alternatives. The wait
and the reaper are one action per critical section. `unclaimed` is history:
exit statuses a live parent has not yet collected.

The programs are a parameter (`Calls`): what they compute is irrelevant, they
make their calls in any order.

### Heap

`hdr` maps the offset of each linked header to its fields; the pointers
`next` and `prev` are kept as the code keeps them. The walk of `kmalloc` is
one action per block because it merges on its way; nothing else happens in
between, as the lock is held with interrupts off.

### Pty and the desktop

`Pty`: rings keep `data`, `head`, `tail` and `count`. A call moves as many
bytes as fit or are there, as the loops do. `last_read` is what the last read
returned, so that the refinement compares the bytes delivered too.

`DesktopShell`: each system call of the shell window (open, spawn, read,
write, close, wait) is an action, and so is each of ptysh's; programs write,
read and exit between them. Scrollback and history are rings with the code's
indices. Path resolution works on sequences of names.

`DesktopWindows`: the frame buffer is a grid of cells, scaled so that title
bar, icon and cursor are a cell high; a cell holds what it would show (a panel
in its theme with its contents, a title bar focused or not). What is drawn
inside a cell is left out, but which cells a frame repaints, in which order,
and what the cursor saves and restores is as in the code. `dirty_add` merges a
new rectangle with every one it touches until none is left, as its restarting
loop does.

`Desktop`: the loop's phases are `pc`; the events of a frame, the file panel's
list (a copy that goes stale), its selection and its deletion are actions.
`fs` is the file tree the system calls see, which others change as well.
`DeletesWhatIsShown` compares a deletion with the directory the shell is in and
the name that was marked when the frame was shown. It does not speak of the
"Path:" line above the list: six events in one frame (change the directory,
leave the panel, mark, leave, return, change back) let that line name another
directory than the one the list and the deletion use.

### NetPoll

`ctx[t]` says where a task is outside `net_poll` (in user code, in
`terminal_wait_input` with interrupts off or in its `sti` window, in the `hlt`
of a sleep, resolving the gateway, receiving), `poll[t]` where it is inside
(at a frame, about to answer one, waiting in the `arp_resolve` of that
answer). The timer is two actions: it latches an interrupt, and the interrupt
is delivered when the running task allows it; only then do deadlines count
down and tasks switch. `active` is `g_net_poll_active`: a poll that finds it
set returns at once. Which call an answer belongs to is left to the next
modules.

### TcpClient

`g_tcp_client` and `g_tcp_probe_state` are the code's structures, `rx` the
bytes in `rx_buffer`. A call is `Begin`, then any number of frames given to
`net_handle_tcp` (at most `PollFrames` between two looks), then the looks of
the waiting loops (`ConnectReset`, `ConnectDone`, `ResponseEnds`, ...). The
server keeps per client port its state and how much it was acknowledged; the
network is everything that was ever sent (`toServer`) and everything the
server may repeat (`InFlight`), so any segment may be lost, repeated or late.
Sequence numbers are modulo `SeqSpace`. A behaviour may begin with what an
earlier call left behind at the peer (`LeftBehind`).

### Dhcp, Dns and Icmp

`Dhcp` keeps `g_dhcp` and `g_net_config`; the value of an option is who sent
it in which message, so that mixtures show. `Dns` keeps the cache and the one
outstanding query; an answer carries the transaction number and port of any
query ever sent. Both receive and look as `TcpClient` does. `Icmp` keeps
`g_ping_state`, which ping and traceroute share, the sequence counter and the
ARP cache; a probe resolves its next hop first, travels along `Path` and is
answered by the destination or by the router at which its time to live ends.
Clocks are left out except for the DNS cache: a retry or a deadline may be due
whenever the code compares ticks, and any ARP entry may be the stale one.

### Input, UsbHid and Nic

`Input`: both drivers use their ring or queue with interrupts off, so each scan
code, packet or report is one step. The conversions of movements are modelled
by what they do: a PS/2 packet has nine bits and an overflow flag per axis, of
which `PacketDelta` keeps a signed byte or nothing (`mouse.c:123-127`), and
`Int8` takes -128 to itself (`uhci.c:513`). Both shift keys exist; the PS/2
driver has one flag for them. `typed` is what the person would expect to read, `hand` where the mouse
was moved to, with the clamping of the screen's edge. `Only` is what a loop
over an array keeps: the keys of a report that were not down before, the
interfaces of a device that have a driver.

`UsbHid`: a port is reset, its device addressed and configured, each transfer
possibly failing; then `usb_poll` hands a descriptor to the controller and
looks at it, now or after others have run. There is one descriptor for all
transfers, and two polls may overlap: the first poll of `terminal_wait_input`
runs with interrupts on and `kernel_preempt_ok` set. The device keeps reports until they are
acknowledged, and data toggles on both sides say whether a report is new.
`lost` is history, by kind of device: a report came in just when the driver had
given its poll up, two polls overlapped, a conversion changed a movement, or
one of two held PS/2 shift keys was released. From there on the two properties
promise nothing for that kind.

`Nic`: for the E1000, descriptors with owner and the head and tail registers;
for the RTL8139, one ring of bytes with 4-byte aligned entries that run past
its end, and the transmit buffers used in turn. The card's steps come between
any two of the driver. A call of `send_frame` is three steps (it reads the tail
or `tx_index`, hands its frame over, returns), so that any number of tasks may
be inside: `calls` says how far each is, `left` as history how many frames the
card has to deal with until its own is out. `reused` is history: two calls were
about to use one buffer (`net_driver.c:626-652`, `172-193`), or the driver wrote
into one that the card had not read yet. `astray` is history: the RTL8139 driver
met a header it refuses (`net_driver.c:230-235`), in the model that of a frame
longer than `MaxLength`, and went to the beginning of the ring, which is not
where the card is.

### FileSystem and Tmpfs

`fat`, `data` and `root` are the disk; `nodes` is the list below the root node
in memory; `boot` is what boot has still to do; `op` is the call under way. No
file call is preempted, so one call runs at a time, but each of its sector
writes is a step: it is done, fails without effect, or is done and reported as
failed (`ata.c` flushes after the data, and the second copy of the table is
written after the first). A table read that fails is seen as 0, as
`fat16_read_fat_entry` returns. `Reboot` may come at any step and builds
`nodes` anew from `root`. `kmalloc` may fail. `want` is history: the bytes a
reader may see at each offset of a slot; a failed or interrupted write leaves
both the old and the new one, and a reset (`LeftByReset`) empties the files
whose entry has no cluster, which are those created since the boot before.
`damaged` is history too: the slots whose file is spoilt by a delete cut short
after its first released cluster, by a delete through a name that two files
share, by a table entry misread, or by one of the few others listed under
Observations. The properties speak of all other slots, so they show that the
damage stays with the files concerned, also across the reset or the failure
that caused it; calls made after it are not followed. `Tmpfs` keeps nodes by path with size,
allocated size and bytes; memory from `kmalloc` is `Garbage`.

## Runs

| Run | Instance | Shows |
|---|---|---|
| `memory` | 33 pages of 2 bytes, a memory end inside a page, firmware that leaves from 5 pages to all of them; tables of 2 to 4 entries; two programs (segments that share a page; an empty and a truncated segment); 2 processes, one copy with addresses at and around every edge | reserved bytes never held, every frame owned once and given back, programs have their image, reads truthful, writes confined, refinement of `PageAllocator` |
| `tasking` | desktop, shell and plain programs, 3 user addresses, 1 PTY, 3 pids | no task lost or queued twice, statuses kept until collected, each life ending once, PTY bindings exact, the preemption flag confined; ready tasks run, waits return |
| `tasking_reaper_race` | arbitrary programs, 4 user addresses, 2 PTYs, 5 pids | **violated**, see Findings |
| `tasking_idle_lost` | a shell that exits | **violated**, see Findings |
| `heap` | 24 bytes, 2-byte headers, requests of 1, 3, 5 and 8 | the list tiles the heap, blocks in use are untouched, no spurious failure |
| `desktop` | 3 windows on a screen of 4 by 4 cells, 2 sessions with 2-byte rings, scrollback and history of 2, 11 users | the screen shows the scene, keys go to the top window, rings keep the latest, a command keeps its session and is collected, a deletion hits what the panel shows, the PTY rings are FIFO queues |
| `tcp` | a peer with and one without a server, a 3-byte response into 2 or 3 bytes, sequence numbers that wrap, 1 call after one left behind | the response is stored, cut and reported exactly, in the buffer of its call; probes truthful; calls return and peers forget dead connections |
| `net_services` | 3 DHCP servers with different options (one without address, one that may refuse); 5 names (two spellings of one, one mapped to 0.0.0.0), 2 cache slots, 3 queries, 2 ticks; a neighbour, a gateway and a host 3 hops away with pings of 2 hops, 1 ARP entry, 2 sequence numbers | leases sound and kept, retries end the exchange; answers belong to the name and are fresh; every hop and ping answered by whom it says; frames sent to the next station |
| `net_poll` | 2 tasks that read, sleep and call, deadlines of 2 ticks | one task at a time inside `net_poll`, network calls return |
| `net_poll_hang` | 1 task waiting for input | **violated**, see Findings |
| `files` | 3 clusters of 2 sectors and a spare table entry, 3 root slots, a file `AX` on the disk, names `AX` and `A.X` (which is created as `AX`), a boot directory, a mount, 2 tmpfs paths, at most 2 failures or resets and 2 calls between resets | files that are not damaged read as written (on disk and in tmpfs), have chains that are disjoint and end, and are found after a reboot |
| `devices` | a letter and a digit with two shift keys and caps lock, 6 movements (three of which a conversion changes) on a 2 by 2 screen, rings of 3, no USB, a USB keyboard beside a PS/2 mouse, a device that is both, and for the mouse also such a device after one that is neither; 3 frames (shorter than the minimum, longer than a poll's buffer, longer than the RTL8139 driver takes), 2 tasks that send, 3 descriptors, 2 RTL8139 buffers, a ring of 28 bytes | keys read as typed, the pointer follows the hand, frames received and sent intact |

**Why the bounds are enough.** They are chosen so that the cases happen: memory
that runs out at each of the allocations of a creation, with a second process
alive; a reaper, a second reaper, a zombie and a new task at its address;
enough blocks for a merge on both sides; chunks shorter than, equal to and
longer than a ring; windows that overlap, hide and uncover each other; a
response longer than the buffer and a sequence number
that wraps inside it; more names than cache slots and more ticks than the
longest time to live; more stations than ARP entries and a host out of a
ping's reach; a write that crosses sectors and clusters, a disk that fills,
and a second failure while the first is being handled; rings of input and of
the cards that fill and wrap. Named bounds are `MaxPid`, `MaxCount`, `Tasks`,
`WindowEnd`, `MaxCopies`, `MaxCalls`, `MaxTick`, `MaxQueries`, `NicSize`,
`MaxFaults`, `MaxLen`, `MaxTmp`, `Points` and `Users`. `MaxSequence` stands for
the 16 bits of a sequence number: when a number comes round again, answers to
its first use are taken as lost, as they are after 65535 probes. Deadlock is
not checked where the system may stop: programs and people may stop, and the
bounds end a behaviour.

**Reductions.** Symmetry is used in two safety runs only: over user addresses
in `tasking_reaper_race`, over sending tasks in `devices`. The view of `files` leaves out the bytes
of free clusters, which are zeroed before they are read. The constraint of
`files` (`TmpfsApart`) does not follow disk calls while tmpfs holds something:
the two share nothing but the mount point. A behaviour of `desktop` has one of
`Users`, one of `net_services` one `service`, one of `devices` one `use`, so
that state spaces add up instead of multiplying; what is left out are effects
between kinds of use that share no state but the loop they run in. `devices`
is followed until something is `lost`, the driver is `astray` or a buffer is
`reused`; what happens then is under Observations. The proofs have no such end.

**Fairness** and why the code justifies it.

* `Tasking`: weak fairness of `schedule_from_irq` (the PIT ticks forever, and a
  tick raised while interrupts are off stays pending), which becomes strong
  fairness in the behaviours where tasks stop sleeping (`SleepingStops`): only
  `sys_sleep` and the network calls keep step with the ticks, so without them
  a tick also hits code that is preemptible only now and then. For each task,
  strong fairness of its own kernel steps. Programs are not assumed to do
  anything. `ReadyTaskRuns` and `WaitEventuallyReturns` have `SleepingStops` as
  their premise: the code promises neither to the neighbours of a program that
  sleeps in a loop (see Observations).
* `Desktop`: weak fairness of its loop, and of leaving the loop's last phase:
  a frame begins every 16 ms, the events of a frame run out, and the scheduler
  gives the desktop its turns. Programs need not exit; `CommandCollected` is
  about those that have.
* `NetPoll`: the timer fires, a deliverable interrupt is delivered, and a task
  that has the CPU again and again executes its kernel code.
* `TcpClient`: strong fairness of the deadline (time passes, and the loop
  compares it each round), weak fairness of the caller's looks, of the idle
  loop's receiving and of what reaches the server. In `ConnectionsEnd`, that
  the peer forgets needs the last two; that calls return needs nothing of the
  network.
* `Dhcp` (in `net_services`): boot and looks go on; a message sent again and
  again gets through (strong fairness of retries, of the servers and of
  handling an offer or an ACK). Nothing is assumed of the deadline, so
  `ExchangeEnds` says that the retries themselves succeed.
* All others: none; only safety is stated.

## Findings

* **Idle is lost.** `schedule_from_irq` pops idle, marks it running, and on
  seeing that a user task can continue calls `scheduler_add_task(idle)`,
  which ignores running tasks (`kernel/task/scheduler.c:187`, `:29`). From then
  on idle is in no queue. When the last user task exits, the CPU stays in the
  dead task and the idle loop with its `net_poll` never runs again.
* **Reaper race.** `task_reap_terminated` picks a victim under the lock and
  unlinks it by address under the next (`kernel/task/task.c:619`, `:624`). A
  tick in between, a second reaper and a spawn that reuses the address make the
  first reaper destroy a live task. The programs shipped do not get there in
  the instance of `tasking`.
* **Input stops.** `terminal_wait_input` polls with interrupts off. If a frame
  must be answered through a gateway whose address is not known, the handler
  waits in `arp_resolve` for a tick that cannot come (`kernel/net/net_ip.c:145`),
  and its polls are refused because a poll is under way. The comment at
  `kernel/terminal.c:35` promises the contrary. The idle-once helper of
  `sys_sleep` and `task_wait_pid` polls in the same situation.

### Observations

Met while modelling, expressed as a guard, an assumption or a history variable
and not as a run of their own.

* A tick that falls in the `hlt` of `sys_sleep` never switches
  (`kernel/task/scheduler.c:165`), and the call returns right after one, so a
  program that sleeps in a loop, as the desktop does
  (`userland/programs/desktop/main.c:39`), may starve all others. Without its
  premise `SleepingStops`, TLC refutes `ReadyTaskRuns` with such a loop.
* A page that `vmm_map_user_page` fails to map, for want of a table, is given
  back by nobody (`kernel/task/task.c:427`, `kernel/loader/elf.c:158`); it is
  the content of `dropped`.
* ptysh ignores a refused close and leaves the session open
  (`userland/programs/ptysh.c:116`); so does a desktop that is left while its
  command runs: the loop of `desktop_main` ends without a close
  (`userland/programs/desktop/main.c:24`). `CommandOwnsSession` names both.
* With a DHCP server that refuses, a lease may take an option from an earlier
  server's offer: the second half of `LeaseSound` is stated for servers that
  do not refuse.
* A task preempted inside `net_poll` makes the polls of all others return
  empty-handed; their calls run into their deadlines.
* Transmit buffers (`g_tx_*`) are shared in the same way, and so are the card's:
  a task preempted in `send_frame` between reading the tail and moving it on
  (`kernel/net/net_driver.c:626-652`; `172-193` for the RTL8139, its wait
  included) leaves its buffer to the next sender, and one frame is lost.
* The wait for an ARP answer counts against the deadline of the ping for which
  it is made (`kernel/net/net_api.c:286`).
* RTL8139: the card is told to store a frame past the end of the ring
  (`kernel/net/net_driver.c:147`), but `rtl8139_ring_copy` continues at its
  beginning: such a frame is read with the bytes of another. `FramesIntact`
  leaves those frames out.
* RTL8139: a frame of more than 1788 bytes, if the card stores one, makes the
  driver start at the beginning of the ring (`kernel/net/net_driver.c:231`)
  while the card goes on where it was.
* RTL8139: a send that ran out of time goes on to the next buffer, and after as
  many as there are it writes into one the card still has. E1000: after a ring
  full of unanswered sends the tail meets the head, which the card takes for an
  empty ring (`kernel/net/net_driver.c:653`).
* USB: a report that comes in when its poll is given up
  (`kernel/drivers/usb/uhci.c:316`) is lost, and the toggles of device and
  driver differ from then on. A task that polls while another is preempted in
  the wait of its poll (`kernel/terminal.c:24-28`) takes the descriptor and
  the buffer from it: a report may be handled twice and the next one thrown
  away. An enumeration that fails after the reset leaves
  the port enabled with its device at address 0, where it answers for the next
  one. `usb_hid_active` is never cleared.
* USB: a rollover report (all usages 1) makes held keys count as new ones
  afterwards, and a held key repeats only while other reports come.
* PS/2: the ninth bit of a movement is dropped and one that overflows counts as
  none; releasing one of two held shift keys clears the shift. USB: a movement
  by 128 upwards in one report goes down.
* FAT16: a delete releases the chain before it erases the entry, so a reset in
  between leaves an entry that names free clusters; the same holds for a late
  failure of the entry written by mkdir, whose cluster is freed.
* FAT16: a write never records the new size or first cluster in the directory
  entry, so what was appended is gone after a reboot, a file created since the
  boot before is empty, and the clusters stay allocated. `VisibleAfterReboot`
  therefore promises no more than the length at mount, and
  `ReadsWhatWasWritten` no byte behind it.
* FAT16: the scan for a free cluster goes up to 0xFFF0 whatever the size of the
  table (`kernel/fs/fat16.c:104`).
* FAT16: the name of a created file loses its dot when the base is shorter than
  8 characters (`kernel/fs/fat16.c:374`), until the next mount; `NOTE.TXT` and
  `NOTETXT` then meet. A delete by such a name releases the older file's chain
  and erases its entry, while its node stays; the newer file loses its node and
  keeps its entry. The run `files` does this, and the older file counts as
  damaged. The duplicate check stops at the first free slot
  (`kernel/fs/fat16.c:352`).
* A mount point over a FAT directory keeps the directory's cluster number in
  its node; deleting the mount point makes tmpfs free that number as if it
  were a pointer.
* tmpfs: the bytes of a gap are whatever `kmalloc` returned, and
  `offset + size` is not checked for overflow.

## Proofs

* `MemoryProofs`, page allocator: `PmmSafe` proves the conjunction of
  `TypeOK`, `UsedCountExact`, `RunsDisjoint`, `HeldApartFromReserved` and
  `BitmapExact` (`IInv`), which is inductive as a whole: disjointness of runs
  needs the bitmap to cover held pages, exactness after a free needs
  disjointness, and the counter needs both. `PmmImplementsPageAllocator` gives
  the step simulation; that a failed search means no free run rests on the
  probe sequence hitting every page. `ReservedBytesSafe` goes from pages to
  bytes. Assumption: `PmmAssumption` (positive sizes).
* `MemoryProofs`, address spaces: `MemoryConsistent` proves `MInv`, whose
  centre is `TreeOK`: the tables and pages of all processes, of the one being
  created and of the kernel's window are a forest, a frame being at one place,
  given by root, level and the part of the address space it maps (`Area`).
  Around it stand what each step of a creation or destruction has in hand:
  which frames are loose (taken and not mapped yet, or to be given back:
  `Loose`), that those in the trees came from `pmm_alloc` one by one
  (`HeldOK`), that kernel stacks are mapped runs apart from each other
  (`StacksOK`, `GrowOK`), that a new process has nothing where its stack goes
  (`StackFree`), that the boot tables and the entries shared with the kernel
  are as at boot (`LowOK`), and that every frame in use is in exactly one of
  trees, loose and `dropped` (`PlacesOK`). A walk is a function of the tables
  (`Walk`), so each way of changing an entry (linking a table, mapping,
  unmapping, taking away a right) has a lemma about all walks, and one that
  the forest stays one. For a destruction, that the places of `Places` are the
  nodes of the process's tree, each once, rests on every area having one last
  page. From `MInv`: `FramesAlwaysOwnedOnce`; `KernelKeepsPmmContract`, that
  the kernel frees exactly runs it holds, so every step of it is one of `Pmm`
  and `KernelLeavesReserved` and `KernelSeesPageAllocator` follow from the
  theorems about `Pmm`; and `ReadsAlwaysTruthful`, whose invariant (`ReplyOK`)
  is what the loops of `uaccess.c` found out page by page.
* `MemoryProofs`, images: `ProgramsAlwaysIntact` and `WritesAlwaysConfined`
  rest on `LoadInv`, inductive with `MInv`: of every live process, and of the
  one being created as far as it has come (`SegmentsDone`, `PagesDone`), the
  tables above a page let a user through (`TablesOpen`), exactly the pages of
  its segments and stack are mapped, writable when one of the segments on them
  is (`PagesLoaded`), and the bytes of each loaded segment are in memory unless
  a system call was told to write there (`BytesLoaded`). A segment that shares
  a page with an earlier one keeps that page and its right to be written, and
  clears and copies only its own bytes; that another process's steps change
  none of this is the forest again. `WriteConfined` is the action: what a copy
  or a clear changes in the memory any process sees.
* Assumptions of both: `AddressSpaceAssumption` with `LayoutAssumption` (what
  the boot tables in `boot.S` look like; user images and the user stack in
  their part of the address space and apart, text before data, which may share
  a page, as `user.ld` and `USER_STACK_TOP` put them; the window of kernel
  stacks in the kernel's half) and `UserAccessAssumption` (user space is what PML4 entries 1
  to 255 map, as `USER_SPACE_START` and `USER_SPACE_END` say), evaluated by TLC
  in the run `memory`.
* `TaskingProofs`: `TaskingTypeCorrect`, and `PreemptFlagScoped`, that
  `kernel_preempt_ok` is set exactly inside the two waits; it is inductive
  together with `TypeOK`. Assumptions: `IdleAssumption`, `TaskingAssumption`.
  `TaskingSound` proves the invariant behind the rest: `PlacesSound` (which
  tasks are allocated, listed, current, and where their contexts may be),
  `QueueSound` (a task is in the ready queue once if it is ready, else not at
  all), `ReapersSound` (what the reapers between two critical sections have
  picked and unlinked is theirs), `StatusesSound` (a zombie whose parent can
  still ask is kept) and `PtyBoundToLiveTask`. They need each other: a queue
  stays sound when memory is freed because reapers free only what is dead, off
  the CPU and unlinked, and that is so because of the places. From it follow
  `TasksQueuedOnce`, `StatusKept`, `SessionsFollowTasks`, `CpuOnAllocatedTask`
  and, as an action property, `TasksEndOnce`. All have the hypothesis
  `[][~VictimReused]_vars`: no `task_t` is allocated at an address that a
  reaper has picked and not yet unlinked. That is the finding "Reaper race",
  without which they are false; the theorems say that nothing else breaks them,
  for any programs, tasks and PTYs. In the run `tasking`, where the programs
  never get into the race, TLC checks the same properties without hypothesis.
* `HeapProofs`: `HeapSafe` and `NoFailureFromFragments`. The invariant is
  `Sound` (headers typed; a block ends where its successor begins, which points
  back; blocks apart; every byte in one), `NoFreeNeighbours`, `HeldIntact` and
  `WalkSound` (the walk of `kmalloc` passed only blocks that were too small).
  All of it is about a block and its neighbours, so splitting and merging are
  checked locally and no induction along the list is needed. That a failure
  means a full heap rests on `NoFreeNeighbours`: a gap between blocks in use is
  one free block, and the walk has seen it. Assumption: `HeapAssumption`.
* `DesktopProofs`, in four parts.
  *Sessions*: for `PtySpec`, in which any program calls any function of `pty.c`
  at any time. `RingsImplementChannel` is the refinement of `PtyChannel`: a
  ring stands for the `count` bytes from `tail` on, a push appends and a pop
  takes the first, across the end of the array too. The invariant says that
  `head` is `count` cells after `tail` and that a closed session's rings are
  empty. `SessionKept`: a slave keeps its session until it exits.
  `DesktopUsesChannel` is the refinement again, for the whole desktop: each of
  its steps is one of `PtySpec` or leaves the sessions alone.
  *Shell*: `RingsAlwaysLatest` (scrollback and history: the next place to write
  is where the oldest entry is once the ring is full) and
  `CommandAlwaysOwnsSession`, whose invariant follows the handle, the pid and
  the session of an external command through every error path of its start.
  *Windows*: `KeysAlwaysGoToTopWindow` rests on `g_window_order` being a
  permutation; raising a window keeps it one. `ScreenAlwaysShowsScene` is the
  largest: the invariant says that the screen shows the scene as it was when
  the frame began (`prev` and the lines of then), with the cursor over the cell
  it saved, and that the flags name what is different since. A cell in no dirty
  rectangle shows the same in both scenes (`CleanCellSame`); `dirty_add` covers
  what it is given, however many rectangles it swallows (`DirtySetCovers`, an
  induction over its rounds and over the rectangles); and what is repainted
  back to front ends with what is topmost.
  *Files*: `DeletesOnlyWhatIsShown`.
  Assumptions: `PtyAssumption`, `ShellAssumption`, `WindowsAssumption` (the
  screen has a size), `DesktopAssumption` (a mouse can be somewhere).
* `NetPollProofs`: `PollExclusive`. Invariant: the flag is set exactly while
  some task is inside `net_poll`, and no two are.
* `NetServicesProofs`: for the specification of `MCNetServices`, each service
  with its own invariant. `Dhcp` (`LeaseIsSound`, `ConfigurationKept`):
  messages come from servers, what was offered came from the server that is
  asked, and where nobody refuses only one is ever asked. `Dns`
  (`AnswersAreTrue`): entries of the cache are true and not too old, and the
  answers on their way carry the number of the query they answer; the
  hypothesis `NumbersLast` is that transaction number and port do not come
  round together, which takes 65535 times 16384 queries. `Icmp`
  (`TraceIsTruthful`, `FramesRouted`, `PingIsAnswered`): the ARP cache holds
  true addresses, and a message in the air with the number of the call under
  way answers that call. `IcmpAssumption` says that a path does not visit its
  destination on the way.
* `TcpProofs`: `ResponseIsExact` and `ProbesAreTrue`, for any response length,
  capacity and sequence space larger than a response. The invariant relates
  `rcv_nxt` to a position `k` of the peer's stream: the buffer holds exactly
  the first `k` bytes as far as they fit, `truncated` says whether they did,
  and `finished` whether `k` is past the FIN. A segment is accepted only at
  `rcv_nxt`, and numbers modulo `SeqSpace` identify positions as the stream is
  shorter; therefore late and repeated segments change nothing.
  `TcpAssumption` also says that no source port comes round while segments of
  its first use are about.
* `DeviceProofs`: `FramesAreIntact`, for `NicSpec`, in which frames arrive, are
  polled and are sent in any order, with rings, buffers and frames of any size.
  E1000: the frames that wait lie in the descriptors behind `head`, and RDT
  keeps one descriptor away from the card, so RDH never passes it. RTL8139: the
  invariant gives for each frame that waits its distance from `rx_offset`; the
  distances add up to where the card is, always less than a ring, and so what
  the card stores misses the frames that wait; all this until the driver is
  `astray`. Sending: the buffers from the card's on hold what it was given and
  no others are given, one call at most is about to use the next, and a call
  that waits is as many buffers behind the card as `left` says, as long as none
  is `reused`. Assumption: `NicAssumption` (every frame fits into a buffer and
  into the ring, whose size is a multiple of 4).
  `KeysAlwaysReadAsTyped` and `PointerAlwaysFollows`, for `HidSpec`: typing and
  pointing at once, any devices at any number of ports, any movements, and no
  end when something is `lost`: types and addresses are kept all the same, and
  the other claims are about the kinds of devices that are not in it. Until the first poll everything is as it was initialized
  (`Fresh`). Then `Addresses` (an address is given once, so one device answers
  at it, even if an enumeration that failed left others at address 0),
  `Silence` (only the devices in use have something to say), and for the
  keyboard and the mouse in use a sequence `w` of reports that the driver has
  not been told: `Untold` relates it to the device's queue, the transfer under
  way and the two toggles, as for an alternating bit. Along `w` the pointer
  goes to where the hand is (`Track`), and the keys that go down in `w` are the
  characters typed that are not in the ring (`Script`). A step of the
  controller changes how `w` is carried and not `w`; a poll that receives takes
  its first report, and the person appends to it. What the folds over the keys
  of a report and the characters for the ring compute is proved for all
  lengths. Assumptions: `InputAssumption`, `UsbAssumption` (sizes are positive,
  ports are numbered from 1).

The inductive invariants were checked with TLC on small instances before they
were proved. Inductions over the length of a sequence or the rounds of a loop
are done over sets of natural numbers (`NaturalInduction`: a set with 0 and the
successors of its members has all of them, from the well-foundedness of `<`),
with the states of the loop as a function that is shown to exist.

Only model-checked, and why:

* Liveness (`ReadyTaskRuns` and the others under fairness): outside the
  prover's reach.
* `FileSystem` (`ChainsSound`, `ReadsWhatWasWritten`, `VisibleAfterReboot`):
  need of the chains in the table what `MInv` says of page tables, with the
  disk and the nodes in memory both changing between two sector writes of a
  call, and after failures.

## Not modelled, and the plan

1. Proofs: the chains of the FAT as a forest.
2. The names of created files as a run of their own: the code against
   `src/scripts/regression-smoke.sh`.
3. A copy to user memory that fails after `pty_read` or `task_wait_pid` has
   consumed what it was to deliver: `UserAccess` composed with `Pty` and
   `Tasking`. The buffers above the driver (`g_tx_*`) that preempted tasks
   share.
4. `split_huge_page` (the ranges modelled have no huge pages) and
   `vmm_sync_kernel_mappings`, which copies the kernel's entries again at a
   switch and at the entry of a system call.
5. The command line shell and the other programs beyond their system calls;
   the desktop's remaining panels, which only show what a call returns.

Left out for good: pixel and text output, the serial line (it keeps no state),
OHCI, EHCI and xHCI (the driver only counts their ports), the driver registry
and PCI scan (filled once, then read), register programming of timers and
interrupt controllers, ACPI table parsing, the page fault report, panic dumps:
straight-line code or data without a state that properties could relate.
