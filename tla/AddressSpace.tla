---------------------------- MODULE AddressSpace ----------------------------
(***************************************************************************)
(* Page tables and the life of a process's memory: mm/vmm.c, loader/elf.c, *)
(* and what task_create_user and task_destroy of task.c do with frames.    *)
(* Frames come from Pmm: every pmm call of the code is a step, so memory   *)
(* may run out at any of them.                                             *)
(*                                                                         *)
(* Page tables are real: a table is a frame, an entry holds a frame and    *)
(* flags, and a walk follows them.  Virtual addresses are bytes, `v` is a  *)
(* virtual page.  The windows in which processes and kernel stacks are     *)
(* mapped hold no huge page, so split_huge_page is left out.  Creation and *)
(* destruction run in the kernel and are not preempted: `call` is the one  *)
(* that is going on.                                                       *)
(***************************************************************************)
EXTENDS Pmm, Sequences, SequencesExt

CONSTANTS
    Fan,          \* entries of a table of each level, 4 (PML4) to 1 (PT)
    KernelHalf,   \* PML4 index of the kernel's half (256)
    KernelPml4,   \* p4_table, the boot tables below it and their entries
    BootTables,
    StackPages,   \* USER_STACK_SIZE / PAGE_SIZE
    StackTop,     \* USER_STACK_TOP, as a virtual page
    KStackPages,  \* KERNEL_STACK_SIZE / PAGE_SIZE
    WindowStart,  \* first virtual page of next_virt_addr
    WindowEnd,    \* bound on it
    Programs,     \* ELF images: sequences of PT_LOAD segments
    Tasks         \* bound: processes alive at once, numbered

Segment == [vaddr : Nat, filesz : Nat, memsz : Nat, writable : BOOLEAN,
            inside : BOOLEAN]   \* offset + filesz <= elf_size

Levels == 1 .. 4
Entries == 0 .. Max({Fan[l] : l \in Levels}) - 1
Entry == [phys : Pages, flags : SUBSET {"present", "write", "user", "huge"}]

NoFrame == 0
NoEntry == [phys |-> NoFrame, flags |-> {}]

Present(entry) == "present" \in entry.flags
IsTable(entry) == Present(entry) /\ "huge" \notin entry.flags

\* Virtual pages that an entry of a table of level l spans.
Span == <<1, Fan[1], Fan[1] * Fan[2], Fan[1] * Fan[2] * Fan[3]>>

\* PML4_INDEX, PDP_INDEX, PD_INDEX, PT_INDEX
Index(v, l) == IF l = 4 THEN v \div Span[4] ELSE (v \div Span[l]) % Fan[l]

FirstPage(seg) == seg.vaddr \div PageSize
LastPage(seg) == (seg.vaddr + seg.memsz - 1) \div PageSize

\* Pages of processes (PML4 entries from 1 to the kernel's half), the stack
\* among them, and the kernel's window.
UserPages == Span[4] .. KernelHalf * Span[4] - 1
UserStack == StackTop - StackPages .. StackTop - 1
Window == WindowStart .. WindowEnd - 1

\* The boot tables: PML4 entries are tables, and the window is empty.
BootTablesAssumption ==
    /\ KernelPml4 \in DOMAIN BootTables
    /\ DOMAIN BootTables \subseteq BootPages \ {NoFrame}
    /\ \A f \in DOMAIN BootTables :
          /\ BootTables[f] \in [Entries -> Entry]
          /\ \A i \in Entries : IsTable(BootTables[f][i]) => BootTables[f][i].phys # NoFrame
    /\ \A i \in Entries :
          LET entry == BootTables[KernelPml4][i]
          IN  /\ "huge" \notin entry.flags
              /\ Present(entry) =>
                    /\ entry.phys \in DOMAIN BootTables \ {KernelPml4}
                    /\ \A j \in Entries \ {i} : BootTables[KernelPml4][j].phys # entry.phys
    /\ \A v \in Window :
          LET entry == BootTables[KernelPml4][Index(v, 4)]
          IN  Present(entry) => BootTables[entry.phys][Index(v, 3)] = NoEntry

\* Where user.ld, USER_STACK_TOP and next_virt_addr put things: text before
\* data, apart in bytes, though maybe with a page in common.
LayoutAssumption ==
    /\ Window \subseteq KernelHalf * Span[4] .. Fan[4] * Span[4] - 1
    /\ UserStack \subseteq UserPages
    /\ \A prog \in Programs : \A i \in DOMAIN prog :
          prog[i].memsz # 0 => FirstPage(prog[i]) .. LastPage(prog[i]) \subseteq UserPages \ UserStack
    /\ \A prog \in Programs : \A i, j \in DOMAIN prog :
          i < j /\ prog[i].memsz # 0 /\ prog[j].memsz # 0 =>
             /\ prog[i].vaddr + prog[i].memsz <= prog[j].vaddr
             /\ LastPage(prog[i]) < FirstPage(prog[j]) \/ (prog[i].writable => prog[j].writable)

ASSUME AddressSpaceAssumption ==
    /\ Fan \in [Levels -> Nat \ {0}]
    /\ KernelHalf \in 1 .. Fan[4]
    /\ Programs \subseteq Seq(Segment)
    /\ 0 \in BootPages
    /\ StackTop \in Nat /\ StackPages \in 1 .. StackTop
    /\ KStackPages \in 1 .. MaxCount
    /\ WindowStart \in Nat /\ WindowEnd \in Nat /\ WindowStart <= WindowEnd
    /\ Tasks \in Nat \ {0}
    /\ BootTablesAssumption
    /\ LayoutAssumption

VARIABLES
    tables,     \* the entries of each frame that is used as a table
    bytes,      \* the bytes of each frame that is used as a page
    space,      \* pml4_phys of each process, or NoFrame
    kstack,     \* its kernel_stack, a virtual page
    image,      \* the program it was created from
    next_virt,  \* next_virt_addr
    call,       \* the creation or destruction going on
    dropped     \* history: frames nobody will ever give back

vmVars == <<tables, bytes, space, kstack, image, next_virt, call, dropped>>

Idle == [pc |-> "idle"]
Slots == 1 .. Tasks

-----------------------------------------------------------------------------
(* Walks.                                                                  *)

Cleared == [i \in Entries |-> NoEntry]

\* The table that entry i of table f names.
Child(f, i) ==
    IF f # NoFrame /\ IsTable(tables[f][i]) THEN tables[f][i].phys ELSE NoFrame

\* The tables on the way from PML4 `root` to page v, as far as there are any.
Path(root, v) ==
    LET pdp == Child(root, Index(v, 4))
        pd == Child(pdp, Index(v, 3))
    IN  <<Child(pd, Index(v, 2)), pd, pdp, root>>

\* The entry of v at each level; the ones that are there.
EntryAt(root, v, l) ==
    IF Path(root, v)[l] = NoFrame THEN NoEntry ELSE tables[Path(root, v)[l]][Index(v, l)]

vmm_get_physical(root, v) ==
    IF Present(EntryAt(root, v, 1)) THEN EntryAt(root, v, 1).phys ELSE NoFrame

\* The frame at each level on the way to v: its page, or a table.
Node(root, v, l) == IF l = 0 THEN vmm_get_physical(root, v) ELSE Path(root, v)[l]

\* The level whose table get_or_create_table has to create next; 0 if none.
MissingLevel(root, v) ==
    IF Path(root, v)[1] # NoFrame THEN 0
    ELSE CHOOSE l \in 1 .. 3 : Path(root, v)[l] = NoFrame /\ Path(root, v)[l + 1] # NoFrame

\* Where the byte at virtual address a lies.
At(root, a) == <<vmm_get_physical(root, a \div PageSize), a % PageSize>>

\* elf_copy_to_user, elf_zero_user, task_write_user: `new` maps addresses to bytes.
Stored(root, new) ==
    LET loc == [a \in DOMAIN new |-> At(root, a)]
    IN  [f \in Pages |-> [o \in 0 .. PageSize - 1 |->
            IF \E a \in DOMAIN new : loc[a] = <<f, o>>
            THEN new[CHOOSE a \in DOMAIN new : loc[a] = <<f, o>>]
            ELSE bytes[f][o]]]

-----------------------------------------------------------------------------
(* Mapping a page: vmm_map_page in the kernel's window ("kmap"), and       *)
(* vmm_map_user_page for a page of the image ("map") or stack ("smap").    *)

Mapping == {"kmap", "map", "smap"}

MapRoot == IF call.pc = "kmap" THEN KernelPml4 ELSE call.root
MapFlags == IF call.pc = "kmap" THEN {"present", "write"} ELSE {"present", "write", "user"}

\* The frame that the pmm call of this step returned.
Got == CHOOSE p \in bitmap' \ bitmap : \A q \in bitmap' \ bitmap : p <= q

\* get_or_create_table finds no table: a new one, cleared, is linked.
get_or_create_table ==
    /\ call.pc \in Mapping
    /\ LET l == MissingLevel(MapRoot, call.v)
       IN  /\ l # 0
           /\ pmm_alloc_pages(1)
           /\ tables' = [tables EXCEPT
                ![Got] = Cleared,
                ![Path(MapRoot, call.v)[l + 1]][Index(call.v, l + 1)] =
                    [phys |-> Got, flags |-> MapFlags]]
    /\ UNCHANGED <<bytes, space, kstack, image, next_virt, call, dropped>>

\* Memory is out: the mapping fails.  Of vmm_alloc_pages it is undone; of a
\* page for the process the frame itself stays where it is.
MapFails ==
    /\ call.pc \in Mapping
    /\ MissingLevel(MapRoot, call.v) # 0
    /\ pmm_alloc_pages_fails(1)
    /\ IF call.pc = "kmap"
       THEN call' = [call EXCEPT !.pc = "kundo"] /\ UNCHANGED dropped
       ELSE call' = [call EXCEPT !.pc = "undo"] /\ dropped' = dropped \cup {call.frame}
    /\ UNCHANGED <<tables, bytes, space, kstack, image, next_virt>>

\* What elf_load does after the first n segments: empty ones are skipped, a
\* bad one fails, and after the last the stack is built.
AfterSegments(n) ==
    LET rest == {i \in n + 1 .. Len(call.prog) : call.prog[i].memsz # 0}
        i == CHOOSE k \in rest : \A j \in rest : k <= j
        seg == call.prog[i]
    IN  IF rest = {} THEN [pc |-> "stack", v |-> StackTop - StackPages, seg |-> n]
        ELSE IF seg.filesz > seg.memsz \/ ~seg.inside THEN [pc |-> "undo", v |-> 0, seg |-> i]
        ELSE [pc |-> "page", v |-> FirstPage(seg), seg |-> i]

Continue(next) == [call EXCEPT !.pc = next.pc, !.v = next.v, !.seg = next.seg]

Flagged(entry) == [entry EXCEPT !.flags = @ \cup MapFlags]

\* The entry is written; entries above it get the flags they lack.
MapDone ==
    /\ call.pc \in Mapping
    /\ MissingLevel(MapRoot, call.v) = 0
    /\ LET path == Path(MapRoot, call.v)
       IN  tables' = [f \in Pages |->
              IF \E l \in Levels : path[l] = f
              THEN LET l == CHOOSE k \in Levels : path[k] = f
                   IN  [tables[f] EXCEPT ![Index(call.v, l)] =
                          IF l = 1 THEN [phys |-> call.frame, flags |-> MapFlags]
                          ELSE Flagged(tables[f][Index(call.v, l)])]
              ELSE tables[f]]
    /\ call' = CASE call.pc = "kmap" ->
                      IF call.v + 1 < call.base + KStackPages
                      THEN [call EXCEPT !.v = @ + 1, !.frame = @ + 1]
                      ELSE [call EXCEPT !.pc = "dir"]
                 [] call.pc = "map" ->
                      IF call.v < LastPage(call.prog[call.seg])
                      THEN [call EXCEPT !.pc = "page", !.v = @ + 1]
                      ELSE [call EXCEPT !.pc = "fill"]
                 [] call.pc = "smap" ->
                      IF call.v + 1 < StackTop
                      THEN [call EXCEPT !.pc = "stack", !.v = @ + 1]
                      ELSE [call EXCEPT !.pc = "args"]
    /\ UNCHANGED <<pmmVars, bytes, space, kstack, image, next_virt, dropped>>

-----------------------------------------------------------------------------
(* task_create_user                                                        *)

Free == {t \in Slots : space[t] = NoFrame}

\* vmm_alloc_pages takes a piece of the window and a run of frames.
vmm_alloc_pages(prog) ==
    /\ call = Idle /\ Free # {} /\ ~booting
    /\ next_virt + KStackPages <= WindowEnd
    /\ next_virt' = next_virt + KStackPages
    /\ \/ /\ pmm_alloc_pages(KStackPages)
          /\ call' = [pc |-> "kmap", t |-> CHOOSE t \in Free : \A u \in Free : t <= u,
                      prog |-> prog, seg |-> 0, root |-> NoFrame,
                      base |-> next_virt, v |-> next_virt, frame |-> Got]
       \/ pmm_alloc_pages_fails(KStackPages) /\ UNCHANGED call
    /\ UNCHANGED <<tables, bytes, space, kstack, image, dropped>>

\* pt[pt_idx] = 0 for the pages of the window that are mapped.
Unmapped(from, to) ==
    [f \in Pages |-> [i \in DOMAIN tables[f] |->
        IF \E v \in from .. to : Path(KernelPml4, v)[1] = f /\ Index(v, 1) = i
        THEN NoEntry ELSE tables[f][i]]]

\* vmm_alloc_pages fails at page call.v of the window.
UndoKernelStack ==
    /\ call.pc = "kundo"
    /\ tables' = Unmapped(call.base, call.v - 1)
    /\ pmm_free_pages((call.frame - (call.v - call.base)) * PageSize, KStackPages)
    /\ call' = Idle
    /\ UNCHANGED <<bytes, space, kstack, image, next_virt, dropped>>

\* The kernel's entries are shared with every process.
vmm_create_address_space ==
    /\ call.pc = "dir"
    /\ pmm_alloc_pages(1)
    /\ tables' = [tables EXCEPT ![Got] =
          [i \in DOMAIN Cleared |->
              IF i = 0 \/ i >= KernelHalf THEN tables[KernelPml4][i] ELSE NoEntry]]
    /\ call' = [Continue(AfterSegments(0)) EXCEPT !.root = Got]
    /\ UNCHANGED <<bytes, space, kstack, image, next_virt, dropped>>

\* kmalloc or pmm_alloc_page fails.
CreateSpaceFails ==
    /\ call.pc = "dir"
    /\ UNCHANGED pmmVars \/ pmm_alloc_pages_fails(1)
    /\ call' = [pc |-> "kfree", base |-> call.base]
    /\ UNCHANGED <<tables, bytes, space, kstack, image, next_virt, dropped>>

\* Slip: every page of a segment is a new one.
PageNeeded_Always(v) == TRUE

\* elf_load takes the page that an earlier segment mapped, if there is one.
PageNeeded(v) == vmm_get_physical(call.root, v) = NoFrame

\* A page of the image, zeroed, or of the stack, as it is.
TakePage ==
    /\ \/ call.pc = "page" /\ PageNeeded(call.v)
       \/ call.pc = "stack"
    /\ pmm_alloc_pages(1)
    /\ bytes' = IF call.pc = "page"
                THEN [bytes EXCEPT ![Got] = [o \in DOMAIN @ |-> 0]]
                ELSE bytes
    /\ call' = [call EXCEPT !.pc = IF call.pc = "page" THEN "map" ELSE "smap", !.frame = Got]
    /\ UNCHANGED <<tables, space, kstack, image, next_virt, dropped>>

KeepPage ==
    /\ call.pc = "page" /\ ~PageNeeded(call.v)
    /\ call' = [call EXCEPT !.pc = "map", !.frame = vmm_get_physical(call.root, call.v)]
    /\ UNCHANGED <<pmmVars, tables, bytes, space, kstack, image, next_virt, dropped>>

TakePageFails ==
    /\ \/ call.pc = "page" /\ PageNeeded(call.v)
       \/ call.pc = "stack"
    /\ pmm_alloc_pages_fails(1)
    /\ call' = [call EXCEPT !.pc = "undo"]
    /\ UNCHANGED <<tables, bytes, space, kstack, image, next_virt, dropped>>

\* The byte of a segment's file contents; each address has its own.
FileByte(a) == a

\* The bytes a segment consists of: its file contents, then zeroes.
SegmentBytes(seg) ==
    [a \in seg.vaddr .. seg.vaddr + seg.memsz - 1 |->
        IF a < seg.vaddr + seg.filesz THEN FileByte(a) ELSE 0]

\* The segment is filled; vmm_change_flags takes PAGE_WRITE from its pages
\* unless it is writable.
FillSegment ==
    LET seg == call.prog[call.seg]
    IN  /\ call.pc = "fill"
        /\ bytes' = Stored(call.root, SegmentBytes(seg))
        /\ tables' =
              IF seg.writable THEN tables
              ELSE [f \in Pages |-> [i \in DOMAIN tables[f] |->
                      IF \E v \in FirstPage(seg) .. LastPage(seg) :
                            /\ Path(call.root, v)[1] = f /\ Index(v, 1) = i
                            /\ f # NoFrame /\ Present(tables[f][i])
                      THEN [tables[f][i] EXCEPT !.flags = {"present", "user"}]
                      ELSE tables[f][i]]]
        /\ call' = Continue(AfterSegments(call.seg))
        /\ UNCHANGED <<pmmVars, space, kstack, image, next_virt, dropped>>

ArgByte == 1

\* task_build_user_args writes below the top of the stack; the task is made.
task_create_user_returns ==
    /\ call.pc = "args"
    /\ bytes' = Stored(call.root, [a \in {StackTop * PageSize - 1} |-> ArgByte])
    /\ space' = [space EXCEPT ![call.t] = call.root]
    /\ kstack' = [kstack EXCEPT ![call.t] = call.base]
    /\ image' = [image EXCEPT ![call.t] = call.prog]
    /\ call' = Idle
    /\ UNCHANGED <<pmmVars, tables, next_virt, dropped>>

-----------------------------------------------------------------------------
(* vmm_destroy_address_space, vmm_free_pages                               *)

\* Slip: entries that the kernel shares are followed too.
OwnEntries_All(root) == {i \in 0 .. KernelHalf - 1 : Present(tables[root][i])}

\* The lower entries that are not the kernel's.
OwnEntries(root) ==
    {i \in 0 .. KernelHalf - 1 :
        Present(tables[root][i]) /\ tables[root][i] # tables[KernelPml4][i]}

\* A frame is given back after those below it: at the last of the pages it
\* maps.  The PML4 itself comes last.
OwnPages(root) == {v \in 0 .. KernelHalf * Span[4] - 1 : Index(v, 4) \in OwnEntries(root)}
Places(root) ==
    {<<KernelHalf * Span[4] - 1, 4>>}
    \cup {p \in OwnPages(root) \X (0 .. 3) :
            (p[1] + 1) % Span[p[2] + 1] = 0 /\ Node(root, p[1], p[2]) # NoFrame}
Before(p, q) == p[1] < q[1] \/ (p[1] = q[1] /\ p[2] < q[2])

pmm_free(page, count) ==
    IF FreeAccepted(page * PageSize, count)
    THEN pmm_free_pages(page * PageSize, count)
    ELSE pmm_free_pages_refused(page * PageSize, count)

\* task_destroy of a process that has ended and was reaped.
task_destroy(t) ==
    /\ call = Idle /\ space[t] # NoFrame
    /\ call' = [pc |-> "free", base |-> kstack[t], root |-> space[t], work |-> Places(space[t])]
    /\ space' = [space EXCEPT ![t] = NoFrame]
    /\ image' = [image EXCEPT ![t] = <<>>]
    /\ UNCHANGED <<pmmVars, tables, bytes, kstack, next_virt, dropped>>

\* The error paths of task_create_user.
UndoCreate ==
    /\ call.pc = "undo"
    /\ call' = [pc |-> "free", base |-> call.base, root |-> call.root,
                work |-> Places(call.root)]
    /\ UNCHANGED <<pmmVars, tables, bytes, space, kstack, image, next_virt, dropped>>

FreeNext ==
    /\ call.pc = "free"
    /\ \E p \in call.work :
          /\ \A q \in call.work \ {p} : Before(p, q)
          /\ pmm_free(Node(call.root, p[1], p[2]), 1)
          /\ call' = IF call.work # {p} THEN [call EXCEPT !.work = @ \ {p}]
                     ELSE [pc |-> "kfree", base |-> call.base]
    /\ UNCHANGED <<tables, bytes, space, kstack, image, next_virt, dropped>>

vmm_free_pages ==
    /\ call.pc = "kfree"
    /\ tables' = Unmapped(call.base, call.base + KStackPages - 1)
    /\ LET phys_base == vmm_get_physical(KernelPml4, call.base)
       IN  IF phys_base # NoFrame THEN pmm_free(phys_base, KStackPages)
           ELSE UNCHANGED pmmVars
    /\ call' = Idle
    /\ UNCHANGED <<bytes, space, kstack, image, next_virt, dropped>>

-----------------------------------------------------------------------------
VmInit ==
    /\ Init
    /\ tables = [f \in Pages |-> IF f \in DOMAIN BootTables THEN BootTables[f] ELSE Cleared]
    /\ bytes = [f \in Pages |-> [o \in 0 .. PageSize - 1 |-> 0]]
    /\ space = [t \in Slots |-> NoFrame]
    /\ kstack = [t \in Slots |-> 0]
    /\ image = [t \in Slots |-> <<>>]
    /\ next_virt = WindowStart
    /\ call = Idle
    /\ dropped = {}

\* multiboot_parse withdraws firmware memory, here in one range.
Boot ==
    /\ \/ reserved = BootRanges /\ \E r \in FirmwareRanges : pmm_reserve_range(r[1], r[2])
       \/ reserved # BootRanges /\ BootDone
    /\ UNCHANGED vmVars

VmNext ==
    \/ Boot
    \/ \E prog \in Programs : vmm_alloc_pages(prog)
    \/ get_or_create_table \/ MapFails \/ MapDone
    \/ UndoKernelStack
    \/ vmm_create_address_space \/ CreateSpaceFails
    \/ TakePage \/ KeepPage \/ TakePageFails
    \/ FillSegment
    \/ task_create_user_returns
    \/ \E t \in Slots : task_destroy(t)
    \/ UndoCreate \/ FreeNext \/ vmm_free_pages

-----------------------------------------------------------------------------
(* Properties.                                                             *)

Live == {t \in Slots : space[t] # NoFrame}

\* The kernel's own frames: the tables of the window, and the stacks in it.
WindowTables ==
    {Path(KernelPml4, v)[l] : v \in Window, l \in 1 .. 3} \ (BootPages \cup {NoFrame})
StackOf(t) == {vmm_get_physical(KernelPml4, kstack[t] + i) : i \in 0 .. KStackPages - 1}

\* Whenever no process is being made or destroyed, each frame in use is in
\* exactly one place: a table of the kernel's window, a process's tables and
\* pages, its kernel stack.  The exception are the pages that vmm_map_user_page
\* could not map: nobody gives them back.  No error path of task_create_user
\* loses or shares another frame.
FramesOwnedOnce ==
    call = Idle =>
        LET spaces == [t \in Live |->
                         [p \in Places(space[t]) |-> Node(space[t], p[1], p[2])]]
            owners == {Range(spaces[t]) : t \in Live} \cup {StackOf(t) : t \in Live}
                         \cup {WindowTables, dropped}
        IN  /\ HeldPages = UNION owners
            /\ \A t \in Live : IsInjective(spaces[t])
            /\ \A A, B \in owners : A = B \/ A \cap B = {}

Covering(t, v) ==
    {i \in DOMAIN image[t] :
        /\ image[t][i].memsz # 0
        /\ v \in FirstPage(image[t][i]) .. LastPage(image[t][i])}

\* Every process sees the segments of its program, also where two of them
\* share a page (user.ld puts .data right behind .rodata), and may write
\* what is writable; a page of read-only segments alone is not writable.
\* No creation or destruction of another one changes that.  `written` are
\* the addresses the process has changed itself.
ImageLoaded(t, written) ==
    \A i \in DOMAIN image[t] :
        LET seg == image[t][i]
        IN  \A a \in DOMAIN SegmentBytes(seg) :
                LET loc == At(space[t], a)
                    entry == EntryAt(space[t], a \div PageSize, 1)
                IN  /\ a \notin written => bytes[loc[1]][loc[2]] = SegmentBytes(seg)[a]
                    /\ ("write" \in entry.flags) =
                          (\E k \in Covering(t, a \div PageSize) : image[t][k].writable)
=============================================================================
