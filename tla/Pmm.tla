-------------------------------- MODULE Pmm --------------------------------
(***************************************************************************)
(* The physical page allocator, src/kernel/mm/pmm.c: a bitmap with one bit *)
(* per page, a counter of set bits and a next-fit hint.  Every function    *)
(* runs under pmm_lock with interrupts disabled on one CPU, so each is one *)
(* atomic action.  pmm_start is 0, the value multiboot2.c passes.          *)
(*                                                                         *)
(* `runs` and `reserved` are history variables: the runs clients hold and  *)
(* the byte ranges withdrawn at boot.  They are never read by the code.    *)
(***************************************************************************)
EXTENDS Integers, FiniteSets

CONSTANTS PageSize,        \* bytes per page
          MemEnd,          \* mem_end, the first byte past memory
          MaxMemoryPages,  \* MAX_MEMORY_PAGES
          BootRanges,      \* byte ranges <<lo, hi>> pmm_init marks itself
          FirmwareRanges,  \* byte ranges multiboot2.c may reserve
          MaxCount         \* bound: longest run a client asks for

PmmAssumption ==
    /\ PageSize \in Nat \ {0}
    /\ MemEnd \in Nat
    /\ MaxMemoryPages \in Nat \ {0}
    /\ MemEnd \div PageSize > 0
    /\ BootRanges \subseteq Nat \X Nat
    /\ FirmwareRanges \subseteq Nat \X Nat
    /\ MaxCount \in Nat \ {0}

ASSUME PmmConstants == PmmAssumption

VARIABLES bitmap,      \* set of pages whose bit is set
          used_pages,  \* pmm_used_pages
          hint,        \* last_alloc_hint
          runs,        \* history: runs held by clients
          reserved,    \* history: byte ranges withdrawn at boot
          booting,     \* multiboot_parse has not returned yet
          answer       \* what the last call answered

pmmVars == <<bitmap, used_pages, hint, runs, reserved, booting, answer>>

-----------------------------------------------------------------------------
\* pmm_init clips the page count to the size of the bitmap.
TotalPages ==
    IF MemEnd \div PageSize > MaxMemoryPages
    THEN MaxMemoryPages ELSE MemEnd \div PageSize

\* pmm_end, clipped together with the page count.
PmmEnd ==
    IF MemEnd \div PageSize > MaxMemoryPages
    THEN TotalPages * PageSize ELSE MemEnd

Pages == 0 .. TotalPages - 1

\* The pages pmm_mark_used_locked visits: ALIGN_DOWN(lo) to ALIGN_UP(hi).
TouchedPages(lo, hi) ==
    {p \in Pages : /\ lo < hi
                   /\ (p + 1) * PageSize > lo
                   /\ p * PageSize < hi
                   /\ p * PageSize < PmmEnd}

BootPages == UNION {TouchedPages(r[1], r[2]) : r \in BootRanges}

Init ==
    /\ bitmap = BootPages
    /\ used_pages = Cardinality(BootPages)
    /\ hint = 0
    /\ runs = {}
    /\ reserved = BootRanges
    /\ booting = TRUE
    /\ answer = "none"

pmm_reserve_range(lo, hi) ==
    /\ booting
    /\ lo < hi
    /\ LET new == TouchedPages(lo, hi) \ bitmap
       IN  /\ bitmap' = bitmap \cup new
           /\ used_pages' = used_pages + Cardinality(new)
    /\ reserved' = reserved \cup {<<lo, hi>>}
    /\ answer' = "reserved"
    /\ UNCHANGED <<hint, runs, booting>>

\* multiboot_parse returns; heap, vmm and the drivers start afterwards.
BootDone ==
    /\ booting
    /\ booting' = FALSE
    /\ UNCHANGED <<bitmap, used_pages, hint, runs, reserved, answer>>

-----------------------------------------------------------------------------
Run(page, count) == page .. (page + count - 1)

\* Slip: only the first page of a run is looked at.
bitmap_range_is_clear_FirstPage(page, count) ==
    page + count <= TotalPages /\ page \notin bitmap

bitmap_range_is_clear(page, count) ==
    /\ page + count <= TotalPages
    /\ Run(page, count) \cap bitmap = {}

\* The i-th page the search of pmm_alloc_pages looks at.
Probe(i) == ((hint % TotalPages) + i) % TotalPages

pmm_alloc_pages(count) ==
    /\ ~booting
    /\ \E i \in 0 .. TotalPages - 1 :
          LET page == Probe(i)
          IN  /\ bitmap_range_is_clear(page, count)
              /\ \A j \in 0 .. i - 1 : ~bitmap_range_is_clear(Probe(j), count)
              /\ bitmap' = bitmap \cup Run(page, count)
              /\ used_pages' = used_pages + count
              /\ hint' = page + count
              /\ runs' = runs \cup {[page |-> page, count |-> count]}
    /\ answer' = "ok"
    /\ UNCHANGED <<reserved, booting>>

pmm_alloc_pages_fails(count) ==
    /\ ~booting
    /\ \A i \in 0 .. TotalPages - 1 : ~bitmap_range_is_clear(Probe(i), count)
    /\ answer' = "oom"
    /\ UNCHANGED <<bitmap, used_pages, hint, runs, reserved, booting>>

\* The early returns of pmm_free_pages: address, alignment, range, double free.
FreeAccepted(addr, count) ==
    /\ count > 0
    /\ addr < PmmEnd
    /\ addr % PageSize = 0
    /\ (addr \div PageSize) + count <= TotalPages
    /\ Run(addr \div PageSize, count) \subseteq bitmap

pmm_free_pages(addr, count) ==
    LET page == addr \div PageSize
    IN  /\ ~booting
        /\ FreeAccepted(addr, count)
        /\ bitmap' = bitmap \ Run(page, count)
        /\ used_pages' = used_pages - count
        /\ hint' = IF page < hint THEN page ELSE hint
        /\ runs' = runs \ {[page |-> page, count |-> count]}
        /\ answer' = "freed"
        /\ UNCHANGED <<reserved, booting>>

pmm_free_pages_refused(addr, count) ==
    /\ ~booting
    /\ ~FreeAccepted(addr, count)
    /\ answer' = "refused"
    /\ UNCHANGED <<bitmap, used_pages, hint, runs, reserved, booting>>

\* The contract of the callers, vmm_free_pages among them: what is accepted is
\* a run the caller holds.
CallerHolds(addr, count) ==
    [page |-> addr \div PageSize, count |-> count] \in runs

Next ==
    \/ \E r \in FirmwareRanges : pmm_reserve_range(r[1], r[2])
    \/ BootDone
    \/ \E n \in 1 .. MaxCount : pmm_alloc_pages(n) \/ pmm_alloc_pages_fails(n)
    \/ \E addr \in 0 .. MemEnd, n \in 0 .. MaxCount :
          \/ CallerHolds(addr, n) /\ pmm_free_pages(addr, n)
          \/ pmm_free_pages_refused(addr, n)

Spec == Init /\ [][Next]_pmmVars

-----------------------------------------------------------------------------
Answers == {"none", "reserved", "ok", "oom", "freed", "refused"}

HeldRuns == {r \in [page : Pages, count : 1 .. MaxCount] :
                r.page + r.count <= TotalPages}

ReservedPages == UNION {TouchedPages(q[1], q[2]) : q \in reserved}

HeldPages == UNION {Run(r.page, r.count) : r \in runs}

\* The bitmap, the hint and the history have their types.
TypeOK ==
    /\ bitmap \subseteq Pages
    /\ used_pages \in Int
    /\ hint \in 0 .. TotalPages
    /\ runs \subseteq HeldRuns
    /\ reserved \subseteq Nat \X Nat
    /\ booting \in BOOLEAN
    /\ answer \in Answers

\* pmm_used_pages, from which sysinfo reports free memory, counts the set
\* bits exactly through every mix of reservations, allocations and frees.
UsedCountExact == used_pages = Cardinality(bitmap)

\* No page is handed out twice: runs that clients hold never overlap.
RunsDisjoint ==
    \A r, s \in runs : r # s => Run(r.page, r.count) \cap Run(s.page, s.count) = {}

\* No byte of the kernel image, the boot page tables, the bitmap, a boot
\* module or firmware memory ever lies in a page a client holds, although
\* such ranges start and end inside pages.
ReservedNeverHeld ==
    \A r \in runs, q \in reserved :
        q[1] < q[2] =>
            \/ q[2] <= r.page * PageSize
            \/ (r.page + r.count) * PageSize <= q[1]

\* Page by page: what is withdrawn is not held, and nothing is handed out
\* before the firmware's memory map has been withdrawn.
HeldApartFromReserved ==
    /\ HeldPages \cap ReservedPages = {}
    /\ booting => runs = {}

\* The bitmap says used for exactly the withdrawn and the held pages: nothing
\* leaks when a run is given back and nothing held is marked free.
BitmapExact == bitmap = ReservedPages \cup HeldPages

\* The allocator behaves as the abstract page allocator.
Abstract == INSTANCE PageAllocator WITH
    NumPages <- TotalPages, MaxRun <- MaxCount,
    free <- Pages \ bitmap, held <- runs, answer <- answer

\* Every step is a step the abstract allocator allows: a failed allocation
\* means no run of that length is free, whatever the hint was.
ImplementsPageAllocator == Abstract!ASpec
=============================================================================
