--------------------------- MODULE PageAllocator ---------------------------
(***************************************************************************)
(* What the kernel's page allocator promises its clients (vmm.c, task.c,   *)
(* elf.c, uhci.c), whatever data structure it keeps: an allocation hands   *)
(* out a run of consecutive pages nobody holds, it fails only when no such *)
(* run is left, and giving a run back makes exactly its pages available.   *)
(***************************************************************************)
EXTENDS Integers, FiniteSets

CONSTANTS NumPages,   \* pages the allocator manages
          MaxRun      \* longest run a client asks for

VARIABLES free,       \* the pages nobody holds
          held,       \* the runs clients hold: records [page, count]
          answer      \* what the last call answered

absVars == <<free, held, answer>>

RunPages(r) == r.page .. (r.page + r.count - 1)

FreeRuns(n) == {p \in 0 .. NumPages - 1 : p .. (p + n - 1) \subseteq free}

AInit ==
    /\ free \subseteq 0 .. NumPages - 1
    /\ held = {}
    /\ answer = "none"

\* Firmware ranges are withdrawn before the first allocation.
AReserve ==
    /\ held = {}
    /\ free' \subseteq free
    /\ answer' = "reserved"
    /\ UNCHANGED held

AAlloc ==
    \E n \in 1 .. MaxRun : \E p \in FreeRuns(n) :
        /\ free' = free \ (p .. (p + n - 1))
        /\ held' = held \cup {[page |-> p, count |-> n]}
        /\ answer' = "ok"

AOutOfMemory ==
    \E n \in 1 .. MaxRun :
        /\ FreeRuns(n) = {}
        /\ answer' = "oom"
        /\ UNCHANGED <<free, held>>

AFree ==
    \E r \in held :
        /\ free' = free \cup RunPages(r)
        /\ held' = held \ {r}
        /\ answer' = "freed"

ARefuse ==
    /\ answer' = "refused"
    /\ UNCHANGED <<free, held>>

ANext == AReserve \/ AAlloc \/ AOutOfMemory \/ AFree \/ ARefuse

ASpec == AInit /\ [][ANext]_absVars
=============================================================================
