---------------------------- MODULE MemoryProofs ----------------------------
(***************************************************************************)
(* Proofs about physical and virtual memory, for every memory size, every  *)
(* shape of the page tables, every program and every number of tasks:      *)
(*   - Pmm: its counters, bitmap and held runs agree, reserved pages are   *)
(*     never held, and it implements PageAllocator;                        *)
(*   - AddressSpace and UserAccess: the kernel keeps to pmm's contract,    *)
(*     every frame in use is in one place, processes have the images of    *)
(*     their programs, and user access tells the truth about user memory   *)
(*     and writes only where the program may.                              *)
(***************************************************************************)
EXTENDS UserAccess, FiniteSetTheorems, WellFoundedInduction, TLAPS

\* The inductive invariant: the counter, the bitmap and the held runs agree.
IInv ==
    /\ TypeOK
    /\ UsedCountExact
    /\ RunsDisjoint
    /\ HeldApartFromReserved
    /\ BitmapExact

-----------------------------------------------------------------------------
\* pmm_init manages at least one page and never more than the bitmap holds.
LEMMA TotalPagesPositive == TotalPages \in Nat \ {0}
BY PmmConstants DEF PmmAssumption, TotalPages

\* The bitmap, a set of pages, can be counted.
LEMMA BitmapFinite ==
    ASSUME NEW S \in SUBSET Pages
    PROVE  IsFiniteSet(S) /\ Cardinality(S) \in Nat
<1>1. 0 \in Int /\ TotalPages - 1 \in Int
  BY TotalPagesPositive
<1>2. IsFiniteSet(Pages)
  BY <1>1, FS_Interval DEF Pages
<1> QED BY <1>2, FS_Subset, FS_CardinalityType

\* A run of n pages has n pages, and stays inside memory when it ends there.
LEMMA RunFacts ==
    ASSUME NEW p \in Nat, NEW n \in Nat \ {0}
    PROVE  /\ IsFiniteSet(Run(p, n))
           /\ Cardinality(Run(p, n)) = n
           /\ p + n <= TotalPages => Run(p, n) \subseteq Pages
<1>1. p \in Int /\ p + n - 1 \in Int /\ ~(p > p + n - 1)
  OBVIOUS
<1>2. IsFiniteSet(Run(p, n)) /\ Cardinality(Run(p, n)) = n
  BY <1>1, FS_Interval DEF Run
<1>3. p + n <= TotalPages => Run(p, n) \subseteq Pages
  BY TotalPagesPositive DEF Run, Pages
<1> QED BY <1>2, <1>3

\* Marking clear pages adds their number to the count.
LEMMA CountAdd ==
    ASSUME NEW S \in SUBSET Pages, NEW T \in SUBSET Pages, S \cap T = {}
    PROVE  Cardinality(S \cup T) = Cardinality(S) + Cardinality(T)
<1>1. IsFiniteSet(S) /\ IsFiniteSet(T) /\ Cardinality(S) \in Nat /\ Cardinality(T) \in Nat
  BY BitmapFinite
<1>2. Cardinality(S \cup T) = Cardinality(S) + Cardinality(T) - Cardinality(S \cap T)
  BY <1>1, FS_Union
<1> QED BY <1>1, <1>2, FS_EmptySet

\* Clearing set pages takes their number off the count.
LEMMA CountRemove ==
    ASSUME NEW S \in SUBSET Pages, NEW T \in SUBSET S
    PROVE  Cardinality(S \ T) = Cardinality(S) - Cardinality(T)
<1>1. IsFiniteSet(S) BY BitmapFinite
<1>2. S \cap T = T OBVIOUS
<1> QED BY <1>1, <1>2, FS_Difference

\* Whatever the hint, the search of pmm_alloc_pages stays inside memory.
LEMMA ProbeInPages ==
    ASSUME TypeOK, NEW i \in 0 .. TotalPages - 1
    PROVE  Probe(i) \in Pages
BY TotalPagesPositive DEF TypeOK, Probe, Pages

\* The byte ranges withdrawn at boot cover pages of memory only.
LEMMA ReservedInPages == TypeOK => ReservedPages \subseteq Pages
BY DEF ReservedPages, TouchedPages

-----------------------------------------------------------------------------
\* After pmm_init the counter and the bitmap agree and nothing is held.
LEMMA InitIInv == Init => IInv
<1> SUFFICES ASSUME Init PROVE IInv OBVIOUS
<1>1. BootPages = ReservedPages /\ BootPages \subseteq Pages
  BY DEF Init, BootPages, ReservedPages, TouchedPages
<1>2. Cardinality(BootPages) \in Nat
  BY <1>1, BitmapFinite
<1>3. TypeOK
  BY <1>1, <1>2, TotalPagesPositive, PmmConstants
     DEF Init, TypeOK, Answers, PmmAssumption
<1>4. HeldPages = {}
  BY DEF Init, HeldPages
<1> QED
  BY <1>1, <1>3, <1>4
     DEF IInv, Init, UsedCountExact, RunsDisjoint, HeldApartFromReserved, BitmapExact

\* pmm_reserve_range counts each newly marked page once.
LEMMA ReserveKeepsIInv ==
    ASSUME IInv, NEW r \in FirmwareRanges, pmm_reserve_range(r[1], r[2])
    PROVE  IInv'
<1> DEFINE touched == TouchedPages(r[1], r[2])
           new == touched \ bitmap
<1>1. r \in Nat \X Nat /\ r = <<r[1], r[2]>>
  BY PmmConstants DEF PmmAssumption
<1>2. /\ bitmap \in SUBSET Pages /\ touched \in SUBSET Pages
      /\ new \in SUBSET Pages /\ bitmap \cap new = {}
  BY DEF IInv, TypeOK, TouchedPages
<1>3. /\ bitmap' = bitmap \cup new
      /\ used_pages' = used_pages + Cardinality(new)
      /\ reserved' = reserved \cup {r}
      /\ booting /\ booting' = booting /\ runs' = runs /\ hint' = hint
      /\ answer' = "reserved"
  BY <1>1 DEF pmm_reserve_range
<1>4. Cardinality(new) \in Nat
  BY <1>2, BitmapFinite
<1>5. TypeOK'
  <2>1. bitmap' \subseteq Pages /\ reserved' \subseteq Nat \X Nat
    BY <1>1, <1>2, <1>3 DEF IInv, TypeOK
  <2>2. used_pages' \in Int
    BY <1>3, <1>4 DEF IInv, TypeOK
  <2> QED BY <1>3, <2>1, <2>2 DEF IInv, TypeOK, Answers
<1>6. UsedCountExact'
  BY <1>2, <1>3, CountAdd DEF IInv, UsedCountExact
<1>7. runs = {} /\ runs' = {} /\ HeldPages = {} /\ HeldPages' = {}
  BY <1>3 DEF IInv, HeldApartFromReserved, HeldPages
<1>8. ReservedPages' = ReservedPages \cup touched
  BY <1>3 DEF ReservedPages
<1>9. BitmapExact'
  BY <1>3, <1>7, <1>8 DEF IInv, BitmapExact
<1> QED
  BY <1>5, <1>6, <1>7, <1>9 DEF IInv, RunsDisjoint, HeldApartFromReserved

\* A successful pmm_alloc_pages marks pages that were neither held nor
\* withdrawn, and counts exactly as many.
LEMMA AllocKeepsIInv ==
    ASSUME IInv, NEW n \in 1 .. MaxCount, pmm_alloc_pages(n)
    PROVE  IInv'
<1>1. PICK i \in 0 .. TotalPages - 1 :
         /\ bitmap_range_is_clear(Probe(i), n)
         /\ bitmap' = bitmap \cup Run(Probe(i), n)
         /\ used_pages' = used_pages + n
         /\ hint' = Probe(i) + n
         /\ runs' = runs \cup {[page |-> Probe(i), count |-> n]}
  BY DEF pmm_alloc_pages
<1> DEFINE p == Probe(i)
           r == [page |-> p, count |-> n]
<1>2. p \in Pages /\ p \in Nat /\ n \in Nat \ {0}
  BY ProbeInPages, TotalPagesPositive, PmmConstants DEF IInv, Pages, PmmAssumption
<1>3. p + n <= TotalPages /\ bitmap \cap Run(p, n) = {}
  BY <1>1 DEF bitmap_range_is_clear
<1>4. Run(p, n) \in SUBSET Pages /\ Cardinality(Run(p, n)) = n
  BY <1>2, <1>3, RunFacts
<1>5. reserved' = reserved /\ booting' = booting /\ ~booting /\ answer' = "ok"
  BY DEF pmm_alloc_pages
<1> HIDE DEF p
<1>6. r \in HeldRuns
  BY <1>2, <1>3 DEF HeldRuns
<1>7. TypeOK'
  <2>1. bitmap' \subseteq Pages /\ runs' \subseteq HeldRuns
    BY <1>1, <1>4, <1>6 DEF IInv, TypeOK, p
  <2>2. used_pages' \in Int /\ hint' \in 0 .. TotalPages
    BY <1>1, <1>2, <1>3, TotalPagesPositive DEF IInv, TypeOK, p
  <2> QED BY <1>5, <2>1, <2>2 DEF IInv, TypeOK, Answers
<1>8. UsedCountExact'
  BY <1>1, <1>3, <1>4, CountAdd DEF IInv, UsedCountExact, TypeOK, p
<1>9. HeldPages' = HeldPages \cup Run(p, n)
  <2>1. r.page = p /\ r.count = n /\ runs' = runs \cup {r}
    BY <1>1 DEF p
  <2> HIDE DEF r
  <2> QED BY <2>1 DEF HeldPages
<1>10. ReservedPages' = ReservedPages
  BY <1>5 DEF ReservedPages
<1>11. HeldApartFromReserved'
  BY <1>3, <1>5, <1>9, <1>10 DEF IInv, HeldApartFromReserved, BitmapExact
<1>12. BitmapExact'
  BY <1>1, <1>9, <1>10 DEF IInv, BitmapExact, p
<1>13. \A s \in runs : Run(s.page, s.count) \cap Run(p, n) = {}
  BY <1>3 DEF IInv, BitmapExact, HeldPages
<1>14. RunsDisjoint'
  BY <1>1, <1>13 DEF IInv, RunsDisjoint, p
<1> QED BY <1>7, <1>8, <1>11, <1>12, <1>14 DEF IInv

\* Giving back a held run clears its pages and no others.
LEMMA FreeKeepsIInv ==
    ASSUME IInv, NEW addr \in 0 .. MemEnd, NEW n \in 0 .. MaxCount,
           CallerHolds(addr, n), pmm_free_pages(addr, n)
    PROVE  IInv'
<1> DEFINE p == addr \div PageSize
           r == [page |-> p, count |-> n]
<1>1. /\ bitmap' = bitmap \ Run(p, n)
      /\ used_pages' = used_pages - n
      /\ hint' = (IF p < hint THEN p ELSE hint)
      /\ runs' = runs \ {r}
      /\ reserved' = reserved /\ booting' = booting /\ ~booting /\ answer' = "freed"
      /\ Run(p, n) \subseteq bitmap
  BY DEF pmm_free_pages, FreeAccepted
<1>2. r \in runs /\ r.page = p /\ r.count = n
  BY DEF CallerHolds
<1> HIDE DEF p
<1>3. p \in Nat /\ n \in Nat \ {0} /\ p \in Pages
  BY <1>2, TotalPagesPositive, PmmConstants DEF IInv, TypeOK, HeldRuns, Pages, PmmAssumption
<1>4. Cardinality(Run(p, n)) = n
  BY <1>3, RunFacts
<1>5. TypeOK'
  <2>1. bitmap' \subseteq Pages /\ runs' \subseteq HeldRuns
    BY <1>1 DEF IInv, TypeOK
  <2>2. used_pages' \in Int /\ hint' \in 0 .. TotalPages
    BY <1>1, <1>3, TotalPagesPositive DEF IInv, TypeOK, Pages
  <2> QED BY <1>1, <2>1, <2>2 DEF IInv, TypeOK, Answers
<1>6. UsedCountExact'
  BY <1>1, <1>4, CountRemove DEF IInv, UsedCountExact, TypeOK
<1>7. \A s \in runs' : Run(s.page, s.count) \cap Run(p, n) = {}
  BY <1>1, <1>2 DEF IInv, RunsDisjoint
<1>8. HeldPages' = HeldPages \ Run(p, n)
  <2>1. HeldPages' \subseteq HeldPages \ Run(p, n)
    BY <1>1, <1>7 DEF HeldPages
  <2>2. ASSUME NEW x \in HeldPages, x \notin Run(p, n)
        PROVE  x \in HeldPages'
    <3>1. PICK s \in runs : x \in Run(s.page, s.count)
      BY <2>2 DEF HeldPages
    <3>2. s # r
      BY <1>2, <2>2, <3>1
    <3> QED BY <1>1, <3>1, <3>2 DEF HeldPages
  <2> QED BY <2>1, <2>2
<1>9. ReservedPages' = ReservedPages
  BY <1>1 DEF ReservedPages
<1>10. Run(p, n) \cap ReservedPages = {}
  BY <1>2 DEF IInv, HeldApartFromReserved, HeldPages
<1>11. BitmapExact'
  BY <1>1, <1>8, <1>9, <1>10 DEF IInv, BitmapExact
<1>12. HeldApartFromReserved'
  BY <1>1, <1>8, <1>9 DEF IInv, HeldApartFromReserved
<1>13. RunsDisjoint'
  BY <1>1 DEF IInv, RunsDisjoint
<1> QED BY <1>5, <1>6, <1>11, <1>12, <1>13 DEF IInv

\* The remaining steps change neither the bitmap nor what is held.
LEMMA QuietStepKeepsIInv ==
    ASSUME IInv, UNCHANGED <<bitmap, used_pages, hint, runs, reserved>>,
           booting' = booting \/ booting' = FALSE, answer' \in Answers
    PROVE  IInv'
<1>1. TypeOK'
  BY DEF IInv, TypeOK
<1>2. HeldPages' = HeldPages /\ ReservedPages' = ReservedPages
  BY DEF HeldPages, ReservedPages
<1>3. HeldApartFromReserved'
  BY <1>2 DEF IInv, HeldApartFromReserved
<1>4. UsedCountExact' /\ RunsDisjoint' /\ BitmapExact'
  BY <1>2 DEF IInv, UsedCountExact, RunsDisjoint, BitmapExact
<1> QED BY <1>1, <1>3, <1>4 DEF IInv

\* Every step of the allocator preserves the inductive invariant.
LEMMA NextKeepsIInv == IInv /\ [Next]_pmmVars => IInv'
<1> SUFFICES ASSUME IInv, [Next]_pmmVars PROVE IInv' OBVIOUS
<1>1. CASE \E r \in FirmwareRanges : pmm_reserve_range(r[1], r[2])
  BY <1>1, ReserveKeepsIInv
<1>2. CASE BootDone
  BY <1>2, QuietStepKeepsIInv DEF BootDone, IInv, TypeOK
<1>3. CASE \E n \in 1 .. MaxCount : pmm_alloc_pages(n) \/ pmm_alloc_pages_fails(n)
  <2>1. PICK n \in 1 .. MaxCount : pmm_alloc_pages(n) \/ pmm_alloc_pages_fails(n)
    BY <1>3
  <2>2. CASE pmm_alloc_pages(n)
    BY <2>2, AllocKeepsIInv
  <2>3. CASE pmm_alloc_pages_fails(n)
    BY <2>3, QuietStepKeepsIInv DEF pmm_alloc_pages_fails, Answers
  <2> QED BY <2>1, <2>2, <2>3
<1>4. CASE \E addr \in 0 .. MemEnd, n \in 0 .. MaxCount :
              \/ CallerHolds(addr, n) /\ pmm_free_pages(addr, n)
              \/ pmm_free_pages_refused(addr, n)
  <2>1. PICK addr \in 0 .. MemEnd, n \in 0 .. MaxCount :
              \/ CallerHolds(addr, n) /\ pmm_free_pages(addr, n)
              \/ pmm_free_pages_refused(addr, n)
    BY <1>4
  <2>2. CASE CallerHolds(addr, n) /\ pmm_free_pages(addr, n)
    BY <2>2, FreeKeepsIInv
  <2>3. CASE pmm_free_pages_refused(addr, n)
    BY <2>3, QuietStepKeepsIInv DEF pmm_free_pages_refused, Answers
  <2> QED BY <2>1, <2>2, <2>3
<1>5. CASE UNCHANGED pmmVars
  BY <1>5, QuietStepKeepsIInv DEF pmmVars, IInv, TypeOK
<1> QED BY <1>1, <1>2, <1>3, <1>4, <1>5 DEF Next

\* For every memory size and every sequence of calls, pmm_used_pages is exact,
\* no page is held twice or both held and withdrawn, and the bitmap marks
\* exactly the held and the withdrawn pages.
THEOREM PmmSafe ==
    Spec => [](TypeOK /\ UsedCountExact /\ RunsDisjoint /\ HeldApartFromReserved /\ BitmapExact)
<1>1. IInv => TypeOK /\ UsedCountExact /\ RunsDisjoint /\ HeldApartFromReserved /\ BitmapExact
  BY DEF IInv
<1> QED BY InitIInv, NextKeepsIInv, <1>1, PTL DEF Spec

-----------------------------------------------------------------------------
\* The wrap of the search at the end of the bitmap.
LEMMA Wrap ==
    ASSUME NEW T \in Nat \ {0}, NEW q \in 0 .. T - 1
    PROVE  q % T = q /\ (q + T) % T = q
OBVIOUS

\* Starting at any hint, the search of pmm_alloc_pages meets every page.
LEMMA SearchMeetsEveryPage ==
    ASSUME TypeOK, NEW q \in Pages
    PROVE  \E i \in 0 .. TotalPages - 1 : Probe(i) = q
<1> DEFINE h == hint % TotalPages
           i == IF q >= h THEN q - h ELSE q - h + TotalPages
<1>1. TotalPages \in Nat \ {0} /\ q \in 0 .. TotalPages - 1 /\ h \in 0 .. TotalPages - 1
  BY TotalPagesPositive DEF TypeOK, Pages
<1> HIDE DEF h
<1>2. i \in 0 .. TotalPages - 1 /\ (h + i = q \/ h + i = q + TotalPages)
  BY <1>1
<1> HIDE DEF i
<1>3. (h + i) % TotalPages = q
  BY <1>1, <1>2, Wrap
<1> QED BY <1>2, <1>3 DEF Probe, h

\* A run the search would accept is a run the abstract allocator has free.
LEMMA ClearIsFree ==
    ASSUME TypeOK, NEW n \in 1 .. MaxCount, NEW q \in Pages
    PROVE  bitmap_range_is_clear(q, n) <=> q \in Abstract!FreeRuns(n)
<1>1. q \in Nat /\ n \in Nat \ {0}
  BY TotalPagesPositive, PmmConstants DEF Pages, PmmAssumption
<1>2. q + n <= TotalPages <=> Run(q, n) \subseteq Pages
  <2>1. q + n <= TotalPages => Run(q, n) \subseteq Pages
    BY <1>1, RunFacts
  <2>2. q + n - 1 \in Run(q, n) /\ (q + n - 1 \in Pages => q + n <= TotalPages)
    BY <1>1, TotalPagesPositive DEF Run, Pages
  <2> QED BY <2>1, <2>2
<1>3. q \in Abstract!FreeRuns(n) <=> Run(q, n) \subseteq Pages \ bitmap
  BY DEF Abstract!FreeRuns, Run, Pages
<1> QED BY <1>2, <1>3 DEF bitmap_range_is_clear

\* The state after pmm_init is an initial state of the abstract allocator.
LEMMA InitRefines == Init => Abstract!AInit
BY DEF Init, Abstract!AInit, Pages

\* Every step of the bitmap allocator is a step of the abstract one.
LEMMA NextRefines ==
    ASSUME IInv, IInv', [Next]_pmmVars
    PROVE  [Abstract!ANext]_(Abstract!absVars)
<1> USE DEF Abstract!ANext
<1>1. ASSUME NEW r \in FirmwareRanges, pmm_reserve_range(r[1], r[2])
      PROVE  Abstract!AReserve
  BY <1>1 DEF pmm_reserve_range, Abstract!AReserve, IInv, HeldApartFromReserved
<1>2. ASSUME BootDone PROVE UNCHANGED Abstract!absVars
  BY <1>2 DEF BootDone, Abstract!absVars
<1>3. ASSUME NEW n \in 1 .. MaxCount, pmm_alloc_pages(n)
      PROVE  Abstract!AAlloc
  <2>1. PICK i \in 0 .. TotalPages - 1 :
           /\ bitmap_range_is_clear(Probe(i), n)
           /\ bitmap' = bitmap \cup Run(Probe(i), n)
           /\ runs' = runs \cup {[page |-> Probe(i), count |-> n]}
    BY <1>3 DEF pmm_alloc_pages
  <2>2. Probe(i) \in Pages /\ answer' = "ok"
    BY <1>3, ProbeInPages DEF IInv, pmm_alloc_pages
  <2>3. Probe(i) \in Abstract!FreeRuns(n)
    BY <2>1, <2>2, ClearIsFree DEF IInv
  <2>4. Pages \ bitmap' = (Pages \ bitmap) \ (Probe(i) .. (Probe(i) + n - 1))
    BY <2>1 DEF Run
  <2> QED BY <2>1, <2>2, <2>3, <2>4 DEF Abstract!AAlloc
<1>4. ASSUME NEW n \in 1 .. MaxCount, pmm_alloc_pages_fails(n)
      PROVE  Abstract!AOutOfMemory
  <2>1. \A q \in Pages : ~bitmap_range_is_clear(q, n)
    BY <1>4, SearchMeetsEveryPage DEF IInv, pmm_alloc_pages_fails
  <2>2. Abstract!FreeRuns(n) = {}
    <3>1. Abstract!FreeRuns(n) \subseteq Pages
      BY DEF Abstract!FreeRuns, Pages
    <3> QED BY <2>1, <3>1, ClearIsFree DEF IInv
  <2> QED BY <1>4, <2>2 DEF pmm_alloc_pages_fails, Abstract!AOutOfMemory
<1>5. ASSUME NEW addr \in 0 .. MemEnd, NEW n \in 0 .. MaxCount,
             CallerHolds(addr, n), pmm_free_pages(addr, n)
      PROVE  Abstract!AFree
  <2> DEFINE r == [page |-> addr \div PageSize, count |-> n]
  <2>1. r \in runs /\ runs' = runs \ {r} /\ answer' = "freed"
    BY <1>5 DEF CallerHolds, pmm_free_pages
  <2>2. bitmap' = bitmap \ Run(r.page, r.count) /\ Run(r.page, r.count) \subseteq bitmap
    BY <1>5 DEF pmm_free_pages, FreeAccepted
  <2> HIDE DEF r
  <2>3. Pages \ bitmap' = (Pages \ bitmap) \cup Abstract!RunPages(r)
    BY <2>2 DEF Abstract!RunPages, Run, IInv, TypeOK
  <2> QED BY <2>1, <2>3 DEF Abstract!AFree
<1>6. ASSUME NEW addr \in 0 .. MemEnd, NEW n \in 0 .. MaxCount,
             pmm_free_pages_refused(addr, n)
      PROVE  Abstract!ARefuse
  BY <1>6 DEF pmm_free_pages_refused, Abstract!ARefuse
<1>7. ASSUME UNCHANGED pmmVars PROVE UNCHANGED Abstract!absVars
  BY <1>7 DEF pmmVars, Abstract!absVars
<1> QED BY <1>1, <1>2, <1>3, <1>4, <1>5, <1>6, <1>7 DEF Next

\* The bitmap with its next-fit hint implements the abstract page allocator:
\* in particular pmm_alloc_pages reports out of memory only when no run of
\* that many consecutive free pages exists.
THEOREM PmmImplementsPageAllocator == Spec => ImplementsPageAllocator
<1>1. Spec => []IInv
  BY InitIInv, NextKeepsIInv, PTL DEF Spec
<1>2. IInv /\ IInv' /\ [Next]_pmmVars => [Abstract!ANext]_(Abstract!absVars)
  BY NextRefines
<1> QED
  BY InitRefines, <1>1, <1>2, PTL DEF Spec, ImplementsPageAllocator, Abstract!ASpec
-----------------------------------------------------------------------------
\* Facts about whole pages in bytes.
LEMMA Division ==
    ASSUME NEW b \in Nat, NEW d \in Nat \ {0}
    PROVE  /\ b \div d \in Nat
           /\ (b \div d) * d <= b
           /\ b < ((b \div d) + 1) * d
OBVIOUS

\* Multiplication by a size keeps the order.
LEMMA Monotone ==
    ASSUME NEW a \in Nat, NEW b \in Nat, NEW d \in Nat \ {0}
    PROVE  /\ a <= b => a * d <= b * d
           /\ a < b => a * d < b * d
           /\ a * d \in Nat
OBVIOUS

\* Every managed page begins before pmm_end.
LEMMA PagesBelowEnd ==
    ASSUME NEW p \in Pages
    PROVE  p * PageSize < PmmEnd
<1>1. /\ PageSize \in Nat \ {0} /\ MemEnd \in Nat /\ MemEnd \div PageSize \in Nat
      /\ p \in Nat /\ p < TotalPages /\ TotalPages \in Nat
  BY PmmConstants, TotalPagesPositive, Division DEF PmmAssumption, Pages
<1>2. p * PageSize < TotalPages * PageSize
  BY <1>1, Monotone
<1>3. CASE MemEnd \div PageSize > MaxMemoryPages
  BY <1>2, <1>3 DEF PmmEnd
<1>4. CASE ~(MemEnd \div PageSize > MaxMemoryPages)
  <2>1. TotalPages = MemEnd \div PageSize /\ PmmEnd = MemEnd
    BY <1>4 DEF TotalPages, PmmEnd
  <2>2. TotalPages * PageSize <= MemEnd
    BY <1>1, <2>1, Division
  <2> QED BY <1>1, <1>2, <2>1, <2>2, Monotone
<1> QED BY <1>3, <1>4

\* A run of pages that shares a byte with a range contains a page that
\* pmm_mark_used_locked visits for that range.
LEMMA OverlapIsTouched ==
    ASSUME NEW p \in Nat, NEW n \in Nat \ {0}, Run(p, n) \subseteq Pages,
           NEW lo \in Nat, NEW hi \in Nat, lo < hi,
           p * PageSize < hi, lo < (p + n) * PageSize
    PROVE  Run(p, n) \cap TouchedPages(lo, hi) # {}
<1> DEFINE b == lo \div PageSize
<1>1. PageSize \in Nat \ {0}
  BY PmmConstants DEF PmmAssumption
<1>2. b \in Nat /\ b * PageSize <= lo /\ lo < (b + 1) * PageSize
  BY <1>1, Division
<1> HIDE DEF b
<1>3. CASE b < p
  <2>1. p \in Run(p, n) /\ p \in Pages
    BY DEF Run
  <2>2. (b + 1) * PageSize <= p * PageSize /\ p * PageSize <= (p + 1) * PageSize
    BY <1>1, <1>2, <1>3, Monotone
  <2>3. lo < (p + 1) * PageSize
    BY <1>1, <1>2, <2>2, Monotone
  <2> QED BY <2>1, <2>3, PagesBelowEnd DEF TouchedPages
<1>4. CASE b >= p
  <2>1. b < p + n
    <3>1. SUFFICES ASSUME p + n <= b PROVE FALSE
      BY <1>2
    <3>2. (p + n) * PageSize <= b * PageSize
      BY <1>1, <1>2, <3>1, Monotone
    <3> QED BY <1>1, <1>2, <3>2, Monotone
  <2>2. b \in Run(p, n) /\ b \in Pages
    BY <1>2, <1>4, <2>1 DEF Run
  <2>3. b * PageSize < hi
    BY <1>1, <1>2, Monotone
  <2> QED BY <1>2, <2>2, <2>3, PagesBelowEnd DEF TouchedPages
<1> QED BY <1>2, <1>3, <1>4

\* No byte of the kernel image, a boot module or firmware memory is ever in a
\* page that pmm_alloc_pages handed out, wherever those ranges start or end.
THEOREM ReservedBytesSafe == Spec => []ReservedNeverHeld
<1>1. IInv => ReservedNeverHeld
  <2> SUFFICES ASSUME IInv, NEW r \in runs, NEW q \in reserved, q[1] < q[2],
                      ~(q[2] <= r.page * PageSize),
                      ~((r.page + r.count) * PageSize <= q[1])
               PROVE  FALSE
    BY DEF ReservedNeverHeld
  <2>1. /\ r.page \in Nat /\ r.count \in Nat \ {0} /\ Run(r.page, r.count) \subseteq Pages
        /\ q[1] \in Nat /\ q[2] \in Nat /\ PageSize \in Nat \ {0}
    BY RunFacts, TotalPagesPositive, PmmConstants
       DEF IInv, TypeOK, HeldRuns, Pages, PmmAssumption
  <2>2. r.page * PageSize \in Nat /\ (r.page + r.count) * PageSize \in Nat
    BY <2>1, Monotone
  <2>3. Run(r.page, r.count) \cap TouchedPages(q[1], q[2]) # {}
    BY <2>1, <2>2, OverlapIsTouched
  <2> QED BY <2>3 DEF IInv, HeldApartFromReserved, HeldPages, ReservedPages
<1> QED BY InitIInv, NextKeepsIInv, <1>1, PTL DEF Spec

-----------------------------------------------------------------------------
(* Pages and the entries that lead to them.                                *)

\* The part of the address space that a table of level l maps for page v.
Area(v, l) == IF l = 4 THEN 0 ELSE v \div Span[l + 1]

\* The pages that an entry of each level covers are powers of the fan-outs.
LEMMA SpanFacts ==
    /\ Fan[1] \in Nat \ {0} /\ Fan[2] \in Nat \ {0} /\ Fan[3] \in Nat \ {0} /\ Fan[4] \in Nat \ {0}
    /\ Span[1] = 1 /\ Span[2] = Fan[1] /\ Span[3] = Fan[1] * Fan[2]
    /\ Span[4] = Fan[1] * Fan[2] * Fan[3]
    /\ \A l \in Levels : Span[l] \in Nat \ {0}
    /\ Span[2] = Span[1] * Fan[1] /\ Span[3] = Span[2] * Fan[2] /\ Span[4] = Span[3] * Fan[3]
<1>1. /\ Fan[1] \in Nat \ {0} /\ Fan[2] \in Nat \ {0} /\ Fan[3] \in Nat \ {0} /\ Fan[4] \in Nat \ {0}
  BY AddressSpaceAssumption DEF Levels
<1>2. /\ Span[1] = 1 /\ Span[2] = Fan[1] /\ Span[3] = Fan[1] * Fan[2]
      /\ Span[4] = Fan[1] * Fan[2] * Fan[3]
  BY DEF Span
<1>3. \A a, b \in Nat \ {0} : a * b \in Nat \ {0}
  OBVIOUS
<1>4. Fan[1] * Fan[2] \in Nat \ {0}
  BY <1>1, <1>3
<1>5. Fan[1] * Fan[2] * Fan[3] \in Nat \ {0}
  BY <1>1, <1>3, <1>4
<1>6. \A l \in Levels : Span[l] \in Nat \ {0}
  BY <1>1, <1>2, <1>4, <1>5 DEF Levels
<1>7. Span[2] = Span[1] * Fan[1] /\ Span[3] = Span[2] * Fan[2] /\ Span[4] = Span[3] * Fan[3]
  BY <1>1, <1>2
<1> QED BY <1>1, <1>2, <1>6, <1>7

\* A quotient is determined by the interval it puts the dividend in.
LEMMA DivUnique ==
    ASSUME NEW b \in Nat, NEW d \in Nat \ {0}, NEW q \in Nat, q * d <= b, b < (q + 1) * d
    PROVE  b \div d = q
<1> DEFINE p == b \div d
<1>1. p \in Nat /\ p * d <= b /\ b < (p + 1) * d
  BY Division
<1> HIDE DEF p
<1>2. ~(p < q)
  <2> SUFFICES ASSUME p < q PROVE FALSE OBVIOUS
  <2>1. p + 1 \in Nat /\ p + 1 <= q
    BY <1>1
  <2>2. (p + 1) * d <= q * d
    BY <1>1, <2>1, Monotone
  <2>3. (p + 1) * d \in Nat /\ q * d \in Nat
    BY <1>1, <2>1, Monotone
  <2> QED BY <1>1, <2>2, <2>3
<1>3. ~(q < p)
  <2> SUFFICES ASSUME q < p PROVE FALSE OBVIOUS
  <2>1. q + 1 \in Nat /\ q + 1 <= p
    BY <1>1
  <2>2. (q + 1) * d <= p * d
    BY <1>1, <2>1, Monotone
  <2>3. (q + 1) * d \in Nat /\ p * d \in Nat
    BY <1>1, <2>1, Monotone
  <2> QED BY <1>1, <2>2, <2>3
<1>4. p = q
  BY <1>1, <1>2, <1>3
<1> QED BY <1>4 DEF p

\* Quotient and remainder put a number together again.
LEMMA DivMod ==
    ASSUME NEW b \in Nat, NEW d \in Nat \ {0}
    PROVE  /\ b \div d \in Nat /\ b % d \in 0 .. d - 1
           /\ b = (b \div d) * d + (b % d)
OBVIOUS

\* Products may be regrouped.
LEMMA Assoc ==
    ASSUME NEW a \in Int, NEW b \in Int, NEW c \in Int
    PROVE  (a * b) * c = a * (b * c) /\ a * (b * c) = (a * c) * b /\ a * b = b * a
OBVIOUS

\* Dividing twice is dividing by the product.
LEMMA DivDiv ==
    ASSUME NEW b \in Nat, NEW d \in Nat \ {0}, NEW e \in Nat \ {0}
    PROVE  b \div (d * e) = (b \div d) \div e
<1> DEFINE x == b \div d
           q == x \div e
<1>1. x \in Nat /\ x * d <= b /\ b < (x + 1) * d
  BY Division
<1> HIDE DEF x
<1>2. q \in Nat /\ q * e <= x /\ x < (q + 1) * e
  BY <1>1, Division
<1> HIDE DEF q
<1>3. d * e \in Nat \ {0} /\ q * e \in Nat /\ (q + 1) * e \in Nat /\ q + 1 \in Nat /\ x + 1 \in Nat
  BY <1>1, <1>2
<1>4. q * (d * e) = (q * e) * d /\ (q + 1) * (d * e) = ((q + 1) * e) * d
  BY <1>2, <1>3, Assoc
<1>5. (q * e) * d <= x * d /\ (x + 1) * d <= ((q + 1) * e) * d
  BY <1>1, <1>2, <1>3, Monotone
<1>6. (q * e) * d \in Nat /\ x * d \in Nat /\ (x + 1) * d \in Nat /\ ((q + 1) * e) * d \in Nat
  BY <1>1, <1>3, Monotone
<1>7. q * (d * e) <= b /\ b < (q + 1) * (d * e)
  BY <1>1, <1>4, <1>5, <1>6
<1> QED BY <1>2, <1>3, <1>7, DivUnique DEF q, x

\* A table of level l + 1 tells the areas of its entries apart.
LEMMA AreaStep ==
    ASSUME NEW v \in Nat, NEW w \in Nat, NEW l \in 0 .. 3
    PROVE  Area(v, l) = Area(w, l)
             <=> Area(v, l + 1) = Area(w, l + 1) /\ Index(v, l + 1) = Index(w, l + 1)
<1>1. CASE l = 3
  BY <1>1 DEF Area, Index
<1>2. CASE l \in 0 .. 2
  <2> DEFINE S == Span[l + 1]
             F == Fan[l + 1]
  <2>1. S \in Nat \ {0} /\ F \in Nat \ {0} /\ Span[l + 2] = S * F
    <3>1. l = 0 \/ l = 1 \/ l = 2
      BY <1>2
    <3>2. CASE l = 0
      <4>1. l + 1 = 1 /\ l + 2 = 2
        BY <3>2
      <4>2. 1 \in Levels /\ Fan[1] \in Nat \ {0} /\ Span[1] \in Nat \ {0} /\ Span[2] = Span[1] * Fan[1]
        BY SpanFacts DEF Levels
      <4> QED BY <4>1, <4>2
    <3>3. CASE l = 1
      BY <3>3, SpanFacts DEF Levels
    <3>4. CASE l = 2
      BY <3>4, SpanFacts DEF Levels
    <3> QED BY <3>1, <3>2, <3>3, <3>4
  <2>2. Area(v, l) = v \div S /\ Area(w, l) = w \div S
    BY <1>2 DEF Area
  <2>3. Area(v, l + 1) = v \div (S * F) /\ Area(w, l + 1) = w \div (S * F)
    <3>1. l + 1 # 4 /\ (l + 1) + 1 = l + 2
      BY <1>2
    <3> QED BY <2>1, <3>1 DEF Area
  <2>4. Index(v, l + 1) = (v \div S) % F /\ Index(w, l + 1) = (w \div S) % F
    BY <1>2 DEF Index
  <2> HIDE DEF S, F
  <2>5. v \div (S * F) = (v \div S) \div F /\ w \div (S * F) = (w \div S) \div F
    BY <2>1, DivDiv
  <2> DEFINE x == v \div S
             y == w \div S
  <2>6. x \in Nat /\ y \in Nat
    BY <2>1, DivMod
  <2> HIDE DEF x, y
  <2>7. x = (x \div F) * F + (x % F) /\ y = (y \div F) * F + (y % F)
    BY <2>1, <2>6, DivMod
  <2>8. x = y <=> x \div F = y \div F /\ x % F = y % F
    BY ONLY <2>7
  <2> QED BY <2>2, <2>3, <2>4, <2>5, <2>8 DEF x, y
<1> QED BY <1>1, <1>2

\* Pages of one area are in one area at every level above.
LEMMA AreaUp ==
    ASSUME NEW v \in Nat, NEW w \in Nat, NEW l \in 0 .. 4, NEW m \in l .. 4,
           Area(v, l) = Area(w, l)
    PROVE  Area(v, m) = Area(w, m)
<1>1. \A k \in 0 .. 3 : Area(v, k) = Area(w, k) => Area(v, k + 1) = Area(w, k + 1)
  BY AreaStep
<1>2. /\ Area(v, 0) = Area(w, 0) => Area(v, 1) = Area(w, 1)
      /\ Area(v, 1) = Area(w, 1) => Area(v, 2) = Area(w, 2)
      /\ Area(v, 2) = Area(w, 2) => Area(v, 3) = Area(w, 3)
      /\ Area(v, 3) = Area(w, 3) => Area(v, 4) = Area(w, 4)
  BY <1>1
<1>3. /\ l = 0 \/ l = 1 \/ l = 2 \/ l = 3 \/ l = 4
      /\ m = 0 \/ m = 1 \/ m = 2 \/ m = 3 \/ m = 4
      /\ l <= m
  OBVIOUS
<1> QED BY <1>2, <1>3

\* At level 0 the area of a page is the page.
LEMMA AreaZero == ASSUME NEW v \in Nat PROVE Area(v, 0) = v
BY SpanFacts DEF Area

\* Indexes fit the tables.
LEMMA EntriesFacts ==
    /\ \A l \in Levels : 0 .. Fan[l] - 1 \subseteq Entries
    /\ 0 \in Entries
    /\ Entries \subseteq Nat
<1> DEFINE S == {Fan[l] : l \in Levels}
           M == Max(S)
<1>1. S = {Fan[1], Fan[2], Fan[3], Fan[4]}
  BY DEF Levels
<1>2. \E x \in S : \A y \in S : x >= y
  <2>2. \A a, b, c, d \in Nat : \E x \in {a, b, c, d} : x >= a /\ x >= b /\ x >= c /\ x >= d
    OBVIOUS
  <2>3. \E x \in {Fan[1], Fan[2], Fan[3], Fan[4]} :
           x >= Fan[1] /\ x >= Fan[2] /\ x >= Fan[3] /\ x >= Fan[4]
    BY <2>2, SpanFacts
  <2> QED BY <1>1, <2>3
<1>3. M \in S /\ \A y \in S : M >= y
  <2>1. M = CHOOSE x \in S : \A y \in S : x >= y
    BY DEF Max
  <2> HIDE DEF S, M
  <2> QED BY <1>2, <2>1
<1>4. Entries = 0 .. M - 1
  BY DEF Entries
<1> HIDE DEF M
<1>5. M \in Nat \ {0}
  BY <1>1, <1>3, SpanFacts
<1>6. ASSUME NEW l \in Levels PROVE 0 .. Fan[l] - 1 \subseteq Entries
  <2>1. Fan[l] \in S /\ Fan[l] \in Nat \ {0}
    BY AddressSpaceAssumption
  <2>2. M >= Fan[l]
    BY <1>3, <2>1
  <2> QED BY <1>4, <1>5, <2>1, <2>2
<1> QED BY <1>4, <1>5, <1>6

\* The kernel half of a PML4 begins inside it.
LEMMA KernelHalfFacts ==
    /\ KernelHalf \in 1 .. Fan[4] /\ KernelHalf \in Nat
    /\ KernelHalf * Span[4] \in Nat /\ Fan[4] * Span[4] \in Nat
    /\ KernelHalf * Span[4] <= Fan[4] * Span[4]
<1>1. 4 \in Levels
  BY DEF Levels
<1>2. Fan[4] \in Nat /\ Span[4] \in Nat \ {0}
  BY <1>1, SpanFacts
<1>3. KernelHalf \in 1 .. Fan[4]
  BY AddressSpaceAssumption
<1> QED BY <1>2, <1>3, Monotone

\* Every index of a page of the address space is an entry.
LEMMA IndexIn ==
    ASSUME NEW v \in 0 .. Fan[4] * Span[4] - 1, NEW l \in Levels
    PROVE  Index(v, l) \in Entries
<1>1. v \in Nat
  OBVIOUS
<1>2. CASE l = 4
  <2>1. Span[4] \in Nat \ {0} /\ Fan[4] \in Nat \ {0}
    BY SpanFacts DEF Levels
  <2> DEFINE q == v \div Span[4]
  <2>2. q \in Nat /\ q * Span[4] <= v
    BY <1>1, <2>1, Division
  <2> HIDE DEF q
  <2>3. q < Fan[4]
    <3> SUFFICES ASSUME Fan[4] <= q PROVE FALSE
      BY <2>1, <2>2
    <3>1. Fan[4] * Span[4] <= q * Span[4] /\ Fan[4] * Span[4] \in Nat /\ q * Span[4] \in Nat
      BY <2>1, <2>2, Monotone
    <3> QED BY <2>2, <3>1
  <2>4. q \in 0 .. Fan[4] - 1
    BY <2>1, <2>2, <2>3
  <2> QED BY <1>2, <2>4, EntriesFacts DEF Index, q, Levels
<1>3. CASE l # 4
  <2>1. Span[l] \in Nat \ {0} /\ Fan[l] \in Nat \ {0}
    BY SpanFacts, AddressSpaceAssumption
  <2>2. (v \div Span[l]) \in Nat
    BY <1>1, <2>1, Division
  <2>3. Index(v, l) \in 0 .. Fan[l] - 1
    BY <1>3, <2>1, <2>2, DivMod DEF Index
  <2> QED BY <2>3, EntriesFacts
<1> QED BY <1>2, <1>3

\* User pages use the PML4 entries from 1 to the kernel's half, the window
\* those above.
LEMMA UserIndex ==
    ASSUME NEW v \in UserPages
    PROVE  /\ v \in Nat /\ v \in 0 .. Fan[4] * Span[4] - 1
           /\ Index(v, 4) \in 1 .. KernelHalf - 1
<1>1. Span[4] \in Nat \ {0}
  BY SpanFacts DEF Levels
<1>2. v \in Nat /\ v \in 0 .. Fan[4] * Span[4] - 1 /\ Span[4] <= v /\ v < KernelHalf * Span[4]
  BY <1>1, KernelHalfFacts DEF UserPages
<1> DEFINE q == v \div Span[4]
<1>3. q \in Nat /\ q * Span[4] <= v /\ v < (q + 1) * Span[4]
  BY <1>1, <1>2, Division
<1> HIDE DEF q
<1>4. q < KernelHalf
  <2> SUFFICES ASSUME KernelHalf <= q PROVE FALSE
    BY <1>3, KernelHalfFacts
  <2>1. KernelHalf * Span[4] <= q * Span[4] /\ q * Span[4] \in Nat
    BY <1>1, <1>3, KernelHalfFacts, Monotone
  <2> QED BY <1>2, <1>3, <2>1, KernelHalfFacts
<1>5. q # 0
  BY <1>1, <1>2, <1>3
<1> QED BY <1>2, <1>3, <1>4, <1>5, KernelHalfFacts DEF Index, q

\* The window of the kernel stacks is in the kernel half.
LEMMA WindowIndex ==
    ASSUME NEW v \in Window
    PROVE  /\ v \in Nat /\ v \in 0 .. Fan[4] * Span[4] - 1
           /\ Index(v, 4) \in Entries /\ Index(v, 4) >= KernelHalf
<1>1. Span[4] \in Nat \ {0}
  BY SpanFacts DEF Levels
<1>2. v \in KernelHalf * Span[4] .. Fan[4] * Span[4] - 1
  BY AddressSpaceAssumption DEF LayoutAssumption
<1>3. v \in Nat /\ v \in 0 .. Fan[4] * Span[4] - 1 /\ v >= KernelHalf * Span[4]
  BY <1>2, KernelHalfFacts
<1> DEFINE q == v \div Span[4]
<1>4. q \in Nat /\ v < (q + 1) * Span[4]
  BY <1>1, <1>3, Division
<1> HIDE DEF q
<1>5. q >= KernelHalf
  <2> SUFFICES ASSUME q + 1 <= KernelHalf PROVE FALSE
    BY <1>4, KernelHalfFacts
  <2>1. (q + 1) * Span[4] <= KernelHalf * Span[4] /\ (q + 1) * Span[4] \in Nat
    BY <1>1, <1>4, KernelHalfFacts, Monotone
  <2> QED BY <1>3, <1>4, <2>1, KernelHalfFacts
<1>6. Index(v, 4) \in Entries
  BY <1>3, IndexIn DEF Levels
<1> QED BY <1>3, <1>5, <1>6 DEF Index, q

-----------------------------------------------------------------------------
(* Walks through the tables tb, which may be those of another state.       *)

\* The table, or the page, that entry i of frame f leads to.
Below(tb, f, i) ==
    IF f # NoFrame /\ IsTable(tb[f][i]) THEN tb[f][i].phys ELSE NoFrame
Leaf(tb, f, i) ==
    IF f # NoFrame /\ Present(tb[f][i]) THEN tb[f][i].phys ELSE NoFrame

\* The tables on the way from root r to page v.
Walk3(tb, r, v) == Below(tb, r, Index(v, 4))
Walk2(tb, r, v) == Below(tb, Walk3(tb, r, v), Index(v, 3))
Walk1(tb, r, v) == Below(tb, Walk2(tb, r, v), Index(v, 2))

\* The frame at level l on the way from root r to page v.
Walk(tb, r, v, l) ==
    IF l = 4 THEN r
    ELSE IF l = 3 THEN Walk3(tb, r, v)
    ELSE IF l = 2 THEN Walk2(tb, r, v)
    ELSE IF l = 1 THEN Walk1(tb, r, v)
    ELSE Leaf(tb, Walk1(tb, r, v), Index(v, 1))

\* Path of the model, in either state, is this walk.
LEMMA PathIsWalk ==
    ASSUME NEW r, NEW v, NEW l \in 1 .. 4
    PROVE  /\ Path(r, v)[l] = Walk(tables, r, v, l)
           /\ Path(r, v)'[l] = Walk(tables', r, v, l)
<1>1. /\ \A f, i : Child(f, i) = Below(tables, f, i)
      /\ \A f, i : Child(f, i)' = Below(tables', f, i)
  BY DEF Child, Below
<1>2. Path(r, v) = <<Walk1(tables, r, v), Walk2(tables, r, v), Walk3(tables, r, v), r>>
  BY <1>1 DEF Path, Walk1, Walk2, Walk3
<1>3. Path(r, v)' = <<Walk1(tables', r, v), Walk2(tables', r, v), Walk3(tables', r, v), r>>
  BY <1>1 DEF Path, Walk1, Walk2, Walk3
<1>4. l = 1 \/ l = 2 \/ l = 3 \/ l = 4
  OBVIOUS
<1>5. CASE l = 1 BY <1>2, <1>3, <1>5 DEF Walk
<1>6. CASE l = 2 BY <1>2, <1>3, <1>6 DEF Walk
<1>7. CASE l = 3 BY <1>2, <1>3, <1>7 DEF Walk
<1>8. CASE l = 4 BY <1>2, <1>3, <1>8 DEF Walk
<1> QED BY <1>4, <1>5, <1>6, <1>7, <1>8

\* vmm_get_physical returns the frame at the end of the walk.
LEMMA PhysIsWalk ==
    ASSUME NEW r, NEW v
    PROVE  /\ vmm_get_physical(r, v) = Walk(tables, r, v, 0)
           /\ vmm_get_physical(r, v)' = Walk(tables', r, v, 0)
           /\ EntryAt(r, v, 1) = IF Walk(tables, r, v, 1) = NoFrame THEN NoEntry
                                 ELSE tables[Walk(tables, r, v, 1)][Index(v, 1)]
<1>1. /\ Path(r, v)[1] = Walk1(tables, r, v)
      /\ Path(r, v)'[1] = Walk1(tables', r, v)
  BY PathIsWalk DEF Walk
<1>2. ~Present(NoEntry)
  BY DEF Present, NoEntry
<1>3. /\ Walk(tables, r, v, 0) = Leaf(tables, Walk1(tables, r, v), Index(v, 1))
      /\ Walk(tables', r, v, 0) = Leaf(tables', Walk1(tables', r, v), Index(v, 1))
      /\ Walk(tables, r, v, 1) = Walk1(tables, r, v)
  BY DEF Walk
<1>4. /\ EntryAt(r, v, 1) = IF Walk1(tables, r, v) = NoFrame THEN NoEntry
                            ELSE tables[Walk1(tables, r, v)][Index(v, 1)]
      /\ EntryAt(r, v, 1)' = IF Walk1(tables', r, v) = NoFrame THEN NoEntry
                             ELSE tables'[Walk1(tables', r, v)][Index(v, 1)]
  BY <1>1 DEF EntryAt
<1> QED BY <1>2, <1>3, <1>4 DEF vmm_get_physical, Leaf

\* Node of the model is the walk at each level.
LEMMA NodeIsWalk ==
    ASSUME NEW r, NEW v, NEW l \in 0 .. 4
    PROVE  /\ Node(r, v, l) = Walk(tables, r, v, l)
           /\ Node(r, v, l)' = Walk(tables', r, v, l)
<1>1. CASE l = 0
  BY <1>1, PhysIsWalk DEF Node
<1>2. CASE l \in 1 .. 4
  BY <1>2, PathIsWalk DEF Node
<1> QED BY <1>1, <1>2

\* The walk begins at the root.
LEMMA WalkTop == ASSUME NEW tb, NEW r, NEW v PROVE Walk(tb, r, v, 4) = r
BY DEF Walk

\* Each level of the walk is one table below the level above.
LEMMA WalkStep ==
    ASSUME NEW tb, NEW r, NEW v, NEW l \in 1 .. 3
    PROVE  Walk(tb, r, v, l) = Below(tb, Walk(tb, r, v, l + 1), Index(v, l + 1))
<1>1. l = 1 \/ l = 2 \/ l = 3
  OBVIOUS
<1>2. CASE l = 1 BY <1>2 DEF Walk, Walk1
<1>3. CASE l = 2 BY <1>3 DEF Walk, Walk2
<1>4. CASE l = 3 BY <1>4 DEF Walk, Walk3
<1> QED BY <1>1, <1>2, <1>3, <1>4

\* The walk ends at the entry of the page itself.
LEMMA WalkLeaf ==
    ASSUME NEW tb, NEW r, NEW v
    PROVE  Walk(tb, r, v, 0) = Leaf(tb, Walk(tb, r, v, 1), Index(v, 1))
BY DEF Walk

\* Below a missing table there is nothing.
LEMMA WalkZero ==
    ASSUME NEW tb, NEW r, NEW v, NEW l \in 0 .. 4, NEW m \in 0 .. l,
           Walk(tb, r, v, l) = NoFrame
    PROVE  Walk(tb, r, v, m) = NoFrame
<1>1. /\ Walk(tb, r, v, 4) = NoFrame => Walk(tb, r, v, 3) = NoFrame
      /\ Walk(tb, r, v, 3) = NoFrame => Walk(tb, r, v, 2) = NoFrame
      /\ Walk(tb, r, v, 2) = NoFrame => Walk(tb, r, v, 1) = NoFrame
      /\ Walk(tb, r, v, 1) = NoFrame => Walk(tb, r, v, 0) = NoFrame
  <2>1. \A f, i : f = NoFrame => Below(tb, f, i) = NoFrame /\ Leaf(tb, f, i) = NoFrame
    BY DEF Below, Leaf
  <2> QED BY <2>1, WalkStep, WalkLeaf
<1>2. /\ l = 0 \/ l = 1 \/ l = 2 \/ l = 3 \/ l = 4
      /\ m = 0 \/ m = 1 \/ m = 2 \/ m = 3 \/ m = 4
      /\ m <= l
  OBVIOUS
<1> QED BY <1>1, <1>2

\* A table maps an area: pages of one area share the tables from there up.
LEMMA WalkArea ==
    ASSUME NEW tb, NEW r, NEW v \in Nat, NEW w \in Nat, NEW l \in 0 .. 4,
           Area(v, l) = Area(w, l)
    PROVE  \A m \in l .. 4 : Walk(tb, r, v, m) = Walk(tb, r, w, m)
<1> DEFINE Same(m) == Walk(tb, r, v, m) = Walk(tb, r, w, m)
           SameArea(m) == Area(v, m) = Area(w, m)
<1>1. \A m \in l .. 4 : SameArea(m)
  BY AreaUp
<1>2. Same(4)
  BY WalkTop
<1>3. \A m \in 0 .. 3 : SameArea(m) => Index(v, m + 1) = Index(w, m + 1)
  BY AreaStep
<1>4. SameArea(3) /\ Same(4) => Same(3)
  BY <1>3, WalkStep
<1>5. SameArea(2) /\ Same(3) => Same(2)
  BY <1>3, WalkStep
<1>6. SameArea(1) /\ Same(2) => Same(1)
  BY <1>3, WalkStep
<1>7. SameArea(0) /\ Same(1) => Same(0)
  BY <1>3, WalkLeaf
<1> HIDE DEF Same, SameArea
<1>8. ASSUME NEW m \in l .. 4 PROVE Same(m)
  <2>1. /\ l = 0 \/ l = 1 \/ l = 2 \/ l = 3 \/ l = 4
        /\ m = 0 \/ m = 1 \/ m = 2 \/ m = 3 \/ m = 4
        /\ l <= m
    OBVIOUS
  <2>2. \A k \in l .. 4 : SameArea(k)
    BY <1>1
  <2>3. CASE l = 4 BY <2>1, <2>3, <1>2
  <2>4. CASE l = 3 BY <2>1, <2>2, <2>4, <1>2, <1>4
  <2>5. CASE l = 2 BY <2>1, <2>2, <2>5, <1>2, <1>4, <1>5
  <2>6. CASE l = 1 BY <2>1, <2>2, <2>6, <1>2, <1>4, <1>5, <1>6
  <2>7. CASE l = 0 BY <2>1, <2>2, <2>7, <1>2, <1>4, <1>5, <1>6, <1>7
  <2> QED BY <2>1, <2>3, <2>4, <2>5, <2>6, <2>7
<1> QED BY <1>8 DEF Same

\* Entries that name the same frame in the same way.
Alike(a, b) == Present(a) = Present(b) /\ IsTable(a) = IsTable(b) /\ a.phys = b.phys

\* The walk to v meets no changed entry from the root down to level k.
Untouched(tb, uc, r, v, k) ==
    \A l \in k .. 4 : Walk(tb, r, v, l) # NoFrame =>
        Alike(tb[Walk(tb, r, v, l)][Index(v, l)], uc[Walk(tb, r, v, l)][Index(v, l)])

\* Then it finds the same frames.
LEMMA WalkFrame ==
    ASSUME NEW tb, NEW uc, NEW r, NEW v, NEW k \in 1 .. 4, Untouched(tb, uc, r, v, k)
    PROVE  \A l \in k - 1 .. 4 : Walk(uc, r, v, l) = Walk(tb, r, v, l)
<1> DEFINE Same(m) == Walk(uc, r, v, m) = Walk(tb, r, v, m)
           Ok(m) == Walk(tb, r, v, m) # NoFrame =>
               Alike(tb[Walk(tb, r, v, m)][Index(v, m)], uc[Walk(tb, r, v, m)][Index(v, m)])
<1>1. Same(4)
  BY WalkTop
<1>2. \A f, i : (f # NoFrame => Alike(tb[f][i], uc[f][i])) =>
         Below(tb, f, i) = Below(uc, f, i) /\ Leaf(tb, f, i) = Leaf(uc, f, i)
  BY DEF Alike, Below, Leaf
<1>3. ASSUME NEW m \in 1 .. 3, Same(m + 1), Ok(m + 1) PROVE Same(m)
  <2> DEFINE f == Walk(tb, r, v, m + 1)
             i == Index(v, m + 1)
  <2>1. Below(tb, f, i) = Below(uc, f, i)
    BY <1>2, <1>3
  <2>2. Walk(tb, r, v, m) = Below(tb, f, i) /\ Walk(uc, r, v, m) = Below(uc, f, i)
    BY <1>3, WalkStep
  <2> QED BY <2>1, <2>2
<1>4. ASSUME Same(1), Ok(1) PROVE Same(0)
  <2> DEFINE f == Walk(tb, r, v, 1)
             i == Index(v, 1)
  <2>1. Leaf(tb, f, i) = Leaf(uc, f, i)
    BY <1>2, <1>4
  <2>2. Walk(tb, r, v, 0) = Leaf(tb, f, i) /\ Walk(uc, r, v, 0) = Leaf(uc, f, i)
    BY <1>4, WalkLeaf
  <2> QED BY <2>1, <2>2
<1>5. \A m \in k .. 4 : Ok(m)
  BY DEF Untouched
<1> HIDE DEF Same, Ok
<1>6. /\ Same(4) /\ Ok(4) => Same(3)
      /\ Same(3) /\ Ok(3) => Same(2)
      /\ Same(2) /\ Ok(2) => Same(1)
      /\ Same(1) /\ Ok(1) => Same(0)
  BY <1>3, <1>4
<1>7. ASSUME NEW l \in k - 1 .. 4 PROVE Same(l)
  <2>1. /\ k = 1 \/ k = 2 \/ k = 3 \/ k = 4
        /\ l = 0 \/ l = 1 \/ l = 2 \/ l = 3 \/ l = 4
        /\ k - 1 <= l
    OBVIOUS
  <2>2. CASE k = 4 BY <2>1, <2>2, <1>1, <1>5, <1>6
  <2>3. CASE k = 3 BY <2>1, <2>3, <1>1, <1>5, <1>6
  <2>4. CASE k = 2 BY <2>1, <2>4, <1>1, <1>5, <1>6
  <2>5. CASE k = 1 BY <2>1, <2>5, <1>1, <1>5, <1>6
  <2> QED BY <2>1, <2>2, <2>3, <2>4, <2>5
<1> QED BY <1>7 DEF Same

\* Tables that agree on the way to a page lead to the same frames.
LEMMA WalkFrameAll ==
    ASSUME NEW tb, NEW uc, NEW r, NEW v, Untouched(tb, uc, r, v, 1)
    PROVE  \A l \in 0 .. 4 : Walk(uc, r, v, l) = Walk(tb, r, v, l)
<1>1. 1 \in 1 .. 4 /\ 1 - 1 = 0
  OBVIOUS
<1>2. \A l \in 1 - 1 .. 4 : Walk(uc, r, v, l) = Walk(tb, r, v, l)
  BY <1>1, WalkFrame
<1> QED BY <1>1, <1>2

-----------------------------------------------------------------------------
(* pmm calls, as the clients see them.                                     *)

\* Frame f was handed out by a call of pmm_alloc.
Single(f) == [page |-> f, count |-> 1] \in runs

\* The sizes that the allocator assumes.
LEMMA PageSizeFacts == PageSize \in Nat \ {0} /\ MemEnd \in Nat /\ MaxCount \in Nat \ {0}
BY PmmConstants DEF PmmAssumption

\* The address of a page belongs to that page.
LEMMA MultDiv ==
    ASSUME NEW f \in Nat
    PROVE  (f * PageSize) \div PageSize = f /\ (f * PageSize) % PageSize = 0 /\ f * PageSize \in Nat
<1>1. PageSize \in Nat \ {0}
  BY PageSizeFacts
<1>2. \A d \in Nat \ {0} : f * d \in Nat /\ (f * d) \div d = f /\ (f * d) % d = 0
  OBVIOUS
<1> QED BY <1>1, <1>2

\* What a caller gets is a run that nobody held and nothing withdrawn.
LEMMA AllocGives ==
    ASSUME IInv, NEW n \in 1 .. MaxCount, pmm_alloc_pages(n)
    PROVE  /\ IInv' /\ Got \in Pages /\ Got + n <= TotalPages
           /\ runs' = runs \cup {[page |-> Got, count |-> n]}
           /\ Run(Got, n) \cap HeldPages = {} /\ Run(Got, n) \cap ReservedPages = {}
           /\ Run(Got, n) \subseteq Pages
           /\ HeldPages' = HeldPages \cup Run(Got, n)
           /\ [page |-> Got, count |-> n] \notin runs
           /\ Got \in Run(Got, n)
           /\ UNCHANGED <<reserved, booting>>
<1>1. PICK i \in 0 .. TotalPages - 1 :
         /\ bitmap_range_is_clear(Probe(i), n)
         /\ bitmap' = bitmap \cup Run(Probe(i), n)
         /\ runs' = runs \cup {[page |-> Probe(i), count |-> n]}
  BY DEF pmm_alloc_pages
<1> DEFINE p == Probe(i)
<1>2. p \in Pages /\ p \in Nat /\ n \in Nat \ {0}
  BY ProbeInPages, TotalPagesPositive, PmmConstants DEF IInv, Pages, PmmAssumption
<1>3. p + n <= TotalPages /\ bitmap \cap Run(p, n) = {}
  BY <1>1 DEF bitmap_range_is_clear
<1>4. bitmap' \ bitmap = Run(p, n)
  BY <1>1, <1>3
<1> HIDE DEF p
<1>5. p \in Run(p, n) /\ \A q \in Run(p, n) : p <= q
  BY <1>2 DEF Run
<1>6. Got = p
  <2>1. Got = CHOOSE x \in Run(p, n) : \A y \in Run(p, n) : x <= y
    BY <1>4 DEF Got
  <2>2. \A x \in Run(p, n) : (\A y \in Run(p, n) : x <= y) => x = p
    BY <1>2, <1>5 DEF Run
  <2>3. \E x \in Run(p, n) : \A y \in Run(p, n) : x <= y
    BY <1>5
  <2> QED BY <2>1, <2>2, <2>3
<1>7. IInv'
  BY AllocKeepsIInv
<1>8. runs' = runs \cup {[page |-> p, count |-> n]}
  BY <1>1 DEF p
<1>9. Run(p, n) \cap HeldPages = {} /\ Run(p, n) \cap ReservedPages = {}
  BY <1>3 DEF IInv, BitmapExact
<1>10. HeldPages' = HeldPages \cup Run(p, n)
  <2> DEFINE r == [page |-> p, count |-> n]
  <2>1. r.page = p /\ r.count = n /\ runs' = runs \cup {r}
    BY <1>8
  <2> HIDE DEF r
  <2> QED BY <2>1 DEF HeldPages
<1>11. [page |-> p, count |-> n] \notin runs
  <2> SUFFICES ASSUME [page |-> p, count |-> n] \in runs PROVE FALSE OBVIOUS
  <2>1. Run(p, n) \subseteq HeldPages
    BY DEF HeldPages
  <2> QED BY <1>5, <1>9, <2>1
<1>12. UNCHANGED <<reserved, booting>>
  BY DEF pmm_alloc_pages
<1>13. Run(p, n) \subseteq Pages
  BY <1>2, <1>3, RunFacts
<1> QED BY <1>2, <1>3, <1>5, <1>6, <1>7, <1>8, <1>9, <1>10, <1>11, <1>12, <1>13

\* A run of one page is that page.
LEMMA RunOne == ASSUME NEW f \in Nat PROVE Run(f, 1) = {f}
BY DEF Run

\* Giving back a run that is held.
LEMMA FreeTakes ==
    ASSUME IInv, NEW f, NEW n, [page |-> f, count |-> n] \in runs, pmm_free(f, n)
    PROVE  /\ IInv' /\ runs' = runs \ {[page |-> f, count |-> n]}
           /\ HeldPages' = HeldPages \ Run(f, n)
           /\ UNCHANGED <<reserved, booting>>
           /\ Next
<1> DEFINE r == [page |-> f, count |-> n]
           addr == f * PageSize
<1>1. r \in HeldRuns /\ r.page = f /\ r.count = n
  BY DEF IInv, TypeOK
<1>2. f \in Pages /\ n \in 1 .. MaxCount /\ f + n <= TotalPages
  BY <1>1 DEF HeldRuns
<1>3. f \in Nat /\ n \in Nat \ {0}
  BY <1>2, TotalPagesPositive, PageSizeFacts DEF Pages
<1>4. addr \in Nat /\ addr \div PageSize = f /\ addr % PageSize = 0 /\ addr < PmmEnd
  BY <1>2, <1>3, MultDiv, PagesBelowEnd
<1>5. Run(f, n) \subseteq bitmap
  <2>1. Run(f, n) \subseteq HeldPages
    BY <1>1 DEF HeldPages
  <2> QED BY <2>1 DEF IInv, BitmapExact
<1>6. FreeAccepted(addr, n)
  BY <1>2, <1>3, <1>4, <1>5 DEF FreeAccepted
<1>7. pmm_free_pages(addr, n)
  BY <1>6 DEF pmm_free
<1>8. CallerHolds(addr, n)
  BY <1>4 DEF CallerHolds
<1>9. PmmEnd <= MemEnd
  <2>1. CASE MemEnd \div PageSize > MaxMemoryPages
    <3>1. TotalPages = MaxMemoryPages /\ PmmEnd = MaxMemoryPages * PageSize
      BY <2>1 DEF TotalPages, PmmEnd
    <3>2. MaxMemoryPages \in Nat /\ MemEnd \div PageSize \in Nat /\ (MemEnd \div PageSize) * PageSize <= MemEnd
      BY PmmConstants, PageSizeFacts, Division DEF PmmAssumption
    <3>3. MaxMemoryPages * PageSize <= (MemEnd \div PageSize) * PageSize
      BY <2>1, <3>2, PageSizeFacts, Monotone
    <3>4. MaxMemoryPages * PageSize \in Nat /\ (MemEnd \div PageSize) * PageSize \in Nat
      BY <3>2, PageSizeFacts, Monotone
    <3> QED BY <3>1, <3>2, <3>3, <3>4, PageSizeFacts
  <2>2. CASE ~(MemEnd \div PageSize > MaxMemoryPages)
    BY <2>2, PageSizeFacts DEF PmmEnd
  <2> QED BY <2>1, <2>2
<1>10. addr \in 0 .. MemEnd
  BY <1>4, <1>9, PageSizeFacts, TotalPagesPositive, PmmConstants DEF PmmEnd, PmmAssumption
<1>11. n \in 0 .. MaxCount
  BY <1>2
<1>12. IInv'
  BY <1>7, <1>8, <1>10, <1>11, FreeKeepsIInv
<1>13. runs' = runs \ {r} /\ UNCHANGED <<reserved, booting>>
  BY <1>4, <1>7 DEF pmm_free_pages
<1>14. HeldPages' = HeldPages \ Run(f, n)
  <2>1. \A s \in runs \ {r} : Run(s.page, s.count) \cap Run(f, n) = {}
    BY <1>1 DEF IInv, RunsDisjoint
  <2>2. HeldPages' \subseteq HeldPages \ Run(f, n)
    BY <1>13, <2>1 DEF HeldPages
  <2>3. ASSUME NEW x \in HeldPages, x \notin Run(f, n) PROVE x \in HeldPages'
    <3>1. PICK s \in runs : x \in Run(s.page, s.count)
      BY DEF HeldPages
    <3>2. s # r
      BY <1>1, <2>3, <3>1
    <3> QED BY <1>13, <3>1, <3>2 DEF HeldPages
  <2> QED BY <2>2, <2>3
<1>15. Next
  BY <1>7, <1>8, <1>10, <1>11 DEF Next
<1> QED BY <1>12, <1>13, <1>14, <1>15

\* A step that makes no pmm call, or one that has no effect.
LEMMA PmmQuiet ==
    ASSUME IInv, UNCHANGED pmmVars \/ \E n \in 1 .. MaxCount : pmm_alloc_pages_fails(n)
    PROVE  IInv' /\ UNCHANGED <<bitmap, runs, reserved, booting>> /\ HeldPages' = HeldPages
<1>1. UNCHANGED <<bitmap, used_pages, hint, runs, reserved, booting>> /\ answer' \in Answers
  BY DEF pmmVars, pmm_alloc_pages_fails, Answers, IInv, TypeOK
<1>2. IInv'
  BY <1>1, QuietStepKeepsIInv
<1> QED BY <1>1, <1>2 DEF HeldPages

-----------------------------------------------------------------------------
(* The forest of page tables below a set of PML4s.                         *)

\* The pages looked at below a root: the window in the kernel's tables, user
\* space in those of a process.
Dom(r) == IF r = KernelPml4 THEN Window ELSE UserPages

\* A frame is at most at one place of the forest.
Unique(tb, Rs) ==
    \A r \in Rs, q \in Rs : \A v \in Dom(r), w \in Dom(q) : \A l \in 0 .. 4, m \in 0 .. 4 :
        Walk(tb, r, v, l) = Walk(tb, q, w, m) /\ Walk(tb, r, v, l) # NoFrame
            => r = q /\ l = m /\ Area(v, l) = Area(w, l)

\* Frame n is a table or a page of one of the roots Rs.
InTree(tb, Rs, n) == \E r \in Rs : \E v \in Dom(r), l \in 0 .. 4 : Walk(tb, r, v, l) = n

\* The pages that a PML4 can map.
AllPages == 0 .. Fan[4] * Span[4] - 1

\* Every frame read as a table holds entries.
TypedTables(tb) == tb \in [Pages -> [Entries -> Entry]]

\* The pages of a root are pages of the address space.
LEMMA DomFacts ==
    ASSUME NEW r, NEW v \in Dom(r)
    PROVE  v \in Nat /\ v \in AllPages /\ \A l \in 1 .. 4 : Index(v, l) \in Entries
<1>1. v \in Nat /\ v \in AllPages
  BY UserIndex, WindowIndex DEF Dom, AllPages
<1> QED BY <1>1, IndexIn DEF AllPages, Levels

\* Frame 0, which stands for a missing one, is a page of memory.
LEMMA ZeroPage == NoFrame \in Pages
BY TotalPagesPositive DEF Pages, NoFrame

\* A walk through typed tables stays in memory.
LEMMA WalkTyped ==
    ASSUME NEW tb, TypedTables(tb), NEW r \in Pages, NEW v \in AllPages
    PROVE  \A l \in 0 .. 4 : Walk(tb, r, v, l) \in Pages
<1>1. \A f \in Pages, i \in Entries : tb[f][i] \in Entry /\ tb[f][i].phys \in Pages
  BY DEF TypedTables, Entry
<1>2. \A f \in Pages, i \in Entries : Below(tb, f, i) \in Pages /\ Leaf(tb, f, i) \in Pages
  BY <1>1, ZeroPage DEF Below, Leaf
<1>3. Index(v, 1) \in Entries /\ Index(v, 2) \in Entries /\ Index(v, 3) \in Entries /\ Index(v, 4) \in Entries
  BY IndexIn DEF AllPages, Levels
<1>4. Walk(tb, r, v, 4) \in Pages
  BY WalkTop
<1>5. Walk(tb, r, v, 3) \in Pages
  BY <1>2, <1>3, <1>4, WalkStep
<1>6. Walk(tb, r, v, 2) \in Pages
  BY <1>2, <1>3, <1>5, WalkStep
<1>7. Walk(tb, r, v, 1) \in Pages
  BY <1>2, <1>3, <1>6, WalkStep
<1>8. Walk(tb, r, v, 0) \in Pages
  BY <1>2, <1>3, <1>7, WalkLeaf
<1> QED BY <1>4, <1>5, <1>6, <1>7, <1>8

\* get_or_create_table links a fresh table g at level k on the way to page a.
LEMMA TableAdded ==
    ASSUME NEW tb, TypedTables(tb), NEW Rs \in SUBSET Pages, Unique(tb, Rs),
           NEW s \in Rs, NEW a \in Dom(s), NEW k \in 1 .. 3,
           Walk(tb, s, a, k) = NoFrame, Walk(tb, s, a, k + 1) # NoFrame,
           NEW g \in Pages \ {NoFrame}, ~InTree(tb, Rs, g),
           NEW flags, "present" \in flags, "huge" \notin flags,
           NEW uc, uc[g] = Cleared,
           uc[Walk(tb, s, a, k + 1)][Index(a, k + 1)] = [phys |-> g, flags |-> flags],
           \A n \in Pages, i \in Entries :
               n # g /\ ~(n = Walk(tb, s, a, k + 1) /\ i = Index(a, k + 1)) => uc[n][i] = tb[n][i],
           NEW r \in Rs, NEW v \in Dom(r)
    PROVE  \A l \in 0 .. 4 : Walk(uc, r, v, l) =
              IF r = s /\ l <= k /\ Area(v, k) = Area(a, k)
              THEN IF l = k THEN g ELSE NoFrame
              ELSE Walk(tb, r, v, l)
<1> DEFINE f == Walk(tb, s, a, k + 1)
           j == Index(a, k + 1)
<1>1. k + 1 \in 1 .. 4 /\ k + 1 \in 0 .. 4 /\ k \in 0 .. 3
  OBVIOUS
<1>2. /\ v \in Nat /\ a \in Nat /\ v \in AllPages /\ a \in AllPages
      /\ \A l \in 1 .. 4 : Index(v, l) \in Entries /\ Index(a, l) \in Entries
  BY DomFacts
<1>3. f # g /\ f # NoFrame /\ f \in Pages /\ j \in Entries
  BY <1>1, <1>2, WalkTyped DEF InTree
<1>4. \A l \in 0 .. 4 : Walk(tb, r, v, l) \in Pages
  BY <1>2, WalkTyped
<1>5. ASSUME NEW n \in Pages, NEW i \in Entries, n # g, ~(n = f /\ i = j)
      PROVE  uc[n][i] = tb[n][i]
  BY <1>5
<1>6. uc[f][j] = [phys |-> g, flags |-> flags]
  OBVIOUS
<1>7. uc[g] = Cleared
  OBVIOUS
<1>8. ASSUME NEW l \in 0 .. 4, Walk(tb, r, v, l) # NoFrame
      PROVE  /\ Walk(tb, r, v, l) # g
             /\ Walk(tb, r, v, l) = f => r = s /\ l = k + 1 /\ Area(v, k + 1) = Area(a, k + 1)
  BY <1>1, <1>8 DEF Unique, InTree
<1> HIDE DEF f, j
<1>9. ASSUME NEW l \in 1 .. 4, Walk(tb, r, v, l) # NoFrame,
             Walk(tb, r, v, l) # f \/ Index(v, l) # j
      PROVE  Alike(tb[Walk(tb, r, v, l)][Index(v, l)], uc[Walk(tb, r, v, l)][Index(v, l)])
  <2>1. Walk(tb, r, v, l) \in Pages /\ Index(v, l) \in Entries /\ Walk(tb, r, v, l) # g
    BY <1>2, <1>4, <1>8, <1>9
  <2>2. uc[Walk(tb, r, v, l)][Index(v, l)] = tb[Walk(tb, r, v, l)][Index(v, l)]
    BY <1>5, <1>9, <2>1
  <2> QED BY <2>2 DEF Alike
<1>10. CASE ~(r = s /\ Area(v, k) = Area(a, k))
  <2>1. ASSUME NEW l \in 1 .. 4, Walk(tb, r, v, l) # NoFrame
        PROVE  Walk(tb, r, v, l) # f \/ Index(v, l) # j
    <3> SUFFICES ASSUME Walk(tb, r, v, l) = f, Index(v, l) = j PROVE FALSE OBVIOUS
    <3>1. r = s /\ l = k + 1 /\ Area(v, k + 1) = Area(a, k + 1)
      BY <1>8, <2>1
    <3>2. Index(v, k + 1) = Index(a, k + 1)
      BY <3>1 DEF j
    <3>3. Area(v, k) = Area(a, k)
      BY <1>1, <1>2, <3>1, <3>2, AreaStep
    <3> QED BY <1>10, <3>1, <3>3
  <2>2. Untouched(tb, uc, r, v, 1)
    BY <1>9, <2>1 DEF Untouched
  <2>3. \A l \in 0 .. 4 : Walk(uc, r, v, l) = Walk(tb, r, v, l)
    BY <2>2, WalkFrameAll
  <2> QED BY <1>10, <2>3
<1>11. CASE r = s /\ Area(v, k) = Area(a, k)
  <2>1. \A l \in k .. 4 : Walk(tb, r, v, l) = Walk(tb, s, a, l)
    BY <1>1, <1>2, <1>11, WalkArea
  <2>2. Index(v, k + 1) = j
    BY <1>1, <1>2, <1>11, AreaStep DEF j
  <2>3. \A l \in k + 1 .. 4 : Walk(uc, r, v, l) = Walk(tb, r, v, l)
    <3>1. CASE k = 3
      BY <3>1, WalkTop
    <3>2. CASE k # 3
      <4>1. k + 2 \in 1 .. 4 /\ (k + 2) - 1 = k + 1
        BY <3>2
      <4>2. ASSUME NEW l \in k + 2 .. 4, Walk(tb, r, v, l) # NoFrame
            PROVE  Alike(tb[Walk(tb, r, v, l)][Index(v, l)], uc[Walk(tb, r, v, l)][Index(v, l)])
        <5>1. l \in 1 .. 4 /\ l \in 0 .. 4 /\ l # k + 1
          OBVIOUS
        <5>2. Walk(tb, r, v, l) # f
          BY <1>8, <4>2, <5>1
        <5> QED BY <1>9, <4>2, <5>1, <5>2
      <4>3. Untouched(tb, uc, r, v, k + 2)
        BY <4>2 DEF Untouched
      <4>4. \A l \in (k + 2) - 1 .. 4 : Walk(uc, r, v, l) = Walk(tb, r, v, l)
        BY <4>1, <4>3, WalkFrame
      <4> QED BY <4>1, <4>4
    <3> QED BY <3>1, <3>2
  <2>4. Walk(uc, r, v, k) = g
    <3>1. Walk(uc, r, v, k + 1) = f
      <4>1. k + 1 \in k .. 4 /\ k + 1 \in k + 1 .. 4
        OBVIOUS
      <4> QED BY <2>1, <2>3, <4>1 DEF f
    <3>2. Walk(uc, r, v, k) = Below(uc, f, j)
      BY <2>2, <3>1, WalkStep
    <3> QED BY <1>3, <1>6, <3>2 DEF Below, IsTable, Present
  <2>5. \A l \in 0 .. k - 1 : Walk(uc, r, v, l) = NoFrame
    <3>1. \A i \in Entries : Below(uc, g, i) = NoFrame /\ Leaf(uc, g, i) = NoFrame
      BY <1>7 DEF Cleared, Below, Leaf, IsTable, Present, NoEntry
    <3>2. Walk(uc, r, v, k - 1) = NoFrame
      <4>1. CASE k = 1
        <5>1. Walk(uc, r, v, 0) = Leaf(uc, g, Index(v, 1))
          BY <2>4, <4>1, WalkLeaf
        <5> QED BY <1>2, <3>1, <4>1, <5>1
      <4>2. CASE k # 1
        <5>1. k - 1 \in 1 .. 3 /\ (k - 1) + 1 = k
          BY <4>2
        <5>2. Walk(uc, r, v, k - 1) = Below(uc, g, Index(v, k))
          BY <2>4, <5>1, WalkStep
        <5> QED BY <1>2, <3>1, <5>2
      <4> QED BY <4>1, <4>2
    <3>3. k - 1 \in 0 .. 4
      OBVIOUS
    <3> QED BY <3>2, <3>3, WalkZero
  <2>6. ASSUME NEW l \in 0 .. 4
        PROVE  Walk(uc, r, v, l) = IF l <= k THEN IF l = k THEN g ELSE NoFrame
                                   ELSE Walk(tb, r, v, l)
    <3>1. l = k \/ l \in 0 .. k - 1 \/ l \in k + 1 .. 4
      OBVIOUS
    <3> QED BY <2>3, <2>4, <2>5, <3>1
  <2> QED BY <1>11, <2>6
<1> QED BY <1>10, <1>11

\* Two places of a forest that hold one frame are the same place.
LEMMA UniqueUse ==
    ASSUME NEW tb, NEW Rs, Unique(tb, Rs), NEW r \in Rs, NEW q \in Rs, NEW v \in Dom(r), NEW w \in Dom(q),
           NEW l \in 0 .. 4, NEW m \in 0 .. 4,
           Walk(tb, r, v, l) = Walk(tb, q, w, m), Walk(tb, r, v, l) # NoFrame
    PROVE  r = q /\ l = m /\ Area(v, l) = Area(w, l)
BY DEF Unique

\* A new table, in no tree so far, leaves the forest a forest.
LEMMA AddedUnique ==
    ASSUME NEW tb, NEW Rs, Unique(tb, Rs), NEW s \in Rs, NEW a \in Dom(s), NEW k \in 1 .. 3,
           NEW g, ~InTree(tb, Rs, g), NEW uc,
           \A r \in Rs : \A v \in Dom(r), l \in 0 .. 4 : Walk(uc, r, v, l) =
              IF r = s /\ l <= k /\ Area(v, k) = Area(a, k)
              THEN IF l = k THEN g ELSE NoFrame
              ELSE Walk(tb, r, v, l)
    PROVE  Unique(uc, Rs)
<1> SUFFICES ASSUME NEW r \in Rs, NEW q \in Rs, NEW v \in Dom(r), NEW w \in Dom(q),
                    NEW l \in 0 .. 4, NEW m \in 0 .. 4,
                    Walk(uc, r, v, l) = Walk(uc, q, w, m), Walk(uc, r, v, l) # NoFrame
             PROVE  r = q /\ l = m /\ Area(v, l) = Area(w, l)
  BY DEF Unique
<1>1. Walk(tb, r, v, l) # g /\ Walk(tb, q, w, m) # g
  BY DEF InTree
<1>2. CASE Walk(uc, r, v, l) = g
  <2>1. r = s /\ l = k /\ Area(v, k) = Area(a, k)
    BY <1>1, <1>2
  <2>2. q = s /\ m = k /\ Area(w, k) = Area(a, k)
    BY <1>1, <1>2
  <2> QED BY <2>1, <2>2
<1>3. CASE Walk(uc, r, v, l) # g
  <2>1. Walk(uc, r, v, l) = Walk(tb, r, v, l) /\ Walk(uc, q, w, m) = Walk(tb, q, w, m)
    BY <1>3
  <2>2. Walk(tb, r, v, l) = Walk(tb, q, w, m) /\ Walk(tb, r, v, l) # NoFrame
    BY ONLY <2>1, Walk(uc, r, v, l) = Walk(uc, q, w, m), Walk(uc, r, v, l) # NoFrame
  <2> QED BY <2>2 DEF Unique
<1> QED BY <1>2, <1>3

\* The entry of page a is written, and flags are added to those above it.
LEMMA PageMapped ==
    ASSUME NEW tb, TypedTables(tb), NEW Rs \in SUBSET Pages, Unique(tb, Rs),
           NEW s \in Rs, NEW a \in Dom(s), Walk(tb, s, a, 1) # NoFrame,
           NEW x, NEW flags, "present" \in flags, "huge" \notin flags,
           NEW uc,
           uc[Walk(tb, s, a, 1)][Index(a, 1)] = [phys |-> x, flags |-> flags],
           \A l \in 2 .. 4 : uc[Walk(tb, s, a, l)][Index(a, l)] =
               [tb[Walk(tb, s, a, l)][Index(a, l)] EXCEPT !.flags = @ \cup flags],
           \A n \in Pages, i \in Entries :
               (\A l \in 1 .. 4 : ~(n = Walk(tb, s, a, l) /\ i = Index(a, l))) => uc[n][i] = tb[n][i],
           NEW r \in Rs, NEW v \in Dom(r)
    PROVE  \A l \in 0 .. 4 : Walk(uc, r, v, l) =
              IF r = s /\ v = a /\ l = 0 THEN x ELSE Walk(tb, r, v, l)
<1>1. /\ v \in Nat /\ a \in Nat /\ v \in AllPages /\ a \in AllPages
      /\ \A l \in 1 .. 4 : Index(v, l) \in Entries /\ Index(a, l) \in Entries
  BY DomFacts
<1>2. \A l \in 0 .. 4 : Walk(tb, r, v, l) \in Pages /\ Walk(tb, s, a, l) \in Pages
  BY <1>1, WalkTyped
<1>3. \A l \in 1 .. 4 : Walk(tb, s, a, l) # NoFrame
  BY WalkZero
<1>4. ASSUME NEW l \in 2 .. 4
      PROVE  Alike(tb[Walk(tb, s, a, l)][Index(a, l)], uc[Walk(tb, s, a, l)][Index(a, l)])
  <2> DEFINE e == tb[Walk(tb, s, a, l)][Index(a, l)]
             d == uc[Walk(tb, s, a, l)][Index(a, l)]
  <2>1. l - 1 \in 1 .. 3 /\ (l - 1) + 1 = l /\ l \in 0 .. 4 /\ l \in 1 .. 4 /\ l - 1 \in 1 .. 4
    OBVIOUS
  <2>2. Walk(tb, s, a, l - 1) = Below(tb, Walk(tb, s, a, l), Index(a, l))
    BY <2>1, WalkStep
  <2>3. IsTable(e)
    BY <1>3, <2>1, <2>2 DEF Below
  <2>4. e \in Entry
    BY <1>1, <1>2, <2>1 DEF TypedTables
  <2>5. d = [e EXCEPT !.flags = @ \cup flags]
    OBVIOUS
  <2> HIDE DEF e, d
  <2>6. d.phys = e.phys /\ d.flags = e.flags \cup flags
    BY <2>4, <2>5 DEF Entry
  <2>7. Alike(e, d)
    BY <2>3, <2>6 DEF Alike, IsTable, Present
  <2> QED BY <2>7 DEF e, d
<1>5. ASSUME NEW l \in 1 .. 4, Walk(tb, r, v, l) # NoFrame, l # 1 \/ ~(r = s /\ v = a)
      PROVE  Alike(tb[Walk(tb, r, v, l)][Index(v, l)], uc[Walk(tb, r, v, l)][Index(v, l)])
  <2>1. CASE \E m \in 1 .. 4 : Walk(tb, r, v, l) = Walk(tb, s, a, m) /\ Index(v, l) = Index(a, m)
    <3>1. PICK m \in 1 .. 4 : Walk(tb, r, v, l) = Walk(tb, s, a, m) /\ Index(v, l) = Index(a, m)
      BY <2>1
    <3>2. l \in 0 .. 4 /\ m \in 0 .. 4
      OBVIOUS
    <3>3. r = s /\ l = m /\ Area(v, l) = Area(a, l)
      BY <1>5, <3>1, <3>2, UniqueUse
    <3>4. CASE l = 1
      <4>1. 0 \in 0 .. 3 /\ 0 + 1 = 1
        OBVIOUS
      <4>2. Area(v, 0) = Area(a, 0)
        BY <1>1, <3>1, <3>3, <3>4, <4>1, AreaStep
      <4>3. v = a
        BY <1>1, <4>2, AreaZero
      <4> QED BY <1>5, <3>3, <3>4, <4>3
    <3>5. CASE l # 1
      <4>1. l \in 2 .. 4
        BY <3>5
      <4> QED BY <1>4, <3>1, <3>3, <4>1
    <3> QED BY <3>4, <3>5
  <2>2. CASE \A m \in 1 .. 4 : ~(Walk(tb, r, v, l) = Walk(tb, s, a, m) /\ Index(v, l) = Index(a, m))
    <3>1. Walk(tb, r, v, l) \in Pages /\ Index(v, l) \in Entries
      BY <1>1, <1>2
    <3>2. uc[Walk(tb, r, v, l)][Index(v, l)] = tb[Walk(tb, r, v, l)][Index(v, l)]
      BY <2>2, <3>1
    <3> QED BY <3>2 DEF Alike
  <2> QED BY <2>1, <2>2
<1>6. CASE ~(r = s /\ v = a)
  <2>1. Untouched(tb, uc, r, v, 1)
    BY <1>5, <1>6 DEF Untouched
  <2> QED BY <1>6, <2>1, WalkFrameAll
<1>7. CASE r = s /\ v = a
  <2>1. 2 \in 1 .. 4 /\ 2 - 1 = 1
    OBVIOUS
  <2>2. Untouched(tb, uc, r, v, 2)
    BY <1>5 DEF Untouched
  <2>3. \A l \in 1 .. 4 : Walk(uc, r, v, l) = Walk(tb, r, v, l)
    <3>1. \A l \in 2 - 1 .. 4 : Walk(uc, r, v, l) = Walk(tb, r, v, l)
      BY <2>1, <2>2, WalkFrame
    <3> QED BY <2>1, <3>1
  <2>4. Walk(uc, r, v, 0) = Leaf(uc, Walk(tb, s, a, 1), Index(a, 1))
    BY <1>7, <2>3, WalkLeaf
  <2>5. Walk(uc, r, v, 0) = x
    BY <2>4 DEF Leaf, Present
  <2>6. ASSUME NEW l \in 0 .. 4 PROVE l = 0 \/ l \in 1 .. 4
    OBVIOUS
  <2> QED BY <1>7, <2>3, <2>5, <2>6
<1> QED BY <1>6, <1>7

\* A page that is in no tree so far leaves the forest a forest.
LEMMA MappedUnique ==
    ASSUME NEW tb, NEW Rs, Unique(tb, Rs), NEW s \in Rs, NEW a \in Dom(s),
           NEW x, ~InTree(tb, Rs, x) \/ Walk(tb, s, a, 0) = x, NEW uc,
           \A r \in Rs : \A v \in Dom(r), l \in 0 .. 4 : Walk(uc, r, v, l) =
              IF r = s /\ v = a /\ l = 0 THEN x ELSE Walk(tb, r, v, l)
    PROVE  Unique(uc, Rs)
<1>1. CASE Walk(tb, s, a, 0) = x
  <2>1. \A r \in Rs : \A v \in Dom(r), l \in 0 .. 4 : Walk(uc, r, v, l) = Walk(tb, r, v, l)
    BY <1>1
  <2> QED BY <2>1 DEF Unique
<1>2. CASE ~InTree(tb, Rs, x)
  <2> SUFFICES ASSUME NEW r \in Rs, NEW q \in Rs, NEW v \in Dom(r), NEW w \in Dom(q),
                      NEW l \in 0 .. 4, NEW m \in 0 .. 4,
                      Walk(uc, r, v, l) = Walk(uc, q, w, m), Walk(uc, r, v, l) # NoFrame
               PROVE  r = q /\ l = m /\ Area(v, l) = Area(w, l)
    BY DEF Unique
  <2>1. Walk(tb, r, v, l) # x /\ Walk(tb, q, w, m) # x
    BY <1>2 DEF InTree
  <2>2. CASE Walk(uc, r, v, l) = x
    <3>1. r = s /\ l = 0 /\ v = a
      BY <2>1, <2>2
    <3>2. q = s /\ m = 0 /\ w = a
      BY <2>1, <2>2
    <3> QED BY <3>1, <3>2
  <2>3. CASE Walk(uc, r, v, l) # x
    <3>1. Walk(uc, r, v, l) = Walk(tb, r, v, l) /\ Walk(uc, q, w, m) = Walk(tb, q, w, m)
      BY <2>3
    <3>2. Walk(tb, r, v, l) = Walk(tb, q, w, m) /\ Walk(tb, r, v, l) # NoFrame
      BY ONLY <3>1, Walk(uc, r, v, l) = Walk(uc, q, w, m), Walk(uc, r, v, l) # NoFrame
    <3> QED BY <3>2 DEF Unique
  <2> QED BY <2>2, <2>3
<1> QED BY <1>1, <1>2

\* Tables uc are tb without the entries of the pages U of the window.
WithoutPages(tb, uc, U) ==
    \A n \in Pages, i \in Entries :
        uc[n][i] = IF \E u \in U : Walk(tb, KernelPml4, u, 1) = n /\ Index(u, 1) = i
                   THEN NoEntry ELSE tb[n][i]

\* Unmapping pages of the window takes them, and nothing else, out of the
\* trees.
LEMMA PagesUnmapped ==
    ASSUME NEW tb, TypedTables(tb), NEW Rs \in SUBSET Pages, Unique(tb, Rs), KernelPml4 \in Rs,
           NEW U \in SUBSET Window, NEW uc,
           WithoutPages(tb, uc, U),
           NEW r \in Rs, NEW v \in Dom(r)
    PROVE  \A l \in 0 .. 4 : Walk(uc, r, v, l) =
              IF r = KernelPml4 /\ v \in U /\ l = 0 THEN NoFrame ELSE Walk(tb, r, v, l)
<1>1. /\ v \in Nat /\ v \in AllPages /\ \A l \in 1 .. 4 : Index(v, l) \in Entries
  BY DomFacts
<1>2. \A l \in 0 .. 4 : Walk(tb, r, v, l) \in Pages
  BY <1>1, WalkTyped
<1>3. \A u \in U : u \in Dom(KernelPml4) /\ u \in Nat
  BY DomFacts DEF Dom
<1>4. ASSUME NEW l \in 1 .. 4, Walk(tb, r, v, l) # NoFrame, NEW u \in U,
             Walk(tb, KernelPml4, u, 1) = Walk(tb, r, v, l), Index(u, 1) = Index(v, l)
      PROVE  l = 1 /\ r = KernelPml4 /\ v = u
  <2>1. l \in 0 .. 4 /\ 1 \in 0 .. 4 /\ 0 \in 0 .. 3 /\ 0 + 1 = 1
    OBVIOUS
  <2>2. r = KernelPml4 /\ l = 1 /\ Area(v, 1) = Area(u, 1)
    BY <1>3, <1>4, <2>1, UniqueUse
  <2>3. Area(v, 0) = Area(u, 0)
    BY <1>1, <1>3, <1>4, <2>1, <2>2, AreaStep
  <2> QED BY <1>1, <1>3, <2>2, <2>3, AreaZero
<1>5. ASSUME NEW l \in 1 .. 4, Walk(tb, r, v, l) # NoFrame,
             l # 1 \/ ~(r = KernelPml4 /\ v \in U)
      PROVE  Alike(tb[Walk(tb, r, v, l)][Index(v, l)], uc[Walk(tb, r, v, l)][Index(v, l)])
  <2>1. ~\E u \in U : Walk(tb, KernelPml4, u, 1) = Walk(tb, r, v, l) /\ Index(u, 1) = Index(v, l)
    BY <1>4, <1>5
  <2>2. Walk(tb, r, v, l) \in Pages /\ Index(v, l) \in Entries
    BY <1>1, <1>2
  <2>3. uc[Walk(tb, r, v, l)][Index(v, l)] = tb[Walk(tb, r, v, l)][Index(v, l)]
    BY <2>1, <2>2 DEF WithoutPages
  <2> QED BY <2>3 DEF Alike
<1>6. CASE ~(r = KernelPml4 /\ v \in U)
  <2>1. Untouched(tb, uc, r, v, 1)
    BY <1>5, <1>6 DEF Untouched
  <2> QED BY <1>6, <2>1, WalkFrameAll
<1>7. CASE r = KernelPml4 /\ v \in U
  <2>1. 2 \in 1 .. 4 /\ 2 - 1 = 1
    OBVIOUS
  <2>2. Untouched(tb, uc, r, v, 2)
    BY <1>5 DEF Untouched
  <2>3. \A l \in 1 .. 4 : Walk(uc, r, v, l) = Walk(tb, r, v, l)
    <3>1. \A l \in 2 - 1 .. 4 : Walk(uc, r, v, l) = Walk(tb, r, v, l)
      BY <2>1, <2>2, WalkFrame
    <3> QED BY <2>1, <3>1
  <2>4. Walk(uc, r, v, 0) = Leaf(uc, Walk(tb, r, v, 1), Index(v, 1))
    BY <2>3, WalkLeaf
  <2>5. Walk(tb, r, v, 1) \in Pages /\ Index(v, 1) \in Entries
    BY <1>1, <1>2
  <2>6. uc[Walk(tb, r, v, 1)][Index(v, 1)] = NoEntry
    BY <1>7, <2>5 DEF WithoutPages
  <2>7. Walk(uc, r, v, 0) = NoFrame
    BY <2>4, <2>6 DEF Leaf, Present, NoEntry
  <2>8. ASSUME NEW l \in 0 .. 4 PROVE l = 0 \/ l \in 1 .. 4
    OBVIOUS
  <2> QED BY <1>7, <2>3, <2>7, <2>8
<1> QED BY <1>6, <1>7

\* A forest with fewer trees, or with branches cut off, is a forest.
LEMMA FewerUnique ==
    ASSUME NEW tb, NEW Rs, Unique(tb, Rs), NEW uc, NEW Qs \in SUBSET Rs,
           \A r \in Qs : \A v \in Dom(r), l \in 0 .. 4 :
              Walk(uc, r, v, l) = NoFrame \/ Walk(uc, r, v, l) = Walk(tb, r, v, l)
    PROVE  Unique(uc, Qs)
<1> SUFFICES ASSUME NEW r \in Qs, NEW q \in Qs, NEW v \in Dom(r), NEW w \in Dom(q),
                    NEW l \in 0 .. 4, NEW m \in 0 .. 4,
                    Walk(uc, r, v, l) = Walk(uc, q, w, m), Walk(uc, r, v, l) # NoFrame
             PROVE  r = q /\ l = m /\ Area(v, l) = Area(w, l)
  BY DEF Unique
<1>1. Walk(uc, r, v, l) = Walk(tb, r, v, l) /\ Walk(uc, q, w, m) = Walk(tb, q, w, m)
  OBVIOUS
<1>2. Walk(tb, r, v, l) = Walk(tb, q, w, m) /\ Walk(tb, r, v, l) # NoFrame
  BY ONLY <1>1, Walk(uc, r, v, l) = Walk(uc, q, w, m), Walk(uc, r, v, l) # NoFrame
<1> QED BY <1>2 DEF Unique

\* A new PML4 with nothing of a process in it.
LEMMA RootAdded ==
    ASSUME NEW tb, TypedTables(tb), NEW Rs \in SUBSET Pages, KernelPml4 \in Rs,
           NEW g \in Pages \ {NoFrame}, g # KernelPml4, ~InTree(tb, Rs, g), NEW uc,
           \A i \in Entries : i \in 1 .. KernelHalf - 1 => uc[g][i] = NoEntry,
           \A n \in Pages \ {g}, i \in Entries : uc[n][i] = tb[n][i]
    PROVE  /\ \A r \in Rs : \A v \in Dom(r), l \in 0 .. 4 : Walk(uc, r, v, l) = Walk(tb, r, v, l)
           /\ \A v \in UserPages, l \in 0 .. 3 : Walk(uc, g, v, l) = NoFrame
<1>1. ASSUME NEW r \in Rs, NEW v \in Dom(r)
      PROVE  \A l \in 0 .. 4 : Walk(uc, r, v, l) = Walk(tb, r, v, l)
  <2>1. /\ v \in Nat /\ v \in AllPages /\ \A l \in 1 .. 4 : Index(v, l) \in Entries
    BY DomFacts
  <2>2. \A l \in 0 .. 4 : Walk(tb, r, v, l) \in Pages /\ Walk(tb, r, v, l) # g
    BY <2>1, WalkTyped DEF InTree
  <2>3. ASSUME NEW l \in 1 .. 4, Walk(tb, r, v, l) # NoFrame
        PROVE  Alike(tb[Walk(tb, r, v, l)][Index(v, l)], uc[Walk(tb, r, v, l)][Index(v, l)])
    <3>1. uc[Walk(tb, r, v, l)][Index(v, l)] = tb[Walk(tb, r, v, l)][Index(v, l)]
      BY <2>1, <2>2
    <3> QED BY <3>1 DEF Alike
  <2>4. Untouched(tb, uc, r, v, 1)
    BY <2>3 DEF Untouched
  <2> QED BY <2>4, WalkFrameAll
<1>2. ASSUME NEW v \in UserPages
      PROVE  \A l \in 0 .. 3 : Walk(uc, g, v, l) = NoFrame
  <2>1. Index(v, 4) \in 1 .. KernelHalf - 1 /\ Index(v, 4) \in Entries
    BY UserIndex, IndexIn DEF Levels
  <2>2. Walk(uc, g, v, 3) = Below(uc, g, Index(v, 4))
    <3>1. 3 \in 1 .. 3 /\ 3 + 1 = 4
      OBVIOUS
    <3> QED BY <3>1, WalkStep, WalkTop
  <2>3. Walk(uc, g, v, 3) = NoFrame
    BY <2>1, <2>2 DEF Below, IsTable, Present, NoEntry
  <2>4. 3 \in 0 .. 4
    OBVIOUS
  <2> QED BY <2>3, <2>4, WalkZero
<1> QED BY <1>1, <1>2

\* A new PML4 with no user mappings is one more tree.
LEMMA RootUnique ==
    ASSUME NEW tb, NEW Rs, Unique(tb, Rs), NEW g, g # KernelPml4, ~InTree(tb, Rs, g), NEW uc,
           \A r \in Rs : \A v \in Dom(r), l \in 0 .. 4 : Walk(uc, r, v, l) = Walk(tb, r, v, l),
           \A v \in UserPages, l \in 0 .. 3 : Walk(uc, g, v, l) = NoFrame
    PROVE  Unique(uc, Rs \cup {g})
<1> SUFFICES ASSUME NEW r \in Rs \cup {g}, NEW q \in Rs \cup {g}, NEW v \in Dom(r), NEW w \in Dom(q),
                    NEW l \in 0 .. 4, NEW m \in 0 .. 4,
                    Walk(uc, r, v, l) = Walk(uc, q, w, m), Walk(uc, r, v, l) # NoFrame
             PROVE  r = q /\ l = m /\ Area(v, l) = Area(w, l)
  BY DEF Unique
<1>1. ASSUME NEW x \in Rs \cup {g}, x = g, NEW u \in Dom(x), NEW i \in 0 .. 4, Walk(uc, x, u, i) # NoFrame
      PROVE  i = 4 /\ Walk(uc, x, u, i) = g
  <2>1. u \in UserPages
    BY <1>1 DEF Dom
  <2>2. i = 4
    BY <1>1, <2>1
  <2> QED BY <1>1, <2>2, WalkTop
<1>2. ASSUME NEW x \in Rs, NEW u \in Dom(x), NEW i \in 0 .. 4
      PROVE  Walk(uc, x, u, i) # g
  BY DEF InTree
<1>3. CASE r = g
  <2>1. l = 4 /\ Walk(uc, r, v, l) = g
    BY <1>1, <1>3
  <2>2. q = g
    BY <1>2, <2>1
  <2>3. m = 4
    BY <1>1, <2>2
  <2> QED BY <1>3, <2>1, <2>2, <2>3 DEF Area
<1>4. CASE r # g
  <2>1. Walk(uc, r, v, l) # g
    BY <1>2, <1>4
  <2>2. q # g
    BY <1>1, <2>1
  <2>3. Walk(uc, r, v, l) = Walk(tb, r, v, l) /\ Walk(uc, q, w, m) = Walk(tb, q, w, m) /\ r \in Rs /\ q \in Rs
    BY <1>4, <2>2
  <2>4. Walk(tb, r, v, l) = Walk(tb, q, w, m) /\ Walk(tb, r, v, l) # NoFrame
    BY ONLY <2>3, Walk(uc, r, v, l) = Walk(uc, q, w, m), Walk(uc, r, v, l) # NoFrame
  <2> QED BY <2>3, <2>4 DEF Unique
<1> QED BY <1>3, <1>4

\* Tables uc are tb, but the entries of the mapped pages U of PML4 s are
\* read-only.
Protected(tb, uc, s, U) ==
    \A n \in Pages, i \in Entries :
        uc[n][i] = IF \E u \in U : /\ Walk(tb, s, u, 1) = n /\ Index(u, 1) = i
                                   /\ n # NoFrame /\ Present(tb[n][i])
                   THEN [tb[n][i] EXCEPT !.flags = {"present", "user"}] ELSE tb[n][i]

\* vmm_change_flags changes no tree.
LEMMA FlagsChanged ==
    ASSUME NEW tb, TypedTables(tb), NEW Rs \in SUBSET Pages, Unique(tb, Rs), NEW s \in Rs,
           NEW U \in SUBSET Dom(s),
           \A u \in U : Walk(tb, s, u, 1) # NoFrame =>
               "huge" \notin tb[Walk(tb, s, u, 1)][Index(u, 1)].flags,
           NEW uc,
           Protected(tb, uc, s, U),
           NEW r \in Rs, NEW v \in Dom(r)
    PROVE  \A l \in 0 .. 4 : Walk(uc, r, v, l) = Walk(tb, r, v, l)
<1>1. /\ v \in Nat /\ v \in AllPages /\ \A l \in 1 .. 4 : Index(v, l) \in Entries
  BY DomFacts
<1>2. \A l \in 0 .. 4 : Walk(tb, r, v, l) \in Pages
  BY <1>1, WalkTyped
<1>3. ASSUME NEW l \in 1 .. 4, Walk(tb, r, v, l) # NoFrame
      PROVE  Alike(tb[Walk(tb, r, v, l)][Index(v, l)], uc[Walk(tb, r, v, l)][Index(v, l)])
  <2> DEFINE n == Walk(tb, r, v, l)
             i == Index(v, l)
  <2>1. n \in Pages /\ i \in Entries /\ tb[n][i] \in Entry
    BY <1>1, <1>2 DEF TypedTables
  <2>2. CASE \E u \in U : Walk(tb, s, u, 1) = n /\ Index(u, 1) = i /\ n # NoFrame /\ Present(tb[n][i])
    <3>1. PICK u \in U : Walk(tb, s, u, 1) = n /\ Index(u, 1) = i /\ n # NoFrame /\ Present(tb[n][i])
      BY <2>2
    <3>2. "huge" \notin tb[n][i].flags
      BY <1>3, <3>1
    <3>3. uc[n][i] = [tb[n][i] EXCEPT !.flags = {"present", "user"}]
      BY <2>1, <2>2 DEF Protected
    <3>4. uc[n][i].phys = tb[n][i].phys /\ uc[n][i].flags = {"present", "user"}
      BY <2>1, <3>3 DEF Entry
    <3> QED BY <3>1, <3>2, <3>4 DEF Alike, Present, IsTable
  <2>3. CASE ~\E u \in U : Walk(tb, s, u, 1) = n /\ Index(u, 1) = i /\ n # NoFrame /\ Present(tb[n][i])
    <3>1. uc[n][i] = tb[n][i]
      BY <2>1, <2>3 DEF Protected
    <3> QED BY <3>1 DEF Alike
  <2> QED BY <2>2, <2>3
<1>4. Untouched(tb, uc, r, v, 1)
  BY <1>3 DEF Untouched
<1> QED BY <1>4, WalkFrameAll

-----------------------------------------------------------------------------
(* The inductive invariant.                                                *)

\* The steps of task_create_user from the new PML4 on, and all of them.
Creating == {"page", "map", "fill", "stack", "smap", "args", "undo"}
\* A kernel stack is being mapped; a whole one exists; the PML4s of
\* processes, live and being created, and all PML4s.
Growing == call.pc \in {"kmap", "kundo"}
HasStack == call.pc \in Creating \cup {"dir", "kfree", "free"}

Procs == {space[t] : t \in Live} \cup (IF call.pc \in Creating THEN {call.root} ELSE {})
Roots == Procs \cup {KernelPml4}

\* The frames of all page tables and the pages they map.
AllNodes == {n \in Pages \ {NoFrame} : InTree(tables, Roots, n)}

\* The first frame of the kernel stack that is being mapped.
RunStart == call.frame - (call.v - call.base)

\* The frame that vmm_destroy_address_space gives back at place p.
Freed(p) == Walk(tables, call.root, p[1], p[2])

\* Frames in use that are in no page table: about to be mapped, or to be
\* given back.
Loose ==
    (IF call.pc \in {"map", "smap"} /\ Walk(tables, call.root, call.v, 0) # call.frame
     THEN {call.frame} ELSE {})
    \cup (IF Growing THEN call.frame .. RunStart + KStackPages - 1 ELSE {})
    \cup (IF call.pc = "free" THEN {Freed(p) : p \in call.work} ELSE {})

\* The boot tables stay reserved and nothing runs while booting.
BootOK ==
    /\ BootRanges \subseteq reserved
    /\ booting => call = Idle /\ Live = {}

\* Entries lead to tables; huge pages are in the boot tables only.
TablesOK ==
    /\ TypedTables(tables)
    /\ \A f \in Pages, i \in Entries :
          /\ IsTable(tables[f][i]) => tables[f][i].phys # NoFrame
          /\ "huge" \in tables[f][i].flags => f \in BootPages \ {KernelPml4}

\* The calls in progress: task_create_user, then what gives an address
\* space and a kernel stack back.
CreateCall ==
    [pc : Creating \cup {"kmap", "kundo", "dir"}, t : Slots, prog : Programs, seg : Nat,
     root : Pages, base : Nat, v : Nat, frame : Pages]
FreeCall ==
    [pc : {"free"}, base : Nat, root : Pages, work : SUBSET (UserPages \X (0 .. 4))]
StackCall == [pc : {"kfree"}, base : Nat]

\* The call in progress works on a free slot, a segment and a page of it.
CallOK ==
    /\ call \in {Idle} \cup CreateCall \cup FreeCall \cup StackCall
    /\ call \in CreateCall => call.t \notin Live
    /\ call.pc \in {"page", "map", "fill"} =>
          call.seg \in DOMAIN call.prog /\ call.prog[call.seg].memsz # 0
    /\ call.pc \in {"page", "map"} =>
          call.v \in FirstPage(call.prog[call.seg]) .. LastPage(call.prog[call.seg])
    /\ call.pc \in {"stack", "smap"} => call.v \in UserStack

\* The stack of a new process has not been mapped yet.
StackFree ==
    call.pc \in Creating \ {"undo", "args"} =>
       \A u \in UserStack : (call.pc \in {"stack", "smap"} => u >= call.v) =>
           Walk(tables, call.root, u, 0) = NoFrame

\* Processes have PML4s of their own, each a frame from pmm_alloc.
SpaceOK ==
    /\ space \in [Slots -> Pages] /\ kstack \in [Slots -> Nat]
    /\ next_virt \in WindowStart .. WindowEnd
    /\ dropped \subseteq Pages
    /\ \A t, u \in Live : space[t] = space[u] => t = u
    /\ call.pc \in Creating => \A t \in Live : space[t] # call.root
    /\ \A r \in Procs : Single(r)

\* The kernel's lower PML4 entries are those of the boot tables; processes
\* have the first.
LowOK ==
    /\ \A i \in 0 .. KernelHalf - 1 : tables[KernelPml4][i] = BootTables[KernelPml4][i]
    /\ \A r \in Procs : tables[r][0] = BootTables[KernelPml4][0]

\* All page tables together are a forest.
TreeOK == Unique(tables, Roots)

\* Tables and pages are frames that pmm handed out one by one.
HeldOK ==
    /\ \A r \in Procs : \A v \in UserPages, l \in 0 .. 3 :
          Walk(tables, r, v, l) # NoFrame => Single(Walk(tables, r, v, l))
    /\ \A v \in Window, l \in 1 .. 3 : LET n == Walk(tables, KernelPml4, v, l) IN
          n # NoFrame => Single(n) \/ (l = 3 /\ n \in BootPages)

\* A kernel stack is a run, mapped page by page.
StackAt(tb, held, next, b) ==
    /\ b \in WindowStart .. next - KStackPages
    /\ \E p \in Pages :
          /\ [page |-> p, count |-> KStackPages] \in held
          /\ \A i \in 0 .. KStackPages - 1 : Walk(tb, KernelPml4, b + i, 0) = p + i
\* The stack at b is mapped now.
StackMapped(b) == StackAt(tables, runs, next_virt, b)

\* Two kernel stacks do not overlap.
Apart(a, b) == a + KStackPages <= b \/ b + KStackPages <= a

\* Every kernel stack is mapped, they are apart, and nothing else is in the
\* window.
StacksOK ==
    /\ \A t \in Live : StackMapped(kstack[t])
    /\ HasStack => StackMapped(call.base)
    /\ \A t, u \in Live : t # u => Apart(kstack[t], kstack[u])
    /\ HasStack \/ Growing => \A t \in Live : Apart(kstack[t], call.base)
    /\ \A v \in Window : Walk(tables, KernelPml4, v, 0) # NoFrame =>
          \/ \E t \in Live : v \in kstack[t] .. kstack[t] + KStackPages - 1
          \/ HasStack /\ v \in call.base .. call.base + KStackPages - 1
          \/ Growing /\ v \in call.base .. call.v - 1

\* A kernel stack that is being mapped is mapped up to the page at hand.
GrowOK ==
    Growing =>
       /\ call.base \in WindowStart .. next_virt - KStackPages
       /\ call.v \in call.base .. call.base + KStackPages - 1
       /\ [page |-> RunStart, count |-> KStackPages] \in runs
       /\ \A i \in 0 .. call.v - call.base - 1 :
             Walk(tables, KernelPml4, call.base + i, 0) = RunStart + i

\* The frames in no table are frames from pmm_alloc, each at hand once.
LooseOK ==
    /\ call.pc \in {"map", "smap"} =>
          /\ Single(call.frame)
          /\ Walk(tables, call.root, call.v, 0) \in {NoFrame, call.frame}
    /\ \A f \in dropped : Single(f)
    /\ call.pc = "free" =>
          /\ \A p \in call.work : Single(Freed(p))
          /\ \A p, q \in call.work : Freed(p) = Freed(q) => p = q

\* Every frame in use is in exactly one of three places.
PlacesOK ==
    /\ Loose \cap AllNodes = {} /\ Loose \cap dropped = {} /\ dropped \cap AllNodes = {}
    /\ HeldPages \subseteq AllNodes \cup dropped \cup Loose

\* The inductive invariant of the memory subsystem.
MInv ==
    /\ IInv /\ BootOK /\ TablesOK /\ CallOK /\ StackFree /\ SpaceOK /\ LowOK
    /\ TreeOK /\ HeldOK /\ StacksOK /\ GrowOK /\ LooseOK /\ PlacesOK

\* The layout of the address space, as its assumptions give it.
LEMMA LayoutFacts ==
    /\ KStackPages \in 1 .. MaxCount /\ KStackPages \in Nat \ {0}
    /\ WindowStart \in Nat /\ WindowEnd \in Nat /\ WindowStart <= WindowEnd
    /\ StackTop \in Nat /\ StackPages \in 1 .. StackTop
    /\ UserStack \subseteq UserPages
    /\ KernelPml4 \in DOMAIN BootTables
    /\ 1 \in 1 .. MaxCount
    /\ Tasks \in Nat
<1>1. MaxCount \in Nat \ {0}
  BY PageSizeFacts
<1> QED BY <1>1, AddressSpaceAssumption DEF LayoutAssumption, BootTablesAssumption

\* What the boot tables are made of.
LEMMA BootFacts ==
    /\ NoFrame \in BootPages /\ KernelPml4 \in BootPages /\ KernelPml4 # NoFrame
    /\ BootPages \subseteq Pages
    /\ DOMAIN BootTables \subseteq BootPages
    /\ NoFrame \notin DOMAIN BootTables
<1>1. BootPages \subseteq Pages
  BY DEF BootPages, TouchedPages
<1> QED BY <1>1, AddressSpaceAssumption DEF BootTablesAssumption, NoFrame

\* The boot tables are reserved pages.
LEMMA ReservedBoot ==
    ASSUME BootOK
    PROVE  BootPages \subseteq ReservedPages
BY DEF BootOK, BootPages, ReservedPages

\* A frame from pmm_alloc is in use and none of the boot tables.
LEMMA SingleFacts ==
    ASSUME IInv, BootOK, NEW f, Single(f)
    PROVE  /\ f \in Pages /\ f \in Nat /\ f \in HeldPages /\ f \notin BootPages
           /\ f # NoFrame /\ f # KernelPml4
<1> DEFINE r == [page |-> f, count |-> 1]
<1>1. r \in HeldRuns /\ r \in runs /\ r.page = f /\ r.count = 1
  BY DEF Single, IInv, TypeOK
<1>2. f \in Pages /\ f \in Nat
  BY <1>1, TotalPagesPositive DEF HeldRuns, Pages
<1>3. f \in Run(r.page, r.count)
  BY <1>1, <1>2, RunOne
<1>4. f \in HeldPages
  BY <1>1, <1>3 DEF HeldPages
<1>5. f \notin BootPages
  BY <1>4, ReservedBoot DEF IInv, HeldApartFromReserved
<1> QED BY <1>2, <1>4, <1>5, BootFacts

\* The frames of a run are in use and none of the boot tables.
LEMMA RunHeld ==
    ASSUME IInv, BootOK, NEW p, NEW n, [page |-> p, count |-> n] \in runs
    PROVE  /\ p \in Nat /\ n \in Nat \ {0} /\ p \in Pages /\ p + n <= TotalPages
           /\ Run(p, n) \subseteq HeldPages /\ Run(p, n) \subseteq Pages
           /\ Run(p, n) \cap BootPages = {}
<1> DEFINE r == [page |-> p, count |-> n]
<1>1. r \in HeldRuns /\ r.page = p /\ r.count = n
  BY DEF IInv, TypeOK
<1>2. p \in Nat /\ n \in Nat \ {0} /\ p \in Pages /\ p + n <= TotalPages
  BY <1>1, TotalPagesPositive, PageSizeFacts DEF HeldRuns, Pages
<1>3. Run(p, n) \subseteq HeldPages
  BY <1>1 DEF HeldPages
<1>4. Run(p, n) \subseteq Pages
  BY <1>2, RunFacts
<1> QED BY <1>2, <1>3, <1>4, ReservedBoot DEF IInv, HeldApartFromReserved

\* The shape of `call`.
LEMMA CallShape ==
    ASSUME CallOK
    PROVE  /\ call.pc \in Creating \cup {"kmap", "kundo", "dir"} <=> call \in CreateCall
           /\ call.pc = "free" <=> call \in FreeCall
           /\ call.pc = "kfree" <=> call \in StackCall
           /\ call.pc = "idle" <=> call = Idle
           /\ call \in CreateCall =>
                /\ call.t \in Slots /\ call.prog \in Programs /\ call.seg \in Nat
                /\ call.root \in Pages /\ call.base \in Nat /\ call.v \in Nat
                /\ call.frame \in Pages /\ call.frame \in Nat
           /\ call \in FreeCall =>
                /\ call.base \in Nat /\ call.root \in Pages
                /\ call.work \in SUBSET (UserPages \X (0 .. 4))
           /\ call \in StackCall => call.base \in Nat
<1>1. call \in {Idle} \cup CreateCall \cup FreeCall \cup StackCall
  BY DEF CallOK
<1>2. call = Idle => call.pc = "idle"
  BY DEF Idle
<1>3. call \in CreateCall =>
        /\ call.pc \in Creating \cup {"kmap", "kundo", "dir"}
        /\ call.t \in Slots /\ call.prog \in Programs /\ call.seg \in Nat
        /\ call.root \in Pages /\ call.base \in Nat /\ call.v \in Nat
        /\ call.frame \in Pages
  BY DEF CreateCall
<1>4. call \in FreeCall =>
        /\ call.pc = "free" /\ call.base \in Nat /\ call.root \in Pages
        /\ call.work \in SUBSET (UserPages \X (0 .. 4))
  BY DEF FreeCall
<1>5. call \in StackCall => call.pc = "kfree" /\ call.base \in Nat
  BY DEF StackCall
<1>6. \A f \in Pages : f \in Nat
  BY TotalPagesPositive DEF Pages
<1>7. \A x \in Creating \cup {"kmap", "kundo", "dir"} : x # "free" /\ x # "kfree" /\ x # "idle"
  BY DEF Creating
<1> HIDE DEF Idle, CreateCall, FreeCall, StackCall
<1> QED BY <1>1, <1>2, <1>3, <1>4, <1>5, <1>6, <1>7

\* The roots are frames of memory, those of processes from pmm_alloc.
LEMMA RootsFacts ==
    ASSUME MInv
    PROVE  /\ Roots \subseteq Pages /\ NoFrame \notin Roots /\ KernelPml4 \in Roots
           /\ KernelPml4 \notin Procs
           /\ \A r \in Procs : r \in Roots /\ Single(r) /\ Dom(r) = UserPages
           /\ Dom(KernelPml4) = Window
<1>1. \A r \in Procs : Single(r)
  BY DEF MInv, SpaceOK
<1>2. \A r \in Procs : r \in Pages /\ r # NoFrame /\ r # KernelPml4
  BY <1>1, SingleFacts DEF MInv
<1>3. KernelPml4 \in Pages /\ KernelPml4 # NoFrame
  BY BootFacts
<1> QED BY <1>1, <1>2, <1>3 DEF Roots, Dom

\* Every page mapped in the window is a page of a held kernel stack.
LEMMA WindowLeafHeld ==
    ASSUME MInv, NEW v \in Window, Walk(tables, KernelPml4, v, 0) # NoFrame
    PROVE  Walk(tables, KernelPml4, v, 0) \in HeldPages
<1> USE LayoutFacts
<1>1. ASSUME NEW b \in Nat, StackMapped(b), v \in b .. b + KStackPages - 1
      PROVE  Walk(tables, KernelPml4, v, 0) \in HeldPages
  <2>1. PICK p \in Pages :
          /\ [page |-> p, count |-> KStackPages] \in runs
          /\ \A i \in 0 .. KStackPages - 1 : Walk(tables, KernelPml4, b + i, 0) = p + i
    BY <1>1 DEF StackMapped, StackAt
  <2>2. v - b \in 0 .. KStackPages - 1 /\ b + (v - b) = v
    BY <1>1, WindowIndex
  <2>3. Walk(tables, KernelPml4, v, 0) = p + (v - b)
    BY <2>1, <2>2
  <2>4. p \in Nat /\ Run(p, KStackPages) \subseteq HeldPages
    BY <2>1, RunHeld DEF MInv
  <2>5. p + (v - b) \in Run(p, KStackPages)
    BY <2>2, <2>4 DEF Run
  <2> QED BY <2>3, <2>4, <2>5
<1>2. \A t \in Live : kstack[t] \in Nat /\ StackMapped(kstack[t])
  BY DEF MInv, SpaceOK, Live, StacksOK
<1>3. HasStack => call.base \in Nat /\ StackMapped(call.base)
  BY CallShape DEF MInv, StacksOK, HasStack
<1>4. ASSUME Growing, v \in call.base .. call.v - 1
      PROVE  Walk(tables, KernelPml4, v, 0) \in HeldPages
  <2>1. call.base \in Nat /\ call.v \in Nat /\ call.frame \in Nat
    BY <1>4, CallShape DEF MInv, Growing
  <2>2. v - call.base \in 0 .. call.v - call.base - 1 /\ call.base + (v - call.base) = v
    BY <1>4, <2>1, WindowIndex
  <2>3. /\ [page |-> RunStart, count |-> KStackPages] \in runs
        /\ call.v \in call.base .. call.base + KStackPages - 1
        /\ Walk(tables, KernelPml4, v, 0) = RunStart + (v - call.base)
    BY <1>4, <2>2 DEF MInv, GrowOK
  <2>4. RunStart \in Nat /\ Run(RunStart, KStackPages) \subseteq HeldPages
    BY <2>3, RunHeld DEF MInv
  <2>5. RunStart + (v - call.base) \in Run(RunStart, KStackPages)
    BY <2>1, <2>2, <2>3, <2>4 DEF Run
  <2> QED BY <2>3, <2>4, <2>5
<1>5. \/ \E t \in Live : v \in kstack[t] .. kstack[t] + KStackPages - 1
      \/ HasStack /\ v \in call.base .. call.base + KStackPages - 1
      \/ Growing /\ v \in call.base .. call.v - 1
  BY DEF MInv, StacksOK
<1> QED BY <1>1, <1>2, <1>3, <1>4, <1>5

\* A frame of a page table is in use: held, or one of the boot tables.
LEMMA NodesInUse ==
    ASSUME MInv, NEW n, InTree(tables, Roots, n), n # NoFrame
    PROVE  n \in HeldPages \/ n \in BootPages
<1>1. PICK r \in Roots : \E v \in Dom(r), l \in 0 .. 4 : Walk(tables, r, v, l) = n
  BY DEF InTree
<1>2. PICK v \in Dom(r), l \in 0 .. 4 : Walk(tables, r, v, l) = n
  BY <1>1
<1>3. CASE r \in Procs
  <2>1. v \in UserPages /\ Single(r)
    BY <1>3, RootsFacts
  <2>2. CASE l = 4
    BY <1>2, <2>1, <2>2, WalkTop, SingleFacts DEF MInv
  <2>3. CASE l # 4
    <3>1. l \in 0 .. 3
      BY <2>3
    <3>2. Single(n)
      BY <1>2, <1>3, <2>1, <3>1 DEF MInv, HeldOK
    <3> QED BY <3>2, SingleFacts DEF MInv
  <2> QED BY <2>2, <2>3
<1>4. CASE r = KernelPml4
  <2>1. v \in Window
    BY <1>4, RootsFacts
  <2>2. CASE l = 4
    BY <1>2, <1>4, <2>2, WalkTop, BootFacts
  <2>3. CASE l = 0
    BY <1>2, <1>4, <2>1, <2>3, WindowLeafHeld
  <2>4. CASE l \in 1 .. 3
    <3>1. Single(n) \/ n \in BootPages
      BY <1>2, <1>4, <2>1, <2>4 DEF MInv, HeldOK
    <3> QED BY <3>1, SingleFacts DEF MInv
  <2> QED BY <2>2, <2>3, <2>4
<1> QED BY <1>3, <1>4 DEF Roots

\* Loose and lost frames are in use.
LEMMA LooseHeld ==
    ASSUME MInv
    PROVE  Loose \subseteq HeldPages /\ dropped \subseteq HeldPages
<1> USE LayoutFacts
<1>1. dropped \subseteq HeldPages
  BY SingleFacts DEF MInv, LooseOK
<1>2. call.pc \in {"map", "smap"} => call.frame \in HeldPages
  BY SingleFacts DEF MInv, LooseOK
<1>3. call.pc = "free" => \A p \in call.work : Freed(p) \in HeldPages
  BY SingleFacts DEF MInv, LooseOK
<1>4. ASSUME Growing PROVE call.frame .. RunStart + KStackPages - 1 \subseteq HeldPages
  <2>1. call.base \in Nat /\ call.v \in Nat /\ call.frame \in Nat
    BY <1>4, CallShape DEF MInv, Growing
  <2>2. /\ [page |-> RunStart, count |-> KStackPages] \in runs
        /\ call.v \in call.base .. call.base + KStackPages - 1
    BY <1>4 DEF MInv, GrowOK
  <2>3. Run(RunStart, KStackPages) \subseteq HeldPages /\ RunStart \in Nat
    BY <2>2, RunHeld DEF MInv
  <2>4. call.frame .. RunStart + KStackPages - 1 \subseteq Run(RunStart, KStackPages)
    BY <2>1, <2>2, <2>3 DEF Run, RunStart
  <2> QED BY <2>3, <2>4
<1> QED BY <1>1, <1>2, <1>3, <1>4 DEF Loose

\* What pmm_alloc_pages hands out is nowhere yet.
LEMMA FreshFacts ==
    ASSUME MInv, NEW G, G \subseteq Pages, G \cap HeldPages = {}, G \cap ReservedPages = {}
    PROVE  /\ \A g \in G : ~InTree(tables, Roots, g) /\ g # NoFrame /\ g # KernelPml4 /\ g \notin BootPages
           /\ G \cap AllNodes = {} /\ G \cap Loose = {} /\ G \cap dropped = {}
<1>1. \A g \in G : g \notin BootPages /\ g # NoFrame /\ g # KernelPml4
  BY ReservedBoot, BootFacts DEF MInv
<1>2. \A g \in G : ~InTree(tables, Roots, g)
  BY <1>1, NodesInUse
<1> QED BY <1>1, <1>2, LooseHeld DEF AllNodes

-----------------------------------------------------------------------------
(* Steps that leave the page tables alone.                                 *)

\* A step that leaves the tables and gives nothing back keeps the trees.
LEMMA SameTables ==
    ASSUME MInv, tables' = tables, Procs' = Procs, runs \subseteq runs'
    PROVE  /\ Roots' = Roots /\ AllNodes' = AllNodes
           /\ TablesOK' /\ LowOK' /\ TreeOK' /\ HeldOK'
           /\ \A f : Single(f) => Single(f)'
<1>1. Roots' = Roots
  BY DEF Roots
<1>2. AllNodes' = AllNodes
  BY <1>1 DEF AllNodes
<1>3. TablesOK' /\ LowOK'
  BY DEF MInv, TablesOK, LowOK
<1>4. TreeOK'
  BY <1>1 DEF MInv, TreeOK
<1>5. \A f : Single(f) => Single(f)'
  BY DEF Single
<1>6. HeldOK'
  BY <1>5 DEF MInv, HeldOK
<1> QED BY <1>1, <1>2, <1>3, <1>4, <1>5, <1>6

\* A stack stays mapped while its entries and its run stay.
LEMMA StackKept ==
    ASSUME MInv, NEW b \in Nat, StackMapped(b), next_virt' \in Nat, next_virt <= next_virt',
           \A p : /\ [page |-> p, count |-> KStackPages] \in runs
                  /\ Walk(tables, KernelPml4, b, 0) = p
                  => [page |-> p, count |-> KStackPages] \in runs',
           \A u \in Window : Walk(tables', KernelPml4, u, 0) = Walk(tables, KernelPml4, u, 0)
                             \/ ~(u \in b .. b + KStackPages - 1)
    PROVE  StackMapped(b)'
<1> USE LayoutFacts
<1>1. next_virt \in WindowStart .. WindowEnd
  BY DEF MInv, SpaceOK
<1>2. PICK p \in Pages :
        /\ [page |-> p, count |-> KStackPages] \in runs
        /\ \A i \in 0 .. KStackPages - 1 : Walk(tables, KernelPml4, b + i, 0) = p + i
  BY DEF StackMapped, StackAt
<1>3. b \in WindowStart .. next_virt - KStackPages
  BY DEF StackMapped, StackAt
<1>4. ASSUME NEW i \in 0 .. KStackPages - 1 PROVE Walk(tables', KernelPml4, b + i, 0) = p + i
  <2>1. b + i \in Window /\ b + i \in b .. b + KStackPages - 1
    BY <1>1, <1>3 DEF Window
  <2> QED BY <1>2, <2>1
<1>5. b \in WindowStart .. next_virt' - KStackPages
  <2>1. \A m, n \in Nat : m <= n /\ b \in WindowStart .. m - KStackPages => b \in WindowStart .. n - KStackPages
    BY LayoutFacts
  <2>2. next_virt \in Nat
    BY <1>1
  <2> QED BY <1>3, <2>1, <2>2
<1>6. [page |-> p, count |-> KStackPages] \in runs'
  <2>1. 0 \in 0 .. KStackPages - 1 /\ b + 0 = b /\ p + 0 = p
    BY TotalPagesPositive DEF Pages
  <2>2. Walk(tables, KernelPml4, b, 0) = p
    BY <1>2, <2>1
  <2> QED BY <1>2, <2>2
<1> QED BY <1>2, <1>4, <1>5, <1>6 DEF StackMapped, StackAt

\* A kernel stack lies in the window.
LEMMA StackInWindow ==
    ASSUME MInv, NEW b \in WindowStart .. next_virt - KStackPages
    PROVE  /\ b \in Nat /\ b .. b + KStackPages - 1 \subseteq Window
           /\ \A i \in 0 .. KStackPages - 1 : b + i \in Window /\ b + i \in b .. b + KStackPages - 1
<1> USE LayoutFacts
<1>1. next_virt \in WindowStart .. WindowEnd
  BY DEF MInv, SpaceOK
<1> QED BY <1>1 DEF Window

\* Nothing of the memory's state changes: system calls, copies, answers.
LEMMA QuietKeepsMInv ==
    ASSUME MInv, IInv',
           UNCHANGED <<runs, reserved, booting, tables, space, kstack, next_virt, call, dropped>>
    PROVE  MInv'
<1>1. Live' = Live /\ Procs' = Procs
  BY DEF Live, Procs
<1>2. Growing' = Growing /\ HasStack' = HasStack /\ RunStart' = RunStart
  BY DEF Growing, HasStack, RunStart
<1>3. /\ AllNodes' = AllNodes /\ TablesOK' /\ LowOK' /\ TreeOK' /\ HeldOK'
      /\ \A f : Single(f) => Single(f)'
  BY <1>1, SameTables
<1>4. HeldPages' = HeldPages
  BY DEF HeldPages
<1>5. Loose' = Loose
  BY <1>2 DEF Loose, Freed
<1>6. BootOK' /\ CallOK' /\ StackFree'
  BY <1>1 DEF MInv, BootOK, CallOK, StackFree
<1>7. SpaceOK'
  BY <1>1, <1>3 DEF MInv, SpaceOK
<1>8. \A b : StackMapped(b) = StackMapped(b)'
  BY DEF StackMapped, StackAt
<1>9. StacksOK'
  BY <1>1, <1>2, <1>8 DEF MInv, StacksOK
<1>10. GrowOK'
  BY <1>2 DEF MInv, GrowOK
<1>11. LooseOK'
  BY <1>3 DEF MInv, LooseOK, Freed
<1>12. PlacesOK'
  BY <1>3, <1>4, <1>5 DEF MInv, PlacesOK
<1> QED BY <1>3, <1>6, <1>7, <1>9, <1>10, <1>11, <1>12 DEF MInv

\* multiboot_parse withdraws memory before anything else runs.
LEMMA BootKeepsMInv ==
    ASSUME MInv, Boot
    PROVE  MInv'
<1>1. CASE \E r \in FirmwareRanges : pmm_reserve_range(r[1], r[2])
  <2>1. PICK r \in FirmwareRanges : pmm_reserve_range(r[1], r[2])
    BY <1>1
  <2>2. IInv'
    BY <2>1, ReserveKeepsIInv DEF MInv
  <2>3. booting /\ booting' = booting /\ runs' = runs /\ reserved \subseteq reserved'
    BY <2>1 DEF pmm_reserve_range
  <2>4. UNCHANGED <<tables, space, kstack, next_virt, call, dropped>>
    BY DEF Boot, vmVars
  <2>5. call = Idle /\ Live = {} /\ Live' = {} /\ call.pc = "idle"
    BY <2>3, <2>4, CallShape DEF MInv, BootOK, Live
  <2>6. Procs = {} /\ Procs' = {}
    BY <2>4, <2>5 DEF Procs, Creating
  <2>7. /\ AllNodes' = AllNodes /\ TablesOK' /\ LowOK' /\ TreeOK' /\ HeldOK'
        /\ \A f : Single(f) => Single(f)'
    BY <2>3, <2>4, <2>6, SameTables
  <2>8. BootOK'
    BY <2>3, <2>4, <2>5 DEF MInv, BootOK
  <2>9. CallOK' /\ StackFree' /\ SpaceOK'
    BY <2>4, <2>5, <2>6 DEF MInv, CallOK, StackFree, SpaceOK, Creating
  <2>10. StacksOK'
    BY <2>4, <2>5 DEF MInv, StacksOK, HasStack, Growing, Creating
  <2>11. GrowOK'
    BY <2>4, <2>5 DEF GrowOK, Growing
  <2>12. LooseOK'
    BY <2>4, <2>5, <2>7 DEF MInv, LooseOK
  <2>13. HeldPages' = HeldPages
    BY <2>3 DEF HeldPages
  <2>14. Loose = {} /\ Loose' = {}
    BY <2>4, <2>5 DEF Loose, Growing
  <2>15. PlacesOK'
    BY <2>4, <2>7, <2>13, <2>14 DEF MInv, PlacesOK
  <2> QED BY <2>2, <2>7, <2>8, <2>9, <2>10, <2>11, <2>12, <2>15 DEF MInv
<1>2. CASE BootDone
  <2>1. UNCHANGED <<bitmap, used_pages, hint, runs, reserved, answer>> /\ booting' = FALSE
    BY <1>2 DEF BootDone
  <2>2. IInv'
    BY <2>1, QuietStepKeepsIInv DEF MInv, IInv, TypeOK
  <2>3. UNCHANGED <<tables, space, kstack, next_virt, call, dropped>>
    BY DEF Boot, vmVars
  <2>4. Live' = Live /\ Procs' = Procs
    BY <2>3 DEF Live, Procs
  <2>5. Growing' = Growing /\ HasStack' = HasStack /\ RunStart' = RunStart
    BY <2>3 DEF Growing, HasStack, RunStart
  <2>6. /\ AllNodes' = AllNodes /\ TablesOK' /\ LowOK' /\ TreeOK' /\ HeldOK'
        /\ \A f : Single(f) => Single(f)'
    BY <2>1, <2>3, <2>4, SameTables
  <2>7. HeldPages' = HeldPages /\ Loose' = Loose
    BY <2>1, <2>3, <2>5 DEF HeldPages, Loose, Freed
  <2>8. BootOK' /\ CallOK' /\ StackFree'
    BY <2>1, <2>3, <2>4 DEF MInv, BootOK, CallOK, StackFree
  <2>9. SpaceOK'
    BY <2>3, <2>4, <2>6 DEF MInv, SpaceOK
  <2>10. \A b : StackMapped(b) = StackMapped(b)'
    BY <2>1, <2>3 DEF StackMapped, StackAt
  <2>11. StacksOK'
    BY <2>3, <2>4, <2>5, <2>10 DEF MInv, StacksOK
  <2>12. GrowOK'
    BY <2>1, <2>3, <2>5 DEF MInv, GrowOK
  <2>13. LooseOK'
    BY <2>3, <2>6 DEF MInv, LooseOK, Freed
  <2>14. PlacesOK'
    BY <2>3, <2>6, <2>7 DEF MInv, PlacesOK
  <2> QED BY <2>2, <2>6, <2>8, <2>9, <2>11, <2>12, <2>13, <2>14 DEF MInv
<1> QED BY <1>1, <1>2 DEF Boot

\* The numbers are well founded.
LEMMA LessWellFounded == IsWellFoundedOn({p \in Nat \X Nat : p[1] < p[2]}, Nat)
BY NatLessThanWellFounded DEF OpToRel

\* A nonempty set of numbers has a least member.
LEMMA LeastMember ==
    ASSUME NEW S, S \subseteq Nat, S # {}
    PROVE  \E m \in S : \A n \in S : m <= n
<1> DEFINE R == {p \in Nat \X Nat : p[1] < p[2]}
<1>1. IsWellFoundedOn(R, Nat)
  BY LessWellFounded
<1> HIDE DEF R
<1>2. PICK x \in S : \A y \in S : ~(<<y, x>> \in R)
  BY <1>1, WFMin
<1>3. ASSUME NEW y \in S PROVE x <= y
  <2>1. x \in Nat /\ y \in Nat
    BY <1>2
  <2>2. <<y, x>> \in R <=> y < x
    BY <2>1 DEF R
  <2> QED BY <1>2, <2>1, <2>2
<1> QED BY <1>3

\* The kernel stacks stay where they are.
LEMMA StacksSame ==
    ASSUME MInv, runs \subseteq runs', space' = space, kstack' = kstack, next_virt' = next_virt,
           \A u \in Window : Walk(tables', KernelPml4, u, 0) = Walk(tables, KernelPml4, u, 0),
           HasStack' <=> HasStack, Growing' <=> Growing,
           HasStack \/ Growing => call'.base = call.base,
           Growing => call'.v = call.v
    PROVE  StacksOK'
<1>1. Live' = Live
  BY DEF Live
<1>2. next_virt \in Nat
  BY LayoutFacts DEF MInv, SpaceOK
<1>3. ASSUME NEW b \in Nat, StackMapped(b) PROVE StackMapped(b)'
  BY <1>2, <1>3, StackKept
<1>4. \A b \in Nat : StackAt(tables, runs, next_virt, b) => StackAt(tables', runs', next_virt', b)
  BY <1>3 DEF StackMapped
<1>5. \A t \in Live : kstack[t] \in Nat /\ StackAt(tables, runs, next_virt, kstack[t])
  BY DEF MInv, StacksOK, SpaceOK, Live, StackMapped
<1>6. HasStack => call.base \in Nat /\ StackAt(tables, runs, next_virt, call.base)
  BY CallShape DEF MInv, StacksOK, HasStack, StackMapped
<1>7. /\ \A t \in Live : StackMapped(kstack[t])'
      /\ HasStack => StackMapped(call.base)'
  BY <1>4, <1>5, <1>6 DEF StackMapped
<1> QED BY <1>1, <1>7 DEF MInv, StacksOK, Apart

\* vmm_alloc_pages: the window grows, and a run of frames is to be mapped.
LEMMA AllocPagesKeepsMInv ==
    ASSUME MInv, NEW prog \in Programs, vmm_alloc_pages(prog)
    PROVE  MInv'
<1> USE LayoutFacts
<1>1. /\ call = Idle /\ Free # {} /\ ~booting
      /\ next_virt + KStackPages <= WindowEnd /\ next_virt' = next_virt + KStackPages
      /\ UNCHANGED <<tables, space, kstack, dropped>>
  BY DEF vmm_alloc_pages
<1>2. next_virt \in Nat /\ next_virt \in WindowStart .. WindowEnd
      /\ next_virt' \in WindowStart .. WindowEnd /\ next_virt' \in Nat /\ next_virt <= next_virt'
  BY <1>1 DEF MInv, SpaceOK
<1>3. call.pc = "idle" /\ ~Growing /\ ~HasStack /\ Loose = {} /\ Live' = Live
      /\ call.pc \notin Creating
  BY <1>1 DEF Idle, Growing, HasStack, Loose, Creating, Live
<1>4. ASSUME runs \subseteq runs', NEW b \in Nat, StackAt(tables, runs, next_virt, b)
      PROVE  StackAt(tables', runs', next_virt', b)
  <2>1. StackMapped(b)
    BY <1>4 DEF StackMapped
  <2>2. StackMapped(b)'
    BY <1>1, <1>2, <1>4, <2>1, StackKept
  <2> QED BY <2>2 DEF StackMapped
<1>5. \A t \in Live : /\ kstack[t] \in Nat /\ StackAt(tables, runs, next_virt, kstack[t])
                      /\ kstack[t] + KStackPages <= next_virt
  BY DEF MInv, StacksOK, SpaceOK, Live, StackMapped, StackAt
<1>6. runs \subseteq runs' => \A t \in Live : StackMapped(kstack[t])'
  BY <1>1, <1>4, <1>5 DEF StackMapped
<1>7. \A v \in Window : Walk(tables, KernelPml4, v, 0) # NoFrame =>
          \E t \in Live : v \in kstack[t] .. kstack[t] + KStackPages - 1
  BY <1>3 DEF MInv, StacksOK
<1>8. \A t, u \in Live : t # u => Apart(kstack[t], kstack[u])
  BY DEF MInv, StacksOK
<1>9. CASE pmm_alloc_pages(KStackPages)
          /\ call' = [pc |-> "kmap", t |-> CHOOSE t \in Free : \A u \in Free : t <= u,
                      prog |-> prog, seg |-> 0, root |-> NoFrame,
                      base |-> next_virt, v |-> next_virt, frame |-> Got]
  <2> DEFINE c == CHOOSE t \in Free : \A u \in Free : t <= u
             g == Got
  <2>1. /\ IInv' /\ g \in Pages /\ g + KStackPages <= TotalPages
        /\ runs' = runs \cup {[page |-> g, count |-> KStackPages]}
        /\ Run(g, KStackPages) \cap HeldPages = {} /\ Run(g, KStackPages) \cap ReservedPages = {}
        /\ Run(g, KStackPages) \subseteq Pages
        /\ HeldPages' = HeldPages \cup Run(g, KStackPages)
        /\ UNCHANGED <<reserved, booting>>
    BY <1>9, AllocGives DEF MInv
  <2>2. c \in Slots /\ c \notin Live
    <3>1. Free \subseteq Nat /\ Free \subseteq Slots
      BY DEF Free, Slots
    <3>2. \E t \in Free : \A u \in Free : t <= u
      BY <1>1, <3>1, LeastMember
    <3>3. c \in Free
      BY <3>2
    <3> QED BY <3>1, <3>3 DEF Free, Live
  <2> HIDE DEF c, g
  <2>3. call' = [pc |-> "kmap", t |-> c, prog |-> prog, seg |-> 0, root |-> NoFrame,
                 base |-> next_virt, v |-> next_virt, frame |-> g]
    BY <1>9 DEF c, g
  <2>4. /\ call'.pc = "kmap" /\ call'.t = c /\ call'.base = next_virt /\ call'.v = next_virt
        /\ call'.frame = g /\ g \in Nat
    BY <2>1, <2>3, TotalPagesPositive DEF Pages
  <2>5. Procs' = Procs /\ Growing' /\ ~HasStack'
    BY <1>1, <1>3, <2>4 DEF Procs, Growing, HasStack, Creating, Live
  <2>6. RunStart' = g
    BY <1>2, <2>4 DEF RunStart
  <2>7. /\ AllNodes' = AllNodes /\ TablesOK' /\ LowOK' /\ TreeOK' /\ HeldOK'
        /\ \A f : Single(f) => Single(f)'
    BY <1>1, <2>1, <2>5, SameTables
  <2>8. BootOK'
    BY <1>1, <2>1 DEF MInv, BootOK
  <2>9. CallOK'
    <3>1. call' \in CreateCall
      BY <1>2, <2>1, <2>2, <2>3, ZeroPage DEF CreateCall, Creating
    <3> QED BY <1>3, <2>2, <2>4, <3>1 DEF CallOK
  <2>10. StackFree'
    BY <2>4 DEF StackFree, Creating
  <2>11. SpaceOK'
    BY <1>1, <1>2, <1>3, <2>4, <2>5, <2>7 DEF MInv, SpaceOK, Creating
  <2>12. StacksOK'
    <3>1. \A t \in Live : Apart(kstack[t], next_virt)
      BY <1>2, <1>5 DEF Apart
    <3> QED BY <1>1, <1>3, <1>6, <1>7, <1>8, <2>1, <2>4, <2>5, <3>1 DEF StacksOK
  <2>13. GrowOK'
    <3>1. next_virt \in WindowStart .. next_virt' - KStackPages
      BY <1>1, <1>2
    <3>2. next_virt \in next_virt .. next_virt + KStackPages - 1
      BY <1>2
    <3>3. 0 .. next_virt - next_virt - 1 = {}
      BY <1>2
    <3> QED BY <2>1, <2>4, <2>6, <3>1, <3>2, <3>3 DEF GrowOK
  <2>14. LooseOK'
    BY <1>1, <2>4, <2>7 DEF MInv, LooseOK
  <2>15. Loose' = Run(g, KStackPages)
    BY <2>4, <2>5, <2>6 DEF Loose, Run
  <2>16. PlacesOK'
    <3>1. /\ Run(g, KStackPages) \cap AllNodes = {}
          /\ Run(g, KStackPages) \cap dropped = {}
      BY <2>1, FreshFacts
    <3>2. dropped \cap AllNodes = {} /\ HeldPages \subseteq AllNodes \cup dropped
      BY <1>3 DEF MInv, PlacesOK
    <3> QED BY <1>1, <2>1, <2>7, <2>15, <3>1, <3>2 DEF PlacesOK
  <2> QED BY <2>1, <2>7, <2>8, <2>9, <2>10, <2>11, <2>12, <2>13, <2>14, <2>16 DEF MInv
<1>10. CASE pmm_alloc_pages_fails(KStackPages) /\ UNCHANGED call
  <2>1. IInv' /\ UNCHANGED <<runs, reserved, booting>> /\ HeldPages' = HeldPages
    BY <1>10, PmmQuiet DEF MInv
  <2>2. Procs' = Procs /\ ~Growing' /\ ~HasStack' /\ Loose' = {} /\ call'.pc = "idle"
    BY <1>1, <1>3, <1>10 DEF Procs, Growing, HasStack, Loose, Live
  <2>3. /\ AllNodes' = AllNodes /\ TablesOK' /\ LowOK' /\ TreeOK' /\ HeldOK'
        /\ \A f : Single(f) => Single(f)'
    BY <1>1, <2>1, <2>2, SameTables
  <2>4. BootOK' /\ CallOK' /\ StackFree'
    BY <1>1, <1>3, <1>10, <2>1 DEF MInv, BootOK, CallOK, StackFree
  <2>5. SpaceOK'
    BY <1>1, <1>2, <1>3, <1>10, <2>2, <2>3 DEF MInv, SpaceOK
  <2>6. StacksOK'
    BY <1>1, <1>3, <1>6, <1>7, <1>8, <2>1, <2>2 DEF StacksOK
  <2>7. GrowOK' /\ LooseOK'
    BY <1>1, <2>2, <2>3 DEF MInv, GrowOK, LooseOK
  <2>8. PlacesOK'
    BY <1>1, <1>3, <2>1, <2>2, <2>3 DEF MInv, PlacesOK
  <2> QED BY <2>1, <2>3, <2>4, <2>5, <2>6, <2>7, <2>8 DEF MInv
<1> QED BY <1>9, <1>10 DEF vmm_alloc_pages

\* Where get_or_create_table stops: at the first level without a table.
LEMMA MissingFacts ==
    ASSUME NEW r, r # NoFrame, NEW v
    PROVE  /\ MissingLevel(r, v) = 0 <=> Walk(tables, r, v, 1) # NoFrame
           /\ MissingLevel(r, v) # 0 =>
                /\ MissingLevel(r, v) \in 1 .. 3
                /\ Walk(tables, r, v, MissingLevel(r, v)) = NoFrame
                /\ Walk(tables, r, v, MissingLevel(r, v) + 1) # NoFrame
<1> DEFINE W(l) == Walk(tables, r, v, l)
           P(l) == W(l) = NoFrame /\ W(l + 1) # NoFrame
           m == CHOOSE l \in 1 .. 3 : P(l)
<1>1. \A l \in 1 .. 3 : l \in 1 .. 4 /\ l + 1 \in 1 .. 4 /\ l # 0
  OBVIOUS
<1>2. /\ \A l \in 1 .. 4 : Path(r, v)[l] = W(l)
      /\ W(4) = r /\ 1 \in 1 .. 4
  BY PathIsWalk, WalkTop
<1>3. MissingLevel(r, v) = IF W(1) # NoFrame THEN 0 ELSE m
  <2>1. \A l \in 1 .. 3 : (Path(r, v)[l] = NoFrame /\ Path(r, v)[l + 1] # NoFrame) <=> P(l)
    BY <1>1, <1>2
  <2>2. (CHOOSE l \in 1 .. 3 : Path(r, v)[l] = NoFrame /\ Path(r, v)[l + 1] # NoFrame) = m
    BY <2>1
  <2> DEFINE k == CHOOSE l \in 1 .. 3 : Path(r, v)[l] = NoFrame /\ Path(r, v)[l + 1] # NoFrame
  <2>3. MissingLevel(r, v) = IF Path(r, v)[1] # NoFrame THEN 0 ELSE k
    BY DEF MissingLevel
  <2>4. k = m
    BY <2>2
  <2> HIDE DEF k, m, W
  <2> QED BY <1>2, <2>3, <2>4
<1> HIDE DEF W
<1>4. ASSUME W(1) = NoFrame PROVE \E l \in 1 .. 3 : P(l)
  <2>1. CASE W(2) # NoFrame
    <3>1. P(1)
      BY <1>4, <2>1
    <3> QED BY <3>1
  <2>2. CASE W(2) = NoFrame /\ W(3) # NoFrame
    <3>1. P(2)
      BY <2>2
    <3> QED BY <3>1
  <2>3. CASE W(3) = NoFrame
    <3>1. P(3)
      BY <1>2, <2>3
    <3> QED BY <3>1
  <2> QED BY <2>1, <2>2, <2>3
<1>5. W(1) = NoFrame => m \in 1 .. 3 /\ P(m)
  BY <1>4
<1> HIDE DEF m, P
<1>6. W(1) = NoFrame => m # 0
  BY <1>1, <1>5
<1> QED BY <1>3, <1>5, <1>6 DEF P, W

\* What a step of task_create_user after the new PML4 leaves alone.
LEMMA CreatingFrame ==
    ASSUME MInv, IInv', call.pc \in Creating, call'.pc \in Creating,
           call'.root = call.root, call'.base = call.base,
           runs \subseteq runs', dropped' \subseteq Pages,
           UNCHANGED <<reserved, booting, space, kstack, next_virt>>,
           \A u \in Window : Walk(tables', KernelPml4, u, 0) = Walk(tables, KernelPml4, u, 0)
    PROVE  /\ Live' = Live /\ Procs' = Procs /\ Roots' = Roots
           /\ BootOK' /\ SpaceOK' /\ StacksOK' /\ GrowOK'
           /\ \A f : Single(f) => Single(f)'
<1>1. Live' = Live /\ Procs' = Procs /\ Roots' = Roots
  BY DEF Live, Procs, Roots
<1>2. \A f : Single(f) => Single(f)'
  BY DEF Single
<1>3. ~booting
  BY DEF MInv, BootOK, Idle, Creating
<1>4. BootOK'
  BY <1>3 DEF MInv, BootOK
<1>5. SpaceOK'
  BY <1>1, <1>2 DEF MInv, SpaceOK
<1>6. HasStack /\ HasStack' /\ ~Growing /\ ~Growing'
  BY DEF HasStack, Growing, Creating
<1>7. StacksOK'
  BY <1>6, StacksSame
<1>8. GrowOK'
  BY <1>6 DEF GrowOK
<1> QED BY <1>1, <1>2, <1>4, <1>5, <1>7, <1>8

\* The fields of `call` while a process is made.
LEMMA CreatingCall ==
    ASSUME CallOK, call.pc \in Creating \cup {"kmap", "kundo", "dir"}
    PROVE  /\ call \in CreateCall /\ call.root \in Pages /\ call.base \in Nat /\ call.v \in Nat
           /\ call.frame \in Pages /\ call.t \in Slots /\ call.seg \in Nat /\ call.prog \in Programs
           /\ call.t \notin Live
BY CallShape DEF CallOK, CreateCall

\* elf_load or the stack's loop takes a page.
LEMMA TakePageKeepsMInv ==
    ASSUME MInv, TakePage
    PROVE  MInv'
<1> USE LayoutFacts
<1>0. PICK g : g = Got
  OBVIOUS
<1> DEFINE x == IF call.pc = "page" THEN "map" ELSE "smap"
<1>1. /\ call.pc \in {"page", "stack"} /\ call.pc \in Creating
      /\ call.pc = "page" => PageNeeded(call.v)
      /\ pmm_alloc_pages(1) /\ call' = [call EXCEPT !.pc = x, !.frame = g]
      /\ UNCHANGED <<tables, space, kstack, next_virt, dropped>>
  BY <1>0 DEF TakePage, Creating
<1>2. /\ IInv' /\ g \in Pages
      /\ runs' = runs \cup {[page |-> g, count |-> 1]}
      /\ Run(g, 1) \cap HeldPages = {} /\ Run(g, 1) \cap ReservedPages = {}
      /\ HeldPages' = HeldPages \cup Run(g, 1)
      /\ UNCHANGED <<reserved, booting>>
  BY <1>0, <1>1, AllocGives DEF MInv
<1>3. g \in Nat /\ Run(g, 1) = {g}
  BY <1>2, RunOne, TotalPagesPositive DEF Pages
<1>4. call \in CreateCall /\ x \in {"map", "smap"} /\ x \in Creating
  BY <1>1, CreatingCall DEF MInv, Creating
<1>5. /\ call' \in CreateCall /\ call'.pc = x /\ call'.frame = g /\ call'.v = call.v
      /\ call'.seg = call.seg /\ call'.root = call.root /\ call'.base = call.base
      /\ call'.prog = call.prog /\ call'.t = call.t
  BY <1>1, <1>2, <1>4 DEF CreateCall
<1>6. call' \in CreateCall => call'.pc \in Creating
  BY <1>4, <1>5
<1>7. /\ Live' = Live /\ Procs' = Procs /\ Roots' = Roots
      /\ BootOK' /\ SpaceOK' /\ StacksOK' /\ GrowOK'
      /\ \A f : Single(f) => Single(f)'
  <2>1. dropped' \subseteq Pages
    BY <1>1 DEF MInv, SpaceOK
  <2> QED BY <1>1, <1>2, <1>4, <1>5, <2>1, CreatingFrame
<1>8. AllNodes' = AllNodes /\ TablesOK' /\ LowOK' /\ TreeOK' /\ HeldOK'
  BY <1>1, <1>2, <1>7, SameTables
<1>9. CallOK'
  <2>1. call.t \notin Live
    BY <1>4 DEF MInv, CallOK
  <2>2. call.pc = "page" =>
          /\ call.seg \in DOMAIN call.prog /\ call.prog[call.seg].memsz # 0
          /\ call.v \in FirstPage(call.prog[call.seg]) .. LastPage(call.prog[call.seg])
    BY DEF MInv, CallOK
  <2>3. call.pc = "stack" => call.v \in UserStack
    BY DEF MInv, CallOK
  <2> QED BY <1>1, <1>5, <1>7, <2>1, <2>2, <2>3 DEF CallOK
<1>10. StackFree'
  BY <1>1, <1>4, <1>5 DEF MInv, StackFree, Creating
<1>11. Walk(tables, call.root, call.v, 0) = NoFrame
  <2>1. CASE call.pc = "page"
    BY <1>1, <2>1, PhysIsWalk DEF PageNeeded
  <2>2. CASE call.pc = "stack"
    <3>1. call.v \in UserStack /\ call.v >= call.v
      BY <1>4, <2>2, CallShape DEF MInv, CallOK
    <3> QED BY <1>1, <2>2, <3>1 DEF MInv, StackFree
  <2> QED BY <1>1, <2>1, <2>2
<1>12. g # NoFrame /\ g \notin AllNodes /\ g \notin dropped
  BY <1>2, <1>3, FreshFacts
<1>13. Loose = {} /\ Loose' = {g}
  <2>1. Loose = {}
    BY <1>1 DEF Loose, Growing
  <2>2. ~Growing' /\ call'.pc # "free"
    BY <1>4, <1>5 DEF Growing
  <2> QED BY <1>1, <1>4, <1>5, <1>11, <1>12, <2>1, <2>2 DEF Loose
<1>14. LooseOK'
  <2>1. Single(g)'
    BY <1>2 DEF Single
  <2> QED BY <1>1, <1>4, <1>5, <1>7, <1>11, <2>1 DEF MInv, LooseOK
<1>15. PlacesOK'
  BY <1>1, <1>2, <1>3, <1>8, <1>12, <1>13 DEF MInv, PlacesOK
<1> QED BY <1>2, <1>7, <1>8, <1>9, <1>10, <1>14, <1>15 DEF MInv

\* The pages that elf_load and the stack's loop map are user pages.
LEMMA PageOfUser ==
    ASSUME CallOK
    PROVE  /\ call.pc \in {"page", "map"} => call.v \in UserPages /\ call.v \notin UserStack
           /\ call.pc \in {"stack", "smap"} => call.v \in UserPages /\ call.v \in UserStack
<1>1. ASSUME call.pc \in {"page", "map"} PROVE call.v \in UserPages /\ call.v \notin UserStack
  <2>1. call.prog \in Programs
    BY <1>1, CallShape DEF Creating
  <2>2. call.seg \in DOMAIN call.prog /\ call.prog[call.seg].memsz # 0
        /\ call.v \in FirstPage(call.prog[call.seg]) .. LastPage(call.prog[call.seg])
    BY <1>1 DEF CallOK
  <2> QED BY <2>1, <2>2, AddressSpaceAssumption DEF LayoutAssumption
<1>2. call.pc \in {"stack", "smap"} => call.v \in UserPages /\ call.v \in UserStack
  BY LayoutFacts DEF CallOK
<1> QED BY <1>1, <1>2

\* The PML4 of a process that is being made is one of the roots.
LEMMA CallRoot ==
    ASSUME MInv, call.pc \in Creating
    PROVE  /\ call.root \in Procs /\ call.root \in Roots /\ call.root # NoFrame
           /\ call.root # KernelPml4 /\ Dom(call.root) = UserPages
           /\ Single(call.root)
<1>1. call.root \in Procs
  BY DEF Procs
<1> QED BY <1>1, RootsFacts

\* elf_load goes on with the page of an earlier segment.
LEMMA KeepPageKeepsMInv ==
    ASSUME MInv, KeepPage
    PROVE  MInv'
<1> DEFINE g == Walk(tables, call.root, call.v, 0)
<1>1. /\ call.pc = "page" /\ call.pc \in Creating /\ g # NoFrame
      /\ call' = [call EXCEPT !.pc = "map", !.frame = g]
      /\ UNCHANGED pmmVars
      /\ UNCHANGED <<tables, space, kstack, next_virt, dropped>>
  BY PhysIsWalk DEF KeepPage, Creating, PageNeeded
<1>2. IInv' /\ UNCHANGED <<runs, reserved, booting>> /\ HeldPages' = HeldPages
  BY <1>1, PmmQuiet DEF MInv
<1>3. call.v \in UserPages /\ call.root \in Procs
  BY <1>1, PageOfUser, CallRoot DEF MInv
<1>4. Single(g) /\ g \in Pages
  BY <1>1, <1>3, SingleFacts DEF MInv, HeldOK
<1>5. call \in CreateCall
  BY <1>1, CallShape DEF MInv
<1> HIDE DEF g
<1>6. /\ call' \in CreateCall /\ call'.pc = "map" /\ call'.frame = g /\ call'.v = call.v
      /\ call'.seg = call.seg /\ call'.root = call.root /\ call'.base = call.base
      /\ call'.prog = call.prog /\ call'.t = call.t
  BY <1>1, <1>4, <1>5 DEF CreateCall, Creating
<1>7. /\ Live' = Live /\ Procs' = Procs /\ Roots' = Roots
      /\ BootOK' /\ SpaceOK' /\ StacksOK' /\ GrowOK'
      /\ \A f : Single(f) => Single(f)'
  <2>1. dropped' \subseteq Pages
    BY <1>1 DEF MInv, SpaceOK
  <2>2. call'.pc \in Creating
    BY <1>6 DEF Creating
  <2> QED BY <1>1, <1>2, <1>6, <2>1, <2>2, CreatingFrame
<1>8. AllNodes' = AllNodes /\ TablesOK' /\ LowOK' /\ TreeOK' /\ HeldOK'
  BY <1>1, <1>2, <1>7, SameTables
<1>9. CallOK'
  <2>1. call.t \notin Live
    BY <1>5 DEF MInv, CallOK
  <2>2. /\ call.seg \in DOMAIN call.prog /\ call.prog[call.seg].memsz # 0
        /\ call.v \in FirstPage(call.prog[call.seg]) .. LastPage(call.prog[call.seg])
    BY <1>1 DEF MInv, CallOK
  <2> QED BY <1>6, <1>7, <2>1, <2>2 DEF CallOK
<1>10. StackFree'
  BY <1>1, <1>6 DEF MInv, StackFree, Creating
<1>11. Walk(tables', call'.root, call'.v, 0) = g
  BY <1>1, <1>6 DEF g
<1>12. Loose = {} /\ Loose' = {}
  BY <1>1, <1>6, <1>11 DEF Loose, Growing
<1>13. LooseOK'
  <2>1. Single(call.frame)'
    BY <1>2, <1>4, <1>6 DEF Single
  <2> QED BY <1>1, <1>6, <1>7, <1>11, <2>1 DEF MInv, LooseOK
<1>14. PlacesOK'
  BY <1>1, <1>2, <1>8, <1>12 DEF MInv, PlacesOK
<1> QED BY <1>2, <1>7, <1>8, <1>9, <1>10, <1>13, <1>14 DEF MInv

\* Memory is out when elf_load or the stack's loop wants a page.
LEMMA TakePageFailsKeepsMInv ==
    ASSUME MInv, TakePageFails
    PROVE  MInv'
<1>1. /\ call.pc \in {"page", "stack"} /\ call.pc \in Creating
      /\ call' = [call EXCEPT !.pc = "undo"]
      /\ pmm_alloc_pages_fails(1)
      /\ UNCHANGED <<tables, space, kstack, next_virt, dropped>>
  BY DEF TakePageFails, Creating
<1>2. IInv' /\ UNCHANGED <<runs, reserved, booting>> /\ HeldPages' = HeldPages
  BY <1>1, PmmQuiet, LayoutFacts DEF MInv
<1>5. call \in CreateCall
  BY <1>1, CallShape DEF MInv
<1>6. /\ call' \in CreateCall /\ call'.pc = "undo"
      /\ call'.root = call.root /\ call'.base = call.base /\ call'.t = call.t
  BY <1>1, <1>5 DEF CreateCall, Creating
<1>7. /\ Live' = Live /\ Procs' = Procs /\ Roots' = Roots
      /\ BootOK' /\ SpaceOK' /\ StacksOK' /\ GrowOK'
      /\ \A f : Single(f) => Single(f)'
  <2>1. dropped' \subseteq Pages
    BY <1>1 DEF MInv, SpaceOK
  <2>2. call'.pc \in Creating
    BY <1>6 DEF Creating
  <2> QED BY <1>1, <1>2, <1>6, <2>1, <2>2, CreatingFrame
<1>8. AllNodes' = AllNodes /\ TablesOK' /\ LowOK' /\ TreeOK' /\ HeldOK'
  BY <1>1, <1>2, <1>7, SameTables
<1>9. CallOK'
  BY <1>5, <1>6, <1>7 DEF MInv, CallOK
<1>10. StackFree'
  BY <1>6 DEF StackFree
<1>11. Loose = {} /\ Loose' = {}
  BY <1>1, <1>6 DEF Loose, Growing
<1>12. LooseOK'
  BY <1>1, <1>6, <1>7 DEF MInv, LooseOK
<1>13. PlacesOK'
  BY <1>1, <1>2, <1>8, <1>11 DEF MInv, PlacesOK
<1> QED BY <1>2, <1>7, <1>8, <1>9, <1>10, <1>12, <1>13 DEF MInv

\* Memory is out when a table is needed.
LEMMA MapFailsKeepsMInv ==
    ASSUME MInv, MapFails
    PROVE  MInv'
<1>1. /\ call.pc \in Mapping /\ MissingLevel(MapRoot, call.v) # 0
      /\ pmm_alloc_pages_fails(1)
      /\ UNCHANGED <<tables, space, kstack, next_virt>>
  BY DEF MapFails
<1>2. IInv' /\ UNCHANGED <<runs, reserved, booting>> /\ HeldPages' = HeldPages
  BY <1>1, PmmQuiet, LayoutFacts DEF MInv
<1>3. call \in CreateCall
  BY <1>1, CallShape DEF MInv, Mapping, Creating
<1>4. CASE call.pc = "kmap"
  <2>1. call' = [call EXCEPT !.pc = "kundo"] /\ dropped' = dropped
    BY <1>4 DEF MapFails
  <2>2. /\ call' \in CreateCall /\ call'.pc = "kundo" /\ call'.v = call.v /\ call'.frame = call.frame
        /\ call'.root = call.root /\ call'.base = call.base /\ call'.t = call.t
    BY <1>3, <2>1 DEF CreateCall, Creating
  <2>3. /\ Live' = Live /\ Growing /\ Growing' /\ ~HasStack /\ ~HasStack' /\ RunStart' = RunStart
        /\ call.pc \notin Creating /\ call'.pc \notin Creating
    BY <1>1, <1>4, <2>2 DEF Live, Growing, HasStack, RunStart, Creating
  <2>4. Procs' = Procs
    BY <1>1, <2>3 DEF Procs
  <2>5. /\ AllNodes' = AllNodes /\ TablesOK' /\ LowOK' /\ TreeOK' /\ HeldOK'
        /\ \A f : Single(f) => Single(f)'
    BY <1>1, <1>2, <2>4, SameTables
  <2>6. Loose' = Loose
    BY <1>4, <2>2, <2>3 DEF Loose
  <2>7. BootOK' /\ CallOK' /\ StackFree' /\ SpaceOK'
    <3>1. ~booting
      BY <1>4 DEF MInv, BootOK, Idle
    <3>2. BootOK'
      BY <1>2, <3>1 DEF MInv, BootOK
    <3>3. CallOK'
      BY <1>3, <2>2, <2>3 DEF MInv, CallOK
    <3>4. StackFree' /\ SpaceOK'
      BY <1>1, <2>1, <2>3, <2>4, <2>5 DEF MInv, StackFree, SpaceOK
    <3> QED BY <3>2, <3>3, <3>4
  <2>8. StacksOK'
    BY <1>1, <1>2, <2>2, <2>3, StacksSame
  <2>9. GrowOK'
    BY <1>1, <1>2, <2>2, <2>3 DEF MInv, GrowOK
  <2>10. LooseOK'
    BY <2>1, <2>2, <2>5 DEF MInv, LooseOK
  <2>11. PlacesOK'
    BY <1>2, <2>1, <2>5, <2>6 DEF MInv, PlacesOK
  <2> QED BY <1>2, <2>5, <2>7, <2>8, <2>9, <2>10, <2>11 DEF MInv
<1>5. CASE call.pc # "kmap"
  <2>1. /\ call' = [call EXCEPT !.pc = "undo"] /\ dropped' = dropped \cup {call.frame}
        /\ call.pc \in {"map", "smap"} /\ call.pc \in Creating
    BY <1>1, <1>5 DEF MapFails, Mapping, Creating
  <2>2. /\ call' \in CreateCall /\ call'.pc = "undo"
        /\ call'.root = call.root /\ call'.base = call.base /\ call'.t = call.t
        /\ call.frame \in Pages
    BY <1>3, <2>1 DEF CreateCall, Creating
  <2>3. Single(call.frame)
    BY <2>1 DEF MInv, LooseOK
  <2>4. Walk(tables, call.root, call.v, 0) = NoFrame /\ call.frame # NoFrame
    <3>1. MapRoot = call.root /\ call.root # NoFrame
      BY <1>5, <2>1, CallRoot DEF MapRoot
    <3>2. Walk(tables, call.root, call.v, 1) = NoFrame
      BY <1>1, <3>1, MissingFacts
    <3> QED BY <2>3, <3>2, WalkZero, SingleFacts DEF MInv
  <2>5. Loose = {call.frame} /\ Loose' = {}
    BY <2>1, <2>2, <2>4 DEF Loose, Growing
  <2>7. /\ Live' = Live /\ Procs' = Procs /\ Roots' = Roots
        /\ BootOK' /\ SpaceOK' /\ StacksOK' /\ GrowOK'
        /\ \A f : Single(f) => Single(f)'
    <3>1. dropped' \subseteq Pages
      BY <2>1, <2>2 DEF MInv, SpaceOK
    <3>2. call'.pc \in Creating
      BY <2>2 DEF Creating
    <3> QED BY <1>1, <1>2, <2>1, <2>2, <3>1, <3>2, CreatingFrame
  <2>8. AllNodes' = AllNodes /\ TablesOK' /\ LowOK' /\ TreeOK' /\ HeldOK'
    BY <1>1, <1>2, <2>7, SameTables
  <2>9. CallOK'
    BY <1>3, <2>2, <2>7 DEF MInv, CallOK
  <2>10. StackFree'
    BY <2>2 DEF StackFree
  <2>11. LooseOK'
    <3>1. \A f \in dropped' : Single(f)
      BY <2>1, <2>3 DEF MInv, LooseOK
    <3> QED BY <2>2, <2>7, <3>1 DEF LooseOK
  <2>12. PlacesOK'
    BY <1>2, <2>1, <2>5, <2>8 DEF MInv, PlacesOK
  <2> QED BY <1>2, <2>7, <2>8, <2>9, <2>10, <2>11, <2>12 DEF MInv
<1> QED BY <1>4, <1>5

\* vmm_create_address_space fails: the kernel stack is given back.
LEMMA CreateSpaceFailsKeepsMInv ==
    ASSUME MInv, CreateSpaceFails
    PROVE  MInv'
<1>1. /\ call.pc = "dir" /\ call' = [pc |-> "kfree", base |-> call.base]
      /\ UNCHANGED pmmVars \/ pmm_alloc_pages_fails(1)
      /\ UNCHANGED <<tables, space, kstack, next_virt, dropped>>
  BY DEF CreateSpaceFails
<1>2. IInv' /\ UNCHANGED <<runs, reserved, booting>> /\ HeldPages' = HeldPages
  BY <1>1, PmmQuiet, LayoutFacts DEF MInv
<1>3. call.base \in Nat
  BY <1>1, CallShape DEF MInv
<1>4. call' \in StackCall /\ call'.pc = "kfree" /\ call'.base = call.base
  BY <1>1, <1>3 DEF StackCall
<1>5. /\ Live' = Live /\ HasStack /\ HasStack' /\ ~Growing /\ ~Growing'
      /\ call.pc \notin Creating /\ call'.pc \notin Creating
  BY <1>1, <1>4 DEF Live, HasStack, Growing, Creating
<1>6. Procs' = Procs
  BY <1>1, <1>5 DEF Procs
<1>7. /\ AllNodes' = AllNodes /\ TablesOK' /\ LowOK' /\ TreeOK' /\ HeldOK'
      /\ \A f : Single(f) => Single(f)'
  BY <1>1, <1>2, <1>6, SameTables
<1>8. ~booting
  BY <1>1 DEF MInv, BootOK, Idle
<1>9. BootOK'
  BY <1>2, <1>8 DEF MInv, BootOK
<1>10. CallOK'
  <2>1. call' \notin CreateCall
    BY <1>4 DEF CreateCall, Creating
  <2> QED BY <1>4, <2>1 DEF CallOK
<1>11. StackFree' /\ SpaceOK'
  BY <1>1, <1>5, <1>6, <1>7 DEF MInv, StackFree, SpaceOK
<1>12. StacksOK' /\ GrowOK'
  BY <1>1, <1>2, <1>4, <1>5, StacksSame DEF GrowOK
<1>13. LooseOK'
  BY <1>1, <1>4, <1>7 DEF MInv, LooseOK
<1>14. Loose = {} /\ Loose' = {}
  BY <1>1, <1>4, <1>5 DEF Loose
<1>15. PlacesOK'
  BY <1>1, <1>2, <1>7, <1>14 DEF MInv, PlacesOK
<1> QED BY <1>2, <1>7, <1>9, <1>10, <1>11, <1>12, <1>13, <1>15 DEF MInv

\* The process is complete.
LEMMA CreateReturnsKeepsMInv ==
    ASSUME MInv, task_create_user_returns
    PROVE  MInv'
<1>1. /\ call.pc = "args" /\ call.pc \in Creating /\ call' = Idle /\ UNCHANGED pmmVars
      /\ space' = [space EXCEPT ![call.t] = call.root]
      /\ kstack' = [kstack EXCEPT ![call.t] = call.base]
      /\ UNCHANGED <<tables, next_virt, dropped>>
  BY DEF task_create_user_returns, Creating
<1>2. IInv' /\ UNCHANGED <<runs, reserved, booting>> /\ HeldPages' = HeldPages
  BY <1>1, PmmQuiet DEF MInv
<1>3. /\ call \in CreateCall /\ call.t \in Slots /\ call.base \in Nat /\ call.root \in Pages
      /\ call.t \notin Live
  BY <1>1, CreatingCall DEF MInv
<1>4. call.root # NoFrame /\ Single(call.root)
  BY <1>1, CallRoot
<1>5. call'.pc = "idle" /\ ~HasStack' /\ ~Growing' /\ ~Growing /\ HasStack /\ call'.pc \notin Creating
  BY <1>1 DEF Idle, HasStack, Growing, Creating
<1>6. space \in [Slots -> Pages] /\ kstack \in [Slots -> Nat]
  BY DEF MInv, SpaceOK
<1>7. /\ Live' = Live \cup {call.t}
      /\ \A t \in Live : space'[t] = space[t] /\ kstack'[t] = kstack[t]
      /\ space'[call.t] = call.root /\ kstack'[call.t] = call.base
      /\ space' \in [Slots -> Pages] /\ kstack' \in [Slots -> Nat]
  BY <1>1, <1>3, <1>4, <1>6 DEF Live
<1>8. Procs' = Procs
  BY <1>1, <1>5, <1>7 DEF Procs
<1>9. /\ AllNodes' = AllNodes /\ TablesOK' /\ LowOK' /\ TreeOK' /\ HeldOK'
      /\ \A f : Single(f) => Single(f)'
  BY <1>1, <1>2, <1>8, SameTables
<1>10. ~booting
  BY <1>1 DEF MInv, BootOK, Idle
<1>11. BootOK' /\ StackFree' /\ GrowOK'
  BY <1>2, <1>5, <1>10 DEF MInv, BootOK, StackFree, GrowOK
<1>12. CallOK'
  <2>1. call' \notin CreateCall
    BY <1>5 DEF CreateCall, Creating
  <2> QED BY <1>1, <1>5, <2>1 DEF CallOK
<1>13. SpaceOK'
  <2>1. \A t, u \in Live' : space'[t] = space'[u] => t = u
    BY <1>1, <1>7 DEF MInv, SpaceOK
  <2>2. \A r \in Procs' : Single(r)
    BY <1>8 DEF MInv, SpaceOK
  <2>3. next_virt' \in WindowStart .. WindowEnd /\ dropped' \subseteq Pages
    BY <1>1 DEF MInv, SpaceOK
  <2> QED BY <1>5, <1>7, <1>9, <2>1, <2>2, <2>3 DEF SpaceOK
<1>14. StacksOK'
  <2>1. \A b : StackAt(tables', runs', next_virt', b) <=> StackAt(tables, runs, next_virt, b)
    BY <1>1, <1>2
  <2>2. \A t \in Live' : StackMapped(kstack[t])'
    BY <1>5, <1>7, <2>1 DEF MInv, StacksOK, StackMapped
  <2>4. \A t, u \in Live' : t # u => Apart(kstack'[t], kstack'[u])
    <3>1. \A t, u \in Live : t # u => Apart(kstack[t], kstack[u])
      BY DEF MInv, StacksOK
    <3>2. \A t \in Live : Apart(kstack[t], call.base) /\ Apart(call.base, kstack[t])
      BY <1>5 DEF MInv, StacksOK, Apart
    <3> QED BY <1>7, <3>1, <3>2
  <2>5. \A v \in Window : Walk(tables, KernelPml4, v, 0) # NoFrame =>
          \/ \E t \in Live : v \in kstack[t] .. kstack[t] + KStackPages - 1
          \/ v \in call.base .. call.base + KStackPages - 1
    BY <1>5 DEF MInv, StacksOK
  <2>6. \A v \in Window : Walk(tables', KernelPml4, v, 0) # NoFrame =>
          \E t \in Live' : v \in kstack'[t] .. kstack'[t] + KStackPages - 1
    BY <1>1, <1>7, <2>5
  <2> QED BY <1>5, <2>2, <2>4, <2>6 DEF StacksOK
<1>15. LooseOK'
  BY <1>1, <1>5, <1>9 DEF MInv, LooseOK
<1>16. Loose = {} /\ Loose' = {}
  BY <1>1, <1>5 DEF Loose
<1>17. PlacesOK'
  BY <1>1, <1>2, <1>9, <1>16 DEF MInv, PlacesOK
<1> QED BY <1>2, <1>9, <1>11, <1>12, <1>13, <1>14, <1>15, <1>17 DEF MInv

\* vmm_destroy_address_space gives the next frame back.
LEMMA FreeNextKeepsMInv ==
    ASSUME MInv, FreeNext
    PROVE  MInv'
<1>1. /\ call.pc = "free" /\ UNCHANGED <<tables, space, kstack, next_virt, dropped>>
  BY DEF FreeNext
<1>2. PICK p \in call.work :
        /\ pmm_free(Node(call.root, p[1], p[2]), 1)
        /\ call' = IF call.work # {p} THEN [call EXCEPT !.work = @ \ {p}]
                   ELSE [pc |-> "kfree", base |-> call.base]
  BY DEF FreeNext
<1>3. /\ call \in FreeCall /\ call.base \in Nat /\ call.root \in Pages
      /\ call.work \in SUBSET (UserPages \X (0 .. 4))
  BY <1>1, CallShape DEF MInv
<1>4. PICK g : g = Freed(p)
  OBVIOUS
<1>5. Node(call.root, p[1], p[2]) = g
  <2>1. p[2] \in 0 .. 4
    BY <1>3
  <2> QED BY <1>4, <2>1, NodeIsWalk DEF Freed
<1>6. /\ Single(g)
      /\ \A q \in call.work : q # p => Freed(q) # g
      /\ \A q \in call.work : Single(Freed(q))
  BY <1>1, <1>4 DEF MInv, LooseOK
<1>7. /\ IInv' /\ runs' = runs \ {[page |-> g, count |-> 1]}
      /\ HeldPages' = HeldPages \ {g} /\ UNCHANGED <<reserved, booting>>
  <2>1. g \in Nat
    BY <1>6, SingleFacts DEF MInv
  <2> QED BY <1>2, <1>5, <1>6, <2>1, FreeTakes, RunOne DEF MInv, Single
<1>8. \A f : Single(f) /\ f # g => Single(f)'
  BY <1>7 DEF Single
<1>9. g \in Loose /\ g \notin AllNodes /\ g \notin dropped /\ g \in Pages \ {NoFrame}
  <2>1. g \in Loose
    BY <1>1, <1>4 DEF Loose
  <2> QED BY <1>6, <2>1, SingleFacts DEF MInv, PlacesOK
<1>10. ~InTree(tables, Roots, g)
  BY <1>9 DEF AllNodes
<1>11. /\ ~Growing /\ ~Growing' /\ HasStack /\ HasStack' /\ call.pc \notin Creating
       /\ call'.pc \notin Creating /\ call'.base = call.base
       /\ call'.pc \in {"free", "kfree"}
       /\ call'.pc = "free" =>
            call' \in FreeCall /\ call'.work = call.work \ {p} /\ call'.root = call.root
       /\ call'.pc = "kfree" => call' \in StackCall /\ call.work = {p}
  <2>1. CASE call.work # {p}
    <3>1. call' = [call EXCEPT !.work = @ \ {p}]
      BY <1>2, <2>1
    <3>2. /\ call'.pc = "free" /\ call'.base = call.base /\ call'.root = call.root
          /\ call'.work = call.work \ {p} /\ call' \in FreeCall
      BY <1>3, <3>1 DEF FreeCall
    <3> QED BY <1>1, <3>2 DEF Growing, HasStack, Creating
  <2>2. CASE call.work = {p}
    <3>1. call' = [pc |-> "kfree", base |-> call.base]
      BY <1>2, <2>2
    <3>2. call'.pc = "kfree" /\ call'.base = call.base /\ call' \in StackCall
      BY <1>3, <3>1 DEF StackCall
    <3> QED BY <1>1, <2>2, <3>2 DEF Growing, HasStack, Creating
  <2> QED BY <2>1, <2>2
<1>12. /\ Live' = Live /\ Procs' = Procs /\ Roots' = Roots /\ AllNodes' = AllNodes
  BY <1>1, <1>11 DEF Live, Procs, Roots, AllNodes
<1>13. TablesOK' /\ LowOK' /\ TreeOK'
  BY <1>1, <1>12 DEF MInv, TablesOK, LowOK, TreeOK
<1>14. \A r \in Roots : \A v \in Dom(r), l \in 0 .. 4 : Walk(tables, r, v, l) # g
  BY <1>10 DEF InTree
<1>15. \A r \in Procs : r \in Roots /\ Dom(r) = UserPages /\ Single(r) /\ r # g
  <2>1. \A r \in Procs : r \in Roots /\ Dom(r) = UserPages /\ Single(r)
    BY RootsFacts
  <2>2. UserPages # {}
    BY LayoutFacts DEF UserStack
  <2> QED BY <1>14, <2>1, <2>2, WalkTop
<1>16. HeldOK'
  <2>1. ASSUME NEW r \in Procs, NEW v \in UserPages, NEW l \in 0 .. 3,
               Walk(tables, r, v, l) # NoFrame
        PROVE  Single(Walk(tables, r, v, l)) /\ Walk(tables, r, v, l) # g
    <3>1. l \in 0 .. 4
      OBVIOUS
    <3> QED BY <1>14, <1>15, <2>1, <3>1 DEF MInv, HeldOK
  <2>2. ASSUME NEW v \in Window, NEW l \in 1 .. 3,
               Walk(tables, KernelPml4, v, l) # NoFrame
        PROVE  /\ Walk(tables, KernelPml4, v, l) # g
               /\ \/ Single(Walk(tables, KernelPml4, v, l))
                  \/ l = 3 /\ Walk(tables, KernelPml4, v, l) \in BootPages
    <3>1. l \in 0 .. 4
      OBVIOUS
    <3> QED BY <1>14, <2>2, <3>1, RootsFacts DEF MInv, HeldOK
  <2> QED BY <1>1, <1>8, <1>12, <2>1, <2>2 DEF HeldOK, Single
<1>17. SpaceOK'
  BY <1>1, <1>8, <1>11, <1>12, <1>15 DEF MInv, SpaceOK
<1>18. ~booting
  BY <1>1 DEF MInv, BootOK, Idle
<1>19. BootOK' /\ StackFree' /\ GrowOK'
  BY <1>7, <1>11, <1>18 DEF MInv, BootOK, StackFree, GrowOK
<1>20. CallOK'
  <2>1. call' \notin CreateCall
    BY <1>11 DEF CreateCall
  <2> QED BY <1>11, <2>1 DEF CallOK
<1>21. StacksOK'
  <2>1. next_virt \in Nat /\ next_virt' = next_virt
    BY <1>1, LayoutFacts DEF MInv, SpaceOK
  <2>2. ASSUME NEW b \in Nat, StackMapped(b) PROVE StackMapped(b)'
    <3>1. b \in Window
      BY <2>2, StackInWindow, LayoutFacts DEF StackMapped, StackAt
    <3>2. Walk(tables, KernelPml4, b, 0) # g
      BY <1>14, <3>1, RootsFacts
    <3>3. \A q : /\ [page |-> q, count |-> KStackPages] \in runs
                 /\ Walk(tables, KernelPml4, b, 0) = q
                 => [page |-> q, count |-> KStackPages] \in runs'
      BY <1>7, <3>2
    <3> QED BY <1>1, <2>1, <2>2, <3>3, StackKept
  <2>3. \A b \in Nat : StackAt(tables, runs, next_virt, b) => StackAt(tables', runs', next_virt', b)
    BY <2>2 DEF StackMapped
  <2>4. \A t \in Live : kstack[t] \in Nat /\ StackAt(tables, runs, next_virt, kstack[t])
    BY DEF MInv, StacksOK, SpaceOK, Live, StackMapped
  <2>5. call.base \in Nat /\ StackAt(tables, runs, next_virt, call.base)
    BY <1>3, <1>11 DEF MInv, StacksOK, StackMapped
  <2>6. /\ \A t \in Live : StackMapped(kstack[t])'
        /\ StackMapped(call.base)'
    BY <1>1, <1>11, <2>3, <2>4, <2>5 DEF StackMapped
  <2> QED BY <1>1, <1>11, <1>12, <2>6 DEF MInv, StacksOK, Apart
<1>22. \A q : call'.pc = "free" => Freed(q)' = Freed(q)
  BY <1>1, <1>11 DEF Freed
<1>23. LooseOK'
  <2>1. \A f \in dropped : Single(f)'
    BY <1>8, <1>9 DEF MInv, LooseOK
  <2>2. call'.pc = "free" => \A q \in call'.work : q \in call.work /\ Freed(q) # g /\ Single(Freed(q))
    BY <1>6, <1>11
  <2>3. call'.pc = "free" => \A q \in call'.work : Single(Freed(q))'
    BY <1>8, <1>22, <2>2 DEF Single
  <2>4. call'.pc = "free" =>
          \A q, s \in call'.work : Freed(q)' = Freed(s)' => q = s
    BY <1>1, <1>22, <2>2 DEF MInv, LooseOK
  <2> QED BY <1>1, <1>11, <2>1, <2>3, <2>4 DEF LooseOK
<1>24. Loose' = Loose \ {g}
  <2>1. Loose = {Freed(q) : q \in call.work}
    BY <1>1, <1>11 DEF Loose
  <2>2. Loose' = IF call'.pc = "free" THEN {Freed(q)' : q \in call'.work} ELSE {}
    BY <1>11 DEF Loose
  <2>3. CASE call'.pc = "free"
    BY <1>4, <1>6, <1>11, <1>22, <2>1, <2>2, <2>3
  <2>4. CASE call'.pc = "kfree"
    BY <1>4, <1>11, <2>1, <2>2, <2>4
  <2> QED BY <1>11, <2>3, <2>4
<1>25. PlacesOK'
  BY <1>1, <1>7, <1>9, <1>12, <1>24 DEF MInv, PlacesOK
<1> QED BY <1>7, <1>13, <1>16, <1>17, <1>19, <1>20, <1>21, <1>23, <1>25 DEF MInv

-----------------------------------------------------------------------------
(* Steps that change page tables.                                          *)

\* The page that is being mapped, and in whose tables.
LEMMA MapTarget ==
    ASSUME MInv, call.pc \in Mapping
    PROVE  /\ MapRoot \in Roots /\ MapRoot # NoFrame /\ call.v \in Dom(MapRoot)
           /\ call.pc = "kmap" => MapRoot = KernelPml4 /\ call.v \in Window
           /\ call.pc # "kmap" =>
                MapRoot = call.root /\ call.root \in Procs /\ call.v \in UserPages
           /\ MapFlags \subseteq {"present", "write", "user", "huge"}
           /\ "present" \in MapFlags /\ "huge" \notin MapFlags
<1>1. CASE call.pc = "kmap"
  <2>1. call.base \in WindowStart .. next_virt - KStackPages
        /\ call.v \in call.base .. call.base + KStackPages - 1
    BY <1>1 DEF MInv, GrowOK, Growing
  <2>2. call.v \in Window
    BY <2>1, StackInWindow
  <2> QED BY <1>1, <2>2, RootsFacts DEF MapRoot, MapFlags
<1>2. CASE call.pc # "kmap"
  <2>1. call.pc \in {"map", "smap"} /\ call.pc \in Creating
    BY <1>2 DEF Mapping, Creating
  <2>2. call.v \in UserPages
    BY <2>1, PageOfUser DEF MInv
  <2> QED BY <1>2, <2>1, <2>2, CallRoot DEF MapRoot, MapFlags
<1> QED BY <1>1, <1>2

\* A root is nowhere else in the forest.
LEMMA RootNode ==
    ASSUME MInv, NEW r \in Roots, NEW s \in Roots, NEW a \in Dom(s), NEW m \in 0 .. 4,
           Walk(tables, s, a, m) = r
    PROVE  s = r /\ m = 4
<1>1. r # NoFrame /\ Unique(tables, Roots)
  BY RootsFacts DEF MInv, TreeOK
<1>2. 4 \in 0 .. 4
  OBVIOUS
<1>3. CASE r \in Procs
  <2>1. PICK w : w \in Dom(r)
    BY <1>3, RootsFacts, LayoutFacts DEF UserStack
  <2>2. Walk(tables, r, w, 4) = r
    BY WalkTop
  <2> QED BY <1>1, <1>2, <2>1, <2>2, UniqueUse
<1>4. CASE r = KernelPml4
  <2>1. CASE s = KernelPml4
    <3>1. a \in Dom(r) /\ Walk(tables, r, a, 4) = r
      BY <1>4, <2>1, WalkTop
    <3> QED BY <1>1, <1>2, <3>1, UniqueUse
  <2>2. CASE s \in Procs
    <3>1. a \in UserPages /\ Single(s)
      BY <2>2, RootsFacts
    <3>2. Single(r)
      <4>1. CASE m = 4
        BY <3>1, <4>1, WalkTop
      <4>2. CASE m # 4
        <5>1. m \in 0 .. 3
          BY <4>2
        <5> QED BY <1>1, <2>2, <3>1, <5>1 DEF MInv, HeldOK
      <4> QED BY <4>1, <4>2
    <3> QED BY <1>4, <3>2, SingleFacts DEF MInv
  <2> QED BY <2>1, <2>2 DEF Roots
<1> QED BY <1>3, <1>4 DEF Roots

\* Entry j of table f, on the way to page a, is none that processes share.
LEMMA EntryNotShared ==
    ASSUME MInv, NEW s \in Roots, NEW a \in Dom(s), NEW m \in 1 .. 4
    PROVE  /\ Walk(tables, s, a, m) = KernelPml4 => Index(a, m) >= KernelHalf /\ Index(a, m) \in Nat
           /\ \A r \in Procs : Walk(tables, s, a, m) = r => Index(a, m) \in 1 .. KernelHalf - 1
<1>1. m \in 0 .. 4
  OBVIOUS
<1>2. ASSUME Walk(tables, s, a, m) = KernelPml4
      PROVE  Index(a, m) >= KernelHalf /\ Index(a, m) \in Nat
  <2>1. s = KernelPml4 /\ m = 4
    BY <1>1, <1>2, RootNode, RootsFacts
  <2> QED BY <2>1, WindowIndex, RootsFacts, EntriesFacts
<1>3. ASSUME NEW r \in Procs, Walk(tables, s, a, m) = r
      PROVE  Index(a, m) \in 1 .. KernelHalf - 1
  <2>1. s = r /\ m = 4
    BY <1>1, <1>3, RootNode, RootsFacts
  <2> QED BY <2>1, UserIndex, RootsFacts
<1> QED BY <1>2, <1>3

\* The pages stay where they are, the call goes on.
LEMMA SameLeaves ==
    ASSUME MInv, IInv', call' = call, call.pc # "free", runs \subseteq runs',
           UNCHANGED <<reserved, booting, space, kstack, next_virt, dropped>>,
           \A r \in Roots : \A v \in Dom(r) : Walk(tables', r, v, 0) = Walk(tables, r, v, 0)
    PROVE  /\ Procs' = Procs /\ Roots' = Roots /\ Loose' = Loose
           /\ BootOK' /\ CallOK' /\ StackFree' /\ SpaceOK' /\ StacksOK' /\ GrowOK' /\ LooseOK'
           /\ \A f : Single(f) => Single(f)'
<1>1. Live' = Live /\ Procs' = Procs /\ Roots' = Roots
  BY DEF Live, Procs, Roots
<1>2. \A f : Single(f) => Single(f)'
  BY DEF Single
<1>3. (Growing' <=> Growing) /\ (HasStack' <=> HasStack) /\ RunStart' = RunStart
  BY DEF Growing, HasStack, RunStart
<1>4. BootOK' /\ CallOK' /\ SpaceOK'
  BY <1>1, <1>2 DEF MInv, BootOK, CallOK, SpaceOK
<1>5. call.pc \in Creating => \A u \in UserPages :
         Walk(tables', call.root, u, 0) = Walk(tables, call.root, u, 0)
  BY CallRoot
<1>6. StackFree'
  BY <1>5, LayoutFacts DEF MInv, StackFree
<1>7. \A u \in Window : Walk(tables', KernelPml4, u, 0) = Walk(tables, KernelPml4, u, 0)
  BY RootsFacts
<1>8. StacksOK'
  BY <1>3, <1>7, StacksSame
<1>9. GrowOK'
  <2>1. ASSUME Growing, NEW i \in 0 .. call.v - call.base - 1 PROVE call.base + i \in Window
    <3>1. call.base \in WindowStart .. next_virt - KStackPages
          /\ call.v \in call.base .. call.base + KStackPages - 1
      BY <2>1 DEF MInv, GrowOK
    <3>2. call.base \in Nat /\ call.v \in Nat
      BY <3>1, StackInWindow, LayoutFacts
    <3>3. i \in 0 .. KStackPages - 1
      BY <3>1, <3>2, LayoutFacts
    <3> QED BY <3>1, <3>3, StackInWindow
  <2> QED BY <1>3, <1>7, <2>1 DEF MInv, GrowOK
<1>10. call.pc \in {"map", "smap"} =>
         Walk(tables', call.root, call.v, 0) = Walk(tables, call.root, call.v, 0)
  BY <1>5, PageOfUser DEF Creating, MInv
<1>11. LooseOK' /\ Loose' = Loose
  BY <1>2, <1>3, <1>10 DEF MInv, LooseOK, Loose
<1> QED BY <1>1, <1>2, <1>4, <1>6, <1>8, <1>9, <1>11

\* get_or_create_table links frame g, which nobody held, at level k on the way
\* from PML4 s to page a: entry j of frame f.
TableLinked(g, s, a, k, f, j) ==
    /\ s = MapRoot /\ a = call.v /\ f = Walk(tables, s, a, k + 1) /\ j = Index(a, k + 1)
    /\ call.pc \in Mapping /\ call' = call /\ UNCHANGED <<space, kstack, next_virt, dropped>>
    /\ s \in Roots /\ s # NoFrame /\ a \in Dom(s)
    /\ "present" \in MapFlags /\ "huge" \notin MapFlags
    /\ k \in 1 .. 3 /\ Walk(tables, s, a, k) = NoFrame /\ f # NoFrame
    /\ IInv' /\ g \in Pages
    /\ runs' = runs \cup {[page |-> g, count |-> 1]}
    /\ HeldPages' = HeldPages \cup {g}
    /\ {g} \cap HeldPages = {} /\ {g} \cap ReservedPages = {}
    /\ UNCHANGED <<reserved, booting>>
    /\ ~InTree(tables, Roots, g) /\ g # NoFrame /\ g # KernelPml4 /\ g \notin BootPages
    /\ g \notin AllNodes /\ g \notin Loose /\ g \notin dropped
    /\ j \in Entries /\ f \in Pages /\ f # g
    /\ tables' \in [Pages -> [Entries -> Entry]]
    /\ tables'[g] = Cleared
    /\ tables'[f][j] = [phys |-> g, flags |-> MapFlags]
    /\ \A n \in Pages, i \in Entries : n # g /\ ~(n = f /\ i = j) => tables'[n][i] = tables[n][i]
    /\ \A r \in Roots : \A v \in Dom(r), l \in 0 .. 4 :
          Walk(tables', r, v, l) = IF r = s /\ l <= k /\ Area(v, k) = Area(a, k)
                                   THEN IF l = k THEN g ELSE NoFrame
                                   ELSE Walk(tables, r, v, l)

\* That is what it does.
LEMMA TableCreated ==
    ASSUME MInv, get_or_create_table
    PROVE  \E g, s, a, k, f, j : TableLinked(g, s, a, k, f, j)
<1> USE LayoutFacts
<1>0. PICK g : g = Got
  OBVIOUS
<1> DEFINE s == MapRoot
           a == call.v
           k == MissingLevel(s, a)
           f == Walk(tables, s, a, k + 1)
           j == Index(a, k + 1)
           e == [phys |-> g, flags |-> MapFlags]
<1>1. /\ call.pc \in Mapping /\ k # 0 /\ pmm_alloc_pages(1) /\ call' = call
      /\ UNCHANGED <<space, kstack, next_virt, dropped>>
  BY DEF get_or_create_table
<1>2. /\ s \in Roots /\ s # NoFrame /\ a \in Dom(s)
      /\ MapFlags \subseteq {"present", "write", "user", "huge"}
      /\ "present" \in MapFlags /\ "huge" \notin MapFlags
  BY <1>1, MapTarget
<1>3. k \in 1 .. 3 /\ Walk(tables, s, a, k) = NoFrame /\ f # NoFrame
  BY <1>1, <1>2, MissingFacts
<1>4. k + 1 \in 1 .. 4 /\ k + 1 \in 0 .. 4 /\ k \in 0 .. 3 /\ k \in 0 .. 4
  BY <1>3
<1>5. tables' = [tables EXCEPT ![g] = Cleared, ![f][j] = e]
  <2>1. Path(s, a)[k + 1] = f
    BY <1>4, PathIsWalk
  <2> QED BY <1>0, <2>1 DEF get_or_create_table
<1>6. /\ IInv' /\ g \in Pages
      /\ runs' = runs \cup {[page |-> g, count |-> 1]}
      /\ Run(g, 1) \cap HeldPages = {} /\ Run(g, 1) \cap ReservedPages = {}
      /\ HeldPages' = HeldPages \cup Run(g, 1)
      /\ UNCHANGED <<reserved, booting>>
  BY <1>0, <1>1, AllocGives DEF MInv
<1>7. Run(g, 1) = {g} /\ {g} \subseteq Pages
  BY <1>6, RunOne, TotalPagesPositive DEF Pages
<1>8. /\ ~InTree(tables, Roots, g) /\ g # NoFrame /\ g # KernelPml4 /\ g \notin BootPages
      /\ g \notin AllNodes /\ g \notin Loose /\ g \notin dropped
  BY <1>6, <1>7, FreshFacts
<1>9. TypedTables(tables) /\ Unique(tables, Roots) /\ Roots \subseteq Pages
  BY RootsFacts DEF MInv, TablesOK, TreeOK
<1>10. a \in Nat /\ a \in AllPages /\ j \in Entries /\ f \in Pages /\ f # g
  <2>1. a \in Nat /\ a \in AllPages /\ j \in Entries
    BY <1>2, <1>4, DomFacts
  <2>2. f \in Pages
    BY <1>2, <1>4, <1>9, <2>1, WalkTyped
  <2> QED BY <1>2, <1>4, <1>8, <2>1, <2>2 DEF InTree
<1>11. Cleared \in [Entries -> Entry] /\ e \in Entry /\ NoEntry \in Entry
  BY <1>2, <1>6, ZeroPage DEF Cleared, Entry, NoEntry
<1> HIDE DEF s, a, k, f, j, e
<1>12. /\ tables' \in [Pages -> [Entries -> Entry]]
       /\ tables'[g] = Cleared
       /\ tables'[f][j] = e
       /\ \A n \in Pages, i \in Entries :
             n # g /\ ~(n = f /\ i = j) => tables'[n][i] = tables[n][i]
  <2> DEFINE t1 == [tables EXCEPT ![g] = Cleared]
  <2>1. t1 \in [Pages -> [Entries -> Entry]] /\ t1[g] = Cleared
        /\ \A n \in Pages : n # g => t1[n] = tables[n]
    BY <1>6, <1>9, <1>11 DEF TypedTables
  <2>2. tables' = [t1 EXCEPT ![f][j] = e]
    BY <1>5
  <2> HIDE DEF t1
  <2> QED BY <1>10, <1>11, <2>1, <2>2
<1>13. ASSUME NEW r \in Roots, NEW v \in Dom(r), NEW l \in 0 .. 4
       PROVE  Walk(tables', r, v, l) =
                 IF r = s /\ l <= k /\ Area(v, k) = Area(a, k)
                 THEN IF l = k THEN g ELSE NoFrame
                 ELSE Walk(tables, r, v, l)
  <2>1. Walk(tables, s, a, k) = NoFrame /\ Walk(tables, s, a, k + 1) # NoFrame
    BY <1>3 DEF f
  <2>2. tables'[Walk(tables, s, a, k + 1)][Index(a, k + 1)] = [phys |-> g, flags |-> MapFlags]
    BY <1>12 DEF f, j, e
  <2>3. \A n \in Pages, i \in Entries :
            n # g /\ ~(n = Walk(tables, s, a, k + 1) /\ i = Index(a, k + 1))
              => tables'[n][i] = tables[n][i]
    BY <1>12 DEF f, j
  <2>4. g \in Pages \ {NoFrame} /\ Roots \in SUBSET Pages /\ tables'[g] = Cleared
    BY <1>6, <1>8, <1>9, <1>12
  <2> QED BY <1>2, <1>3, <1>8, <1>9, <2>1, <2>2, <2>3, <2>4, TableAdded
<1>14. e = [phys |-> g, flags |-> MapFlags]
  BY DEF e
<1>15. \A r \in Roots : \A v \in Dom(r), l \in 0 .. 4 :
          Walk(tables', r, v, l) = IF r = s /\ l <= k /\ Area(v, k) = Area(a, k)
                                   THEN IF l = k THEN g ELSE NoFrame
                                   ELSE Walk(tables, r, v, l)
  BY <1>13
<1>16. s = MapRoot /\ a = call.v /\ f = Walk(tables, s, a, k + 1) /\ j = Index(a, k + 1)
  BY DEF s, a, f, j
<1>17. TableLinked(g, s, a, k, f, j)
  BY <1>1, <1>2, <1>3, <1>6, <1>7, <1>8, <1>10, <1>12, <1>14, <1>15, <1>16 DEF TableLinked
<1> QED BY <1>17

\* A table is added on the way to the page that is being mapped.
LEMMA CreateTableKeepsMInv ==
    ASSUME MInv, get_or_create_table
    PROVE  MInv'
<1> USE LayoutFacts
<1>0. PICK g, s, a, k, f, j : TableLinked(g, s, a, k, f, j)
  BY TableCreated
<1>1. /\ call.pc \in Mapping /\ call' = call
      /\ UNCHANGED <<space, kstack, next_virt, dropped>>
  BY <1>0 DEF TableLinked
<1>2. /\ s \in Roots /\ s # NoFrame /\ a \in Dom(s)
      /\ "present" \in MapFlags /\ "huge" \notin MapFlags
  BY <1>0 DEF TableLinked
<1>3. k \in 1 .. 3 /\ Walk(tables, s, a, k) = NoFrame /\ f # NoFrame
      /\ f = Walk(tables, s, a, k + 1) /\ j = Index(a, k + 1)
  BY <1>0 DEF TableLinked
<1>4. k + 1 \in 1 .. 4 /\ k + 1 \in 0 .. 4 /\ k \in 0 .. 3 /\ k \in 0 .. 4
  BY <1>3
<1>6. /\ IInv' /\ g \in Pages
      /\ runs' = runs \cup {[page |-> g, count |-> 1]}
      /\ HeldPages' = HeldPages \cup {g} /\ {g} \cap HeldPages = {}
      /\ UNCHANGED <<reserved, booting>>
  BY <1>0 DEF TableLinked
<1>8. /\ ~InTree(tables, Roots, g) /\ g # NoFrame /\ g # KernelPml4 /\ g \notin BootPages
      /\ g \notin AllNodes /\ g \notin Loose /\ g \notin dropped
  BY <1>0 DEF TableLinked
<1>9. TypedTables(tables) /\ Unique(tables, Roots) /\ Roots \subseteq Pages
  BY RootsFacts DEF MInv, TablesOK, TreeOK
<1>10. a \in Nat /\ a \in AllPages /\ j \in Entries /\ f \in Pages /\ f # g
  BY <1>0, <1>2, DomFacts DEF TableLinked
<1>12. /\ tables' \in [Pages -> [Entries -> Entry]]
       /\ tables'[g] = Cleared
       /\ tables'[f][j] = [phys |-> g, flags |-> MapFlags]
       /\ \A n \in Pages, i \in Entries :
             n # g /\ ~(n = f /\ i = j) => tables'[n][i] = tables[n][i]
  BY <1>0 DEF TableLinked
<1>13. ASSUME NEW r \in Roots, NEW v \in Dom(r), NEW l \in 0 .. 4
       PROVE  Walk(tables', r, v, l) =
                 IF r = s /\ l <= k /\ Area(v, k) = Area(a, k)
                 THEN IF l = k THEN g ELSE NoFrame
                 ELSE Walk(tables, r, v, l)
  BY <1>0 DEF TableLinked
<1>14. ASSUME NEW r \in Roots, NEW v \in Dom(r), NEW l \in 0 .. 4
       PROVE  /\ Walk(tables, r, v, l) # NoFrame => Walk(tables', r, v, l) = Walk(tables, r, v, l)
              /\ Walk(tables', r, v, l) \in {NoFrame, g, Walk(tables, r, v, l)}
              /\ Walk(tables', r, v, l) = g => l = k
  <2>1. CASE r = s /\ l <= k /\ Area(v, k) = Area(a, k)
    <3>1. v \in Nat
      BY DomFacts
    <3>2. k \in k .. 4 /\ l \in 0 .. k
      BY <1>4, <2>1
    <3>3. Walk(tables, s, v, k) = Walk(tables, s, a, k)
      BY <1>4, <1>10, <2>1, <3>1, <3>2, WalkArea
    <3>4. Walk(tables, s, v, k) = NoFrame
      BY <1>3, <3>3
    <3>5. Walk(tables, r, v, l) = NoFrame
      BY <1>4, <2>1, <3>2, <3>4, WalkZero
    <3> QED BY <1>8, <1>13, <2>1, <3>5
  <2>2. CASE ~(r = s /\ l <= k /\ Area(v, k) = Area(a, k))
    <3>1. Walk(tables, r, v, l) # g
      BY <1>8 DEF InTree
    <3> QED BY <1>13, <2>2, <3>1
  <2> QED BY <2>1, <2>2
<1>15. TreeOK' /\ Roots' = Roots /\ Procs' = Procs
  <2>1. Roots' = Roots /\ Procs' = Procs
    BY <1>1 DEF Roots, Procs, Live
  <2>2. Unique(tables', Roots)
    BY <1>2, <1>3, <1>8, <1>9, <1>13, AddedUnique
  <2> QED BY <2>1, <2>2 DEF TreeOK
<1>16. \A r \in Roots : \A v \in Dom(r) : Walk(tables', r, v, 0) = Walk(tables, r, v, 0)
  <2>1. 0 \in 0 .. 4 /\ k # 0
    BY <1>3
  <2> QED BY <1>14, <2>1
<1>17. /\ Loose' = Loose /\ BootOK' /\ CallOK' /\ StackFree' /\ SpaceOK' /\ StacksOK' /\ GrowOK'
       /\ LooseOK' /\ \A n : Single(n) => Single(n)'
  <2>1. call.pc # "free" /\ runs \subseteq runs'
    BY <1>1, <1>6 DEF Mapping
  <2> QED BY <1>1, <1>6, <1>16, <2>1, SameLeaves
<1>18. AllNodes' = AllNodes \cup {g}
  <2>1. ASSUME NEW n, InTree(tables, Roots, n), n # NoFrame PROVE InTree(tables', Roots, n)
    BY <1>14, <2>1 DEF InTree
  <2>2. InTree(tables', Roots, g)
    <3>1. Walk(tables', s, a, k) = g
      BY <1>2, <1>4, <1>13
    <3> QED BY <1>2, <1>4, <3>1 DEF InTree
  <2>3. ASSUME NEW n, InTree(tables', Roots, n), n # NoFrame, n # g PROVE InTree(tables, Roots, n)
    BY <1>14, <2>3 DEF InTree
  <2> QED BY <1>6, <1>8, <1>15, <2>1, <2>2, <2>3 DEF AllNodes
<1>19. TablesOK'
  <2>1. \A n \in Pages, i \in Entries :
           /\ IsTable(tables[n][i]) => tables[n][i].phys # NoFrame
           /\ "huge" \in tables[n][i].flags => n \in BootPages \ {KernelPml4}
    BY DEF MInv, TablesOK
  <2>2. ~Present(NoEntry) /\ "huge" \notin NoEntry.flags /\ ~IsTable(NoEntry)
    BY DEF Present, NoEntry, IsTable
  <2>3. tables'[f][j].phys = g /\ tables'[f][j].flags = MapFlags
    BY <1>12
  <2>4. ASSUME NEW n \in Pages, NEW i \in Entries
        PROVE  /\ IsTable(tables'[n][i]) => tables'[n][i].phys # NoFrame
               /\ "huge" \in tables'[n][i].flags => n \in BootPages \ {KernelPml4}
    <3>1. CASE n = g
      <4>1. tables'[n][i] = NoEntry
        BY <1>12, <3>1 DEF Cleared
      <4> QED BY <2>2, <4>1
    <3>2. CASE n = f /\ i = j
      BY <1>2, <1>8, <1>12, <2>3, <3>2
    <3>3. CASE n # g /\ ~(n = f /\ i = j)
      BY <1>12, <2>1, <3>3
    <3> QED BY <3>1, <3>2, <3>3
  <2> QED BY <1>12, <2>4 DEF TablesOK, TypedTables
<1>20. LowOK'
  <2>1. /\ f = KernelPml4 => j >= KernelHalf /\ j \in Nat
        /\ \A r \in Procs : f = r => j \in 1 .. KernelHalf - 1
    BY <1>2, <1>3, <1>4, EntryNotShared
  <2>2. KernelPml4 \in Pages /\ KernelPml4 # g /\ KernelHalf \in Nat
        /\ \A i \in 0 .. KernelHalf - 1 : i \in Entries
    BY <1>8, RootsFacts, KernelHalfFacts, EntriesFacts, SpanFacts DEF Levels
  <2>3. ASSUME NEW i \in 0 .. KernelHalf - 1 PROVE tables'[KernelPml4][i] = BootTables[KernelPml4][i]
    <3>1. tables[KernelPml4][i] = BootTables[KernelPml4][i]
      BY DEF MInv, LowOK
    <3>2. ~(KernelPml4 = f /\ i = j)
      BY <2>1, <2>2
    <3> QED BY <1>12, <2>2, <3>1, <3>2
  <2>4. ASSUME NEW r \in Procs PROVE tables'[r][0] = BootTables[KernelPml4][0]
    <3>1. tables[r][0] = BootTables[KernelPml4][0] /\ r \in Pages /\ r # g
      BY <1>6, RootsFacts, SingleFacts DEF MInv, LowOK
    <3>2. ~(r = f /\ 0 = j) /\ 0 \in Entries
      BY <2>1, EntriesFacts
    <3> QED BY <1>12, <3>1, <3>2
  <2> QED BY <1>15, <2>3, <2>4 DEF LowOK
<1>21. HeldOK'
  <2>1. \A n : n = g \/ Single(n) => [page |-> n, count |-> 1] \in runs'
    BY <1>6 DEF Single
  <2>2. ASSUME NEW r \in Procs, NEW v \in UserPages, NEW l \in 0 .. 3,
               Walk(tables', r, v, l) # NoFrame
        PROVE  [page |-> Walk(tables', r, v, l), count |-> 1] \in runs'
    <3>1. l \in 0 .. 4 /\ r \in Roots /\ v \in Dom(r)
      BY RootsFacts
    <3>2. Walk(tables', r, v, l) = g \/ Walk(tables', r, v, l) = Walk(tables, r, v, l)
      BY <1>14, <2>2, <3>1
    <3>3. Walk(tables, r, v, l) # NoFrame => Single(Walk(tables, r, v, l))
      BY DEF MInv, HeldOK
    <3> QED BY <2>1, <2>2, <3>2, <3>3
  <2>3. ASSUME NEW v \in Window, NEW l \in 1 .. 3, Walk(tables', KernelPml4, v, l) # NoFrame
        PROVE  \/ [page |-> Walk(tables', KernelPml4, v, l), count |-> 1] \in runs'
               \/ l = 3 /\ Walk(tables', KernelPml4, v, l) \in BootPages
    <3> DEFINE n == Walk(tables, KernelPml4, v, l)
    <3>1. l \in 0 .. 4 /\ KernelPml4 \in Roots /\ v \in Dom(KernelPml4)
      BY RootsFacts
    <3>2. Walk(tables', KernelPml4, v, l) = g \/ Walk(tables', KernelPml4, v, l) = n
      BY <1>14, <2>3, <3>1
    <3>3. n # NoFrame => Single(n) \/ (l = 3 /\ n \in BootPages)
      BY DEF MInv, HeldOK
    <3> QED BY <2>1, <2>3, <3>2, <3>3
  <2> QED BY <1>15, <2>2, <2>3 DEF HeldOK, Single
<1>22. PlacesOK'
  BY <1>1, <1>6, <1>8, <1>17, <1>18 DEF MInv, PlacesOK
<1> QED BY <1>6, <1>15, <1>17, <1>19, <1>20, <1>21, <1>22 DEF MInv

\* The run that becomes a kernel stack.
LEMMA GrowFacts ==
    ASSUME MInv, Growing
    PROVE  /\ call.base \in Nat /\ call.v \in Nat /\ call.frame \in Nat /\ RunStart \in Nat
           /\ call.base \in WindowStart .. next_virt - KStackPages
           /\ call.v \in call.base .. call.base + KStackPages - 1
           /\ call.frame = RunStart + (call.v - call.base)
           /\ RunStart + KStackPages <= TotalPages /\ RunStart \in Pages
           /\ [page |-> RunStart, count |-> KStackPages] \in runs
           /\ Loose = call.frame .. RunStart + KStackPages - 1 /\ call.frame \in Loose
           /\ Walk(tables, KernelPml4, call.v, 0) = NoFrame \/ call.v \notin Window
<1> USE LayoutFacts
<1>1. call.base \in Nat /\ call.v \in Nat /\ call.frame \in Nat
  BY CallShape DEF MInv, Growing
<1>2. /\ call.base \in WindowStart .. next_virt - KStackPages
      /\ call.v \in call.base .. call.base + KStackPages - 1
      /\ [page |-> RunStart, count |-> KStackPages] \in runs
  BY DEF MInv, GrowOK
<1>3. RunStart \in Nat /\ RunStart + KStackPages <= TotalPages /\ RunStart \in Pages
  BY <1>2, RunHeld DEF MInv
<1>4. call.frame = RunStart + (call.v - call.base)
  BY <1>1 DEF RunStart
<1>5. Loose = call.frame .. RunStart + KStackPages - 1
  BY DEF Loose, Growing
<1>6. call.frame \in call.frame .. RunStart + KStackPages - 1
  BY <1>1, <1>2, <1>3, <1>4
<1>7. ASSUME Walk(tables, KernelPml4, call.v, 0) # NoFrame, call.v \in Window PROVE FALSE
  <2>1. \/ \E t \in Live : call.v \in kstack[t] .. kstack[t] + KStackPages - 1
        \/ call.v \in call.base .. call.v - 1
    BY <1>7 DEF MInv, StacksOK, Growing, HasStack, Creating
  <2>2. \A t \in Live : kstack[t] \in Nat /\ Apart(kstack[t], call.base)
    BY DEF MInv, StacksOK, SpaceOK, Live
  <2> QED BY <1>1, <1>2, <2>1, <2>2 DEF Apart
<1> QED BY <1>1, <1>2, <1>3, <1>4, <1>5, <1>6, <1>7

\* The frame that is about to be mapped.
LEMMA MapFrame ==
    ASSUME MInv, call.pc \in Mapping
    PROVE  /\ call.frame \in Pages \ {NoFrame}
           /\ Walk(tables, MapRoot, call.v, 0) \in {NoFrame, call.frame}
           /\ Walk(tables, MapRoot, call.v, 0) # call.frame => call.frame \in Loose
           /\ Walk(tables, MapRoot, call.v, 0) # call.frame => ~InTree(tables, Roots, call.frame)
           /\ call.pc # "kmap" => Single(call.frame)
<1>1. /\ call.frame \in HeldPages
      /\ Walk(tables, MapRoot, call.v, 0) \in {NoFrame, call.frame}
      /\ Walk(tables, MapRoot, call.v, 0) # call.frame => call.frame \in Loose
      /\ call.pc # "kmap" => Single(call.frame)
  <2>1. CASE call.pc = "kmap"
    <3>1. Growing
      BY <2>1 DEF Growing
    <3>2. call.frame \in Loose
      BY <3>1, GrowFacts
    <3>3. MapRoot = KernelPml4 /\ call.v \in Window
      BY <2>1, MapTarget
    <3> QED BY <2>1, <3>1, <3>2, <3>3, GrowFacts, LooseHeld
  <2>2. CASE call.pc # "kmap"
    <3>1. call.pc \in {"map", "smap"} /\ MapRoot = call.root
      BY <2>2 DEF Mapping, MapRoot
    <3>2. Single(call.frame) /\ Walk(tables, call.root, call.v, 0) \in {NoFrame, call.frame}
      BY <3>1 DEF MInv, LooseOK
    <3>3. Walk(tables, call.root, call.v, 0) # call.frame => call.frame \in Loose
      BY <3>1 DEF Loose
    <3> QED BY <3>1, <3>2, <3>3, SingleFacts DEF MInv
  <2> QED BY <2>1, <2>2
<1>2. call.frame \in Pages /\ call.frame \notin BootPages /\ call.frame # NoFrame
  <2>1. call.frame \in Pages
    BY CallShape DEF MInv, Mapping, Creating
  <2> QED BY <1>1, <2>1, ReservedBoot, BootFacts DEF MInv, IInv, HeldApartFromReserved
<1> QED BY <1>1, <1>2 DEF MInv, PlacesOK, AllNodes

\* The entries that MapDone writes.
LEMMA MapDoneEntries ==
    ASSUME MInv, MapDone
    PROVE  LET W(l) == Walk(tables, MapRoot, call.v, l)
           IN  /\ \A l \in 1 .. 4 : W(l) # NoFrame /\ W(l) \in Pages /\ Index(call.v, l) \in Entries
               /\ tables' \in [Pages -> [Entries -> Entry]]
               /\ tables'[W(1)][Index(call.v, 1)] = [phys |-> call.frame, flags |-> MapFlags]
               /\ \A l \in 2 .. 4 : tables'[W(l)][Index(call.v, l)] =
                     Flagged(tables[W(l)][Index(call.v, l)])
               /\ \A n \in Pages, i \in Entries :
                     (\A l \in 1 .. 4 : ~(n = W(l) /\ i = Index(call.v, l)))
                        => tables'[n][i] = tables[n][i]
<1> DEFINE s == MapRoot
           a == call.v
           W(l) == Walk(tables, s, a, l)
           New(n, l) == [tables[n] EXCEPT ![Index(a, l)] =
                          IF l = 1 THEN [phys |-> call.frame, flags |-> MapFlags]
                          ELSE Flagged(tables[n][Index(a, l)])]
<1>1. /\ call.pc \in Mapping /\ MissingLevel(s, a) = 0
  BY DEF MapDone
<1>2. /\ s \in Roots /\ s # NoFrame /\ a \in Dom(s)
      /\ MapFlags \subseteq {"present", "write", "user", "huge"}
      /\ call.frame \in Pages
  BY <1>1, MapTarget, MapFrame
<1>3. TypedTables(tables) /\ Unique(tables, Roots) /\ Roots \subseteq Pages
  BY RootsFacts DEF MInv, TablesOK, TreeOK
<1>4. \A l \in 1 .. 4 : Index(a, l) \in Entries
  BY <1>2, DomFacts
<1>5. \A l \in 1 .. 4 : W(l) # NoFrame /\ W(l) \in Pages
  <2>1. W(1) # NoFrame
    BY <1>1, <1>2, MissingFacts
  <2>2. \A l \in 1 .. 4 : W(l) # NoFrame
    BY <2>1, WalkZero
  <2>3. a \in AllPages
    BY <1>2, DomFacts
  <2> QED BY <1>2, <1>3, <2>2, <2>3, WalkTyped
<1>6. \A l, m \in 1 .. 4 : W(l) = W(m) => l = m
  <2> SUFFICES ASSUME NEW l \in 1 .. 4, NEW m \in 1 .. 4, W(l) = W(m) PROVE l = m
    OBVIOUS
  <2>1. l \in 0 .. 4 /\ m \in 0 .. 4
    OBVIOUS
  <2> QED BY <1>2, <1>3, <1>5, <2>1, UniqueUse
<1>7. \A l \in 1 .. 4 : Path(s, a)[l] = W(l)
  BY PathIsWalk
<1>8. tables' = [f \in Pages |->
              IF \E l \in Levels : Path(s, a)[l] = f
              THEN New(f, CHOOSE k \in Levels : Path(s, a)[k] = f) ELSE tables[f]]
  BY DEF MapDone
<1> HIDE DEF s, a, W
<1>9. ASSUME NEW l \in 1 .. 4 PROVE tables'[W(l)] = New(W(l), l)
  <2>1. l \in Levels /\ Path(s, a)[l] = W(l) /\ W(l) \in Pages
    BY <1>5, <1>7 DEF Levels
  <2>2. \A k \in Levels : Path(s, a)[k] = W(l) => k = l
    BY <1>6, <1>7 DEF Levels
  <2>3. (CHOOSE k \in Levels : Path(s, a)[k] = W(l)) = l
    BY <2>1, <2>2
  <2> HIDE DEF New
  <2> QED BY <1>8, <2>1, <2>3
<1>10. ASSUME NEW n \in Pages, \A l \in 1 .. 4 : n # W(l) PROVE tables'[n] = tables[n]
  <2>1. ~ \E l \in Levels : Path(s, a)[l] = n
    BY <1>7, <1>10 DEF Levels
  <2> HIDE DEF New
  <2> QED BY <1>8, <2>1
<1>11. ASSUME NEW l \in 1 .. 4
       PROVE  /\ tables[W(l)] \in [Entries -> Entry] /\ tables[W(l)][Index(a, l)] \in Entry
              /\ New(W(l), l) \in [Entries -> Entry]
              /\ \A i \in Entries : i # Index(a, l) => New(W(l), l)[i] = tables[W(l)][i]
              /\ New(W(l), l)[Index(a, l)] =
                    IF l = 1 THEN [phys |-> call.frame, flags |-> MapFlags]
                    ELSE Flagged(tables[W(l)][Index(a, l)])
  <2> DEFINE T == tables[W(l)]
             j == Index(a, l)
             e == IF l = 1 THEN [phys |-> call.frame, flags |-> MapFlags]
                  ELSE Flagged(T[j])
  <2>1. T \in [Entries -> Entry] /\ j \in Entries /\ T[j] \in Entry
    BY <1>3, <1>4, <1>5 DEF TypedTables
  <2>2. e \in Entry
    <3>1. [phys |-> call.frame, flags |-> MapFlags] \in Entry
      BY <1>2 DEF Entry
    <3>2. Flagged(T[j]) \in Entry
      <4>1. \A E \in Entry : Flagged(E) \in Entry
        BY <1>2 DEF Entry, Flagged
      <4> QED BY <2>1, <4>1
    <3> QED BY <3>1, <3>2
  <2>3. New(W(l), l) = [T EXCEPT ![j] = e]
    OBVIOUS
  <2> HIDE DEF T, j, e, New
  <2>4. /\ New(W(l), l) \in [Entries -> Entry]
        /\ \A i \in Entries : i # j => New(W(l), l)[i] = T[i]
        /\ New(W(l), l)[j] = e
    BY <2>1, <2>2, <2>3
  <2> QED BY <2>1, <2>4 DEF T, j, e
<1>12. tables' \in [Pages -> [Entries -> Entry]]
  <2>1. \A n \in Pages : tables'[n] \in [Entries -> Entry]
    <3> SUFFICES ASSUME NEW n \in Pages PROVE tables'[n] \in [Entries -> Entry]
      OBVIOUS
    <3>1. CASE \E l \in 1 .. 4 : n = W(l)
      <4> HIDE DEF New
      <4> QED BY <1>9, <1>11, <3>1
    <3>2. CASE \A l \in 1 .. 4 : n # W(l)
      BY <1>3, <1>10, <3>2 DEF TypedTables
    <3> QED BY <3>1, <3>2
  <2>2. DOMAIN tables' = Pages /\ tables' = [n \in DOMAIN tables' |-> tables'[n]]
    <3> HIDE DEF New
    <3> QED BY <1>8
  <2> QED BY <2>1, <2>2
<1> HIDE DEF New
<1>13. tables'[W(1)][Index(a, 1)] = [phys |-> call.frame, flags |-> MapFlags]
  BY <1>9, <1>11
<1>14. \A l \in 2 .. 4 : tables'[W(l)][Index(a, l)] =
            Flagged(tables[W(l)][Index(a, l)])
  <2>1. \A l \in 2 .. 4 : l \in 1 .. 4 /\ l # 1
    OBVIOUS
  <2> QED BY <1>9, <1>11, <2>1
<1>15. ASSUME NEW n \in Pages, NEW i \in Entries, \A l \in 1 .. 4 : ~(n = W(l) /\ i = Index(a, l))
       PROVE  tables'[n][i] = tables[n][i]
  <2>1. CASE \E l \in 1 .. 4 : n = W(l)
    BY <1>9, <1>11, <1>15, <2>1
  <2>2. CASE \A l \in 1 .. 4 : n # W(l)
    BY <1>10, <2>2
  <2> QED BY <2>1, <2>2
<1> QED BY <1>4, <1>5, <1>12, <1>13, <1>14, <1>15 DEF s, a, W

\* What MapDone does to the forest: one page is added.
LEMMA MapDoneForest ==
    ASSUME MInv, MapDone, Roots' = Roots, Procs' = Procs
    PROVE  /\ TablesOK' /\ LowOK' /\ TreeOK'
           /\ \A r \in Roots : \A v \in Dom(r), l \in 0 .. 4 : Walk(tables', r, v, l) =
                IF r = MapRoot /\ v = call.v /\ l = 0 THEN call.frame ELSE Walk(tables, r, v, l)
           /\ AllNodes' = AllNodes \cup {call.frame}
<1> DEFINE s == MapRoot
           a == call.v
           x == call.frame
           W(l) == Walk(tables, s, a, l)
<1>1. /\ \A l \in 1 .. 4 : W(l) # NoFrame /\ W(l) \in Pages /\ Index(a, l) \in Entries
      /\ tables' \in [Pages -> [Entries -> Entry]]
      /\ tables'[W(1)][Index(a, 1)] = [phys |-> x, flags |-> MapFlags]
      /\ \A l \in 2 .. 4 : tables'[W(l)][Index(a, l)] = Flagged(tables[W(l)][Index(a, l)])
      /\ \A n \in Pages, i \in Entries :
            (\A l \in 1 .. 4 : ~(n = W(l) /\ i = Index(a, l))) => tables'[n][i] = tables[n][i]
  BY MapDoneEntries
<1>2. call.pc \in Mapping
  BY DEF MapDone
<1>3. /\ s \in Roots /\ s # NoFrame /\ a \in Dom(s)
      /\ "present" \in MapFlags /\ "huge" \notin MapFlags
      /\ x \in Pages \ {NoFrame} /\ W(0) \in {NoFrame, x}
      /\ W(0) # x => ~InTree(tables, Roots, x)
  BY <1>2, MapTarget, MapFrame
<1>4. TypedTables(tables) /\ Unique(tables, Roots) /\ Roots \in SUBSET Pages
  BY RootsFacts DEF MInv, TablesOK, TreeOK
<1>5. ASSUME NEW r \in Roots, NEW v \in Dom(r)
      PROVE  \A l \in 0 .. 4 : Walk(tables', r, v, l) =
                IF r = s /\ v = a /\ l = 0 THEN x ELSE Walk(tables, r, v, l)
  <2>1. Walk(tables, s, a, 1) # NoFrame
    BY <1>1
  <2>2. \A l \in 2 .. 4 : tables'[Walk(tables, s, a, l)][Index(a, l)] =
            [tables[Walk(tables, s, a, l)][Index(a, l)] EXCEPT !.flags = @ \cup MapFlags]
    BY <1>1 DEF Flagged
  <2>3. tables'[Walk(tables, s, a, 1)][Index(a, 1)] = [phys |-> x, flags |-> MapFlags]
    BY <1>1
  <2>4. \A n \in Pages, i \in Entries :
            (\A l \in 1 .. 4 : ~(n = Walk(tables, s, a, l) /\ i = Index(a, l)))
              => tables'[n][i] = tables[n][i]
    BY <1>1
  <2> HIDE DEF s, a, x
  <2> QED BY <1>3, <1>4, <2>1, <2>2, <2>3, <2>4, PageMapped, SMTT(30)
<1>6. Unique(tables', Roots)
  BY <1>3, <1>4, <1>5, MappedUnique
<1>7. AllNodes' = AllNodes \cup {x}
  <2>1. ASSUME NEW n, InTree(tables, Roots, n), n # NoFrame PROVE InTree(tables', Roots, n)
    <3>1. PICK r \in Roots : \E v \in Dom(r), l \in 0 .. 4 : Walk(tables, r, v, l) = n
      BY <2>1 DEF InTree
    <3>2. PICK v \in Dom(r), l \in 0 .. 4 : Walk(tables, r, v, l) = n
      BY <3>1
    <3>3. Walk(tables', r, v, l) = n
      BY <1>3, <1>5, <2>1, <3>2
    <3> QED BY <3>3 DEF InTree
  <2>2. InTree(tables', Roots, x)
    <3>1. 0 \in 0 .. 4
      OBVIOUS
    <3>2. Walk(tables', s, a, 0) = x
      BY <1>3, <1>5, <3>1
    <3> QED BY <1>3, <3>1, <3>2 DEF InTree
  <2>3. ASSUME NEW n, InTree(tables', Roots, n), n # x PROVE InTree(tables, Roots, n)
    <3>1. PICK r \in Roots : \E v \in Dom(r), l \in 0 .. 4 : Walk(tables', r, v, l) = n
      BY <2>3 DEF InTree
    <3>2. PICK v \in Dom(r), l \in 0 .. 4 : Walk(tables', r, v, l) = n
      BY <3>1
    <3>3. Walk(tables, r, v, l) = n
      BY <1>5, <2>3, <3>2
    <3> QED BY <3>3 DEF InTree
  <2> QED BY <1>3, <2>1, <2>2, <2>3 DEF AllNodes
<1>8. TablesOK'
  <2>1. \A n \in Pages, i \in Entries :
           /\ IsTable(tables[n][i]) => tables[n][i].phys # NoFrame
           /\ "huge" \in tables[n][i].flags => n \in BootPages \ {KernelPml4}
           /\ tables[n][i] \in Entry
    BY <1>4 DEF MInv, TablesOK, TypedTables
  <2>2. \A E \in Entry : /\ Flagged(E).phys = E.phys
                         /\ "huge" \in Flagged(E).flags <=> "huge" \in E.flags
    BY <1>3 DEF Flagged, Entry
  <2>3. \A l \in 2 .. 4 : IsTable(tables[W(l)][Index(a, l)])
    <3> SUFFICES ASSUME NEW l \in 2 .. 4 PROVE IsTable(tables[W(l)][Index(a, l)])
      OBVIOUS
    <3>1. l - 1 \in 1 .. 3 /\ (l - 1) + 1 = l /\ l - 1 \in 1 .. 4
      OBVIOUS
    <3>2. W(l - 1) = Below(tables, W(l), Index(a, l)) /\ W(l - 1) # NoFrame
      BY <1>1, <3>1, WalkStep
    <3> QED BY <3>2 DEF Below
  <2>4. ASSUME NEW n \in Pages, NEW i \in Entries
        PROVE  /\ IsTable(tables'[n][i]) => tables'[n][i].phys # NoFrame
               /\ "huge" \in tables'[n][i].flags => n \in BootPages \ {KernelPml4}
    <3>1. CASE n = W(1) /\ i = Index(a, 1)
      BY <1>1, <1>3, <3>1
    <3>2. CASE \E l \in 2 .. 4 : n = W(l) /\ i = Index(a, l)
      <4>1. PICK l \in 2 .. 4 : n = W(l) /\ i = Index(a, l)
        BY <3>2
      <4>2. tables'[n][i] = Flagged(tables[n][i]) /\ IsTable(tables[n][i])
        BY <1>1, <2>3, <4>1
      <4> QED BY <2>1, <2>2, <4>2
    <3>3. CASE \A l \in 1 .. 4 : ~(n = W(l) /\ i = Index(a, l))
      BY <1>1, <2>1, <3>3
    <3>4. \A l \in 1 .. 4 : l = 1 \/ l \in 2 .. 4
      OBVIOUS
    <3> QED BY <3>1, <3>2, <3>3, <3>4
  <2> QED BY <1>1, <2>4 DEF TablesOK, TypedTables
<1>9. LowOK'
  <2>1. ASSUME NEW l \in 1 .. 4
        PROVE  /\ W(l) = KernelPml4 => Index(a, l) >= KernelHalf /\ Index(a, l) \in Nat
               /\ \A r \in Procs : W(l) = r => Index(a, l) \in 1 .. KernelHalf - 1
    BY <1>3, EntryNotShared
  <2>2. KernelPml4 \in Pages /\ KernelHalf \in Nat
        /\ \A i \in 0 .. KernelHalf - 1 : i \in Entries
    BY RootsFacts, KernelHalfFacts, EntriesFacts, SpanFacts DEF Levels
  <2>3. ASSUME NEW i \in 0 .. KernelHalf - 1 PROVE tables'[KernelPml4][i] = BootTables[KernelPml4][i]
    <3>1. tables[KernelPml4][i] = BootTables[KernelPml4][i]
      BY DEF MInv, LowOK
    <3>2. \A l \in 1 .. 4 : ~(KernelPml4 = W(l) /\ i = Index(a, l))
      BY <2>1, <2>2
    <3> QED BY <1>1, <2>2, <3>1, <3>2
  <2>4. ASSUME NEW r \in Procs PROVE tables'[r][0] = BootTables[KernelPml4][0]
    <3>1. tables[r][0] = BootTables[KernelPml4][0] /\ r \in Pages
      BY RootsFacts DEF MInv, LowOK
    <3>2. 0 \in Entries /\ \A l \in 1 .. 4 : ~(r = W(l) /\ 0 = Index(a, l))
      BY <2>1, EntriesFacts
    <3> QED BY <1>1, <3>1, <3>2
  <2> QED BY <2>3, <2>4 DEF LowOK
<1> QED BY <1>5, <1>6, <1>7, <1>8, <1>9 DEF TreeOK

\* First and last page of a segment.
LEMMA SegmentPages ==
    ASSUME NEW prog \in Programs, NEW i \in DOMAIN prog, prog[i].memsz # 0
    PROVE  /\ FirstPage(prog[i]) \in Nat /\ LastPage(prog[i]) \in Nat
           /\ FirstPage(prog[i]) <= LastPage(prog[i])
           /\ FirstPage(prog[i]) .. LastPage(prog[i]) \subseteq UserPages
           /\ FirstPage(prog[i]) .. LastPage(prog[i]) \cap UserStack = {}
           /\ prog[i] \in Segment /\ i \in Nat /\ i >= 1 /\ i <= Len(prog)
<1>1. prog \in Seq(Segment)
  BY AddressSpaceAssumption
<1>2. prog[i] \in Segment /\ i \in 1 .. Len(prog) /\ Len(prog) \in Nat
  BY <1>1
<1> DEFINE b == prog[i].vaddr
           m == prog[i].memsz
           c == b + m - 1
           p == b \div PageSize
           q == c \div PageSize
<1>3. b \in Nat /\ m \in Nat /\ c \in Nat /\ b <= c /\ PageSize \in Nat \ {0}
  BY <1>2, PageSizeFacts DEF Segment
<1>4. /\ p \in Nat /\ p * PageSize <= b
      /\ q \in Nat /\ c < (q + 1) * PageSize
  BY <1>3, Division
<1> HIDE DEF p, q, b, c
<1>5. p <= q
  <2> SUFFICES ASSUME q + 1 <= p PROVE FALSE
    BY <1>4
  <2>1. (q + 1) * PageSize <= p * PageSize /\ (q + 1) * PageSize \in Nat /\ p * PageSize \in Nat
    BY <1>3, <1>4, Monotone
  <2> QED BY <1>3, <1>4, <2>1
<1>6. FirstPage(prog[i]) = p /\ LastPage(prog[i]) = q
  BY DEF FirstPage, LastPage, p, q, b, c
<1>7. FirstPage(prog[i]) .. LastPage(prog[i]) \subseteq UserPages \ UserStack
  BY AddressSpaceAssumption DEF LayoutAssumption
<1> QED BY <1>2, <1>4, <1>5, <1>6, <1>7

\* A page of the image or the stack is in the tables of the new process.
LEMMA MapUserDoneKeepsMInv ==
    ASSUME MInv, MapDone, call.pc # "kmap"
    PROVE  MInv'
<1> USE LayoutFacts
<1>1. /\ call.pc \in {"map", "smap"} /\ call.pc \in Creating /\ call.pc \in Mapping
      /\ UNCHANGED pmmVars /\ UNCHANGED <<space, kstack, next_virt, dropped>>
  BY DEF MapDone, Mapping, Creating
<1>2. IInv' /\ UNCHANGED <<runs, reserved, booting>> /\ HeldPages' = HeldPages
  BY <1>1, PmmQuiet DEF MInv
<1>3. /\ call \in CreateCall /\ call.v \in Nat /\ call.t \notin Live
      /\ call.prog \in Programs /\ call.seg \in Nat
  BY <1>1, CreatingCall DEF MInv
<1>4. ASSUME call.pc = "map"
      PROVE  /\ call' \in CreateCall /\ call'.pc \in {"page", "fill"}
             /\ call'.root = call.root /\ call'.base = call.base /\ call'.t = call.t
             /\ call'.prog = call.prog /\ call'.seg = call.seg
             /\ call.seg \in DOMAIN call.prog /\ call.prog[call.seg].memsz # 0
             /\ call'.pc = "page" =>
                  call'.v \in FirstPage(call.prog[call.seg]) .. LastPage(call.prog[call.seg])
  <2> DEFINE last == LastPage(call.prog[call.seg])
             first == FirstPage(call.prog[call.seg])
  <2>1. /\ call.seg \in DOMAIN call.prog /\ call.prog[call.seg].memsz # 0
        /\ call.v \in first .. last
    BY <1>4 DEF MInv, CallOK
  <2>2. first \in Nat /\ last \in Nat
    BY <1>3, <2>1, SegmentPages
  <2>3. call' = IF call.v < last THEN [call EXCEPT !.pc = "page", !.v = @ + 1]
                ELSE [call EXCEPT !.pc = "fill"]
    BY <1>4 DEF MapDone
  <2> HIDE DEF first, last
  <2>4. CASE call.v < last
    <3>1. call' = [call EXCEPT !.pc = "page", !.v = call.v + 1]
      BY <2>3, <2>4
    <3>2. call.v + 1 \in Nat /\ call.v + 1 \in first .. last
      BY <1>3, <2>1, <2>2, <2>4
    <3>3. /\ call' \in CreateCall /\ call'.pc = "page" /\ call'.v = call.v + 1
          /\ call'.root = call.root /\ call'.base = call.base /\ call'.t = call.t
          /\ call'.prog = call.prog /\ call'.seg = call.seg
      BY <1>3, <3>1, <3>2 DEF CreateCall, Creating
    <3> QED BY <2>1, <3>2, <3>3 DEF first, last
  <2>5. CASE ~(call.v < last)
    <3>1. call' = [call EXCEPT !.pc = "fill"]
      BY <2>3, <2>5
    <3>2. /\ call' \in CreateCall /\ call'.pc = "fill"
          /\ call'.root = call.root /\ call'.base = call.base /\ call'.t = call.t
          /\ call'.prog = call.prog /\ call'.seg = call.seg
      BY <1>3, <3>1 DEF CreateCall, Creating
    <3> QED BY <2>1, <3>2
  <2> QED BY <2>4, <2>5
<1>5. ASSUME call.pc = "smap"
      PROVE  /\ call' \in CreateCall /\ call'.pc \in {"stack", "args"}
             /\ call'.root = call.root /\ call'.base = call.base /\ call'.t = call.t
             /\ call'.pc = "stack" => call'.v = call.v + 1 /\ call'.v \in UserStack
  <2>1. call.v \in UserStack
    BY <1>5 DEF MInv, CallOK
  <2>2. call' = IF call.v + 1 < StackTop THEN [call EXCEPT !.pc = "stack", !.v = @ + 1]
                ELSE [call EXCEPT !.pc = "args"]
    BY <1>5 DEF MapDone
  <2>3. CASE call.v + 1 < StackTop
    <3>1. call' = [call EXCEPT !.pc = "stack", !.v = call.v + 1]
      BY <2>2, <2>3
    <3>2. call.v + 1 \in Nat /\ call.v + 1 \in UserStack
      BY <1>3, <2>1, <2>3 DEF UserStack
    <3> QED BY <1>3, <3>1, <3>2 DEF CreateCall, Creating
  <2>4. CASE ~(call.v + 1 < StackTop)
    <3>1. call' = [call EXCEPT !.pc = "args"]
      BY <2>2, <2>4
    <3> QED BY <1>3, <3>1 DEF CreateCall, Creating
  <2> QED BY <2>3, <2>4
<1>6. /\ call' \in CreateCall /\ call'.pc \in {"page", "fill", "stack", "args"}
      /\ call'.pc \in Creating
      /\ call'.root = call.root /\ call'.base = call.base /\ call'.t = call.t
  BY <1>1, <1>4, <1>5 DEF Creating
<1>7. /\ MapRoot = call.root /\ call.root \in Procs /\ call.v \in UserPages
      /\ call.root # KernelPml4 /\ Single(call.frame)
      /\ call.frame \in Pages \ {NoFrame}
      /\ Walk(tables, call.root, call.v, 0) \in {NoFrame, call.frame}
  BY <1>1, MapTarget, MapFrame, CallRoot
<1>8. Roots' = Roots /\ Procs' = Procs
  BY <1>1, <1>6 DEF Roots, Procs, Live
<1>9. /\ TablesOK' /\ LowOK' /\ TreeOK' /\ AllNodes' = AllNodes \cup {call.frame}
      /\ \A r \in Roots : \A v \in Dom(r), l \in 0 .. 4 : Walk(tables', r, v, l) =
            IF r = call.root /\ v = call.v /\ l = 0 THEN call.frame ELSE Walk(tables, r, v, l)
  BY <1>7, <1>8, MapDoneForest
<1>10. \A u \in Window : Walk(tables', KernelPml4, u, 0) = Walk(tables, KernelPml4, u, 0)
  <2>1. 0 \in 0 .. 4
    OBVIOUS
  <2> QED BY <1>7, <1>9, <2>1, RootsFacts
<1>11. /\ Live' = Live /\ BootOK' /\ SpaceOK' /\ StacksOK' /\ GrowOK'
       /\ \A f : Single(f) => Single(f)'
  <2>1. dropped' \subseteq Pages
    BY <1>1 DEF MInv, SpaceOK
  <2> QED BY <1>1, <1>2, <1>6, <1>10, <2>1, CreatingFrame
<1>12. CallOK'
  BY <1>1, <1>3, <1>4, <1>5, <1>6, <1>11 DEF CallOK
<1>13. StackFree'
  <2>1. \A u \in UserStack : u # call.v =>
          Walk(tables', call.root, u, 0) = Walk(tables, call.root, u, 0)
    <3>1. 0 \in 0 .. 4
      OBVIOUS
    <3> QED BY <1>1, <1>9, <3>1, CallRoot
  <2>2. CASE call.pc = "map"
    <3>1. call.v \notin UserStack
      BY <2>2, PageOfUser DEF MInv
    <3>2. \A u \in UserStack : Walk(tables, call.root, u, 0) = NoFrame
      BY <1>1, <2>2 DEF MInv, StackFree
    <3> QED BY <1>6, <2>1, <3>1, <3>2 DEF StackFree
  <2>3. CASE call.pc = "smap"
    <3>1. \A u \in UserStack : u >= call.v => Walk(tables, call.root, u, 0) = NoFrame
      BY <1>1, <2>3 DEF MInv, StackFree
    <3>2. \A u \in UserStack : u \in Int
      BY DEF UserStack
    <3>3. call'.pc = "stack" => \A u \in UserStack : u >= call'.v => u # call.v /\ u >= call.v
      BY <1>3, <1>5, <2>3, <3>2
    <3> QED BY <1>5, <1>6, <2>1, <2>3, <3>1, <3>3 DEF StackFree
  <2> QED BY <1>1, <2>2, <2>3
<1>14. HeldOK'
  <2>1. \A n : n = call.frame \/ Single(n) => [page |-> n, count |-> 1] \in runs'
    BY <1>2, <1>7 DEF Single
  <2>2. ASSUME NEW r \in Procs, NEW v \in UserPages, NEW l \in 0 .. 3,
               Walk(tables', r, v, l) # NoFrame
        PROVE  [page |-> Walk(tables', r, v, l), count |-> 1] \in runs'
    <3>1. l \in 0 .. 4 /\ r \in Roots /\ v \in Dom(r)
      BY RootsFacts
    <3>2. Walk(tables', r, v, l) = call.frame \/ Walk(tables', r, v, l) = Walk(tables, r, v, l)
      BY <1>9, <3>1
    <3>3. Walk(tables, r, v, l) # NoFrame => Single(Walk(tables, r, v, l))
      BY DEF MInv, HeldOK
    <3> QED BY <2>1, <2>2, <3>2, <3>3
  <2>3. ASSUME NEW v \in Window, NEW l \in 1 .. 3, Walk(tables', KernelPml4, v, l) # NoFrame
        PROVE  \/ [page |-> Walk(tables', KernelPml4, v, l), count |-> 1] \in runs'
               \/ l = 3 /\ Walk(tables', KernelPml4, v, l) \in BootPages
    <3> DEFINE n == Walk(tables, KernelPml4, v, l)
    <3>1. l \in 0 .. 4 /\ KernelPml4 \in Roots /\ v \in Dom(KernelPml4)
      BY RootsFacts
    <3>2. Walk(tables', KernelPml4, v, l) = n
      BY <1>7, <1>9, <3>1
    <3>3. n # NoFrame => Single(n) \/ (l = 3 /\ n \in BootPages)
      BY DEF MInv, HeldOK
    <3> QED BY <2>1, <2>3, <3>2, <3>3
  <2> QED BY <1>8, <2>2, <2>3 DEF HeldOK, Single
<1>15. LooseOK'
  BY <1>1, <1>6, <1>11 DEF MInv, LooseOK
<1>16. Loose \subseteq {call.frame} /\ Loose' = {}
  BY <1>1, <1>6 DEF Loose, Growing
<1>17. call.frame \notin dropped
  <2>1. CASE Walk(tables, call.root, call.v, 0) = call.frame
    <3>1. call.root \in Roots /\ call.v \in Dom(call.root) /\ 0 \in 0 .. 4
      BY <1>7, RootsFacts
    <3>2. call.frame \in AllNodes
      BY <1>7, <2>1, <3>1 DEF AllNodes, InTree
    <3> QED BY <3>2 DEF MInv, PlacesOK
  <2>2. CASE Walk(tables, call.root, call.v, 0) # call.frame
    <3>1. call.frame \in Loose
      BY <1>1, <1>7, <2>2, MapFrame
    <3> QED BY <3>1 DEF MInv, PlacesOK
  <2> QED BY <2>1, <2>2
<1>18. PlacesOK'
  BY <1>1, <1>2, <1>9, <1>16, <1>17 DEF MInv, PlacesOK
<1> QED BY <1>2, <1>9, <1>11, <1>12, <1>13, <1>14, <1>15, <1>18 DEF MInv

\* A page of the kernel stack is in the window.
LEMMA MapKernelDoneKeepsMInv ==
    ASSUME MInv, MapDone, call.pc = "kmap"
    PROVE  MInv'
<1> USE LayoutFacts
<1>1. /\ call.pc \notin Creating /\ call.pc \in Mapping /\ Growing /\ ~HasStack
      /\ UNCHANGED pmmVars /\ UNCHANGED <<space, kstack, next_virt, dropped>>
  BY DEF MapDone, Mapping, Creating, Growing, HasStack
<1>2. IInv' /\ UNCHANGED <<runs, reserved, booting>> /\ HeldPages' = HeldPages
  BY <1>1, PmmQuiet DEF MInv
<1>3. call \in CreateCall /\ call.t \notin Live
  BY CreatingCall DEF MInv
<1>4. /\ call.base \in Nat /\ call.v \in Nat /\ call.frame \in Nat /\ RunStart \in Nat
      /\ call.base \in WindowStart .. next_virt - KStackPages
      /\ call.v \in call.base .. call.base + KStackPages - 1
      /\ call.frame = RunStart + (call.v - call.base)
      /\ RunStart + KStackPages <= TotalPages /\ RunStart \in Pages
      /\ [page |-> RunStart, count |-> KStackPages] \in runs
      /\ Loose = call.frame .. RunStart + KStackPages - 1 /\ call.frame \in Loose
  BY <1>1, GrowFacts
<1> DEFINE more == call.v + 1 < call.base + KStackPages
<1>5. /\ more => /\ call.frame + 1 \in Pages
                  /\ (call.frame + 1) - ((call.v + 1) - call.base) = call.frame - (call.v - call.base)
      /\ ~more => call.v = call.base + KStackPages - 1
  <2>1. TotalPages \in Nat /\ KStackPages \in Nat \ {0} /\ Pages = 0 .. TotalPages - 1
    BY TotalPagesPositive DEF Pages
  <2>2. /\ more => /\ call.frame + 1 \in 0 .. TotalPages - 1
                   /\ (call.frame + 1) - ((call.v + 1) - call.base) = call.frame - (call.v - call.base)
        /\ ~more => call.v = call.base + KStackPages - 1
    <3> DEFINE b == call.base
               v == call.v
               f == call.frame
               q == RunStart
               n == KStackPages
               total == TotalPages
    <3>1. b \in Nat /\ v \in Nat /\ f \in Nat /\ q \in Nat /\ n \in Nat \ {0} /\ total \in Nat
          /\ v \in b .. b + n - 1 /\ f = q + (v - b) /\ q + n <= total
      BY <1>4, <2>1
    <3> HIDE DEF b, v, f, q, n, total
    <3>2. /\ v + 1 < b + n => f + 1 \in 0 .. total - 1 /\ (f + 1) - ((v + 1) - b) = f - (v - b)
          /\ ~(v + 1 < b + n) => v = b + n - 1
      BY ONLY <3>1
    <3> QED BY <3>2 DEF b, v, f, q, n, total
  <2> HIDE DEF more
  <2> QED BY <2>1, <2>2
<1>6. /\ call' \in CreateCall /\ call'.t = call.t /\ call'.base = call.base
      /\ more => call'.pc = "kmap" /\ call'.v = call.v + 1 /\ call'.frame = call.frame + 1
      /\ ~more => call'.pc = "dir"
  <2>1. call' = IF more THEN [call EXCEPT !.v = @ + 1, !.frame = @ + 1]
                ELSE [call EXCEPT !.pc = "dir"]
    BY DEF MapDone
  <2>2. CASE more
    <3>1. call' = [call EXCEPT !.v = call.v + 1, !.frame = call.frame + 1]
      BY <2>1, <2>2
    <3>2. call.v + 1 \in Nat /\ call.frame + 1 \in Pages
      <4>1. call.v + 1 \in Nat
        BY <1>4
      <4> HIDE DEF more
      <4> QED BY <1>5, <2>2, <4>1
    <3> HIDE DEF more
    <3> QED BY <1>3, <2>2, <3>1, <3>2 DEF CreateCall, Creating
  <2>3. CASE ~more
    <3>1. call' = [call EXCEPT !.pc = "dir"]
      BY <2>1, <2>3
    <3> HIDE DEF more
    <3> QED BY <1>3, <2>3, <3>1 DEF CreateCall, Creating
  <2> QED BY <2>2, <2>3
<1>7. /\ call'.pc \notin Creating
      /\ more => Growing' /\ ~HasStack' /\ RunStart' = RunStart
      /\ ~more => HasStack' /\ ~Growing' /\ call.v = call.base + KStackPages - 1
  <2>1. more => Growing' /\ ~HasStack' /\ RunStart' = RunStart
    <3>1. more => Growing' /\ ~HasStack'
      BY <1>6 DEF Growing, HasStack, Creating
    <3>2. more => RunStart' = RunStart
      <4> HIDE DEF more
      <4> QED BY <1>5, <1>6 DEF RunStart
    <3> QED BY <3>1, <3>2
  <2>2. ~more => HasStack' /\ ~Growing'
    BY <1>6 DEF Growing, HasStack, Creating
  <2>3. ~more => call.v = call.base + KStackPages - 1
    BY <1>5
  <2>4. call'.pc \notin Creating
    BY <1>6 DEF Creating
  <2> QED BY <2>1, <2>2, <2>3, <2>4
<1> HIDE DEF more
<1>8. MapRoot = KernelPml4 /\ call.v \in Window /\ call.frame \in Pages \ {NoFrame}
  BY <1>1, MapTarget, MapFrame
<1>9. Roots' = Roots /\ Procs' = Procs /\ Live' = Live
  BY <1>1, <1>7 DEF Roots, Procs, Live
<1>10. /\ TablesOK' /\ LowOK' /\ TreeOK' /\ AllNodes' = AllNodes \cup {call.frame}
       /\ \A r \in Roots : \A v \in Dom(r), l \in 0 .. 4 : Walk(tables', r, v, l) =
             IF r = KernelPml4 /\ v = call.v /\ l = 0 THEN call.frame ELSE Walk(tables, r, v, l)
  BY <1>8, <1>9, MapDoneForest
<1>11. \A u \in Window : Walk(tables', KernelPml4, u, 0) =
           IF u = call.v THEN call.frame ELSE Walk(tables, KernelPml4, u, 0)
  <2>1. 0 \in 0 .. 4
    OBVIOUS
  <2> QED BY <1>10, <2>1, RootsFacts
<1>12. \A f : Single(f) => Single(f)'
  BY <1>2 DEF Single
<1>13. ~booting
  BY DEF MInv, BootOK, Idle
<1>14. BootOK' /\ StackFree' /\ CallOK'
  <2>1. BootOK' /\ StackFree'
    BY <1>2, <1>7, <1>13 DEF MInv, BootOK, StackFree
  <2>2. call'.pc \in {"kmap", "dir"}
    BY <1>6
  <2>3. CallOK'
    BY <1>3, <1>6, <1>9, <2>2 DEF CallOK
  <2> QED BY <2>1, <2>3
<1>15. SpaceOK'
  BY <1>1, <1>7, <1>9, <1>12 DEF MInv, SpaceOK
<1>16. HeldOK'
  <2>1. \A n : Single(n) => [page |-> n, count |-> 1] \in runs'
    BY <1>2 DEF Single
  <2>2. ASSUME NEW r \in Procs, NEW v \in UserPages, NEW l \in 0 .. 3,
               Walk(tables', r, v, l) # NoFrame
        PROVE  [page |-> Walk(tables', r, v, l), count |-> 1] \in runs'
    <3>1. l \in 0 .. 4 /\ r \in Roots /\ v \in Dom(r) /\ r # KernelPml4
      BY RootsFacts
    <3>2. Walk(tables', r, v, l) = Walk(tables, r, v, l)
      BY <1>10, <3>1
    <3>3. Walk(tables, r, v, l) # NoFrame => Single(Walk(tables, r, v, l))
      BY DEF MInv, HeldOK
    <3> QED BY <2>1, <2>2, <3>2, <3>3
  <2>3. ASSUME NEW v \in Window, NEW l \in 1 .. 3, Walk(tables', KernelPml4, v, l) # NoFrame
        PROVE  \/ [page |-> Walk(tables', KernelPml4, v, l), count |-> 1] \in runs'
               \/ l = 3 /\ Walk(tables', KernelPml4, v, l) \in BootPages
    <3> DEFINE n == Walk(tables, KernelPml4, v, l)
    <3>1. l \in 0 .. 4 /\ l # 0 /\ KernelPml4 \in Roots /\ v \in Dom(KernelPml4)
      BY RootsFacts
    <3>2. Walk(tables', KernelPml4, v, l) = n
      BY <1>10, <3>1
    <3>3. n # NoFrame => Single(n) \/ (l = 3 /\ n \in BootPages)
      BY DEF MInv, HeldOK
    <3> QED BY <2>1, <2>3, <3>2, <3>3
  <2> QED BY <1>9, <2>2, <2>3 DEF HeldOK, Single
<1>17. \A i \in 0 .. call.v - call.base : Walk(tables', KernelPml4, call.base + i, 0) = RunStart + i
  <2> SUFFICES ASSUME NEW i \in 0 .. call.v - call.base
               PROVE  Walk(tables', KernelPml4, call.base + i, 0) = RunStart + i
    OBVIOUS
  <2>1. i \in 0 .. KStackPages - 1
    BY <1>4
  <2>2. call.base + i \in Window
    BY <1>4, <2>1, StackInWindow
  <2>3. CASE i = call.v - call.base
    <3>1. call.base + i = call.v /\ call.frame = RunStart + i
      BY <1>4, <2>3
    <3> QED BY <1>8, <1>11, <3>1
  <2>4. CASE i # call.v - call.base
    <3>1. i \in 0 .. call.v - call.base - 1 /\ call.base + i # call.v
      BY <1>4, <2>4
    <3>2. Walk(tables, KernelPml4, call.base + i, 0) = RunStart + i
      BY <1>1, <3>1 DEF MInv, GrowOK
    <3> QED BY <1>11, <2>2, <3>1, <3>2
  <2> QED BY <2>3, <2>4
<1>18. StacksOK'
  <2>1. \A t \in Live : /\ kstack[t] \in Nat /\ StackAt(tables, runs, next_virt, kstack[t])
                        /\ Apart(kstack[t], call.base)
    BY <1>1 DEF MInv, StacksOK, SpaceOK, Live, StackMapped
  <2>2. ASSUME NEW b \in Nat, StackAt(tables, runs, next_virt, b), Apart(b, call.base)
        PROVE  StackAt(tables', runs', next_virt', b)
    <3>1. StackMapped(b)
      BY <2>2 DEF StackMapped
    <3>2. call.v \notin b .. b + KStackPages - 1
      <4>1. call.v \in call.base .. call.base + KStackPages - 1 /\ call.base \in Nat /\ KStackPages \in Nat
        BY <1>4
      <4>2. b \in Nat /\ (b + KStackPages <= call.base \/ call.base + KStackPages <= b)
        BY <2>2 DEF Apart
      <4> QED BY ONLY <4>1, <4>2
    <3>3. next_virt' \in Nat /\ next_virt' = next_virt
      BY <1>1 DEF MInv, SpaceOK
    <3>4. StackMapped(b)'
      BY <1>2, <1>11, <3>1, <3>2, <3>3, StackKept
    <3> QED BY <3>4 DEF StackMapped
  <2>3. \A t \in Live : StackMapped(kstack[t])' /\ Apart(kstack'[t], call'.base)
    BY <1>1, <1>6, <2>1, <2>2 DEF StackMapped
  <2>4. HasStack' => StackMapped(call.base)'
    <3> SUFFICES ASSUME ~more PROVE StackAt(tables', runs', next_virt', call.base)
      BY <1>6, <1>7 DEF StackMapped
    <3>1. \A i \in 0 .. KStackPages - 1 : Walk(tables', KernelPml4, call.base + i, 0) = RunStart + i
      <4>1. call.v - call.base = KStackPages - 1
        BY <1>4, <1>7
      <4> QED BY <1>17, <4>1
    <3>2. [page |-> RunStart, count |-> KStackPages] \in runs' /\ RunStart \in Pages
          /\ call.base \in WindowStart .. next_virt' - KStackPages
      BY <1>1, <1>2, <1>4
    <3> QED BY <3>1, <3>2 DEF StackAt
  <2>5. \A t, u \in Live : t # u => Apart(kstack[t], kstack[u])
    BY DEF MInv, StacksOK
  <2>6. ASSUME NEW v \in Window, Walk(tables', KernelPml4, v, 0) # NoFrame
        PROVE  \/ \E t \in Live : v \in kstack[t] .. kstack[t] + KStackPages - 1
               \/ v \in call.base .. call.v
    <3>1. CASE v = call.v
      BY <1>4, <3>1
    <3>2. CASE v # call.v
      <4>1. Walk(tables, KernelPml4, v, 0) # NoFrame
        BY <1>11, <2>6, <3>2
      <4>2. \/ \E t \in Live : v \in kstack[t] .. kstack[t] + KStackPages - 1
            \/ v \in call.base .. call.v - 1
        BY <1>1, <4>1 DEF MInv, StacksOK
      <4> QED BY <1>4, <4>2
    <3> QED BY <3>1, <3>2
  <2>7. ASSUME NEW v, v \in call.base .. call.v
        PROVE  \/ HasStack' /\ v \in call'.base .. call'.base + KStackPages - 1
               \/ Growing' /\ v \in call'.base .. call'.v - 1
    <3>1. v \in Int
      BY <2>7
    <3>2. CASE more
      <4>1. Growing' /\ call'.base = call.base /\ call'.v = call.v + 1
        BY <1>6, <1>7, <3>2
      <4>2. v \in call.base .. call.v /\ call.base \in Nat /\ call.v \in Nat
        BY <1>4, <2>7
      <4>3. call.v + 1 - 1 = call.v
        BY <4>2
      <4>4. v \in call'.base .. call'.v - 1
        BY ONLY <4>1, <4>2, <4>3
      <4> QED BY <4>1, <4>4
    <3>3. CASE ~more
      BY <1>4, <1>6, <1>7, <2>7, <3>1, <3>3
    <3> QED BY <3>2, <3>3
  <2>8. Live' = Live /\ kstack' = kstack /\ call'.base = call.base
    BY <1>1, <1>6, <1>9
  <2>9. \A v \in Window : Walk(tables', KernelPml4, v, 0) # NoFrame =>
            \/ \E t \in Live' : v \in kstack'[t] .. kstack'[t] + KStackPages - 1
            \/ HasStack' /\ v \in call'.base .. call'.base + KStackPages - 1
            \/ Growing' /\ v \in call'.base .. call'.v - 1
    <3> SUFFICES ASSUME NEW v \in Window, Walk(tables', KernelPml4, v, 0) # NoFrame
                 PROVE  \/ \E t \in Live : v \in kstack[t] .. kstack[t] + KStackPages - 1
                        \/ HasStack' /\ v \in call'.base .. call'.base + KStackPages - 1
                        \/ Growing' /\ v \in call'.base .. call'.v - 1
      BY <2>8
    <3>1. CASE \E t \in Live : v \in kstack[t] .. kstack[t] + KStackPages - 1
      BY <3>1
    <3>2. CASE v \in call.base .. call.v
      BY <2>7, <3>2
    <3> QED BY <2>6, <3>1, <3>2
  <2>10. /\ \A t \in Live' : StackMapped(kstack[t])'
         /\ HasStack' => StackMapped(call.base)'
         /\ \A t, u \in Live' : t # u => Apart(kstack'[t], kstack'[u])
         /\ \A t \in Live' : Apart(kstack'[t], call'.base)
    BY <2>3, <2>4, <2>5, <2>8
  <2> QED BY <2>9, <2>10 DEF StacksOK
<1>19. GrowOK'
  <2> SUFFICES ASSUME more PROVE GrowOK'
    BY <1>7 DEF GrowOK
  <2>1. /\ call'.base \in WindowStart .. next_virt' - KStackPages
        /\ call'.v \in call'.base .. call'.base + KStackPages - 1
    <3>1. call'.base = call.base /\ call'.v = call.v + 1 /\ next_virt' = next_virt
      BY <1>1, <1>6
    <3>2. call.base \in WindowStart .. next_virt - KStackPages /\ call.base \in Nat
      BY <1>4
    <3>3. call.v \in call.base .. call.base + KStackPages - 1 /\ call.v \in Nat /\ KStackPages \in Nat
      BY <1>4
    <3>4. call.v + 1 < call.base + KStackPages
      BY DEF more
    <3>5. call.v + 1 \in call.base .. call.base + KStackPages - 1
      BY ONLY <3>2, <3>3, <3>4
    <3> QED BY <3>1, <3>2, <3>5
  <2>2. call'.v - call'.base - 1 = call.v - call.base
    BY <1>4, <1>6
  <2>3. [page |-> RunStart', count |-> KStackPages] \in runs'
    BY <1>2, <1>4, <1>7
  <2> QED BY <1>6, <1>7, <1>17, <2>1, <2>2, <2>3 DEF GrowOK
<1>20. LooseOK'
  <2>1. call'.pc \notin {"map", "smap", "free"}
    BY <1>6
  <2> QED BY <1>1, <1>12, <2>1 DEF MInv, LooseOK
<1>21. Loose' = Loose \ {call.frame}
  <2>1. CASE more
    <3>1. Loose' = call.frame + 1 .. RunStart + KStackPages - 1
      BY <1>6, <1>7, <2>1 DEF Loose
    <3> QED BY <1>4, <3>1
  <2>2. CASE ~more
    <3>1. Loose' = {}
      BY <1>6, <1>7, <2>2 DEF Loose
    <3>2. call.frame = RunStart + KStackPages - 1
      BY <1>4, <1>7, <2>2
    <3> QED BY <1>4, <3>1, <3>2
  <2> QED BY <2>1, <2>2
<1>22. PlacesOK'
  BY <1>1, <1>2, <1>4, <1>10, <1>21 DEF MInv, PlacesOK
<1> QED BY <1>2, <1>10, <1>14, <1>15, <1>16, <1>18, <1>19, <1>20, <1>22 DEF MInv

\* Pages of the window are taken out of the kernel's tables.
LEMMA UnmappedForest ==
    ASSUME MInv, NEW from \in Nat, NEW to \in Int, from .. to \subseteq Window,
           tables' = Unmapped(from, to), Roots' = Roots, Procs' = Procs
    PROVE  /\ TablesOK' /\ LowOK' /\ TreeOK'
           /\ \A r \in Roots : \A v \in Dom(r), l \in 0 .. 4 : Walk(tables', r, v, l) =
                IF r = KernelPml4 /\ v \in from .. to /\ l = 0 THEN NoFrame ELSE Walk(tables, r, v, l)
           /\ AllNodes' = AllNodes \ {Walk(tables, KernelPml4, u, 0) : u \in from .. to}
<1> DEFINE U == from .. to
           Hit(n, i) == \E u \in U : Walk(tables, KernelPml4, u, 1) = n /\ Index(u, 1) = i
<1>1. TypedTables(tables) /\ Unique(tables, Roots) /\ Roots \in SUBSET Pages /\ KernelPml4 \in Roots
      /\ U \in SUBSET Window
  BY RootsFacts DEF MInv, TablesOK, TreeOK
<1>2. 1 \in 1 .. 4 /\ 1 \in 0 .. 4 /\ 0 \in 0 .. 4
  OBVIOUS
<1>3. \A u : Path(KernelPml4, u)[1] = Walk(tables, KernelPml4, u, 1)
  BY <1>2, PathIsWalk
<1>4. tables' = [n \in Pages |-> [i \in DOMAIN tables[n] |-> IF Hit(n, i) THEN NoEntry ELSE tables[n][i]]]
  BY <1>3 DEF Unmapped
<1>5. \A n \in Pages : DOMAIN tables[n] = Entries /\ tables[n] \in [Entries -> Entry]
  BY <1>1 DEF TypedTables
<1>6. NoEntry \in Entry
  BY ZeroPage DEF Entry, NoEntry
<1> HIDE DEF U, Hit
<1>7. /\ tables' \in [Pages -> [Entries -> Entry]]
      /\ \A n \in Pages, i \in Entries :
            tables'[n][i] = IF Hit(n, i) THEN NoEntry ELSE tables[n][i]
  BY <1>4, <1>5, <1>6
<1>8. ASSUME NEW r \in Roots, NEW v \in Dom(r)
      PROVE  \A l \in 0 .. 4 : Walk(tables', r, v, l) =
                IF r = KernelPml4 /\ v \in U /\ l = 0 THEN NoFrame ELSE Walk(tables, r, v, l)
  <2>1. WithoutPages(tables, tables', U)
    BY <1>7 DEF Hit, WithoutPages
  <2> QED BY <1>1, <2>1, PagesUnmapped
<1>9. Unique(tables', Roots)
  <2>1. \A r \in Roots : \A v \in Dom(r), l \in 0 .. 4 :
            Walk(tables', r, v, l) = NoFrame \/ Walk(tables', r, v, l) = Walk(tables, r, v, l)
    BY <1>8
  <2> QED BY <1>1, <2>1, FewerUnique
<1>10. AllNodes' = AllNodes \ {Walk(tables, KernelPml4, u, 0) : u \in U}
  <2>1. ASSUME NEW n \in Pages \ {NoFrame}, InTree(tables', Roots, n)
        PROVE  InTree(tables, Roots, n) /\ \A u \in U : n # Walk(tables, KernelPml4, u, 0)
    <3>1. PICK r \in Roots : \E v \in Dom(r), l \in 0 .. 4 : Walk(tables', r, v, l) = n
      BY <2>1 DEF InTree
    <3>2. PICK v \in Dom(r), l \in 0 .. 4 : Walk(tables', r, v, l) = n
      BY <3>1
    <3>3. Walk(tables, r, v, l) = n /\ ~(r = KernelPml4 /\ v \in U /\ l = 0)
      BY <1>8, <2>1, <3>2
    <3>4. ASSUME NEW u \in U, n = Walk(tables, KernelPml4, u, 0) PROVE FALSE
      <4>1. u \in Dom(KernelPml4)
        BY <1>1, RootsFacts
      <4>2. r = KernelPml4 /\ l = 0 /\ Area(v, l) = Area(u, l)
        BY <1>1, <1>2, <2>1, <3>3, <3>4, <4>1, UniqueUse
      <4>3. v \in Nat /\ u \in Nat
        BY <4>1, DomFacts
      <4>4. v = u
        BY <4>2, <4>3, AreaZero
      <4> QED BY <3>3, <4>2, <4>4
    <3> QED BY <3>3, <3>4 DEF InTree
  <2>2. ASSUME NEW n \in Pages \ {NoFrame}, InTree(tables, Roots, n),
               \A u \in U : n # Walk(tables, KernelPml4, u, 0)
        PROVE  InTree(tables', Roots, n)
    <3>1. PICK r \in Roots : \E v \in Dom(r), l \in 0 .. 4 : Walk(tables, r, v, l) = n
      BY <2>2 DEF InTree
    <3>2. PICK v \in Dom(r), l \in 0 .. 4 : Walk(tables, r, v, l) = n
      BY <3>1
    <3>3. Walk(tables', r, v, l) = n
      BY <1>8, <2>2, <3>2
    <3> QED BY <3>3 DEF InTree
  <2> QED BY <2>1, <2>2 DEF AllNodes
<1>11. TablesOK'
  <2>1. ~Present(NoEntry) /\ "huge" \notin NoEntry.flags /\ ~IsTable(NoEntry)
    BY DEF Present, NoEntry, IsTable
  <2>2. \A n \in Pages, i \in Entries :
           /\ IsTable(tables[n][i]) => tables[n][i].phys # NoFrame
           /\ "huge" \in tables[n][i].flags => n \in BootPages \ {KernelPml4}
    BY DEF MInv, TablesOK
  <2>3. \A n \in Pages, i \in Entries :
           /\ IsTable(tables'[n][i]) => tables'[n][i].phys # NoFrame
           /\ "huge" \in tables'[n][i].flags => n \in BootPages \ {KernelPml4}
    BY <1>7, <2>1, <2>2
  <2> QED BY <1>7, <2>3 DEF TablesOK, TypedTables
<1>12. LowOK'
  <2>1. ASSUME NEW r \in Roots, NEW i PROVE ~Hit(r, i)
    <3> SUFFICES ASSUME NEW u \in U, Walk(tables, KernelPml4, u, 1) = r PROVE FALSE
      BY DEF Hit
    <3>1. u \in Dom(KernelPml4)
      BY <1>1, RootsFacts
    <3> QED BY <1>1, <1>2, <3>1, RootNode
  <2>2. \A i \in 0 .. KernelHalf - 1 : i \in Entries
    BY KernelHalfFacts, EntriesFacts, SpanFacts DEF Levels
  <2>3. \A r \in Roots, i \in Entries : tables'[r][i] = tables[r][i]
    BY <1>1, <1>7, <2>1
  <2> QED BY <2>2, <2>3, EntriesFacts, RootsFacts DEF MInv, LowOK
<1> QED BY <1>8, <1>9, <1>10, <1>11, <1>12 DEF TreeOK, U

\* A kernel stack is unmapped, as far as it was mapped, and given back.
LEMMA StackGone ==
    ASSUME MInv, call.pc \in {"kundo", "kfree"}, call' = Idle, HasStack \/ Growing,
           NEW p, [page |-> p, count |-> KStackPages] \in runs, pmm_free(p, KStackPages),
           NEW to \in Int, call.base \in Nat,
           call.base .. to \subseteq call.base .. call.base + KStackPages - 1,
           call.base .. to \subseteq Window,
           tables' = Unmapped(call.base, to),
           Run(p, KStackPages) = {Walk(tables, KernelPml4, u, 0) : u \in call.base .. to} \cup Loose,
           \A v \in Window : Walk(tables, KernelPml4, v, 0) # NoFrame =>
               \/ \E t \in Live : v \in kstack[t] .. kstack[t] + KStackPages - 1
               \/ v \in call.base .. to,
           UNCHANGED <<space, kstack, next_virt, dropped>>
    PROVE  MInv'
<1> USE LayoutFacts
<1> DEFINE R == Run(p, KStackPages)
           U == call.base .. to
           S == {Walk(tables, KernelPml4, u, 0) : u \in U}
<1>1. /\ IInv' /\ runs' = runs \ {[page |-> p, count |-> KStackPages]}
      /\ HeldPages' = HeldPages \ R /\ UNCHANGED <<reserved, booting>>
  BY FreeTakes DEF MInv
<1>2. p \in R /\ p \in Nat
  BY RunHeld DEF MInv, Run
<1>3. call.pc \notin Creating /\ call'.pc = "idle" /\ call'.pc \notin Creating /\ ~HasStack' /\ ~Growing'
  BY DEF Creating, Idle, HasStack, Growing
<1>4. Live' = Live /\ Procs' = Procs /\ Roots' = Roots
  BY <1>3 DEF Live, Procs, Roots
<1>5. /\ TablesOK' /\ LowOK' /\ TreeOK'
      /\ \A r \in Roots : \A v \in Dom(r), l \in 0 .. 4 : Walk(tables', r, v, l) =
           IF r = KernelPml4 /\ v \in U /\ l = 0 THEN NoFrame ELSE Walk(tables, r, v, l)
      /\ AllNodes' = AllNodes \ S
  BY <1>4, UnmappedForest
<1>6. R = S \cup Loose
  OBVIOUS
<1> HIDE DEF R, U, S
<1>7. AllNodes' \cap R = {} /\ dropped \cap R = {}
  <2>1. Loose \cap AllNodes = {} /\ Loose \cap dropped = {} /\ dropped \cap AllNodes = {}
    BY DEF MInv, PlacesOK
  <2>2. \A u \in U : Walk(tables, KernelPml4, u, 0) \in R
    BY <1>6 DEF S
  <2>3. \A n \in R : n \in Pages \ {NoFrame}
    BY RunHeld, BootFacts DEF MInv, R
  <2>4. S \subseteq AllNodes
    <3>1. \A u \in U : u \in Dom(KernelPml4) /\ KernelPml4 \in Roots /\ 0 \in 0 .. 4
      BY RootsFacts DEF U
    <3> QED BY <2>2, <2>3, <3>1 DEF S, AllNodes, InTree
  <2> QED BY <1>5, <1>6, <2>1, <2>4
<1>8. \A n : Single(n) /\ n \notin R => [page |-> n, count |-> 1] \in runs'
  BY <1>1, <1>2 DEF Single
<1>9. \A r \in Roots : \A v \in Dom(r), l \in 0 .. 4 :
        Walk(tables', r, v, l) # NoFrame =>
          Walk(tables', r, v, l) = Walk(tables, r, v, l) /\ Walk(tables', r, v, l) \notin R
  <2> SUFFICES ASSUME NEW r \in Roots, NEW v \in Dom(r), NEW l \in 0 .. 4,
                      Walk(tables', r, v, l) # NoFrame
               PROVE  Walk(tables', r, v, l) = Walk(tables, r, v, l) /\ Walk(tables', r, v, l) \notin R
    OBVIOUS
  <2>1. TypedTables(tables') /\ r \in Pages /\ v \in AllPages
    BY <1>5, RootsFacts, DomFacts DEF TablesOK
  <2>2. Walk(tables', r, v, l) \in Pages
    BY <2>1, WalkTyped
  <2>3. Walk(tables', r, v, l) \in AllNodes'
    BY <1>4, <2>2 DEF AllNodes, InTree
  <2> QED BY <1>5, <1>7, <2>3
<1>10. HeldOK'
  <2>1. ASSUME NEW r \in Procs, NEW v \in UserPages, NEW l \in 0 .. 3,
               Walk(tables', r, v, l) # NoFrame
        PROVE  [page |-> Walk(tables', r, v, l), count |-> 1] \in runs'
    <3>1. l \in 0 .. 4 /\ r \in Roots /\ v \in Dom(r)
      BY RootsFacts
    <3>2. Walk(tables', r, v, l) = Walk(tables, r, v, l) /\ Walk(tables, r, v, l) \notin R
      BY <1>9, <2>1, <3>1
    <3>3. Single(Walk(tables, r, v, l))
      BY <2>1, <3>2 DEF MInv, HeldOK
    <3> QED BY <1>8, <3>2, <3>3
  <2>2. ASSUME NEW v \in Window, NEW l \in 1 .. 3, Walk(tables', KernelPml4, v, l) # NoFrame
        PROVE  \/ [page |-> Walk(tables', KernelPml4, v, l), count |-> 1] \in runs'
               \/ l = 3 /\ Walk(tables', KernelPml4, v, l) \in BootPages
    <3> DEFINE n == Walk(tables, KernelPml4, v, l)
    <3>1. l \in 0 .. 4 /\ KernelPml4 \in Roots /\ v \in Dom(KernelPml4)
      BY RootsFacts
    <3>2. Walk(tables', KernelPml4, v, l) = n /\ n \notin R /\ n # NoFrame
      BY <1>9, <2>2, <3>1
    <3>3. Single(n) \/ (l = 3 /\ n \in BootPages)
      BY <3>2 DEF MInv, HeldOK
    <3> QED BY <1>8, <3>2, <3>3
  <2> QED BY <1>4, <2>1, <2>2 DEF HeldOK, Single
<1>11. SpaceOK'
  <2>1. \A r \in Procs : Single(r) /\ r \notin R
    <3> SUFFICES ASSUME NEW r \in Procs PROVE Single(r) /\ r \notin R
      OBVIOUS
    <3>1. PICK w : w \in Dom(r)
      BY RootsFacts DEF UserStack
    <3>2. Walk(tables', r, w, 4) = r /\ r # NoFrame /\ r \in Roots /\ Single(r) /\ 4 \in 0 .. 4
      BY WalkTop, RootsFacts
    <3> QED BY <1>9, <3>1, <3>2
  <2>2. \A r \in Procs : [page |-> r, count |-> 1] \in runs'
    BY <1>8, <2>1
  <2> QED BY <1>3, <1>4, <2>2 DEF MInv, SpaceOK, Single
<1>12. BootOK' /\ StackFree' /\ GrowOK'
  <2>1. ~booting
    BY DEF MInv, BootOK, Idle
  <2> QED BY <1>1, <1>3, <2>1 DEF MInv, BootOK, StackFree, GrowOK
<1>13. CallOK'
  <2>1. call' \notin CreateCall
    BY <1>3 DEF CreateCall
  <2> QED BY <1>3, <2>1 DEF CallOK
<1>14. StacksOK'
  <2>1. \A t \in Live : /\ kstack[t] \in Nat /\ StackAt(tables, runs, next_virt, kstack[t])
                        /\ Apart(kstack[t], call.base)
    BY DEF MInv, StacksOK, SpaceOK, Live, StackMapped
  <2>2. ASSUME NEW b \in Nat, StackAt(tables, runs, next_virt, b), Apart(b, call.base)
        PROVE  StackAt(tables', runs', next_virt', b)
    <3>1. StackMapped(b) /\ b \in WindowStart .. next_virt - KStackPages
      BY <2>2 DEF StackMapped, StackAt
    <3>2. U \cap (b .. b + KStackPages - 1) = {}
      BY <2>2 DEF Apart, U
    <3>3. next_virt' \in Nat /\ next_virt' = next_virt
      BY DEF MInv, SpaceOK
    <3>4. b \in Window /\ b \notin U
      <4>1. 0 \in 0 .. KStackPages - 1 /\ b + 0 = b
        OBVIOUS
      <4> QED BY <3>1, <3>2, <4>1, StackInWindow
    <3>5. 0 \in 0 .. 4
      OBVIOUS
    <3>6. \A u \in Window : Walk(tables', KernelPml4, u, 0) = Walk(tables, KernelPml4, u, 0)
                            \/ ~(u \in b .. b + KStackPages - 1)
      BY <1>5, <3>2, <3>5, RootsFacts
    <3>7. Walk(tables, KernelPml4, b, 0) = Walk(tables', KernelPml4, b, 0)
      BY <1>5, <3>4, <3>5, RootsFacts
    <3>8. \A q : /\ [page |-> q, count |-> KStackPages] \in runs
                 /\ Walk(tables, KernelPml4, b, 0) = q
                 => [page |-> q, count |-> KStackPages] \in runs'
      <4> SUFFICES ASSUME NEW q, [page |-> q, count |-> KStackPages] \in runs,
                          Walk(tables, KernelPml4, b, 0) = q
                   PROVE  q # p
        BY <1>1
      <4>1. q # NoFrame
        <5>1. q \in Run(q, KStackPages)
          BY RunHeld DEF MInv, Run
        <5> QED BY <5>1, RunHeld, BootFacts DEF MInv
      <4> QED BY <1>2, <1>9, <3>4, <3>5, <3>7, <4>1, RootsFacts
    <3>9. StackMapped(b)'
      BY <3>1, <3>3, <3>6, <3>8, StackKept
    <3> QED BY <3>9 DEF StackMapped
  <2>3. \A t \in Live : StackMapped(kstack[t])'
    BY <2>1, <2>2 DEF StackMapped
  <2>4. \A t, u \in Live : t # u => Apart(kstack[t], kstack[u])
    BY DEF MInv, StacksOK
  <2>5. ASSUME NEW v \in Window, Walk(tables', KernelPml4, v, 0) # NoFrame
        PROVE  \E t \in Live : v \in kstack[t] .. kstack[t] + KStackPages - 1
    <3>1. 0 \in 0 .. 4
      OBVIOUS
    <3>2. v \notin U /\ Walk(tables, KernelPml4, v, 0) # NoFrame
      BY <1>5, <2>5, <3>1, RootsFacts
    <3> QED BY <3>2 DEF U
  <2> QED BY <1>3, <1>4, <2>3, <2>4, <2>5 DEF StacksOK
<1>15. LooseOK'
  <2>1. \A f \in dropped : [page |-> f, count |-> 1] \in runs'
    BY <1>7, <1>8 DEF MInv, LooseOK
  <2> QED BY <1>3, <2>1 DEF LooseOK, Single
<1>16. Loose' = {}
  BY <1>3 DEF Loose
<1>17. PlacesOK'
  <2>1. HeldPages \subseteq AllNodes \cup dropped \cup Loose /\ dropped \cap AllNodes = {}
    BY DEF MInv, PlacesOK
  <2> QED BY <1>1, <1>5, <1>6, <1>16, <2>1 DEF PlacesOK
<1> QED BY <1>1, <1>5, <1>10, <1>11, <1>12, <1>13, <1>14, <1>15, <1>17 DEF MInv

\* vmm_alloc_pages takes back the part of the kernel stack that it mapped.
LEMMA UndoStackKeepsMInv ==
    ASSUME MInv, UndoKernelStack
    PROVE  MInv'
<1> USE LayoutFacts
<1>1. /\ call.pc = "kundo" /\ tables' = Unmapped(call.base, call.v - 1)
      /\ pmm_free_pages(RunStart * PageSize, KStackPages)
      /\ call' = Idle /\ UNCHANGED <<space, kstack, next_virt, dropped>>
  BY DEF UndoKernelStack, RunStart
<1>2. Growing /\ ~HasStack
  BY <1>1 DEF Growing, HasStack, Creating
<1>3. /\ call.base \in Nat /\ call.v \in Nat /\ call.frame \in Nat /\ RunStart \in Nat
      /\ call.base \in WindowStart .. next_virt - KStackPages
      /\ call.v \in call.base .. call.base + KStackPages - 1
      /\ call.frame = RunStart + (call.v - call.base)
      /\ [page |-> RunStart, count |-> KStackPages] \in runs
      /\ Loose = call.frame .. RunStart + KStackPages - 1
  BY <1>2, GrowFacts
<1>4. pmm_free(RunStart, KStackPages)
  BY <1>1 DEF pmm_free, pmm_free_pages
<1>5. /\ call.v - 1 \in Int
      /\ call.base .. call.v - 1 \subseteq call.base .. call.base + KStackPages - 1
  BY <1>3
<1>6. call.base .. call.v - 1 \subseteq Window
  BY <1>3, <1>5, StackInWindow
<1>7. Run(RunStart, KStackPages) = {Walk(tables, KernelPml4, u, 0) : u \in call.base .. call.v - 1} \cup Loose
  <2> DEFINE b == call.base
             v == call.v
             q == RunStart
             W(u) == Walk(tables, KernelPml4, u, 0)
  <2>1. \A i \in 0 .. v - b - 1 : W(b + i) = q + i
    BY <1>2 DEF MInv, GrowOK
  <2>2. Run(q, KStackPages) = q .. q + KStackPages - 1
    BY DEF Run
  <2>3. b \in Nat /\ v \in b .. b + KStackPages - 1 /\ q \in Nat /\ Loose = q + (v - b) .. q + KStackPages - 1
    BY <1>3
  <2> HIDE DEF b, v, q, W
  <2>4. \A u \in b .. v - 1 : W(u) = q + (u - b)
    <3> SUFFICES ASSUME NEW u \in b .. v - 1 PROVE W(u) = q + (u - b)
      OBVIOUS
    <3>1. u - b \in 0 .. v - b - 1 /\ b + (u - b) = u
      BY <2>3
    <3>2. W(b + (u - b)) = q + (u - b)
      BY <2>1, <3>1
    <3> QED BY <3>1, <3>2
  <2>5. \A n \in q .. q + KStackPages - 1 :
           n \in q + (v - b) .. q + KStackPages - 1 \/ \E u \in b .. v - 1 : n = q + (u - b)
    <3> SUFFICES ASSUME NEW n \in q .. q + KStackPages - 1, ~(n \in q + (v - b) .. q + KStackPages - 1)
                 PROVE  \E u \in b .. v - 1 : n = q + (u - b)
      OBVIOUS
    <3>1. b + (n - q) \in b .. v - 1 /\ n = q + ((b + (n - q)) - b)
      BY <2>3
    <3> QED BY <3>1
  <2>6. \A u \in b .. v - 1 : q + (u - b) \in q .. q + KStackPages - 1
    BY <2>3
  <2>7. q + (v - b) .. q + KStackPages - 1 \subseteq q .. q + KStackPages - 1
    BY <2>3
  <2>8. Run(q, KStackPages) = {W(u) : u \in b .. v - 1} \cup Loose
    <3>1. \A u \in b .. v - 1 : W(u) \in Run(q, KStackPages)
      BY <2>2, <2>4, <2>6
    <3>2. Loose \subseteq Run(q, KStackPages)
      BY <2>2, <2>3, <2>7
    <3>3. \A n \in Run(q, KStackPages) : n \in Loose \/ \E u \in b .. v - 1 : n = W(u)
      BY <2>2, <2>3, <2>4, <2>5
    <3> QED BY ONLY <3>1, <3>2, <3>3
  <2> QED BY <2>8 DEF b, v, q, W
<1>8. \A v \in Window : Walk(tables, KernelPml4, v, 0) # NoFrame =>
          \/ \E t \in Live : v \in kstack[t] .. kstack[t] + KStackPages - 1
          \/ v \in call.base .. call.v - 1
  BY <1>2 DEF MInv, StacksOK
<1> QED BY <1>1, <1>2, <1>3, <1>4, <1>5, <1>6, <1>7, <1>8, StackGone

\* The kernel stack that vmm_free_pages is to give back is a run.
LEMMA StackToFree ==
    ASSUME MInv, call.pc = "kfree"
    PROVE  /\ call.base \in Nat /\ StackAt(tables, runs, next_virt, call.base)
           /\ \E p \in Pages :
                 /\ [page |-> p, count |-> KStackPages] \in runs
                 /\ \A i \in 0 .. KStackPages - 1 : Walk(tables, KernelPml4, call.base + i, 0) = p + i
                 /\ p \in Nat /\ p # NoFrame /\ vmm_get_physical(KernelPml4, call.base) = p
<1> USE LayoutFacts
<1>2. HasStack
  BY DEF HasStack
<1>3. call.base \in Nat /\ StackAt(tables, runs, next_virt, call.base)
  BY <1>2, CallShape DEF MInv, StacksOK, StackMapped
<1>4. PICK p \in Pages : /\ [page |-> p, count |-> KStackPages] \in runs
                         /\ \A i \in 0 .. KStackPages - 1 : Walk(tables, KernelPml4, call.base + i, 0) = p + i
  BY <1>3 DEF StackAt
<1>5. p \in Nat /\ p # NoFrame
  <2>1. p \in Run(p, KStackPages) /\ p \in Nat
    BY <1>4, RunHeld DEF MInv, Run
  <2> QED BY <1>4, <2>1, RunHeld, BootFacts DEF MInv
<1>6. Walk(tables, KernelPml4, call.base, 0) = p
  <2>1. 0 \in 0 .. KStackPages - 1 /\ call.base + 0 = call.base /\ p + 0 = p
    BY <1>3, <1>5
  <2>2. Walk(tables, KernelPml4, call.base + 0, 0) = p + 0
    BY <1>4, <2>1
  <2> QED BY <2>1, <2>2
<1>7. vmm_get_physical(KernelPml4, call.base) = p
  BY <1>6, PhysIsWalk
<1> QED BY <1>3, <1>4, <1>5, <1>7

\* The kernel stack of a process that is gone is unmapped and given back.
LEMMA FreePagesKeepsMInv ==
    ASSUME MInv, vmm_free_pages
    PROVE  MInv'
<1> USE LayoutFacts
<1> DEFINE top == call.base + KStackPages - 1
<1>1. /\ call.pc = "kfree" /\ tables' = Unmapped(call.base, top)
      /\ call' = Idle /\ UNCHANGED <<space, kstack, next_virt, dropped>>
  BY DEF vmm_free_pages
<1>2. HasStack /\ ~Growing /\ Loose = {}
  BY <1>1 DEF Growing, HasStack, Loose
<1>3. call.base \in Nat /\ StackAt(tables, runs, next_virt, call.base)
  BY <1>1, StackToFree
<1>4. PICK p \in Pages :
        /\ [page |-> p, count |-> KStackPages] \in runs
        /\ \A i \in 0 .. KStackPages - 1 : Walk(tables, KernelPml4, call.base + i, 0) = p + i
        /\ p \in Nat /\ p # NoFrame /\ vmm_get_physical(KernelPml4, call.base) = p
  BY <1>1, StackToFree
<1>5. p \in Nat /\ p # NoFrame
  BY <1>4
<1>7. pmm_free(p, KStackPages)
  BY <1>4, <1>5 DEF vmm_free_pages
<1>8. top \in Int /\ call.base .. top \subseteq call.base .. call.base + KStackPages - 1
  BY <1>3
<1>9. call.base .. top \subseteq Window
  <2>1. call.base \in WindowStart .. next_virt - KStackPages
    BY <1>3 DEF StackAt
  <2> QED BY <2>1, StackInWindow
<1>10. Run(p, KStackPages) = {Walk(tables, KernelPml4, u, 0) : u \in call.base .. top} \cup Loose
  <2> DEFINE b == call.base
             W(u) == Walk(tables, KernelPml4, u, 0)
  <2>1. \A i \in 0 .. KStackPages - 1 : W(b + i) = p + i
    BY <1>4
  <2>2. Run(p, KStackPages) = p .. p + KStackPages - 1
    BY DEF Run
  <2>3. b \in Nat
    BY <1>3
  <2> HIDE DEF b, W
  <2>4. \A u \in b .. b + KStackPages - 1 : W(u) = p + (u - b)
    <3> SUFFICES ASSUME NEW u \in b .. b + KStackPages - 1 PROVE W(u) = p + (u - b)
      OBVIOUS
    <3>1. u - b \in 0 .. KStackPages - 1 /\ b + (u - b) = u
      BY <2>3
    <3>2. W(b + (u - b)) = p + (u - b)
      BY <2>1, <3>1
    <3> QED BY <3>1, <3>2
  <2>5. \A n \in p .. p + KStackPages - 1 : \E u \in b .. b + KStackPages - 1 : n = p + (u - b)
    <3> SUFFICES ASSUME NEW n \in p .. p + KStackPages - 1
                 PROVE  \E u \in b .. b + KStackPages - 1 : n = p + (u - b)
      OBVIOUS
    <3>1. b + (n - p) \in b .. b + KStackPages - 1 /\ n = p + ((b + (n - p)) - b)
      BY <1>5, <2>3
    <3> QED BY <3>1
  <2>6. \A u \in b .. b + KStackPages - 1 : p + (u - b) \in p .. p + KStackPages - 1
    BY <1>5, <2>3
  <2>8. Run(p, KStackPages) = {W(u) : u \in b .. b + KStackPages - 1}
    BY <2>2, <2>4, <2>5, <2>6
  <2> QED BY <1>2, <2>8 DEF b, W
<1>11. \A v \in Window : Walk(tables, KernelPml4, v, 0) # NoFrame =>
          \/ \E t \in Live : v \in kstack[t] .. kstack[t] + KStackPages - 1
          \/ v \in call.base .. top
  BY <1>2 DEF MInv, StacksOK
<1> HIDE DEF top
<1> QED BY <1>1, <1>2, <1>3, <1>4, <1>7, <1>8, <1>9, <1>10, <1>11, StackGone

\* Where elf_load goes on after n segments: at the first page of a segment
\* that is not empty, at the stack, or it gives up.
LEMMA AfterSegmentsFacts ==
    ASSUME NEW n \in Nat, call.prog \in Programs
    PROVE  \E pc \in {"page", "stack", "undo"}, v \in Nat, seg \in Nat :
              /\ AfterSegments(n) = [pc |-> pc, v |-> v, seg |-> seg]
              /\ pc = "stack" => /\ v = StackTop - StackPages
                                 /\ \A j \in n + 1 .. Len(call.prog) : call.prog[j].memsz = 0
              /\ pc = "page" => /\ seg \in DOMAIN call.prog /\ call.prog[seg].memsz # 0
                                /\ v = FirstPage(call.prog[seg])
                                /\ seg > n /\ \A j \in n + 1 .. seg - 1 : call.prog[j].memsz = 0
<1> DEFINE rest == {i \in n + 1 .. Len(call.prog) : call.prog[i].memsz # 0}
           i == CHOOSE k \in rest : \A j \in rest : k <= j
<1>1. call.prog \in Seq(Segment)
  BY AddressSpaceAssumption
<1>2. AfterSegments(n) =
        IF rest = {} THEN [pc |-> "stack", v |-> StackTop - StackPages, seg |-> n]
        ELSE IF call.prog[i].filesz > call.prog[i].memsz \/ ~call.prog[i].inside
        THEN [pc |-> "undo", v |-> 0, seg |-> i]
        ELSE [pc |-> "page", v |-> FirstPage(call.prog[i]), seg |-> i]
  BY DEF AfterSegments
<1>3. CASE rest = {}
  <2>1. StackTop - StackPages \in Nat
    BY LayoutFacts
  <2>2. AfterSegments(n) = [pc |-> "stack", v |-> StackTop - StackPages, seg |-> n]
    BY <1>2, <1>3
  <2>3. \A j \in n + 1 .. Len(call.prog) : call.prog[j].memsz = 0
    BY <1>3
  <2> QED BY <2>1, <2>2, <2>3
<1>4. CASE rest # {}
  <2>1. Len(call.prog) \in Nat /\ DOMAIN call.prog = 1 .. Len(call.prog)
    BY <1>1
  <2>2. rest \subseteq Nat
    BY <2>1
  <2>3. \E k \in rest : \A j \in rest : k <= j
    BY <1>4, <2>2, LeastMember
  <2>4. i \in rest /\ \A j \in rest : i <= j
    BY <2>3
  <2> HIDE DEF i
  <2>5. i \in Nat /\ i \in DOMAIN call.prog /\ call.prog[i].memsz # 0 /\ i > n
    BY <2>1, <2>4
  <2>9. \A j \in n + 1 .. i - 1 : call.prog[j].memsz = 0
    <3> SUFFICES ASSUME NEW j \in n + 1 .. i - 1, call.prog[j].memsz # 0 PROVE FALSE
      OBVIOUS
    <3>1. j \in n + 1 .. Len(call.prog) /\ ~(i <= j)
      BY <2>1, <2>5
    <3> QED BY <2>4, <3>1
  <2>6. FirstPage(call.prog[i]) \in Nat
    BY <2>5, SegmentPages
  <2>7. CASE call.prog[i].filesz > call.prog[i].memsz \/ ~call.prog[i].inside
    <3>1. AfterSegments(n) = [pc |-> "undo", v |-> 0, seg |-> i]
      BY <1>2, <1>4, <2>7 DEF i
    <3> QED BY <2>5, <3>1
  <2>8. CASE ~(call.prog[i].filesz > call.prog[i].memsz \/ ~call.prog[i].inside)
    <3>1. AfterSegments(n) = [pc |-> "page", v |-> FirstPage(call.prog[i]), seg |-> i]
      BY <1>2, <1>4, <2>8 DEF i
    <3> QED BY <2>5, <2>6, <2>9, <3>1
  <2> QED BY <2>7, <2>8
<1> QED BY <1>3, <1>4

\* The creation is well formed there.
LEMMA ContinueFacts ==
    ASSUME CallOK, call \in CreateCall, NEW n \in Nat, NEW root \in Pages,
           call' = [Continue(AfterSegments(n)) EXCEPT !.root = root], Live' = Live
    PROVE  /\ CallOK' /\ call' \in CreateCall
           /\ call'.pc \in {"page", "stack", "undo"} /\ call'.pc \in Creating
           /\ call'.root = root /\ call'.base = call.base
<1>1. call.prog \in Programs /\ call.t \notin Live
  BY CallShape DEF CallOK
<1>2. PICK pc \in {"page", "stack", "undo"}, v \in Nat, seg \in Nat :
              /\ AfterSegments(n) = [pc |-> pc, v |-> v, seg |-> seg]
              /\ pc = "stack" => /\ v = StackTop - StackPages
                                 /\ \A j \in n + 1 .. Len(call.prog) : call.prog[j].memsz = 0
              /\ pc = "page" => /\ seg \in DOMAIN call.prog /\ call.prog[seg].memsz # 0
                                /\ v = FirstPage(call.prog[seg])
                                /\ seg > n /\ \A j \in n + 1 .. seg - 1 : call.prog[j].memsz = 0
  BY <1>1, AfterSegmentsFacts
<1>3. call' = [call EXCEPT !.pc = pc, !.v = v, !.seg = seg, !.root = root]
  BY <1>2 DEF Continue, CreateCall
<1>4. /\ call' \in CreateCall /\ call'.pc = pc /\ call'.v = v /\ call'.seg = seg
      /\ call'.root = root /\ call'.base = call.base /\ call'.prog = call.prog /\ call'.t = call.t
  BY <1>3 DEF CreateCall, Creating
<1>5. pc = "page" => v \in FirstPage(call.prog[seg]) .. LastPage(call.prog[seg])
  BY <1>1, <1>2, SegmentPages
<1>6. pc = "stack" => v \in UserStack
  BY <1>2, LayoutFacts DEF UserStack
<1>7. CallOK'
  BY <1>1, <1>2, <1>4, <1>5, <1>6 DEF CallOK
<1> QED BY <1>4, <1>7 DEF Creating

\* vmm_create_address_space: a new PML4 that shares the kernel's entries.
LEMMA CreateSpaceKeepsMInv ==
    ASSUME MInv, vmm_create_address_space
    PROVE  MInv'
<1> USE LayoutFacts
<1>1. PICK g : g = Got
  OBVIOUS
<1>2. /\ call.pc = "dir" /\ pmm_alloc_pages(1)
      /\ tables' = [tables EXCEPT ![g] =
            [i \in DOMAIN Cleared |->
                IF i = 0 \/ i >= KernelHalf THEN tables[KernelPml4][i] ELSE NoEntry]]
      /\ call' = [Continue(AfterSegments(0)) EXCEPT !.root = g]
      /\ UNCHANGED <<space, kstack, next_virt, dropped>>
  BY <1>1 DEF vmm_create_address_space
<1>3. /\ IInv' /\ g \in Pages /\ runs' = runs \cup {[page |-> g, count |-> 1]}
      /\ {g} \cap HeldPages = {} /\ {g} \cap ReservedPages = {}
      /\ HeldPages' = HeldPages \cup {g} /\ UNCHANGED <<reserved, booting>>
  <2>1. g \in Pages
    BY <1>1, <1>2, AllocGives DEF MInv
  <2>2. Run(g, 1) = {g}
    BY <2>1, RunOne, TotalPagesPositive DEF Pages
  <2> QED BY <1>1, <1>2, <2>1, <2>2, AllocGives DEF MInv
<1>4. /\ ~InTree(tables, Roots, g) /\ g # NoFrame /\ g # KernelPml4 /\ g \notin BootPages
      /\ g \notin AllNodes /\ g \notin Loose /\ g \notin dropped
  <2>1. {g} \subseteq Pages
    BY <1>3
  <2> QED BY <1>3, <2>1, FreshFacts
<1>5. call \in CreateCall /\ call.t \notin Live /\ call.base \in Nat
  BY <1>2, CreatingCall DEF MInv
<1>6. Live' = Live
  BY <1>2 DEF Live
<1>7. /\ CallOK' /\ call' \in CreateCall
      /\ call'.pc \in {"page", "stack", "undo"} /\ call'.pc \in Creating
      /\ call'.root = g /\ call'.base = call.base
  <2>1. 0 \in Nat
    OBVIOUS
  <2> QED BY <1>2, <1>3, <1>5, <1>6, <2>1, ContinueFacts DEF MInv
<1>8. /\ HasStack /\ HasStack' /\ ~Growing /\ ~Growing' /\ call.pc \notin Creating
      /\ Loose = {} /\ Loose' = {}
  BY <1>2, <1>7 DEF HasStack, Growing, Loose, Creating
<1>9. Procs' = Procs \cup {g} /\ Roots' = Roots \cup {g}
  BY <1>2, <1>6, <1>7, <1>8 DEF Procs, Roots
<1>10. /\ \A n \in Pages \ {g}, i \in Entries : tables'[n][i] = tables[n][i]
       /\ \A i \in Entries : tables'[g][i] =
             IF i = 0 \/ i >= KernelHalf THEN tables[KernelPml4][i] ELSE NoEntry
       /\ tables' \in [Pages -> [Entries -> Entry]]
  <2>1. tables \in [Pages -> [Entries -> Entry]] /\ KernelPml4 \in Pages
    BY BootFacts DEF MInv, TablesOK, TypedTables
  <2>2. DOMAIN Cleared = Entries
    BY DEF Cleared
  <2>3. NoEntry \in Entry
    BY ZeroPage DEF Entry, NoEntry
  <2> QED BY <1>2, <1>3, <2>1, <2>2, <2>3
<1>11. /\ \A r \in Roots : \A v \in Dom(r), l \in 0 .. 4 : Walk(tables', r, v, l) = Walk(tables, r, v, l)
       /\ \A v \in UserPages, l \in 0 .. 3 : Walk(tables', g, v, l) = NoFrame
  <2>1. \A i \in Entries : i \in 1 .. KernelHalf - 1 => tables'[g][i] = NoEntry
    BY <1>10, KernelHalfFacts
  <2> QED BY <1>3, <1>4, <1>10, <2>1, RootsFacts, RootAdded DEF MInv, TablesOK
<1>12. TreeOK'
  <2>1. Unique(tables', Roots \cup {g})
    BY <1>4, <1>11, RootUnique DEF MInv, TreeOK
  <2> QED BY <1>9, <2>1 DEF TreeOK
<1>13. TablesOK'
  <2>1. \A n \in Pages, i \in Entries :
           /\ IsTable(tables[n][i]) => tables[n][i].phys # NoFrame
           /\ "huge" \in tables[n][i].flags => n \in BootPages \ {KernelPml4}
    BY DEF MInv, TablesOK
  <2>2. ~Present(NoEntry) /\ "huge" \notin NoEntry.flags /\ ~IsTable(NoEntry)
    BY DEF Present, NoEntry, IsTable
  <2>3. ASSUME NEW n \in Pages, NEW i \in Entries
        PROVE  /\ IsTable(tables'[n][i]) => tables'[n][i].phys # NoFrame
               /\ "huge" \in tables'[n][i].flags => n \in BootPages \ {KernelPml4}
    <3>1. CASE n # g
      BY <1>10, <2>1, <3>1
    <3>2. CASE n = g
      BY <1>10, <2>1, <2>2, <3>2, BootFacts
    <3> QED BY <3>1, <3>2
  <2> QED BY <1>10, <2>3 DEF TablesOK, TypedTables
<1>14. LowOK'
  <2>1. \A i \in 0 .. KernelHalf - 1 : i \in Entries
    BY KernelHalfFacts, EntriesFacts, SpanFacts DEF Levels
  <2>2. \A r \in Roots : r \in Pages \ {g}
    <3>1. \A r \in Procs : r # g
      BY <1>3, RootsFacts, SingleFacts DEF MInv
    <3> QED BY <1>4, <3>1, RootsFacts DEF Roots
  <2>3. 0 \in Entries /\ 0 \in 0 .. KernelHalf - 1
    BY EntriesFacts, KernelHalfFacts
  <2>4. \A r \in Roots, i \in Entries : tables'[r][i] = tables[r][i]
    BY <1>10, <2>2
  <2>5. tables'[g][0] = tables[KernelPml4][0]
    BY <1>10, <2>3
  <2>6. \A r \in Procs : r \in Roots
    BY RootsFacts
  <2> QED BY <1>9, <2>1, <2>3, <2>4, <2>5, <2>6, RootsFacts DEF MInv, LowOK
<1>15. AllNodes' = AllNodes \cup {g}
  <2>1. ASSUME NEW n \in Pages \ {NoFrame}, InTree(tables', Roots \cup {g}, n)
        PROVE  InTree(tables, Roots, n) \/ n = g
    <3>1. PICK r \in Roots \cup {g} : \E v \in Dom(r), l \in 0 .. 4 : Walk(tables', r, v, l) = n
      BY <2>1 DEF InTree
    <3>2. PICK v \in Dom(r), l \in 0 .. 4 : Walk(tables', r, v, l) = n
      BY <3>1
    <3>3. CASE r \in Roots
      BY <1>11, <3>2, <3>3 DEF InTree
    <3>4. CASE r = g
      <4>1. v \in UserPages
        BY <1>4, <3>2, <3>4 DEF Dom
      <4>2. l = 4
        BY <1>11, <3>2, <3>4, <4>1
      <4> QED BY <3>2, <3>4, <4>2, WalkTop
    <3> QED BY <3>3, <3>4
  <2>2. ASSUME NEW n \in Pages \ {NoFrame}, InTree(tables, Roots, n)
        PROVE  InTree(tables', Roots \cup {g}, n)
    BY <1>11, <2>2 DEF InTree
  <2>3. InTree(tables', Roots \cup {g}, g)
    <3>1. PICK v : v \in UserPages
      BY DEF UserStack
    <3>2. v \in Dom(g) /\ 4 \in 0 .. 4 /\ g \in Roots \cup {g}
      BY <1>4, <3>1 DEF Dom
    <3> QED BY <3>2, WalkTop DEF InTree
  <2> QED BY <1>3, <1>4, <1>9, <2>1, <2>2, <2>3 DEF AllNodes
<1>16. /\ [page |-> g, count |-> 1] \in runs'
       /\ \A n : Single(n) => [page |-> n, count |-> 1] \in runs'
  BY <1>3 DEF Single
<1>17. HeldOK'
  <2>1. ASSUME NEW r \in Procs \cup {g}, NEW v \in UserPages, NEW l \in 0 .. 3,
               Walk(tables', r, v, l) # NoFrame
        PROVE  [page |-> Walk(tables', r, v, l), count |-> 1] \in runs'
    <3>1. r \in Procs
      BY <1>11, <2>1
    <3>2. l \in 0 .. 4 /\ r \in Roots /\ v \in Dom(r)
      BY <3>1, RootsFacts
    <3>3. Walk(tables', r, v, l) = Walk(tables, r, v, l)
      BY <1>11, <3>2
    <3>4. Single(Walk(tables, r, v, l))
      BY <2>1, <3>1, <3>3 DEF MInv, HeldOK
    <3> QED BY <1>16, <3>3, <3>4
  <2>2. ASSUME NEW v \in Window, NEW l \in 1 .. 3, Walk(tables', KernelPml4, v, l) # NoFrame
        PROVE  \/ [page |-> Walk(tables', KernelPml4, v, l), count |-> 1] \in runs'
               \/ l = 3 /\ Walk(tables', KernelPml4, v, l) \in BootPages
    <3>1. l \in 0 .. 4 /\ KernelPml4 \in Roots /\ v \in Dom(KernelPml4)
      BY RootsFacts
    <3>2. Walk(tables', KernelPml4, v, l) = Walk(tables, KernelPml4, v, l)
      BY <1>11, <3>1
    <3>3. Single(Walk(tables, KernelPml4, v, l)) \/ (l = 3 /\ Walk(tables, KernelPml4, v, l) \in BootPages)
      BY <2>2, <3>2 DEF MInv, HeldOK
    <3> QED BY <1>16, <3>2, <3>3
  <2> QED BY <1>9, <2>1, <2>2 DEF HeldOK, Single
<1>18. SpaceOK'
  <2>1. \A t \in Live : space[t] # g
    BY <1>3, SingleFacts DEF MInv, SpaceOK, Procs
  <2>2. \A r \in Procs' : [page |-> r, count |-> 1] \in runs'
    BY <1>9, <1>16, RootsFacts
  <2> QED BY <1>2, <1>6, <1>7, <2>1, <2>2 DEF MInv, SpaceOK, Single
<1>19. BootOK' /\ GrowOK'
  <2>1. ~booting
    BY <1>2 DEF MInv, BootOK, Idle
  <2> QED BY <1>3, <1>8, <2>1 DEF MInv, BootOK, GrowOK
<1>20. StackFree'
  <2>1. \A u \in UserStack : Walk(tables', g, u, 0) = NoFrame
    <3>1. 0 \in 0 .. 3
      OBVIOUS
    <3> QED BY <1>11, <3>1
  <2> QED BY <1>7, <2>1 DEF StackFree
<1>21. StacksOK'
  <2>1. 0 \in 0 .. 4
    OBVIOUS
  <2>2. \A u \in Window : Walk(tables', KernelPml4, u, 0) = Walk(tables, KernelPml4, u, 0)
    BY <1>11, <2>1, RootsFacts
  <2>3. runs \subseteq runs'
    BY <1>3
  <2> QED BY <1>2, <1>7, <1>8, <2>2, <2>3, StacksSame
<1>22. LooseOK'
  <2>1. \A f \in dropped : [page |-> f, count |-> 1] \in runs'
    BY <1>16 DEF MInv, LooseOK
  <2> QED BY <1>2, <1>7, <2>1 DEF LooseOK, Single
<1>23. PlacesOK'
  <2>1. HeldPages \subseteq AllNodes \cup dropped \cup Loose /\ dropped \cap AllNodes = {}
    BY DEF MInv, PlacesOK
  <2> QED BY <1>2, <1>3, <1>4, <1>8, <1>15, <2>1 DEF PlacesOK
<1> QED BY <1>3, <1>7, <1>12, <1>13, <1>14, <1>17, <1>18, <1>19, <1>20, <1>21, <1>22, <1>23 DEF MInv

\* vmm_change_flags on the pages of a segment leaves the trees as they are.
LEMMA FilledForest ==
    ASSUME MInv, FillSegment, Roots' = Roots, Procs' = Procs
    PROVE  /\ TablesOK' /\ LowOK' /\ TreeOK' /\ AllNodes' = AllNodes
           /\ \A r \in Roots : \A v \in Dom(r), l \in 0 .. 4 : Walk(tables', r, v, l) = Walk(tables, r, v, l)
<1> DEFINE seg == call.prog[call.seg]
           s == call.root
           U == FirstPage(seg) .. LastPage(seg)
           Hit(n, i) == \E u \in U : Walk(tables, s, u, 1) = n /\ Index(u, 1) = i /\ n # NoFrame /\ Present(tables[n][i])
<1>1. call.pc = "fill" /\ call.pc \in Creating
  BY DEF FillSegment, Creating
<1>2. call.prog \in Programs /\ call.seg \in DOMAIN call.prog /\ seg.memsz # 0
  BY <1>1, CreatingCall DEF MInv, CallOK
<1>3. U \subseteq UserPages
  BY <1>2, SegmentPages
<1>4. s \in Roots /\ s \in Procs /\ Dom(s) = UserPages /\ s # KernelPml4
  BY <1>1, CallRoot
<1>5. TypedTables(tables) /\ Unique(tables, Roots) /\ Roots \in SUBSET Pages
  BY RootsFacts DEF MInv, TablesOK, TreeOK
<1>6. tables \in [Pages -> [Entries -> Entry]]
  BY <1>5 DEF TypedTables
<1>7. tables' = IF seg.writable THEN tables
                ELSE [n \in Pages |-> [i \in DOMAIN tables[n] |->
                        IF Hit(n, i) THEN [tables[n][i] EXCEPT !.flags = {"present", "user"}]
                        ELSE tables[n][i]]]
  <2>1. \A u : Path(s, u)[1] = Walk(tables, s, u, 1)
    <3>1. 1 \in 1 .. 4
      OBVIOUS
    <3> QED BY <3>1, PathIsWalk
  <2> QED BY <2>1 DEF FillSegment
<1>8. ASSUME NEW u \in U, Walk(tables, s, u, 1) # NoFrame
      PROVE  /\ Walk(tables, s, u, 1) \in Pages /\ Index(u, 1) \in Entries
             /\ "huge" \notin tables[Walk(tables, s, u, 1)][Index(u, 1)].flags
  <2>1. u \in Dom(s) /\ u \in UserPages /\ 1 \in 0 .. 3 /\ 1 \in 1 .. 4
    BY <1>3, <1>4
  <2>2. Single(Walk(tables, s, u, 1))
    BY <1>4, <1>8, <2>1 DEF MInv, HeldOK
  <2>3. Walk(tables, s, u, 1) \in Pages /\ Walk(tables, s, u, 1) \notin BootPages
    BY <2>2, SingleFacts DEF MInv
  <2>4. Index(u, 1) \in Entries
    BY <2>1, DomFacts
  <2> QED BY <2>3, <2>4 DEF MInv, TablesOK
<1> HIDE DEF seg, s, U
<1>9. CASE seg.writable
  <2>1. tables' = tables
    BY <1>7, <1>9
  <2>2. runs \subseteq runs'
    BY DEF FillSegment, pmmVars
  <2> QED BY <2>1, <2>2, SameTables
<1>10. CASE ~seg.writable
  <2>1. \A n \in Pages, i \in Entries : tables'[n][i] =
           IF Hit(n, i) THEN [tables[n][i] EXCEPT !.flags = {"present", "user"}] ELSE tables[n][i]
    <3> HIDE DEF Hit
    <3> QED BY <1>6, <1>7, <1>10
  <2>2. tables' \in [Pages -> [Entries -> Entry]]
    <3>1. \A e \in Entry : [e EXCEPT !.flags = {"present", "user"}] \in Entry
      BY DEF Entry
    <3> HIDE DEF Hit
    <3> QED BY <1>6, <1>7, <1>10, <3>1
  <2>3. Protected(tables, tables', s, U)
    BY <2>1 DEF Protected
  <2>4. U \in SUBSET Dom(s)
    BY <1>3, <1>4
  <2>5. \A r \in Roots : \A v \in Dom(r) : \A l \in 0 .. 4 : Walk(tables', r, v, l) = Walk(tables, r, v, l)
    <3> SUFFICES ASSUME NEW r \in Roots, NEW v \in Dom(r)
                 PROVE  \A l \in 0 .. 4 : Walk(tables', r, v, l) = Walk(tables, r, v, l)
      OBVIOUS
    <3>1. \A u \in U : Walk(tables, s, u, 1) # NoFrame =>
             "huge" \notin tables[Walk(tables, s, u, 1)][Index(u, 1)].flags
      BY <1>8
    <3> QED BY <1>4, <1>5, <2>3, <2>4, <3>1, FlagsChanged
  <2>6. Unique(tables', Roots)
    BY <1>5, <2>5, FewerUnique
  <2>7. \A n \in Pages, i \in Entries :
           /\ IsTable(tables'[n][i]) => tables'[n][i].phys # NoFrame
           /\ "huge" \in tables'[n][i].flags => n \in BootPages \ {KernelPml4}
    <3> SUFFICES ASSUME NEW n \in Pages, NEW i \in Entries
                 PROVE  /\ IsTable(tables'[n][i]) => tables'[n][i].phys # NoFrame
                        /\ "huge" \in tables'[n][i].flags => n \in BootPages \ {KernelPml4}
      OBVIOUS
    <3>1. /\ IsTable(tables[n][i]) => tables[n][i].phys # NoFrame
          /\ "huge" \in tables[n][i].flags => n \in BootPages \ {KernelPml4}
      BY DEF MInv, TablesOK
    <3>2. CASE ~Hit(n, i)
      BY <2>1, <3>1, <3>2
    <3>3. CASE Hit(n, i)
      <4>1. tables[n][i] \in Entry /\ tables'[n][i] = [tables[n][i] EXCEPT !.flags = {"present", "user"}]
        BY <1>6, <2>1, <3>3
      <4>2. tables'[n][i].phys = tables[n][i].phys /\ tables'[n][i].flags = {"present", "user"}
        BY <4>1 DEF Entry
      <4>3. PICK u \in U : Walk(tables, s, u, 1) = n /\ Index(u, 1) = i /\ n # NoFrame /\ Present(tables[n][i])
        BY <3>3
      <4>4. "huge" \notin tables[n][i].flags
        BY <1>8, <4>3
      <4> QED BY <3>1, <4>2, <4>3, <4>4 DEF IsTable
    <3> QED BY <3>2, <3>3
  <2>8. LowOK'
    <3>1. ASSUME NEW r \in Roots, NEW i PROVE ~Hit(r, i)
      <4> SUFFICES ASSUME NEW u \in U, Walk(tables, s, u, 1) = r PROVE FALSE
        OBVIOUS
      <4>1. u \in Dom(s) /\ 1 \in 0 .. 4
        BY <2>4
      <4> QED BY <1>4, <4>1, RootNode
    <3>2. \A i \in 0 .. KernelHalf - 1 : i \in Entries
      BY KernelHalfFacts, EntriesFacts, SpanFacts DEF Levels
    <3>3. \A r \in Roots, i \in Entries : tables'[r][i] = tables[r][i]
      BY <1>5, <2>1, <3>1
    <3> QED BY <3>2, <3>3, EntriesFacts, RootsFacts DEF MInv, LowOK
  <2>9. AllNodes' = AllNodes
    <3>1. \A n : InTree(tables', Roots, n) <=> InTree(tables, Roots, n)
      BY <2>5 DEF InTree
    <3> QED BY <3>1 DEF AllNodes
  <2> QED BY <2>2, <2>5, <2>6, <2>7, <2>8, <2>9 DEF TablesOK, TypedTables, TreeOK
<1> QED BY <1>9, <1>10

\* A segment is filled, and elf_load goes on.
LEMMA FillSegmentKeepsMInv ==
    ASSUME MInv, FillSegment
    PROVE  MInv'
<1>1. /\ call.pc = "fill" /\ call.pc \in Creating /\ UNCHANGED pmmVars
      /\ UNCHANGED <<space, kstack, next_virt, dropped>>
      /\ call' = Continue(AfterSegments(call.seg))
  BY DEF FillSegment, Creating
<1>2. IInv' /\ UNCHANGED <<runs, reserved, booting>> /\ HeldPages' = HeldPages
  BY <1>1, PmmQuiet DEF MInv
<1>3. call \in CreateCall /\ call.seg \in Nat /\ call.root \in Pages
  BY <1>1, CreatingCall DEF MInv
<1>4. Live' = Live
  BY <1>1 DEF Live
<1>5. call' = [Continue(AfterSegments(call.seg)) EXCEPT !.root = call.root]
  BY <1>1, <1>3 DEF Continue, CreateCall
<1>6. /\ CallOK' /\ call' \in CreateCall
      /\ call'.pc \in {"page", "stack", "undo"} /\ call'.pc \in Creating
      /\ call'.root = call.root /\ call'.base = call.base
  BY <1>3, <1>4, <1>5, ContinueFacts DEF MInv
<1>7. Procs' = Procs /\ Roots' = Roots
  BY <1>1, <1>4, <1>6 DEF Procs, Roots
<1>8. /\ TablesOK' /\ LowOK' /\ TreeOK' /\ AllNodes' = AllNodes
      /\ \A r \in Roots : \A v \in Dom(r), l \in 0 .. 4 : Walk(tables', r, v, l) = Walk(tables, r, v, l)
  BY <1>7, FilledForest
<1>9. \A n : Single(n) => [page |-> n, count |-> 1] \in runs'
  BY <1>2 DEF Single
<1>10. HeldOK'
  <2>1. ASSUME NEW r \in Procs, NEW v \in UserPages, NEW l \in 0 .. 3,
               Walk(tables', r, v, l) # NoFrame
        PROVE  [page |-> Walk(tables', r, v, l), count |-> 1] \in runs'
    <3>2. l \in 0 .. 4 /\ r \in Roots /\ v \in Dom(r)
      BY RootsFacts
    <3>3. Walk(tables', r, v, l) = Walk(tables, r, v, l)
      BY <1>8, <3>2
    <3>4. Single(Walk(tables, r, v, l))
      BY <2>1, <3>3 DEF MInv, HeldOK
    <3> QED BY <1>9, <3>3, <3>4
  <2>2. ASSUME NEW v \in Window, NEW l \in 1 .. 3, Walk(tables', KernelPml4, v, l) # NoFrame
        PROVE  \/ [page |-> Walk(tables', KernelPml4, v, l), count |-> 1] \in runs'
               \/ l = 3 /\ Walk(tables', KernelPml4, v, l) \in BootPages
    <3>1. l \in 0 .. 4 /\ KernelPml4 \in Roots /\ v \in Dom(KernelPml4)
      BY RootsFacts
    <3>2. Walk(tables', KernelPml4, v, l) = Walk(tables, KernelPml4, v, l)
      BY <1>8, <3>1
    <3>3. Single(Walk(tables, KernelPml4, v, l)) \/ (l = 3 /\ Walk(tables, KernelPml4, v, l) \in BootPages)
      BY <2>2, <3>2 DEF MInv, HeldOK
    <3> QED BY <1>9, <3>2, <3>3
  <2> QED BY <1>7, <2>1, <2>2 DEF HeldOK, Single
<1>11. 0 \in 0 .. 4
  OBVIOUS
<1>12. BootOK' /\ SpaceOK' /\ StacksOK' /\ GrowOK'
  <2>1. \A u \in Window : Walk(tables', KernelPml4, u, 0) = Walk(tables, KernelPml4, u, 0)
    BY <1>8, <1>11, RootsFacts
  <2>2. dropped' \subseteq Pages
    BY <1>1 DEF MInv, SpaceOK
  <2> QED BY <1>1, <1>2, <1>6, <2>1, <2>2, CreatingFrame
<1>13. StackFree'
  <2>1. \A u \in UserStack : Walk(tables, call.root, u, 0) = NoFrame
    BY <1>1 DEF MInv, StackFree
  <2>2. \A u \in UserStack : u \in Dom(call.root) /\ call.root \in Roots
    BY <1>1, CallRoot, LayoutFacts
  <2>3. \A u \in UserStack : Walk(tables', call'.root, u, 0) = NoFrame
    BY <1>6, <1>8, <1>11, <2>1, <2>2
  <2> QED BY <2>3 DEF StackFree
<1>14. Loose = {} /\ Loose' = {}
  BY <1>1, <1>6 DEF Loose, Growing
<1>15. LooseOK'
  <2>1. \A f \in dropped : [page |-> f, count |-> 1] \in runs'
    BY <1>9 DEF MInv, LooseOK
  <2> QED BY <1>1, <1>6, <2>1 DEF LooseOK, Single
<1>16. PlacesOK'
  BY <1>1, <1>2, <1>8, <1>14 DEF MInv, PlacesOK
<1> QED BY <1>2, <1>6, <1>8, <1>10, <1>12, <1>13, <1>15, <1>16 DEF MInv

\* The last page of an area of d pages: which it is, and that there is one.
LEMMA LastOfArea ==
    ASSUME NEW d \in Nat \ {0}
    PROVE  /\ \A v \in Nat : (v + 1) % d = 0 => v = (v \div d) * d + d - 1
           /\ \A v \in Nat : LET w == (v \div d) * d + d - 1
                             IN  w \in Nat /\ w \div d = v \div d /\ (w + 1) % d = 0
<1>1. ASSUME NEW v \in Nat, (v + 1) % d = 0 PROVE v = (v \div d) * d + d - 1
  <2> DEFINE q == v \div d
             m == v % d
  <2>1. q \in Nat /\ m \in 0 .. d - 1 /\ v = q * d + m
    BY DivMod
  <2> HIDE DEF q, m
  <2>2. CASE m = d - 1
    BY <2>1, <2>2 DEF q
  <2>3. CASE m # d - 1
    <3>1. PICK x : x = q * d
      OBVIOUS
    <3>2. x \in Nat /\ (q + 1) * d = x + d /\ v + 1 = x + m + 1
      BY <2>1, <3>1
    <3>3. q * d <= v + 1 /\ v + 1 < (q + 1) * d
      BY <2>1, <2>3, <3>1, <3>2
    <3>4. (v + 1) \div d = q
      BY <2>1, <3>3, DivUnique
    <3>5. v + 1 = ((v + 1) \div d) * d + ((v + 1) % d)
      BY DivMod
    <3>6. v + 1 = x
      BY <1>1, <3>1, <3>2, <3>4, <3>5
    <3> QED BY <2>1, <3>2, <3>6
  <2> QED BY <2>2, <2>3
<1>2. ASSUME NEW v \in Nat
      PROVE  LET w == (v \div d) * d + d - 1
             IN  w \in Nat /\ w \div d = v \div d /\ (w + 1) % d = 0
  <2>1. PICK q : q = v \div d
    OBVIOUS
  <2>2. q \in Nat
    BY <2>1, DivMod
  <2>3. PICK x : x = q * d
    OBVIOUS
  <2>4. x \in Nat /\ (q + 1) * d = x + d /\ (q + 2) * d = x + d + d /\ x + d - 1 \in Nat /\ x + d \in Nat
    BY <2>2, <2>3
  <2>5. (x + d - 1) \div d = q
    BY <2>2, <2>3, <2>4, DivUnique
  <2>6. (x + d) \div d = q + 1
    <3>1. q + 1 \in Nat /\ (q + 1) * d <= x + d /\ x + d < ((q + 1) + 1) * d
      BY <2>2, <2>4
    <3> QED BY <2>4, <3>1, DivUnique
  <2>7. x + d = ((x + d) \div d) * d + ((x + d) % d) /\ (x + d) % d \in 0 .. d - 1
    BY <2>4, DivMod
  <2>8. (x + d) % d = 0
    <3>1. PICK e : e = (x + d) % d
      OBVIOUS
    <3>2. x + d = (x + d) + e /\ e \in 0 .. d - 1
      BY <2>4, <2>6, <2>7, <3>1
    <3> QED BY <2>4, <3>1, <3>2
  <2>9. (x + d - 1) + 1 = x + d
    BY <2>4
  <2> QED BY <2>1, <2>3, <2>4, <2>5, <2>8, <2>9
<1> QED BY <1>1, <1>2

\* The pages of an area of a process's pages are all the process's.
LEMMA LastOfUserArea ==
    ASSUME NEW v \in UserPages, NEW l \in 0 .. 3
    PROVE  \E w \in UserPages :
              Area(w, l) = Area(v, l) /\ Index(w, 4) = Index(v, 4) /\ (w + 1) % Span[l + 1] = 0
<1>1. PICK d : d = Span[l + 1]
  OBVIOUS
<1>2. d \in Nat \ {0}
  BY <1>1, SpanFacts DEF Levels
<1>3. v \in Nat /\ Index(v, 4) \in 1 .. KernelHalf - 1
  BY UserIndex
<1>4. PICK w : w = (v \div d) * d + d - 1
  OBVIOUS
<1>5. w \in Nat /\ w \div d = v \div d /\ (w + 1) % d = 0
  BY <1>2, <1>3, <1>4, LastOfArea
<1>6. Area(w, l) = Area(v, l)
  BY <1>1, <1>5 DEF Area
<1>7. Area(w, 3) = Area(v, 3)
  <2>1. l \in 0 .. 4 /\ 3 \in l .. 4
    OBVIOUS
  <2> QED BY <1>3, <1>5, <1>6, <2>1, AreaUp
<1>8. Index(w, 4) = Index(v, 4)
  <2>1. \A x : Index(x, 4) = Area(x, 3)
    BY DEF Index, Area
  <2> QED BY <1>7, <2>1
<1>9. w \in UserPages
  <2>1. PICK i : i = Index(v, 4)
    OBVIOUS
  <2>2. PICK s : s = Span[4]
    OBVIOUS
  <2>3. s \in Nat \ {0} /\ i \in 1 .. KernelHalf - 1 /\ KernelHalf \in Nat
    BY <1>3, <2>1, <2>2, SpanFacts, KernelHalfFacts DEF Levels
  <2>4. w = i * s + (w % s) /\ w % s \in 0 .. s - 1
    <3>1. i = w \div s
      BY <1>8, <2>1, <2>2 DEF Index
    <3> QED BY <1>5, <2>3, <3>1, DivMod
  <2>5. i * s >= s /\ i * s <= (KernelHalf - 1) * s /\ (KernelHalf - 1) * s = KernelHalf * s - s
    <3>1. PICK k : k = KernelHalf
      OBVIOUS
    <3>2. i \in Nat /\ k \in Nat /\ i >= 1 /\ i <= k - 1
      BY <2>3, <3>1
    <3>3. i * s >= s
      BY ONLY <2>3, <3>2
    <3>4. i * s <= (k - 1) * s
      BY ONLY <2>3, <3>2
    <3>5. (k - 1) * s = k * s - s
      BY ONLY <2>3, <3>2
    <3> QED BY <3>1, <3>3, <3>4, <3>5
  <2>6. PICK x : x = i * s
    OBVIOUS
  <2>7. PICK y : y = KernelHalf * s
    OBVIOUS
  <2>8. x \in Nat /\ y \in Nat /\ x >= s /\ x <= y - s
    BY <2>3, <2>5, <2>6, <2>7
  <2>9. w \in s .. y - 1
    BY <1>5, <2>3, <2>4, <2>6, <2>8
  <2> QED BY <2>2, <2>7, <2>9 DEF UserPages
<1> QED BY <1>1, <1>5, <1>6, <1>8, <1>9

\* The frames of process root's page tables and pages.
TreeOf(root) ==
    {n \in Pages \ {NoFrame} : \E v \in UserPages, l \in 0 .. 4 : Walk(tables, root, v, l) = n}

\* The PML4 entries below the kernel's half that a process does not share
\* are the ones of its own pages.
LEMMA OwnFacts ==
    ASSUME MInv, NEW root \in Procs
    PROVE  /\ OwnPages(root) \subseteq UserPages
           /\ \A v \in UserPages : Walk(tables, root, v, 3) # NoFrame => v \in OwnPages(root)
<1>1. root \in Pages /\ root # NoFrame
  BY RootsFacts
<1>2. \A i \in 0 .. KernelHalf - 1 : i \in Entries
  BY KernelHalfFacts, EntriesFacts, SpanFacts DEF Levels
<1>3. OwnPages(root) \subseteq UserPages
  <2> SUFFICES ASSUME NEW v \in OwnPages(root) PROVE v \in UserPages
    OBVIOUS
  <2>1. v \in 0 .. KernelHalf * Span[4] - 1 /\ Index(v, 4) \in OwnEntries(root)
    BY DEF OwnPages
  <2>2. Index(v, 4) \in 0 .. KernelHalf - 1 /\ tables[root][Index(v, 4)] # tables[KernelPml4][Index(v, 4)]
    BY <2>1 DEF OwnEntries
  <2>3. Index(v, 4) # 0
    <3>1. 0 \in 0 .. KernelHalf - 1
      BY KernelHalfFacts
    <3>2. tables[root][0] = tables[KernelPml4][0]
      BY <3>1 DEF MInv, LowOK
    <3> QED BY <2>2, <3>2
  <2>4. PICK s : s = Span[4]
    OBVIOUS
  <2>5. s \in Nat \ {0} /\ v \in Nat
    BY <2>1, <2>4, SpanFacts, KernelHalfFacts DEF Levels
  <2>6. v >= s
    <3>1. v \div s \in Nat /\ v % s \in 0 .. s - 1 /\ v = (v \div s) * s + (v % s)
      BY <2>5, DivMod
    <3>2. v \div s = Index(v, 4)
      BY <2>4 DEF Index
    <3>3. PICK q : q = v \div s
      OBVIOUS
    <3>4. q \in Nat /\ q >= 1
      BY <2>3, <3>1, <3>2, <3>3
    <3>5. q * s >= s
      BY ONLY <2>5, <3>4
    <3> QED BY <2>5, <3>1, <3>3, <3>5
  <2> QED BY <2>1, <2>4, <2>5, <2>6, KernelHalfFacts DEF UserPages
<1>4. ASSUME NEW v \in UserPages, Walk(tables, root, v, 3) # NoFrame
      PROVE  v \in OwnPages(root)
  <2>1. PICK i : i = Index(v, 4)
    OBVIOUS
  <2>2. i \in 1 .. KernelHalf - 1 /\ i \in 0 .. KernelHalf - 1 /\ i \in Entries
    BY <1>2, <2>1, UserIndex, KernelHalfFacts
  <2>3. Walk(tables, root, v, 3) = Below(tables, root, i)
    <3>1. 3 \in 1 .. 3 /\ 3 + 1 = 4
      OBVIOUS
    <3> QED BY <2>1, <3>1, WalkStep, WalkTop
  <2>4. IsTable(tables[root][i]) /\ tables[root][i].phys = Walk(tables, root, v, 3)
    BY <1>4, <2>3 DEF Below
  <2>5. Walk(tables, root, v, 3) \notin BootPages
    <3>1. 3 \in 0 .. 3
      OBVIOUS
    <3>2. Single(Walk(tables, root, v, 3))
      BY <1>4, <3>1 DEF MInv, HeldOK
    <3> QED BY <3>2, SingleFacts DEF MInv
  <2>6. tables[root][i] # tables[KernelPml4][i]
    <3>1. tables[KernelPml4][i] = BootTables[KernelPml4][i]
      BY <2>2 DEF MInv, LowOK
    <3>2. Present(BootTables[KernelPml4][i]) => BootTables[KernelPml4][i].phys \in BootPages
      BY <2>2, AddressSpaceAssumption, BootFacts DEF BootTablesAssumption
    <3> QED BY <2>4, <2>5, <3>1, <3>2 DEF IsTable
  <2>7. i \in OwnEntries(root)
    BY <2>2, <2>4, <2>6 DEF OwnEntries, IsTable
  <2>8. v \in 0 .. KernelHalf * Span[4] - 1
    BY UserIndex, KernelHalfFacts DEF UserPages
  <2> QED BY <2>1, <2>7, <2>8 DEF OwnPages
<1> QED BY <1>3, <1>4

\* vmm_destroy_address_space: the places it visits are the frames of the
\* process, each once.
LEMMA PlacesFacts ==
    ASSUME MInv, NEW root \in Procs
    PROVE  /\ Places(root) \in SUBSET (UserPages \X (0 .. 4))
           /\ \A p \in Places(root) : Single(Walk(tables, root, p[1], p[2]))
           /\ \A p, q \in Places(root) :
                 Walk(tables, root, p[1], p[2]) = Walk(tables, root, q[1], q[2]) => p = q
           /\ {Walk(tables, root, p[1], p[2]) : p \in Places(root)} = TreeOf(root)
           /\ Places(root) # {}
<1> DEFINE last == KernelHalf * Span[4] - 1
           W(p) == Walk(tables, root, p[1], p[2])
<1>1. root \in Roots /\ root \in Pages /\ root # NoFrame /\ Single(root) /\ Dom(root) = UserPages
  BY RootsFacts
<1>2. last \in UserPages
  <2>1. \E v : v \in UserPages
    BY LayoutFacts DEF UserStack
  <2>2. \A a, b \in Int : (\E v \in a .. b : TRUE) => b \in a .. b
    OBVIOUS
  <2>3. Span[4] \in Int /\ last \in Int
    BY SpanFacts, KernelHalfFacts DEF Levels
  <2> QED BY <2>1, <2>2, <2>3 DEF UserPages
<1>3. Places(root) = {<<last, 4>>} \cup {p \in OwnPages(root) \X (0 .. 3) :
          (p[1] + 1) % Span[p[2] + 1] = 0 /\ Node(root, p[1], p[2]) # NoFrame}
  BY DEF Places
<1> HIDE DEF last
<1>4. ASSUME NEW p \in Places(root)
      PROVE  \/ p = <<last, 4>>
             \/ /\ p[1] \in UserPages /\ p[2] \in 0 .. 3 /\ p = <<p[1], p[2]>>
                /\ (p[1] + 1) % Span[p[2] + 1] = 0 /\ W(p) # NoFrame
  <2>1. p = <<last, 4>> \/ (/\ p \in OwnPages(root) \X (0 .. 3)
                            /\ (p[1] + 1) % Span[p[2] + 1] = 0 /\ Node(root, p[1], p[2]) # NoFrame)
    BY <1>3
  <2>2. p \in OwnPages(root) \X (0 .. 3) =>
           p[1] \in UserPages /\ p[2] \in 0 .. 3 /\ p[2] \in 0 .. 4 /\ p = <<p[1], p[2]>>
    BY OwnFacts
  <2> QED BY <2>1, <2>2, NodeIsWalk
<1>5. W(<<last, 4>>) = root
  BY WalkTop
<1>6. \A p \in Places(root) : /\ p \in UserPages \X (0 .. 4) /\ p[1] \in UserPages /\ p[2] \in 0 .. 4
                              /\ W(p) # NoFrame /\ Single(W(p))
  <2> SUFFICES ASSUME NEW p \in Places(root)
               PROVE  /\ p \in UserPages \X (0 .. 4) /\ p[1] \in UserPages /\ p[2] \in 0 .. 4
                      /\ W(p) # NoFrame /\ Single(W(p))
    OBVIOUS
  <2>1. CASE p = <<last, 4>>
    BY <1>1, <1>2, <1>5, <2>1
  <2>2. CASE p # <<last, 4>>
    <3>1. p[1] \in UserPages /\ p[2] \in 0 .. 3 /\ p = <<p[1], p[2]>> /\ W(p) # NoFrame
      BY <1>4, <2>2
    <3>2. Single(W(p))
      BY <3>1 DEF MInv, HeldOK
    <3> QED BY <3>1, <3>2
  <2> QED BY <2>1, <2>2
<1>7. ASSUME NEW p \in Places(root), NEW q \in Places(root), W(p) = W(q) PROVE p = q
  <2>1. p[2] = q[2] /\ Area(p[1], p[2]) = Area(q[1], p[2])
    BY <1>1, <1>6, <1>7, UniqueUse DEF MInv, TreeOK
  <2>2. CASE p[2] = 4
    <3>1. ~(p[2] \in 0 .. 3) /\ ~(q[2] \in 0 .. 3)
      BY <2>1, <2>2
    <3> QED BY <1>4, <3>1
  <2>3. CASE p[2] # 4
    <3>1. /\ p[1] \in UserPages /\ p[2] \in 0 .. 3 /\ p = <<p[1], p[2]>> /\ (p[1] + 1) % Span[p[2] + 1] = 0
          /\ q[1] \in UserPages /\ q[2] \in 0 .. 3 /\ q = <<q[1], q[2]>> /\ (q[1] + 1) % Span[q[2] + 1] = 0
      <4>1. p # <<last, 4>> /\ q # <<last, 4>>
        BY <2>1, <2>3
      <4> QED BY <1>4, <4>1
    <3>2. PICK d : d = Span[p[2] + 1]
      OBVIOUS
    <3>3. d \in Nat \ {0}
      BY <3>1, <3>2, SpanFacts DEF Levels
    <3>4. p[1] \div d = q[1] \div d
      BY <2>1, <2>3, <3>2 DEF Area
    <3>5. p[1] \in Nat /\ q[1] \in Nat
      BY <3>1, UserIndex
    <3>6. (p[1] + 1) % d = 0 /\ (q[1] + 1) % d = 0
      BY <2>1, <3>1, <3>2
    <3>7. p[1] = (p[1] \div d) * d + d - 1 /\ q[1] = (q[1] \div d) * d + d - 1
      BY <3>3, <3>5, <3>6, LastOfArea
    <3> QED BY <2>1, <3>1, <3>4, <3>7
  <2> QED BY <2>2, <2>3
<1>8. ASSUME NEW n \in TreeOf(root) PROVE \E p \in Places(root) : W(p) = n
  <2>1. PICK v \in UserPages, l \in 0 .. 4 : Walk(tables, root, v, l) = n
    BY DEF TreeOf
  <2>2. n # NoFrame
    BY DEF TreeOf
  <2>3. CASE l = 4
    <3>1. n = root
      BY <2>1, <2>3, WalkTop
    <3>2. <<last, 4>> \in Places(root)
      BY <1>3
    <3> QED BY <1>5, <3>1, <3>2
  <2>4. CASE l # 4
    <3>1. l \in 0 .. 3 /\ 3 \in 0 .. 4 /\ l \in 0 .. 3 /\ l \in l .. 4
      BY <2>4
    <3>2. PICK w \in UserPages : Area(w, l) = Area(v, l) /\ Index(w, 4) = Index(v, 4)
                                 /\ (w + 1) % Span[l + 1] = 0
      BY <3>1, LastOfUserArea
    <3>3. v \in Nat /\ w \in Nat
      BY UserIndex
    <3>4. Walk(tables, root, w, l) = n
      BY <2>1, <3>1, <3>2, <3>3, WalkArea
    <3>5. Walk(tables, root, w, 3) # NoFrame
      BY <2>2, <3>1, <3>4, WalkZero
    <3>6. w \in OwnPages(root)
      BY <3>5, OwnFacts
    <3>7. Node(root, w, l) # NoFrame
      BY <2>2, <3>4, NodeIsWalk
    <3>8. <<w, l>> \in Places(root)
      BY <1>3, <3>1, <3>2, <3>6, <3>7
    <3> QED BY <3>4, <3>8
  <2> QED BY <2>3, <2>4
<1>9. \A p \in Places(root) : W(p) \in TreeOf(root)
  <2> SUFFICES ASSUME NEW p \in Places(root) PROVE W(p) \in TreeOf(root)
    OBVIOUS
  <2>1. W(p) \in Pages
    BY <1>6, SingleFacts DEF MInv
  <2> QED BY <1>6, <2>1 DEF TreeOf
<1>10. Places(root) # {}
  BY <1>3
<1>11. Places(root) \in SUBSET (UserPages \X (0 .. 4))
  BY <1>6
<1>12. {W(p) : p \in Places(root)} = TreeOf(root)
  BY <1>8, <1>9
<1> QED BY <1>6, <1>7, <1>10, <1>11, <1>12

\* From now on the frames of process root are about to be given back.
LEMMA SpaceGone ==
    ASSUME MInv, NEW root \in Procs, NEW base \in Nat, Loose = {},
           call' = [pc |-> "free", base |-> base, root |-> root, work |-> Places(root)],
           Procs' = Procs \ {root},
           UNCHANGED pmmVars, UNCHANGED <<tables, dropped>>
    PROVE  /\ IInv' /\ TablesOK' /\ CallOK' /\ StackFree' /\ LowOK' /\ TreeOK' /\ HeldOK'
           /\ GrowOK' /\ LooseOK' /\ PlacesOK'
           /\ call'.pc = "free" /\ call'.base = base /\ UNCHANGED <<runs, reserved, booting>>
           /\ \A r \in Procs : [page |-> r, count |-> 1] \in runs'
<1>1. IInv' /\ UNCHANGED <<runs, reserved, booting>> /\ HeldPages' = HeldPages
  BY PmmQuiet DEF MInv
<1>2. /\ call'.pc = "free" /\ call'.base = base /\ call'.root = root /\ call'.work = Places(root)
  OBVIOUS
<1>3. /\ Places(root) \in SUBSET (UserPages \X (0 .. 4))
      /\ \A p \in Places(root) : Single(Walk(tables, root, p[1], p[2]))
      /\ \A p, q \in Places(root) :
            Walk(tables, root, p[1], p[2]) = Walk(tables, root, q[1], q[2]) => p = q
      /\ {Walk(tables, root, p[1], p[2]) : p \in Places(root)} = TreeOf(root)
  BY PlacesFacts
<1>4. /\ root \in Roots /\ root \in Pages /\ root # KernelPml4 /\ Dom(root) = UserPages
      /\ Roots \subseteq Pages /\ KernelPml4 \in Roots /\ KernelPml4 \notin Procs
  BY RootsFacts
<1>5. Roots' = Roots \ {root}
  BY <1>4 DEF Roots
<1>6. CallOK' /\ StackFree' /\ GrowOK'
  <2>1. call' \in FreeCall
    BY <1>3, <1>4 DEF FreeCall
  <2>2. call' \notin CreateCall
    BY <1>2 DEF CreateCall, Creating
  <2> QED BY <1>2, <2>1, <2>2 DEF CallOK, StackFree, GrowOK, Growing, Creating
<1>7. TablesOK' /\ LowOK'
  BY DEF MInv, TablesOK, LowOK
<1>8. TreeOK'
  <2>1. Roots \ {root} \in SUBSET Roots
    OBVIOUS
  <2>2. Unique(tables, Roots \ {root})
    BY <2>1, FewerUnique DEF MInv, TreeOK
  <2> QED BY <1>5, <2>2 DEF TreeOK
<1>9. \A n : Single(n) <=> [page |-> n, count |-> 1] \in runs'
  BY <1>1 DEF Single
<1>10. HeldOK'
  BY <1>9 DEF MInv, HeldOK, Single
<1>11. Loose' = TreeOf(root)
  <2>1. Loose' = {Walk(tables, root, p[1], p[2]) : p \in Places(root)}
    BY <1>2 DEF Loose, Freed, Growing
  <2> QED BY <1>3, <2>1
<1>12. LooseOK'
  <2>1. \A f \in dropped : [page |-> f, count |-> 1] \in runs'
    BY <1>9 DEF MInv, LooseOK
  <2>2. \A p \in Places(root) : [page |-> Walk(tables, root, p[1], p[2]), count |-> 1] \in runs'
    BY <1>3, <1>9
  <2> QED BY <1>2, <1>3, <2>1, <2>2 DEF LooseOK, Single, Freed
<1>13. AllNodes' = AllNodes \ TreeOf(root) /\ TreeOf(root) \subseteq AllNodes
  <2>1. ASSUME NEW n \in Pages \ {NoFrame}, InTree(tables, Roots \ {root}, n)
        PROVE  InTree(tables, Roots, n) /\ n \notin TreeOf(root)
    <3>1. PICK r \in Roots \ {root} : \E v \in Dom(r), l \in 0 .. 4 : Walk(tables, r, v, l) = n
      BY <2>1 DEF InTree
    <3>2. PICK v \in Dom(r), l \in 0 .. 4 : Walk(tables, r, v, l) = n
      BY <3>1
    <3>3. ASSUME NEW w \in UserPages, NEW m \in 0 .. 4, Walk(tables, root, w, m) = n PROVE FALSE
      <4>1. w \in Dom(root) /\ r \in Roots
        BY <1>4
      <4>2. Unique(tables, Roots)
        BY DEF MInv, TreeOK
      <4>3. root = r
        BY <1>4, <2>1, <3>2, <3>3, <4>1, <4>2, UniqueUse
      <4> QED BY <4>3
    <3> QED BY <3>2, <3>3 DEF InTree, TreeOf
  <2>2. ASSUME NEW n \in Pages \ {NoFrame}, InTree(tables, Roots, n), n \notin TreeOf(root)
        PROVE  InTree(tables, Roots \ {root}, n)
    <3>1. PICK r \in Roots : \E v \in Dom(r), l \in 0 .. 4 : Walk(tables, r, v, l) = n
      BY <2>2 DEF InTree
    <3>2. r # root
      BY <1>4, <2>2, <3>1 DEF TreeOf
    <3> QED BY <3>1, <3>2 DEF InTree
  <2>3. AllNodes' = {n \in Pages \ {NoFrame} : InTree(tables, Roots \ {root}, n)}
    BY <1>5 DEF AllNodes
  <2>4. TreeOf(root) \subseteq AllNodes
    BY <1>4 DEF TreeOf, AllNodes, InTree
  <2> QED BY <2>1, <2>2, <2>3, <2>4 DEF AllNodes
<1>14. PlacesOK'
  <2>1. HeldPages \subseteq AllNodes \cup dropped \cup Loose /\ dropped \cap AllNodes = {}
    BY DEF MInv, PlacesOK
  <2> QED BY <1>1, <1>11, <1>13, <2>1 DEF PlacesOK
<1>15. \A r \in Procs : [page |-> r, count |-> 1] \in runs'
  BY <1>9, RootsFacts
<1> QED BY <1>1, <1>2, <1>6, <1>7, <1>8, <1>10, <1>12, <1>14, <1>15

\* task_create_user gives up: its process goes, its kernel stack stays.
LEMMA UndoCreateKeepsMInv ==
    ASSUME MInv, UndoCreate
    PROVE  MInv'
<1>1. /\ call.pc = "undo" /\ call.pc \in Creating /\ UNCHANGED pmmVars
      /\ call' = [pc |-> "free", base |-> call.base, root |-> call.root, work |-> Places(call.root)]
      /\ UNCHANGED <<tables, space, kstack, next_virt, dropped>>
  BY DEF UndoCreate, Creating
<1>2. call.base \in Nat /\ call.root \in Procs
  BY <1>1, CreatingCall, CallRoot DEF MInv
<1>3. Live' = Live /\ call'.pc = "free"
  BY <1>1 DEF Live
<1>4. Procs' = Procs \ {call.root}
  <2>1. \A t \in Live : space[t] # call.root
    BY <1>1 DEF MInv, SpaceOK
  <2> QED BY <1>1, <1>3, <2>1 DEF Procs, Creating
<1>5. Loose = {} /\ HasStack /\ HasStack' /\ ~Growing /\ ~Growing' /\ call'.pc \notin Creating
  BY <1>1, <1>3 DEF Loose, Growing, HasStack, Creating
<1>6. /\ IInv' /\ TablesOK' /\ CallOK' /\ StackFree' /\ LowOK' /\ TreeOK' /\ HeldOK'
      /\ GrowOK' /\ LooseOK' /\ PlacesOK'
      /\ call'.pc = "free" /\ call'.base = call.base /\ UNCHANGED <<runs, reserved, booting>>
      /\ \A r \in Procs : [page |-> r, count |-> 1] \in runs'
  BY <1>1, <1>2, <1>4, <1>5, SpaceGone
<1>7. BootOK'
  <2>1. ~booting
    BY <1>1 DEF MInv, BootOK, Idle
  <2> QED BY <1>6, <2>1 DEF MInv, BootOK
<1>8. SpaceOK'
  BY <1>1, <1>3, <1>4, <1>5, <1>6 DEF MInv, SpaceOK, Single
<1>9. StacksOK'
  BY <1>1, <1>5, <1>6, StacksSame
<1> QED BY <1>6, <1>7, <1>8, <1>9 DEF MInv

\* task_destroy takes the process off the list.
LEMMA DestroyKeepsMInv ==
    ASSUME MInv, NEW t \in Slots, task_destroy(t)
    PROVE  MInv'
<1> DEFINE root == space[t]
           base == kstack[t]
<1>1. /\ call = Idle /\ root # NoFrame /\ UNCHANGED pmmVars
      /\ call' = [pc |-> "free", base |-> base, root |-> root, work |-> Places(root)]
      /\ space' = [space EXCEPT ![t] = NoFrame]
      /\ UNCHANGED <<tables, kstack, next_virt, dropped>>
  BY DEF task_destroy
<1>2. t \in Live /\ call.pc = "idle"
  BY <1>1 DEF Live, Idle
<1>3. Loose = {} /\ ~HasStack /\ ~Growing /\ call.pc \notin Creating
  BY <1>2 DEF Loose, Growing, HasStack, Creating
<1>4. call'.pc = "free" /\ HasStack' /\ ~Growing' /\ call'.pc \notin Creating
  BY <1>1 DEF Growing, HasStack, Creating
<1>5. space \in [Slots -> Pages] /\ kstack \in [Slots -> Nat] /\ base \in Nat
  BY DEF MInv, SpaceOK
<1>6. /\ Live' = Live \ {t} /\ \A u \in Live' : space'[u] = space[u]
  BY <1>1, <1>5 DEF Live
<1>7. root \in Procs /\ Procs = {space[u] : u \in Live}
  BY <1>2, <1>3 DEF Procs
<1>8. Procs' = Procs \ {root}
  <2>1. \A u \in Live : space[u] = root => u = t
    BY <1>2 DEF MInv, SpaceOK
  <2>2. Procs' = {space'[u] : u \in Live'}
    BY <1>4 DEF Procs
  <2>3. Procs' = {space[u] : u \in Live \ {t}}
    BY <1>6, <2>2
  <2> HIDE DEF root
  <2> QED BY <1>7, <2>1, <2>3 DEF root
<1> HIDE DEF root, base
<1>9. /\ IInv' /\ TablesOK' /\ CallOK' /\ StackFree' /\ LowOK' /\ TreeOK' /\ HeldOK'
      /\ GrowOK' /\ LooseOK' /\ PlacesOK'
      /\ call'.pc = "free" /\ call'.base = base /\ UNCHANGED <<runs, reserved, booting>>
      /\ \A r \in Procs : [page |-> r, count |-> 1] \in runs'
  BY <1>1, <1>3, <1>5, <1>7, <1>8, SpaceGone
<1>10. BootOK'
  <2>1. ~booting
    BY <1>2 DEF MInv, BootOK
  <2> QED BY <1>9, <2>1 DEF MInv, BootOK
<1>11. SpaceOK'
  <2>1. space' \in [Slots -> Pages]
    BY <1>1, <1>5, ZeroPage
  <2>2. \A u, w \in Live' : space'[u] = space'[w] => u = w
    BY <1>6 DEF MInv, SpaceOK
  <2>3. \A r \in Procs' : [page |-> r, count |-> 1] \in runs'
    BY <1>8, <1>9
  <2> QED BY <1>1, <1>4, <2>1, <2>2, <2>3 DEF MInv, SpaceOK, Single
<1>12. StacksOK'
  <2>1. \A u \in Live : StackAt(tables', runs', next_virt', kstack[u])
    BY <1>1, <1>9 DEF MInv, StacksOK, StackMapped
  <2>2. StackAt(tables', runs', next_virt', base)
    BY <1>2, <2>1 DEF base
  <2>3. \A u, w \in Live : u # w => Apart(kstack[u], kstack[w])
    BY DEF MInv, StacksOK
  <2>4. \A u \in Live' : Apart(kstack[u], base)
    BY <1>2, <1>6, <2>3 DEF base
  <2>5. ASSUME NEW v \in Window, Walk(tables', KernelPml4, v, 0) # NoFrame
        PROVE  \/ \E u \in Live' : v \in kstack[u] .. kstack[u] + KStackPages - 1
               \/ v \in base .. base + KStackPages - 1
    <3>1. PICK u \in Live : v \in kstack[u] .. kstack[u] + KStackPages - 1
      BY <1>1, <1>3, <2>5 DEF MInv, StacksOK
    <3> QED BY <1>6, <3>1 DEF base
  <2> QED BY <1>1, <1>4, <1>6, <1>9, <2>1, <2>2, <2>3, <2>4, <2>5 DEF StacksOK, StackMapped
<1> QED BY <1>9, <1>10, <1>11, <1>12 DEF MInv

\* The walks through the boot tables: the window has no table below its PDP.
LEMMA BootWalks ==
    ASSUME VmInit, NEW v \in Window
    PROVE  /\ \A l \in 0 .. 2 : Walk(tables, KernelPml4, v, l) = NoFrame
           /\ Walk(tables, KernelPml4, v, 3) # NoFrame =>
                 /\ Walk(tables, KernelPml4, v, 3) \in DOMAIN BootTables \ {KernelPml4}
                 /\ Walk(tables, KernelPml4, v, 3) = BootTables[KernelPml4][Index(v, 4)].phys
                 /\ Present(BootTables[KernelPml4][Index(v, 4)])
<1>1. \A f \in DOMAIN BootTables : f \in Pages /\ tables[f] = BootTables[f]
  BY BootFacts DEF VmInit
<1>2. KernelPml4 \in DOMAIN BootTables /\ KernelPml4 # NoFrame
  BY LayoutFacts, BootFacts
<1>3. PICK i : i = Index(v, 4)
  OBVIOUS
<1>4. i \in Entries
  BY <1>3, WindowIndex
<1>5. PICK e : e = BootTables[KernelPml4][i]
  OBVIOUS
<1>6. Present(e) => e.phys \in DOMAIN BootTables \ {KernelPml4} /\ BootTables[e.phys][Index(v, 3)] = NoEntry
  BY <1>3, <1>4, <1>5, AddressSpaceAssumption DEF BootTablesAssumption
<1>7. Walk(tables, KernelPml4, v, 3) = Below(tables, KernelPml4, i)
  <2>1. 3 \in 1 .. 3 /\ 3 + 1 = 4
    OBVIOUS
  <2> QED BY <1>3, <2>1, WalkStep, WalkTop
<1>8. Walk(tables, KernelPml4, v, 3) = IF IsTable(e) THEN e.phys ELSE NoFrame
  BY <1>1, <1>2, <1>5, <1>7 DEF Below
<1>9. Walk(tables, KernelPml4, v, 2) = NoFrame
  <2>1. Walk(tables, KernelPml4, v, 2) = Below(tables, Walk(tables, KernelPml4, v, 3), Index(v, 3))
    <3>1. 2 \in 1 .. 3 /\ 2 + 1 = 3
      OBVIOUS
    <3> QED BY <3>1, WalkStep
  <2>2. CASE ~IsTable(e)
    BY <1>8, <2>1, <2>2 DEF Below
  <2>3. CASE IsTable(e)
    <3>1. tables[e.phys][Index(v, 3)] = NoEntry
      BY <1>1, <1>6, <2>3 DEF IsTable
    <3> QED BY <1>8, <2>1, <2>3, <3>1 DEF Below, IsTable, Present, NoEntry
  <2> QED BY <2>2, <2>3
<1>10. \A l \in 0 .. 2 : Walk(tables, KernelPml4, v, l) = NoFrame
  <2>1. 2 \in 0 .. 4
    OBVIOUS
  <2> QED BY <1>9, <2>1, WalkZero
<1> QED BY <1>3, <1>5, <1>6, <1>8, <1>10 DEF IsTable

\* The invariant holds when the kernel starts.
LEMMA InitMInv == UInit => MInv
<1> SUFFICES ASSUME VmInit PROVE MInv
  BY DEF UInit
<1>1. /\ Init /\ call = Idle /\ dropped = {} /\ next_virt = WindowStart
      /\ space = [t \in Slots |-> NoFrame] /\ kstack = [t \in Slots |-> 0]
      /\ tables = [f \in Pages |-> IF f \in DOMAIN BootTables THEN BootTables[f] ELSE Cleared]
      /\ runs = {} /\ reserved = BootRanges
  BY DEF VmInit, Init
<1>2. IInv
  BY <1>1, InitIInv
<1>3. /\ Live = {} /\ call.pc = "idle" /\ call.pc \notin Creating /\ ~HasStack /\ ~Growing
      /\ Procs = {} /\ Roots = {KernelPml4} /\ Loose = {} /\ HeldPages = {}
  BY <1>1 DEF Live, Idle, Creating, HasStack, Growing, Procs, Roots, Loose, HeldPages
<1>4. BootOK
  BY <1>1, <1>3 DEF BootOK
<1>5. CallOK /\ StackFree /\ GrowOK /\ LooseOK
  <2>1. call \notin CreateCall
    BY <1>3 DEF CreateCall
  <2> QED BY <1>1, <1>3, <2>1 DEF CallOK, StackFree, GrowOK, LooseOK
<1>6. SpaceOK
  BY <1>1, <1>3, ZeroPage, LayoutFacts DEF SpaceOK
<1>7. DOMAIN BootTables \subseteq Pages /\ KernelPml4 \in DOMAIN BootTables /\ DOMAIN BootTables \subseteq BootPages
  BY BootFacts, LayoutFacts
<1>8. TablesOK
  <2>1. Cleared \in [Entries -> Entry] /\ \A i \in Entries : ~IsTable(Cleared[i]) /\ Cleared[i].flags = {}
    BY ZeroPage DEF Cleared, Entry, NoEntry, IsTable, Present
  <2>2. \A f \in DOMAIN BootTables :
          /\ BootTables[f] \in [Entries -> Entry]
          /\ \A i \in Entries : IsTable(BootTables[f][i]) => BootTables[f][i].phys # NoFrame
    BY AddressSpaceAssumption DEF BootTablesAssumption
  <2>3. \A i \in Entries : "huge" \notin BootTables[KernelPml4][i].flags
    BY AddressSpaceAssumption DEF BootTablesAssumption
  <2>4. tables \in [Pages -> [Entries -> Entry]]
    BY <1>1, <2>1, <2>2
  <2>5. ASSUME NEW f \in Pages, NEW i \in Entries
        PROVE  /\ IsTable(tables[f][i]) => tables[f][i].phys # NoFrame
               /\ "huge" \in tables[f][i].flags => f \in BootPages \ {KernelPml4}
    <3>1. CASE f \in DOMAIN BootTables
      <4>1. tables[f] = BootTables[f]
        BY <1>1, <3>1
      <4> QED BY <1>7, <2>2, <2>3, <3>1, <4>1
    <3>2. CASE f \notin DOMAIN BootTables
      <4>1. tables[f] = Cleared
        BY <1>1, <3>2
      <4> QED BY <2>1, <4>1
    <3> QED BY <3>1, <3>2
  <2> QED BY <2>4, <2>5 DEF TablesOK, TypedTables
<1>9. LowOK
  BY <1>1, <1>3, <1>7 DEF LowOK
<1>10. Dom(KernelPml4) = Window
  BY DEF Dom
<1>11. TreeOK
  <2> SUFFICES ASSUME NEW v \in Window, NEW w \in Window, NEW l \in 0 .. 4, NEW m \in 0 .. 4,
                      Walk(tables, KernelPml4, v, l) = Walk(tables, KernelPml4, w, m),
                      Walk(tables, KernelPml4, v, l) # NoFrame
               PROVE  l = m /\ Area(v, l) = Area(w, l)
    BY <1>3, <1>10 DEF TreeOK, Unique
  <2>1. l \in {3, 4} /\ m \in {3, 4}
    <3>1. ~(l \in 0 .. 2) /\ ~(m \in 0 .. 2)
      BY BootWalks
    <3> QED BY <3>1
  <2>2. \A x \in Window : Walk(tables, KernelPml4, x, 4) = KernelPml4
    BY WalkTop
  <2>3. l = m
    BY <2>1, <2>2, BootWalks
  <2>4. CASE l = 4
    BY <2>3, <2>4 DEF Area
  <2>5. CASE l = 3
    <3> DEFINE i == Index(v, 4)
               j == Index(w, 4)
    <3>1. /\ i \in Entries /\ j \in Entries
          /\ Present(BootTables[KernelPml4][i]) /\ Present(BootTables[KernelPml4][j])
          /\ BootTables[KernelPml4][i].phys = BootTables[KernelPml4][j].phys
      BY <2>3, <2>5, BootWalks, WindowIndex
    <3>2. \A k \in Entries : Present(BootTables[KernelPml4][k]) =>
              \A n \in Entries \ {k} : BootTables[KernelPml4][n].phys # BootTables[KernelPml4][k].phys
      BY AddressSpaceAssumption DEF BootTablesAssumption
    <3>3. i = j
      BY <3>1, <3>2
    <3>4. \A x : Area(x, 3) = Index(x, 4)
      BY DEF Area, Index
    <3> QED BY <2>3, <2>5, <3>3, <3>4
  <2> QED BY <2>1, <2>4, <2>5
<1>12. HeldOK
  <2>1. ASSUME NEW v \in Window, NEW l \in 1 .. 3, Walk(tables, KernelPml4, v, l) # NoFrame
        PROVE  l = 3 /\ Walk(tables, KernelPml4, v, l) \in BootPages
    <3>1. l = 3
      <4>1. ~(l \in 0 .. 2)
        BY <2>1, BootWalks
      <4> QED BY <4>1
    <3> QED BY <1>7, <2>1, <3>1, BootWalks
  <2> QED BY <1>3, <2>1 DEF HeldOK
<1>13. StacksOK
  <2>1. \A v \in Window : Walk(tables, KernelPml4, v, 0) = NoFrame
    <3>1. 0 \in 0 .. 2
      OBVIOUS
    <3> QED BY <3>1, BootWalks
  <2> QED BY <1>3, <2>1 DEF StacksOK
<1>14. PlacesOK
  BY <1>1, <1>3 DEF PlacesOK
<1> QED BY <1>2, <1>4, <1>5, <1>6, <1>8, <1>9, <1>11, <1>12, <1>13, <1>14 DEF MInv

\* Every step of creation and destruction keeps the invariant.
LEMMA VmNextKeepsMInv ==
    ASSUME MInv, VmNext
    PROVE  MInv'
<1>1. CASE Boot
  BY <1>1, BootKeepsMInv
<1>2. CASE \E prog \in Programs : vmm_alloc_pages(prog)
  BY <1>2, AllocPagesKeepsMInv
<1>3. CASE get_or_create_table
  BY <1>3, CreateTableKeepsMInv
<1>4. CASE MapFails
  BY <1>4, MapFailsKeepsMInv
<1>5. CASE MapDone
  BY <1>5, MapUserDoneKeepsMInv, MapKernelDoneKeepsMInv
<1>6. CASE UndoKernelStack
  BY <1>6, UndoStackKeepsMInv
<1>7. CASE vmm_create_address_space
  BY <1>7, CreateSpaceKeepsMInv
<1>8. CASE CreateSpaceFails
  BY <1>8, CreateSpaceFailsKeepsMInv
<1>9. CASE TakePage
  BY <1>9, TakePageKeepsMInv
<1>10. CASE KeepPage
  BY <1>10, KeepPageKeepsMInv
<1>11. CASE TakePageFails
  BY <1>11, TakePageFailsKeepsMInv
<1>12. CASE FillSegment
  BY <1>12, FillSegmentKeepsMInv
<1>13. CASE task_create_user_returns
  BY <1>13, CreateReturnsKeepsMInv
<1>14. CASE \E t \in Slots : task_destroy(t)
  BY <1>14, DestroyKeepsMInv
<1>15. CASE UndoCreate
  BY <1>15, UndoCreateKeepsMInv
<1>16. CASE FreeNext
  BY <1>16, FreeNextKeepsMInv
<1>17. CASE vmm_free_pages
  BY <1>17, FreePagesKeepsMInv
<1> QED
  BY <1>1, <1>2, <1>3, <1>4, <1>5, <1>6, <1>7, <1>8, <1>9, <1>10, <1>11, <1>12, <1>13, <1>14,
     <1>15, <1>16, <1>17 DEF VmNext

\* System calls of programs change the bytes of pages and nothing else here.
CallKeeps == UNCHANGED <<pmmVars, tables, space, kstack, image, next_virt, call, dropped>>

\* A step of the whole system: the kernel's, a system call, or neither.
LEMMA StepCases ==
    ASSUME [UNext]_vars
    PROVE  VmNext \/ CallKeeps
<1>1. CASE UNext
  <2>1. CASE Kernel
    BY <2>1 DEF Kernel
  <2>2. ASSUME NEW t \in Slots, NEW addr \in Addrs, NEW size \in Sizes,
               copy_to_user(t, addr, size) \/ clear_user(t, addr, size)
        PROVE  CallKeeps
    BY <2>2 DEF copy_to_user, clear_user, Write, CallKeeps
  <2>3. ASSUME NEW t \in Slots, NEW addr \in Addrs, NEW size \in Sizes,
               \/ copy_from_user(t, addr, size)
               \/ verify_user_read(t, addr, size) \/ verify_user_write(t, addr, size)
               \/ strncpy_from_user(t, addr, size)
        PROVE  CallKeeps
    BY <2>3 DEF copy_from_user, verify_user_read, verify_user_write, Verify, strncpy_from_user,
                Reads, CallKeeps, vmVars
  <2> QED BY <1>1, <2>1, <2>2, <2>3 DEF UNext
<1>2. CASE UNCHANGED vars
  BY <1>2 DEF vars, vmVars, CallKeeps
<1> QED BY <1>1, <1>2

\* The invariant is inductive.
LEMMA NextKeepsMInv == MInv /\ [UNext]_vars => MInv'
<1> SUFFICES ASSUME MInv, [UNext]_vars PROVE MInv'
  OBVIOUS
<1>1. CASE VmNext
  BY <1>1, VmNextKeepsMInv
<1>2. CASE CallKeeps
  <2>1. UNCHANGED pmmVars /\ UNCHANGED <<tables, space, kstack, next_virt, call, dropped>>
    BY <1>2 DEF CallKeeps
  <2>2. IInv' /\ UNCHANGED <<runs, reserved, booting>>
    BY <2>1, PmmQuiet DEF MInv
  <2> QED BY <2>1, <2>2, QuietKeepsMInv
<1> QED BY <1>1, <1>2, StepCases

\* The page allocator's callers keep its contract: they give back runs they hold.
LEMMA StepIsPmmStep == MInv /\ [UNext]_vars => [Next]_pmmVars
<1> SUFFICES ASSUME MInv, [UNext]_vars PROVE Next \/ UNCHANGED pmmVars
  OBVIOUS
<1> USE LayoutFacts
<1>1. CASE CallKeeps
  BY <1>1 DEF CallKeeps
<1>2. ASSUME NEW n \in 1 .. MaxCount, pmm_alloc_pages(n) \/ pmm_alloc_pages_fails(n) PROVE Next
  BY <1>2 DEF Next
<1>3. CASE Boot
  BY <1>3 DEF Boot, Next
<1>4. CASE \E prog \in Programs : vmm_alloc_pages(prog)
  BY <1>2, <1>4 DEF vmm_alloc_pages
<1>5. CASE get_or_create_table \/ MapFails \/ MapDone
  BY <1>2, <1>5 DEF get_or_create_table, MapFails, MapDone
<1>6. CASE vmm_create_address_space \/ CreateSpaceFails
  BY <1>2, <1>6 DEF vmm_create_address_space, CreateSpaceFails
<1>7. CASE TakePage \/ KeepPage \/ TakePageFails
  BY <1>2, <1>7 DEF TakePage, KeepPage, TakePageFails
<1>8. CASE FillSegment \/ task_create_user_returns \/ UndoCreate \/ \E t \in Slots : task_destroy(t)
  BY <1>8 DEF FillSegment, task_create_user_returns, UndoCreate, task_destroy
<1>9. CASE UndoKernelStack
  <2>1. call.pc = "kundo" /\ pmm_free_pages(RunStart * PageSize, KStackPages)
    BY <1>9 DEF UndoKernelStack, RunStart
  <2>2. pmm_free(RunStart, KStackPages)
    BY <2>1 DEF pmm_free, pmm_free_pages
  <2>3. [page |-> RunStart, count |-> KStackPages] \in runs
    BY <2>1 DEF MInv, GrowOK, Growing
  <2> QED BY <2>2, <2>3, FreeTakes DEF MInv
<1>10. CASE FreeNext
  <2>1. call.pc = "free"
    BY <1>10 DEF FreeNext
  <2>2. PICK p \in call.work : pmm_free(Node(call.root, p[1], p[2]), 1)
    BY <1>10 DEF FreeNext
  <2>3. p[2] \in 0 .. 4
    BY <2>1, CallShape DEF MInv
  <2>4. Node(call.root, p[1], p[2]) = Freed(p)
    BY <2>3, NodeIsWalk DEF Freed
  <2>5. [page |-> Freed(p), count |-> 1] \in runs
    BY <2>1 DEF MInv, LooseOK, Single
  <2> QED BY <2>2, <2>4, <2>5, FreeTakes DEF MInv
<1>11. CASE vmm_free_pages
  <2>1. call.pc = "kfree"
    BY <1>11 DEF vmm_free_pages
  <2>2. PICK p \in Pages : /\ [page |-> p, count |-> KStackPages] \in runs /\ p # NoFrame
                           /\ vmm_get_physical(KernelPml4, call.base) = p
    BY <2>1, StackToFree
  <2>3. pmm_free(p, KStackPages)
    BY <1>11, <2>2 DEF vmm_free_pages
  <2> QED BY <2>2, <2>3, FreeTakes DEF MInv
<1> QED BY <1>1, <1>3, <1>4, <1>5, <1>6, <1>7, <1>8, <1>9, <1>10, <1>11, StepCases DEF VmNext

\* Page tables, processes, kernel stacks and the calls in progress agree in
\* every reachable state.
THEOREM MemoryConsistent == USpec => []MInv
<1> QED BY InitMInv, NextKeepsMInv, PTL DEF USpec

\* The kernel keeps the contract of the page allocator: whatever it does is
\* a sequence of calls that the allocator's own specification allows.  Every
\* error path gives back runs it holds, and no others.
THEOREM KernelKeepsPmmContract == USpec => Spec
<1>1. UInit => Init
  BY DEF UInit, VmInit
<1> QED BY <1>1, MemoryConsistent, StepIsPmmStep, PTL DEF USpec, Spec

\* So, whatever the kernel does with page tables and processes, no byte that
\* was withdrawn at boot is in a page it uses.
THEOREM KernelLeavesReserved == USpec => []ReservedNeverHeld
<1> QED BY KernelKeepsPmmContract, ReservedBytesSafe, PTL

\* And pmm, used by the kernel, is the abstract page allocator.
THEOREM KernelSeesPageAllocator == USpec => ImplementsPageAllocator
<1> QED BY KernelKeepsPmmContract, PmmImplementsPageAllocator, PTL

\* The leaves of a live process's kernel stack.
LEMMA StackOfFacts ==
    ASSUME MInv, NEW t \in Live
    PROVE  /\ StackOf(t) \subseteq HeldPages
           /\ \A n \in StackOf(t) : \E v \in Window :
                 /\ v \in kstack[t] .. kstack[t] + KStackPages - 1
                 /\ n = Walk(tables, KernelPml4, v, 0) /\ n # NoFrame
           /\ \A v \in Window : v \in kstack[t] .. kstack[t] + KStackPages - 1 =>
                 Walk(tables, KernelPml4, v, 0) \in StackOf(t)
<1> USE LayoutFacts
<1>1. PICK b : b = kstack[t]
  OBVIOUS
<1>2. StackAt(tables, runs, next_virt, b)
  BY <1>1 DEF MInv, StacksOK, StackMapped
<1>3. b \in WindowStart .. next_virt - KStackPages
  BY <1>2 DEF StackAt
<1>4. /\ b \in Nat /\ b .. b + KStackPages - 1 \subseteq Window
      /\ \A i \in 0 .. KStackPages - 1 : b + i \in Window /\ b + i \in b .. b + KStackPages - 1
  BY <1>3, StackInWindow
<1>5. PICK p \in Pages : /\ [page |-> p, count |-> KStackPages] \in runs
                         /\ \A i \in 0 .. KStackPages - 1 : Walk(tables, KernelPml4, b + i, 0) = p + i
  BY <1>2 DEF StackAt
<1>6. /\ p \in Nat /\ Run(p, KStackPages) \subseteq HeldPages /\ Run(p, KStackPages) \cap BootPages = {}
      /\ \A i \in 0 .. KStackPages - 1 : p + i \in Run(p, KStackPages)
  BY <1>5, RunHeld DEF MInv, Run
<1>7. StackOf(t) = {Walk(tables, KernelPml4, b + i, 0) : i \in 0 .. KStackPages - 1}
  BY <1>1, PhysIsWalk DEF StackOf
<1>8. \A i \in 0 .. KStackPages - 1 : Walk(tables, KernelPml4, b + i, 0) \in HeldPages
                                      /\ Walk(tables, KernelPml4, b + i, 0) # NoFrame
  BY <1>5, <1>6, BootFacts
<1>9. \A v \in b .. b + KStackPages - 1 : v - b \in 0 .. KStackPages - 1 /\ b + (v - b) = v
  BY <1>4
<1>10. \A v \in b .. b + KStackPages - 1 : Walk(tables, KernelPml4, v, 0) \in StackOf(t)
  <2> SUFFICES ASSUME NEW v \in b .. b + KStackPages - 1
               PROVE  Walk(tables, KernelPml4, v, 0) \in StackOf(t)
    OBVIOUS
  <2>1. PICK i \in 0 .. KStackPages - 1 : b + i = v
    BY <1>9
  <2> QED BY <1>7, <2>1
<1> QED BY <1>1, <1>4, <1>7, <1>8, <1>10

\* When nothing is being created or destroyed, the invariant says that each
\* frame in use has one owner.
LEMMA MInvOwnsOnce == MInv => FramesOwnedOnce
<1> SUFFICES ASSUME MInv, call = Idle PROVE FramesOwnedOnce
  BY DEF FramesOwnedOnce
<1> DEFINE spaces == [t \in Live |-> [p \in Places(space[t]) |-> Node(space[t], p[1], p[2])]]
           T(t) == TreeOf(space[t])
           K(t) == StackOf(t)
           W == WindowTables
<1>1. call.pc \notin Creating /\ Loose = {}
  BY DEF Idle, Creating, Loose, Growing
<1>2. \A t \in Live : space[t] \in Procs /\ space[t] \in Roots /\ space[t] # KernelPml4
                      /\ Dom(space[t]) = UserPages
  BY RootsFacts DEF Procs
<1>3. \A t \in Live : Range(spaces[t]) = T(t) /\ IsInjective(spaces[t])
  <2> SUFFICES ASSUME NEW t \in Live PROVE Range(spaces[t]) = T(t) /\ IsInjective(spaces[t])
    OBVIOUS
  <2> DEFINE P == Places(space[t])
  <2>1. /\ P \in SUBSET (UserPages \X (0 .. 4))
        /\ \A p, q \in P : Walk(tables, space[t], p[1], p[2]) = Walk(tables, space[t], q[1], q[2]) => p = q
        /\ {Walk(tables, space[t], p[1], p[2]) : p \in P} = T(t)
    BY <1>2, PlacesFacts
  <2>2. \A p \in P : Node(space[t], p[1], p[2]) = Walk(tables, space[t], p[1], p[2])
    <3>1. \A p \in P : p[2] \in 0 .. 4
      BY <2>1
    <3> QED BY <3>1, NodeIsWalk
  <2>3. spaces[t] = [p \in P |-> Walk(tables, space[t], p[1], p[2])]
    BY <2>2
  <2> HIDE DEF spaces, P, T
  <2> QED BY <2>1, <2>3 DEF Range, IsInjective
<1>4. \A n : n \in W <=> /\ n # NoFrame /\ n \notin BootPages
                         /\ \E v \in Window, l \in 1 .. 3 : n = Walk(tables, KernelPml4, v, l)
  <2>1. \A v, l : l \in 1 .. 3 => Path(KernelPml4, v)[l] = Walk(tables, KernelPml4, v, l)
    <3>1. \A l : l \in 1 .. 3 => l \in 1 .. 4
      OBVIOUS
    <3> QED BY <3>1, PathIsWalk
  <2>2. W = {Walk(tables, KernelPml4, v, l) : v \in Window, l \in 1 .. 3} \ (BootPages \cup {NoFrame})
    BY <2>1 DEF WindowTables
  <2> QED BY <2>2
<1>5. Unique(tables, Roots) /\ KernelPml4 \in Roots /\ Dom(KernelPml4) = Window
  BY RootsFacts DEF MInv, TreeOK
<1>6. \A t \in Live : T(t) \subseteq AllNodes /\ T(t) \subseteq HeldPages
  <2> SUFFICES ASSUME NEW t \in Live, NEW n \in T(t) PROVE n \in AllNodes /\ n \in HeldPages
    OBVIOUS
  <2>1. PICK v \in UserPages, l \in 0 .. 4 : Walk(tables, space[t], v, l) = n
    BY DEF TreeOf
  <2>2. n \in Pages /\ n # NoFrame
    BY DEF TreeOf
  <2>3. n \in AllNodes
    BY <1>2, <2>1, <2>2 DEF AllNodes, InTree
  <2>4. Single(n)
    <3>1. CASE l = 4
      BY <1>2, <2>1, <3>1, WalkTop, RootsFacts
    <3>2. CASE l # 4
      <4>1. l \in 0 .. 3
        BY <3>2
      <4> QED BY <1>2, <2>1, <2>2, <4>1 DEF MInv, HeldOK
    <3> QED BY <3>1, <3>2
  <2> QED BY <2>3, <2>4, SingleFacts DEF MInv
<1>7. \A t \in Live : K(t) \subseteq AllNodes /\ K(t) \subseteq HeldPages
  <2> SUFFICES ASSUME NEW t \in Live, NEW n \in K(t) PROVE n \in AllNodes /\ n \in HeldPages
    OBVIOUS
  <2>1. n \in HeldPages
    BY StackOfFacts
  <2>2. PICK v \in Window : n = Walk(tables, KernelPml4, v, 0) /\ n # NoFrame
    BY StackOfFacts
  <2>3. n \in Pages
    <3>1. TypedTables(tables) /\ KernelPml4 \in Pages /\ v \in AllPages /\ 0 \in 0 .. 4
      BY <1>5, RootsFacts, DomFacts DEF MInv, TablesOK
    <3> QED BY <2>2, <3>1, WalkTyped
  <2>4. 0 \in 0 .. 4
    OBVIOUS
  <2> QED BY <1>5, <2>1, <2>2, <2>3, <2>4 DEF AllNodes, InTree
<1>8. W \subseteq AllNodes /\ W \subseteq HeldPages
  <2> SUFFICES ASSUME NEW n \in W PROVE n \in AllNodes /\ n \in HeldPages
    OBVIOUS
  <2>1. PICK v \in Window, l \in 1 .. 3 : n = Walk(tables, KernelPml4, v, l)
    BY <1>4
  <2>2. n # NoFrame /\ n \notin BootPages
    BY <1>4
  <2>3. Single(n)
    BY <2>1, <2>2 DEF MInv, HeldOK
  <2>4. n \in Pages /\ n \in HeldPages
    BY <2>3, SingleFacts DEF MInv
  <2>5. l \in 0 .. 4
    OBVIOUS
  <2> QED BY <1>5, <2>1, <2>2, <2>4, <2>5 DEF AllNodes, InTree
<1>9. dropped \cap AllNodes = {} /\ dropped \subseteq HeldPages /\ HeldPages \subseteq AllNodes \cup dropped
  BY <1>1, LooseHeld DEF MInv, PlacesOK
<1>10. ASSUME NEW n \in HeldPages, n \notin dropped
       PROVE  n \in W \/ \E t \in Live : n \in T(t) \/ n \in K(t)
  <2>1. n \in Pages /\ n # NoFrame /\ InTree(tables, Roots, n)
    BY <1>9, <1>10 DEF AllNodes
  <2>2. PICK r \in Roots : \E v \in Dom(r), l \in 0 .. 4 : Walk(tables, r, v, l) = n
    BY <2>1 DEF InTree
  <2>3. PICK v \in Dom(r), l \in 0 .. 4 : Walk(tables, r, v, l) = n
    BY <2>2
  <2>4. CASE r # KernelPml4
    <3>1. PICK t \in Live : r = space[t]
      BY <1>1, <2>4 DEF Roots, Procs
    <3>2. n \in T(t)
      BY <1>2, <2>1, <2>3, <3>1 DEF TreeOf
    <3> QED BY <3>2
  <2>5. CASE r = KernelPml4
    <3>1. v \in Window
      BY <1>5, <2>5
    <3>2. n \notin BootPages
      BY ReservedBoot DEF MInv, IInv, HeldApartFromReserved
    <3>3. l # 4
      BY <2>3, <2>5, <3>2, WalkTop, BootFacts
    <3>4. CASE l = 0
      <4>1. ~HasStack /\ ~Growing
        BY DEF HasStack, Growing, Idle, Creating
      <4>2. PICK t \in Live : v \in kstack[t] .. kstack[t] + KStackPages - 1
        BY <2>1, <2>3, <2>5, <3>1, <3>4, <4>1 DEF MInv, StacksOK
      <4>3. n \in K(t)
        BY <2>3, <2>5, <3>1, <3>4, <4>2, StackOfFacts
      <4> QED BY <4>3
    <3>5. CASE l # 0
      <4>1. l \in 1 .. 3
        BY <3>3, <3>5
      <4> QED BY <1>4, <2>1, <2>3, <2>5, <3>1, <3>2, <4>1
    <3> QED BY <3>4, <3>5
  <2> QED BY <2>4, <2>5
<1>11. \A t, u \in Live : t # u => T(t) \cap T(u) = {}
  <2> SUFFICES ASSUME NEW t \in Live, NEW u \in Live, t # u, NEW n \in T(t), n \in T(u) PROVE FALSE
    OBVIOUS
  <2>1. PICK v \in UserPages, l \in 0 .. 4 : Walk(tables, space[t], v, l) = n
    BY DEF TreeOf
  <2>2. PICK w \in UserPages, m \in 0 .. 4 : Walk(tables, space[u], w, m) = n
    BY DEF TreeOf
  <2>3. n # NoFrame
    BY DEF TreeOf
  <2>4. space[t] = space[u]
    BY <1>2, <1>5, <2>1, <2>2, <2>3, UniqueUse
  <2> QED BY <2>4 DEF MInv, SpaceOK
<1>12. ASSUME NEW n, NEW v \in Window, NEW l \in 0 .. 4, n = Walk(tables, KernelPml4, v, l), n # NoFrame
       PROVE  \A t \in Live : n \notin T(t)
  <2> SUFFICES ASSUME NEW t \in Live, n \in T(t) PROVE FALSE
    OBVIOUS
  <2>1. PICK w \in UserPages, m \in 0 .. 4 : Walk(tables, space[t], w, m) = n
    BY DEF TreeOf
  <2>2. space[t] = KernelPml4
    BY <1>2, <1>5, <1>12, <2>1, UniqueUse
  <2> QED BY <1>2, <2>2
<1>13. \A t, u \in Live : T(t) \cap K(u) = {}
  <2> SUFFICES ASSUME NEW t \in Live, NEW u \in Live, NEW n \in T(t), n \in K(u) PROVE FALSE
    OBVIOUS
  <2>1. PICK v \in Window : n = Walk(tables, KernelPml4, v, 0) /\ n # NoFrame
    BY StackOfFacts
  <2>2. 0 \in 0 .. 4
    OBVIOUS
  <2> QED BY <1>12, <2>1, <2>2
<1>14. \A t \in Live : T(t) \cap W = {}
  <2> SUFFICES ASSUME NEW t \in Live, NEW n \in T(t), n \in W PROVE FALSE
    OBVIOUS
  <2>1. PICK v \in Window, l \in 1 .. 3 : n = Walk(tables, KernelPml4, v, l)
    BY <1>4
  <2>2. n # NoFrame /\ l \in 0 .. 4
    BY <1>4
  <2> QED BY <1>12, <2>1, <2>2
<1>15. \A t, u \in Live : t # u => K(t) \cap K(u) = {}
  <2> SUFFICES ASSUME NEW t \in Live, NEW u \in Live, t # u, NEW n \in K(t), n \in K(u) PROVE FALSE
    OBVIOUS
  <2>1. PICK v \in Window : /\ v \in kstack[t] .. kstack[t] + KStackPages - 1
                            /\ n = Walk(tables, KernelPml4, v, 0) /\ n # NoFrame
    BY StackOfFacts
  <2>2. PICK w \in Window : /\ w \in kstack[u] .. kstack[u] + KStackPages - 1
                            /\ n = Walk(tables, KernelPml4, w, 0) /\ n # NoFrame
    BY StackOfFacts
  <2>3. 0 \in 0 .. 4 /\ v \in Nat /\ w \in Nat
    BY WindowIndex
  <2>4. v = w
    <3>1. Area(v, 0) = Area(w, 0)
      BY <1>5, <2>1, <2>2, <2>3, UniqueUse
    <3> QED BY <2>3, <3>1, AreaZero
  <2>5. Apart(kstack[t], kstack[u]) /\ kstack[t] \in Nat /\ kstack[u] \in Nat
    BY DEF MInv, StacksOK, SpaceOK, Live
  <2> QED BY <2>1, <2>2, <2>3, <2>4, <2>5, LayoutFacts DEF Apart
<1>16. \A t \in Live : K(t) \cap W = {}
  <2> SUFFICES ASSUME NEW t \in Live, NEW n \in K(t), n \in W PROVE FALSE
    OBVIOUS
  <2>1. PICK v \in Window : n = Walk(tables, KernelPml4, v, 0) /\ n # NoFrame
    BY StackOfFacts
  <2>2. PICK w \in Window, l \in 1 .. 3 : n = Walk(tables, KernelPml4, w, l)
    BY <1>4
  <2>3. 0 \in 0 .. 4 /\ l \in 0 .. 4
    OBVIOUS
  <2>4. 0 = l
    BY <1>5, <2>1, <2>2, <2>3, UniqueUse
  <2> QED BY <2>4
<1> DEFINE owners == {Range(spaces[t]) : t \in Live} \cup {StackOf(t) : t \in Live}
                       \cup {WindowTables, dropped}
<1>17. owners = {T(t) : t \in Live} \cup {K(t) : t \in Live} \cup {W, dropped}
  <2> HIDE DEF spaces, T
  <2> QED BY <1>3
<1> HIDE DEF T, K, W
<1>18. HeldPages = UNION owners
  <2>1. \A n \in HeldPages : n \in UNION owners
    <3> HIDE DEF owners
    <3> QED BY <1>10, <1>17
  <2>2. \A A \in owners : A \subseteq HeldPages
    <3> HIDE DEF owners
    <3> QED BY <1>6, <1>7, <1>8, <1>9, <1>17
  <2> QED BY <2>1, <2>2
<1>19. \A A, B \in owners : A = B \/ A \cap B = {}
  <2> HIDE DEF owners
  <2> SUFFICES ASSUME NEW A \in owners, NEW B \in owners PROVE A = B \/ A \cap B = {}
    OBVIOUS
  <2>1. A = W \/ A = dropped \/ \E t \in Live : A = T(t) \/ A = K(t)
    BY <1>17
  <2>2. B = W \/ B = dropped \/ \E t \in Live : B = T(t) \/ B = K(t)
    BY <1>17
  <2>3. \A t \in Live : T(t) \cap dropped = {} /\ K(t) \cap dropped = {}
    BY <1>6, <1>7, <1>9
  <2>4. W \cap dropped = {}
    BY <1>8, <1>9
  <2>5. CASE A = W \/ A = dropped
    <3>1. \A t \in Live : A \cap T(t) = {} /\ A \cap K(t) = {}
      BY <1>14, <1>16, <2>3, <2>5
    <3> QED BY <2>2, <2>4, <2>5, <3>1
  <2>6. CASE \E t \in Live : A = T(t) \/ A = K(t)
    <3>1. A \cap W = {} /\ A \cap dropped = {}
      BY <1>14, <1>16, <2>3, <2>6
    <3>2. PICK t \in Live : A = T(t) \/ A = K(t)
      BY <2>6
    <3>3. \A u \in Live : (A = T(u) \/ A \cap T(u) = {}) /\ (A = K(u) \/ A \cap K(u) = {})
      BY <1>11, <1>13, <1>15, <3>2
    <3> QED BY <2>2, <3>1, <3>3
  <2> QED BY <2>1, <2>5, <2>6
<1>20. \A t \in Live : IsInjective(spaces[t])
  BY <1>3
<1> HIDE DEF spaces, owners
<1>21. /\ HeldPages = UNION owners /\ \A t \in Live : IsInjective(spaces[t])
       /\ \A A, B \in owners : A = B \/ A \cap B = {}
  BY <1>18, <1>19, <1>20
<1> QED BY <1>21 DEF FramesOwnedOnce, owners, spaces

\* Whenever no process is being made or destroyed, each frame in use is in
\* exactly one place: a process's page tables and pages, its kernel stack,
\* the kernel's tables, or among the pages that vmm_map_user_page lost.  So
\* no error path of task_create_user, wherever memory runs out, loses,
\* shares or gives back twice another frame; for every memory size, table
\* fan-out, program and number of processes.
THEOREM FramesAlwaysOwnedOnce == USpec => []FramesOwnedOnce
<1> QED BY MemoryConsistent, MInvOwnsOnce, PTL

-----------------------------------------------------------------------------
(* What system calls see of a process's memory.                            *)

\* Page v of PML4 r is mapped for the program, for writing too.
Allowed(tb, r, v, write) ==
    \A l \in 1 .. 4 :
        /\ Walk(tb, r, v, l) # NoFrame
        /\ "present" \in tb[Walk(tb, r, v, l)][Index(v, l)].flags
        /\ "user" \in tb[Walk(tb, r, v, l)][Index(v, l)].flags
        /\ write => "write" \in tb[Walk(tb, r, v, l)][Index(v, l)].flags

\* The byte at address a of PML4 r.
ByteAt(tb, by, r, a) == by[Walk(tb, r, a \div PageSize, 0)][a % PageSize]

\* Later addresses are on later pages.
LEMMA PageOrder ==
    ASSUME NEW x \in Nat, NEW y \in Nat, x <= y
    PROVE  x \div PageSize <= y \div PageSize /\ x \div PageSize \in Nat /\ y \div PageSize \in Nat
<1> DEFINE p == x \div PageSize
           q == y \div PageSize
<1>1. PageSize \in Nat \ {0}
  BY PageSizeFacts
<1>2. p \in Nat /\ p * PageSize <= x /\ q \in Nat /\ y < (q + 1) * PageSize
  BY <1>1, Division
<1> HIDE DEF p, q
<1>3. p <= q
  <2> SUFFICES ASSUME q + 1 <= p PROVE FALSE
    BY <1>2
  <2>1. (q + 1) * PageSize <= p * PageSize /\ (q + 1) * PageSize \in Nat /\ p * PageSize \in Nat
    BY <1>1, <1>2, Monotone
  <2> QED BY <1>2, <2>1
<1> QED BY <1>2, <1>3 DEF p, q

\* check_page_permissions in these words.
LEMMA AllowedIs ==
    ASSUME NEW r, NEW v, NEW write \in BOOLEAN
    PROVE  check_page_permissions(r, v, write) <=> Allowed(tables, r, v, write)
<1>1. ASSUME NEW l \in 1 .. 4
      PROVE  EntryAt(r, v, l) = IF Walk(tables, r, v, l) = NoFrame THEN NoEntry
                                ELSE tables[Walk(tables, r, v, l)][Index(v, l)]
  BY PathIsWalk DEF EntryAt
<1>2. NoEntry.flags = {}
  BY DEF NoEntry
<1>3. \A l \in 1 .. 4 : Walk(tables, r, v, l) = NoFrame => EntryAt(r, v, l).flags = {}
  BY <1>1, <1>2
<1>4. \A l \in 1 .. 4 : Walk(tables, r, v, l) # NoFrame =>
          EntryAt(r, v, l).flags = tables[Walk(tables, r, v, l)][Index(v, l)].flags
  BY <1>1
<1>5. check_page_permissions(r, v, write) <=>
         \A l \in 1 .. 4 : /\ "present" \in EntryAt(r, v, l).flags /\ "user" \in EntryAt(r, v, l).flags
                           /\ write => "write" \in EntryAt(r, v, l).flags
  BY DEF check_page_permissions, Levels
<1> QED BY <1>3, <1>4, <1>5 DEF Allowed

\* What Load reads.
LEMMA LoadIs ==
    ASSUME NEW r, NEW a \in Nat, NEW n \in Nat
    PROVE  /\ Load(r, a, n) = [i \in 1 .. n |-> ByteAt(tables, bytes, r, a + i - 1)]
           /\ Len(Load(r, a, n)) = n
           /\ Load(r, a, 1) = <<0>> <=> ByteAt(tables, bytes, r, a) = 0
           /\ Load(r, a, 1)[1] = ByteAt(tables, bytes, r, a)
<1>1. \A k \in Nat : Load(r, a, k) = [i \in 1 .. k |-> ByteAt(tables, bytes, r, a + i - 1)]
  BY PhysIsWalk DEF Load, At, ByteAt
<1>2. Len(Load(r, a, n)) = n
  <2>1. Load(r, a, n) = [i \in 1 .. n |-> ByteAt(tables, bytes, r, a + i - 1)]
    BY <1>1
  <2> QED BY <2>1
<1>3. a + 1 - 1 = a /\ 1 \in 1 .. 1 /\ 1 \in Nat
  OBVIOUS
<1>4. Load(r, a, 1) = [i \in 1 .. 1 |-> ByteAt(tables, bytes, r, a + i - 1)]
  BY <1>1
<1>5. Load(r, a, 1)[1] = ByteAt(tables, bytes, r, a)
  BY <1>3, <1>4
<1>6. ASSUME ByteAt(tables, bytes, r, a) = 0 PROVE Load(r, a, 1) = <<0>>
  <2>1. \A i \in 1 .. 1 : ByteAt(tables, bytes, r, a + i - 1) = 0
    <3>1. \A i \in 1 .. 1 : i = 1
      OBVIOUS
    <3> QED BY <1>3, <1>6, <3>1
  <2>2. Load(r, a, 1) = [i \in 1 .. 1 |-> 0]
    BY <1>4, <2>1
  <2>3. [i \in 1 .. 1 |-> 0] = <<0>>
    OBVIOUS
  <2> QED BY <2>2, <2>3
<1>7. <<0>>[1] = 0
  OBVIOUS
<1> QED BY <1>1, <1>2, <1>5, <1>6, <1>7

\* The loops of uaccess.c get through a range whose pages all allow it.
LEMMA ReachAll ==
    ASSUME NEW r, NEW a \in Nat, NEW n \in Nat, NEW write \in BOOLEAN,
           \A v \in PagesOf(a, n) : Allowed(tables, r, v, write)
    PROVE  Reach(r, a, n, write) = n
<1>1. ASSUME NEW k \in 0 .. n - 1 PROVE (a + k) \div PageSize \in PagesOf(a, n)
  <2>1. a \in Nat /\ a + k \in Nat /\ a + n - 1 \in Nat /\ a <= a + k /\ a + k <= a + n - 1
    OBVIOUS
  <2>2. /\ a \div PageSize <= (a + k) \div PageSize /\ a \div PageSize \in Nat
        /\ (a + k) \div PageSize <= (a + n - 1) \div PageSize
        /\ (a + k) \div PageSize \in Nat /\ (a + n - 1) \div PageSize \in Nat
    BY <2>1, PageOrder
  <2> QED BY <2>1, <2>2 DEF PagesOf
<1>2. {k \in 0 .. n - 1 : ~check_page_permissions(r, (a + k) \div PageSize, write)} = {}
  BY <1>1, AllowedIs
<1> QED BY <1>2 DEF Reach

\* User space in bytes: the pages of the PML4 entries that are not shared.
LEMMA UserBytes ==
    /\ UserStart \in Nat \ {0} /\ UserEnd \in Nat /\ PageSize \in Nat \ {0}
    /\ \A a \in Nat : a \in UserStart .. UserEnd - 1 <=> a \div PageSize \in UserPages
<1> DEFINE s == Span[4]
           e == KernelHalf * Span[4]
<1>1. s \in Nat \ {0} /\ e \in Nat /\ PageSize \in Nat \ {0} /\ UserStart = s * PageSize /\ UserEnd = e * PageSize
  BY SpanFacts, KernelHalfFacts, PageSizeFacts, UserAccessAssumption DEF Levels
<1>2. UserPages = s .. e - 1
  BY DEF UserPages
<1> HIDE DEF s, e
<1>3. UserStart \in Nat \ {0} /\ UserEnd \in Nat
  <2>1. s * PageSize \in Nat \ {0}
    BY ONLY <1>1
  <2>2. e * PageSize \in Nat
    BY ONLY <1>1
  <2> QED BY <1>1, <2>1, <2>2
<1>4. ASSUME NEW a \in Nat PROVE a \in UserStart .. UserEnd - 1 <=> a \div PageSize \in UserPages
  <2> DEFINE q == a \div PageSize
  <2>1. q \in Nat /\ q * PageSize <= a /\ a < (q + 1) * PageSize
    BY <1>1, Division
  <2> HIDE DEF q
  <2>2. q * PageSize \in Nat /\ (q + 1) * PageSize \in Nat
    BY <1>1, <2>1, Monotone
  <2>3. q >= s => s * PageSize <= q * PageSize
    BY <1>1, <2>1, Monotone
  <2>4. ~(q >= s) => (q + 1) * PageSize <= s * PageSize
    BY <1>1, <2>1, Monotone
  <2>5. q < e => (q + 1) * PageSize <= e * PageSize
    BY <1>1, <2>1, Monotone
  <2>6. ~(q < e) => e * PageSize <= q * PageSize
    BY <1>1, <2>1, Monotone
  <2>7. a >= UserStart <=> q >= s
    BY <1>1, <1>3, <2>1, <2>2, <2>3, <2>4
  <2>8. a < UserEnd <=> q < e
    BY <1>1, <1>3, <2>1, <2>2, <2>5, <2>6
  <2> QED BY <1>1, <1>2, <1>3, <2>1, <2>7, <2>8 DEF q
<1> QED BY <1>1, <1>3, <1>4

\* A page that a program may use is there.
LEMMA AllowedMapped ==
    ASSUME MInv, NEW r \in Procs, NEW v \in UserPages, NEW write \in BOOLEAN, Allowed(tables, r, v, write)
    PROVE  Walk(tables, r, v, 0) # NoFrame
<1> DEFINE n == Walk(tables, r, v, 1)
           i == Index(v, 1)
<1>1. 1 \in 1 .. 4 /\ 1 \in 0 .. 3
  OBVIOUS
<1>2. n # NoFrame /\ "present" \in tables[n][i].flags
  BY <1>1 DEF Allowed
<1>3. Single(n)
  BY <1>1, <1>2 DEF MInv, HeldOK
<1>4. n \in Pages /\ n \notin BootPages
  BY <1>3, SingleFacts DEF MInv
<1>5. i \in Entries
  BY <1>1, UserIndex, IndexIn DEF Levels
<1>6. "huge" \notin tables[n][i].flags
  BY <1>4, <1>5 DEF MInv, TablesOK
<1>7. IsTable(tables[n][i])
  BY <1>2, <1>6 DEF IsTable, Present
<1>8. tables[n][i].phys # NoFrame
  BY <1>4, <1>5, <1>7 DEF MInv, TablesOK
<1>9. Walk(tables, r, v, 0) = Leaf(tables, n, i)
  BY WalkLeaf
<1> QED BY <1>2, <1>8, <1>9 DEF Leaf, Present

\* What strnlen_user finds.
LEMMA StrnlenFacts ==
    ASSUME NEW r, NEW a \in Nat, NEW max \in Nat, strnlen_user(r, a, max).err = "ok"
    PROVE  LET n == strnlen_user(r, a, max).len
           IN  /\ n \in 0 .. max /\ a >= UserStart
               /\ \A i \in 0 .. n - 1 : ByteAt(tables, bytes, r, a + i) # 0
               /\ n < max => /\ a + n < UserEnd /\ Allowed(tables, r, (a + n) \div PageSize, FALSE)
                             /\ ByteAt(tables, bytes, r, a + n) = 0
<1> DEFINE readable(n) == /\ a + n < UserEnd
                          /\ check_page_permissions(r, (a + n) \div PageSize, FALSE)
           stops == {n \in 0 .. max - 1 : ~readable(n) \/ Load(r, a + n, 1) = <<0>>}
           m == CHOOSE k \in stops : \A j \in stops : k <= j
<1>1. strnlen_user(r, a, max) =
        IF validate_user_range(a, 1) # "ok" THEN [err |-> EFAULT, len |-> 0]
        ELSE IF stops = {} THEN [err |-> "ok", len |-> max]
        ELSE IF readable(m) THEN [err |-> "ok", len |-> m]
        ELSE [err |-> EFAULT, len |-> 0]
  BY DEF strnlen_user
<1>2. EFAULT # "ok" /\ EINVAL # "ok"
  BY DEF EFAULT, EINVAL
<1> HIDE DEF readable, stops, m
<1>3. validate_user_range(a, 1) = "ok"
  BY <1>1, <1>2
<1>4. a >= UserStart
  <2>1. ~(a < UserStart)
    BY <1>2, <1>3 DEF validate_user_range
  <2> QED BY <2>1, UserBytes
<1>5. ASSUME NEW k \in 0 .. max - 1, k \notin stops PROVE ByteAt(tables, bytes, r, a + k) # 0
  <2>1. Load(r, a + k, 1) # <<0>>
    BY <1>5 DEF stops
  <2>2. a + k \in Nat /\ 1 \in Nat
    OBVIOUS
  <2> QED BY <2>1, <2>2, LoadIs
<1>6. CASE stops = {}
  <2>1. strnlen_user(r, a, max).len = max
    BY <1>1, <1>3, <1>6
  <2>2. \A i \in 0 .. max - 1 : ByteAt(tables, bytes, r, a + i) # 0
    BY <1>5, <1>6
  <2>3. max \in 0 .. max /\ ~(max < max)
    OBVIOUS
  <2> QED BY <1>4, <2>1, <2>2, <2>3
<1>7. CASE stops # {}
  <2>1. stops \subseteq Nat /\ \A k \in stops : k \in 0 .. max - 1
    BY DEF stops
  <2>2. \E k \in stops : \A j \in stops : k <= j
    BY <1>7, <2>1, LeastMember
  <2>3. m \in stops /\ \A j \in stops : m <= j
    BY <2>2 DEF m
  <2>4. readable(m) /\ strnlen_user(r, a, max).len = m
    BY <1>1, <1>2, <1>3, <1>7
  <2>5. m \in 0 .. max - 1 /\ m \in 0 .. max
    BY <2>1, <2>3
  <2>6. a + m < UserEnd /\ check_page_permissions(r, (a + m) \div PageSize, FALSE)
    BY <2>4 DEF readable
  <2>7. Allowed(tables, r, (a + m) \div PageSize, FALSE)
    BY <2>6, AllowedIs
  <2>8. ByteAt(tables, bytes, r, a + m) = 0
    <3>1. Load(r, a + m, 1) = <<0>>
      BY <2>3, <2>4 DEF stops
    <3>2. a + m \in Nat /\ 1 \in Nat
      BY <2>5
    <3> QED BY <3>1, <3>2, LoadIs
  <2>9. \A i \in 0 .. m - 1 : i \in 0 .. max - 1 /\ i \notin stops
    BY <2>3, <2>5
  <2>10. \A i \in 0 .. m - 1 : ByteAt(tables, bytes, r, a + i) # 0
    BY <1>5, <2>9
  <2> QED BY <1>4, <2>4, <2>5, <2>6, <2>7, <2>8, <2>10
<1> QED BY <1>6, <1>7

\* What an answer says of the state it was given in.
ReplyIn(tb, by, sp, alive, rep) ==
    /\ rep.op = "verify_user_write" /\ rep.ret = "ok" =>
          /\ rep.addr \in Nat /\ rep.size \in Nat
          /\ \A v \in PagesOf(rep.addr, rep.size) : Allowed(tb, sp[rep.t], v, TRUE)
    /\ rep.op = "verify_user_read" /\ rep.ret = "ok" =>
          /\ rep.addr \in Nat /\ rep.size \in Nat
          /\ \A v \in PagesOf(rep.addr, rep.size) : Allowed(tb, sp[rep.t], v, FALSE)
    /\ rep.op = "strncpy_from_user" /\ rep.ret = "ok" =>
          /\ rep.t \in alive /\ rep.addr \in Nat /\ rep.addr >= UserStart /\ rep.size \in Nat
          /\ \E n \in 0 .. rep.size - 1 :
                /\ rep.text = [i \in 1 .. n |-> ByteAt(tb, by, sp[rep.t], rep.addr + i - 1)]
                /\ \A i \in 0 .. n - 1 : ByteAt(tb, by, sp[rep.t], rep.addr + i) # 0
                /\ n < rep.size - 1 =>
                      /\ rep.addr + n < UserEnd
                      /\ Allowed(tb, sp[rep.t], (rep.addr + n) \div PageSize, FALSE)
                      /\ ByteAt(tb, by, sp[rep.t], rep.addr + n) = 0

\* The last answer of a user access is true of memory as it is now.
ReplyOK == ReplyIn(tables, bytes, space, Live, reply)

\* Every answer is true when it is given, and the next step withdraws it.
LEMMA NextKeepsReply == MInv /\ ReplyOK /\ [UNext]_vars => ReplyOK'
<1> SUFFICES ASSUME MInv, ReplyOK, [UNext]_vars
             PROVE  ReplyIn(tables', bytes', space', Live', reply')
  BY DEF ReplyOK
<1>1. CASE UNCHANGED vars
  <2>1. UNCHANGED <<tables, bytes, space, reply>>
    BY <1>1 DEF vars, vmVars, userVars
  <2>2. Live' = Live
    BY <2>1 DEF Live
  <2> QED BY <2>1, <2>2 DEF ReplyOK
<1>2. ASSUME reply'.op \notin {"verify_user_write", "verify_user_read", "strncpy_from_user"}
      PROVE  ReplyIn(tables', bytes', space', Live', reply')
  BY <1>2 DEF ReplyIn
<1>3. CASE Kernel
  <2>1. reply'.op = "none"
    BY <1>3 DEF Kernel
  <2> QED BY <1>2, <2>1
<1>4. ASSUME NEW t \in Slots, NEW addr \in Addrs, NEW size \in Sizes,
             copy_to_user(t, addr, size) \/ clear_user(t, addr, size) \/ copy_from_user(t, addr, size)
      PROVE  ReplyIn(tables', bytes', space', Live', reply')
  <2>1. ASSUME NEW op, NEW byte, Write(op, t, addr, size, byte)
        PROVE  \E x, y : reply' = [op |-> op, t |-> t, addr |-> addr, size |-> size, ret |-> x, text |-> y]
    BY <2>1, Zenon DEF Write, Reply
  <2>2. copy_from_user(t, addr, size) =>
          \E x, y : reply' = [op |-> "copy_from_user", t |-> t, addr |-> addr, size |-> size, ret |-> x, text |-> y]
    BY Zenon DEF copy_from_user, Reply
  <2>3. \E op \in {"copy_to_user", "clear_user", "copy_from_user"} : \E x, y :
           reply' = [op |-> op, t |-> t, addr |-> addr, size |-> size, ret |-> x, text |-> y]
    BY <1>4, <2>1, <2>2 DEF copy_to_user, clear_user
  <2>4. reply'.op \in {"copy_to_user", "clear_user", "copy_from_user"}
    BY <2>3
  <2> QED BY <1>2, <2>4
<1>5. ASSUME NEW t \in Slots, NEW addr \in Addrs, NEW size \in Sizes, NEW write \in BOOLEAN,
             NEW op, Verify(op, t, addr, size, write),
             op = IF write THEN "verify_user_write" ELSE "verify_user_read"
      PROVE  ReplyIn(tables', bytes', space', Live', reply')
  <2>1. UNCHANGED <<tables, bytes, space>>
    BY <1>5 DEF Verify, Reads, vmVars
  <2>2. addr \in Nat /\ size \in Nat
    BY UserAccessAssumption
  <2>3. EFAULT # "ok" /\ EINVAL # "ok"
    BY DEF EFAULT, EINVAL
  <2>4. PICK ret : /\ reply' = [op |-> op, t |-> t, addr |-> addr, size |-> size, ret |-> ret, text |-> <<>>]
                   /\ ret = IF Refused(addr, size) # "ok" THEN Refused(addr, size)
                            ELSE IF \A v \in PagesOf(addr, size) : check_page_permissions(space[t], v, write)
                            THEN "ok" ELSE EFAULT
    BY <1>5 DEF Verify, Reply
  <2>5. ret = "ok" => \A v \in PagesOf(addr, size) : Allowed(tables, space[t], v, write)
    BY <2>3, <2>4, AllowedIs
  <2>6. /\ reply'.op = op /\ reply'.t = t /\ reply'.addr = addr /\ reply'.size = size /\ reply'.ret = ret
    BY <2>4
  <2> QED BY <1>5, <2>1, <2>2, <2>5, <2>6 DEF ReplyIn
<1>6. ASSUME NEW t \in Slots, NEW addr \in Addrs, NEW size \in Sizes, strncpy_from_user(t, addr, size)
      PROVE  ReplyIn(tables', bytes', space', Live', reply')
  <2>1. UNCHANGED <<tables, bytes, space>> /\ t \in Live
    BY <1>6 DEF strncpy_from_user, Reads, vmVars, Running, Live
  <2>2. addr \in Nat /\ size \in Nat
    BY UserAccessAssumption
  <2>3. EFAULT # "ok" /\ EINVAL # "ok"
    BY DEF EFAULT, EINVAL
  <2>4. PICK found : found = strnlen_user(space[t], addr, size - 1)
    OBVIOUS
  <2>5. PICK ret : /\ reply' = [op |-> "strncpy_from_user", t |-> t, addr |-> addr, size |-> size, ret |-> ret,
                                text |-> IF ret = "ok" THEN Load(space[t], addr, found.len) ELSE <<>>]
                   /\ ret = IF addr = 0 \/ size = 0 THEN EINVAL
                            ELSE IF found.err # "ok" THEN found.err
                            ELSE Outcome(space[t], addr, found.len, FALSE)
    BY <1>6, <2>4 DEF strncpy_from_user, Reply
  <2>6. Live' = Live
    BY <2>1 DEF Live
  <2>7. /\ reply'.op = "strncpy_from_user" /\ reply'.t = t /\ reply'.addr = addr /\ reply'.size = size
        /\ reply'.ret = ret
        /\ ret = "ok" => reply'.text = Load(space[t], addr, found.len)
    BY <2>5
  <2>8. CASE ret # "ok"
    BY <2>7, <2>8 DEF ReplyIn
  <2>9. CASE ret = "ok"
    <3>1. size # 0 /\ found.err = "ok" /\ size - 1 \in Nat
      <4>1. size # 0 /\ found.err = "ok"
        BY ONLY <2>3, <2>5, <2>9, Zenon
      <4> QED BY <2>2, <4>1
    <3>2. PICK n : n = found.len
      OBVIOUS
    <3>3. /\ n \in 0 .. size - 1 /\ addr >= UserStart
          /\ \A i \in 0 .. n - 1 : ByteAt(tables, bytes, space[t], addr + i) # 0
          /\ n < size - 1 => /\ addr + n < UserEnd /\ Allowed(tables, space[t], (addr + n) \div PageSize, FALSE)
                             /\ ByteAt(tables, bytes, space[t], addr + n) = 0
      <4>1. PICK m : m = size - 1
        OBVIOUS
      <4>2. PICK r : r = space[t]
        OBVIOUS
      <4>3. m \in Nat /\ n = strnlen_user(r, addr, m).len /\ strnlen_user(r, addr, m).err = "ok"
        BY <2>4, <3>1, <3>2, <4>1, <4>2
      <4>4. LET k == strnlen_user(r, addr, m).len
            IN  /\ k \in 0 .. m /\ addr >= UserStart
                /\ \A i \in 0 .. k - 1 : ByteAt(tables, bytes, r, addr + i) # 0
                /\ k < m => /\ addr + k < UserEnd /\ Allowed(tables, r, (addr + k) \div PageSize, FALSE)
                           /\ ByteAt(tables, bytes, r, addr + k) = 0
        BY <2>2, <4>3, StrnlenFacts, Zenon
      <4> QED BY <4>1, <4>2, <4>3, <4>4
    <3>4. Load(space[t], addr, n) = [i \in 1 .. n |-> ByteAt(tables, bytes, space[t], addr + i - 1)]
      <4>1. n \in Nat
        BY <2>2, <3>3
      <4> QED BY <2>2, <4>1, LoadIs
    <3>5. reply'.text = [i \in 1 .. n |-> ByteAt(tables, bytes, space[t], addr + i - 1)]
      BY <2>7, <2>9, <3>2, <3>4
    <3>6. \E k \in 0 .. size - 1 :
                /\ reply'.text = [i \in 1 .. k |-> ByteAt(tables, bytes, space[t], addr + i - 1)]
                /\ \A i \in 0 .. k - 1 : ByteAt(tables, bytes, space[t], addr + i) # 0
                /\ k < size - 1 =>
                      /\ addr + k < UserEnd
                      /\ Allowed(tables, space[t], (addr + k) \div PageSize, FALSE)
                      /\ ByteAt(tables, bytes, space[t], addr + k) = 0
      BY <3>3, <3>5
    <3> QED BY <2>1, <2>2, <2>6, <2>7, <3>3, <3>6 DEF ReplyIn
  <2> QED BY <2>8, <2>9
<1>7. CASE UNext
  <2>1. ASSUME NEW t \in Slots, NEW addr \in Addrs, NEW size \in Sizes,
               verify_user_read(t, addr, size) \/ verify_user_write(t, addr, size)
        PROVE  ReplyIn(tables', bytes', space', Live', reply')
    BY <1>5, <2>1 DEF verify_user_read, verify_user_write
  <2> QED BY <1>3, <1>4, <1>6, <1>7, <2>1 DEF UNext
<1> QED BY <1>1, <1>7

\* The answers are true in the state as programs see it.
LEMMA ReplyTruthful == MInv /\ ReplyOK => ReadsTruthful
<1> SUFFICES ASSUME MInv, ReplyOK PROVE ReadsTruthful
  OBVIOUS
<1>1. ASSUME reply.op = "verify_user_write", reply.ret = "ok"
      PROVE  Reach(space[reply.t], reply.addr, reply.size, TRUE) = reply.size
  BY <1>1, ReachAll DEF ReplyOK, ReplyIn
<1>2. ASSUME reply.op = "verify_user_read", reply.ret = "ok"
      PROVE  Reach(space[reply.t], reply.addr, reply.size, FALSE) = reply.size
  BY <1>2, ReachAll DEF ReplyOK, ReplyIn
<1>3. ASSUME reply.op = "strncpy_from_user", reply.ret = "ok"
      PROVE  LET n == Len(reply.text)
             IN  /\ n < reply.size
                 /\ reply.text = Load(space[reply.t], reply.addr, n)
                 /\ \A i \in 1 .. n : reply.text[i] # 0
                 /\ n < reply.size - 1 => Sees[reply.t][reply.addr + n] = 0
  <2>1. PICK r : r = space[reply.t]
    OBVIOUS
  <2>2. PICK a : a = reply.addr
    OBVIOUS
  <2>3. reply.t \in Live /\ a \in Nat /\ a >= UserStart /\ reply.size \in Nat /\ r \in Procs
    BY <1>3, <2>1, <2>2 DEF ReplyOK, ReplyIn, Procs
  <2>4. PICK n \in 0 .. reply.size - 1 :
            /\ reply.text = [i \in 1 .. n |-> ByteAt(tables, bytes, r, a + i - 1)]
            /\ \A i \in 0 .. n - 1 : ByteAt(tables, bytes, r, a + i) # 0
            /\ n < reply.size - 1 =>
                  /\ a + n < UserEnd /\ Allowed(tables, r, (a + n) \div PageSize, FALSE)
                  /\ ByteAt(tables, bytes, r, a + n) = 0
    BY <1>3, <2>1, <2>2 DEF ReplyOK, ReplyIn
  <2>5. n \in Nat /\ n < reply.size
    BY <2>3
  <2>6. reply.text = Load(r, a, n) /\ Len(reply.text) = n
    BY <2>3, <2>4, <2>5, LoadIs
  <2>7. ASSUME NEW i \in 1 .. n PROVE reply.text[i] # 0
    <3>1. i - 1 \in 0 .. n - 1 /\ a + (i - 1) = a + i - 1
      BY <2>3, <2>5
    <3>2. reply.text[i] = ByteAt(tables, bytes, r, a + i - 1)
      BY <2>4
    <3>3. ByteAt(tables, bytes, r, a + (i - 1)) # 0
      BY <2>4, <3>1
    <3> QED BY <3>1, <3>2, <3>3
  <2>8. ASSUME n < reply.size - 1 PROVE Sees[reply.t][a + n] = 0
    <3>1. a + n \in Nat /\ a + n \in UserStart .. UserEnd - 1
      <4>1. a + n < UserEnd
        BY ONLY <2>4, <2>8
      <4>2. UserStart \in Nat /\ UserEnd \in Nat
        BY ONLY UserBytes
      <4>3. a \in Nat /\ a >= UserStart
        BY ONLY <2>3
      <4>4. n \in Nat
        BY ONLY <2>5
      <4> QED BY ONLY <4>1, <4>2, <4>3, <4>4
    <3>2. (a + n) \div PageSize \in UserPages
      BY <3>1, UserBytes
    <3>3. Walk(tables, r, (a + n) \div PageSize, 0) # NoFrame
      BY <2>3, <2>4, <2>8, <3>2, AllowedMapped
    <3>4. vmm_get_physical(space[reply.t], (a + n) \div PageSize) # NoFrame
      BY <2>1, <3>3, PhysIsWalk
    <3>5. Load(space[reply.t], a + n, 1)[1] = 0
      <4>1. 1 \in Nat
        OBVIOUS
      <4> QED BY <2>1, <2>4, <2>8, <3>1, <4>1, LoadIs
    <3> QED BY <2>3, <3>1, <3>4, <3>5 DEF Sees
  <2> QED BY <2>1, <2>2, <2>5, <2>6, <2>7, <2>8
<1> QED BY <1>1, <1>2, <1>3 DEF ReadsTruthful

\* What verify_user_write or verify_user_read accepts can be accessed
\* completely, and the string strncpy_from_user returns is the one in memory,
\* for every range and every way segments share pages.
THEOREM ReadsAlwaysTruthful == USpec => []ReadsTruthful
<1>1. UInit => ReplyOK
  BY DEF UInit, ReplyOK, ReplyIn
<1>2. USpec => []ReplyOK
  BY <1>1, MemoryConsistent, NextKeepsReply, PTL DEF USpec
<1> QED BY <1>2, MemoryConsistent, ReplyTruthful, PTL

-----------------------------------------------------------------------------
(* Images: what the pages of a process hold and allow.                     *)

\* What the entry of page v at level l allows.
Flags(tb, r, v, l) == tb[Walk(tb, r, v, l)][Index(v, l)].flags

\* Tables forbid nothing: only the entry of a page can.
TablesOpen(tb, r) ==
    \A v \in UserPages, l \in 2 .. 4 :
        Walk(tb, r, v, l - 1) # NoFrame => {"user", "write"} \subseteq Flags(tb, r, v, l)

\* The segments among the first n that lie on page v.
Cover(prog, n, v) ==
    {i \in 1 .. n : prog[i].memsz # 0 /\ v \in FirstPage(prog[i]) .. LastPage(prog[i])}

\* The pages of the first n segments are mapped, writable if one of them is,
\* the pages of `new` are mapped writable, and no others.
PagesLoaded(tb, r, prog, n, new) ==
    \A v \in UserPages :
        /\ v \in new => Walk(tb, r, v, 0) # NoFrame /\ {"user", "write"} \subseteq Flags(tb, r, v, 1)
        /\ v \notin new =>
              /\ Walk(tb, r, v, 0) # NoFrame <=> Cover(prog, n, v) # {}
              /\ Walk(tb, r, v, 0) # NoFrame =>
                    /\ "user" \in Flags(tb, r, v, 1)
                    /\ "write" \in Flags(tb, r, v, 1) <=> \E i \in Cover(prog, n, v) : prog[i].writable

\* The first n segments are in memory but for the addresses in wr.
BytesLoaded(tb, by, r, prog, n, wr) ==
    \A i \in 1 .. n : \A a \in DOMAIN SegmentBytes(prog[i]) :
        a \notin wr => ByteAt(tb, by, r, a) = SegmentBytes(prog[i])[a]

\* Both, and the tables above the pages.
Loaded(tb, by, r, prog, n, new, wr) ==
    TablesOpen(tb, r) /\ PagesLoaded(tb, r, prog, n, new) /\ BytesLoaded(tb, by, r, prog, n, wr)

\* How far task_create_user has come: the segments it has loaded, and the
\* pages of the next one, or of the stack, that it has mapped.
SegmentsDone(c) == IF c.pc \in {"page", "map", "fill"} THEN c.seg - 1 ELSE Len(c.prog)
\* The pages it has mapped.
PagesDone(c) ==
    IF c.pc \in {"page", "map"} THEN FirstPage(c.prog[c.seg]) .. c.v - 1
    ELSE IF c.pc = "fill" THEN FirstPage(c.prog[c.seg]) .. LastPage(c.prog[c.seg])
    ELSE IF c.pc \in {"stack", "smap"} THEN StackTop - StackPages .. c.v - 1
    ELSE UserStack

\* The inductive invariant of images, for live processes and the new one.
LiveLoaded ==
    \A t \in Live : /\ image[t] \in Programs
                    /\ Loaded(tables, bytes, space[t], image[t], Len(image[t]), UserStack, written[t])
\* The process that is being created has what it has loaded so far.
NewLoaded ==
    call.pc \in Creating \ {"undo"} =>
        Loaded(tables, bytes, call.root, call.prog, SegmentsDone(call), PagesDone(call), {})
\* The inductive invariant of images.
LoadInv ==
    /\ DOMAIN bytes = Pages /\ DOMAIN image = Slots /\ DOMAIN written = Slots
    /\ LiveLoaded /\ NewLoaded

\* The tree of r is the same in tb and uc, with what its entries allow.
SameTree(tb, uc, r) ==
    \A v \in UserPages :
        /\ \A l \in 0 .. 4 : Walk(uc, r, v, l) = Walk(tb, r, v, l)
        /\ \A l \in 1 .. 4 : Walk(tb, r, v, l) # NoFrame => Flags(uc, r, v, l) = Flags(tb, r, v, l)

\* Both bytes arrays show PML4 r the same but for the addresses in wr.
SameBytes(tb, by, cy, r, wr) ==
    \A a \in Nat : /\ a \div PageSize \in UserPages
                   /\ Walk(tb, r, a \div PageSize, 0) # NoFrame
                   /\ a \notin wr
                   => ByteAt(tb, cy, r, a) = ByteAt(tb, by, r, a)

\* The addresses of a segment are on its pages.
LEMMA SegmentAddrs ==
    ASSUME NEW prog \in Programs, NEW i \in DOMAIN prog, NEW a \in DOMAIN SegmentBytes(prog[i])
    PROVE  /\ a \in Nat /\ prog[i].memsz # 0 /\ prog[i].memsz \in Nat /\ prog[i].vaddr \in Nat
           /\ a >= prog[i].vaddr /\ a < prog[i].vaddr + prog[i].memsz
           /\ a \div PageSize \in FirstPage(prog[i]) .. LastPage(prog[i])
           /\ a \div PageSize \in UserPages /\ a \div PageSize \notin UserStack
<1>1. prog \in Seq(Segment)
  BY AddressSpaceAssumption
<1>2. prog[i] \in Segment
  BY <1>1
<1> DEFINE b == prog[i].vaddr
           m == prog[i].memsz
<1>3. b \in Nat /\ m \in Nat
  BY <1>2 DEF Segment
<1>4. DOMAIN SegmentBytes(prog[i]) = b .. b + m - 1
  BY DEF SegmentBytes
<1>5. FirstPage(prog[i]) = b \div PageSize /\ LastPage(prog[i]) = (b + m - 1) \div PageSize
  BY DEF FirstPage, LastPage
<1> HIDE DEF b, m
<1>6. a \in Nat /\ b <= a /\ a <= b + m - 1 /\ m # 0 /\ b + m - 1 \in Nat
  BY <1>3, <1>4
<1>7. b \div PageSize <= a \div PageSize /\ a \div PageSize <= (b + m - 1) \div PageSize
      /\ a \div PageSize \in Nat /\ b \div PageSize \in Nat /\ (b + m - 1) \div PageSize \in Nat
  BY <1>3, <1>6, PageOrder
<1>8. a \div PageSize \in FirstPage(prog[i]) .. LastPage(prog[i])
  BY <1>5, <1>7
<1>9. prog[i].memsz # 0 /\ prog[i].memsz \in Nat /\ prog[i].vaddr \in Nat
  BY <1>3, <1>6 DEF m, b
<1>10. a >= b /\ a < b + m
  BY <1>3, <1>6
<1>11. a >= prog[i].vaddr /\ a < prog[i].vaddr + prog[i].memsz
  BY <1>10 DEF b, m
<1> QED BY <1>6, <1>8, <1>9, <1>11, SegmentPages

\* Where the tree and the bytes are the same, the image stays loaded.
LEMMA KeptLoaded ==
    ASSUME NEW tb, NEW uc, NEW by, NEW cy, NEW r, NEW prog \in Programs, NEW n \in 0 .. Len(prog),
           NEW new, NEW wr, NEW wz, wr \subseteq wz,
           Loaded(tb, by, r, prog, n, new, wr), SameTree(tb, uc, r), SameBytes(tb, by, cy, r, wz)
    PROVE  Loaded(uc, cy, r, prog, n, new, wz)
<1>1. TablesOpen(tb, r) /\ PagesLoaded(tb, r, prog, n, new) /\ BytesLoaded(tb, by, r, prog, n, wr)
  BY DEF Loaded
<1>2. prog \in Seq(Segment)
  BY AddressSpaceAssumption
<1>3. 1 .. n \subseteq DOMAIN prog
  BY <1>2
<1>4. TablesOpen(uc, r)
  <2> SUFFICES ASSUME NEW v \in UserPages, NEW l \in 2 .. 4, Walk(uc, r, v, l - 1) # NoFrame
               PROVE  {"user", "write"} \subseteq Flags(uc, r, v, l)
    BY DEF TablesOpen
  <2>1. l \in 0 .. 4 /\ l \in 1 .. 4 /\ l - 1 \in 0 .. 4 /\ l - 1 \in 0 .. l
    OBVIOUS
  <2>2. Walk(tb, r, v, l - 1) # NoFrame
    BY <2>1 DEF SameTree
  <2>3. Walk(tb, r, v, l) # NoFrame
    BY <2>1, <2>2, WalkZero
  <2> QED BY <1>1, <2>1, <2>2, <2>3 DEF SameTree, TablesOpen
<1>5. ASSUME NEW v \in UserPages
      PROVE  /\ Walk(uc, r, v, 0) = Walk(tb, r, v, 0)
             /\ Walk(tb, r, v, 0) # NoFrame => Flags(uc, r, v, 1) = Flags(tb, r, v, 1)
  <2>1. 0 \in 0 .. 4 /\ 1 \in 0 .. 4 /\ 1 \in 1 .. 4 /\ 0 \in 0 .. 1
    OBVIOUS
  <2>2. Walk(tb, r, v, 0) # NoFrame => Walk(tb, r, v, 1) # NoFrame
    BY <2>1, WalkZero
  <2> QED BY <2>1, <2>2 DEF SameTree
<1>6. PagesLoaded(uc, r, prog, n, new)
  BY <1>1, <1>5 DEF PagesLoaded
<1>7. BytesLoaded(uc, cy, r, prog, n, wz)
  <2> SUFFICES ASSUME NEW i \in 1 .. n, NEW a \in DOMAIN SegmentBytes(prog[i]), a \notin wz
               PROVE  ByteAt(uc, cy, r, a) = SegmentBytes(prog[i])[a]
    BY DEF BytesLoaded
  <2> DEFINE v == a \div PageSize
  <2>1. /\ a \in Nat /\ prog[i].memsz # 0 /\ v \in FirstPage(prog[i]) .. LastPage(prog[i])
        /\ v \in UserPages
    BY <1>3, SegmentAddrs
  <2>2. i \in Cover(prog, n, v)
    BY <2>1 DEF Cover
  <2> HIDE DEF v
  <2>3. Walk(tb, r, v, 0) # NoFrame
    BY <1>1, <2>1, <2>2 DEF PagesLoaded
  <2>4. ByteAt(tb, cy, r, a) = ByteAt(tb, by, r, a)
    BY <2>1, <2>3 DEF SameBytes, v
  <2>5. ByteAt(tb, by, r, a) = SegmentBytes(prog[i])[a]
    BY <1>1 DEF BytesLoaded
  <2>6. Walk(uc, r, v, 0) = Walk(tb, r, v, 0)
    BY <1>5, <2>1
  <2>7. ByteAt(uc, cy, r, a) = ByteAt(tb, cy, r, a)
    BY <2>6 DEF ByteAt, v
  <2> QED BY <2>4, <2>5, <2>7
<1> QED BY <1>4, <1>6, <1>7 DEF Loaded

\* A step that changes frames of one tree, or of none, leaves the others.
LEMMA OtherTrees ==
    ASSUME MInv, NEW s \in Roots, NEW r \in Procs, r # s,
           \A n \in Pages, i \in Entries : tables'[n][i] # tables[n][i] =>
               \/ ~InTree(tables, Roots, n)
               \/ \E a \in Dom(s), m \in 1 .. 4 : n = Walk(tables, s, a, m)
    PROVE  SameTree(tables, tables', r)
<1> SUFFICES ASSUME NEW v \in UserPages
             PROVE  /\ \A l \in 0 .. 4 : Walk(tables', r, v, l) = Walk(tables, r, v, l)
                    /\ \A l \in 1 .. 4 : Walk(tables, r, v, l) # NoFrame =>
                          Flags(tables', r, v, l) = Flags(tables, r, v, l)
  BY DEF SameTree
<1>1. r \in Roots /\ r \in Pages /\ v \in Dom(r) /\ v \in AllPages /\ TypedTables(tables) /\ Unique(tables, Roots)
  BY RootsFacts, DomFacts DEF MInv, TreeOK, TablesOK
<1>2. ASSUME NEW l \in 1 .. 4, Walk(tables, r, v, l) # NoFrame
      PROVE  tables'[Walk(tables, r, v, l)][Index(v, l)] = tables[Walk(tables, r, v, l)][Index(v, l)]
  <2>1. l \in 0 .. 4 /\ Walk(tables, r, v, l) \in Pages /\ Index(v, l) \in Entries
    BY <1>1, WalkTyped, DomFacts
  <2>2. InTree(tables, Roots, Walk(tables, r, v, l))
    BY <1>1, <2>1 DEF InTree
  <2>3. ASSUME NEW a \in Dom(s), NEW m \in 1 .. 4, Walk(tables, r, v, l) = Walk(tables, s, a, m)
        PROVE  FALSE
    <3>1. m \in 0 .. 4
      OBVIOUS
    <3> QED BY <1>1, <1>2, <2>1, <2>3, <3>1, UniqueUse
  <2> QED BY <2>1, <2>2, <2>3
<1>3. Untouched(tables, tables', r, v, 1)
  BY <1>2 DEF Untouched, Alike
<1>4. \A l \in 0 .. 4 : Walk(tables', r, v, l) = Walk(tables, r, v, l)
  BY <1>3, WalkFrameAll
<1>5. \A l \in 1 .. 4 : l \in 0 .. 4
  OBVIOUS
<1> QED BY <1>2, <1>4, <1>5 DEF Flags

\* An address is its page and its offset.
LEMMA SameAddress ==
    ASSUME NEW a \in Nat, NEW c \in Nat, NEW d \in Nat \ {0}, a \div d = c \div d, a % d = c % d
    PROVE  a = c
<1> DEFINE q == c \div d
           o == c % d
<1>1. a = (a \div d) * d + (a % d) /\ c = q * d + o
  BY DivMod
<1>2. a \div d = q /\ a % d = o
  OBVIOUS
<1> HIDE DEF q, o
<1> QED BY <1>1, <1>2

\* A store through PML4 s changes the addressed bytes of s, and nothing that
\* another process, or s at another address, sees.
LEMMA StoredByte ==
    ASSUME MInv, NEW s \in Procs, NEW new, DOMAIN new \subseteq Nat,
           \A c \in DOMAIN new : c \div PageSize \in UserPages,
           NEW r \in Procs, NEW a \in Nat, a \div PageSize \in UserPages,
           Walk(tables, r, a \div PageSize, 0) # NoFrame
    PROVE  ByteAt(tables, Stored(s, new), r, a) =
              IF r = s /\ a \in DOMAIN new THEN new[a] ELSE ByteAt(tables, bytes, r, a)
<1> DEFINE v == a \div PageSize
           f == Walk(tables, r, v, 0)
           o == a % PageSize
           loc == [c \in DOMAIN new |-> At(s, c)]
<1>1. PageSize \in Nat \ {0} /\ o \in 0 .. PageSize - 1
  BY PageSizeFacts, DivMod
<1>2. r \in Roots /\ s \in Roots /\ Dom(r) = UserPages /\ Dom(s) = UserPages
  BY RootsFacts
<1>3. f \in Pages
  <2>1. v \in Dom(r) /\ r \in Pages /\ TypedTables(tables) /\ 0 \in 0 .. 4
    BY <1>2, RootsFacts DEF MInv, TablesOK
  <2> QED BY <2>1, DomFacts, WalkTyped
<1>4. \A c \in DOMAIN new : loc[c] = <<Walk(tables, s, c \div PageSize, 0), c % PageSize>>
  BY PhysIsWalk DEF At
<1>5. ASSUME NEW c \in DOMAIN new, loc[c] = <<f, o>>
      PROVE  c = a /\ r = s
  <2>1. Walk(tables, s, c \div PageSize, 0) = f /\ c % PageSize = o
    BY <1>4, <1>5
  <2>2. c \in Nat /\ c \div PageSize \in UserPages
    OBVIOUS
  <2>3. r = s /\ Area(v, 0) = Area(c \div PageSize, 0)
    <3>1. 0 \in 0 .. 4 /\ Unique(tables, Roots)
      BY DEF MInv, TreeOK
    <3> QED BY <1>2, <2>1, <2>2, <3>1, UniqueUse
  <2>4. v = c \div PageSize
    BY <2>2, <2>3, AreaZero, UserIndex
  <2>5. a = c
    BY <1>1, <2>1, <2>2, <2>4, SameAddress
  <2> QED BY <2>3, <2>5
<1>6. r = s /\ a \in DOMAIN new => loc[a] = <<f, o>>
  BY <1>4
<1>7. Stored(s, new)[f][o] = IF \E c \in DOMAIN new : loc[c] = <<f, o>>
                             THEN new[CHOOSE c \in DOMAIN new : loc[c] = <<f, o>>]
                             ELSE bytes[f][o]
  <2> HIDE DEF f, o
  <2> QED BY <1>1, <1>3 DEF Stored
<1>8. ByteAt(tables, Stored(s, new), r, a) = Stored(s, new)[f][o] /\ ByteAt(tables, bytes, r, a) = bytes[f][o]
  BY DEF ByteAt
<1> HIDE DEF loc, f, o
<1>9. CASE r = s /\ a \in DOMAIN new
  <2>1. (CHOOSE c \in DOMAIN new : loc[c] = <<f, o>>) = a
    BY <1>5, <1>6, <1>9
  <2> QED BY <1>6, <1>7, <1>8, <1>9, <2>1
<1>10. CASE ~(r = s /\ a \in DOMAIN new)
  <2>1. ~\E c \in DOMAIN new : loc[c] = <<f, o>>
    BY <1>5, <1>10
  <2> QED BY <1>7, <1>8, <1>10, <2>1
<1> QED BY <1>9, <1>10

\* Empty segments add nothing to an image.
LEMMA EmptySegments ==
    ASSUME NEW tb, NEW by, NEW r, NEW prog \in Programs, NEW n \in Nat, NEW m \in n .. Len(prog), NEW wr,
           Loaded(tb, by, r, prog, n, {}, wr), \A j \in n + 1 .. m : prog[j].memsz = 0
    PROVE  Loaded(tb, by, r, prog, m, {}, wr)
<1>1. Len(prog) \in Nat /\ DOMAIN prog = 1 .. Len(prog)
  <2>1. prog \in Seq(Segment)
    BY AddressSpaceAssumption
  <2> QED BY <2>1
<1>2. \A i \in 1 .. m : i \in 1 .. n \/ i \in n + 1 .. m
  BY <1>1
<1>3. \A i \in 1 .. n : i \in 1 .. m
  BY <1>1
<1>4. \A v : Cover(prog, m, v) = Cover(prog, n, v)
  BY <1>2, <1>3 DEF Cover
<1>5. PagesLoaded(tb, r, prog, m, {})
  BY <1>4 DEF Loaded, PagesLoaded
<1>6. BytesLoaded(tb, by, r, prog, m, wr)
  <2> SUFFICES ASSUME NEW i \in 1 .. m, NEW a \in DOMAIN SegmentBytes(prog[i]), a \notin wr
               PROVE  ByteAt(tb, by, r, a) = SegmentBytes(prog[i])[a]
    BY DEF BytesLoaded
  <2>1. i \in DOMAIN prog
    BY <1>1
  <2>2. prog[i].memsz # 0
    BY <2>1, SegmentAddrs
  <2>3. i \in 1 .. n
    BY <1>2, <2>2
  <2> QED BY <2>3 DEF Loaded, BytesLoaded
<1> QED BY <1>5, <1>6 DEF Loaded

\* With n segments loaded, elf_load goes on where the invariant says.
LEMMA NextLoaded ==
    ASSUME CallOK, call \in CreateCall, NEW n \in Nat, n <= Len(call.prog), NEW root \in Pages,
           call' = [Continue(AfterSegments(n)) EXCEPT !.root = root],
           Loaded(tables', bytes', root, call.prog, n, {}, {})
    PROVE  NewLoaded'
<1>1. call.prog \in Programs
  BY CallShape DEF CallOK
<1>2. Len(call.prog) \in Nat /\ DOMAIN call.prog = 1 .. Len(call.prog)
  <2>1. call.prog \in Seq(Segment)
    BY <1>1, AddressSpaceAssumption
  <2> QED BY <2>1
<1>3. PICK pc \in {"page", "stack", "undo"}, v \in Nat, seg \in Nat :
              /\ AfterSegments(n) = [pc |-> pc, v |-> v, seg |-> seg]
              /\ pc = "stack" => /\ v = StackTop - StackPages
                                 /\ \A j \in n + 1 .. Len(call.prog) : call.prog[j].memsz = 0
              /\ pc = "page" => /\ seg \in DOMAIN call.prog /\ call.prog[seg].memsz # 0
                                /\ v = FirstPage(call.prog[seg])
                                /\ seg > n /\ \A j \in n + 1 .. seg - 1 : call.prog[j].memsz = 0
  BY <1>1, AfterSegmentsFacts
<1>4. call' = [call EXCEPT !.pc = pc, !.v = v, !.seg = seg, !.root = root]
  BY <1>3 DEF Continue, CreateCall
<1>5. call'.pc = pc /\ call'.v = v /\ call'.seg = seg /\ call'.root = root /\ call'.prog = call.prog
  BY <1>4 DEF CreateCall
<1>6. CASE pc = "undo"
  BY <1>5, <1>6 DEF NewLoaded
<1>7. CASE pc = "stack"
  <2>1. StackTop - StackPages .. v - 1 = {}
    BY <1>3, <1>7, LayoutFacts
  <2>2. SegmentsDone(call') = Len(call.prog) /\ PagesDone(call') = {}
    BY <1>5, <1>7, <2>1 DEF SegmentsDone, PagesDone
  <2>3. Len(call.prog) \in n .. Len(call.prog)
    BY <1>2
  <2>4. Loaded(tables', bytes', root, call.prog, Len(call.prog), {}, {})
    BY <1>1, <1>3, <1>7, <2>3, EmptySegments
  <2> QED BY <1>5, <2>2, <2>4 DEF NewLoaded
<1>8. CASE pc = "page"
  <2>1. v .. v - 1 = {}
    OBVIOUS
  <2>2. SegmentsDone(call') = seg - 1 /\ PagesDone(call') = {}
    BY <1>3, <1>5, <1>8, <2>1 DEF SegmentsDone, PagesDone
  <2>3. seg - 1 \in n .. Len(call.prog)
    BY <1>2, <1>3, <1>8
  <2>4. Loaded(tables', bytes', root, call.prog, seg - 1, {}, {})
    BY <1>1, <1>3, <1>8, <2>3, EmptySegments
  <2> QED BY <1>5, <2>2, <2>4 DEF NewLoaded
<1> QED BY <1>3, <1>6, <1>7, <1>8

\* The history of writes of a process only grows while it lives.
WrittenKept == DOMAIN written' = Slots /\ \A t \in Live : t \in Live' => written[t] \subseteq written'[t]

\* A process keeps its image while its tree and its bytes are kept.
LEMMA ProcessKept ==
    ASSUME LiveLoaded, NEW t \in Live, space'[t] = space[t], image'[t] = image[t],
           written[t] \subseteq written'[t],
           SameTree(tables, tables', space[t]),
           SameBytes(tables, bytes, bytes', space[t], written'[t])
    PROVE  /\ image'[t] \in Programs
           /\ Loaded(tables', bytes', space'[t], image'[t], Len(image'[t]), UserStack, written'[t])
<1>1. /\ image[t] \in Programs
      /\ Loaded(tables, bytes, space[t], image[t], Len(image[t]), UserStack, written[t])
  BY DEF LiveLoaded
<1>2. Len(image[t]) \in 0 .. Len(image[t])
  <2>1. image[t] \in Seq(Segment)
    BY <1>1, AddressSpaceAssumption
  <2> QED BY <2>1
<1>3. Loaded(tables', bytes', space[t], image[t], Len(image[t]), UserStack, written'[t])
  BY <1>1, <1>2, KeptLoaded
<1> QED BY <1>1, <1>3

\* The tree and the bytes of an unchanged memory.
LEMMA Unchanged ==
    ASSUME NEW r, NEW wr
    PROVE  /\ tables' = tables => SameTree(tables, tables', r)
           /\ bytes' = bytes => SameBytes(tables, bytes, bytes', r, wr)
BY DEF SameTree, SameBytes

\* All processes that go on living are kept.
LEMMA LiveKept ==
    ASSUME LiveLoaded, WrittenKept, Live' \subseteq Live,
           \A t \in Live' : space'[t] = space[t] /\ image'[t] = image[t],
           \A t \in Live' : SameTree(tables, tables', space[t]),
           \A t \in Live' : SameBytes(tables, bytes, bytes', space[t], written'[t])
    PROVE  LiveLoaded'
<1> SUFFICES ASSUME NEW t \in Live'
             PROVE  /\ image'[t] \in Programs
                    /\ Loaded(tables', bytes', space'[t], image'[t], Len(image'[t]), UserStack, written'[t])
  BY DEF LiveLoaded
<1>1. t \in Live /\ written[t] \subseteq written'[t]
  BY DEF WrittenKept
<1> QED BY <1>1, ProcessKept

\* Steps that leave tables and bytes alone.
LEMMA QuietKeepsLoad ==
    ASSUME MInv, LoadInv, WrittenKept, UNCHANGED <<tables, bytes, image, space>>,
           \/ call' = call
           \/ call'.pc \notin Creating \ {"undo"}
           \/ /\ call.pc = "page" /\ call'.pc = "map" /\ call'.root = call.root
              /\ call'.prog = call.prog /\ call'.seg = call.seg /\ call'.v = call.v
    PROVE  LoadInv'
<1>1. Live' = Live
  BY DEF Live
<1>2. LiveLoaded'
  BY <1>1, Unchanged, LiveKept DEF LoadInv
<1>3. NewLoaded'
  <2>1. CASE call' = call
    BY <2>1 DEF LoadInv, NewLoaded
  <2>2. CASE call'.pc \notin Creating \ {"undo"}
    BY <2>2 DEF NewLoaded
  <2>3. CASE /\ call.pc = "page" /\ call'.pc = "map" /\ call'.root = call.root
             /\ call'.prog = call.prog /\ call'.seg = call.seg /\ call'.v = call.v
    <3>1. SegmentsDone(call') = SegmentsDone(call) /\ PagesDone(call') = PagesDone(call)
      BY <2>3 DEF SegmentsDone, PagesDone
    <3>2. call.pc \in Creating \ {"undo"}
      BY <2>3 DEF Creating
    <3> QED BY <2>3, <3>1, <3>2 DEF LoadInv, NewLoaded
  <2> QED BY <2>1, <2>2, <2>3
<1> QED BY <1>2, <1>3 DEF LoadInv, WrittenKept

\* task_destroy: the other processes stay.
LEMMA DestroyKeepsLoad ==
    ASSUME MInv, LoadInv, WrittenKept, NEW u \in Slots, task_destroy(u)
    PROVE  LoadInv'
<1>1. /\ space' = [space EXCEPT ![u] = NoFrame] /\ image' = [image EXCEPT ![u] = <<>>]
      /\ UNCHANGED <<tables, bytes>> /\ call'.pc = "free"
  BY DEF task_destroy
<1>2. space \in [Slots -> Pages] /\ DOMAIN image = Slots
  BY DEF MInv, SpaceOK, LoadInv
<1>3. \A t \in Live' : t \in Live /\ space'[t] = space[t] /\ image'[t] = image[t]
  BY <1>1, <1>2 DEF Live
<1>4. LiveLoaded'
  BY <1>1, <1>3, Unchanged, LiveKept DEF LoadInv
<1>5. NewLoaded'
  BY <1>1 DEF NewLoaded, Creating
<1>6. DOMAIN image' = Slots /\ bytes' = bytes
  BY <1>1, <1>2
<1> QED BY <1>4, <1>5, <1>6 DEF LoadInv, WrittenKept

\* Steps on the kernel's own tables.
LEMMA KernelTablesKeepLoad ==
    ASSUME MInv, LoadInv, WrittenKept, UNCHANGED <<bytes, image, space>>,
           call'.pc \notin Creating,
           \A n \in Pages, i \in Entries : tables'[n][i] # tables[n][i] =>
               \/ ~InTree(tables, Roots, n)
               \/ \E a \in Dom(KernelPml4), m \in 1 .. 4 : n = Walk(tables, KernelPml4, a, m)
    PROVE  LoadInv'
<1>1. Live' = Live
  BY DEF Live
<1>2. \A t \in Live : space[t] \in Procs /\ space[t] # KernelPml4
  BY RootsFacts DEF Procs
<1>3. KernelPml4 \in Roots
  BY RootsFacts
<1>4. \A t \in Live' : SameTree(tables, tables', space[t])
  BY <1>1, <1>2, <1>3, OtherTrees
<1>5. LiveLoaded'
  BY <1>1, <1>4, Unchanged, LiveKept DEF LoadInv
<1> QED BY <1>5 DEF LoadInv, NewLoaded, WrittenKept

\* Unmapping a kernel stack.
LEMMA UnmapKeepsLoad ==
    ASSUME MInv, LoadInv, WrittenKept, NEW from \in Nat, NEW to \in Int, from .. to \subseteq Window,
           tables' = Unmapped(from, to), UNCHANGED <<bytes, image, space>>, call' = Idle
    PROVE  LoadInv'
<1>1. \A u : Path(KernelPml4, u)[1] = Walk(tables, KernelPml4, u, 1)
  <2>1. 1 \in 1 .. 4
    OBVIOUS
  <2> QED BY <2>1, PathIsWalk
<1>2. \A n \in Pages : DOMAIN tables[n] = Entries
  BY DEF MInv, TablesOK, TypedTables
<1>3. ASSUME NEW n \in Pages, NEW i \in Entries, tables'[n][i] # tables[n][i]
      PROVE  \E a \in Dom(KernelPml4), m \in 1 .. 4 : n = Walk(tables, KernelPml4, a, m)
  <2>1. tables'[n][i] = IF \E u \in from .. to : Walk(tables, KernelPml4, u, 1) = n /\ Index(u, 1) = i
                        THEN NoEntry ELSE tables[n][i]
    BY <1>1, <1>2 DEF Unmapped
  <2>2. PICK u \in from .. to : Walk(tables, KernelPml4, u, 1) = n
    BY <1>3, <2>1
  <2>3. u \in Dom(KernelPml4) /\ 1 \in 1 .. 4
    BY RootsFacts
  <2> QED BY <2>2, <2>3
<1>4. call'.pc \notin Creating
  BY DEF Idle, Creating
<1> QED BY <1>3, <1>4, KernelTablesKeepLoad

\* The segments loaded so far are segments of the program.
LEMMA DoneBound ==
    ASSUME CallOK, call.pc \in Creating \ {"undo"}
    PROVE  /\ call.prog \in Programs /\ SegmentsDone(call) \in 0 .. Len(call.prog)
           /\ 1 .. SegmentsDone(call) \subseteq DOMAIN call.prog
           /\ Len(call.prog) \in Nat /\ DOMAIN call.prog = 1 .. Len(call.prog)
<1>1. call.prog \in Programs
  BY CreatingCall
<1>2. call.prog \in Seq(Segment)
  BY <1>1, AddressSpaceAssumption
<1>3. Len(call.prog) \in Nat /\ DOMAIN call.prog = 1 .. Len(call.prog)
  BY <1>2
<1>4. call.pc \in {"page", "map", "fill"} => call.seg \in DOMAIN call.prog
  BY DEF CallOK
<1>5. SegmentsDone(call) \in 0 .. Len(call.prog)
  BY <1>3, <1>4 DEF SegmentsDone
<1>6. 1 .. SegmentsDone(call) \subseteq DOMAIN call.prog
  BY <1>3, <1>5
<1> QED BY <1>1, <1>3, <1>5, <1>6

\* Loading a page: what the new table allows, all levels allow.
LEMMA TableKeepsLoad ==
    ASSUME MInv, LoadInv, WrittenKept, get_or_create_table
    PROVE  LoadInv'
<1>1. PICK g, s, a, k, f, j : TableLinked(g, s, a, k, f, j)
  BY TableCreated
<1>2. UNCHANGED <<bytes, image, space, call>>
  BY DEF get_or_create_table
<1>3. /\ call.pc \in Mapping /\ s = MapRoot /\ s \in Roots /\ a \in Dom(s)
      /\ k \in 1 .. 3 /\ k + 1 \in 1 .. 4 /\ k + 1 \in 0 .. 4 /\ k \in 0 .. 4
      /\ f = Walk(tables, s, a, k + 1) /\ j = Index(a, k + 1) /\ f # NoFrame
      /\ Walk(tables, s, a, k) = NoFrame
      /\ ~InTree(tables, Roots, g) /\ g # NoFrame
      /\ tables'[f][j] = [phys |-> g, flags |-> MapFlags]
      /\ \A n \in Pages, i \in Entries : n # g /\ ~(n = f /\ i = j) => tables'[n][i] = tables[n][i]
  BY <1>1 DEF TableLinked
<1>4. \A r \in Roots : \A v \in Dom(r), l \in 0 .. 4 :
          Walk(tables', r, v, l) = IF r = s /\ l <= k /\ Area(v, k) = Area(a, k)
                                   THEN IF l = k THEN g ELSE NoFrame
                                   ELSE Walk(tables, r, v, l)
  BY <1>1 DEF TableLinked
<1>5. \A n \in Pages, i \in Entries : tables'[n][i] # tables[n][i] =>
         ~InTree(tables, Roots, n) \/ \E b \in Dom(s), m \in 1 .. 4 : n = Walk(tables, s, b, m)
  BY <1>3
<1>6. CASE call.pc = "kmap"
  <2>1. s = KernelPml4 /\ call'.pc \notin Creating
    BY <1>2, <1>3, <1>6 DEF MapRoot, Creating
  <2> QED BY <1>2, <1>5, <2>1, KernelTablesKeepLoad
<1>7. CASE call.pc # "kmap"
  <2>1. /\ call.pc \in {"map", "smap"} /\ call.pc \in Creating /\ call.pc # "undo" /\ s = call.root
        /\ MapFlags = {"present", "write", "user"}
    BY <1>3, <1>7 DEF Mapping, Creating, MapRoot, MapFlags
  <2>2. s \in Procs /\ s \in Pages /\ Dom(s) = UserPages
    BY <2>1, CallRoot, RootsFacts
  <2>3. Live' = Live /\ \A t \in Live : space[t] \in Procs /\ space[t] # s
    BY <1>2, <2>1 DEF Live, Procs, MInv, SpaceOK
  <2>4. \A t \in Live' : SameTree(tables, tables', space[t])
    BY <1>3, <1>5, <2>3, OtherTrees
  <2>5. LiveLoaded'
    BY <1>2, <2>3, <2>4, Unchanged, LiveKept DEF LoadInv
  <2>6. Loaded(tables, bytes, s, call.prog, SegmentsDone(call), PagesDone(call), {})
    BY <2>1 DEF LoadInv, NewLoaded
  <2>7. TypedTables(tables) /\ Unique(tables, Roots)
    BY DEF MInv, TablesOK, TreeOK
  <2>8. ASSUME NEW v \in UserPages, NEW l \in 0 .. 4, Walk(tables, s, v, l) # NoFrame
        PROVE  Walk(tables', s, v, l) = Walk(tables, s, v, l)
    <3>1. CASE l <= k /\ Area(v, k) = Area(a, k)
      <4>1. v \in Nat /\ a \in Nat
        BY <1>3, <2>2, DomFacts
      <4>2. k \in k .. 4 /\ l \in 0 .. k
        BY <1>3, <3>1
      <4>3. Walk(tables, s, v, k) = Walk(tables, s, a, k)
        BY <1>3, <3>1, <4>1, <4>2, WalkArea
      <4> QED BY <1>3, <2>8, <4>2, <4>3, WalkZero
    <3>2. CASE ~(l <= k /\ Area(v, k) = Area(a, k))
      BY <1>3, <1>4, <2>2, <3>2
    <3> QED BY <3>1, <3>2
  <2>9. ASSUME NEW v \in UserPages PROVE Walk(tables', s, v, 0) = Walk(tables, s, v, 0)
    <3>1. 0 \in 0 .. 4 /\ k # 0
      BY <1>3
    <3> QED BY <1>3, <1>4, <2>2, <2>8, <3>1
  <2>10. ASSUME NEW v \in UserPages, NEW l \in 1 .. 4, Walk(tables, s, v, l) # NoFrame
         PROVE  /\ Flags(tables', s, v, l) = Flags(tables, s, v, l) \/ Flags(tables', s, v, l) = MapFlags
                /\ l = 1 => Flags(tables', s, v, l) = Flags(tables, s, v, l)
    <3>1. l \in 0 .. 4 /\ Walk(tables', s, v, l) = Walk(tables, s, v, l)
      BY <2>8, <2>10
    <3>2. /\ Walk(tables, s, v, l) \in Pages /\ Index(v, l) \in Entries
          /\ InTree(tables, Roots, Walk(tables, s, v, l))
      BY <1>3, <2>2, <2>7, <3>1, WalkTyped, DomFacts DEF InTree
    <3>3. Walk(tables, s, v, l) # g
      BY <1>3, <3>2
    <3>4. Walk(tables, s, v, l) = f => l = k + 1
      BY <1>3, <2>2, <2>7, <2>10, <3>1, UniqueUse
    <3>5. l = 1 => l # k + 1
      BY <1>3
    <3>6. CASE Walk(tables, s, v, l) = f /\ Index(v, l) = j
      BY <1>3, <3>1, <3>4, <3>5, <3>6 DEF Flags
    <3>7. CASE ~(Walk(tables, s, v, l) = f /\ Index(v, l) = j)
      BY <1>3, <3>1, <3>2, <3>3, <3>7 DEF Flags
    <3> QED BY <3>6, <3>7
  <2>11. TablesOpen(tables', s)
    <3> SUFFICES ASSUME NEW v \in UserPages, NEW l \in 2 .. 4, Walk(tables', s, v, l - 1) # NoFrame
                 PROVE  {"user", "write"} \subseteq Flags(tables', s, v, l)
      BY DEF TablesOpen
    <3>1. l \in 1 .. 4 /\ l \in 0 .. 4 /\ l - 1 \in 0 .. 4 /\ l - 1 \in 0 .. l /\ v \in Dom(s)
      BY <2>2
    <3>2. CASE Walk(tables, s, v, l - 1) # NoFrame
      <4>1. Walk(tables, s, v, l) # NoFrame
        BY <3>1, <3>2, WalkZero
      <4>2. {"user", "write"} \subseteq Flags(tables, s, v, l)
        BY <2>6, <3>2 DEF Loaded, TablesOpen
      <4> QED BY <2>1, <2>10, <3>1, <4>1, <4>2
    <3>3. CASE Walk(tables, s, v, l - 1) = NoFrame
      <4>1. l - 1 <= k /\ Area(v, k) = Area(a, k) /\ l - 1 = k
        BY <1>3, <1>4, <3>1, <3>3
      <4>2. l = k + 1
        BY <1>3, <4>1
      <4>3. v \in Nat /\ a \in Nat /\ k \in 0 .. 3 /\ k + 1 \in k .. 4
        BY <1>3, <2>2, DomFacts
      <4>4. Walk(tables, s, v, k + 1) = f
        BY <1>3, <4>1, <4>3, WalkArea
      <4>5. Index(v, k + 1) = j
        BY <1>3, <4>1, <4>3, AreaStep
      <4>6. Walk(tables', s, v, l) = f
        BY <1>3, <2>8, <3>1, <4>2, <4>4
      <4>7. Flags(tables', s, v, l) = MapFlags
        BY <1>3, <4>2, <4>5, <4>6 DEF Flags
      <4> QED BY <2>1, <4>7
    <3> QED BY <3>2, <3>3
  <2>12. ASSUME NEW v \in UserPages, Walk(tables, s, v, 0) # NoFrame
         PROVE  Flags(tables', s, v, 1) = Flags(tables, s, v, 1)
    <3>1. 0 \in 0 .. 1 /\ 1 \in 0 .. 4 /\ 1 \in 1 .. 4
      OBVIOUS
    <3>2. Walk(tables, s, v, 1) # NoFrame
      BY <2>12, <3>1, WalkZero
    <3> QED BY <2>10, <3>1, <3>2
  <2> DEFINE n == SegmentsDone(call)
             new == PagesDone(call)
             prog == call.prog
  <2>13. PagesLoaded(tables, s, prog, n, new) /\ BytesLoaded(tables, bytes, s, prog, n, {})
    BY <2>6 DEF Loaded
  <2>14. n \in 0 .. Len(prog) /\ prog \in Programs /\ 1 .. n \subseteq DOMAIN prog
    BY <2>1, DoneBound DEF MInv
  <2> HIDE DEF n, new, prog
  <2>15. PagesLoaded(tables', s, prog, n, new)
    BY <2>9, <2>12, <2>13 DEF PagesLoaded
  <2>16. BytesLoaded(tables', bytes, s, prog, n, {})
    <3> SUFFICES ASSUME NEW i \in 1 .. n, NEW c \in DOMAIN SegmentBytes(prog[i])
                 PROVE  ByteAt(tables', bytes, s, c) = SegmentBytes(prog[i])[c]
      BY DEF BytesLoaded
    <3>1. c \div PageSize \in UserPages
      BY <2>14, SegmentAddrs
    <3>2. ByteAt(tables', bytes, s, c) = ByteAt(tables, bytes, s, c)
      BY <2>9, <3>1 DEF ByteAt
    <3> QED BY <2>13, <3>2 DEF BytesLoaded
  <2>17. Loaded(tables', bytes, s, prog, n, new, {})
    BY <2>11, <2>15, <2>16 DEF Loaded
  <2>18. NewLoaded'
    BY <1>2, <2>1, <2>17 DEF NewLoaded, n, new, prog
  <2> QED BY <1>2, <2>5, <2>18 DEF LoadInv, WrittenKept
<1> QED BY <1>6, <1>7

\* Steps of task_create_user on its own tables leave the live processes alone.
LEMMA OthersLoaded ==
    ASSUME MInv, LoadInv, WrittenKept, call.pc \in Creating, UNCHANGED <<image, space>>,
           \A n \in Pages, i \in Entries : tables'[n][i] # tables[n][i] =>
               \/ ~InTree(tables, Roots, n)
               \/ \E a \in Dom(call.root), m \in 1 .. 4 : n = Walk(tables, call.root, a, m),
           \A t \in Live : SameBytes(tables, bytes, bytes', space[t], written'[t])
    PROVE  LiveLoaded'
<1>1. Live' = Live
  BY DEF Live
<1>2. call.root \in Roots /\ \A t \in Live : space[t] \in Procs /\ space[t] # call.root
  BY CallRoot DEF Procs, MInv, SpaceOK
<1>3. \A t \in Live : SameTree(tables, tables', space[t])
  BY <1>2, OtherTrees
<1> QED BY <1>1, <1>3, LiveKept DEF LoadInv

\* One more page of the segment, or of the stack, is done.
LEMMA MapDoneCall ==
    ASSUME MInv, MapDone, call.pc # "kmap"
    PROVE  /\ call'.pc \in Creating /\ call'.pc # "undo" /\ call'.root = call.root
           /\ call'.prog = call.prog
           /\ SegmentsDone(call') = SegmentsDone(call)
           /\ PagesDone(call') = PagesDone(call) \cup {call.v}
<1>1. call.pc \in {"map", "smap"} /\ call.pc \in Creating
  BY DEF MapDone, Mapping, Creating
<1>2. /\ call \in CreateCall /\ call.v \in Nat /\ call.prog \in Programs
  BY <1>1, CreatingCall DEF MInv
<1>3. CASE call.pc = "map"
  <2> DEFINE last == LastPage(call.prog[call.seg])
             first == FirstPage(call.prog[call.seg])
  <2>1. /\ call.seg \in DOMAIN call.prog /\ call.prog[call.seg].memsz # 0
        /\ call.v \in first .. last
    BY <1>3 DEF MInv, CallOK
  <2>2. first \in Nat /\ last \in Nat
    BY <1>2, <2>1, SegmentPages
  <2>3. call' = IF call.v < last THEN [call EXCEPT !.pc = "page", !.v = @ + 1]
                ELSE [call EXCEPT !.pc = "fill"]
    BY <1>3 DEF MapDone
  <2>4. PagesDone(call) = first .. call.v - 1 /\ SegmentsDone(call) = call.seg - 1
    BY <1>3 DEF PagesDone, SegmentsDone
  <2>5. CASE call.v < last
    <3>1. call' = [call EXCEPT !.pc = "page", !.v = call.v + 1]
      BY <2>3, <2>5
    <3>2. /\ call'.pc = "page" /\ call'.v = call.v + 1 /\ call'.root = call.root
          /\ call'.prog = call.prog /\ call'.seg = call.seg
      BY <1>2, <3>1 DEF CreateCall
    <3>3. PagesDone(call') = first .. call'.v - 1 /\ SegmentsDone(call') = call.seg - 1
      BY <3>2 DEF PagesDone, SegmentsDone
    <3> HIDE DEF first, last
    <3>4. first .. call'.v - 1 = (first .. call.v - 1) \cup {call.v}
      BY <1>2, <2>1, <2>2, <3>2
    <3> QED BY <2>4, <3>2, <3>3, <3>4 DEF Creating
  <2>6. CASE ~(call.v < last)
    <3>1. call' = [call EXCEPT !.pc = "fill"]
      BY <2>3, <2>6
    <3>2. /\ call'.pc = "fill" /\ call'.root = call.root
          /\ call'.prog = call.prog /\ call'.seg = call.seg
      BY <1>2, <3>1 DEF CreateCall
    <3>3. PagesDone(call') = first .. last /\ SegmentsDone(call') = call.seg - 1
      BY <3>2 DEF PagesDone, SegmentsDone
    <3> HIDE DEF first, last
    <3>4. first .. last = (first .. call.v - 1) \cup {call.v}
      BY <1>2, <2>1, <2>2, <2>6
    <3> QED BY <2>4, <3>2, <3>3, <3>4 DEF Creating
  <2> QED BY <2>5, <2>6
<1>4. CASE call.pc = "smap"
  <2>1. call.v \in UserStack
    BY <1>4 DEF MInv, CallOK
  <2>2. call' = IF call.v + 1 < StackTop THEN [call EXCEPT !.pc = "stack", !.v = @ + 1]
                ELSE [call EXCEPT !.pc = "args"]
    BY <1>4 DEF MapDone
  <2>3. PagesDone(call) = StackTop - StackPages .. call.v - 1 /\ SegmentsDone(call) = Len(call.prog)
    BY <1>4 DEF PagesDone, SegmentsDone
  <2>4. CASE call.v + 1 < StackTop
    <3>1. call' = [call EXCEPT !.pc = "stack", !.v = call.v + 1]
      BY <2>2, <2>4
    <3>2. call'.pc = "stack" /\ call'.v = call.v + 1 /\ call'.root = call.root /\ call'.prog = call.prog
      BY <1>2, <3>1 DEF CreateCall
    <3>3. PagesDone(call') = StackTop - StackPages .. call'.v - 1 /\ SegmentsDone(call') = Len(call.prog)
      BY <3>2 DEF PagesDone, SegmentsDone
    <3>4. StackTop - StackPages .. call'.v - 1 = (StackTop - StackPages .. call.v - 1) \cup {call.v}
      BY <1>2, <2>1, <3>2, LayoutFacts DEF UserStack
    <3> QED BY <2>3, <3>2, <3>3, <3>4 DEF Creating
  <2>5. CASE ~(call.v + 1 < StackTop)
    <3>1. call' = [call EXCEPT !.pc = "args"]
      BY <2>2, <2>5
    <3>2. call'.pc = "args" /\ call'.root = call.root /\ call'.prog = call.prog
      BY <1>2, <3>1 DEF CreateCall
    <3>3. PagesDone(call') = UserStack /\ SegmentsDone(call') = Len(call.prog)
      BY <3>2 DEF PagesDone, SegmentsDone
    <3>4. UserStack = (StackTop - StackPages .. call.v - 1) \cup {call.v}
      BY <1>2, <2>1, <2>5, LayoutFacts DEF UserStack
    <3> QED BY <2>3, <3>2, <3>3, <3>4 DEF Creating
  <2> QED BY <2>4, <2>5
<1> QED BY <1>1, <1>3, <1>4

\* What the entries of the new process allow after a page was mapped.
LEMMA MapDoneFlags ==
    ASSUME MInv, MapDone, call.pc # "kmap", NEW v \in UserPages, NEW l \in 1 .. 4,
           Walk(tables, call.root, v, l) # NoFrame,
           Walk(tables', call.root, v, l) = Walk(tables, call.root, v, l)
    PROVE  /\ l # 1 => Flags(tables, call.root, v, l) \subseteq Flags(tables', call.root, v, l)
           /\ l = 1 /\ v # call.v => Flags(tables', call.root, v, l) = Flags(tables, call.root, v, l)
           /\ l = 1 /\ v = call.v => Flags(tables', call.root, v, l) = {"present", "write", "user"}
<1> DEFINE s == call.root
           x == call.v
           w == Walk(tables, s, v, l)
           i == Index(v, l)
<1>1. /\ call.pc \in Creating /\ call.pc \in Mapping /\ MapRoot = s
      /\ MapFlags = {"present", "write", "user"}
  BY DEF MapDone, Mapping, Creating, MapRoot, MapFlags
<1>2. /\ s \in Roots /\ s \in Pages /\ Dom(s) = UserPages /\ x \in UserPages
      /\ TypedTables(tables) /\ Unique(tables, Roots)
  BY <1>1, CallRoot, MapTarget, RootsFacts DEF MInv, TablesOK, TreeOK
<1>3. l \in 0 .. 4 /\ v \in Nat /\ x \in Nat /\ i \in Entries /\ v \in AllPages
  BY <1>2, DomFacts
<1>4. w \in Pages
  BY <1>2, <1>3, WalkTyped
<1>5. /\ tables'[Walk(tables, s, x, 1)][Index(x, 1)] = [phys |-> call.frame, flags |-> MapFlags]
      /\ \A m \in 2 .. 4 : tables'[Walk(tables, s, x, m)][Index(x, m)] =
            Flagged(tables[Walk(tables, s, x, m)][Index(x, m)])
      /\ \A n \in Pages, j \in Entries :
            (\A m \in 1 .. 4 : ~(n = Walk(tables, s, x, m) /\ j = Index(x, m)))
                        => tables'[n][j] = tables[n][j]
  BY <1>1, MapDoneEntries
<1>6. Flags(tables', s, v, l) = tables'[w][i].flags /\ Flags(tables, s, v, l) = tables[w][i].flags
  BY DEF Flags
<1> HIDE DEF i, w, s, x
<1>7. CASE \E m \in 1 .. 4 : w = Walk(tables, s, x, m) /\ i = Index(x, m)
  <2>1. PICK m \in 1 .. 4 : w = Walk(tables, s, x, m) /\ i = Index(x, m)
    BY <1>7
  <2>2. m \in 0 .. 4
    OBVIOUS
  <2>3. m = l /\ Area(v, l) = Area(x, l)
    BY <1>2, <1>3, <2>1, <2>2, UniqueUse DEF w, s
  <2>4. CASE l = 1
    <3>1. 0 \in 0 .. 3 /\ 0 + 1 = 1
      OBVIOUS
    <3>2. Area(v, 0) = Area(x, 0)
      BY <1>3, <2>1, <2>3, <2>4, <3>1, AreaStep DEF i
    <3>3. v = x
      BY <1>3, <3>2, AreaZero
    <3>4. tables'[w][i].flags = MapFlags
      BY <1>5, <2>1, <2>3, <2>4
    <3> QED BY <1>1, <1>6, <2>4, <3>3, <3>4 DEF s, x
  <2>5. CASE l # 1
    <3>1. l \in 2 .. 4
      BY <2>5
    <3>2. tables'[w][i] = Flagged(tables[w][i])
      BY <1>5, <2>1, <2>3, <3>1
    <3>3. tables[w][i] \in Entry
      BY <1>2, <1>3, <1>4 DEF TypedTables
    <3>4. tables'[w][i].flags = tables[w][i].flags \cup MapFlags
      BY <3>2, <3>3 DEF Flagged, Entry
    <3> QED BY <1>6, <2>5, <3>4 DEF s
  <2> QED BY <2>4, <2>5
<1>8. CASE ~\E m \in 1 .. 4 : w = Walk(tables, s, x, m) /\ i = Index(x, m)
  <2>1. tables'[w][i] = tables[w][i]
    BY <1>3, <1>4, <1>5, <1>8
  <2>2. ~(l = 1 /\ v = x)
    BY <1>8 DEF w, i
  <2> QED BY <1>6, <2>1, <2>2 DEF s, x
<1> QED BY <1>7, <1>8

\* A page is mapped.
LEMMA MapDoneKeepsLoad ==
    ASSUME MInv, LoadInv, WrittenKept, MapDone
    PROVE  LoadInv'
<1>1. UNCHANGED <<bytes, image, space>> /\ call.pc \in Mapping
  BY DEF MapDone
<1>2. MapRoot \in Roots /\ call.v \in Dom(MapRoot)
  BY <1>1, MapTarget
<1>3. \A n \in Pages, i \in Entries : tables'[n][i] # tables[n][i] =>
         \E a \in Dom(MapRoot), m \in 1 .. 4 : n = Walk(tables, MapRoot, a, m)
  BY <1>2, MapDoneEntries
<1>4. CASE call.pc = "kmap"
  <2>1. MapRoot = KernelPml4
    BY <1>4 DEF MapRoot
  <2>2. call \in CreateCall
    BY <1>4, CallShape DEF MInv
  <2>3. call'.pc \notin Creating
    BY <1>4, <2>2 DEF MapDone, Creating, CreateCall
  <2> QED BY <1>1, <1>3, <2>1, <2>3, KernelTablesKeepLoad
<1>5. CASE call.pc # "kmap"
  <2> DEFINE s == call.root
             n == SegmentsDone(call)
             new == PagesDone(call)
             prog == call.prog
             x == call.v
  <2>1. call.pc \in Creating \ {"undo"} /\ MapRoot = s
    BY <1>1, <1>5 DEF Mapping, Creating, MapRoot
  <2>2. s \in Roots /\ s \in Procs /\ Dom(s) = UserPages /\ x \in UserPages
    BY <1>2, <2>1, CallRoot
  <2>3. LiveLoaded'
    BY <1>1, <1>3, <2>1, Unchanged, OthersLoaded
  <2>4. /\ call'.pc \in Creating /\ call'.pc # "undo" /\ call'.root = s /\ call'.prog = prog
        /\ SegmentsDone(call') = n /\ PagesDone(call') = new \cup {x}
    BY <1>5, MapDoneCall
  <2>5. Roots' = Roots /\ Procs' = Procs
    BY <1>1, <2>1, <2>4 DEF Roots, Procs, Live
  <2>6. \A v \in UserPages, l \in 0 .. 4 : Walk(tables', s, v, l) =
           IF v = x /\ l = 0 THEN call.frame ELSE Walk(tables, s, v, l)
    BY <2>1, <2>2, <2>5, MapDoneForest
  <2>7. TablesOpen(tables, s) /\ PagesLoaded(tables, s, prog, n, new) /\ BytesLoaded(tables, bytes, s, prog, n, {})
    BY <2>1 DEF LoadInv, NewLoaded, Loaded
  <2>8. n \in 0 .. Len(prog) /\ prog \in Programs /\ 1 .. n \subseteq DOMAIN prog
    BY <2>1, DoneBound DEF MInv
  <2>9. call.frame # NoFrame /\ Walk(tables, s, x, 0) \in {NoFrame, call.frame}
    BY <1>1, <2>1, MapFrame
  <2>10. ASSUME NEW v \in UserPages, NEW l \in 1 .. 4, Walk(tables, s, v, l) # NoFrame
         PROVE  /\ l # 1 => Flags(tables, s, v, l) \subseteq Flags(tables', s, v, l)
                /\ l = 1 /\ v # x => Flags(tables', s, v, l) = Flags(tables, s, v, l)
                /\ l = 1 /\ v = x => Flags(tables', s, v, l) = {"present", "write", "user"}
    <3>1. l \in 0 .. 4 /\ l # 0
      OBVIOUS
    <3>2. Walk(tables', s, v, l) = Walk(tables, s, v, l)
      BY <2>6, <3>1
    <3> QED BY <1>5, <2>10, <3>2, MapDoneFlags
  <2>11. Walk(tables, s, x, 1) # NoFrame
    <3>1. 1 \in 1 .. 4
      OBVIOUS
    <3> QED BY <2>1, <3>1, MapDoneEntries
  <2> HIDE DEF s, n, new, prog, x
  <2>12. TablesOpen(tables', s)
    <3> SUFFICES ASSUME NEW v \in UserPages, NEW l \in 2 .. 4, Walk(tables', s, v, l - 1) # NoFrame
                 PROVE  {"user", "write"} \subseteq Flags(tables', s, v, l)
      BY DEF TablesOpen
    <3>1. l \in 1 .. 4 /\ l \in 0 .. 4 /\ l - 1 \in 0 .. 4 /\ l - 1 \in 0 .. l /\ l - 1 # 0 /\ l # 1
      OBVIOUS
    <3>2. Walk(tables, s, v, l - 1) # NoFrame
      BY <2>6, <3>1
    <3>3. Walk(tables, s, v, l) # NoFrame
      BY <3>1, <3>2, WalkZero
    <3>4. {"user", "write"} \subseteq Flags(tables, s, v, l)
      BY <2>7, <3>2 DEF TablesOpen
    <3> QED BY <2>10, <3>1, <3>3, <3>4
  <2>13. ASSUME NEW v \in UserPages, v # x
         PROVE  /\ Walk(tables', s, v, 0) = Walk(tables, s, v, 0)
                /\ Walk(tables, s, v, 0) # NoFrame => Flags(tables', s, v, 1) = Flags(tables, s, v, 1)
    <3>1. 0 \in 0 .. 1 /\ 1 \in 0 .. 4 /\ 1 \in 1 .. 4 /\ 0 \in 0 .. 4
      OBVIOUS
    <3>2. Walk(tables, s, v, 0) # NoFrame => Walk(tables, s, v, 1) # NoFrame
      BY <3>1, WalkZero
    <3> QED BY <2>6, <2>10, <2>13, <3>1, <3>2
  <2>14. Walk(tables', s, x, 0) = call.frame /\ Flags(tables', s, x, 1) = {"present", "write", "user"}
    <3>1. 1 \in 1 .. 4 /\ 0 \in 0 .. 4
      OBVIOUS
    <3> QED BY <2>2, <2>6, <2>10, <2>11, <3>1
  <2>15. PagesLoaded(tables', s, prog, n, new \cup {x})
    <3> SUFFICES ASSUME NEW v \in UserPages
                 PROVE  /\ v \in new \cup {x} => Walk(tables', s, v, 0) # NoFrame /\ {"user", "write"} \subseteq Flags(tables', s, v, 1)
                        /\ v \notin new \cup {x} =>
                              /\ Walk(tables', s, v, 0) # NoFrame <=> Cover(prog, n, v) # {}
                              /\ Walk(tables', s, v, 0) # NoFrame =>
                                    /\ "user" \in Flags(tables', s, v, 1)
                                    /\ "write" \in Flags(tables', s, v, 1) <=> \E i \in Cover(prog, n, v) : prog[i].writable
      BY DEF PagesLoaded
    <3>1. CASE v = x
      BY <2>9, <2>14, <3>1
    <3>2. CASE v # x
      BY <2>7, <2>13, <3>2 DEF PagesLoaded
    <3> QED BY <3>1, <3>2
  <2>16. BytesLoaded(tables', bytes, s, prog, n, {})
    <3> SUFFICES ASSUME NEW i \in 1 .. n, NEW c \in DOMAIN SegmentBytes(prog[i])
                 PROVE  ByteAt(tables', bytes, s, c) = SegmentBytes(prog[i])[c]
      BY DEF BytesLoaded
    <3> DEFINE v == c \div PageSize
    <3>1. v \in UserPages /\ prog[i].memsz # 0 /\ v \in FirstPage(prog[i]) .. LastPage(prog[i])
      BY <2>8, SegmentAddrs
    <3>2. Walk(tables, s, v, 0) # NoFrame
      <4>1. i \in Cover(prog, n, v)
        BY <3>1 DEF Cover
      <4> HIDE DEF v
      <4> QED BY <2>7, <3>1, <4>1 DEF PagesLoaded
    <3>3. Walk(tables', s, v, 0) = Walk(tables, s, v, 0)
      <4> HIDE DEF v
      <4> QED BY <2>9, <2>13, <2>14, <3>1, <3>2
    <3>4. ByteAt(tables', bytes, s, c) = ByteAt(tables, bytes, s, c)
      BY <3>3 DEF ByteAt
    <3> QED BY <2>7, <3>4 DEF BytesLoaded
  <2>17. Loaded(tables', bytes, s, prog, n, new \cup {x}, {})
    BY <2>12, <2>15, <2>16 DEF Loaded
  <2>18. NewLoaded'
    BY <1>1, <2>4, <2>17 DEF NewLoaded
  <2> QED BY <1>1, <2>3, <2>18 DEF LoadInv, WrittenKept
<1> QED BY <1>4, <1>5

\* The frame that pmm_alloc_page hands out is in no tree.
LEMMA FreshFrame ==
    ASSUME MInv, pmm_alloc_pages(1)
    PROVE  Got \in Pages \ {NoFrame} /\ ~InTree(tables, Roots, Got) /\ Got # KernelPml4
<1> USE LayoutFacts
<1>1. Got \in Pages
  BY AllocGives DEF MInv
<1>2. Run(Got, 1) = {Got}
  BY <1>1, RunOne, TotalPagesPositive DEF Pages
<1>3. {Got} \cap HeldPages = {} /\ {Got} \cap ReservedPages = {} /\ {Got} \subseteq Pages
  BY <1>1, <1>2, AllocGives DEF MInv
<1> QED BY <1>1, <1>3, FreshFacts

\* A new PML4 has no pages.
LEMMA CreateSpaceKeepsLoad ==
    ASSUME MInv, LoadInv, WrittenKept, vmm_create_address_space
    PROVE  LoadInv'
<1>1. PICK g : g = Got
  OBVIOUS
<1>2. /\ call.pc = "dir" /\ pmm_alloc_pages(1)
      /\ tables' = [tables EXCEPT ![g] =
            [i \in DOMAIN Cleared |->
                IF i = 0 \/ i >= KernelHalf THEN tables[KernelPml4][i] ELSE NoEntry]]
      /\ call' = [Continue(AfterSegments(0)) EXCEPT !.root = g]
      /\ UNCHANGED <<space, bytes, image>>
  BY <1>1 DEF vmm_create_address_space
<1>3. g \in Pages \ {NoFrame} /\ ~InTree(tables, Roots, g) /\ g # KernelPml4
  BY <1>1, <1>2, FreshFrame
<1>4. /\ \A n \in Pages \ {g}, i \in Entries : tables'[n][i] = tables[n][i]
      /\ \A i \in Entries : tables'[g][i] =
             IF i = 0 \/ i >= KernelHalf THEN tables[KernelPml4][i] ELSE NoEntry
  <2>1. tables \in [Pages -> [Entries -> Entry]]
    BY DEF MInv, TablesOK, TypedTables
  <2>2. DOMAIN Cleared = Entries
    BY DEF Cleared
  <2> QED BY <1>2, <1>3, <2>1, <2>2
<1>5. \A v \in UserPages, l \in 0 .. 3 : Walk(tables', g, v, l) = NoFrame
  <2>1. \A i \in Entries : i \in 1 .. KernelHalf - 1 => tables'[g][i] = NoEntry
    BY <1>4, KernelHalfFacts
  <2> QED BY <1>3, <1>4, <2>1, RootsFacts, RootAdded DEF MInv, TablesOK
<1>6. Live' = Live /\ KernelPml4 \in Roots /\ \A t \in Live : space[t] \in Procs /\ space[t] # KernelPml4
  BY <1>2, RootsFacts DEF Live, Procs
<1>7. \A t \in Live : SameTree(tables, tables', space[t])
  <2>1. \A n \in Pages, i \in Entries : tables'[n][i] # tables[n][i] => ~InTree(tables, Roots, n)
    BY <1>3, <1>4
  <2> QED BY <1>6, <2>1, OtherTrees
<1>8. LiveLoaded'
  BY <1>2, <1>6, <1>7, Unchanged, LiveKept DEF LoadInv
<1>9. call \in CreateCall /\ call.prog \in Programs
  BY <1>2, CreatingCall DEF MInv
<1>10. Loaded(tables', bytes', g, call.prog, 0, {}, {})
  <2>1. TablesOpen(tables', g)
    <3>1. \A l \in 2 .. 4 : l - 1 \in 0 .. 3
      OBVIOUS
    <3> QED BY <1>5, <3>1 DEF TablesOpen
  <2>2. PagesLoaded(tables', g, call.prog, 0, {})
    <3>1. \A v : Cover(call.prog, 0, v) = {}
      BY DEF Cover
    <3>2. 0 \in 0 .. 3
      OBVIOUS
    <3> QED BY <1>5, <3>1, <3>2 DEF PagesLoaded
  <2>3. BytesLoaded(tables', bytes', g, call.prog, 0, {})
    BY DEF BytesLoaded
  <2> QED BY <2>1, <2>2, <2>3 DEF Loaded
<1>11. NewLoaded'
  <2>1. call.prog \in Seq(Segment)
    BY <1>9, AddressSpaceAssumption
  <2>2. 0 \in Nat /\ 0 <= Len(call.prog)
    BY <2>1
  <2> QED BY <1>2, <1>3, <1>9, <1>10, <2>2, NextLoaded DEF MInv
<1> QED BY <1>2, <1>8, <1>11 DEF LoadInv, WrittenKept

\* A page is taken and zeroed, or taken as it is.
LEMMA TakePageKeepsLoad ==
    ASSUME MInv, LoadInv, WrittenKept, TakePage
    PROVE  LoadInv'
<1>1. PICK g : g = Got
  OBVIOUS
<1>2. /\ call.pc \in {"page", "stack"} /\ pmm_alloc_pages(1)
      /\ bytes' = IF call.pc = "page" THEN [bytes EXCEPT ![g] = [o \in DOMAIN @ |-> 0]] ELSE bytes
      /\ call' = [call EXCEPT !.pc = IF call.pc = "page" THEN "map" ELSE "smap", !.frame = g]
      /\ UNCHANGED <<tables, space, image>>
  BY <1>1 DEF TakePage
<1>3. g \in Pages \ {NoFrame} /\ ~InTree(tables, Roots, g)
  BY <1>1, <1>2, FreshFrame
<1>4. /\ call \in CreateCall /\ call.pc \in Creating /\ call.pc \in Creating \ {"undo"}
  BY <1>2, CreatingCall DEF MInv, Creating
<1>5. /\ call'.pc = IF call.pc = "page" THEN "map" ELSE "smap"
      /\ call'.root = call.root /\ call'.prog = call.prog /\ call'.v = call.v /\ call'.seg = call.seg
  BY <1>2, <1>4 DEF CreateCall
<1>6. DOMAIN bytes = Pages /\ DOMAIN bytes' = Pages /\ \A f \in Pages : f # g => bytes'[f] = bytes[f]
  BY <1>2, <1>3 DEF LoadInv
<1>7. ASSUME NEW r \in Procs, NEW wr PROVE SameBytes(tables, bytes, bytes', r, wr)
  <2> SUFFICES ASSUME NEW a \in Nat, a \div PageSize \in UserPages, Walk(tables, r, a \div PageSize, 0) # NoFrame
               PROVE  ByteAt(tables, bytes', r, a) = ByteAt(tables, bytes, r, a)
    BY DEF SameBytes
  <2> DEFINE v == a \div PageSize
  <2>1. v \in Dom(r) /\ r \in Roots /\ r \in Pages /\ TypedTables(tables) /\ 0 \in 0 .. 4
    BY RootsFacts DEF MInv, TablesOK
  <2> HIDE DEF v
  <2>2. Walk(tables, r, v, 0) \in Pages
    BY <2>1, DomFacts, WalkTyped
  <2>3. Walk(tables, r, v, 0) # g
    BY <1>3, <2>1 DEF InTree
  <2> QED BY <1>6, <2>2, <2>3 DEF ByteAt, v
<1>8. \A t \in Live : SameBytes(tables, bytes, bytes', space[t], written'[t])
  BY <1>7 DEF Procs
<1>9. LiveLoaded'
  BY <1>2, <1>4, <1>8, OthersLoaded
<1>10. NewLoaded'
  <2>1. SegmentsDone(call') = SegmentsDone(call) /\ PagesDone(call') = PagesDone(call)
    BY <1>2, <1>5 DEF SegmentsDone, PagesDone
  <2>2. Loaded(tables, bytes, call.root, call.prog, SegmentsDone(call), PagesDone(call), {})
    BY <1>4 DEF LoadInv, NewLoaded
  <2>3. SameTree(tables, tables', call.root) /\ SameBytes(tables, bytes, bytes', call.root, {})
    BY <1>2, <1>4, <1>7, Unchanged, CallRoot
  <2>4. call.prog \in Programs /\ SegmentsDone(call) \in 0 .. Len(call.prog)
    BY <1>4, DoneBound DEF MInv
  <2>5. Loaded(tables', bytes', call.root, call.prog, SegmentsDone(call), PagesDone(call), {})
    BY <2>2, <2>3, <2>4, KeptLoaded
  <2> QED BY <1>5, <2>1, <2>5 DEF NewLoaded
<1> QED BY <1>2, <1>6, <1>9, <1>10 DEF LoadInv, WrittenKept

\* A store into one process is seen by no other.
LEMMA StoredElsewhere ==
    ASSUME MInv, NEW s \in Procs, NEW new, DOMAIN new \subseteq Nat,
           \A c \in DOMAIN new : c \div PageSize \in UserPages,
           NEW r \in Procs, r # s, NEW wr
    PROVE  SameBytes(tables, bytes, Stored(s, new), r, wr)
BY StoredByte DEF SameBytes

\* Segments lie in the order of the program header, apart from each other.
LEMMA SegmentOrder ==
    ASSUME NEW prog \in Programs, NEW i \in DOMAIN prog, NEW j \in DOMAIN prog, i < j,
           prog[i].memsz # 0, prog[j].memsz # 0
    PROVE  /\ DOMAIN SegmentBytes(prog[i]) \cap DOMAIN SegmentBytes(prog[j]) = {}
           /\ \A v : /\ v \in FirstPage(prog[i]) .. LastPage(prog[i])
                     /\ v \in FirstPage(prog[j]) .. LastPage(prog[j])
                     => (prog[i].writable => prog[j].writable)
<1>1. /\ prog[i].vaddr + prog[i].memsz <= prog[j].vaddr
      /\ LastPage(prog[i]) < FirstPage(prog[j]) \/ (prog[i].writable => prog[j].writable)
  BY AddressSpaceAssumption DEF LayoutAssumption
<1>2. ASSUME NEW a \in DOMAIN SegmentBytes(prog[i]), a \in DOMAIN SegmentBytes(prog[j]) PROVE FALSE
  <2>1. /\ a \in Nat /\ prog[i].vaddr \in Nat /\ prog[i].memsz \in Nat /\ prog[j].vaddr \in Nat
        /\ a < prog[i].vaddr + prog[i].memsz /\ a >= prog[j].vaddr
    BY <1>2, SegmentAddrs
  <2> QED BY <1>1, <2>1
<1>3. /\ FirstPage(prog[i]) \in Nat /\ LastPage(prog[i]) \in Nat
      /\ FirstPage(prog[j]) \in Nat /\ LastPage(prog[j]) \in Nat
  BY SegmentPages
<1>4. ASSUME NEW v, v \in FirstPage(prog[i]) .. LastPage(prog[i]), v \in FirstPage(prog[j]) .. LastPage(prog[j])
      PROVE  ~(LastPage(prog[i]) < FirstPage(prog[j]))
  BY <1>3, <1>4
<1> QED BY <1>1, <1>2, <1>4

\* What the entries of the new process allow once a segment is filled.
LEMMA FillFlags ==
    ASSUME MInv, FillSegment, NEW v \in UserPages, NEW l \in 1 .. 4,
           Walk(tables, call.root, v, l) # NoFrame,
           Walk(tables', call.root, v, l) = Walk(tables, call.root, v, l)
    PROVE  LET seg == call.prog[call.seg]
               U == FirstPage(seg) .. LastPage(seg)
           IN  /\ l # 1 \/ v \notin U \/ seg.writable =>
                     Flags(tables', call.root, v, l) = Flags(tables, call.root, v, l)
               /\ l = 1 /\ v \in U /\ ~seg.writable /\ Walk(tables, call.root, v, 0) # NoFrame =>
                     Flags(tables', call.root, v, l) = {"present", "user"}
<1> DEFINE seg == call.prog[call.seg]
           s == call.root
           U == FirstPage(seg) .. LastPage(seg)
           w == Walk(tables, s, v, l)
           i == Index(v, l)
           Hit == \E u \in U : Walk(tables, s, u, 1) = w /\ Index(u, 1) = i /\ w # NoFrame /\ Present(tables[w][i])
<1>1. call.pc = "fill" /\ call.pc \in Creating
  BY DEF FillSegment, Creating
<1>2. call.prog \in Programs /\ call.seg \in DOMAIN call.prog /\ seg.memsz # 0
  BY <1>1, CreatingCall DEF MInv, CallOK
<1>3. U \subseteq UserPages
  BY <1>2, SegmentPages
<1>4. /\ s \in Roots /\ s \in Pages /\ Dom(s) = UserPages
      /\ TypedTables(tables) /\ Unique(tables, Roots)
  BY <1>1, CallRoot, RootsFacts DEF MInv, TablesOK, TreeOK
<1>5. l \in 0 .. 4 /\ v \in Nat /\ i \in Entries /\ v \in AllPages
  BY <1>4, DomFacts
<1>6. w \in Pages
  BY <1>4, <1>5, WalkTyped
<1>7. Flags(tables', s, v, l) = tables'[w][i].flags /\ Flags(tables, s, v, l) = tables[w][i].flags
  BY DEF Flags
<1>8. DOMAIN tables[w] = Entries /\ tables[w][i] \in Entry
  BY <1>4, <1>5, <1>6 DEF TypedTables
<1>9. tables'[w][i] = IF seg.writable \/ ~Hit THEN tables[w][i]
                      ELSE [tables[w][i] EXCEPT !.flags = {"present", "user"}]
  <2>1. \A u : Path(s, u)[1] = Walk(tables, s, u, 1)
    <3>1. 1 \in 1 .. 4
      OBVIOUS
    <3> QED BY <3>1, PathIsWalk
  <2>2. tables' = IF seg.writable THEN tables
                  ELSE [n \in Pages |-> [j \in DOMAIN tables[n] |->
                        IF \E u \in U : Walk(tables, s, u, 1) = n /\ Index(u, 1) = j /\ n # NoFrame /\ Present(tables[n][j])
                        THEN [tables[n][j] EXCEPT !.flags = {"present", "user"}]
                        ELSE tables[n][j]]]
    BY <2>1 DEF FillSegment
  <2> HIDE DEF seg, s, U, w, i
  <2> QED BY <1>5, <1>6, <1>8, <2>2
<1>10. Hit => l = 1 /\ v \in U
  <2> SUFFICES ASSUME Hit PROVE l = 1 /\ v \in U
    OBVIOUS
  <2>1. PICK u \in U : Walk(tables, s, u, 1) = w /\ Index(u, 1) = i
    OBVIOUS
  <2>2. 1 \in 0 .. 4 /\ 0 \in 0 .. 3 /\ 0 + 1 = 1 /\ u \in UserPages
    BY <1>3
  <2>3. l = 1 /\ Area(v, 1) = Area(u, 1)
    BY <1>4, <1>5, <2>1, <2>2, UniqueUse
  <2>4. u \in Nat
    BY <1>4, <2>2, DomFacts
  <2>5. Index(u, 1) = Index(v, 1)
    BY <2>1, <2>3
  <2>6. Area(v, 0) = Area(u, 0)
    BY <1>5, <2>2, <2>3, <2>4, <2>5, AreaStep
  <2> QED BY <1>5, <2>3, <2>4, <2>6, AreaZero
<1>11. l = 1 /\ v \in U /\ Walk(tables, s, v, 0) # NoFrame => Hit
  <2> SUFFICES ASSUME l = 1, v \in U, Walk(tables, s, v, 0) # NoFrame PROVE Hit
    OBVIOUS
  <2>1. Walk(tables, s, v, 1) = w /\ Index(v, 1) = i /\ w # NoFrame
    OBVIOUS
  <2>2. Present(tables[w][i])
    BY <2>1 DEF Walk, Leaf
  <2> QED BY <2>1, <2>2
<1>12. [tables[w][i] EXCEPT !.flags = {"present", "user"}].flags = {"present", "user"}
  BY <1>8 DEF Entry
<1> HIDE DEF Hit, w, i, s, U, seg
<1>13. /\ l # 1 \/ v \notin U \/ seg.writable => Flags(tables', s, v, l) = Flags(tables, s, v, l)
       /\ l = 1 /\ v \in U /\ ~seg.writable /\ Walk(tables, s, v, 0) # NoFrame =>
             Flags(tables', s, v, l) = {"present", "user"}
  BY <1>7, <1>9, <1>10, <1>11, <1>12
<1> QED BY <1>13 DEF s, U, seg

\* A segment is filled: it is in memory, on pages that allow what it needs,
\* and the segments before it are as they were.
LEMMA SegmentFilled ==
    ASSUME MInv, LoadInv, FillSegment,
           \A v \in UserPages, l \in 0 .. 4 : Walk(tables', call.root, v, l) = Walk(tables, call.root, v, l)
    PROVE  Loaded(tables', bytes', call.root, call.prog, call.seg, {}, {})
<1> DEFINE prog == call.prog
           k == call.seg
           s == call.root
           U == FirstPage(prog[k]) .. LastPage(prog[k])
<1>1. call.pc = "fill" /\ call.pc \in Creating /\ call.pc \in Creating \ {"undo"}
  BY DEF FillSegment, Creating
<1>2. prog \in Programs /\ k \in DOMAIN prog /\ prog[k].memsz # 0 /\ k \in Nat
  BY <1>1, CreatingCall DEF MInv, CallOK
<1>3. U \subseteq UserPages /\ DOMAIN prog = 1 .. Len(prog) /\ Len(prog) \in Nat
  <2>1. prog \in Seq(Segment)
    BY <1>2, AddressSpaceAssumption
  <2> QED BY <1>2, <2>1, SegmentPages
<1>4. s \in Procs
  BY <1>1, CallRoot
<1>5. SegmentsDone(call) = k - 1 /\ PagesDone(call) = U
  BY <1>1 DEF SegmentsDone, PagesDone
<1>6. /\ TablesOpen(tables, s) /\ PagesLoaded(tables, s, prog, k - 1, U)
      /\ BytesLoaded(tables, bytes, s, prog, k - 1, {})
  BY <1>1, <1>5 DEF LoadInv, NewLoaded, Loaded
<1>7. \A v \in UserPages, l \in 0 .. 4 : Walk(tables', s, v, l) = Walk(tables, s, v, l)
  OBVIOUS
<1>8. ASSUME NEW v \in UserPages, NEW l \in 1 .. 4, Walk(tables, s, v, l) # NoFrame
      PROVE  /\ l # 1 \/ v \notin U \/ prog[k].writable => Flags(tables', s, v, l) = Flags(tables, s, v, l)
             /\ l = 1 /\ v \in U /\ ~prog[k].writable /\ Walk(tables, s, v, 0) # NoFrame =>
                   Flags(tables', s, v, l) = {"present", "user"}
  <2>1. l \in 0 .. 4
    OBVIOUS
  <2> QED BY <1>7, <1>8, <2>1, FillFlags
<1>9. bytes' = Stored(s, SegmentBytes(prog[k]))
  BY DEF FillSegment
<1> HIDE DEF prog, k, s
<1>10. TablesOpen(tables', s)
  <2> SUFFICES ASSUME NEW v \in UserPages, NEW l \in 2 .. 4, Walk(tables', s, v, l - 1) # NoFrame
               PROVE  {"user", "write"} \subseteq Flags(tables', s, v, l)
    BY DEF TablesOpen
  <2>1. l \in 1 .. 4 /\ l \in 0 .. 4 /\ l - 1 \in 0 .. 4 /\ l - 1 \in 0 .. l /\ l # 1
    OBVIOUS
  <2>2. Walk(tables, s, v, l - 1) # NoFrame
    BY <1>7, <2>1
  <2>3. Walk(tables, s, v, l) # NoFrame
    BY <2>1, <2>2, WalkZero
  <2>4. {"user", "write"} \subseteq Flags(tables, s, v, l)
    BY <1>6, <2>2 DEF TablesOpen
  <2> QED BY <1>8, <2>1, <2>3, <2>4
<1>11. \A i \in 1 .. k - 1 : i \in DOMAIN prog /\ i < k
  BY <1>2, <1>3
<1>12. \A i \in 1 .. k : i = k \/ i \in 1 .. k - 1
  BY <1>2
<1>13. \A i \in 1 .. k - 1 : i \in 1 .. k
  BY <1>2
<1>14. k \in 1 .. k
  BY <1>2, <1>3
<1>15. \A v : v \notin U => Cover(prog, k, v) = Cover(prog, k - 1, v)
  BY <1>12, <1>13 DEF Cover
<1>16. \A v \in U : k \in Cover(prog, k, v)
  BY <1>2, <1>14 DEF Cover
<1>17. ASSUME NEW v \in U, NEW i \in Cover(prog, k, v), prog[i].writable PROVE prog[k].writable
  <2>1. i \in 1 .. k /\ prog[i].memsz # 0 /\ v \in FirstPage(prog[i]) .. LastPage(prog[i])
    BY DEF Cover
  <2>2. CASE i = k
    BY <1>17, <2>2
  <2>3. CASE i # k
    <3>1. i \in DOMAIN prog /\ i < k
      BY <1>11, <1>12, <2>1, <2>3
    <3> QED BY <1>2, <1>17, <2>1, <3>1, SegmentOrder
  <2> QED BY <2>2, <2>3
<1> HIDE DEF U
<1>18. ASSUME NEW v \in UserPages
       PROVE  /\ Walk(tables', s, v, 0) # NoFrame <=> Cover(prog, k, v) # {}
              /\ Walk(tables', s, v, 0) # NoFrame =>
                    /\ "user" \in Flags(tables', s, v, 1)
                    /\ "write" \in Flags(tables', s, v, 1) <=> \E i \in Cover(prog, k, v) : prog[i].writable
  <2>1. 0 \in 0 .. 4 /\ 1 \in 1 .. 4 /\ 1 \in 0 .. 4 /\ 0 \in 0 .. 1
    OBVIOUS
  <2>2. Walk(tables', s, v, 0) = Walk(tables, s, v, 0)
    BY <1>7, <2>1
  <2>3. Walk(tables, s, v, 0) # NoFrame => Walk(tables, s, v, 1) # NoFrame
    BY <2>1, WalkZero
  <2>4. CASE v \notin U
    <3>1. Walk(tables, s, v, 0) # NoFrame => Flags(tables', s, v, 1) = Flags(tables, s, v, 1)
      BY <1>8, <2>1, <2>3, <2>4
    <3> QED BY <1>6, <1>15, <2>2, <2>4, <3>1 DEF PagesLoaded
  <2>5. CASE v \in U
    <3>1. Walk(tables, s, v, 0) # NoFrame /\ {"user", "write"} \subseteq Flags(tables, s, v, 1)
      BY <1>6, <2>5 DEF PagesLoaded
    <3>2. k \in Cover(prog, k, v)
      BY <1>16, <2>5
    <3>3. CASE prog[k].writable
      <4>1. Flags(tables', s, v, 1) = Flags(tables, s, v, 1)
        BY <1>8, <2>1, <2>3, <3>1, <3>3
      <4> QED BY <2>2, <3>1, <3>2, <3>3, <4>1
    <3>4. CASE ~prog[k].writable
      <4>1. Flags(tables', s, v, 1) = {"present", "user"}
        BY <1>8, <2>1, <2>3, <2>5, <3>1, <3>4
      <4>2. ~\E i \in Cover(prog, k, v) : prog[i].writable
        BY <1>17, <2>5, <3>4
      <4> QED BY <2>2, <3>1, <3>2, <4>1, <4>2
    <3> QED BY <3>3, <3>4
  <2> QED BY <2>4, <2>5
<1>19. PagesLoaded(tables', s, prog, k, {})
  BY <1>18 DEF PagesLoaded
<1>20. BytesLoaded(tables', bytes', s, prog, k, {})
  <2> SUFFICES ASSUME NEW i \in 1 .. k, NEW a \in DOMAIN SegmentBytes(prog[i])
               PROVE  ByteAt(tables', bytes', s, a) = SegmentBytes(prog[i])[a]
    BY DEF BytesLoaded
  <2> DEFINE v == a \div PageSize
  <2>1. i \in DOMAIN prog
    BY <1>2, <1>11, <1>12
  <2>2. /\ a \in Nat /\ v \in UserPages /\ prog[i].memsz # 0
        /\ v \in FirstPage(prog[i]) .. LastPage(prog[i])
    BY <1>2, <2>1, SegmentAddrs
  <2>3. i \in Cover(prog, k, v)
    BY <2>2 DEF Cover
  <2>4. Walk(tables', s, v, 0) = Walk(tables, s, v, 0)
    <3>1. 0 \in 0 .. 4
      OBVIOUS
    <3> QED BY <1>7, <2>2, <3>1
  <2>5. Walk(tables, s, v, 0) # NoFrame
    <3> HIDE DEF v
    <3> QED BY <1>18, <2>2, <2>3, <2>4
  <2>6. ByteAt(tables', bytes', s, a) = ByteAt(tables, bytes', s, a)
    BY <2>4 DEF ByteAt
  <2>7. /\ DOMAIN SegmentBytes(prog[k]) \subseteq Nat
        /\ \A c \in DOMAIN SegmentBytes(prog[k]) : c \div PageSize \in UserPages
    BY <1>2, SegmentAddrs
  <2>8. ByteAt(tables, bytes', s, a) =
           IF a \in DOMAIN SegmentBytes(prog[k]) THEN SegmentBytes(prog[k])[a] ELSE ByteAt(tables, bytes, s, a)
    BY <1>4, <1>9, <2>2, <2>5, <2>7, StoredByte
  <2>9. CASE i = k
    BY <2>6, <2>8, <2>9
  <2>10. CASE i # k
    <3>1. i \in 1 .. k - 1 /\ i < k
      BY <1>11, <1>12, <2>10
    <3>2. a \notin DOMAIN SegmentBytes(prog[k])
      BY <1>2, <2>1, <2>2, <3>1, SegmentOrder
    <3>3. ByteAt(tables, bytes, s, a) = SegmentBytes(prog[i])[a]
      BY <1>6, <3>1 DEF BytesLoaded
    <3> QED BY <2>6, <2>8, <3>2, <3>3
  <2> QED BY <2>9, <2>10
<1>21. Loaded(tables', bytes', s, prog, k, {}, {})
  BY <1>10, <1>19, <1>20 DEF Loaded
<1> QED BY <1>21 DEF s, prog, k

\* A segment is filled, and elf_load goes on.
LEMMA FillKeepsLoad ==
    ASSUME MInv, LoadInv, WrittenKept, FillSegment
    PROVE  LoadInv'
<1> DEFINE seg == call.prog[call.seg]
           s == call.root
<1>1. /\ call.pc = "fill" /\ call.pc \in Creating /\ UNCHANGED <<image, space>>
      /\ call' = Continue(AfterSegments(call.seg)) /\ bytes' = Stored(s, SegmentBytes(seg))
  BY DEF FillSegment, Creating
<1>2. /\ call \in CreateCall /\ call.prog \in Programs /\ s \in Pages
      /\ call.seg \in DOMAIN call.prog /\ seg.memsz # 0 /\ call.seg \in Nat
  BY <1>1, CreatingCall DEF MInv, CallOK
<1>3. Live' = Live
  BY <1>1 DEF Live
<1>4. call' = [Continue(AfterSegments(call.seg)) EXCEPT !.root = call.root]
  BY <1>1, <1>2 DEF Continue, CreateCall
<1>5. call'.pc \in Creating /\ call'.root = call.root
  BY <1>2, <1>3, <1>4, ContinueFacts DEF MInv
<1>6. Procs' = Procs /\ Roots' = Roots
  BY <1>1, <1>3, <1>5 DEF Procs, Roots
<1>7. s \in Roots /\ s \in Procs /\ Dom(s) = UserPages
  BY <1>1, CallRoot
<1>8. \A v \in UserPages, l \in 0 .. 4 : Walk(tables', s, v, l) = Walk(tables, s, v, l)
  BY <1>6, <1>7, FilledForest
<1>9. Loaded(tables', bytes', s, call.prog, call.seg, {}, {})
  BY <1>8, SegmentFilled
<1>10. call.seg <= Len(call.prog)
  <2>1. call.prog \in Seq(Segment)
    BY <1>2, AddressSpaceAssumption
  <2> QED BY <1>2, <2>1
<1>11. NewLoaded'
  BY <1>2, <1>4, <1>9, <1>10, NextLoaded DEF MInv
<1>12. \A n \in Pages, i \in Entries : tables'[n][i] # tables[n][i] =>
          \E a \in Dom(s), m \in 1 .. 4 : n = Walk(tables, s, a, m)
  <2> SUFFICES ASSUME NEW n \in Pages, NEW i \in Entries, tables'[n][i] # tables[n][i]
               PROVE  \E a \in Dom(s), m \in 1 .. 4 : n = Walk(tables, s, a, m)
    OBVIOUS
  <2>1. DOMAIN tables[n] = Entries
    BY DEF MInv, TablesOK, TypedTables
  <2>2. 1 \in 1 .. 4
    OBVIOUS
  <2>3. PICK u \in FirstPage(seg) .. LastPage(seg) : Path(s, u)[1] = n
    BY <2>1 DEF FillSegment
  <2>4. Walk(tables, s, u, 1) = n
    BY <2>2, <2>3, PathIsWalk
  <2>5. u \in Dom(s)
    BY <1>2, <1>7, SegmentPages
  <2> QED BY <2>2, <2>4, <2>5
<1>13. \A t \in Live : SameBytes(tables, bytes, bytes', space[t], written'[t])
  <2>1. /\ DOMAIN SegmentBytes(seg) \subseteq Nat
        /\ \A c \in DOMAIN SegmentBytes(seg) : c \div PageSize \in UserPages
    BY <1>2, SegmentAddrs
  <2>2. \A t \in Live : space[t] \in Procs /\ space[t] # s
    BY <1>1 DEF Procs, MInv, SpaceOK
  <2> QED BY <1>1, <1>7, <2>1, <2>2, StoredElsewhere
<1>14. LiveLoaded'
  BY <1>1, <1>12, <1>13, OthersLoaded
<1>15. DOMAIN bytes' = Pages
  BY <1>1 DEF Stored
<1> QED BY <1>1, <1>11, <1>14, <1>15 DEF LoadInv, WrittenKept

\* The last byte of the stack.
LEMMA StackByte ==
    /\ StackTop * PageSize - 1 \in Nat
    /\ (StackTop * PageSize - 1) \div PageSize \in UserStack
    /\ (StackTop * PageSize - 1) \div PageSize \in UserPages
<1>1. PageSize \in Nat \ {0} /\ StackTop \in Nat \ {0}
  BY PageSizeFacts, LayoutFacts
<1> DEFINE q == StackTop - 1
           b == StackTop * PageSize - 1
           x == StackTop * PageSize
           y == q * PageSize
<1>2. q \in Nat /\ q + 1 = StackTop
  BY <1>1
<1> HIDE DEF q
<1>3. (q + 1) * PageSize = q * PageSize + PageSize /\ q * PageSize \in Nat
  BY <1>1, <1>2
<1>4. x = y + PageSize /\ y \in Nat
  BY <1>2, <1>3
<1>5. b = x - 1
  OBVIOUS
<1>6. (q + 1) * PageSize = x
  BY <1>2
<1> HIDE DEF x, b
<1>7. b \in Nat /\ y <= b /\ b < x
  <2> HIDE DEF y
  <2> QED BY <1>1, <1>4, <1>5
<1>8. b \div PageSize = q
  BY <1>1, <1>2, <1>6, <1>7, DivUnique
<1>9. q \in UserStack
  BY <1>1, <1>2, LayoutFacts DEF UserStack
<1> QED BY <1>7, <1>8, <1>9, LayoutFacts DEF b

\* task_create_user returns: the new process has its image.
LEMMA ReturnsKeepsLoad ==
    ASSUME MInv, LoadInv, WrittenKept, task_create_user_returns
    PROVE  LoadInv'
<1> DEFINE s == call.root
           prog == call.prog
           a0 == StackTop * PageSize - 1
           new == [a \in {a0} |-> ArgByte]
<1>1. /\ call.pc = "args" /\ bytes' = Stored(s, new) /\ tables' = tables /\ call' = Idle
      /\ space' = [space EXCEPT ![call.t] = s] /\ image' = [image EXCEPT ![call.t] = prog]
  BY DEF task_create_user_returns
<1>2. call.pc \in Creating /\ call.pc \in Creating \ {"undo"}
  BY <1>1 DEF Creating
<1>3. call.t \in Slots /\ call.t \notin Live /\ prog \in Programs
  BY <1>2, CreatingCall DEF MInv
<1>4. s \in Procs /\ s # NoFrame
  BY <1>2, CallRoot
<1>5. space \in [Slots -> Pages] /\ DOMAIN image = Slots
  BY DEF MInv, SpaceOK, LoadInv
<1>6. /\ Live' = Live \cup {call.t} /\ space'[call.t] = s /\ image'[call.t] = prog
      /\ \A t \in Live : space'[t] = space[t] /\ image'[t] = image[t] /\ t \in Live'
  BY <1>1, <1>3, <1>4, <1>5 DEF Live
<1>7. DOMAIN new \subseteq Nat /\ \A c \in DOMAIN new : c \div PageSize \in UserPages
  BY StackByte
<1>8. ASSUME NEW t \in Live
      PROVE  /\ image'[t] \in Programs
             /\ Loaded(tables', bytes', space'[t], image'[t], Len(image'[t]), UserStack, written'[t])
  <2>1. space[t] \in Procs /\ space[t] # s
    BY <1>2 DEF Procs, MInv, SpaceOK
  <2>2. SameBytes(tables, bytes, bytes', space[t], written'[t])
    BY <1>1, <1>4, <1>7, <2>1, StoredElsewhere
  <2>3. SameTree(tables, tables', space[t])
    BY <1>1, Unchanged
  <2>4. written[t] \subseteq written'[t]
    BY <1>6 DEF WrittenKept
  <2> QED BY <1>6, <2>2, <2>3, <2>4, ProcessKept DEF LoadInv
<1>9. Loaded(tables', bytes', s, prog, Len(prog), UserStack, {a0})
  <2>1. Loaded(tables, bytes, s, prog, Len(prog), UserStack, {})
    BY <1>1, <1>2 DEF LoadInv, NewLoaded, SegmentsDone, PagesDone
  <2>2. SameBytes(tables, bytes, bytes', s, {a0})
    BY <1>1, <1>4, <1>7, StoredByte DEF SameBytes
  <2>3. Len(prog) \in 0 .. Len(prog)
    BY <1>2, DoneBound DEF MInv
  <2>4. SameTree(tables, tables', s) /\ {} \subseteq {a0}
    BY <1>1, Unchanged
  <2> HIDE DEF s, prog, a0
  <2> QED BY <1>3, <2>1, <2>2, <2>3, <2>4, KeptLoaded DEF prog
<1>10. Loaded(tables', bytes', s, prog, Len(prog), UserStack, written'[call.t])
  <2>1. 1 .. Len(prog) = DOMAIN prog
    BY <1>2, DoneBound DEF MInv
  <2>2. \A i \in 1 .. Len(prog) : \A a \in DOMAIN SegmentBytes(prog[i]) : a # a0
    BY <1>3, <2>1, SegmentAddrs, StackByte
  <2> HIDE DEF s, prog, a0
  <2> QED BY <1>9, <2>2 DEF Loaded, BytesLoaded
<1>11. LiveLoaded'
  <2> HIDE DEF s, prog
  <2> QED BY <1>3, <1>6, <1>8, <1>10 DEF LiveLoaded, prog
<1>12. NewLoaded'
  BY <1>1 DEF NewLoaded, Idle, Creating
<1>13. DOMAIN bytes' = Pages /\ DOMAIN image' = Slots
  BY <1>1, <1>5 DEF Stored
<1> QED BY <1>11, <1>12, <1>13 DEF LoadInv, WrittenKept

\* A kernel stack that could not be mapped is given back.
LEMMA UndoStackKeepsLoad ==
    ASSUME MInv, LoadInv, WrittenKept, UndoKernelStack
    PROVE  LoadInv'
<1>1. /\ call.pc = "kundo" /\ tables' = Unmapped(call.base, call.v - 1)
      /\ call' = Idle /\ UNCHANGED <<bytes, space, image>>
  BY DEF UndoKernelStack
<1>2. /\ call.base \in Nat /\ call.v \in Nat
      /\ call.base \in WindowStart .. next_virt - KStackPages
      /\ call.v \in call.base .. call.base + KStackPages - 1
  BY <1>1, GrowFacts DEF Growing
<1>3. call.v - 1 \in Int /\ call.base .. call.v - 1 \subseteq call.base .. call.base + KStackPages - 1
  BY <1>2, LayoutFacts
<1>4. call.base .. call.v - 1 \subseteq Window
  BY <1>2, <1>3, StackInWindow
<1> QED BY <1>1, <1>2, <1>3, <1>4, UnmapKeepsLoad

\* The kernel stack of a process that is gone is given back.
LEMMA FreePagesKeepsLoad ==
    ASSUME MInv, LoadInv, WrittenKept, vmm_free_pages
    PROVE  LoadInv'
<1>1. /\ call.pc = "kfree" /\ tables' = Unmapped(call.base, call.base + KStackPages - 1)
      /\ call' = Idle /\ UNCHANGED <<bytes, space, image>>
  BY DEF vmm_free_pages
<1>2. call.base \in Nat /\ call.base \in WindowStart .. next_virt - KStackPages
  BY <1>1, StackToFree DEF StackAt
<1>3. call.base + KStackPages - 1 \in Int
  BY <1>2, LayoutFacts
<1> QED BY <1>1, <1>2, <1>3, StackInWindow, UnmapKeepsLoad

\* Every step of creation and destruction keeps the images.
LEMMA VmNextKeepsLoad ==
    ASSUME MInv, LoadInv, WrittenKept, VmNext
    PROVE  LoadInv'
<1>1. CASE Boot
  BY <1>1, QuietKeepsLoad DEF Boot, vmVars
<1>2. CASE \E prog \in Programs : vmm_alloc_pages(prog)
  <2>1. PICK prog \in Programs : vmm_alloc_pages(prog)
    BY <1>2
  <2>2. call'.pc \notin Creating \ {"undo"} \/ call' = call
    BY <2>1 DEF vmm_alloc_pages, Creating
  <2> QED BY <2>1, <2>2, QuietKeepsLoad DEF vmm_alloc_pages
<1>3. CASE get_or_create_table
  BY <1>3, TableKeepsLoad
<1>4. CASE MapFails
  <2>1. call \in CreateCall
    BY <1>4, CallShape DEF MInv, MapFails, Mapping, Creating
  <2>2. call'.pc \in {"kundo", "undo"}
    BY <1>4, <2>1 DEF MapFails, CreateCall
  <2> QED BY <1>4, <2>2, QuietKeepsLoad DEF MapFails, Creating
<1>5. CASE MapDone
  BY <1>5, MapDoneKeepsLoad
<1>6. CASE UndoKernelStack
  BY <1>6, UndoStackKeepsLoad
<1>7. CASE vmm_create_address_space
  BY <1>7, CreateSpaceKeepsLoad
<1>8. CASE CreateSpaceFails
  <2>1. call'.pc = "kfree"
    BY <1>8 DEF CreateSpaceFails
  <2> QED BY <1>8, <2>1, QuietKeepsLoad DEF CreateSpaceFails, Creating
<1>9. CASE TakePage
  BY <1>9, TakePageKeepsLoad
<1>10. CASE KeepPage
  <2>1. call.pc = "page" /\ call \in CreateCall
    BY <1>10, CallShape DEF MInv, KeepPage, Creating
  <2>2. /\ call'.pc = "map" /\ call'.root = call.root
        /\ call'.prog = call.prog /\ call'.seg = call.seg /\ call'.v = call.v
    BY <1>10, <2>1 DEF KeepPage, CreateCall
  <2> QED BY <1>10, <2>1, <2>2, QuietKeepsLoad DEF KeepPage
<1>11. CASE TakePageFails
  <2>1. call \in CreateCall
    BY <1>11, CallShape DEF MInv, TakePageFails, Creating
  <2>2. call'.pc = "undo"
    BY <1>11, <2>1 DEF TakePageFails, CreateCall
  <2> QED BY <1>11, <2>2, QuietKeepsLoad DEF TakePageFails
<1>12. CASE FillSegment
  BY <1>12, FillKeepsLoad
<1>13. CASE task_create_user_returns
  BY <1>13, ReturnsKeepsLoad
<1>14. CASE \E t \in Slots : task_destroy(t)
  BY <1>14, DestroyKeepsLoad
<1>15. CASE UndoCreate
  <2>1. call'.pc = "free"
    BY <1>15 DEF UndoCreate
  <2> QED BY <1>15, <2>1, QuietKeepsLoad DEF UndoCreate, Creating
<1>16. CASE FreeNext
  <2>1. call.pc = "free" /\ call \in FreeCall
    BY <1>16, CallShape DEF MInv, FreeNext
  <2>2. call'.pc \in {"free", "kfree"}
    BY <1>16, <2>1 DEF FreeNext, FreeCall
  <2> QED BY <1>16, <2>2, QuietKeepsLoad DEF FreeNext, Creating
<1>17. CASE vmm_free_pages
  BY <1>17, FreePagesKeepsLoad
<1> QED
  BY <1>1, <1>2, <1>3, <1>4, <1>5, <1>6, <1>7, <1>8, <1>9, <1>10, <1>11, <1>12, <1>13, <1>14,
     <1>15, <1>16, <1>17 DEF VmNext

\* The ranges that are not refused lie in user space.
LEMMA RefusedIs ==
    ASSUME NEW addr \in Nat, NEW size \in Nat
    PROVE  Refused(addr, size) = "ok" <=> size # 0 /\ addr >= UserStart /\ addr + size <= UserEnd
<1>1. UserStart \in Nat \ {0} /\ UserEnd \in Nat
  BY UserBytes
<1>2. EINVAL # "ok" /\ EFAULT # "ok"
  BY DEF EINVAL, EFAULT
<1>3. Refused(addr, size) = "ok" <=>
         /\ ~(addr = 0 \/ size = 0) /\ ~(addr < UserStart \/ addr >= UserEnd)
         /\ ~(size > UserEnd) /\ ~(addr > UserEnd - size)
  BY <1>2 DEF Refused, validate_user_range
<1> QED BY <1>1, <1>3

\* How far the loops get: to the first byte that is not allowed.
LEMMA ReachFacts ==
    ASSUME NEW r, NEW a \in Nat, NEW n \in Nat, NEW write \in BOOLEAN
    PROVE  /\ Reach(r, a, n, write) \in 0 .. n
           /\ \A k \in 0 .. Reach(r, a, n, write) - 1 : Allowed(tables, r, (a + k) \div PageSize, write)
           /\ Reach(r, a, n, write) < n =>
                 ~Allowed(tables, r, (a + Reach(r, a, n, write)) \div PageSize, write)
<1> DEFINE stops == {k \in 0 .. n - 1 : ~check_page_permissions(r, (a + k) \div PageSize, write)}
           m == CHOOSE k \in stops : \A j \in stops : k <= j
<1>1. Reach(r, a, n, write) = IF stops = {} THEN n ELSE m
  BY DEF Reach
<1>2. \A k \in 0 .. n - 1 : k \in stops <=> ~Allowed(tables, r, (a + k) \div PageSize, write)
  BY AllowedIs
<1>3. stops \subseteq 0 .. n - 1 /\ stops \subseteq Nat
  OBVIOUS
<1>4. stops # {} => m \in stops /\ \A j \in stops : m <= j
  <2>1. stops # {} => \E k \in stops : \A j \in stops : k <= j
    BY <1>3, LeastMember
  <2> QED BY <2>1
<1> HIDE DEF stops, m
<1>5. CASE stops = {}
  BY <1>1, <1>2, <1>5
<1>6. CASE stops # {}
  <2>1. m \in 0 .. n - 1 /\ m \in Nat
    BY <1>3, <1>4, <1>6
  <2>2. \A k \in 0 .. m - 1 : k \in 0 .. n - 1 /\ ~(m <= k)
    BY <2>1
  <2>3. \A k \in 0 .. m - 1 : k \notin stops
    BY <1>4, <1>6, <2>2
  <2>4. m \in 0 .. n
    BY <2>1
  <2> QED BY <1>1, <1>2, <1>4, <1>6, <2>1, <2>2, <2>3, <2>4
<1> QED BY <1>5, <1>6

\* What copy_to_user and clear_user store: cells of the range that the program
\* may write, and the whole of it if they succeed.
Stores(t, addr, size, byte, cells) ==
    /\ t \in Live /\ call = Idle /\ CallKeeps
    /\ addr \in Nat /\ size \in Nat
    /\ cells \subseteq addr .. addr + size - 1
    /\ \A c \in cells : /\ c \in Nat /\ c \div PageSize \in UserPages
                        /\ Allowed(tables, space[t], c \div PageSize, TRUE)
    /\ bytes' = Stored(space[t], [a \in cells |-> byte])
    /\ written' = [written EXCEPT ![t] = @ \cup cells]

\* When they succeed.
Succeeds(t, addr, size, cells) ==
    /\ Outcome(space[t], addr, size, TRUE) = "ok" <=>
          /\ Refused(addr, size) = "ok"
          /\ \A a \in addr .. addr + size - 1 : Allowed(tables, space[t], a \div PageSize, TRUE)
    /\ Outcome(space[t], addr, size, TRUE) = "ok" => cells = addr .. addr + size - 1

\* Every write is one of these.
LEMMA WriteStores ==
    ASSUME NEW t \in Slots, NEW addr \in Addrs, NEW size \in Sizes, NEW op, NEW byte,
           Write(op, t, addr, size, byte)
    PROVE  \E cells : Stores(t, addr, size, byte, cells) /\ Succeeds(t, addr, size, cells)
<1> DEFINE root == space[t]
           ok == Refused(addr, size) = "ok"
           m == Reach(root, addr, size, TRUE)
           n == IF ok THEN m ELSE 0
           cells == addr .. addr + n - 1
           out == Outcome(root, addr, size, TRUE)
<1>1. addr \in Nat /\ size \in Nat
  BY UserAccessAssumption
<1>2. /\ t \in Live /\ call = Idle /\ CallKeeps
      /\ bytes' = Stored(root, [a \in cells |-> byte]) /\ written' = [written EXCEPT ![t] = @ \cup cells]
  BY DEF Write, Running, Live, CallKeeps
<1>3. TRUE \in BOOLEAN
  OBVIOUS
<1>4. /\ m \in 0 .. size
      /\ \A k \in 0 .. m - 1 : Allowed(tables, root, (addr + k) \div PageSize, TRUE)
      /\ m < size => ~Allowed(tables, root, (addr + m) \div PageSize, TRUE)
  BY <1>1, <1>3, ReachFacts
<1>5. ok <=> size # 0 /\ addr >= UserStart /\ addr + size <= UserEnd
  BY <1>1, RefusedIs
<1>6. out = "ok" <=> ok /\ ~(m < size)
  BY DEF Outcome, EFAULT
<1> HIDE DEF m, ok, out
<1>7. n \in 0 .. size /\ (n # 0 => ok /\ n = m)
  <2>1. CASE ok
    BY <1>4, <2>1
  <2>2. CASE ~ok
    BY <1>1, <2>2
  <2> QED BY <2>1, <2>2
<1>8. ASSUME NEW c \in addr .. addr + m - 1
      PROVE  c \in Nat /\ Allowed(tables, root, c \div PageSize, TRUE)
  <2>1. c - addr \in 0 .. m - 1 /\ addr + (c - addr) = c /\ c \in Nat
    BY <1>1, <1>4
  <2>2. Allowed(tables, root, (addr + (c - addr)) \div PageSize, TRUE)
    BY <1>4, <2>1
  <2> QED BY <2>1, <2>2
<1> HIDE DEF n
<1>9. cells \subseteq addr .. addr + size - 1
  BY <1>1, <1>7
<1>10. ASSUME NEW c \in cells
       PROVE  c \in Nat /\ c \div PageSize \in UserPages /\ Allowed(tables, root, c \div PageSize, TRUE)
  <2>1. n # 0
    BY <1>1, <1>7, <1>10
  <2>2. c \in addr .. addr + m - 1 /\ ok
    BY <1>7, <1>10, <2>1
  <2>3. c \in Nat /\ Allowed(tables, root, c \div PageSize, TRUE)
    BY <1>8, <2>2
  <2>4. c \in UserStart .. UserEnd - 1
    BY <1>1, <1>4, <1>5, <2>2, <2>3, UserBytes
  <2> QED BY <2>3, <2>4, UserBytes
<1>11. Stores(t, addr, size, byte, cells)
  BY <1>1, <1>2, <1>9, <1>10 DEF Stores
<1>12. out = "ok" => m = size /\ n = size
  <2> SUFFICES ASSUME out = "ok" PROVE m = size /\ n = size
    OBVIOUS
  <2>1. ok /\ m = size
    BY <1>1, <1>4, <1>6
  <2> QED BY <2>1 DEF n
<1>13. out = "ok" => ok /\ \A a \in addr .. addr + size - 1 : Allowed(tables, root, a \div PageSize, TRUE)
  BY <1>6, <1>8, <1>12
<1>14. ASSUME ok, \A a \in addr .. addr + size - 1 : Allowed(tables, root, a \div PageSize, TRUE)
       PROVE  out = "ok"
  <2> SUFFICES ASSUME m < size PROVE FALSE
    BY <1>6, <1>14
  <2>1. addr + m \in addr .. addr + size - 1
    BY <1>1, <1>4
  <2> QED BY <1>4, <1>14, <2>1
<1>15. Succeeds(t, addr, size, cells)
  BY <1>12, <1>13, <1>14 DEF Succeeds, out, ok
<1> HIDE DEF cells
<1> QED BY <1>11, <1>15

\* Processes and their memory at start.
LEMMA InitLoad == UInit => LoadInv
<1> SUFFICES ASSUME UInit PROVE LoadInv
  OBVIOUS
<1>1. /\ Live = {} /\ call = Idle /\ DOMAIN bytes = Pages /\ DOMAIN image = Slots /\ DOMAIN written = Slots
  BY DEF UInit, VmInit, Live
<1> QED BY <1>1 DEF LoadInv, LiveLoaded, NewLoaded, Idle, Creating

\* A write of the kernel into a process is seen there, in its cells alone.
LEMMA StoresKeepLoad ==
    ASSUME MInv, LoadInv, NEW t, NEW addr, NEW size, NEW byte, NEW cells,
           Stores(t, addr, size, byte, cells)
    PROVE  LoadInv'
<1>1. /\ t \in Live /\ UNCHANGED <<tables, space, image, call>>
      /\ cells \subseteq Nat /\ \A c \in cells : c \div PageSize \in UserPages
      /\ bytes' = Stored(space[t], [a \in cells |-> byte])
      /\ written' = [written EXCEPT ![t] = @ \cup cells]
  BY DEF Stores, CallKeeps
<1>2. DOMAIN written = Slots /\ Live \subseteq Slots /\ Live' = Live
  BY <1>1 DEF LoadInv, Live
<1>3. written'[t] = written[t] \cup cells /\ \A u \in Live : u # t => written'[u] = written[u]
  BY <1>1, <1>2
<1>4. WrittenKept
  <2>1. DOMAIN written' = Slots
    BY <1>1, <1>2
  <2> QED BY <1>3, <2>1 DEF WrittenKept
<1>5. \A u \in Live : space[u] \in Procs /\ (u # t => space[u] # space[t])
  BY <1>1 DEF Procs, MInv, SpaceOK
<1>6. ASSUME NEW u \in Live PROVE SameBytes(tables, bytes, bytes', space[u], written'[u])
  <2> DEFINE new == [a \in cells |-> byte]
  <2>1. DOMAIN new = cells
    OBVIOUS
  <2> HIDE DEF new
  <2>2. bytes' = Stored(space[t], new)
    BY <1>1 DEF new
  <2>3. CASE u # t
    BY <1>1, <1>5, <2>1, <2>2, <2>3, StoredElsewhere
  <2>4. CASE u = t
    <3> SUFFICES ASSUME NEW a \in Nat, a \div PageSize \in UserPages,
                        Walk(tables, space[t], a \div PageSize, 0) # NoFrame, a \notin written'[t]
                 PROVE  ByteAt(tables, bytes', space[t], a) = ByteAt(tables, bytes, space[t], a)
      BY <2>4 DEF SameBytes
    <3>1. a \notin DOMAIN new
      BY <1>3, <2>1
    <3>2. space[t] \in Procs /\ DOMAIN new \subseteq Nat /\ \A c \in DOMAIN new : c \div PageSize \in UserPages
      BY <1>1, <1>5, <2>1
    <3>3. ByteAt(tables, Stored(space[t], new), space[t], a) =
             IF space[t] = space[t] /\ a \in DOMAIN new THEN new[a] ELSE ByteAt(tables, bytes, space[t], a)
      BY <3>2, StoredByte
    <3> QED BY <2>2, <3>1, <3>3
  <2> QED BY <2>3, <2>4
<1>7. LiveLoaded'
  BY <1>1, <1>2, <1>4, <1>6, Unchanged, LiveKept DEF LoadInv
<1>8. call.pc \notin Creating
  BY DEF Stores, Idle, Creating
<1>9. NewLoaded'
  BY <1>1, <1>8 DEF NewLoaded
<1> QED BY <1>1, <1>4, <1>7, <1>9 DEF LoadInv, WrittenKept, Stored

\* Truth values are equal if they are equivalent.
LEMMA SameTruth == ASSUME NEW a, NEW b, a \in BOOLEAN, b \in BOOLEAN, a <=> b PROVE a = b
OBVIOUS

\* Images stay loaded.
LEMMA NextKeepsLoad == MInv /\ LoadInv /\ [UNext]_vars => LoadInv'
<1> SUFFICES ASSUME MInv, LoadInv, [UNext]_vars PROVE LoadInv'
  OBVIOUS
<1>1. ASSUME UNCHANGED <<tables, bytes, space, image, call, written>> PROVE LoadInv'
  <2>1. WrittenKept
    BY <1>1 DEF WrittenKept, LoadInv
  <2> QED BY <1>1, <2>1, QuietKeepsLoad
<1>2. CASE UNCHANGED vars
  BY <1>1, <1>2 DEF vars, vmVars, userVars
<1>3. CASE Kernel
  <2>1. VmNext /\ written' = [t \in Slots |-> IF space'[t] = NoFrame THEN {} ELSE written[t]]
    BY <1>3 DEF Kernel
  <2>2. \A t \in Live : t \in Slots /\ (t \in Live' => space'[t] # NoFrame)
    BY DEF Live
  <2>3. WrittenKept
    BY <2>1, <2>2 DEF WrittenKept
  <2> QED BY <2>1, <2>3, VmNextKeepsLoad
<1>4. ASSUME NEW t \in Slots, NEW addr \in Addrs, NEW size \in Sizes, NEW op, NEW byte,
             Write(op, t, addr, size, byte)
      PROVE  LoadInv'
  BY <1>4, WriteStores, StoresKeepLoad
<1>5. ASSUME NEW t \in Slots, NEW addr \in Addrs, NEW size \in Sizes,
             copy_to_user(t, addr, size) \/ clear_user(t, addr, size)
      PROVE  LoadInv'
  BY <1>4, <1>5 DEF copy_to_user, clear_user
<1>6. ASSUME NEW t \in Slots, NEW addr \in Addrs, NEW size \in Sizes,
             \/ copy_from_user(t, addr, size)
             \/ verify_user_read(t, addr, size) \/ verify_user_write(t, addr, size)
             \/ strncpy_from_user(t, addr, size)
      PROVE  LoadInv'
  <2>1. Reads
    BY <1>6 DEF copy_from_user, verify_user_read, verify_user_write, Verify, strncpy_from_user
  <2> QED BY <1>1, <2>1 DEF Reads, vmVars
<1>7. CASE UNext
  BY <1>3, <1>5, <1>6, <1>7 DEF UNext
<1> QED BY <1>2, <1>7

\* What the invariant says of live processes is what they see.
LEMMA LoadedIntact == MInv /\ LoadInv => ProgramsIntact
<1> SUFFICES ASSUME MInv, LoadInv, NEW t \in Live, NEW i \in DOMAIN image[t],
                    NEW a \in DOMAIN SegmentBytes(image[t][i])
             PROVE  LET loc == At(space[t], a)
                        entry == EntryAt(space[t], a \div PageSize, 1)
                    IN  /\ a \notin written[t] => bytes[loc[1]][loc[2]] = SegmentBytes(image[t][i])[a]
                        /\ ("write" \in entry.flags) =
                              (\E k \in Covering(t, a \div PageSize) : image[t][k].writable)
  BY DEF ProgramsIntact, ImageLoaded
<1> DEFINE r == space[t]
           prog == image[t]
           v == a \div PageSize
           n == Len(prog)
<1>1. /\ prog \in Programs /\ PagesLoaded(tables, r, prog, n, UserStack)
      /\ BytesLoaded(tables, bytes, r, prog, n, written[t])
  BY DEF LoadInv, LiveLoaded, Loaded
<1>2. n \in Nat /\ DOMAIN prog = 1 .. n
  <2>1. prog \in Seq(Segment)
    BY <1>1, AddressSpaceAssumption
  <2> QED BY <2>1
<1>3. /\ a \in Nat /\ prog[i].memsz # 0 /\ v \in FirstPage(prog[i]) .. LastPage(prog[i])
      /\ v \in UserPages /\ v \notin UserStack
  BY <1>1, SegmentAddrs
<1>4. Covering(t, v) = Cover(prog, n, v)
  BY <1>2 DEF Covering, Cover
<1>5. i \in Cover(prog, n, v)
  BY <1>2, <1>3 DEF Cover
<1>6. At(r, a) = <<Walk(tables, r, v, 0), a % PageSize>>
  BY PhysIsWalk DEF At
<1>7. a \notin written[t] => ByteAt(tables, bytes, r, a) = SegmentBytes(prog[i])[a]
  BY <1>1, <1>2 DEF BytesLoaded
<1>8. ByteAt(tables, bytes, r, a) = bytes[Walk(tables, r, v, 0)][a % PageSize]
  BY DEF ByteAt
<1>9. EntryAt(r, v, 1) = IF Walk(tables, r, v, 1) = NoFrame THEN NoEntry
                         ELSE tables[Walk(tables, r, v, 1)][Index(v, 1)]
  BY PhysIsWalk
<1> HIDE DEF r, v, prog, n
<1>10. /\ Walk(tables, r, v, 0) # NoFrame
       /\ "write" \in Flags(tables, r, v, 1) <=> \E k \in Cover(prog, n, v) : prog[k].writable
  BY <1>1, <1>3, <1>5 DEF PagesLoaded
<1>11. EntryAt(r, v, 1).flags = Flags(tables, r, v, 1)
  <2>1. 0 \in 0 .. 1 /\ 1 \in 0 .. 4
    OBVIOUS
  <2>2. Walk(tables, r, v, 1) # NoFrame
    BY <1>10, <2>1, WalkZero
  <2> QED BY <1>9, <2>2 DEF Flags
<1>12. a \notin written[t] => bytes[At(r, a)[1]][At(r, a)[2]] = SegmentBytes(prog[i])[a]
  BY <1>6, <1>7, <1>8
<1>13. ("write" \in EntryAt(r, v, 1).flags) = (\E k \in Covering(t, v) : prog[k].writable)
  <2>1. "write" \in EntryAt(r, v, 1).flags <=> \E k \in Covering(t, v) : prog[k].writable
    BY <1>4, <1>10, <1>11
  <2>2. ("write" \in EntryAt(r, v, 1).flags) \in BOOLEAN /\ (\E k \in Covering(t, v) : prog[k].writable) \in BOOLEAN
    OBVIOUS
  <2> QED BY <2>1, <2>2, SameTruth
<1> QED BY <1>12, <1>13 DEF r, v, prog

\* Loaded images and what they need, in every reachable state.
LEMMA AlwaysLoaded == USpec => [](MInv /\ LoadInv)
<1> QED BY InitMInv, NextKeepsMInv, InitLoad, NextKeepsLoad, PTL DEF USpec

\* Every process sees its own program, with the rights its segments have, from
\* its creation to its end, whatever other processes are made or destroyed and
\* wherever memory runs out meanwhile.
THEOREM ProgramsAlwaysIntact == USpec => []ProgramsIntact
<1> QED BY AlwaysLoaded, LoadedIntact, PTL

\* A program may write where its page tables let it.
LEMMA MayWriteIs ==
    ASSUME MInv, LoadInv, NEW t \in Live, NEW a \in Nat
    PROVE  MayWrite(t, a) <=>
              a \div PageSize \in UserPages /\ Allowed(tables, space[t], a \div PageSize, TRUE)
<1> DEFINE r == space[t]
           prog == image[t]
           v == a \div PageSize
           n == Len(prog)
<1>1. prog \in Programs /\ TablesOpen(tables, r) /\ PagesLoaded(tables, r, prog, n, UserStack)
  BY DEF LoadInv, LiveLoaded, Loaded
<1>2. n \in Nat /\ DOMAIN prog = 1 .. n
  <2>1. prog \in Seq(Segment)
    BY <1>1, AddressSpaceAssumption
  <2> QED BY <2>1
<1>3. r \in Procs
  BY DEF Procs
<1>4. MayWrite(t, a) <=> v \in UserStack \/ \E i \in Cover(prog, n, v) : prog[i].writable
  BY <1>2 DEF MayWrite, Cover, UserStack
<1>5. v \in UserStack => v \in UserPages
  BY LayoutFacts
<1>6. \A i \in Cover(prog, n, v) : v \in UserPages /\ v \notin UserStack
  BY <1>1, <1>2, SegmentPages DEF Cover
<1> HIDE DEF r, prog, v, n
<1>7. ASSUME v \in UserStack \/ \E i \in Cover(prog, n, v) : prog[i].writable
      PROVE  v \in UserPages /\ Allowed(tables, r, v, TRUE)
  <2>1. v \in UserPages
    BY <1>5, <1>6, <1>7
  <2>2. Walk(tables, r, v, 0) # NoFrame /\ {"user", "write"} \subseteq Flags(tables, r, v, 1)
    BY <1>1, <1>6, <1>7, <2>1 DEF PagesLoaded
  <2>3. ASSUME NEW l \in 1 .. 4
        PROVE  /\ Walk(tables, r, v, l) # NoFrame
               /\ {"present", "user", "write"} \subseteq tables[Walk(tables, r, v, l)][Index(v, l)].flags
    <3>1. l \in 0 .. 4 /\ 0 \in 0 .. l /\ l - 1 \in 0 .. 4 /\ 0 \in 0 .. l - 1
      OBVIOUS
    <3>2. Walk(tables, r, v, l) # NoFrame /\ Walk(tables, r, v, l - 1) # NoFrame
      BY <2>2, <3>1, WalkZero
    <3>3. CASE l = 1
      <4>1. Walk(tables, r, v, 0) = Leaf(tables, Walk(tables, r, v, 1), Index(v, 1))
        BY WalkLeaf
      <4>2. "present" \in tables[Walk(tables, r, v, 1)][Index(v, 1)].flags
        BY <2>2, <4>1 DEF Leaf, Present
      <4> QED BY <2>2, <3>2, <3>3, <4>2 DEF Flags
    <3>4. CASE l # 1
      <4>1. l - 1 \in 1 .. 3 /\ (l - 1) + 1 = l /\ l \in 2 .. 4
        BY <3>4
      <4>2. Walk(tables, r, v, l - 1) = Below(tables, Walk(tables, r, v, (l - 1) + 1), Index(v, (l - 1) + 1))
        BY <4>1, WalkStep
      <4>3. Walk(tables, r, v, l - 1) = Below(tables, Walk(tables, r, v, l), Index(v, l))
        BY <4>1, <4>2
      <4>4. "present" \in tables[Walk(tables, r, v, l)][Index(v, l)].flags
        BY <3>2, <4>3 DEF Below, IsTable, Present
      <4>5. {"user", "write"} \subseteq Flags(tables, r, v, l)
        BY <1>1, <2>1, <3>2, <4>1 DEF TablesOpen
      <4> QED BY <3>2, <4>4, <4>5 DEF Flags
    <3> QED BY <3>3, <3>4
  <2> QED BY <2>1, <2>3 DEF Allowed
<1>8. ASSUME v \in UserPages, Allowed(tables, r, v, TRUE)
      PROVE  v \in UserStack \/ \E i \in Cover(prog, n, v) : prog[i].writable
  <2>1. TRUE \in BOOLEAN /\ 1 \in 1 .. 4
    OBVIOUS
  <2>2. Walk(tables, r, v, 0) # NoFrame
    BY <1>3, <1>8, <2>1, AllowedMapped
  <2>3. "write" \in Flags(tables, r, v, 1)
    BY <1>8, <2>1 DEF Allowed, Flags
  <2> QED BY <1>1, <1>8, <2>2, <2>3 DEF PagesLoaded
<1> QED BY <1>4, <1>7, <1>8 DEF v, r

\* What a process sees, in terms of walks.
SeesWalk(tb, by, sp, a) ==
    IF Walk(tb, sp, a \div PageSize, 0) = NoFrame THEN -1 ELSE ByteAt(tb, by, sp, a)
\* It is what Sees says.
SeesOK ==
    \A u \in Live, a \in UserStart .. UserEnd - 1 : Sees[u][a] = SeesWalk(tables, bytes, space[u], a)

\* It always is.
LEMMA SeesAlways == SeesOK
<1> SUFFICES ASSUME NEW u \in Live, NEW a \in UserStart .. UserEnd - 1
             PROVE  Sees[u][a] = SeesWalk(tables, bytes, space[u], a)
  BY DEF SeesOK
<1>1. a \in Nat /\ 1 \in Nat
  BY UserBytes
<1>2. Load(space[u], a, 1)[1] = ByteAt(tables, bytes, space[u], a)
  BY <1>1, LoadIs
<1>3. vmm_get_physical(space[u], a \div PageSize) = Walk(tables, space[u], a \div PageSize, 0)
  BY PhysIsWalk
<1>4. Sees[u][a] = IF vmm_get_physical(space[u], a \div PageSize) = NoFrame THEN -1
                   ELSE Load(space[u], a, 1)[1]
  BY DEF Sees
<1> QED BY <1>2, <1>3, <1>4 DEF SeesWalk

\* The same after a step.
LEMMA SeesNext == SeesOK'
<1> QED BY SeesAlways, PTL

\* A call that writes succeeds if the program may write the whole range.
LEMMA WriteSucceeds ==
    ASSUME MInv, LoadInv, NEW t, NEW addr, NEW size, NEW byte, NEW cells,
           Stores(t, addr, size, byte, cells), Succeeds(t, addr, size, cells)
    PROVE  Outcome(space[t], addr, size, TRUE) = "ok" <=>
              addr .. addr + size - 1 # {} /\ \A a \in addr .. addr + size - 1 : MayWrite(t, a)
<1> DEFINE range == addr .. addr + size - 1
           out == Outcome(space[t], addr, size, TRUE)
<1>1. t \in Live /\ addr \in Nat /\ size \in Nat /\ range \subseteq Nat
  BY DEF Stores
<1>2. UserStart \in Nat /\ UserEnd \in Nat
  BY UserBytes
<1>3. out = "ok" <=> Refused(addr, size) = "ok" /\ \A a \in range : Allowed(tables, space[t], a \div PageSize, TRUE)
  BY DEF Succeeds
<1>4. Refused(addr, size) = "ok" <=> size # 0 /\ addr >= UserStart /\ addr + size <= UserEnd
  BY <1>1, RefusedIs
<1>5. \A a \in range : MayWrite(t, a) <=>
          a \in UserStart .. UserEnd - 1 /\ Allowed(tables, space[t], a \div PageSize, TRUE)
  BY <1>1, MayWriteIs, UserBytes
<1>6. range # {} <=> size # 0
  <2>1. size # 0 => addr \in range
    BY <1>1
  <2>2. size = 0 => range = {}
    BY <1>1
  <2> QED BY <2>1, <2>2
<1>7. ASSUME size # 0
      PROVE  addr >= UserStart /\ addr + size <= UserEnd <=> \A a \in range : a \in UserStart .. UserEnd - 1
  <2>1. addr \in range /\ addr + size - 1 \in range
    BY <1>1, <1>7
  <2>2. ASSUME \A a \in range : a \in UserStart .. UserEnd - 1 PROVE addr >= UserStart /\ addr + size <= UserEnd
    <3>1. addr \in UserStart .. UserEnd - 1 /\ addr + size - 1 \in UserStart .. UserEnd - 1
      BY <2>1, <2>2
    <3> QED BY <1>1, <1>2, <3>1
  <2>3. ASSUME addr >= UserStart, addr + size <= UserEnd, NEW a \in range PROVE a \in UserStart .. UserEnd - 1
    BY <1>1, <1>2, <2>3
  <2> QED BY <2>2, <2>3
<1> HIDE DEF range, out
<1>8. out = "ok" <=> range # {} /\ \A a \in range : MayWrite(t, a)
  BY <1>3, <1>4, <1>5, <1>6, <1>7
<1> QED BY <1>8 DEF range, out

\* What the processes see after it.
LEMMA WriteSeen ==
    ASSUME MInv, LoadInv, NEW t, NEW addr, NEW size, NEW byte, NEW cells,
           Stores(t, addr, size, byte, cells)
    PROVE  /\ \A a \in cells : Sees'[t][a] = byte
           /\ \A u \in Live, a \in UserStart .. UserEnd - 1 :
                 Sees'[u][a] # Sees[u][a] => u = t /\ a \in addr .. addr + size - 1 /\ MayWrite(t, a)
<1> DEFINE new == [c \in cells |-> byte]
<1>1. /\ t \in Live /\ tables' = tables /\ space' = space /\ bytes' = Stored(space[t], new)
      /\ cells \subseteq addr .. addr + size - 1
      /\ \A c \in cells : /\ c \in Nat /\ c \div PageSize \in UserPages
                          /\ Allowed(tables, space[t], c \div PageSize, TRUE)
  BY DEF Stores, CallKeeps
<1>2. DOMAIN new = cells /\ \A c \in cells : new[c] = byte
  OBVIOUS
<1> HIDE DEF new
<1>3. Live' = Live
  BY <1>1 DEF Live
<1>4. \A u \in Live : space[u] \in Procs /\ (space[u] = space[t] => u = t)
  BY <1>1 DEF Procs, MInv, SpaceOK
<1>5. ASSUME NEW u \in Live, NEW a \in UserStart .. UserEnd - 1
      PROVE  /\ Sees[u][a] = SeesWalk(tables, bytes, space[u], a)
             /\ Sees'[u][a] = SeesWalk(tables, bytes', space[u], a)
             /\ a \in Nat /\ a \div PageSize \in UserPages
  <2>1. UserStart \in Nat /\ UserEnd \in Nat /\ a \in Int
    BY UserBytes
  <2>2. a \in Nat
    BY <2>1
  <2>3. a \in Nat /\ a \div PageSize \in UserPages
    BY <2>2, UserBytes
  <2>4. Sees[u][a] = SeesWalk(tables, bytes, space[u], a)
    BY SeesAlways DEF SeesOK
  <2>5. \A w \in Live', b \in UserStart .. UserEnd - 1 : Sees'[w][b] = SeesWalk(tables', bytes', space'[w], b)
    BY SeesNext DEF SeesOK, SeesWalk, ByteAt, Walk, Leaf, Below, Walk1, Walk2, Walk3
  <2>6. u \in Live'
    BY <1>3
  <2>7. Sees'[u][a] = SeesWalk(tables', bytes', space'[u], a)
    BY <2>5, <2>6
  <2> QED BY <1>1, <2>3, <2>4, <2>7
<1>6. ASSUME NEW u \in Live, NEW a \in Nat, a \div PageSize \in UserPages,
             Walk(tables, space[u], a \div PageSize, 0) # NoFrame
      PROVE  ByteAt(tables, bytes', space[u], a) =
                IF u = t /\ a \in cells THEN byte ELSE ByteAt(tables, bytes, space[u], a)
  <2>1. ByteAt(tables, Stored(space[t], new), space[u], a) =
           IF space[u] = space[t] /\ a \in DOMAIN new THEN new[a] ELSE ByteAt(tables, bytes, space[u], a)
    <3>1. space[t] \in Procs /\ space[u] \in Procs
      BY <1>1, <1>4
    <3>2. DOMAIN new \subseteq Nat /\ \A c \in DOMAIN new : c \div PageSize \in UserPages
      BY <1>1, <1>2
    <3> QED BY <1>6, <3>1, <3>2, StoredByte
  <2> QED BY <1>1, <1>2, <1>4, <2>1
<1>7. ASSUME NEW a \in cells PROVE Sees'[t][a] = byte
  <2>1. a \in Nat /\ a \div PageSize \in UserPages /\ Allowed(tables, space[t], a \div PageSize, TRUE)
    BY <1>1
  <2>2. a \in UserStart .. UserEnd - 1
    BY <2>1, UserBytes
  <2>3. Walk(tables, space[t], a \div PageSize, 0) # NoFrame
    <3>1. TRUE \in BOOLEAN /\ space[t] \in Procs
      BY <1>1, <1>4
    <3> QED BY <2>1, <3>1, AllowedMapped
  <2>4. ByteAt(tables, bytes', space[t], a) = byte
    BY <1>1, <1>6, <2>1, <2>3
  <2>5. Sees'[t][a] = SeesWalk(tables, bytes', space[t], a)
    BY <1>1, <1>5, <2>2
  <2> QED BY <2>3, <2>4, <2>5 DEF SeesWalk
<1>8. ASSUME NEW u \in Live, NEW a \in UserStart .. UserEnd - 1, Sees'[u][a] # Sees[u][a]
      PROVE  u = t /\ a \in addr .. addr + size - 1 /\ MayWrite(t, a)
  <2>1. /\ Sees[u][a] = SeesWalk(tables, bytes, space[u], a)
        /\ Sees'[u][a] = SeesWalk(tables, bytes', space[u], a)
        /\ a \in Nat /\ a \div PageSize \in UserPages
    BY <1>5
  <2>2. Walk(tables, space[u], a \div PageSize, 0) # NoFrame
    BY <1>8, <2>1 DEF SeesWalk
  <2>3. ByteAt(tables, bytes', space[u], a) # ByteAt(tables, bytes, space[u], a)
    BY <1>8, <2>1, <2>2 DEF SeesWalk
  <2>4. u = t /\ a \in cells
    BY <1>6, <2>1, <2>2, <2>3
  <2> QED BY <1>1, <2>1, <2>4, MayWriteIs
<1> QED BY <1>7, <1>8

\* The calls that write are the ones that answer so.
LEMMA WriteReplies ==
    ASSUME UNext, reply'.op \in {"copy_to_user", "clear_user"}
    PROVE  \E t \in Slots, addr \in Addrs, size \in Sizes :
              copy_to_user(t, addr, size) \/ clear_user(t, addr, size)
<1>1. CASE Kernel
  <2>1. reply'.op = "none"
    BY <1>1 DEF Kernel
  <2> QED BY <2>1
<1>2. ASSUME NEW t \in Slots, NEW addr \in Addrs, NEW size \in Sizes, copy_from_user(t, addr, size)
      PROVE  FALSE
  <2>1. \E x, y : reply' = [op |-> "copy_from_user", t |-> t, addr |-> addr, size |-> size, ret |-> x, text |-> y]
    BY <1>2, Zenon DEF copy_from_user, Reply
  <2> QED BY <2>1
<1>3. ASSUME NEW t \in Slots, NEW addr \in Addrs, NEW size \in Sizes, NEW op, NEW write,
             Verify(op, t, addr, size, write), op \in {"verify_user_read", "verify_user_write"}
      PROVE  FALSE
  <2>1. \E x, y : reply' = [op |-> op, t |-> t, addr |-> addr, size |-> size, ret |-> x, text |-> y]
    BY <1>3, Zenon DEF Verify, Reply
  <2> QED BY <1>3, <2>1
<1>4. ASSUME NEW t \in Slots, NEW addr \in Addrs, NEW size \in Sizes, strncpy_from_user(t, addr, size)
      PROVE  FALSE
  <2>1. \E x, y : reply' = [op |-> "strncpy_from_user", t |-> t, addr |-> addr, size |-> size, ret |-> x, text |-> y]
    BY <1>4, Zenon DEF strncpy_from_user, Reply
  <2> QED BY <2>1
<1>5. ASSUME NEW t \in Slots, NEW addr \in Addrs, NEW size \in Sizes,
             verify_user_read(t, addr, size) \/ verify_user_write(t, addr, size)
      PROVE  FALSE
  BY <1>3, <1>5 DEF verify_user_read, verify_user_write
<1> QED BY <1>1, <1>2, <1>4, <1>5 DEF UNext

\* Every step writes where it may.
LEMMA StepConfined == MInv /\ LoadInv /\ [UNext]_vars => [WriteConfined]_vars
<1> SUFFICES ASSUME MInv, LoadInv, UNext, reply'.op \in {"copy_to_user", "clear_user"}
             PROVE  LET t == reply'.t
                        range == reply'.addr .. reply'.addr + reply'.size - 1
                        value == IF reply'.op = "clear_user" THEN 0 ELSE KernelByte
                    IN  /\ (reply'.ret = "ok") =
                              (range # {} /\ \A a \in range : MayWrite(t, a))
                        /\ reply'.ret = "ok" => \A a \in range : Sees'[t][a] = value
                        /\ \A u \in Live, a \in UserStart .. UserEnd - 1 :
                              Sees'[u][a] # Sees[u][a] => u = t /\ a \in range /\ MayWrite(t, a)
  BY DEF WriteConfined
<1>1. PICK t \in Slots, addr \in Addrs, size \in Sizes :
          copy_to_user(t, addr, size) \/ clear_user(t, addr, size)
  BY WriteReplies
<1>2. PICK op, byte : /\ Write(op, t, addr, size, byte)
                      /\ op \in {"copy_to_user", "clear_user"}
                      /\ byte = IF op = "clear_user" THEN 0 ELSE KernelByte
  BY <1>1 DEF copy_to_user, clear_user
<1>3. PICK cells : Stores(t, addr, size, byte, cells) /\ Succeeds(t, addr, size, cells)
  BY <1>2, WriteStores
<1>4. PICK ret : ret = Outcome(space[t], addr, size, TRUE)
  OBVIOUS
<1>5. reply' = [op |-> op, t |-> t, addr |-> addr, size |-> size, ret |-> ret, text |-> <<>>]
  BY <1>2, <1>4, Zenon DEF Write, Reply
<1>6. /\ reply'.op = op /\ reply'.t = t /\ reply'.addr = addr /\ reply'.size = size /\ reply'.ret = ret
  BY <1>5
<1> DEFINE range == addr .. addr + size - 1
<1>7. (ret = "ok") = (range # {} /\ \A a \in range : MayWrite(t, a))
  <2>1. ret = "ok" <=> range # {} /\ \A a \in range : MayWrite(t, a)
    BY <1>3, <1>4, WriteSucceeds
  <2>2. (ret = "ok") \in BOOLEAN /\ (range # {} /\ \A a \in range : MayWrite(t, a)) \in BOOLEAN
    OBVIOUS
  <2> QED BY <2>1, <2>2, SameTruth
<1>8. ret = "ok" => cells = range
  BY <1>3, <1>4 DEF Succeeds
<1>9. /\ ret = "ok" => \A a \in range : Sees'[t][a] = byte
      /\ \A u \in Live, a \in UserStart .. UserEnd - 1 :
            Sees'[u][a] # Sees[u][a] => u = t /\ a \in range /\ MayWrite(t, a)
  <2>1. /\ \A a \in cells : Sees'[t][a] = byte
        /\ \A u \in Live, a \in UserStart .. UserEnd - 1 :
              Sees'[u][a] # Sees[u][a] => u = t /\ a \in addr .. addr + size - 1 /\ MayWrite(t, a)
    BY <1>3, WriteSeen
  <2> QED BY <1>8, <2>1
<1> QED BY <1>2, <1>6, <1>7, <1>9

\* A write into a process succeeds exactly where the program itself may write,
\* does all of it then, and otherwise changes no byte outside the range and
\* none that the program may not write, however the range crosses pages.
THEOREM WritesAlwaysConfined == USpec => WritesConfined
<1> QED BY AlwaysLoaded, StepConfined, PTL DEF USpec, WritesConfined
=============================================================================
