-------------------------------- MODULE Heap --------------------------------
(***************************************************************************)
(* The kernel heap, src/kernel/mm/heap.c: a doubly linked list of blocks   *)
(* that tiles heap_storage, each block a header followed by its payload.   *)
(* A block is named by the offset of its header.  heap_lock is held with   *)
(* interrupts disabled from the start of kmalloc to its return, so one     *)
(* call is in progress at a time; the walk of kmalloc is one action per    *)
(* block it looks at.                                                      *)
(*                                                                         *)
(* Clients stay inside the payload they got and free only what they hold   *)
(* (or a block that is free already, which kfree refuses), so the magic of *)
(* a linked header is intact and heap_block_ptr_valid fails for NULL only. *)
(***************************************************************************)
EXTENDS Integers

CONSTANTS HeapSize,    \* HEAP_PAGES * PAGE_SIZE
          HeaderSize,  \* sizeof(heap_block_t)
          MinSize,     \* HEAP_MIN_SIZE
          Align,       \* payload sizes are multiples of this
          Requests     \* sizes clients ask for

HeapAssumption ==
    /\ HeapSize \in Nat
    /\ HeaderSize \in Nat \ {0}
    /\ MinSize \in Nat \ {0}
    /\ Align \in Nat \ {0}
    /\ HeapSize > HeaderSize + MinSize
    /\ Requests \subseteq Nat \ {0}

ASSUME HeapConstants == HeapAssumption

Null == -1

VARIABLES hdr,   \* the linked headers, by offset
          scan,  \* the call of kmalloc in progress: block looked at, sizes
          held   \* history: the blocks clients hold and what they asked for

heapVars == <<hdr, scan, held>>

Idle == [at |-> Null, want |-> 0, asked |-> 0]

-----------------------------------------------------------------------------
\* heap_init
Init ==
    /\ hdr = [b \in {0} |-> [size |-> HeapSize - HeaderSize, free |-> TRUE,
                             next |-> Null, prev |-> Null]]
    /\ scan = Idle
    /\ held = {}

\* A small request is raised to the minimum, then rounded up.
Rounded(n) ==
    LET raised == IF n < MinSize THEN MinSize ELSE n
    IN  ((raised + Align - 1) \div Align) * Align

Follows(h, b) == b + HeaderSize + h[b].size

\* Slip: the block behind the merged one still points back at it.
heap_merge_next_StalePrev(h, b) ==
    LET n == h[b].next
    IN  IF n # Null /\ h[n].free /\ Follows(h, b) = n
        THEN [o \in DOMAIN h \ {n} |->
                IF o = b THEN [h[b] EXCEPT !.size = @ + HeaderSize + h[n].size,
                                           !.next = h[n].next]
                ELSE h[o]]
        ELSE h

heap_merge_next(h, b) ==
    LET n == h[b].next
    IN  IF n # Null /\ h[n].free /\ Follows(h, b) = n
        THEN [o \in DOMAIN h \ {n} |->
                CASE o = b -> [h[b] EXCEPT !.size = @ + HeaderSize + h[n].size,
                                           !.next = h[n].next]
                  [] o = h[n].next -> [h[o] EXCEPT !.prev = b]
                  [] OTHER -> h[o]]
        ELSE h

\* kmalloc gives the tail of a block that is much too large back.
Split(h, b, want) ==
    LET n == b + HeaderSize + want
    IN  IF h[b].size > want + HeaderSize + MinSize
        THEN [o \in DOMAIN h \cup {n} |->
                CASE o = b -> [h[b] EXCEPT !.size = want, !.next = n]
                  [] o = n -> [size |-> h[b].size - want - HeaderSize, free |-> TRUE,
                               next |-> h[b].next, prev |-> b]
                  [] o = h[b].next -> [h[o] EXCEPT !.prev = n]
                  [] OTHER -> h[o]]
        ELSE h

kmalloc(n) ==
    /\ scan = Idle
    /\ scan' = [at |-> 0, want |-> Rounded(n), asked |-> n]
    /\ UNCHANGED <<hdr, held>>

\* The list as the walk leaves the block it looks at.
Merged == IF hdr[scan.at].free THEN heap_merge_next(hdr, scan.at) ELSE hdr

\* Slip: a block of exactly the right size is passed over.
Fits_Strictly(h) == h[scan.at].free /\ h[scan.at].size > scan.want

Fits(h) == h[scan.at].free /\ h[scan.at].size >= scan.want

kmalloc_takes ==
    /\ scan # Idle
    /\ Fits(Merged)
    /\ hdr' = [Split(Merged, scan.at, scan.want) EXCEPT ![scan.at].free = FALSE]
    /\ held' = held \cup {[block |-> scan.at, asked |-> scan.asked]}
    /\ scan' = Idle

kmalloc_moves_on ==
    /\ scan # Idle
    /\ ~Fits(Merged)
    /\ Merged[scan.at].next # Null
    /\ hdr' = Merged
    /\ scan' = [scan EXCEPT !.at = Merged[scan.at].next]
    /\ UNCHANGED held

\* The end of the list: kmalloc returns NULL.
kmalloc_fails ==
    /\ scan # Idle
    /\ ~Fits(Merged)
    /\ Merged[scan.at].next = Null
    /\ hdr' = Merged
    /\ scan' = Idle
    /\ UNCHANGED held

\* kfree merges forwards, then from the previous block.
kfree(b) ==
    LET merged == heap_merge_next([hdr EXCEPT ![b].free = TRUE], b)
        p == merged[b].prev
    IN  /\ scan = Idle
        /\ ~hdr[b].free
        /\ hdr' = IF p # Null /\ merged[p].free THEN heap_merge_next(merged, p) ELSE merged
        /\ held' = {r \in held : r.block # b}
        /\ UNCHANGED scan

Walk == kmalloc_takes \/ kmalloc_moves_on \/ kmalloc_fails

Next ==
    \/ \E n \in Requests : kmalloc(n)
    \/ Walk
    \/ \E r \in held : kfree(r.block)

Spec == Init /\ [][Next]_heapVars

-----------------------------------------------------------------------------
Offsets == 0 .. HeapSize - 1

Header == [size : 0 .. HeapSize, free : BOOLEAN,
           next : Offsets \cup {Null}, prev : Offsets \cup {Null}]

\* Headers, the walk and the history have their types.
TypeOK ==
    /\ DOMAIN hdr \subseteq Offsets
    /\ hdr \in [DOMAIN hdr -> Header]
    /\ scan \in [at : DOMAIN hdr \cup {Null}, want : Nat, asked : Nat]
    /\ held \subseteq [block : Offsets, asked : Nat]

\* Every block ends where the next one in the list begins or at the end of
\* the heap, and prev leads back.
ListTilesHeap ==
    /\ 0 \in DOMAIN hdr
    /\ \A b \in DOMAIN hdr :
          /\ hdr[b].size >= MinSize
          /\ \/ Follows(hdr, b) = HeapSize /\ hdr[b].next = Null
             \/ /\ Follows(hdr, b) \in DOMAIN hdr
                /\ hdr[b].next = Follows(hdr, b)
                /\ hdr[Follows(hdr, b)].prev = b
          /\ b = 0 => hdr[b].prev = Null

\* A block a client holds is linked, not free and as large as it asked for,
\* and every other block is free.
HeldIntact ==
    /\ \A r \in held :
          /\ r.block \in DOMAIN hdr
          /\ ~hdr[r.block].free
          /\ hdr[r.block].size >= r.asked
    /\ \A b \in DOMAIN hdr : ~hdr[b].free => \E r \in held : r.block = b

\* The list tiles the heap, and the blocks in use are those that clients
\* hold, as large as they asked for: splitting and merging lose no byte and
\* hand no byte out twice, whatever order blocks are freed in.
HeapSound == ListTilesHeap /\ HeldIntact

TakenBytes(h) == UNION {b .. (Follows(h, b) - 1) : b \in {o \in DOMAIN h : ~h[o].free}}

\* kmalloc returns NULL only when no gap between the blocks in use could
\* hold the block: a failure never comes from fragments left unmerged.
FailsOnlyWhenFull ==
    [][scan # Idle /\ scan' = Idle /\ held' = held =>
          \A lo \in 0 .. HeapSize - HeaderSize - scan.want :
             (lo .. (lo + HeaderSize + scan.want - 1)) \cap TakenBytes(hdr) # {}]_heapVars

=============================================================================
