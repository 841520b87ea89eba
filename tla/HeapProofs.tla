----------------------------- MODULE HeapProofs -----------------------------
(***************************************************************************)
(* Proofs about the kernel heap of Heap, for every heap size, header size, *)
(* alignment and set of request sizes.  All of the invariant is about a    *)
(* block and its neighbours, so no induction along the list is needed.     *)
(***************************************************************************)
EXTENDS Heap, TLAPS

\* A header, without bounds on its fields.
Record == [size : Nat, free : BOOLEAN, next : Int, prev : Int]

\* A list of headers has their types.
Headers(h) ==
    /\ DOMAIN h \subseteq Nat
    /\ h \in [DOMAIN h -> Record]
    /\ 0 \in DOMAIN h

\* A block ends where its successor begins, or at the end of the heap.
Forwards(h) ==
    \A b \in DOMAIN h :
        /\ h[b].size >= MinSize
        /\ \/ Follows(h, b) = HeapSize /\ h[b].next = Null
           \/ /\ Follows(h, b) \in DOMAIN h
              /\ h[b].next = Follows(h, b)
              /\ h[Follows(h, b)].prev = b

\* prev leads back to the block that this one is the successor of.
Backwards(h) ==
    \A b \in DOMAIN h :
        IF b = 0 THEN h[b].prev = Null
        ELSE h[b].prev \in DOMAIN h /\ h[h[b].prev].next = b

\* No block reaches past the heap or into another one, and every byte lies in some block.
Apart(h) ==
    \A b \in DOMAIN h :
        /\ Follows(h, b) <= HeapSize
        /\ \A c \in DOMAIN h : b < c => Follows(h, b) <= c

Covered(h) == \A x \in 0 .. HeapSize - 1 : \E b \in DOMAIN h : b <= x /\ x < Follows(h, b)

\* Free neighbours were merged when the second one was freed.
NoFreeNeighbours(h) ==
    \A b \in DOMAIN h : h[b].free /\ h[b].next # Null => ~h[h[b].next].free

\* A list on which all of this holds.
Sound(h) ==
    Headers(h) /\ Forwards(h) /\ Backwards(h) /\ Apart(h) /\ Covered(h)

\* The walk has passed over free blocks that were too small only.
WalkSound ==
    /\ scan \in [at : Int, want : Nat, asked : Nat]
    /\ scan # Idle =>
          /\ scan.at \in DOMAIN hdr
          /\ scan.asked \in Requests /\ scan.want = Rounded(scan.asked)
          /\ \A b \in DOMAIN hdr : b < scan.at /\ hdr[b].free => hdr[b].size < scan.want

IInv == Sound(hdr) /\ NoFreeNeighbours(hdr) /\ HeldIntact /\ WalkSound

-----------------------------------------------------------------------------
(* Sizes.                                                                  *)

\* A request is rounded up, never down, and never below the minimum.
LEMMA RoundedFacts ==
    ASSUME NEW n \in Nat
    PROVE  Rounded(n) \in Nat /\ Rounded(n) >= n /\ Rounded(n) >= MinSize
<1> DEFINE raised == IF n < MinSize THEN MinSize ELSE n
           up == raised + Align - 1
<1>1. MinSize \in Nat \ {0} /\ Align \in Nat \ {0}
  BY HeapConstants DEF HeapAssumption
<1>2. raised \in Nat /\ raised >= n /\ raised >= MinSize /\ up \in Nat
  BY <1>1
<1>3. up = Align * (up \div Align) + (up % Align) /\ up % Align \in 0 .. Align - 1
      /\ up \div Align \in Nat
  BY <1>1, <1>2
<1>4. Rounded(n) = (up \div Align) * Align
  BY DEF Rounded
<1> HIDE DEF raised, up
<1> QED BY <1>1, <1>2, <1>3, <1>4 DEF up

\* The heap has room for a first block, and offsets are numbers.
LEMMA Sizes ==
    /\ HeapSize \in Nat /\ HeaderSize \in Nat /\ HeaderSize > 0
    /\ MinSize \in Nat /\ MinSize > 0 /\ HeapSize > HeaderSize + MinSize
BY HeapConstants DEF HeapAssumption

\* Assignments to the fields of a header leave the other fields alone.
LEMMA PrevAssigned ==
    ASSUME NEW r \in Record, NEW p
    PROVE  [r EXCEPT !.prev = p] =
               [size |-> r.size, free |-> r.free, next |-> r.next, prev |-> p]
<1>1. r = [size |-> r.size, free |-> r.free, next |-> r.next, prev |-> r.prev]
  BY DEF Record
<1> QED BY <1>1

LEMMA SizeNextAssigned ==
    ASSUME NEW r \in Record, NEW s, NEW n
    PROVE  [r EXCEPT !.size = s, !.next = n] =
               [size |-> s, free |-> r.free, next |-> n, prev |-> r.prev]
<1>1. r = [size |-> r.size, free |-> r.free, next |-> r.next, prev |-> r.prev]
  BY DEF Record
<1>2. [r EXCEPT !.size = s] = [size |-> s, free |-> r.free, next |-> r.next, prev |-> r.prev]
  BY <1>1
<1>3. [[size |-> s, free |-> r.free, next |-> r.next, prev |-> r.prev] EXCEPT !.next = n] =
          [size |-> s, free |-> r.free, next |-> n, prev |-> r.prev]
  OBVIOUS
<1>4. [[r EXCEPT !.size = s] EXCEPT !.next = n] =
          [size |-> s, free |-> r.free, next |-> n, prev |-> r.prev]
  BY <1>2, <1>3, Zenon
<1> QED BY <1>4, Zenon

LEMMA FreeAssigned ==
    ASSUME NEW r \in Record, NEW f
    PROVE  [r EXCEPT !.free = f] =
               [size |-> r.size, free |-> f, next |-> r.next, prev |-> r.prev]
<1>1. r = [size |-> r.size, free |-> r.free, next |-> r.next, prev |-> r.prev]
  BY DEF Record
<1> QED BY <1>1

\* What a sound list says of one block.
LEMMA BlockFacts ==
    ASSUME NEW h, Sound(h), NEW b \in DOMAIN h
    PROVE  /\ b \in Nat /\ h[b].size \in Nat /\ h[b].free \in BOOLEAN
           /\ h[b].next \in Int /\ h[b].prev \in Int
           /\ Follows(h, b) \in Nat /\ Follows(h, b) > b
           /\ h[b].next # Null =>
                 /\ h[b].next = Follows(h, b) /\ h[b].next \in DOMAIN h
                 /\ h[h[b].next].prev = b
           /\ h[b].next = Null => Follows(h, b) = HeapSize
           /\ h[b].prev # Null =>
                 h[b].prev \in DOMAIN h /\ h[h[b].prev].next = b /\ b # 0
           /\ h[b].prev = Null => b = 0
           /\ Follows(h, b) = b + HeaderSize + h[b].size
<1>1. /\ b \in Nat /\ h[b] \in Record
      /\ DOMAIN h \subseteq Nat
  BY DEF Sound, Headers
<1>2. Follows(h, b) = b + HeaderSize + h[b].size
  BY DEF Follows
<1>3. Follows(h, b) \in Nat /\ Follows(h, b) > b
  BY <1>1, <1>2, Sizes DEF Record
<1>4. \/ Follows(h, b) = HeapSize /\ h[b].next = Null
      \/ /\ Follows(h, b) \in DOMAIN h /\ h[b].next = Follows(h, b)
         /\ h[Follows(h, b)].prev = b
  BY DEF Sound, Forwards
<1>5. IF b = 0 THEN h[b].prev = Null
      ELSE h[b].prev \in DOMAIN h /\ h[h[b].prev].next = b
  BY DEF Sound, Backwards
<1>6. Null \notin DOMAIN h
  BY <1>1 DEF Null
<1> QED BY <1>1, <1>2, <1>3, <1>4, <1>5, <1>6 DEF Null, Record

-----------------------------------------------------------------------------
(* heap_merge_next                                                         *)

\* m is what the merge of b with its free successor n leaves of h.
MergedInto(h, b, n, m) ==
    /\ n \in DOMAIN h /\ n # b /\ n # 0 /\ n = Follows(h, b)
    /\ DOMAIN m = DOMAIN h \ {n}
    /\ m[b] = [size |-> h[b].size + HeaderSize + h[n].size, free |-> h[b].free,
               next |-> h[n].next, prev |-> h[b].prev]
    /\ \A o \in DOMAIN m \ {b} :
          m[o] = [size |-> h[o].size, free |-> h[o].free, next |-> h[o].next,
                  prev |-> IF o = h[n].next THEN b ELSE h[o].prev]

LEMMA MergeFacts ==
    ASSUME NEW h, Sound(h), NEW b \in DOMAIN h, h[b].next # Null,
           h[h[b].next].free
    PROVE  MergedInto(h, b, h[b].next, heap_merge_next(h, b))
<1> DEFINE n == h[b].next
           m == heap_merge_next(h, b)
<1>1. n \in DOMAIN h /\ n # b /\ n # 0 /\ n = Follows(h, b)
  BY BlockFacts
<1>2. m = [o \in DOMAIN h \ {n} |->
             CASE o = b -> [h[b] EXCEPT !.size = @ + HeaderSize + h[n].size,
                                        !.next = h[n].next]
               [] o = h[n].next -> [h[o] EXCEPT !.prev = b]
               [] OTHER -> h[o]]
  BY <1>1, Zenon DEF heap_merge_next
<1>3. \A o \in DOMAIN h : h[o] \in Record
  BY DEF Sound, Headers
<1> HIDE DEF n, m
<1>4. DOMAIN m = DOMAIN h \ {n}
  BY <1>2, Zenon
<1>5. m[b] = [h[b] EXCEPT !.size = @ + HeaderSize + h[n].size, !.next = h[n].next]
  <2>1. b # h[n].next
    BY <1>1, BlockFacts DEF n, Null
  <2> QED BY <1>1, <1>2, <2>1, Zenon
<1>6. \A o \in DOMAIN m \ {b} :
         m[o] = IF o = h[n].next THEN [h[o] EXCEPT !.prev = b] ELSE h[o]
  BY <1>2, <1>4, Zenon
<1>7. m[b] = [size |-> h[b].size + HeaderSize + h[n].size, free |-> h[b].free,
              next |-> h[n].next, prev |-> h[b].prev]
  BY <1>3, <1>5, SizeNextAssigned, Zenon
<1>8. ASSUME NEW o \in DOMAIN m \ {b}
      PROVE  m[o] = [size |-> h[o].size, free |-> h[o].free, next |-> h[o].next,
                     prev |-> IF o = h[n].next THEN b ELSE h[o].prev]
  <2>1. h[o] \in Record
    BY <1>3, <1>4
  <2>2. CASE o = h[n].next
    <3>1. m[o] = [size |-> h[o].size, free |-> h[o].free, next |-> h[o].next, prev |-> b]
      BY <1>6, <2>1, <2>2, PrevAssigned, Zenon
    <3> QED BY <2>2, <3>1
  <2>3. CASE o # h[n].next
    <3>1. h[o] = [size |-> h[o].size, free |-> h[o].free, next |-> h[o].next, prev |-> h[o].prev]
      BY <2>1 DEF Record
    <3> QED BY <1>6, <2>3, <3>1
  <2> QED BY <2>2, <2>3
<1> QED BY <1>1, <1>4, <1>7, <1>8 DEF n, m, MergedInto

LEMMA MergeIsFunction ==
    ASSUME NEW h, Sound(h), NEW b \in DOMAIN h
    PROVE  heap_merge_next(h, b) =
               [o \in DOMAIN heap_merge_next(h, b) |-> heap_merge_next(h, b)[o]]
<1> DEFINE n == h[b].next
           block(o) == CASE o = b -> [h[b] EXCEPT !.size = @ + HeaderSize + h[n].size,
                                                  !.next = h[n].next]
                         [] o = h[n].next -> [h[o] EXCEPT !.prev = b]
                         [] OTHER -> h[o]
           merged == [o \in DOMAIN h \ {n} |-> block(o)]
<1>1. heap_merge_next(h, b) = merged \/ heap_merge_next(h, b) = h
  BY Zenon DEF heap_merge_next
<1>2. h = [o \in DOMAIN h |-> h[o]]
  BY DEF Sound, Headers
<1> HIDE DEF block, n
<1>3. merged = [o \in DOMAIN merged |-> merged[o]]
  OBVIOUS
<1> HIDE DEF merged
<1> QED BY <1>1, <1>2, <1>3, Zenon

\* Merging keeps the list sound: nothing is lost and nothing overlaps.
LEMMA MergeSound ==
    ASSUME NEW h, Sound(h), NEW b \in DOMAIN h, h[b].next # Null,
           h[h[b].next].free
    PROVE  Sound(heap_merge_next(h, b))
<1> DEFINE n == h[b].next
           m == heap_merge_next(h, b)
<1>1. MergedInto(h, b, n, m)
  BY MergeFacts
<1> USE DEF MergedInto
<1> HIDE DEF n, m
<1>2. \A o \in DOMAIN h :
         /\ o \in Nat /\ h[o].size \in Nat /\ h[o].free \in BOOLEAN
         /\ h[o].next \in Int /\ h[o].prev \in Int
         /\ Follows(h, o) \in Nat /\ Follows(h, o) > o
         /\ Follows(h, o) = o + HeaderSize + h[o].size
  BY BlockFacts
<1>3. Headers(m)
  <2>1. 0 \in DOMAIN m /\ DOMAIN m \subseteq Nat
    BY <1>1, <1>2 DEF Sound, Headers
  <2>2. ASSUME NEW o \in DOMAIN m
        PROVE  m[o] \in Record
    BY <1>1, <1>2, Sizes DEF Record
  <2>3. m = [o \in DOMAIN m |-> m[o]]
    BY <1>1, MergeIsFunction DEF m
  <2> QED BY <2>1, <2>2, <2>3 DEF Headers
<1>4. /\ Follows(m, b) = Follows(h, n) /\ b \in DOMAIN m
      /\ \A o \in DOMAIN m \ {b} : Follows(m, o) = Follows(h, o)
  <2>1. b \in DOMAIN m
    BY <1>1
  <2>2. Follows(m, b) = b + HeaderSize + (h[b].size + HeaderSize + h[n].size)
    BY <1>1 DEF Follows
  <2>3. Follows(m, b) = Follows(h, n)
    BY <1>1, <1>2, <2>2, Sizes
  <2>4. \A o \in DOMAIN m \ {b} : Follows(m, o) = Follows(h, o)
    BY <1>1 DEF Follows
  <2> QED BY <2>1, <2>3, <2>4
<1>5. Apart(m)
  BY <1>1, <1>2, <1>4 DEF Sound, Apart
<1>6. Covered(m)
  <2> SUFFICES ASSUME NEW x \in 0 .. HeapSize - 1
               PROVE  \E c \in DOMAIN m : c <= x /\ x < Follows(m, c)
    BY DEF Covered
  <2>1. PICK c \in DOMAIN h : c <= x /\ x < Follows(h, c)
    BY DEF Sound, Covered
  <2>2. CASE c = n \/ c = b
    BY <1>1, <1>2, <1>4, <2>1, <2>2, Sizes
  <2>3. CASE c # n /\ c # b
    BY <1>1, <1>4, <2>1, <2>3
  <2> QED BY <2>2, <2>3
<1>7. \A o \in DOMAIN h : h[o].next = n => o = b
  BY <1>1, BlockFacts DEF n, Null
<1>8. Forwards(m)
  <2> SUFFICES ASSUME NEW o \in DOMAIN m
               PROVE  /\ m[o].size >= MinSize
                      /\ \/ Follows(m, o) = HeapSize /\ m[o].next = Null
                         \/ /\ Follows(m, o) \in DOMAIN m
                            /\ m[o].next = Follows(m, o)
                            /\ m[Follows(m, o)].prev = o
    BY DEF Forwards
  <2>1. \A c \in DOMAIN h :
          /\ h[c].size >= MinSize
          /\ \/ Follows(h, c) = HeapSize /\ h[c].next = Null
             \/ /\ Follows(h, c) \in DOMAIN h
                /\ h[c].next = Follows(h, c)
                /\ h[Follows(h, c)].prev = c
    BY DEF Sound, Forwards
  <2>2. CASE o = b
    <3>1. m[o].size >= MinSize
      BY <1>1, <1>2, <2>1, <2>2, Sizes
    <3>2. CASE h[n].next = Null
      BY <1>1, <1>4, <2>1, <2>2, <3>1, <3>2, BlockFacts
    <3>3. CASE h[n].next # Null
      <4>1. /\ Follows(h, n) \in DOMAIN h /\ h[n].next = Follows(h, n)
            /\ Follows(h, n) # n /\ Follows(h, n) # b
        BY <1>1, <1>2, <2>1, <3>3
      <4>2. Follows(h, n) \in DOMAIN m \ {b}
        BY <1>1, <4>1
      <4>3. m[Follows(h, n)].prev = b
        BY <1>1, <4>1, <4>2
      <4> QED BY <1>1, <1>4, <2>2, <3>1, <4>1, <4>2, <4>3
    <3> QED BY <3>2, <3>3
  <2>3. CASE o # b
    <3>1. o \in DOMAIN h /\ o # n /\ o \in DOMAIN m \ {b}
      BY <1>1, <2>3
    <3>2. m[o].size >= MinSize /\ m[o].next = h[o].next /\ Follows(m, o) = Follows(h, o)
      BY <1>1, <1>4, <2>1, <3>1
    <3>3. CASE h[o].next = Null
      BY <2>1, <3>1, <3>2, <3>3, BlockFacts
    <3>4. CASE h[o].next # Null
      <4>1. /\ Follows(h, o) \in DOMAIN h /\ h[o].next = Follows(h, o)
            /\ h[Follows(h, o)].prev = o
        BY <2>1, <3>1, <3>4
      <4>2. Follows(h, o) # n /\ Follows(h, o) # h[n].next
        BY <1>1, <1>7, <2>1, <3>1, <3>4, <4>1
      <4>3. m[Follows(h, o)].prev = o /\ Follows(h, o) \in DOMAIN m
        BY <1>1, <4>1, <4>2
      <4> QED BY <3>2, <4>1, <4>3
    <3> QED BY <3>3, <3>4
  <2> QED BY <2>2, <2>3
<1>9. Backwards(m)
  <2> SUFFICES ASSUME NEW o \in DOMAIN m
               PROVE  IF o = 0 THEN m[o].prev = Null
                      ELSE m[o].prev \in DOMAIN m /\ m[m[o].prev].next = o
    BY DEF Backwards
  <2>1. \A c \in DOMAIN h : IF c = 0 THEN h[c].prev = Null
                           ELSE h[c].prev \in DOMAIN h /\ h[h[c].prev].next = c
    BY DEF Sound, Backwards
  <2>2. o \in DOMAIN h /\ o # n
    BY <1>1
  <2>3. CASE o = h[n].next
    <3>1. o # b /\ o # 0 /\ o # Null
      BY <1>1, <1>2, <2>2, <2>3, BlockFacts DEF Null
    <3> QED BY <1>1, <1>4, <2>3, <3>1
  <2>4. CASE o # h[n].next /\ o = 0
    BY <1>1, <2>1, <2>2, <2>4
  <2>5. CASE o # h[n].next /\ o # 0
    <3>1. h[o].prev \in DOMAIN h /\ h[h[o].prev].next = o
      BY <2>1, <2>2, <2>5
    <3>2. m[o].prev = h[o].prev
      BY <1>1, <2>5
    <3>3. h[o].prev # n /\ h[o].prev # b
      BY <1>1, <2>2, <2>5, <3>1 DEF n
    <3> QED BY <1>1, <2>5, <3>1, <3>2, <3>3
  <2> QED BY <2>3, <2>4, <2>5
<1> QED BY <1>3, <1>5, <1>6, <1>8, <1>9 DEF Sound, m

\* The blocks in use.
Used(h) == {o \in DOMAIN h : ~h[o].free}

\* Two lists have the same blocks in use, of the same sizes.
SameUse(h, m) == Used(m) = Used(h) /\ \A o \in Used(h) : m[o].size = h[o].size

\* Merging into a free block touches no block in use.
LEMMA MergeKeepsUsed ==
    ASSUME NEW h, Sound(h), NEW b \in DOMAIN h, h[b].next # Null,
           h[h[b].next].free
    PROVE  h[b].free => SameUse(h, heap_merge_next(h, b))
<1> DEFINE n == h[b].next
           m == heap_merge_next(h, b)
<1>1. MergedInto(h, b, n, m)
  BY MergeFacts
<1> USE DEF MergedInto
<1> HAVE h[b].free
<1>2. h[n].free /\ b \in DOMAIN m
  BY <1>1
<1> HIDE DEF n, m
<1>3. m[b].free = h[b].free
  BY <1>1
<1>4. \A o \in DOMAIN m \ {b} : m[o].free = h[o].free /\ m[o].size = h[o].size
  BY <1>1
<1>5. Used(m) = Used(h)
  BY <1>1, <1>2, <1>3, <1>4 DEF Used
<1>6. ASSUME NEW o \in Used(h) PROVE m[o].size = h[o].size
  <2>1. o \in DOMAIN m \ {b}
    BY <1>1, <1>2, <1>6 DEF Used
  <2> QED BY <1>4, <2>1
<1> QED BY <1>5, <1>6 DEF SameUse, m

-----------------------------------------------------------------------------
(* The free flag.                                                          *)

\* Whether a block is free does not matter to the shape of the list.
LEMMA FlagSound ==
    ASSUME NEW h, Sound(h), NEW b \in DOMAIN h, NEW f \in BOOLEAN
    PROVE  LET g == [h EXCEPT ![b].free = f]
           IN  /\ Sound(g) /\ DOMAIN g = DOMAIN h
               /\ g[b].free = f
               /\ \A o \in DOMAIN h :
                     /\ g[o].size = h[o].size /\ g[o].next = h[o].next
                     /\ g[o].prev = h[o].prev /\ (o # b => g[o].free = h[o].free)
<1> DEFINE g == [h EXCEPT ![b].free = f]
<1>1. \A o \in DOMAIN h : h[o] \in Record
  BY DEF Sound, Headers
<1>2. DOMAIN g = DOMAIN h /\ \A o \in DOMAIN h : o # b => g[o] = h[o]
  BY Zenon
<1>3. g[b] = [size |-> h[b].size, free |-> f, next |-> h[b].next, prev |-> h[b].prev]
  <2>1. g[b] = [h[b] EXCEPT !.free = f]
    BY Zenon
  <2> QED BY <1>1, <2>1, FreeAssigned, Zenon
<1>4. g = [o \in DOMAIN g |-> g[o]]
  <2>1. h = [o \in DOMAIN h |-> h[o]]
    BY DEF Sound, Headers
  <2> DEFINE c == [h[b] EXCEPT !.free = f]
  <2>2. g = [h EXCEPT ![b] = c]
    BY Zenon
  <2> HIDE DEF c
  <2> QED BY <2>1, <2>2
<1> HIDE DEF g
<1>5. /\ g[b].free = f
      /\ \A o \in DOMAIN h :
            /\ g[o].size = h[o].size /\ g[o].next = h[o].next
            /\ g[o].prev = h[o].prev /\ (o # b => g[o].free = h[o].free)
  BY <1>2, <1>3
<1>6. \A o \in DOMAIN h : Follows(g, o) = Follows(h, o)
  BY <1>5 DEF Follows
<1>7. \A o \in DOMAIN g : g[o] \in Record
  BY <1>1, <1>2, <1>3 DEF Record
<1>8. Headers(g)
  BY <1>2, <1>4, <1>7 DEF Headers, Sound
<1>9. Forwards(g)
  BY <1>2, <1>5, <1>6 DEF Forwards, Sound
<1>10. Backwards(g)
  BY <1>2, <1>5 DEF Backwards, Sound
<1>11. Apart(g) /\ Covered(g)
  BY <1>2, <1>6 DEF Apart, Covered, Sound
<1> QED BY <1>2, <1>5, <1>8, <1>9, <1>10, <1>11 DEF Sound, g

-----------------------------------------------------------------------------
(* Split                                                                   *)

\* m is what the split of b leaves of h, with the tail at n.
SplitInto(h, b, want, n, m) ==
    /\ n \in Nat /\ n \notin DOMAIN h /\ n > b
    /\ DOMAIN m = DOMAIN h \cup {n}
    /\ m = [o \in DOMAIN m |-> m[o]]
    /\ m[b] = [size |-> want, free |-> h[b].free, next |-> n, prev |-> h[b].prev]
    /\ m[n] = [size |-> h[b].size - want - HeaderSize, free |-> TRUE,
               next |-> h[b].next, prev |-> b]
    /\ \A o \in DOMAIN h \ {b} :
          m[o] = [size |-> h[o].size, free |-> h[o].free, next |-> h[o].next,
                  prev |-> IF o = h[b].next THEN n ELSE h[o].prev]

LEMMA SplitFacts ==
    ASSUME NEW h, Sound(h), NEW b \in DOMAIN h, NEW want \in Nat, want >= MinSize,
           h[b].size > want + HeaderSize + MinSize
    PROVE  SplitInto(h, b, want, b + HeaderSize + want, Split(h, b, want))
<1> DEFINE n == b + HeaderSize + want
           m == Split(h, b, want)
           block(o) == CASE o = b -> [h[b] EXCEPT !.size = want, !.next = n]
                         [] o = n -> [size |-> h[b].size - want - HeaderSize, free |-> TRUE,
                                      next |-> h[b].next, prev |-> b]
                         [] o = h[b].next -> [h[o] EXCEPT !.prev = n]
                         [] OTHER -> h[o]
<1>1. /\ b \in Nat /\ h[b].size \in Nat /\ Follows(h, b) = b + HeaderSize + h[b].size
      /\ h[b].next = Null \/ h[b].next = Follows(h, b)
  BY BlockFacts
<1>2. n \in Nat /\ n > b /\ n < Follows(h, b)
  BY <1>1, Sizes
<1>3. n \notin DOMAIN h
  <2>1. \A c \in DOMAIN h : b < c => Follows(h, b) <= c
    BY DEF Sound, Apart
  <2> HIDE DEF n
  <2> QED BY <1>1, <1>2, <2>1, Sizes
<1>4. m = [o \in DOMAIN h \cup {n} |-> block(o)]
  BY Zenon DEF Split
<1>5. n # h[b].next /\ b # h[b].next /\ b # n
  BY <1>1, <1>2 DEF Null
<1>6. \A o \in DOMAIN h : h[o] \in Record
  BY DEF Sound, Headers
<1> HIDE DEF m, n
<1>7. block(b) = [h[b] EXCEPT !.size = want, !.next = n]
  BY <1>5, Zenon
<1>8. block(n) = [size |-> h[b].size - want - HeaderSize, free |-> TRUE,
                  next |-> h[b].next, prev |-> b]
  BY <1>5, Zenon
<1>9. \A o \in DOMAIN h \ {b} :
        block(o) = IF o = h[b].next THEN [h[o] EXCEPT !.prev = n] ELSE h[o]
  BY <1>3, Zenon
<1> HIDE DEF block
<1>10. DOMAIN m = DOMAIN h \cup {n} /\ m = [o \in DOMAIN m |-> m[o]]
  BY <1>4
<1>11. m[b] = [size |-> want, free |-> h[b].free, next |-> n, prev |-> h[b].prev]
  BY <1>4, <1>6, <1>7, SizeNextAssigned, Zenon
<1>12. m[n] = [size |-> h[b].size - want - HeaderSize, free |-> TRUE,
               next |-> h[b].next, prev |-> b]
  BY <1>4, <1>8, Zenon
<1>13. ASSUME NEW o \in DOMAIN h \ {b}
       PROVE  m[o] = [size |-> h[o].size, free |-> h[o].free, next |-> h[o].next,
                      prev |-> IF o = h[b].next THEN n ELSE h[o].prev]
  <2>1. h[o] \in Record /\ m[o] = block(o)
    BY <1>4, <1>6
  <2>2. CASE o = h[b].next
    <3>1. m[o] = [size |-> h[o].size, free |-> h[o].free, next |-> h[o].next, prev |-> n]
      BY <1>9, <2>1, <2>2, PrevAssigned, Zenon
    <3> QED BY <2>2, <3>1
  <2>3. CASE o # h[b].next
    <3>1. h[o] = [size |-> h[o].size, free |-> h[o].free, next |-> h[o].next, prev |-> h[o].prev]
      BY <2>1 DEF Record
    <3>2. m[o] = h[o]
      BY <1>9, <2>1, <2>3, Zenon
    <3> QED BY <2>3, <3>1, <3>2
  <2> QED BY <2>2, <2>3
<1> QED BY <1>2, <1>3, <1>10, <1>11, <1>12, <1>13 DEF n, m, SplitInto

\* Splitting keeps the list sound: the tail is linked in behind the block.
LEMMA SplitSound ==
    ASSUME NEW h, Sound(h), NEW b \in DOMAIN h, NEW want \in Nat, want >= MinSize,
           h[b].size > want + HeaderSize + MinSize
    PROVE  Sound(Split(h, b, want))
<1> DEFINE n == b + HeaderSize + want
           m == Split(h, b, want)
<1>0. n = b + HeaderSize + want /\ m = Split(h, b, want)
  OBVIOUS
<1>1. SplitInto(h, b, want, n, m)
  BY SplitFacts
<1> USE DEF SplitInto
<1> HIDE DEF n, m
<1>2. \A o \in DOMAIN h :
         /\ o \in Nat /\ h[o].size \in Nat /\ h[o].free \in BOOLEAN
         /\ h[o].next \in Int /\ h[o].prev \in Int
         /\ Follows(h, o) \in Nat /\ Follows(h, o) > o
         /\ Follows(h, o) = o + HeaderSize + h[o].size
  BY BlockFacts
<1>3. /\ Follows(m, b) = n /\ Follows(m, n) = Follows(h, b)
      /\ \A o \in DOMAIN h \ {b} : Follows(m, o) = Follows(h, o)
  <2>1. Follows(m, b) = b + HeaderSize + want
    BY <1>1 DEF Follows
  <2>2. Follows(m, n) = n + HeaderSize + (h[b].size - want - HeaderSize)
    BY <1>1 DEF Follows
  <2>3. \A o \in DOMAIN h \ {b} : Follows(m, o) = Follows(h, o)
    BY <1>1 DEF Follows
  <2> QED BY <1>0, <1>1, <1>2, <2>1, <2>2, <2>3, Sizes
<1>4. Headers(m)
  <2>1. 0 \in DOMAIN m /\ DOMAIN m \subseteq Nat
    BY <1>1, <1>2 DEF Sound, Headers
  <2>2. ASSUME NEW o \in DOMAIN m
        PROVE  m[o] \in Record
    <3>1. h[b].size - want - HeaderSize \in Nat
      BY <1>2, Sizes
    <3>2. n \in Int /\ b \in Int
      BY <1>1, <1>2
    <3>3. CASE o = n
      <4>1. m[o] = [size |-> h[b].size - want - HeaderSize, free |-> TRUE,
                    next |-> h[b].next, prev |-> b]
        BY <1>1, <3>3
      <4> QED BY <1>2, <3>1, <3>2, <4>1 DEF Record
    <3>4. CASE o = b
      BY <1>1, <1>2, <3>2, <3>4 DEF Record
    <3>5. CASE o # n /\ o # b
      BY <1>1, <1>2, <3>2, <3>5 DEF Record
    <3> QED BY <3>3, <3>4, <3>5
  <2> QED BY <1>1, <2>1, <2>2 DEF Headers
<1>5. \A c, d \in DOMAIN h : c < d => Follows(h, c) <= d
  BY DEF Sound, Apart
<1>6. n < Follows(h, b)
  BY <1>0, <1>2, Sizes
<1>7. Apart(m)
  <2>0. ASSUME NEW c \in DOMAIN m PROVE Follows(m, c) <= HeapSize
    <3>1. \A o \in DOMAIN h : Follows(h, o) <= HeapSize
      BY DEF Sound, Apart
    <3>2. c = n \/ c = b \/ c \in DOMAIN h \ {b}
      BY <1>1
    <3> QED BY <1>1, <1>2, <1>3, <1>6, <3>1, <3>2, Sizes
  <2> SUFFICES ASSUME NEW c \in DOMAIN m, NEW d \in DOMAIN m, c < d
               PROVE  Follows(m, c) <= d
    BY <2>0 DEF Apart
  <2>1. CASE c = n
    <3>1. d \in DOMAIN h /\ b < d
      BY <1>1, <1>2, <2>1
    <3> QED BY <1>3, <1>5, <2>1, <3>1
  <2>2. CASE c = b
    <3>1. d = n \/ (d \in DOMAIN h /\ Follows(h, b) <= d)
      BY <1>1, <1>5, <2>2
    <3>2. d \in Nat
      BY <1>1, <1>2
    <3> QED BY <1>1, <1>2, <1>3, <1>6, <2>2, <3>1, <3>2
  <2>3. CASE c # n /\ c # b
    <3>1. c \in DOMAIN h \ {b} /\ Follows(m, c) = Follows(h, c)
      BY <1>1, <1>3, <2>3
    <3>2. CASE d \in DOMAIN h
      BY <1>5, <3>1, <3>2
    <3>3. CASE d = n
      <4>1. c < b
        <5>1. ~(b < c)
          BY <1>1, <1>2, <1>5, <1>6, <3>1, <3>3
        <5> QED BY <1>2, <3>1, <5>1
      <4> QED BY <1>1, <1>2, <1>5, <3>1, <3>3, <4>1
    <3> QED BY <1>1, <3>2, <3>3
  <2> QED BY <2>1, <2>2, <2>3
<1>8. Covered(m)
  <2> SUFFICES ASSUME NEW x \in 0 .. HeapSize - 1
               PROVE  \E c \in DOMAIN m : c <= x /\ x < Follows(m, c)
    BY DEF Covered
  <2>1. PICK c \in DOMAIN h : c <= x /\ x < Follows(h, c)
    BY DEF Sound, Covered
  <2>2. CASE c = b
    <3>1. CASE x < n
      BY <1>1, <1>3, <2>1, <2>2, <3>1
    <3>2. CASE n <= x
      BY <1>1, <1>3, <2>1, <2>2, <3>2
    <3> QED BY <1>1, <3>1, <3>2, Sizes
  <2>3. CASE c # b
    BY <1>1, <1>3, <2>1, <2>3
  <2> QED BY <2>2, <2>3
<1>9. \A c \in DOMAIN h :
        /\ h[c].size >= MinSize
        /\ \/ Follows(h, c) = HeapSize /\ h[c].next = Null
           \/ /\ Follows(h, c) \in DOMAIN h
              /\ h[c].next = Follows(h, c)
              /\ h[Follows(h, c)].prev = c
  BY DEF Sound, Forwards
<1>10. Forwards(m)
  <2> SUFFICES ASSUME NEW o \in DOMAIN m
               PROVE  /\ m[o].size >= MinSize
                      /\ \/ Follows(m, o) = HeapSize /\ m[o].next = Null
                         \/ /\ Follows(m, o) \in DOMAIN m
                            /\ m[o].next = Follows(m, o)
                            /\ m[Follows(m, o)].prev = o
    BY DEF Forwards
  <2>1. CASE o = b
    BY <1>1, <1>3, <2>1
  <2>2. CASE o = n
    <3>1. m[o].size >= MinSize /\ m[o].next = h[b].next /\ Follows(m, o) = Follows(h, b)
      BY <1>1, <1>2, <1>3, <2>2, Sizes
    <3>2. CASE h[b].next = Null
      BY <1>9, <3>1, <3>2, BlockFacts
    <3>3. CASE h[b].next # Null
      <4>1. /\ Follows(h, b) \in DOMAIN h /\ h[b].next = Follows(h, b) /\ Follows(h, b) # b
        BY <1>2, <1>9, <3>3
      <4>2. m[Follows(h, b)].prev = n /\ Follows(h, b) \in DOMAIN m
        BY <1>1, <4>1
      <4> QED BY <2>2, <3>1, <4>1, <4>2
    <3> QED BY <3>2, <3>3
  <2>3. CASE o # b /\ o # n
    <3>1. o \in DOMAIN h \ {b}
      BY <1>1, <2>3
    <3>2. m[o].size >= MinSize /\ m[o].next = h[o].next /\ Follows(m, o) = Follows(h, o)
      BY <1>1, <1>3, <1>9, <3>1
    <3>3. CASE h[o].next = Null
      BY <1>9, <3>1, <3>2, <3>3, BlockFacts
    <3>4. CASE h[o].next # Null
      <4>1. /\ Follows(h, o) \in DOMAIN h /\ h[o].next = Follows(h, o)
            /\ h[Follows(h, o)].prev = o
        BY <1>9, <3>1, <3>4
      <4>2. Follows(h, o) # h[b].next
        BY <1>9, <3>1, <3>4, <4>1, BlockFacts
      <4>3. h[Follows(h, o)].prev = o /\ Follows(h, o) \in DOMAIN m
        BY <1>1, <4>1
      <4>4. m[Follows(h, o)].prev = o
        BY <1>1, <4>1, <4>2
      <4> QED BY <3>2, <4>1, <4>3, <4>4
    <3> QED BY <3>3, <3>4
  <2> QED BY <2>1, <2>2, <2>3
<1>11. Backwards(m)
  <2> SUFFICES ASSUME NEW o \in DOMAIN m
               PROVE  IF o = 0 THEN m[o].prev = Null
                      ELSE m[o].prev \in DOMAIN m /\ m[m[o].prev].next = o
    BY DEF Backwards
  <2>1. \A c \in DOMAIN h : IF c = 0 THEN h[c].prev = Null
                           ELSE h[c].prev \in DOMAIN h /\ h[h[c].prev].next = c
    BY DEF Sound, Backwards
  <2>2. b # n /\ n # 0
    BY <1>1, <1>2
  <2>3. CASE o = n
    BY <1>1, <2>2, <2>3
  <2>4. CASE o = h[b].next /\ o # n
    <3>1. o # b /\ o # 0 /\ o \in DOMAIN h
      BY <1>1, <1>2, <2>4, BlockFacts DEF Null
    <3> QED BY <1>1, <2>2, <2>4, <3>1
  <2>5. CASE o # h[b].next /\ o # n
    <3>1. o \in DOMAIN h /\ m[o].prev = h[o].prev
      BY <1>1, <2>5
    <3>2. CASE o = 0
      BY <2>1, <3>1, <3>2
    <3>3. CASE o # 0
      <4>1. h[o].prev \in DOMAIN h /\ h[h[o].prev].next = o
        BY <2>1, <3>1, <3>3
      <4>2. h[o].prev # b
        BY <2>5, <4>1
      <4> QED BY <1>1, <3>1, <3>3, <4>1, <4>2
    <3> QED BY <3>2, <3>3
  <2> QED BY <2>3, <2>4, <2>5
<1> QED BY <1>4, <1>7, <1>8, <1>10, <1>11 DEF Sound, m

-----------------------------------------------------------------------------
(* The merges of kfree.                                                    *)

\* Free neighbours occur at b only.
Almost(h, b) ==
    \A o \in DOMAIN h \ {b} :
        h[o].free /\ h[o].next # Null /\ h[o].next # b => ~h[h[o].next].free

\* Merging into b leaves no free block behind b, and changes nothing before
\* b: a successor that is swallowed was followed by a block in use.
LEMMA MergeStep ==
    ASSUME NEW h, Sound(h), NEW b \in DOMAIN h, Almost(h, b),
           NEW m, m = heap_merge_next(h, b)
    PROVE  h[b].free =>
              /\ Sound(m) /\ SameUse(h, m)
              /\ b \in DOMAIN m /\ m[b].free /\ m[b].prev = h[b].prev
              /\ DOMAIN m \subseteq DOMAIN h
              /\ m[b].next # Null => ~m[m[b].next].free
              /\ \A o \in DOMAIN m \ {b} : m[o].free = h[o].free /\ m[o].next = h[o].next
              /\ Almost(m, b)
<1> DEFINE n == h[b].next
<1>1. CASE n # Null /\ h[n].free
  <2>1. MergedInto(h, b, n, m)
    BY <1>1, MergeFacts
  <2> USE DEF MergedInto
  <2>2. Sound(m)
    BY <1>1, MergeSound
  <2>3. h[b].free => SameUse(h, m)
    BY <1>1, MergeKeepsUsed
  <2> HAVE h[b].free
  <2>4. \A o \in DOMAIN h : h[o].next # Null =>
           /\ h[o].next \in DOMAIN h /\ h[h[o].next].prev = o
           /\ h[o].next > o /\ h[o].next \in Nat /\ o \in Nat
    BY BlockFacts
  <2>5. b \in DOMAIN m /\ m[b].free = h[b].free /\ m[b].prev = h[b].prev
        /\ m[b].next = h[n].next
    BY <2>1
  <2>6. \A o \in DOMAIN m \ {b} : m[o].free = h[o].free /\ m[o].next = h[o].next
    BY <2>1
  <2> HIDE DEF n
  <2>7. m[b].next # Null => ~m[m[b].next].free
    <3> HAVE m[b].next # Null
    <3>1. h[n].next # Null /\ n \in DOMAIN h \ {b}
      BY <2>1, <2>5
    <3>2. h[n].next \in DOMAIN h /\ h[n].next # b /\ h[n].next # n
      BY <2>1, <2>4, <3>1, BlockFacts
    <3>3. ~h[h[n].next].free
      BY <1>1, <3>1, <3>2 DEF Almost
    <3> QED BY <2>1, <2>5, <2>6, <3>2, <3>3
  <2>8. Almost(m, b)
    <3> SUFFICES ASSUME NEW o \in DOMAIN m \ {b}, m[o].next # Null, m[o].next # b
                 PROVE  m[o].free => ~m[m[o].next].free
      BY DEF Almost
    <3>1. o \in DOMAIN h \ {b} /\ h[o].next = m[o].next /\ m[o].free = h[o].free
      BY <2>1, <2>6
    <3>2. h[o].next \in DOMAIN h /\ h[o].next # n
      BY <2>1, <2>4, <3>1 DEF n
    <3>3. m[m[o].next].free = h[h[o].next].free
      BY <2>1, <2>6, <3>1, <3>2
    <3> QED BY <3>1, <3>3 DEF Almost
  <2> QED BY <2>1, <2>2, <2>3, <2>5, <2>6, <2>7, <2>8
<1>2. CASE ~(n # Null /\ h[n].free)
  <2>1. m = h
    BY <1>2, Zenon DEF heap_merge_next
  <2> QED BY <1>2, <2>1 DEF SameUse
<1> QED BY <1>1, <1>2

-----------------------------------------------------------------------------
(* The walk of kmalloc.                                                    *)

\* With free neighbours merged by kfree, the merge of the walk finds nothing
\* to do.
LEMMA NothingToMerge ==
    ASSUME IInv, scan # Idle
    PROVE  Merged = hdr /\ scan.at \in DOMAIN hdr
<1>1. scan.at \in DOMAIN hdr
  BY DEF IInv, WalkSound
<1>2. hdr[scan.at].free =>
         ~(hdr[scan.at].next # Null /\ hdr[hdr[scan.at].next].free)
  BY <1>1 DEF IInv, NoFreeNeighbours
<1>3. hdr[scan.at].free => heap_merge_next(hdr, scan.at) = hdr
  BY <1>2, Zenon DEF heap_merge_next
<1> QED BY <1>1, <1>3, Zenon DEF Merged

LEMMA InitIInv == Init => IInv
<1> SUFFICES ASSUME Init PROVE IInv
  OBVIOUS
<1> DEFINE first == [size |-> HeapSize - HeaderSize, free |-> TRUE, next |-> Null, prev |-> Null]
<1>1. hdr = [b \in {0} |-> first] /\ scan = Idle /\ held = {}
  BY Zenon DEF Init
<1>2. first \in Record /\ first.size = HeapSize - HeaderSize /\ first.free
      /\ first.next = Null /\ first.prev = Null
  BY Sizes DEF Record, Null
<1> HIDE DEF first
<1>3. DOMAIN hdr = {0} /\ hdr[0] = first
  BY <1>1
<1>4. Headers(hdr)
  BY <1>1, <1>2 DEF Headers
<1>5. Follows(hdr, 0) = HeapSize
  BY <1>2, <1>3, Sizes DEF Follows
<1>6. Forwards(hdr)
  BY <1>2, <1>3, <1>5, Sizes DEF Forwards
<1>7. Backwards(hdr)
  BY <1>2, <1>3 DEF Backwards
<1>8. Apart(hdr) /\ Covered(hdr)
  BY <1>3, <1>5, Sizes DEF Apart, Covered
<1>9. NoFreeNeighbours(hdr)
  BY <1>2, <1>3 DEF NoFreeNeighbours
<1>10. HeldIntact
  BY <1>1, <1>2, <1>3 DEF HeldIntact
<1>11. WalkSound
  BY <1>1 DEF WalkSound, Idle, Null
<1> QED BY <1>4, <1>6, <1>7, <1>8, <1>9, <1>10, <1>11 DEF IInv, Sound

\* What the invariant says after the steps that leave headers and clients
\* alone.
LEMMA HeapUntouched ==
    ASSUME IInv, UNCHANGED <<hdr, held>>
    PROVE  Sound(hdr)' /\ NoFreeNeighbours(hdr)' /\ HeldIntact'
<1>1. hdr' = hdr /\ held' = held
  OBVIOUS
<1>2. Sound(hdr)' /\ NoFreeNeighbours(hdr)'
  BY <1>1 DEF IInv, Sound, Headers, Forwards, Backwards, Apart, Covered, Follows, NoFreeNeighbours
<1>3. HeldIntact'
  BY <1>1 DEF IInv, HeldIntact
<1> QED BY <1>2, <1>3

LEMMA StartKeeps ==
    ASSUME IInv, NEW n \in Requests, kmalloc(n)
    PROVE  IInv'
<1>1. n \in Nat
  BY HeapConstants DEF HeapAssumption
<1>2. scan' = [at |-> 0, want |-> Rounded(n), asked |-> n] /\ UNCHANGED <<hdr, held>>
  BY DEF kmalloc
<1>3. Rounded(n) \in Nat
  BY <1>1, RoundedFacts
<1>4. 0 \in DOMAIN hdr /\ DOMAIN hdr \subseteq Nat
  BY DEF IInv, Sound, Headers
<1>5. WalkSound'
  <2>1. scan'.at = 0 /\ scan'.want = Rounded(n) /\ scan'.asked = n
    BY <1>2
  <2>2. scan' \in [at : Int, want : Nat, asked : Nat]
    BY <1>1, <1>2, <1>3
  <2>3. \A b \in DOMAIN hdr : ~(b < 0)
    BY <1>4
  <2> QED BY <1>2, <1>4, <2>1, <2>2, <2>3 DEF WalkSound
<1> QED BY <1>2, <1>5, HeapUntouched DEF IInv

LEMMA MoveOnKeeps ==
    ASSUME IInv, kmalloc_moves_on
    PROVE  IInv'
<1>1. Merged = hdr /\ scan.at \in DOMAIN hdr /\ scan # Idle
  BY NothingToMerge DEF kmalloc_moves_on
<1> DEFINE at == scan.at
           next == hdr[scan.at].next
<1>2. /\ ~Fits(hdr) /\ next # Null
      /\ scan' = [scan EXCEPT !.at = next] /\ hdr' = hdr /\ held' = held
  BY <1>1 DEF kmalloc_moves_on
<1>3. scan' = [at |-> next, want |-> scan.want, asked |-> scan.asked]
  <2>1. scan = [at |-> scan.at, want |-> scan.want, asked |-> scan.asked]
    BY DEF IInv, WalkSound
  <2> HIDE DEF next
  <2> QED BY <1>2, <2>1
<1>4. at \in Nat /\ next = Follows(hdr, at) /\ next \in DOMAIN hdr /\ next \in Nat
  BY <1>1, <1>2, BlockFacts DEF IInv
<1>5. \A b \in DOMAIN hdr : b < next => b <= at
  BY <1>1, <1>4 DEF IInv, Sound, Apart, Headers
<1> HIDE DEF at, next
<1>6. ASSUME NEW b \in DOMAIN hdr, b < next, hdr[b].free
      PROVE  hdr[b].size < scan.want
  <2>1. CASE b = at
    <3>1. ~(hdr[b].size >= scan.want)
      BY <1>2, <1>6, <2>1 DEF Fits, at
    <3>2. hdr[b].size \in Nat /\ scan.want \in Nat
      BY BlockFacts DEF IInv, WalkSound
    <3> QED BY <3>1, <3>2
  <2>2. CASE b < at
    BY <1>1, <1>6, <2>2 DEF IInv, WalkSound, at
  <2>3. b \in Nat /\ b <= at
    BY <1>5, <1>6 DEF IInv, Sound, Headers
  <2> QED BY <1>4, <2>1, <2>2, <2>3
<1>7. WalkSound'
  <2>1. scan'.at = next /\ scan'.want = scan.want /\ scan'.asked = scan.asked
    BY <1>3
  <2>2. scan' \in [at : Int, want : Nat, asked : Nat]
    BY <1>3, <1>4 DEF IInv, WalkSound
  <2>3. scan.asked \in Requests /\ scan.want = Rounded(scan.asked)
    BY <1>1 DEF IInv, WalkSound
  <2> QED BY <1>2, <1>4, <1>6, <2>1, <2>2, <2>3 DEF WalkSound
<1> QED BY <1>2, <1>7, HeapUntouched DEF IInv

LEMMA FailKeeps ==
    ASSUME IInv, kmalloc_fails
    PROVE  IInv'
<1>1. hdr' = hdr /\ held' = held /\ scan' = Idle
  BY NothingToMerge DEF kmalloc_fails
<1>2. WalkSound'
  BY <1>1 DEF WalkSound, Idle, Null
<1> QED BY <1>1, <1>2, HeapUntouched DEF IInv

\* The block taken is as large as it was asked for, and what was held before
\* is untouched.
LEMMA TakeKeeps ==
    ASSUME IInv, kmalloc_takes
    PROVE  IInv'
<1> DEFINE at == scan.at
           want == scan.want
           s == Split(hdr, at, want)
           n == at + HeaderSize + want
<1>1. Merged = hdr /\ at \in DOMAIN hdr /\ scan # Idle
  BY NothingToMerge DEF kmalloc_takes
<1>2. /\ hdr[at].free /\ hdr[at].size >= want
      /\ held' = held \cup {[block |-> at, asked |-> scan.asked]}
      /\ scan' = Idle
  BY <1>1, Zenon DEF kmalloc_takes, Fits
<1>3. hdr' = [s EXCEPT ![at].free = FALSE]
  BY <1>1, Zenon DEF kmalloc_takes
<1>4. Sound(hdr) /\ NoFreeNeighbours(hdr) /\ HeldIntact
  BY DEF IInv
<1>5. want \in Nat /\ want >= MinSize /\ want >= scan.asked /\ scan.asked \in Nat
  <2>1. scan.asked \in Requests /\ want = Rounded(scan.asked)
    BY <1>1 DEF IInv, WalkSound
  <2>2. scan.asked \in Nat
    BY <2>1, HeapConstants DEF HeapAssumption
  <2> QED BY <2>1, <2>2, RoundedFacts
<1> HIDE DEF at, want, n
<1>6. CASE hdr[at].size > want + HeaderSize + MinSize
  <2>1. SplitInto(hdr, at, want, n, s)
    BY <1>1, <1>4, <1>5, <1>6, SplitFacts DEF n
  <2>2. Sound(s)
    BY <1>1, <1>4, <1>5, <1>6, SplitSound
  <2> HIDE DEF s
  <2>3. /\ n \in Nat /\ n \notin DOMAIN hdr /\ n # at
        /\ DOMAIN s = DOMAIN hdr \cup {n} /\ at \in DOMAIN s
        /\ s[at].size = want /\ s[at].next = n
        /\ s[n].free = TRUE /\ s[n].next = hdr[at].next
        /\ \A o \in DOMAIN hdr \ {at} :
              s[o].size = hdr[o].size /\ s[o].free = hdr[o].free /\ s[o].next = hdr[o].next
    BY <1>1, <2>1 DEF SplitInto
  <2>4. /\ Sound(hdr') /\ DOMAIN hdr' = DOMAIN s
        /\ hdr'[at].free = FALSE
        /\ \A o \in DOMAIN s :
              /\ hdr'[o].size = s[o].size /\ hdr'[o].next = s[o].next
              /\ hdr'[o].prev = s[o].prev /\ (o # at => hdr'[o].free = s[o].free)
    <3> DEFINE g == [s EXCEPT ![at].free = FALSE]
    <3>1. at \in DOMAIN s /\ FALSE \in BOOLEAN
      BY <2>3
    <3>2. /\ Sound(g) /\ DOMAIN g = DOMAIN s
          /\ g[at].free = FALSE
          /\ \A o \in DOMAIN s :
                /\ g[o].size = s[o].size /\ g[o].next = s[o].next
                /\ g[o].prev = s[o].prev /\ (o # at => g[o].free = s[o].free)
      BY <2>2, <3>1, FlagSound, Zenon
    <3>3. hdr' = g
      BY <1>3
    <3> HIDE DEF g
    <3> QED BY <3>2, <3>3
  <2>5. NoFreeNeighbours(hdr)'
    <3> SUFFICES ASSUME NEW o \in DOMAIN hdr', hdr'[o].free, hdr'[o].next # Null
                 PROVE  ~hdr'[hdr'[o].next].free
      BY DEF NoFreeNeighbours
    <3>1. o # at /\ o \in DOMAIN s /\ hdr'[o].next = s[o].next /\ s[o].free
      BY <2>4
    <3>2. CASE o = n
      <4>1. s[o].next = hdr[at].next /\ hdr[at].next # Null
        BY <2>3, <2>4, <3>1, <3>2
      <4>2. hdr[at].next \in DOMAIN hdr \ {at} /\ ~hdr[hdr[at].next].free
        BY <1>1, <1>2, <1>4, <4>1, BlockFacts DEF NoFreeNeighbours
      <4> QED BY <2>3, <2>4, <3>1, <4>1, <4>2
    <3>3. CASE o # n
      <4>1. o \in DOMAIN hdr \ {at} /\ hdr[o].free /\ s[o].next = hdr[o].next
            /\ hdr[o].next # Null
        BY <2>3, <2>4, <3>1, <3>3
      <4>2. hdr[o].next \in DOMAIN hdr /\ ~hdr[hdr[o].next].free
        BY <1>4, <4>1, BlockFacts DEF NoFreeNeighbours
      <4>3. hdr[o].next # at
        BY <1>2, <4>2
      <4> QED BY <2>3, <2>4, <3>1, <4>1, <4>2, <4>3
    <3> QED BY <3>2, <3>3
  <2>6. HeldIntact'
    <3>1. ASSUME NEW r \in held
          PROVE  r.block \in DOMAIN hdr' /\ ~hdr'[r.block].free /\ hdr'[r.block].size >= r.asked
      <4>1. r.block \in DOMAIN hdr \ {at} /\ ~hdr[r.block].free /\ hdr[r.block].size >= r.asked
        BY <1>2, <1>4 DEF HeldIntact
      <4> QED BY <2>3, <2>4, <4>1
    <3>2. ASSUME NEW o \in DOMAIN hdr', ~hdr'[o].free, o # at
          PROVE  \E r \in held : r.block = o
      <4>1. o \in DOMAIN hdr /\ ~hdr[o].free
        BY <2>3, <2>4, <3>2
      <4> QED BY <1>4, <4>1 DEF HeldIntact
    <3>3. /\ at \in DOMAIN hdr' /\ ~hdr'[at].free /\ hdr'[at].size >= scan.asked
      BY <1>5, <2>3, <2>4
    <3>4. [block |-> at, asked |-> scan.asked].block = at
          /\ [block |-> at, asked |-> scan.asked].asked = scan.asked
      OBVIOUS
    <3> QED BY <1>2, <3>1, <3>2, <3>3, <3>4 DEF HeldIntact
  <2>7. WalkSound'
    BY <1>2 DEF WalkSound, Idle, Null
  <2> QED BY <2>4, <2>5, <2>6, <2>7 DEF IInv
<1>7. CASE ~(hdr[at].size > want + HeaderSize + MinSize)
  <2>1. s = hdr
    BY <1>7, Zenon DEF Split
  <2>2. hdr' = [hdr EXCEPT ![at].free = FALSE]
    BY <1>3, <2>1, Zenon
  <2>3. /\ Sound(hdr') /\ DOMAIN hdr' = DOMAIN hdr
        /\ hdr'[at].free = FALSE
        /\ \A o \in DOMAIN hdr :
              /\ hdr'[o].size = hdr[o].size /\ hdr'[o].next = hdr[o].next
              /\ hdr'[o].prev = hdr[o].prev /\ (o # at => hdr'[o].free = hdr[o].free)
    BY <1>1, <1>4, <2>2, FlagSound
  <2>4. NoFreeNeighbours(hdr)'
    <3> SUFFICES ASSUME NEW o \in DOMAIN hdr', hdr'[o].free, hdr'[o].next # Null
                 PROVE  ~hdr'[hdr'[o].next].free
      BY DEF NoFreeNeighbours
    <3>1. o \in DOMAIN hdr \ {at} /\ hdr[o].free /\ hdr'[o].next = hdr[o].next
          /\ hdr[o].next # Null
      BY <2>3
    <3>2. hdr[o].next \in DOMAIN hdr /\ ~hdr[hdr[o].next].free
      BY <1>4, <3>1, BlockFacts DEF NoFreeNeighbours
    <3> QED BY <1>2, <2>3, <3>1, <3>2
  <2>5. HeldIntact'
    <3>1. ASSUME NEW r \in held
          PROVE  r.block \in DOMAIN hdr' /\ ~hdr'[r.block].free /\ hdr'[r.block].size >= r.asked
      <4>1. r.block \in DOMAIN hdr \ {at} /\ ~hdr[r.block].free /\ hdr[r.block].size >= r.asked
        BY <1>2, <1>4 DEF HeldIntact
      <4> QED BY <2>3, <4>1
    <3>2. ASSUME NEW o \in DOMAIN hdr', ~hdr'[o].free, o # at
          PROVE  \E r \in held : r.block = o
      BY <1>4, <2>3, <3>2 DEF HeldIntact
    <3>3. hdr[at].size \in Nat
      BY <1>1, <1>4, BlockFacts
    <3>4. /\ at \in DOMAIN hdr' /\ ~hdr'[at].free /\ hdr'[at].size >= scan.asked
      BY <1>1, <1>2, <1>5, <2>3, <3>3
    <3>5. [block |-> at, asked |-> scan.asked].block = at
          /\ [block |-> at, asked |-> scan.asked].asked = scan.asked
      OBVIOUS
    <3> QED BY <1>2, <3>1, <3>2, <3>4, <3>5 DEF HeldIntact
  <2>6. WalkSound'
    BY <1>2 DEF WalkSound, Idle, Null
  <2> QED BY <2>3, <2>4, <2>5, <2>6 DEF IInv
<1> QED BY <1>6, <1>7

\* kfree leaves no two free neighbours and touches no other client's block.
LEMMA FreeKeeps ==
    ASSUME IInv, NEW q \in held, kfree(q.block)
    PROVE  IInv'
<1> DEFINE b == q.block
           g == [hdr EXCEPT ![b].free = TRUE]
           m == heap_merge_next(g, b)
           p == m[b].prev
<1>1. /\ scan = Idle /\ ~hdr[b].free /\ scan' = scan
      /\ hdr' = IF p # Null /\ m[p].free THEN heap_merge_next(m, p) ELSE m
      /\ held' = {r \in held : r.block # b}
  BY Zenon DEF kfree
<1>2. b \in DOMAIN hdr
  BY DEF IInv, HeldIntact
<1>3. Sound(hdr) /\ NoFreeNeighbours(hdr) /\ HeldIntact
  BY DEF IInv
<1> HIDE DEF b
<1>4. /\ Sound(g) /\ DOMAIN g = DOMAIN hdr /\ g[b].free = TRUE
      /\ \A o \in DOMAIN hdr :
            /\ g[o].size = hdr[o].size /\ g[o].next = hdr[o].next
            /\ g[o].prev = hdr[o].prev /\ (o # b => g[o].free = hdr[o].free)
  BY <1>2, <1>3, FlagSound
<1> HIDE DEF g
<1>5. Almost(g, b)
  <2> SUFFICES ASSUME NEW o \in DOMAIN g \ {b}, g[o].next # Null, g[o].next # b
               PROVE  g[o].free => ~g[g[o].next].free
    BY DEF Almost
  <2>1. o \in DOMAIN hdr /\ g[o].free = hdr[o].free /\ hdr[o].next = g[o].next
        /\ hdr[o].next \in DOMAIN hdr
    BY <1>3, <1>4, BlockFacts
  <2>2. g[hdr[o].next].free = hdr[hdr[o].next].free
    BY <1>4, <2>1
  <2> QED BY <1>3, <2>1, <2>2 DEF NoFreeNeighbours
<1>6. /\ Sound(m) /\ SameUse(g, m)
      /\ b \in DOMAIN m /\ m[b].free
      /\ m[b].next # Null => ~m[m[b].next].free
      /\ Almost(m, b)
  BY <1>2, <1>4, <1>5, MergeStep
<1> HIDE DEF m
<1>7. Sound(hdr') /\ SameUse(m, hdr') /\ NoFreeNeighbours(hdr')
  <2>1. p # Null => p \in DOMAIN m /\ m[p].next = b /\ p # b
    BY <1>6, BlockFacts
  <2>2. \A o \in DOMAIN m : m[o].next # Null =>
          /\ m[o].next \in DOMAIN m /\ m[m[o].next].prev = o
          /\ m[o].next \in Nat /\ o \in Nat /\ o < m[o].next
    BY <1>6, BlockFacts
  <2> HIDE DEF p
  <2>3. CASE p # Null /\ m[p].free
    <3>1. hdr' = heap_merge_next(m, p) /\ p \in DOMAIN m
      BY <1>1, <2>1, <2>3, Zenon
    <3>2. Almost(m, p)
      <4> SUFFICES ASSUME NEW o \in DOMAIN m \ {p}, m[o].next # Null, m[o].next # p
                   PROVE  m[o].free => ~m[m[o].next].free
        BY DEF Almost
      <4>1. m[o].next # b
        BY <1>6, <2>2 DEF p
      <4> QED BY <1>6, <4>1 DEF Almost
    <3>3. /\ Sound(hdr') /\ SameUse(m, hdr')
          /\ p \in DOMAIN hdr' /\ hdr'[p].free
          /\ DOMAIN hdr' \subseteq DOMAIN m
          /\ hdr'[p].next # Null => ~hdr'[hdr'[p].next].free
          /\ \A o \in DOMAIN hdr' \ {p} : hdr'[o].free = m[o].free /\ hdr'[o].next = m[o].next
          /\ Almost(hdr', p)
      BY <1>6, <2>3, <3>1, <3>2, MergeStep
    <3>4. ASSUME NEW o \in DOMAIN hdr', hdr'[o].free, hdr'[o].next # Null
          PROVE  ~hdr'[hdr'[o].next].free
      <4>1. CASE o = p
        BY <3>3, <3>4, <4>1
      <4>2. CASE o # p /\ hdr'[o].next # p
        BY <3>3, <3>4, <4>2 DEF Almost
      <4>3. CASE o # p /\ hdr'[o].next = p
        <5>1. o \in DOMAIN m /\ m[o].free /\ m[o].next = p /\ p # Null
          BY <2>3, <3>3, <3>4, <4>3
        <5>2. o # b
          BY <2>1, <2>2, <5>1, BlockFacts, <1>6
        <5> QED BY <1>6, <2>1, <2>3, <5>1, <5>2 DEF Almost
      <4> QED BY <4>1, <4>2, <4>3
    <3> QED BY <3>3, <3>4 DEF NoFreeNeighbours
  <2>4. CASE ~(p # Null /\ m[p].free)
    <3>1. hdr' = m
      BY <1>1, <2>4, Zenon
    <3>2. ASSUME NEW o \in DOMAIN m, m[o].free, m[o].next # Null
          PROVE  ~m[m[o].next].free
      <4>1. CASE o = b
        BY <1>6, <3>2, <4>1
      <4>2. CASE o # b /\ m[o].next # b
        BY <1>6, <3>2, <4>2 DEF Almost
      <4>3. CASE o # b /\ m[o].next = b
        <5>1. p = o
          BY <2>2, <3>2, <4>3 DEF p
        <5>2. o # Null
          BY <1>6, BlockFacts DEF Null
        <5> QED BY <2>4, <3>2, <5>1, <5>2
      <4> QED BY <4>1, <4>2, <4>3
    <3> QED BY <1>6, <3>1, <3>2 DEF NoFreeNeighbours, SameUse
  <2> QED BY <2>3, <2>4
<1>8. HeldIntact'
  <2>1. Used(hdr') = Used(g) /\ \A o \in Used(g) : hdr'[o].size = g[o].size
    BY <1>6, <1>7 DEF SameUse
  <2>2. Used(g) = Used(hdr) \ {b} /\ \A o \in Used(g) : g[o].size = hdr[o].size
    BY <1>4 DEF Used
  <2>3. ASSUME NEW r \in held, r.block # b
        PROVE  r.block \in DOMAIN hdr' /\ ~hdr'[r.block].free /\ hdr'[r.block].size >= r.asked
    <3>1. r.block \in Used(hdr) /\ hdr[r.block].size >= r.asked
      BY <1>3 DEF HeldIntact, Used
    <3>2. r.block \in Used(hdr') /\ hdr'[r.block].size >= r.asked
      BY <2>1, <2>2, <2>3, <3>1
    <3> QED BY <3>2 DEF Used
  <2>4. ASSUME NEW o \in DOMAIN hdr', ~hdr'[o].free
        PROVE  \E r \in held : r.block # b /\ r.block = o
    <3>1. o \in Used(hdr) /\ o # b
      BY <2>1, <2>2, <2>4 DEF Used
    <3> QED BY <1>3, <3>1 DEF HeldIntact, Used
  <2> QED BY <1>1, <2>3, <2>4 DEF HeldIntact
<1>9. WalkSound'
  BY <1>1 DEF WalkSound, Idle, Null
<1> QED BY <1>7, <1>8, <1>9 DEF IInv

LEMMA NextIInv == IInv /\ [Next]_heapVars => IInv'
<1> SUFFICES ASSUME IInv, [Next]_heapVars
             PROVE  IInv'
  OBVIOUS
<1>1. ASSUME NEW n \in Requests, kmalloc(n)
      PROVE  IInv'
  BY <1>1, StartKeeps
<1>2. CASE kmalloc_takes
  BY <1>2, TakeKeeps
<1>3. CASE kmalloc_moves_on
  BY <1>3, MoveOnKeeps
<1>4. CASE kmalloc_fails
  BY <1>4, FailKeeps
<1>5. ASSUME NEW r \in held, kfree(r.block)
      PROVE  IInv'
  BY <1>5, FreeKeeps
<1>6. CASE UNCHANGED heapVars
  <2>1. hdr' = hdr /\ held' = held /\ scan' = scan
    BY <1>6 DEF heapVars
  <2>2. WalkSound'
    BY <2>1 DEF IInv, WalkSound
  <2> QED BY <2>1, <2>2, HeapUntouched DEF IInv
<1> QED BY <1>1, <1>2, <1>3, <1>4, <1>5, <1>6 DEF Next, Walk

-----------------------------------------------------------------------------
(* The theorems.                                                           *)

\* kmalloc and kfree keep the list a tiling of the heap, hand no byte out
\* twice and lose none, in whatever order clients ask and free, for every
\* heap size, header size, alignment and set of requests.
THEOREM HeapSafe == Spec => []HeapSound
<1>1. IInv => HeapSound
  <2> SUFFICES ASSUME IInv PROVE HeapSound
    OBVIOUS
  <2>1. Sound(hdr) /\ HeldIntact
    BY DEF IInv
  <2>2. 0 \in DOMAIN hdr
    BY <2>1 DEF Sound, Headers
  <2>3. \A b \in DOMAIN hdr : b = 0 => hdr[b].prev = Null
    BY <2>1 DEF Sound, Backwards
  <2> QED BY <2>1, <2>2, <2>3 DEF HeapSound, ListTilesHeap, Sound, Forwards
<1> QED BY <1>1, InitIInv, NextIInv, PTL DEF Spec

\* When the walk has reached the end without finding room, a block in use
\* lies in the way wherever the block could go: two free neighbours would
\* have been merged, and every free block was too small.
LEMMA NoGap ==
    ASSUME IInv, kmalloc_fails,
           NEW lo \in 0 .. HeapSize - HeaderSize - scan.want
    PROVE  (lo .. (lo + HeaderSize + scan.want - 1)) \cap TakenBytes(hdr) # {}
<1> DEFINE want == scan.want
           hi == lo + HeaderSize + want - 1
<1>1. Merged = hdr /\ scan.at \in DOMAIN hdr /\ scan # Idle
  BY NothingToMerge DEF kmalloc_fails
<1>2. ~Fits(hdr) /\ hdr[scan.at].next = Null
  BY <1>1 DEF kmalloc_fails
<1>3. Sound(hdr) /\ NoFreeNeighbours(hdr) /\ want \in Nat
  BY DEF IInv, WalkSound
<1>4. lo \in Nat /\ hi \in Nat /\ lo <= hi /\ hi < HeapSize
  BY <1>3, Sizes
<1>5. ASSUME NEW b \in DOMAIN hdr, hdr[b].free
      PROVE  hdr[b].size < want
  <2>1. b \in Nat /\ scan.at \in Nat /\ hdr[b].size \in Nat
    BY <1>1, <1>3, BlockFacts
  <2>2. b <= scan.at
    <3>1. Follows(hdr, b) > b /\ Follows(hdr, scan.at) = HeapSize /\ Follows(hdr, b) \in Nat
      BY <1>1, <1>2, <1>3, BlockFacts
    <3>2. Follows(hdr, b) <= HeapSize /\ (scan.at < b => HeapSize <= b)
      BY <1>1, <1>3, <3>1 DEF Sound, Apart
    <3> QED BY <2>1, <3>1, <3>2, Sizes
  <2>3. CASE b = scan.at
    BY <1>2, <1>3, <1>5, <2>1, <2>3 DEF Fits
  <2>4. CASE b < scan.at
    BY <1>1, <1>5, <2>4 DEF IInv, WalkSound
  <2> QED BY <2>1, <2>2, <2>3, <2>4
<1>6. ASSUME NEW b \in DOMAIN hdr, ~hdr[b].free, NEW x \in lo .. hi,
             b <= x, x < Follows(hdr, b)
      PROVE  (lo .. hi) \cap TakenBytes(hdr) # {}
  <2>1. x \in b .. (Follows(hdr, b) - 1)
    BY <1>3, <1>4, <1>6, BlockFacts
  <2>2. x \in TakenBytes(hdr)
    BY <1>6, <2>1 DEF TakenBytes
  <2> QED BY <2>2
<1> HIDE DEF want, hi
<1>7. PICK b \in DOMAIN hdr : b <= lo /\ lo < Follows(hdr, b)
  BY <1>3, <1>4, Sizes DEF Sound, Covered
<1>8. CASE ~hdr[b].free
  BY <1>4, <1>6, <1>7, <1>8 DEF hi, want
<1>9. CASE hdr[b].free
  <2>1. b \in Nat /\ hdr[b].size \in Nat /\ Follows(hdr, b) = b + HeaderSize + hdr[b].size
        /\ hdr[b].size < want
    BY <1>3, <1>5, <1>9, BlockFacts
  <2>2. Follows(hdr, b) \in lo .. hi
    BY <1>3, <1>4, <1>7, <2>1, Sizes DEF hi
  <2>3. hdr[b].next = Follows(hdr, b) /\ hdr[b].next \in DOMAIN hdr /\ hdr[b].next # Null
    BY <1>3, <1>4, <2>1, <2>2, BlockFacts, Sizes
  <2>4. ~hdr[hdr[b].next].free
    BY <1>3, <1>9, <2>3 DEF NoFreeNeighbours
  <2>5. hdr[b].next < Follows(hdr, hdr[b].next) /\ hdr[b].next \in Nat
    BY <1>3, <2>3, BlockFacts
  <2> QED BY <1>6, <2>2, <2>3, <2>4, <2>5 DEF hi, want
<1> QED BY <1>8, <1>9

\* kmalloc returns NULL only when no gap between the blocks in use could hold
\* the block, for every heap size, header size, alignment and set of requests.
THEOREM NoFailureFromFragments == Spec => FailsOnlyWhenFull
<1> DEFINE NoRoom == \A lo \in 0 .. HeapSize - HeaderSize - scan.want :
              (lo .. (lo + HeaderSize + scan.want - 1)) \cap TakenBytes(hdr) # {}
<1>1. IInv /\ [Next]_heapVars => [scan # Idle /\ scan' = Idle /\ held' = held => NoRoom]_heapVars
  <2> SUFFICES ASSUME IInv, [Next]_heapVars, scan # Idle, scan' = Idle, held' = held
               PROVE  NoRoom
    OBVIOUS
  <2>1. CASE kmalloc_fails
    BY <2>1, NoGap
  <2>2. CASE kmalloc_takes
    <3>1. hdr[scan.at].free
      BY <2>2, NothingToMerge DEF kmalloc_takes, Fits
    <3>2. [block |-> scan.at, asked |-> scan.asked] \in held
      BY <2>2 DEF kmalloc_takes
    <3>3. [block |-> scan.at, asked |-> scan.asked].block = scan.at
      OBVIOUS
    <3> QED BY <3>1, <3>2, <3>3 DEF IInv, HeldIntact
  <2>3. CASE kmalloc_moves_on
    <3>1. scan'.at = hdr[scan.at].next /\ hdr[scan.at].next # Null
      <4>1. Merged = hdr /\ scan = [at |-> scan.at, want |-> scan.want, asked |-> scan.asked]
        BY NothingToMerge DEF IInv, WalkSound
      <4>2. scan' = [scan EXCEPT !.at = hdr[scan.at].next] /\ hdr[scan.at].next # Null
        BY <2>3, <4>1, Zenon DEF kmalloc_moves_on
      <4> QED BY <4>1, <4>2
    <3>2. Idle.at = Null
      BY DEF Idle
    <3> QED BY <3>1, <3>2
  <2>4. ASSUME NEW n \in Requests, kmalloc(n) PROVE FALSE
    BY <2>4 DEF kmalloc
  <2>5. ASSUME NEW r \in held, kfree(r.block) PROVE FALSE
    BY <2>5 DEF kfree
  <2>6. CASE UNCHANGED heapVars
    BY <2>6 DEF heapVars
  <2> QED BY <2>1, <2>2, <2>3, <2>4, <2>5, <2>6 DEF Next, Walk
<1> QED BY <1>1, InitIInv, NextIInv, PTL DEF Spec, FailsOnlyWhenFull

=============================================================================
