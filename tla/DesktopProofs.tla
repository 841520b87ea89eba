---------------------------- MODULE DesktopProofs ----------------------------
(***************************************************************************)
(* Proofs about the desktop and the pseudo terminals it runs commands on,  *)
(* for every size of the rings, any number and size of windows and any     *)
(* user.                                                                   *)
(*                                                                         *)
(* The parts, in order.  Pseudo terminals: whoever calls pty.c, in         *)
(* whatever order, gets the two queues of PtyChannel, and a task started   *)
(* on a session keeps it.  The shell window: its rings, and the session of *)
(* its command (DInv).  The windows: the stacking order and the focus, and *)
(* one lemma per operator of DesktopWindows saying that a change that can  *)
(* be seen is marked (WindowStep).  The frame: the rectangles of the dirty *)
(* set cover every cell whose scene has changed (CleanCellSame,            *)
(* DirtySetCovers), so a rendered frame is the scene (Rendered).  WInv     *)
(* carries this through every step of the loop.                            *)
(***************************************************************************)
EXTENDS Desktop, SequenceTheorems, FiniteSetTheorems, WellFoundedInduction, TLAPS

\* Any program calls any function of pty.c at any time.
PtyNext ==
    \/ \E p \in Ptys :
          \/ pty_open(p)
          \/ pty_close(p)
          \/ \E t \in Pids : pty_attach_slave(p, t)
          \/ \E n \in Nat \ {0} : pty_host_read(p, n)
          \/ \E chunk \in Chunks : pty_host_write(p, chunk)
    \/ \E t \in Pids :
          \/ pty_detach_slave(t)
          \/ \E n \in Nat \ {0} : pty_slave_read(t, n)
          \/ \E chunk \in Chunks : pty_slave_write(t, chunk)

PtySpec == PtyInit /\ [][PtyNext]_ptyVars

-----------------------------------------------------------------------------
(* The inductive invariant.                                                *)

RingRecord == [data : [Cells -> Bytes], head : Cells, tail : Cells, count : 0 .. BufSize]

\* head is where the next byte goes: count cells after tail.
RingSound(r) == r \in RingRecord /\ r.head = (r.tail + r.count) % BufSize

SessionsTyped ==
    /\ used \subseteq Ptys
    /\ slave_pid \in [Ptys -> Pids \cup {0}]
    /\ pty_id \in [Pids -> Ptys \cup {NoPty}]

\* Rings are sound, and those of a closed session hold nothing.
RingsSound ==
    /\ host_to_slave \in [Ptys -> RingRecord]
    /\ slave_to_host \in [Ptys -> RingRecord]
    /\ \A p \in Ptys : RingSound(host_to_slave[p]) /\ RingSound(slave_to_host[p])
    /\ \A p \in Ptys \ used :
          host_to_slave[p] = EmptyRing /\ slave_to_host[p] = EmptyRing

IInv == SessionsTyped /\ RingsSound /\ SlaveKeepsSession

-----------------------------------------------------------------------------
(* Arithmetic on the ring.                                                 *)

LEMMA SizeFacts == BufSize \in Nat \ {0} /\ 0 \in Cells /\ 0 \in Bytes
BY PtyConstants DEF PtyAssumption, Cells

\* Quotient and remainder are unique.
LEMMA RemainderUnique ==
    ASSUME NEW B \in Nat \ {0}, NEW x \in Int, NEW q \in Int, NEW r \in 0 .. B - 1,
           x = B * q + r
    PROVE  x % B = r
<1> DEFINE d == x \div B
           s == x % B
<1>1. d \in Int /\ s \in 0 .. B - 1 /\ x = B * d + s
  OBVIOUS
<1> HIDE DEF d, s
<1>2. B * (q - d) = s - r
  BY <1>1
<1>3. q - d >= 1 => B * (q - d) >= B
  BY <1>1
<1>4. d - q >= 1 => B * (d - q) >= B
  BY <1>1
<1>5. q = d
  BY <1>1, <1>2, <1>3, <1>4
<1> QED BY <1>1, <1>2, <1>5 DEF s

\* The cell x steps after another is the one its distance says, and the
\* distance back from it is x again.
LEMMA CellAt ==
    ASSUME NEW t \in Cells, NEW x \in Nat
    PROVE  (t + x) % BufSize \in Cells
BY SizeFacts DEF Cells

LEMMA CellItself ==
    ASSUME NEW t \in Cells
    PROVE  (t + 0) % BufSize = t
<1> DEFINE zero == 0
           x == t + 0
<1>1. BufSize \in Nat \ {0} /\ t \in 0 .. BufSize - 1 /\ x \in Int /\ zero \in Int
      /\ x = BufSize * zero + t
  BY SizeFacts DEF Cells
<1> HIDE DEF zero, x
<1>2. x % BufSize = t
  BY <1>1, RemainderUnique
<1> QED BY <1>2 DEF x

LEMMA CellStepsAdd ==
    ASSUME NEW t \in Cells, NEW x \in Nat, NEW y \in Nat
    PROVE  (((t + x) % BufSize) + y) % BufSize = (t + x + y) % BufSize
<1> DEFINE B == BufSize
           e == (t + x) \div B
           s == (t + x) % B
           f == (s + y) \div B
           u == (s + y) % B
<1>1. B \in Nat \ {0} /\ t \in Int
  BY SizeFacts DEF Cells
<1>2. e \in Int /\ s \in 0 .. B - 1 /\ t + x = B * e + s
  BY <1>1
<1>3. s + y \in Int
  BY <1>2
<1>4. f \in Int /\ u \in 0 .. B - 1 /\ s + y = B * f + u
  BY <1>1, <1>3
<1> HIDE DEF e, s, f, u
<1>5. t + x + y = B * (e + f) + u /\ t + x + y \in Int /\ e + f \in Int
  BY <1>1, <1>2, <1>4
<1> HIDE DEF B
<1>6. (t + x + y) % B = u
  BY <1>1, <1>4, <1>5, RemainderUnique
<1> QED BY <1>6 DEF u, s, B

LEMMA CellDistance ==
    ASSUME NEW t \in Cells, NEW x \in 0 .. BufSize - 1, NEW c \in 0 .. BufSize
    PROVE  (((t + x) % BufSize) - ((t + c) % BufSize)) % BufSize =
               IF x >= c THEN x - c ELSE x - c + BufSize
<1> DEFINE B == BufSize
           d == (t + x) \div B
           j == (t + x) % B
           e == (t + c) \div B
           h == (t + c) % B
           r == IF x >= c THEN x - c ELSE x - c + B
<1>1. B \in Nat \ {0} /\ t \in 0 .. B - 1
  BY SizeFacts DEF Cells
<1>2. d \in Int /\ j \in 0 .. B - 1 /\ t + x = B * d + j
  BY <1>1
<1>3. e \in Int /\ h \in 0 .. B - 1 /\ t + c = B * e + h
  BY <1>1
<1> HIDE DEF d, j, e, h
<1>4. j - h = x - c + B * (e - d)
  BY <1>1, <1>2, <1>3
<1>5. r \in 0 .. B - 1 /\ j - h \in Int /\ e - d \in Int /\ e - d - 1 \in Int
  BY <1>1, <1>2, <1>3
<1>6. j - h = B * (e - d) + r \/ j - h = B * (e - d - 1) + r
  <2>1. CASE x >= c
    BY <1>1, <1>2, <1>3, <1>4, <2>1
  <2>2. CASE ~(x >= c)
    BY <1>1, <1>2, <1>3, <1>4, <2>2
  <2> QED BY <2>1, <2>2
<1> HIDE DEF r, B
<1>7. (j - h) % B = r
  BY <1>1, <1>5, <1>6, RemainderUnique
<1> QED BY <1>7 DEF j, h, r, B

-----------------------------------------------------------------------------
(* Rings are queues.                                                       *)

LEMMA RingFields ==
    ASSUME NEW r, RingSound(r)
    PROVE  /\ r.data \in [Cells -> Bytes] /\ r.head \in Cells /\ r.tail \in Cells
           /\ r.count \in 0 .. BufSize /\ r.head = (r.tail + r.count) % BufSize
BY DEF RingSound, RingRecord

LEMMA EmptyRingSound == RingSound(EmptyRing) /\ EmptyRing \in RingRecord /\ EmptyRing.count = 0
<1>1. EmptyRing \in RingRecord /\ EmptyRing.head = 0 /\ EmptyRing.tail = 0 /\ EmptyRing.count = 0
  BY SizeFacts DEF EmptyRing, RingRecord
<1>2. 0 % BufSize = 0
  BY SizeFacts, RemainderUnique
<1> QED BY <1>1, <1>2 DEF RingSound

LEMMA ContentsFacts ==
    ASSUME NEW r, RingSound(r)
    PROVE  /\ Contents(r) \in Seq(Bytes) /\ Len(Contents(r)) = r.count
           /\ \A i \in 1 .. r.count : Contents(r)[i] = r.data[(r.tail + i - 1) % BufSize]
<1>1. r.data \in [Cells -> Bytes] /\ r.tail \in Cells /\ r.count \in 0 .. BufSize
  BY RingFields
<1>2. r.count \in Nat /\ BufSize \in Nat \ {0}
  BY <1>1, SizeFacts
<1>3. ASSUME NEW i \in 1 .. r.count
      PROVE  r.data[(r.tail + i - 1) % BufSize] \in Bytes
  <2>1. (r.tail + i - 1) % BufSize \in Cells
    BY <1>1, <1>2 DEF Cells
  <2> QED BY <1>1, <2>1
<1>4. Contents(r) \in [1 .. r.count -> Bytes]
  BY <1>3 DEF Contents
<1>5. Contents(r) \in Seq(Bytes) /\ Len(Contents(r)) = r.count
  BY <1>2, <1>4
<1> QED BY <1>5 DEF Contents

LEMMA IsConcat ==
    ASSUME NEW s \in Seq(Bytes), NEW t \in Seq(Bytes), NEW u \in Seq(Bytes),
           Len(u) = Len(s) + Len(t),
           \A i \in 1 .. Len(s) + Len(t) : u[i] = IF i <= Len(s) THEN s[i] ELSE t[i - Len(s)]
    PROVE  u = s \o t
<1> DEFINE v == s \o t
<1>1. /\ v \in Seq(Bytes) /\ Len(v) = Len(s) + Len(t)
      /\ \A i \in 1 .. Len(s) + Len(t) : v[i] = IF i <= Len(s) THEN s[i] ELSE t[i - Len(s)]
  BY ConcatProperties
<1> HIDE DEF v
<1>2. u = v
  BY <1>1, SeqEqual
<1> QED BY <1>2 DEF v

\* ring_push appends what there is room for.
LEMMA PushAppends ==
    ASSUME NEW r, RingSound(r), NEW chunk \in Seq(Bytes),
           NEW n, n = Least(Len(chunk), BufSize - r.count)
    PROVE  /\ RingSound(Pushed(r, chunk))
           /\ Contents(Pushed(r, chunk)) = Contents(r) \o SubSeq(chunk, 1, n)
<1> DEFINE B == BufSize
           new == Pushed(r, chunk)
           dist(i) == (i - r.head) % B
           data == [i \in Cells |-> IF dist(i) < n THEN chunk[dist(i) + 1] ELSE r.data[i]]
<1>1. /\ r.data \in [Cells -> Bytes] /\ r.head \in Cells /\ r.tail \in Cells
      /\ r.count \in 0 .. B /\ r.head = (r.tail + r.count) % B /\ B \in Nat \ {0}
      /\ r.tail \in Nat /\ r.count \in Nat
  BY RingFields, SizeFacts DEF Cells
<1>2. n \in Nat /\ n <= Len(chunk) /\ r.count + n <= B
  BY <1>1 DEF Least
<1>3. new = [data |-> data, head |-> (r.head + n) % B, tail |-> r.tail, count |-> r.count + n]
  BY DEF Pushed
<1>4. \A i \in Cells : dist(i) \in Nat
  BY <1>1 DEF Cells
<1>5. data \in [Cells -> Bytes]
  <2>1. ASSUME NEW i \in Cells
        PROVE  (IF dist(i) < n THEN chunk[dist(i) + 1] ELSE r.data[i]) \in Bytes
    <3> HIDE DEF dist
    <3>1. dist(i) < n => dist(i) + 1 \in 1 .. Len(chunk)
      BY <1>2, <1>4
    <3> QED BY <1>1, <3>1
  <2> QED BY <2>1
<1>6. (r.head + n) % B \in Cells /\ (r.head + n) % B = (r.tail + (r.count + n)) % B
  <2>3. r.tail \in Cells /\ r.count \in Nat /\ n \in Nat
    BY <1>1, <1>2
  <2>4. (((r.tail + r.count) % BufSize) + n) % BufSize = (r.tail + r.count + n) % BufSize
    BY <2>3, CellStepsAdd
  <2>1. (r.head + n) % B = (r.tail + r.count + n) % B
    BY <1>1, <2>4
  <2>2. r.tail + r.count + n = r.tail + (r.count + n)
    BY <1>1, <1>2
  <2> QED BY <1>1, <1>2, <2>1, <2>2, CellAt
<1>7. \A i \in Cells : data[i] = IF dist(i) < n THEN chunk[dist(i) + 1] ELSE r.data[i]
  OBVIOUS
<1> HIDE DEF data, new
<1>8. new.data = data /\ new.head = (r.head + n) % B /\ new.tail = r.tail
      /\ new.count = r.count + n /\ r.count + n \in 0 .. B
  BY <1>1, <1>2, <1>3
<1>9. new \in RingRecord
  BY <1>1, <1>3, <1>5, <1>6, <1>8 DEF RingRecord
<1>10. RingSound(new)
  BY <1>6, <1>8, <1>9 DEF RingSound
<1> DEFINE old == Contents(r)
           now == Contents(new)
           part == SubSeq(chunk, 1, n)
<1>11. /\ now \in Seq(Bytes) /\ Len(now) = r.count + n
       /\ \A i \in 1 .. r.count + n : now[i] = data[(r.tail + i - 1) % B]
  BY <1>8, <1>10, ContentsFacts
<1>12. /\ old \in Seq(Bytes) /\ Len(old) = r.count
       /\ \A i \in 1 .. r.count : old[i] = r.data[(r.tail + i - 1) % B]
  BY ContentsFacts
<1>13. part \in Seq(Bytes) /\ Len(part) = n /\ \A k \in 1 .. n : part[k] = chunk[k]
  BY <1>2
<1> HIDE DEF old, now, part
<1>14. ASSUME NEW i \in 1 .. r.count + n
       PROVE  now[i] = IF i <= r.count THEN old[i] ELSE part[i - r.count]
  <2> DEFINE j == (r.tail + i - 1) % B
             x == i - 1
  <2>1. i \in Nat /\ x \in 0 .. B - 1 /\ r.tail + x = r.tail + i - 1
    BY <1>1, <1>2
  <2>2. j = (r.tail + x) % B /\ j \in Cells
    BY <1>1, <2>1, CellAt
  <2>3. dist(j) = IF x >= r.count THEN x - r.count ELSE x - r.count + B
    BY <1>1, <2>1, <2>2, CellDistance, ZenonT(30)
  <2>4. now[i] = data[j]
    BY <1>11
  <2> HIDE DEF j, dist
  <2>5. CASE i <= r.count
    <3>1. ~(dist(j) < n)
      BY <1>1, <1>2, <2>1, <2>3, <2>5
    <3>2. i \in 1 .. r.count
      BY <2>1, <2>5
    <3>3. data[j] = r.data[j]
      BY <1>7, <2>2, <3>1
    <3> QED BY <1>12, <2>4, <2>5, <3>2, <3>3 DEF j
  <2>6. CASE ~(i <= r.count)
    <3>1. dist(j) + 1 = i - r.count /\ dist(j) < n /\ i - r.count \in 1 .. n
      BY <1>1, <1>2, <2>1, <2>3, <2>6, SMTT(30)
    <3>2. data[j] = chunk[i - r.count]
      BY <1>7, <2>2, <3>1
    <3> QED BY <1>13, <2>4, <2>6, <3>1, <3>2
  <2> QED BY <2>5, <2>6
<1>15. now = old \o part
  <2>1. old \in Seq(Bytes) /\ part \in Seq(Bytes) /\ now \in Seq(Bytes)
    BY <1>11, <1>12, <1>13
  <2>2. Len(now) = Len(old) + Len(part)
    BY <1>11, <1>12, <1>13
  <2>3. \A i \in 1 .. Len(old) + Len(part) :
           now[i] = IF i <= Len(old) THEN old[i] ELSE part[i - Len(old)]
    BY <1>12, <1>13, <1>14
  <2> QED BY <2>1, <2>2, <2>3, IsConcat
<1> QED BY <1>10, <1>15 DEF old, now, part, new

LEMMA IsSubSeq ==
    ASSUME NEW V, NEW s \in Seq(V), NEW m \in Nat, NEW n \in Nat, n <= Len(s), m <= n,
           NEW u \in Seq(V), Len(u) = n - m, \A i \in 1 .. n - m : u[i] = s[m + i]
    PROVE  u = SubSeq(s, m + 1, n)
<1> DEFINE v == SubSeq(s, m + 1, n)
<1>1. \A i \in m + 1 .. n : s[i] \in V
  OBVIOUS
<1>2. /\ v \in Seq(V) /\ Len(v) = n - m
      /\ \A i \in 1 .. n - m : v[i] = s[m + i]
  <2> DEFINE k == m + 1
  <2>1. k \in Int /\ n \in Int /\ \A i \in k .. n : s[i] \in V
    BY <1>1
  <2> HIDE DEF k
  <2>2. /\ SubSeq(s, k, n) \in Seq(V)
        /\ Len(SubSeq(s, k, n)) = IF k <= n THEN n - k + 1 ELSE 0
        /\ \A i \in 1 .. n - k + 1 : SubSeq(s, k, n)[i] = s[k + i - 1]
    BY <2>1, SubSeqProperties
  <2> QED BY <2>2 DEF k
<1> HIDE DEF v
<1>3. u = v
  BY <1>2, SeqEqual
<1> QED BY <1>3 DEF v

\* ring_pop takes the oldest bytes and leaves the others.
LEMMA PopTakes ==
    ASSUME NEW r, RingSound(r), NEW n \in Nat, NEW m, m = Least(n, r.count)
    PROVE  /\ RingSound(Popped(r, n))
           /\ PoppedBytes(r, n) = SubSeq(Contents(r), 1, m)
           /\ Contents(Popped(r, n)) = SubSeq(Contents(r), m + 1, Len(Contents(r)))
<1> DEFINE B == BufSize
           new == Popped(r, n)
           dist(i) == (i - r.tail) % B
           data == [i \in Cells |-> IF dist(i) < m THEN 0 ELSE r.data[i]]
<1>1. /\ r.data \in [Cells -> Bytes] /\ r.head \in Cells /\ r.tail \in Cells
      /\ r.count \in 0 .. B /\ r.head = (r.tail + r.count) % B /\ B \in Nat \ {0}
      /\ r.tail \in Nat /\ r.count \in Nat
  BY RingFields, SizeFacts DEF Cells
<1>2. m \in Nat /\ m <= r.count /\ r.count - m \in Nat
  BY <1>1 DEF Least
<1>3. new = [data |-> data, head |-> r.head, tail |-> (r.tail + m) % B, count |-> r.count - m]
  BY DEF Popped
<1>4. data \in [Cells -> Bytes]
  BY <1>1, SizeFacts
<1>5. (r.tail + m) % B \in Cells
  BY <1>1, <1>2, CellAt
<1>6. ASSUME NEW y \in Nat
      PROVE  (((r.tail + m) % B) + y) % B = (r.tail + (m + y)) % B
  <2>1. (((r.tail + m) % B) + y) % B = (r.tail + m + y) % B
    BY <1>1, <1>2, CellStepsAdd
  <2>2. r.tail + m + y = r.tail + (m + y)
    BY <1>1, <1>2
  <2> QED BY <2>1, <2>2
<1>7. \A i \in Cells : data[i] = IF dist(i) < m THEN 0 ELSE r.data[i]
  OBVIOUS
<1> HIDE DEF data, new
<1>8. new.data = data /\ new.head = r.head /\ new.tail = (r.tail + m) % B
      /\ new.count = r.count - m /\ r.count - m \in 0 .. B
  BY <1>1, <1>2, <1>3
<1>9. new \in RingRecord
  BY <1>1, <1>3, <1>4, <1>5, <1>8 DEF RingRecord
<1>10. RingSound(new)
  <2>1. m + (r.count - m) = r.count
    BY <1>1, <1>2
  <2>2. (((r.tail + m) % B) + (r.count - m)) % B = (r.tail + r.count) % B
    BY <1>2, <1>6, <2>1
  <2> QED BY <1>1, <1>8, <1>9, <2>2 DEF RingSound
<1> DEFINE old == Contents(r)
           now == Contents(new)
           out == PoppedBytes(r, n)
<1>11. /\ now \in Seq(Bytes) /\ Len(now) = r.count - m
       /\ \A i \in 1 .. r.count - m : now[i] = data[(new.tail + i - 1) % B]
  BY <1>8, <1>10, ContentsFacts
<1>12. /\ old \in Seq(Bytes) /\ Len(old) = r.count
       /\ \A i \in 1 .. r.count : old[i] = r.data[(r.tail + i - 1) % B]
  BY ContentsFacts
<1>13. out = SubSeq(old, 1, m)
  <2>1. out = [i \in 1 .. m |-> r.data[(r.tail + i - 1) % B]]
    BY DEF PoppedBytes
  <2>2. \A i \in 1 .. m : i \in 1 .. r.count
    BY <1>1, <1>2
  <2> HIDE DEF old, out
  <2>3. \A i \in 1 .. m : out[i] = old[i] /\ out[i] \in Bytes
    BY <1>12, <2>1, <2>2
  <2>4. out \in Seq(Bytes) /\ Len(out) = m
    BY <1>2, <2>1, <2>3
  <2> DEFINE zero == 0
  <2>5. zero \in Nat /\ m <= Len(old) /\ zero <= m /\ Len(out) = m - zero
        /\ \A i \in 1 .. m - zero : out[i] = old[zero + i]
    BY <1>2, <1>12, <2>3, <2>4
  <2> HIDE DEF zero
  <2>6. out = SubSeq(old, zero + 1, m)
    BY <1>2, <1>12, <2>4, <2>5, IsSubSeq
  <2> QED BY <2>6 DEF zero
<1> HIDE DEF old, now, out
<1>14. ASSUME NEW i \in 1 .. r.count - m
       PROVE  now[i] = old[m + i]
  <2> DEFINE x == m + (i - 1)
             j == (r.tail + x) % B
  <2>1. i - 1 \in Nat /\ x \in 0 .. B - 1 /\ m + i \in 1 .. r.count /\ x >= m
        /\ r.tail + (m + i) - 1 = r.tail + x
    BY <1>1, <1>2
  <2>2. (new.tail + i - 1) % B = j
    <3>1. new.tail + i - 1 = ((r.tail + m) % B) + (i - 1)
      BY <1>5, <1>8, <2>1 DEF Cells
    <3> QED BY <1>6, <2>1, <3>1
  <2>3. j \in Cells
    BY <1>1, <2>1, CellAt, SMTT(30)
  <2>4. r.tail = (r.tail + 0) % B
    BY <1>1, CellItself
  <2>5. dist(j) = x
    <3>1. 0 \in 0 .. BufSize /\ x >= 0 /\ x - 0 = x
      BY <1>1, <2>1
    <3>2. (((r.tail + x) % BufSize) - ((r.tail + 0) % BufSize)) % BufSize = x
      BY <1>1, <2>1, <3>1, CellDistance
    <3> QED BY <2>4, <3>2
  <2>6. now[i] = data[j]
    BY <1>11, <2>2
  <2> HIDE DEF j, dist, x
  <2>7. ~(dist(j) < m)
    BY <1>2, <2>1, <2>5
  <2>8. old[m + i] = r.data[j]
    BY <1>12, <2>1 DEF j
  <2> QED BY <1>7, <2>3, <2>6, <2>7, <2>8
<1>15. now = SubSeq(old, m + 1, Len(old))
  <2> DEFINE k == Len(old)
  <2>1. k \in Nat /\ k <= Len(old) /\ m <= k /\ Len(now) = k - m
        /\ \A i \in 1 .. k - m : now[i] = old[m + i]
    <3>1. k = r.count /\ r.count \in Nat /\ m \in Nat /\ m <= r.count
      BY <1>1, <1>2, <1>12
    <3>2. k \in Nat /\ k <= k /\ m <= k
      BY <3>1
    <3>3. Len(now) = k - m
      BY <1>11, <3>1
    <3> QED BY <1>14, <3>1, <3>2, <3>3
  <2> HIDE DEF k
  <2>2. now = SubSeq(old, m + 1, k)
    BY <1>2, <1>11, <1>12, <2>1, IsSubSeq, SMTT(30)
  <2> QED BY <2>2 DEF k
<1> QED BY <1>10, <1>13, <1>15 DEF old, now, out, new

-----------------------------------------------------------------------------
(* The invariant is kept.                                                  *)

SoundRings(f) == f \in [Ptys -> RingRecord] /\ \A p \in Ptys : RingSound(f[p])

LEMMA RingReplaced ==
    ASSUME NEW f, SoundRings(f), NEW p \in Ptys, NEW r, RingSound(r)
    PROVE  /\ SoundRings([f EXCEPT ![p] = r])
           /\ [f EXCEPT ![p] = r][p] = r
           /\ \A q \in Ptys \ {p} : [f EXCEPT ![p] = r][q] = f[q]
<1>1. r \in RingRecord
  BY DEF RingSound
<1> QED BY <1>1 DEF SoundRings

LEMMA RingsFacts ==
    ASSUME IInv
    PROVE  SoundRings(host_to_slave) /\ SoundRings(slave_to_host)
BY DEF IInv, RingsSound, SoundRings

LEMMA PtyStarts == PtyInit => IInv
<1> SUFFICES ASSUME PtyInit PROVE IInv
  OBVIOUS
<1>1. SessionsTyped
  BY DEF PtyInit, SessionsTyped
<1>2. RingsSound
  BY EmptyRingSound DEF PtyInit, RingsSound
<1>3. SlaveKeepsSession
  BY DEF PtyInit, SlaveKeepsSession
<1> QED BY <1>1, <1>2, <1>3 DEF IInv

LEMMA NobodyThere ==
    ASSUME IInv, NEW p \in Ptys, p \notin used \/ slave_pid[p] = 0
    PROVE  slave_pid[p] = 0 /\ \A t \in Pids : pty_id[t] # p
<1>1. p # NoPty /\ 0 \notin Pids
  BY PtyConstants DEF PtyAssumption
<1>2. slave_pid[p] # 0 => p \in used
  BY <1>1 DEF IInv, SlaveKeepsSession, Attached, SessionsTyped
<1> QED BY <1>1, <1>2 DEF IInv, SlaveKeepsSession, Attached, SessionsTyped

LEMMA OpenKeeps ==
    ASSUME IInv, NEW p \in Ptys, pty_open(p) \/ pty_close(p)
    PROVE  /\ IInv'
           /\ used' = used \cup {p} \/ used' = used \ {p}
           /\ host_to_slave' = [host_to_slave EXCEPT ![p] = EmptyRing]
           /\ slave_to_host' = [slave_to_host EXCEPT ![p] = EmptyRing]
<1>1. /\ used' = used \cup {p} \/ used' = used \ {p}
      /\ slave_pid' = [slave_pid EXCEPT ![p] = 0]
      /\ host_to_slave' = [host_to_slave EXCEPT ![p] = EmptyRing]
      /\ slave_to_host' = [slave_to_host EXCEPT ![p] = EmptyRing]
      /\ UNCHANGED <<pty_id, last_read>>
      /\ p \notin used \/ slave_pid[p] = 0
  BY DEF pty_open, pty_close, ring_reset
<1>2. slave_pid[p] = 0 /\ \A t \in Pids : pty_id[t] # p
  BY <1>1, NobodyThere
<1>3. SessionsTyped'
  BY <1>1 DEF IInv, SessionsTyped
<1>4. RingsSound'
  BY <1>1, EmptyRingSound, RingsFacts, RingReplaced DEF IInv, RingsSound, SoundRings
<1>5. slave_pid' = slave_pid
  BY <1>1, <1>2 DEF IInv, SessionsTyped
<1>6. SlaveKeepsSession'
  BY <1>1, <1>2, <1>5 DEF IInv, SlaveKeepsSession, Attached, SessionsTyped
<1> QED BY <1>1, <1>3, <1>4, <1>6 DEF IInv

LEMMA AttachKeeps ==
    ASSUME IInv, NEW p \in Ptys, NEW t \in Pids, pty_attach_slave(p, t)
    PROVE  IInv'
<1>1. /\ pty_id[t] = NoPty /\ p \in used /\ slave_pid[p] \in {0, t}
      /\ slave_pid' = [slave_pid EXCEPT ![p] = t] /\ pty_id' = [pty_id EXCEPT ![t] = p]
      /\ UNCHANGED <<used, host_to_slave, slave_to_host, last_read>>
  BY DEF pty_attach_slave
<1>2. NoPty \notin Ptys /\ 0 \notin Pids
  BY PtyConstants DEF PtyAssumption
<1>3. slave_pid[p] = 0
  BY <1>1, <1>2 DEF IInv, SlaveKeepsSession
<1>4. SessionsTyped' /\ RingsSound'
  BY <1>1 DEF IInv, SessionsTyped, RingsSound
<1>5. SlaveKeepsSession'
  BY <1>1, <1>2, <1>3, NobodyThere DEF IInv, SlaveKeepsSession, Attached, SessionsTyped
<1> QED BY <1>4, <1>5 DEF IInv

LEMMA DetachKeeps ==
    ASSUME IInv, NEW t \in Pids, pty_detach_slave(t)
    PROVE  IInv'
<1>1. /\ slave_pid' = [p \in Ptys |-> IF p \in used /\ slave_pid[p] = t THEN 0 ELSE slave_pid[p]]
      /\ pty_id' = [pty_id EXCEPT ![t] = NoPty]
      /\ UNCHANGED <<used, host_to_slave, slave_to_host, last_read>>
  BY DEF pty_detach_slave
<1>2. NoPty \notin Ptys /\ 0 \notin Pids
  BY PtyConstants DEF PtyAssumption
<1>3. SessionsTyped' /\ RingsSound'
  BY <1>1 DEF IInv, SessionsTyped, RingsSound
<1>4. SlaveKeepsSession'
  BY <1>1, <1>2, <1>3 DEF IInv, SlaveKeepsSession, Attached, SessionsTyped
<1> QED BY <1>3, <1>4 DEF IInv

\* One ring of an open session is replaced.
LEMMA RingStepKeeps ==
    ASSUME IInv, NEW p \in used, NEW r, RingSound(r),
           \/ host_to_slave' = [host_to_slave EXCEPT ![p] = r] /\ slave_to_host' = slave_to_host
           \/ slave_to_host' = [slave_to_host EXCEPT ![p] = r] /\ host_to_slave' = host_to_slave,
           UNCHANGED <<used, slave_pid, pty_id>>
    PROVE  IInv'
<1>1. SessionsTyped' /\ p \in Ptys
  BY DEF IInv, SessionsTyped
<1>2. SlaveKeepsSession'
  BY DEF IInv, SlaveKeepsSession, Attached
<1>3. RingsSound'
  <2>1. SoundRings(host_to_slave') /\ SoundRings(slave_to_host')
    BY <1>1, RingsFacts, RingReplaced
  <2>2. \A q \in Ptys \ used :
           host_to_slave'[q] = host_to_slave[q] /\ slave_to_host'[q] = slave_to_host[q]
    BY <1>1 DEF IInv, RingsSound
  <2> QED BY <2>1, <2>2 DEF IInv, RingsSound, SoundRings
<1> QED BY <1>1, <1>2, <1>3 DEF IInv

-----------------------------------------------------------------------------
(* Every step is one of the channel.                                       *)

Queues(f) == [p \in Ptys |-> Contents(f[p])]

\* Assignments to one ring and to one queue.
Replaced(f, p, r) == [f EXCEPT ![p] = r]
Dropped(q, p) == [q EXCEPT ![p] = <<>>]
Written(q, p, chunk) == [q EXCEPT ![p] = Channel!Write(q[p], chunk)]
Taken(q, p, m) == [q EXCEPT ![p] = Channel!Read(q[p], m)]

LEMMA QueueReplaced ==
    ASSUME NEW f, SoundRings(f), NEW p \in Ptys, NEW r, RingSound(r)
    PROVE  Queues([f EXCEPT ![p] = r]) = [Queues(f) EXCEPT ![p] = Contents(r)]
<1> DEFINE g == [f EXCEPT ![p] = r]
<1>1. g[p] = r /\ \A q \in Ptys \ {p} : g[q] = f[q]
  BY DEF SoundRings
<1> HIDE DEF g
<1>2. \A q \in Ptys : Contents(g[q]) = IF q = p THEN Contents(r) ELSE Contents(f[q])
  BY <1>1
<1>3. Queues(g) = [Queues(f) EXCEPT ![p] = Contents(r)]
  BY <1>2 DEF Queues
<1> QED BY <1>3 DEF g

LEMMA EmptyContents == Contents(EmptyRing) = <<>>
<1>1. Contents(EmptyRing) \in Seq(Bytes) /\ Len(Contents(EmptyRing)) = 0
  BY EmptyRingSound, ContentsFacts
<1> QED BY <1>1, EmptySeq

\* A ring that is reset is an empty queue.
LEMMA ResetIsDrop ==
    ASSUME NEW f, SoundRings(f), NEW p \in Ptys
    PROVE  Queues(Replaced(f, p, EmptyRing)) = Dropped(Queues(f), p)
<1> DEFINE r == EmptyRing
<1>1. RingSound(r) /\ Contents(r) = <<>>
  BY EmptyRingSound, EmptyContents
<1> HIDE DEF r
<1>2. Queues([f EXCEPT ![p] = r]) = [Queues(f) EXCEPT ![p] = Contents(r)]
  BY <1>1, QueueReplaced
<1> QED BY <1>1, <1>2, Zenon DEF Replaced, Dropped, r

\* A write to a ring is a write to its queue.
LEMMA WriteIsWrite ==
    ASSUME NEW f, SoundRings(f), NEW p \in Ptys, NEW chunk \in Chunks
    PROVE  /\ RingSound(Pushed(f[p], chunk))
           /\ Queues(Replaced(f, p, Pushed(f[p], chunk))) = Written(Queues(f), p, chunk)
<1> DEFINE r == f[p]
           n == Least(Len(chunk), BufSize - r.count)
           new == Pushed(r, chunk)
<1>1. RingSound(r) /\ chunk \in Seq(Bytes)
  BY PtyConstants DEF SoundRings, PtyAssumption
<1>2. RingSound(new) /\ Contents(new) = Contents(r) \o SubSeq(chunk, 1, n)
  <2>1. n = Least(Len(chunk), BufSize - r.count)
    OBVIOUS
  <2> HIDE DEF n, r, new
  <2> QED BY <1>1, <2>1, PushAppends DEF new
<1>3. Len(Contents(r)) = r.count /\ r.count \in 0 .. BufSize /\ BufSize \in Nat
  BY <1>1, ContentsFacts, RingFields, SizeFacts
<1>4. n = Channel!Accepted(Contents(r), chunk)
  BY <1>1, <1>3 DEF Least, Channel!Accepted
<1>5. Contents(new) = Channel!Write(Contents(r), chunk)
  BY <1>2, <1>4 DEF Channel!Write
<1>6. Queues(f)[p] = Contents(r)
  BY DEF Queues
<1> HIDE DEF new
<1>7. Queues([f EXCEPT ![p] = new]) = [Queues(f) EXCEPT ![p] = Contents(new)]
  BY <1>2, QueueReplaced
<1>8. Queues(Replaced(f, p, new)) = Written(Queues(f), p, chunk)
  BY <1>5, <1>6, <1>7, Zenon DEF Replaced, Written
<1> QED BY <1>2, <1>8 DEF new

\* A read from a ring is a read from its queue.
LEMMA ReadIsRead ==
    ASSUME NEW f, SoundRings(f), NEW p \in Ptys, NEW n \in Nat \ {0}, f[p].count > 0
    PROVE  /\ RingSound(Popped(f[p], n))
           /\ \E m \in 1 .. Len(Queues(f)[p]) :
                 /\ PoppedBytes(f[p], n) = SubSeq(Queues(f)[p], 1, m)
                 /\ Queues(Replaced(f, p, Popped(f[p], n))) = Taken(Queues(f), p, m)
<1> DEFINE r == f[p]
           m == Least(n, r.count)
           new == Popped(r, n)
<1>1. RingSound(r)
  BY DEF SoundRings
<1>2. /\ RingSound(new) /\ PoppedBytes(r, n) = SubSeq(Contents(r), 1, m)
      /\ Contents(new) = SubSeq(Contents(r), m + 1, Len(Contents(r)))
  <2>1. m = Least(n, r.count)
    OBVIOUS
  <2> HIDE DEF m, r, new
  <2> QED BY <1>1, <2>1, PopTakes DEF new
<1>3. Len(Contents(r)) = r.count /\ r.count \in 0 .. BufSize /\ BufSize \in Nat
  BY <1>1, ContentsFacts, RingFields, SizeFacts
<1>4. m \in 1 .. Len(Contents(r))
  BY <1>3 DEF Least
<1>5. Contents(new) = Channel!Read(Contents(r), m)
  BY <1>2 DEF Channel!Read
<1>6. Queues(f)[p] = Contents(r)
  BY DEF Queues
<1> HIDE DEF new, m
<1>7. Queues([f EXCEPT ![p] = new]) = [Queues(f) EXCEPT ![p] = Contents(new)]
  BY <1>2, QueueReplaced
<1>8. Queues(Replaced(f, p, new)) = Taken(Queues(f), p, m)
  BY <1>5, <1>6, <1>7, Zenon DEF Replaced, Taken
<1> QED BY <1>2, <1>4, <1>6, <1>8 DEF new

\* The rest of the refinement mapping.
LEMMA MappedStep ==
    ASSUME IInv, PtyNext
    PROVE  IInv' /\ (Channel!CNext \/ UNCHANGED Channel!chanVars)
<1>1. used \subseteq Ptys /\ SoundRings(host_to_slave) /\ SoundRings(slave_to_host)
  BY RingsFacts DEF IInv, SessionsTyped
<1> DEFINE toSlave == Queues(host_to_slave)
           toHost == Queues(slave_to_host)
<1>2. ASSUME NEW p \in Ptys, pty_open(p)
      PROVE  IInv' /\ Channel!COpen(p) /\ p \in Ptys \ used
  <2>1. /\ IInv' /\ p \notin used /\ used' = used \cup {p} /\ last_read' = last_read
        /\ host_to_slave' = [host_to_slave EXCEPT ![p] = EmptyRing]
        /\ slave_to_host' = [slave_to_host EXCEPT ![p] = EmptyRing]
    BY <1>2, OpenKeeps DEF pty_open, ring_reset
  <2>2. host_to_slave[p] = EmptyRing /\ slave_to_host[p] = EmptyRing
    BY <2>1 DEF IInv, RingsSound
  <2>3. host_to_slave' = host_to_slave /\ slave_to_host' = slave_to_host
    BY <1>1, <2>1, <2>2 DEF SoundRings
  <2> QED BY <2>1, <2>2, <2>3, EmptyContents DEF Channel!COpen
<1>3. ASSUME NEW p \in Ptys, pty_close(p)
      PROVE  IInv' /\ Channel!CClose(p) /\ p \in used
  <2>1. /\ IInv' /\ p \in used /\ used' = used \ {p} /\ last_read' = last_read
        /\ host_to_slave' = [host_to_slave EXCEPT ![p] = EmptyRing]
        /\ slave_to_host' = [slave_to_host EXCEPT ![p] = EmptyRing]
    BY <1>3, OpenKeeps DEF pty_close, ring_reset
  <2>2. /\ host_to_slave' = Replaced(host_to_slave, p, EmptyRing)
        /\ slave_to_host' = Replaced(slave_to_host, p, EmptyRing)
    BY <2>1, Zenon DEF Replaced
  <2>3. Queues(host_to_slave') = Dropped(toSlave, p) /\ Queues(slave_to_host') = Dropped(toHost, p)
    BY <1>1, <2>2, ResetIsDrop
  <2> QED BY <2>1, <2>3, Zenon DEF Channel!CClose, Queues, Dropped
<1>4. ASSUME NEW p \in Ptys, NEW t \in Pids, pty_attach_slave(p, t)
      PROVE  IInv' /\ UNCHANGED Channel!chanVars
  BY <1>4, AttachKeeps DEF pty_attach_slave, Channel!chanVars
<1>5. ASSUME NEW t \in Pids, pty_detach_slave(t)
      PROVE  IInv' /\ UNCHANGED Channel!chanVars
  BY <1>5, DetachKeeps DEF pty_detach_slave, Channel!chanVars
<1>6. ASSUME NEW p \in Ptys, NEW chunk \in Chunks, pty_host_write(p, chunk)
      PROVE  IInv' /\ Channel!CHostWrites(p) /\ p \in used
  <2>1. /\ p \in used /\ host_to_slave' = Replaced(host_to_slave, p, Pushed(host_to_slave[p], chunk))
        /\ UNCHANGED <<used, slave_pid, slave_to_host, pty_id, last_read>>
    BY <1>6, Zenon DEF pty_host_write, Replaced
  <2>0. p \in Ptys
    BY <1>1, <2>1
  <2>2. /\ RingSound(Pushed(host_to_slave[p], chunk))
        /\ Queues(host_to_slave') = Written(toSlave, p, chunk)
    BY <1>1, <2>0, <2>1, WriteIsWrite
  <2>3. IInv'
    BY <2>1, <2>2, RingStepKeeps DEF Replaced
  <2> QED BY <2>1, <2>2, <2>3, Zenon DEF Channel!CHostWrites, Queues, Written
<1>7. ASSUME NEW t \in Pids, NEW chunk \in Chunks, pty_slave_write(t, chunk)
      PROVE  IInv' /\ Channel!CSlaveWrites(pty_id[t]) /\ pty_id[t] \in used
  <2> DEFINE p == pty_id[t]
  <2>1. /\ p \in used /\ slave_to_host' = Replaced(slave_to_host, p, Pushed(slave_to_host[p], chunk))
        /\ UNCHANGED <<used, slave_pid, host_to_slave, pty_id, last_read>>
    BY <1>7, Zenon DEF pty_slave_write, Attached, Replaced
  <2> HIDE DEF p
  <2>0. p \in Ptys
    BY <1>1, <2>1
  <2>2. /\ RingSound(Pushed(slave_to_host[p], chunk))
        /\ Queues(slave_to_host') = Written(toHost, p, chunk)
    BY <1>1, <2>0, <2>1, WriteIsWrite
  <2>3. IInv'
    BY <2>1, <2>2, RingStepKeeps DEF Replaced
  <2>4. Channel!CSlaveWrites(p)
    BY <2>1, <2>2, Zenon DEF Channel!CSlaveWrites, Queues, Written
  <2> QED BY <2>1, <2>3, <2>4 DEF p
<1>8. ASSUME NEW p \in Ptys, NEW n \in Nat \ {0}, pty_host_read(p, n)
      PROVE  IInv' /\ Channel!CHostReads(p) /\ p \in used
  <2>1. /\ p \in used /\ slave_to_host[p].count > 0
        /\ last_read' = PoppedBytes(slave_to_host[p], n)
        /\ slave_to_host' = Replaced(slave_to_host, p, Popped(slave_to_host[p], n))
        /\ UNCHANGED <<used, slave_pid, host_to_slave, pty_id>>
    BY <1>8, Zenon DEF pty_host_read, Replaced
  <2>0. p \in Ptys
    BY <1>1, <2>1
  <2>2. /\ RingSound(Popped(slave_to_host[p], n))
        /\ \E m \in 1 .. Len(toHost[p]) :
              /\ last_read' = SubSeq(toHost[p], 1, m)
              /\ Queues(slave_to_host') = Taken(toHost, p, m)
    BY <1>1, <2>0, <2>1, ReadIsRead
  <2>3. IInv'
    BY <2>1, <2>2, RingStepKeeps DEF Replaced
  <2> QED BY <2>1, <2>2, <2>3, Zenon DEF Channel!CHostReads, Queues, Taken
<1>9. ASSUME NEW t \in Pids, NEW n \in Nat \ {0}, pty_slave_read(t, n)
      PROVE  IInv' /\ Channel!CSlaveReads(pty_id[t]) /\ pty_id[t] \in used
  <2> DEFINE p == pty_id[t]
  <2>1. /\ p \in used /\ host_to_slave[p].count > 0
        /\ last_read' = PoppedBytes(host_to_slave[p], n)
        /\ host_to_slave' = Replaced(host_to_slave, p, Popped(host_to_slave[p], n))
        /\ UNCHANGED <<used, slave_pid, slave_to_host, pty_id>>
    BY <1>9, Zenon DEF pty_slave_read, Attached, Replaced
  <2> HIDE DEF p
  <2>0. p \in Ptys
    BY <1>1, <2>1
  <2>2. /\ RingSound(Popped(host_to_slave[p], n))
        /\ \E m \in 1 .. Len(toSlave[p]) :
              /\ last_read' = SubSeq(toSlave[p], 1, m)
              /\ Queues(host_to_slave') = Taken(toSlave, p, m)
    BY <1>1, <2>0, <2>1, ReadIsRead
  <2>3. IInv'
    BY <2>1, <2>2, RingStepKeeps DEF Replaced
  <2>4. Channel!CSlaveReads(p)
    BY <2>1, <2>2, Zenon DEF Channel!CSlaveReads, Queues, Taken
  <2> QED BY <2>1, <2>3, <2>4 DEF p
<1> QED BY <1>2, <1>3, <1>4, <1>5, <1>6, <1>7, <1>8, <1>9 DEF PtyNext, Channel!CNext

-----------------------------------------------------------------------------
(* Theorems.                                                               *)

LEMMA Unmoved == IInv /\ UNCHANGED ptyVars => IInv' /\ UNCHANGED Channel!chanVars
<1> SUFFICES ASSUME IInv, UNCHANGED ptyVars PROVE IInv' /\ UNCHANGED Channel!chanVars
  OBVIOUS
<1>1. UNCHANGED <<used, slave_pid, host_to_slave, slave_to_host, pty_id, last_read>>
  BY DEF ptyVars
<1>2. IInv'
  BY <1>1 DEF IInv, SessionsTyped, RingsSound, SlaveKeepsSession, Attached
<1>3. UNCHANGED Channel!chanVars
  BY <1>1 DEF Channel!chanVars
<1> QED BY <1>2, <1>3

LEMMA PtyInvariant == PtySpec => []IInv
<1>1. IInv /\ [PtyNext]_ptyVars => IInv'
  BY MappedStep, Unmoved
<1> QED BY <1>1, PtyStarts, PTL DEF PtySpec

\* A task started on a session keeps it until it exits and is alone on it,
\* whatever any program closes, opens or starts (pty_close, pty_open,
\* pty_attach_slave, pty_detach_slave).
THEOREM SessionKept == PtySpec => []SlaveKeepsSession
<1>1. IInv => SlaveKeepsSession
  BY DEF IInv
<1> QED BY <1>1, PtyInvariant, PTL

\* For every ring size and any callers, the rings of pty.c are the two queues
\* of the channel: bytes arrive once, in order and in the session they were
\* written in (ring_push, ring_pop and the functions over them).
THEOREM RingsImplementChannel == PtySpec => ImplementsPtyChannel
<1>1. PtyInit => Channel!CInit
  BY EmptyContents DEF PtyInit, Channel!CInit
<1>2. IInv /\ [PtyNext]_ptyVars => [Channel!CNext]_Channel!chanVars
  BY MappedStep, Unmoved
<1> QED BY <1>1, <1>2, PtyInvariant, PTL DEF PtySpec, ImplementsPtyChannel, Channel!CSpec

-----------------------------------------------------------------------------
(* Rings of lines.                                                         *)

OldestOf(head, count, max) == IF count < max THEN 0 ELSE head

\* A ring that holds the lines of log, the latest max of those pushed.
RingHolds(ring, head, count, log, max) ==
    /\ ring = [i \in 0 .. max - 1 |-> ring[i]]
    /\ head \in 0 .. max - 1 /\ count \in 0 .. max
    /\ count < max => head = count
    /\ log = [i \in 1 .. count |-> ring[(OldestOf(head, count, max) + i - 1) % max]]

\* What shell_push_scrollback_line and shell_history_add leave of the lines
\* they keep: the latest max.
Latest(log, l, max) ==
    LET all == Append(log, l)
    IN  SubSeq(all, IF Len(all) > max THEN 2 ELSE 1, Len(all))

LEMMA WrapSum ==
    ASSUME NEW max \in Nat \ {0}, NEW a \in 0 .. max - 1, NEW k \in 0 .. max
    PROVE  (a + k) % max = IF a + k < max THEN a + k ELSE a + k - max
<1>1. CASE a + k < max
  BY <1>1
<1>2. CASE a + k >= max
  BY <1>2
<1> QED BY <1>1, <1>2

LEMMA RingPushed ==
    ASSUME NEW max \in Nat \ {0}, NEW ring, NEW head, NEW count, NEW log, NEW l,
           RingHolds(ring, head, count, log, max)
    PROVE  RingHolds([ring EXCEPT ![head] = l], (head + 1) % max,
                     IF count < max THEN count + 1 ELSE count, Latest(log, l, max), max)
<1> DEFINE Cell == 0 .. max - 1
           new == [ring EXCEPT ![head] = l]
           h == (head + 1) % max
           c == IF count < max THEN count + 1 ELSE count
           V == {ring[i] : i \in Cell} \cup {l}
           all == Append(log, l)
           Slot(hd, ct, i) == (OldestOf(hd, ct, max) + i - 1) % max
<1>1. /\ head \in Cell /\ count \in 0 .. max
      /\ count < max => head = count
  BY DEF RingHolds
<1>0. ring = [i \in Cell |-> ring[i]] /\ log = [i \in 1 .. count |-> ring[Slot(head, count, i)]]
  BY DEF RingHolds
<1>2. h = IF head + 1 < max THEN head + 1 ELSE 0
  <2>1. 1 \in 0 .. max
    OBVIOUS
  <2>2. (head + 1) % max = IF head + 1 < max THEN head + 1 ELSE head + 1 - max
    BY <1>1, <2>1, WrapSum
  <2> QED BY <1>1, <2>2
<1>3. h \in Cell /\ c \in 0 .. max /\ (c < max => h = c)
  BY <1>1, <1>2
<1>4. new = [i \in Cell |-> new[i]] /\ new[head] = l /\ \A i \in Cell : i # head => new[i] = ring[i]
  BY <1>0, <1>1
<1>5. \A i \in 1 .. count : Slot(head, count, i) \in Cell
  BY <1>1 DEF OldestOf
<1> HIDE DEF Slot
<1>6. log \in Seq(V) /\ Len(log) = count /\ \A i \in 1 .. count : log[i] = ring[Slot(head, count, i)]
  <2>1. \A i \in 1 .. count : ring[Slot(head, count, i)] \in V
    BY <1>5
  <2>2. count \in Nat
    BY <1>1
  <2>3. \A i \in 1 .. count : log[i] \in V /\ log[i] = ring[Slot(head, count, i)]
    BY <1>0, <2>1
  <2>4. log \in [1 .. count -> V]
    BY <1>0, <2>1
  <2> HIDE DEF V
  <2> QED BY <2>2, <2>3, <2>4
<1>7. all \in Seq(V) /\ Len(all) = count + 1 /\ all[count + 1] = l /\ \A i \in 1 .. count : all[i] = log[i]
  <2> HIDE DEF V
  <2> QED BY <1>6, l \in V DEF V
<1> HIDE DEF V, all, new, h
<1>8. CASE count < max
  <2>1. Latest(log, l, max) = all
    BY <1>1, <1>6, <1>7, <1>8 DEF Latest, all
  <2>2. ASSUME NEW i \in 1 .. c PROVE all[i] = new[Slot(h, c, i)]
    <3>1. OldestOf(head, count, max) = 0 /\ OldestOf(h, c, max) = 0
      BY <1>1, <1>2, <1>3, <1>8 DEF OldestOf
    <3>2. i - 1 \in Cell /\ i \in Nat /\ i \in 1 .. count + 1
      BY <1>1, <1>8
    <3>3. Slot(h, c, i) = i - 1 /\ Slot(head, count, i) = i - 1
      <4>1. (0 + i - 1) % max = i - 1
        BY <3>2
      <4> QED BY <3>1, <4>1 DEF Slot
    <3>4. CASE i = count + 1
      BY <1>1, <1>4, <1>7, <1>8, <3>3, <3>4
    <3>5. CASE i # count + 1
      <4>1. i \in 1 .. count /\ i - 1 # head
        BY <1>1, <1>8, <3>2, <3>5
      <4> QED BY <1>4, <1>6, <1>7, <3>2, <3>3, <4>1
    <3> QED BY <3>4, <3>5
  <2>3. all = [i \in 1 .. c |-> new[Slot(h, c, i)]]
    BY <1>1, <1>7, <1>8, <2>2
  <2> QED BY <1>3, <1>4, <2>1, <2>3 DEF RingHolds, h, new, Slot
<1>9. CASE count = max
  <2> DEFINE rest == SubSeq(all, 2, max + 1)
  <2>1. Latest(log, l, max) = rest
    BY <1>1, <1>6, <1>7, <1>9 DEF Latest, all
  <2>2. rest \in Seq(V) /\ Len(rest) = max /\ \A i \in 1 .. max : rest[i] = all[i + 1]
    BY <1>7, <1>9
  <2> HIDE DEF rest
  <2>3. OldestOf(head, count, max) = head /\ OldestOf(h, c, max) = h
    BY <1>1, <1>9 DEF OldestOf
  <2>4. ASSUME NEW i \in 1 .. max PROVE rest[i] = new[Slot(h, c, i)]
    <3>0. i \in 0 .. max /\ i - 1 \in 0 .. max /\ i \in Nat
      OBVIOUS
    <3>1. (head + i) % max = IF head + i < max THEN head + i ELSE head + i - max
      BY <1>1, <3>0, WrapSum
    <3>2. (h + (i - 1)) % max = IF h + (i - 1) < max THEN h + (i - 1) ELSE h + (i - 1) - max
      BY <1>3, <3>0, WrapSum
    <3>3. h + i - 1 = h + (i - 1) /\ head + (i + 1) - 1 = head + i
      BY <1>1, <1>3, <3>0
    <3>4. (h + (i - 1)) % max = (head + i) % max /\ (head + i) % max \in Cell
      <4> HIDE DEF c
      <4> QED BY <1>1, <1>2, <3>0, <3>1, <3>2
    <3>5. Slot(h, c, i) = (head + i) % max /\ Slot(head, count, i + 1) = (head + i) % max
      BY <2>3, <3>3, <3>4 DEF Slot
    <3>6. CASE i = max
      <4>1. (head + i) % max = head
        BY <1>1, <3>1, <3>6
      <4> QED BY <1>4, <1>7, <1>9, <2>2, <3>5, <3>6, <4>1
    <3>7. CASE i # max
      <4>0. i + 1 \in 1 .. count
        BY <1>9, <3>7
      <4>1. rest[i] = ring[(head + i) % max]
        BY <1>6, <1>7, <2>2, <3>5, <4>0
      <4>2. (head + i) % max # head
        BY <1>1, <3>0, <3>1, <3>7
      <4> QED BY <1>4, <3>4, <3>5, <4>1, <4>2
    <3> QED BY <3>6, <3>7
  <2>5. rest = [i \in 1 .. c |-> new[Slot(h, c, i)]]
    BY <1>1, <1>9, <2>2, <2>4
  <2> QED BY <1>3, <1>4, <2>1, <2>5 DEF RingHolds, h, new, Slot
<1> QED BY <1>1, <1>8, <1>9

LEMMA NothingPushed ==
    ASSUME NEW max \in Nat \ {0}
    PROVE  RingHolds([i \in 0 .. max - 1 |-> ""], 0, 0, <<>>, max)
BY DEF RingHolds

-----------------------------------------------------------------------------
(* The shell's record.                                                     *)

ShellFields == {"cwd", "prev_cwd", "ext_running", "ext_pid", "ext_pty", "history",
                "history_next", "history_count", "past", "scrollback", "scroll_head",
                "scroll_count", "log"}

ShellSound(sh) ==
    /\ DOMAIN sh = ShellFields
    /\ RingHolds(sh.scrollback, sh.scroll_head, sh.scroll_count, sh.log, ScrollMax)
    /\ RingHolds(sh.history, sh.history_next, sh.history_count, sh.past, HistoryMax)

SameSession(a, b) ==
    b.ext_running = a.ext_running /\ b.ext_pid = a.ext_pid /\ b.ext_pty = a.ext_pty

\* b is a shell whose rings are sound and whose command is that of a.
Follows(a, b) == ShellSound(b) /\ SameSession(a, b)

LEMMA ShellSizes ==
    /\ ScrollMax \in Nat \ {0} /\ HistoryMax \in Nat \ {0} /\ ViewMax \in 2 .. ScrollMax
    /\ DrainChunk \in 1 .. BufSize
BY ShellConstants DEF ShellAssumption

LEMMA LinePushed ==
    ASSUME NEW sh, ShellSound(sh), NEW l
    PROVE  Follows(sh, shell_push_scrollback_line(sh, l))
<1> DEFINE s == shell_push_scrollback_line(sh, l)
<1>1. /\ DOMAIN s = ShellFields
      /\ s.scrollback = [sh.scrollback EXCEPT ![sh.scroll_head] = l]
      /\ s.scroll_head = (sh.scroll_head + 1) % ScrollMax
      /\ s.scroll_count = IF sh.scroll_count < ScrollMax THEN sh.scroll_count + 1 ELSE sh.scroll_count
      /\ s.log = Latest(sh.log, l, ScrollMax)
      /\ s.history = sh.history /\ s.history_next = sh.history_next
      /\ s.history_count = sh.history_count /\ s.past = sh.past
      /\ SameSession(sh, s)
  BY DEF ShellSound, ShellFields, shell_push_scrollback_line, Latest, SameSession
<1> HIDE DEF s
<1>2. RingHolds(s.scrollback, s.scroll_head, s.scroll_count, s.log, ScrollMax)
  <2>1. RingHolds(sh.scrollback, sh.scroll_head, sh.scroll_count, sh.log, ScrollMax) /\ ScrollMax \in Nat \ {0}
    BY ShellSizes DEF ShellSound
  <2>2. RingHolds([sh.scrollback EXCEPT ![sh.scroll_head] = l], (sh.scroll_head + 1) % ScrollMax,
                  IF sh.scroll_count < ScrollMax THEN sh.scroll_count + 1 ELSE sh.scroll_count,
                  Latest(sh.log, l, ScrollMax), ScrollMax)
    BY <2>1, RingPushed
  <2> QED BY <1>1, <2>2
<1> QED BY <1>1, <1>2 DEF ShellSound, Follows, s

LEMMA TextPushed ==
    ASSUME NEW sh, ShellSound(sh)
    PROVE  Follows(sh, shell_push_text(sh))
BY LinePushed DEF shell_push_text

LEMMA HistoryPushed ==
    ASSUME NEW sh, ShellSound(sh), NEW l
    PROVE  Follows(sh, shell_history_add(sh, l))
<1> DEFINE s == shell_history_add(sh, l)
<1>1. CASE shell_history_get_last(sh) = <<l>>
  BY <1>1 DEF shell_history_add, Follows, SameSession
<1>2. CASE shell_history_get_last(sh) # <<l>>
  <2>1. /\ DOMAIN s = ShellFields
        /\ s.history = [sh.history EXCEPT ![sh.history_next] = l]
        /\ s.history_next = (sh.history_next + 1) % HistoryMax
        /\ s.history_count = IF sh.history_count < HistoryMax THEN sh.history_count + 1 ELSE sh.history_count
        /\ s.past = Latest(sh.past, l, HistoryMax)
        /\ s.scrollback = sh.scrollback /\ s.scroll_head = sh.scroll_head
        /\ s.scroll_count = sh.scroll_count /\ s.log = sh.log
        /\ SameSession(sh, s)
    BY <1>2 DEF ShellSound, ShellFields, shell_history_add, Latest, SameSession
  <2> HIDE DEF s
  <2>2. RingHolds(s.history, s.history_next, s.history_count, s.past, HistoryMax)
    <3>1. RingHolds(sh.history, sh.history_next, sh.history_count, sh.past, HistoryMax) /\ HistoryMax \in Nat \ {0}
      BY ShellSizes DEF ShellSound
    <3>2. RingHolds([sh.history EXCEPT ![sh.history_next] = l], (sh.history_next + 1) % HistoryMax,
                    IF sh.history_count < HistoryMax THEN sh.history_count + 1 ELSE sh.history_count,
                    Latest(sh.past, l, HistoryMax), HistoryMax)
      BY <3>1, RingPushed
    <3> QED BY <2>1, <3>2
  <2> QED BY <2>1, <2>2 DEF ShellSound, Follows, s
<1> QED BY <1>1, <1>2

\* What is not about the rings leaves them as they are.
LEMMA RingsKept ==
    ASSUME NEW sh, ShellSound(sh), NEW s, DOMAIN s = ShellFields,
           s.history = sh.history, s.history_next = sh.history_next,
           s.history_count = sh.history_count, s.past = sh.past,
           s.scrollback = sh.scrollback, s.scroll_head = sh.scroll_head,
           s.scroll_count = sh.scroll_count, s.log = sh.log
    PROVE  ShellSound(s)
BY DEF ShellSound

LEMMA LineEntered ==
    ASSUME NEW sh, ShellSound(sh), NEW l
    PROVE  Follows(sh, Entered(sh, l).sh)
<1> DEFINE found == shell_history_expand(sh, l)
           echoed == shell_push_scrollback_line(sh, l.cmd)
<1>1. Follows(sh, echoed)
  BY LinePushed
<1> HIDE DEF echoed
<1>2. Follows(sh, shell_push_text(echoed))
  BY <1>1, TextPushed DEF Follows, SameSession
<1>3. Follows(sh, shell_history_add(echoed, l))
  BY <1>1, HistoryPushed DEF Follows, SameSession
<1>4. Follows(sh, shell_history_add(shell_push_scrollback_line(echoed, found[1].cmd), found[1]))
  BY <1>1, LinePushed, HistoryPushed DEF Follows, SameSession
<1>5. CASE found = <<>>
  <2>1. Entered(sh, l).sh = shell_push_text(echoed)
    BY <1>5 DEF Entered, echoed
  <2> QED BY <1>2, <2>1
<1>6. CASE found # <<>> /\ IsRecall(l)
  <2>1. Entered(sh, l).sh = shell_history_add(shell_push_scrollback_line(echoed, found[1].cmd), found[1])
    BY <1>6 DEF Entered, echoed
  <2> QED BY <1>4, <2>1
<1>7. CASE found # <<>> /\ ~IsRecall(l)
  <2>1. Entered(sh, l).sh = shell_history_add(echoed, l)
    BY <1>7 DEF Entered, echoed
  <2> QED BY <1>3, <2>1
<1> QED BY <1>5, <1>6, <1>7

LEMMA DirChanged ==
    ASSUME NEW sh, ShellSound(sh), NEW l
    PROVE  Follows(sh, ChangedDir(sh, l))
<1> DEFINE target == IF l.arg.back THEN {sh.prev_cwd} ELSE shell_normalize_path(sh.cwd, l.arg)
           s == ChangedDir(sh, l)
<1>1. CASE \E p \in target : IsDirectory(fs, p)
  <2>1. s = [sh EXCEPT !.prev_cwd = IF target = {sh.cwd} THEN sh.prev_cwd ELSE sh.cwd,
                       !.cwd = CHOOSE p \in target : TRUE]
    BY <1>1, Zenon DEF ChangedDir
  <2> HIDE DEF s, target
  <2>2. /\ DOMAIN s = ShellFields
        /\ s.history = sh.history /\ s.history_next = sh.history_next
        /\ s.history_count = sh.history_count /\ s.past = sh.past
        /\ s.scrollback = sh.scrollback /\ s.scroll_head = sh.scroll_head
        /\ s.scroll_count = sh.scroll_count /\ s.log = sh.log
        /\ SameSession(sh, s)
    BY <2>1 DEF ShellSound, ShellFields, SameSession
  <2> QED BY <2>2, RingsKept DEF Follows, s
<1>2. CASE ~\E p \in target : IsDirectory(fs, p)
  <2>1. s = shell_push_text(sh)
    BY <1>2, Zenon DEF ChangedDir
  <2> QED BY <2>1, TextPushed
<1> QED BY <1>1, <1>2

\* clear
LEMMA ScreenCleared ==
    ASSUME NEW sh, ShellSound(sh)
    PROVE  Follows(sh, [sh EXCEPT !.scroll_count = 0, !.scroll_head = 0, !.log = <<>>])
<1> DEFINE s == [sh EXCEPT !.scroll_count = 0, !.scroll_head = 0, !.log = <<>>]
<1>1. /\ DOMAIN s = ShellFields
      /\ s.scroll_count = 0 /\ s.scroll_head = 0 /\ s.log = <<>>
      /\ s.scrollback = sh.scrollback
      /\ s.history = sh.history /\ s.history_next = sh.history_next
      /\ s.history_count = sh.history_count /\ s.past = sh.past
      /\ SameSession(sh, s)
  BY DEF ShellSound, ShellFields, SameSession
<1> HIDE DEF s
<1>2. RingHolds(s.scrollback, s.scroll_head, s.scroll_count, s.log, ScrollMax)
  BY <1>1, ShellSizes DEF ShellSound, RingHolds
<1> QED BY <1>1, <1>2 DEF ShellSound, Follows, s

LEMMA RingsShown ==
    ASSUME ShellSound(shell)
    PROVE  RingsKeepLatest
<1> DEFINE count == shell.scroll_count
           head == shell.scroll_head
           ring == shell.scrollback
           log == shell.log
           take == Least(count, ViewMax - 1)
           oldest == OldestOf(head, count, ScrollMax)
           view == [i \in 1 .. take |-> ring[(oldest + count - take + i - 1) % ScrollMax]]
<1>1. /\ head \in 0 .. ScrollMax - 1 /\ count \in 0 .. ScrollMax
      /\ log = [i \in 1 .. count |-> ring[(oldest + i - 1) % ScrollMax]]
  BY DEF ShellSound, RingHolds
<1>2. shell_refresh_view(shell) = view
  BY DEF shell_refresh_view, OldestOf
<1>3. ScrollMax \in Nat \ {0} /\ HistoryMax \in Nat \ {0} /\ ViewMax \in 2 .. ScrollMax
  BY ShellSizes
<1>4. take \in 0 .. count /\ count \in Nat /\ oldest \in 0 .. ScrollMax - 1
  BY <1>1, <1>3 DEF Least, OldestOf
<1>5. Len(log) = count /\ log \in Seq({log[i] : i \in 1 .. count}) /\ Len(view) = take
  <2>1. log \in [1 .. count -> {log[i] : i \in 1 .. count}]
    BY <1>1
  <2>2. DOMAIN log = 1 .. count /\ DOMAIN view = 1 .. take /\ take \in Nat
    BY <1>1, <1>4
  <2>3. count \in Nat
    BY <1>4
  <2> HIDE DEF log, view, count, take
  <2>4. Len(log) = count /\ Len(view) = take
    BY <2>2, <2>3
  <2>5. log \in Seq({log[i] : i \in 1 .. count})
    BY <2>1, <2>3
  <2> QED BY <2>4, <2>5
<1>6. SubSeq(log, count - take + 1, count) = view
  <2> DEFINE m == count - take
             V == {log[i] : i \in 1 .. count}
  <2>0. m \in Nat /\ m <= count /\ count - m = take
    BY <1>4
  <2>1. ASSUME NEW i \in 1 .. take PROVE view[i] = log[m + i] /\ view[i] \in V
    <3>1. m + i \in 1 .. count
      BY <1>4
    <3>2. oldest + (m + i) - 1 = oldest + count - take + i - 1
      BY <1>4
    <3> HIDE DEF log, count, take, ring, oldest, m
    <3> QED BY <1>1, <3>1, <3>2
  <2>2. view \in Seq(V)
    <3>1. view \in [1 .. take -> V] /\ take \in Nat
      BY <1>4, <2>1
    <3> HIDE DEF V, view
    <3> QED BY <3>1
  <2> HIDE DEF V, view, log, count, take, m
  <2>3. view = SubSeq(log, m + 1, count)
    BY <1>4, <1>5, <2>0, <2>1, <2>2, IsSubSeq DEF V
  <2> QED BY <2>3 DEF m
<1>7. ASSUME NEW n \in 1 .. HistoryMax
      PROVE  shell_history_get_by_number(shell, n) =
                IF n <= Len(shell.past) THEN <<shell.past[n]>> ELSE <<>>
  <2> DEFINE start == OldestOf(shell.history_next, shell.history_count, HistoryMax)
  <2>1. /\ shell.history_count \in 0 .. HistoryMax
        /\ shell.past = [i \in 1 .. shell.history_count |-> shell.history[(start + i - 1) % HistoryMax]]
    BY DEF ShellSound, RingHolds
  <2>2. start = shell_history_start(shell)
    BY DEF OldestOf, shell_history_start
  <2>3. Len(shell.past) = shell.history_count
    <3>1. DOMAIN shell.past = 1 .. shell.history_count /\ shell.history_count \in Nat
      BY <1>3, <2>1
    <3> QED BY <2>1, <3>1
  <2>4. n \in 1 .. shell.history_count <=> n <= shell.history_count
    BY <1>3, <2>1
  <2> HIDE DEF start
  <2> QED BY <2>1, <2>2, <2>3, <2>4 DEF shell_history_get_by_number
<1> HIDE DEF view
<1>8. Len(view) = Least(Len(log), ViewMax - 1)
  BY <1>5
<1>9. view = SubSeq(log, Len(log) - Len(view) + 1, Len(log))
  BY <1>5, <1>6
<1> QED BY <1>2, <1>7, <1>8, <1>9 DEF RingsKeepLatest

-----------------------------------------------------------------------------
(* Sessions of pseudo terminals: the invariant.                            *)

SessionTyped ==
    /\ shell.ext_running \in BOOLEAN
    /\ children \in [Pids -> {"none", "running", "terminated", "reaped"}]
    /\ ptysh \in [at : {"start", "spawn", "bridge", "closing"}, pty : Ptys \cup {NoPty},
                  left : SUBSET Ptys]

\* Programs that run are those attached to a session.
RunningAttached == \A t \in Pids : children[t] = "running" <=> pty_id[t] # NoPty

\* The session of the desktop's command, at each place of the loop.
DesktopSession ==
    /\ pc = "spawn" => /\ ~shell.ext_running /\ shell.ext_pty \in used \ {ptysh.pty}
                       /\ slave_pid[shell.ext_pty] = 0
    /\ ~shell.ext_running /\ pc # "spawn" => shell.ext_pty = NoPty
    /\ pc \in {"started", "close", "wait"} => shell.ext_running
    /\ shell.ext_running => /\ shell.ext_pid \in Pids /\ shell.ext_pty \in Ptys
                            /\ children[shell.ext_pid] \in {"running", "terminated"}
    /\ shell.ext_running /\ pc # "wait" =>
          /\ shell.ext_pty \in used \ {ptysh.pty}
          /\ slave_pid[shell.ext_pty] =
                IF children[shell.ext_pid] = "running" THEN shell.ext_pid ELSE 0
    /\ pc = "wait" => children[shell.ext_pid] = "terminated"

\* The session of ptysh.
PtyshSession ==
    /\ ptysh.at = "start" <=> ptysh.pty = NoPty
    /\ ptysh.at # "start" => ptysh.pty \in used
    /\ ptysh.at = "spawn" => slave_pid[ptysh.pty] = 0

\* Between the close and the wait the session is the desktop's no more.
NoneLost ==
    /\ used \subseteq {shell.ext_pty, ptysh.pty} \cup ptysh.left
    /\ pc = "wait" => used \subseteq {ptysh.pty} \cup ptysh.left

Sessions == SessionTyped /\ RunningAttached /\ DesktopSession /\ PtyshSession /\ NoneLost

LEMMA PtyFacts ==
    /\ NoPty \notin Ptys /\ 0 \notin Pids
    /\ IInv => /\ used \subseteq Ptys
               /\ slave_pid \in [Ptys -> Pids \cup {0}] /\ pty_id \in [Pids -> Ptys \cup {NoPty}]
               /\ SlaveKeepsSession
BY PtyConstants DEF PtyAssumption, IInv, SessionsTyped

LEMMA SessionsOwned == ASSUME IInv, Sessions PROVE CommandOwnsSession
BY PtyFacts DEF Sessions, SessionTyped, DesktopSession, PtyshSession, NoneLost, CommandOwnsSession

\* No session, task or ptysh moves, and the desktop goes on to another place.
LEMMA QuietStep ==
    ASSUME Sessions, UNCHANGED <<used, slave_pid, pty_id, children, ptysh>>, SameSession(shell, shell'),
           pc' = "spawn" <=> pc = "spawn", pc' = "wait" <=> pc = "wait",
           pc' \in {"started", "close"} => shell.ext_running
    PROVE  Sessions'
BY DEF Sessions, SessionTyped, RunningAttached, DesktopSession, PtyshSession, NoneLost, SameSession

\* OpenSession
LEMMA OpenStep ==
    ASSUME IInv, Sessions, NEW p \in Ptys, pty_open(p), UNCHANGED <<children, ptysh>>,
           ~shell.ext_running, shell'.ext_running = shell.ext_running, shell'.ext_pid = shell.ext_pid,
           shell'.ext_pty = p, pc # "spawn", pc' = "spawn"
    PROVE  Sessions'
BY PtyFacts DEF Sessions, SessionTyped, RunningAttached, DesktopSession, PtyshSession, NoneLost,
       pty_open

LEMMA SpawnStep ==
    ASSUME IInv, Sessions, NEW t \in Pids, pty_attach_slave(shell.ext_pty, t), children[t] = "none",
           children' = [children EXCEPT ![t] = "running"], UNCHANGED ptysh, pc = "spawn",
           shell'.ext_running, shell'.ext_running \in BOOLEAN, shell'.ext_pid = t,
           shell'.ext_pty = shell.ext_pty, pc' = "started"
    PROVE  Sessions'
BY PtyFacts DEF Sessions, SessionTyped, RunningAttached, DesktopSession, PtyshSession, NoneLost,
       pty_attach_slave

LEMMA SpawnFailsStep ==
    ASSUME IInv, Sessions, pc = "spawn", pty_close(shell.ext_pty), UNCHANGED <<children, ptysh>>,
           shell'.ext_running = shell.ext_running, shell'.ext_pid = shell.ext_pid,
           shell'.ext_pty = NoPty, pc' \in {"keyboard", "mouse"}
    PROVE  Sessions'
BY PtyFacts DEF Sessions, SessionTyped, RunningAttached, DesktopSession, PtyshSession, NoneLost,
       pty_close

LEMMA CloseStep ==
    ASSUME IInv, Sessions, pc = "close", pty_close(shell.ext_pty), UNCHANGED <<children, ptysh, shell>>,
           pc' = "wait"
    PROVE  Sessions'
BY PtyFacts DEF Sessions, SessionTyped, RunningAttached, DesktopSession, PtyshSession, NoneLost,
       pty_close

LEMMA CollectStep ==
    ASSUME IInv, Sessions, pc = "wait", UNCHANGED <<used, slave_pid, pty_id, ptysh>>,
           children' = [children EXCEPT ![shell.ext_pid] = "reaped"],
           ~shell'.ext_running, shell'.ext_running \in BOOLEAN, shell'.ext_pty = NoPty, pc' = "panels"
    PROVE  Sessions'
<1>1. shell.ext_pid \in Pids /\ children[shell.ext_pid] = "terminated"
  BY DEF Sessions, DesktopSession
<1>2. SessionTyped'
  BY <1>1 DEF Sessions, SessionTyped
<1>3. RunningAttached'
  BY <1>1 DEF Sessions, SessionTyped, RunningAttached
<1>4. DesktopSession' /\ PtyshSession'
  BY DEF Sessions, DesktopSession, PtyshSession
<1>5. NoneLost'
  BY DEF Sessions, NoneLost, DesktopSession
<1> QED BY <1>2, <1>3, <1>4, <1>5 DEF Sessions

LEMMA ExitStep ==
    ASSUME IInv, Sessions, NEW t \in Pids, ProgramExits(t), UNCHANGED pc
    PROVE  Sessions'
BY PtyFacts DEF Sessions, SessionTyped, RunningAttached, DesktopSession, PtyshSession, NoneLost,
       ProgramExits, pty_detach_slave, SlaveKeepsSession, Attached

LEMMA PtyshSteps ==
    ASSUME IInv, Sessions, Ptysh, UNCHANGED pc
    PROVE  Sessions'
<1>1. CASE PtyshOpens
  <2>1. PICK p \in Ptys : pty_open(p) /\ ptysh' = [ptysh EXCEPT !.at = "spawn", !.pty = p]
    BY <1>1 DEF PtyshOpens
  <2>2. /\ ptysh.at = "start" /\ ptysh.pty = NoPty /\ p \notin used
        /\ ptysh'.at = "spawn" /\ ptysh'.pty = p /\ ptysh'.left = ptysh.left
        /\ UNCHANGED <<shell, children>>
        /\ used' = used \cup {p} /\ slave_pid' = [slave_pid EXCEPT ![p] = 0] /\ UNCHANGED pty_id
    BY <1>1, <2>1 DEF PtyshOpens, pty_open, Sessions, SessionTyped, PtyshSession
  <2>3. SessionTyped'
    BY <2>1, <2>2 DEF Sessions, SessionTyped
  <2>4. RunningAttached'
    BY <2>2 DEF Sessions, RunningAttached
  <2>5. DesktopSession'
    BY <2>2, PtyFacts DEF Sessions, SessionTyped, DesktopSession
  <2>6. PtyshSession' /\ NoneLost'
    BY <2>2, PtyFacts DEF Sessions, PtyshSession, NoneLost
  <2> QED BY <2>3, <2>4, <2>5, <2>6 DEF Sessions
<1>2. CASE PtyshReads
  <2>1. UNCHANGED <<used, slave_pid, pty_id, children, ptysh>> /\ shell' = shell
    BY <1>2 DEF PtyshReads, pty_host_read, shellVars
  <2>2. pc \in {"started", "close"} => shell.ext_running
    BY DEF Sessions, DesktopSession
  <2> QED BY <2>1, <2>2, QuietStep DEF SameSession
<1>3. CASE PtyshEscape
  BY <1>3, PtyFacts DEF Sessions, SessionTyped, RunningAttached, DesktopSession, PtyshSession, NoneLost,
         PtyshEscape, pty_host_write
<1>4. CASE PtyshCloses
  BY <1>4, PtyFacts DEF Sessions, SessionTyped, RunningAttached, DesktopSession, PtyshSession, NoneLost,
         PtyshCloses, pty_close, ptyVars
<1>5. ASSUME NEW t \in Pids, PtyshSpawns(t) PROVE Sessions'
  BY <1>5, PtyFacts DEF Sessions, SessionTyped, RunningAttached, DesktopSession, PtyshSession, NoneLost,
         PtyshSpawns, pty_attach_slave
<1> QED BY <1>1, <1>2, <1>3, <1>4, <1>5 DEF Ptysh

-----------------------------------------------------------------------------
(* Every step of the desktop, of programs and of ptysh.                    *)

Origin == user \in Users /\ resume \in {"keyboard", "mouse"}

DInv == IInv /\ ShellSound(shell) /\ Sessions /\ Origin

\* A step that calls pty.c once or not at all and keeps the rest.
Kept == (PtyNext \/ UNCHANGED ptyVars) /\ ShellSound(shell') /\ Sessions' /\ Origin'

LEMMA KeptKeeps == ASSUME DInv, Kept PROVE DInv'
BY MappedStep, Unmoved DEF DInv, Kept

\* The place of the loop the desktop goes to without a system call.
QuietMove ==
    /\ pc' = "spawn" <=> pc = "spawn"
    /\ pc' = "wait" <=> pc = "wait"
    /\ pc' \in {"started", "close"} => shell.ext_running

LEMMA StayingQuiet == ASSUME DInv, pc' = pc PROVE QuietMove
BY DEF DInv, Sessions, DesktopSession, QuietMove

LEMMA QuietKeeps ==
    ASSUME DInv, UNCHANGED <<ptyVars, children, ptysh, user, resume>>, Follows(shell, shell'), QuietMove
    PROVE  Kept
<1>1. UNCHANGED <<used, slave_pid, pty_id, children, ptysh>>
  BY DEF ptyVars
<1>2. Sessions'
  BY <1>1, QuietStep DEF DInv, QuietMove, Follows
<1> QED BY <1>2 DEF Kept, DInv, Origin, Follows

\* Actions that leave the shell and the kernel alone.
LEMMA WindowStepKeeps ==
    ASSUME DInv, UNCHANGED <<shell, ptyVars, children, ptysh, user, resume, pc>>
    PROVE  Kept
<1>1. Follows(shell, shell')
  BY DEF DInv, Follows, SameSession
<1> QED BY <1>1, StayingQuiet, QuietKeeps

LEMMA BuiltInKeeps ==
    ASSUME DInv, NEW sh, Follows(shell, sh), NEW d, BuiltIn(sh, d)
    PROVE  Kept
<1>1. shell' = sh /\ UNCHANGED <<ptyVars, children, ptysh, user, resume, pc>>
  BY DEF BuiltIn, AfterCommand, kernelVars
<1> QED BY <1>1, StayingQuiet, QuietKeeps

LEMMA ChangeFilesKeeps ==
    ASSUME DInv, NEW sh, Follows(shell, sh), NEW d, NEW l, ChangeFiles(sh, d, l)
    PROVE  Kept
<1>1. shell' = shell_push_text(sh) /\ UNCHANGED <<ptyVars, children, ptysh, user, resume, pc>>
  BY DEF ChangeFiles, AfterCommand, kernelVars
<1>2. Follows(shell, shell_push_text(sh))
  BY TextPushed DEF Follows, SameSession
<1> QED BY <1>1, <1>2, StayingQuiet, QuietKeeps

LEMMA StartCommandKeeps ==
    ASSUME DInv, NEW sh, Follows(shell, sh), NEW d, StartCommand(sh, d), pc \in {"keyboard", "mouse"}
    PROVE  Kept
<1>1. CASE BuiltIn(shell_push_text(sh), d)
  <2>1. Follows(shell, shell_push_text(sh))
    BY TextPushed DEF Follows, SameSession
  <2> QED BY <1>1, <2>1, BuiltInKeeps
<1>2. CASE OpenSession(sh) /\ pc' = "spawn" /\ resume' = pc /\ AfterCommand(d)
  <2>1. PICK p \in Ptys : pty_open(p) /\ shell' = [sh EXCEPT !.ext_pty = p]
    BY <1>2 DEF OpenSession
  <2>2. UNCHANGED <<children, ptysh, user>> /\ ~sh.ext_running
    BY <1>2 DEF OpenSession, AfterCommand
  <2> DEFINE s == [sh EXCEPT !.ext_pty = p]
  <2>3. /\ DOMAIN s = ShellFields /\ s.ext_pty = p
        /\ s.ext_running = sh.ext_running /\ s.ext_pid = sh.ext_pid
        /\ s.history = sh.history /\ s.history_next = sh.history_next
        /\ s.history_count = sh.history_count /\ s.past = sh.past
        /\ s.scrollback = sh.scrollback /\ s.scroll_head = sh.scroll_head
        /\ s.scroll_count = sh.scroll_count /\ s.log = sh.log
    BY DEF Follows, ShellSound, ShellFields
  <2> HIDE DEF s
  <2>4. ShellSound(s)
    BY <2>3, RingsKept DEF Follows
  <2>5. s.ext_running = shell.ext_running /\ s.ext_pid = shell.ext_pid /\ ~shell.ext_running
    BY <2>2, <2>3 DEF Follows, SameSession
  <2>6. shell' = s
    BY <2>1 DEF s
  <2>7. Sessions'
    BY <1>2, <2>1, <2>2, <2>3, <2>5, <2>6, OpenStep DEF DInv
  <2>8. PtyNext
    BY <2>1 DEF PtyNext
  <2> QED BY <1>2, <2>2, <2>4, <2>6, <2>7, <2>8 DEF Kept, DInv, Origin
<1> QED BY <1>1, <1>2 DEF StartCommand

LEMMA RunLineKeeps ==
    ASSUME DInv, NEW d, NEW line, shell_run_line(d, line), pc \in {"keyboard", "mouse"}
    PROVE  Kept
<1> DEFINE e == Entered(shell, line)
           l == e.run[1]
<1>1. Follows(shell, e.sh)
  BY LineEntered DEF DInv
<1>2. Follows(shell, shell_push_text(e.sh))
  BY <1>1, TextPushed DEF Follows, SameSession
<1>3. Follows(shell, ChangedDir(e.sh, l))
  BY <1>1, DirChanged DEF Follows, SameSession
<1>4. Follows(shell, [e.sh EXCEPT !.scroll_count = 0, !.scroll_head = 0, !.log = <<>>])
  BY <1>1, ScreenCleared DEF Follows, SameSession
<1>5. \/ BuiltIn(e.sh, d)
      \/ BuiltIn(shell_push_text(e.sh), d)
      \/ BuiltIn(ChangedDir(e.sh, l), d)
      \/ BuiltIn([e.sh EXCEPT !.scroll_count = 0, !.scroll_head = 0, !.log = <<>>], d)
      \/ BuiltIn(shell_push_text(e.sh), Hidden(d, ShellWindow))
      \/ ChangeFiles(e.sh, d, l)
      \/ StartCommand(e.sh, d)
  BY Zenon DEF shell_run_line
<1> HIDE DEF e, l
<1> QED BY <1>1, <1>2, <1>3, <1>4, <1>5, BuiltInKeeps, ChangeFilesKeeps, StartCommandKeeps

LEMMA ActivateKeeps ==
    ASSUME DInv, NEW d, desktop_files_activate_selected(d), pc \in {"keyboard", "mouse"}
    PROVE  Kept
<1> DEFINE name == SelectedName(d)
           Went(dir) == [shell EXCEPT !.prev_cwd = IF dir = shell.cwd THEN @ ELSE shell.cwd, !.cwd = dir]
<1>1. \/ \E dir : shell' = Went(dir) /\ UNCHANGED <<ptyVars, children, ptysh, user, resume, pc>>
      \/ shell_run_line(files_rebuild_view(d, shell.cwd), [cmd |-> "run", arg |-> name])
      \/ UNCHANGED <<shell, ptyVars, children, ptysh, user, resume, pc>>
  BY Zenon DEF desktop_files_activate_selected, kernelVars
<1>2. ASSUME NEW dir, shell' = Went(dir), UNCHANGED <<ptyVars, children, ptysh, user, resume, pc>>
      PROVE  Kept
  <2> DEFINE s == Went(dir)
  <2>1. /\ DOMAIN s = ShellFields
        /\ s.history = shell.history /\ s.history_next = shell.history_next
        /\ s.history_count = shell.history_count /\ s.past = shell.past
        /\ s.scrollback = shell.scrollback /\ s.scroll_head = shell.scroll_head
        /\ s.scroll_count = shell.scroll_count /\ s.log = shell.log
        /\ SameSession(shell, s)
    BY DEF DInv, ShellSound, ShellFields, SameSession
  <2> HIDE DEF s
  <2>2. ShellSound(s)
    BY <2>1, RingsKept DEF DInv
  <2>3. Follows(shell, shell')
    BY <1>2, <2>1, <2>2 DEF Follows, s
  <2> QED BY <1>2, <2>3, StayingQuiet, QuietKeeps
<1> QED BY <1>1, <1>2, RunLineKeeps, WindowStepKeeps

LEMMA WindowKeyKeeps == ASSUME DInv, NEW d, WindowKey(d) PROVE Kept
<1>1. UNCHANGED <<shell, ptyVars, children, ptysh, user, resume, pc>>
  BY DEF WindowKey, shellVars
<1> QED BY <1>1, WindowStepKeeps

LEMMA UserFacts == ASSUME DInv PROVE user.typed \subseteq Chunks /\ user.output \subseteq Chunks
BY DesktopConstants DEF DInv, Origin, DesktopAssumption

\* A host writes to a session: SendLine, PtyshKey.
LEMMA HostWriteKeeps ==
    ASSUME DInv, NEW p, NEW chunk \in Chunks, pty_host_write(p, chunk),
           UNCHANGED <<shell, children, ptysh, user, resume, pc>>
    PROVE  Kept
<1>1. p \in Ptys /\ UNCHANGED <<used, slave_pid, pty_id>>
  BY PtyFacts DEF DInv, pty_host_write
<1>2. PtyNext
  BY <1>1 DEF PtyNext
<1>3. Sessions'
  BY <1>1, StayingQuiet, QuietStep DEF DInv, QuietMove, SameSession
<1> QED BY <1>2, <1>3 DEF Kept, DInv, Origin

LEMMA KeyLineKeeps == ASSUME DInv, KeyLine PROVE Kept
<1>1. pc = "keyboard"
  BY DEF KeyLine, Key, Event
<1>2. ASSUME NEW line, shell_run_line(rt, line) PROVE Kept
  BY <1>1, <1>2, RunLineKeeps
<1>3. ASSUME NEW chunk \in user.typed, SendLine(chunk), UNCHANGED <<prev, pc, resume, user>> PROVE Kept
  <2>1. chunk \in Chunks
    BY UserFacts
  <2> QED BY <1>3, <2>1, HostWriteKeeps DEF SendLine
<1> QED BY <1>2, <1>3 DEF KeyLine

LEMMA KeyboardKeeps == ASSUME DInv, Keyboard PROVE Kept
<1>1. CASE KeyEscape
  <2>1. UNCHANGED <<ptyVars, children, ptysh, user, resume>> /\ shell' = shell /\ pc = "keyboard" /\ pc' = "closed"
    BY <1>1 DEF KeyEscape, Key, Event, shellVars
  <2>2. Follows(shell, shell') /\ QuietMove
    BY <2>1 DEF DInv, Follows, SameSession, QuietMove
  <2> QED BY <2>1, <2>2, QuietKeeps
<1>2. CASE KeyTab
  BY <1>2, WindowKeyKeeps DEF KeyTab
<1>3. CASE KeyLine
  BY <1>3, KeyLineKeeps
<1>4. CASE KeySelect
  BY <1>4, WindowKeyKeeps DEF KeySelect
<1>5. CASE KeyOpen
  BY <1>5, ActivateKeeps DEF KeyOpen, Key, Event
<1>6. CASE KeyDelete
  BY <1>6, WindowStepKeeps DEF KeyDelete, desktop_files_delete_selected, kernelVars
<1>7. CASE KeyRefresh
  BY <1>7, WindowKeyKeeps DEF KeyRefresh
<1>8. CASE KeyToggle
  BY <1>8, WindowKeyKeeps DEF KeyToggle
<1>9. CASE KeyMove
  BY <1>9, WindowKeyKeeps DEF KeyMove
<1>10. CASE KeyTheme
  BY <1>10, WindowKeyKeeps DEF KeyTheme
<1>11. CASE KeyClose
  BY <1>11, WindowKeyKeeps DEF KeyClose
<1> QED BY <1>1, <1>2, <1>3, <1>4, <1>5, <1>6, <1>7, <1>8, <1>9, <1>10, <1>11 DEF Keyboard

LEMMA MouseKeeps == ASSUME DInv, Mouse PROVE Kept
<1>1. PICK p \in Points :
         \/ \E down \in BOOLEAN : MouseMove(p, down)
         \/ PressIcon(p) \/ PressBackground(p) \/ PressWindow(p)
         \/ \E e \in 1 .. EntryMax, quick \in BOOLEAN : PressEntry(p, e, quick)
  BY DEF Mouse
<1>2. ASSUME NEW down \in BOOLEAN, MouseMove(p, down) PROVE Kept
  BY <1>2, WindowKeyKeeps, Zenon DEF MouseMove
<1>3. CASE PressIcon(p)
  BY <1>3, WindowKeyKeeps, Zenon DEF PressIcon
<1>4. CASE PressBackground(p)
  BY <1>4, WindowKeyKeeps, Zenon DEF PressBackground
<1>5. CASE PressWindow(p)
  BY <1>5, WindowKeyKeeps, Zenon DEF PressWindow
<1>6. ASSUME NEW e \in 1 .. EntryMax, NEW quick \in BOOLEAN, PressEntry(p, e, quick) PROVE Kept
  <2>1. pc \in {"keyboard", "mouse"}
    BY <1>6 DEF PressEntry, Press, Event
  <2> QED BY <1>6, <2>1, WindowKeyKeeps, ActivateKeeps, Zenon DEF PressEntry
<1> QED BY <1>1, <1>2, <1>3, <1>4, <1>5, <1>6

LEMMA SpawnKeeps == ASSUME DInv, Spawn PROVE Kept
<1>0. pc = "spawn" /\ shell.ext_pty \in Ptys /\ UNCHANGED <<user, resume>>
  BY PtyFacts DEF Spawn, Goto, DInv, Sessions, DesktopSession
<1>1. ASSUME NEW t \in Pids, SpawnSucceeds(t), pc' = "started" PROVE Kept
  <2> DEFINE s == [shell EXCEPT !.ext_running = TRUE, !.ext_pid = t]
  <2>1. /\ DOMAIN s = ShellFields
        /\ s.history = shell.history /\ s.history_next = shell.history_next
        /\ s.history_count = shell.history_count /\ s.past = shell.past
        /\ s.scrollback = shell.scrollback /\ s.scroll_head = shell.scroll_head
        /\ s.scroll_count = shell.scroll_count /\ s.log = shell.log
        /\ s.ext_pid = t /\ s.ext_pty = shell.ext_pty
    BY DEF DInv, ShellSound, ShellFields
  <2>2. s.ext_running /\ s.ext_running \in BOOLEAN
    BY DEF DInv, ShellSound, ShellFields
  <2>3. shell' = s
    BY <1>1 DEF SpawnSucceeds
  <2> HIDE DEF s
  <2>4. ShellSound(s)
    BY <2>1, RingsKept DEF DInv
  <2>5. Sessions'
    BY <1>0, <1>1, <2>1, <2>2, <2>3, SpawnStep DEF DInv, SpawnSucceeds
  <2>6. PtyNext
    BY <1>0, <1>1 DEF SpawnSucceeds, PtyNext
  <2> QED BY <1>0, <2>3, <2>4, <2>5, <2>6 DEF Kept, DInv, Origin
<1>2. CASE SpawnFails /\ pc' = resume
  <2> DEFINE b == [shell EXCEPT !.ext_pty = NoPty]
             s == shell_push_text(b)
  <2>1. /\ DOMAIN b = ShellFields
        /\ b.history = shell.history /\ b.history_next = shell.history_next
        /\ b.history_count = shell.history_count /\ b.past = shell.past
        /\ b.scrollback = shell.scrollback /\ b.scroll_head = shell.scroll_head
        /\ b.scroll_count = shell.scroll_count /\ b.log = shell.log
        /\ b.ext_pty = NoPty /\ b.ext_running = shell.ext_running /\ b.ext_pid = shell.ext_pid
    BY DEF DInv, ShellSound, ShellFields
  <2>2. shell' = s
    BY <1>2 DEF SpawnFails
  <2> HIDE DEF b
  <2>3. ShellSound(b)
    BY <2>1, RingsKept DEF DInv
  <2>4. ShellSound(s) /\ s.ext_pty = NoPty /\ s.ext_running = shell.ext_running /\ s.ext_pid = shell.ext_pid
    BY <2>1, <2>3, TextPushed DEF Follows, SameSession
  <2> HIDE DEF s
  <2>5. Sessions'
    BY <1>0, <1>2, <2>2, <2>4, SpawnFailsStep DEF DInv, Origin, SpawnFails
  <2>6. PtyNext
    BY <1>0, <1>2 DEF SpawnFails, PtyNext
  <2> QED BY <1>0, <2>2, <2>4, <2>5, <2>6 DEF Kept, DInv, Origin
<1> QED BY <1>1, <1>2 DEF Spawn, Goto

\* A host reads from a session: DrainOutput, PtyshReads.
LEMMA HostReadIsPty ==
    ASSUME DInv, NEW p, pty_host_read(p, Least(DrainChunk, slave_to_host[p].count))
    PROVE  PtyNext /\ UNCHANGED <<used, slave_pid, pty_id>>
<1>1. p \in Ptys /\ slave_to_host[p] \in RingRecord /\ slave_to_host[p].count > 0
  BY PtyFacts DEF DInv, IInv, RingsSound, pty_host_read
<1>2. Least(DrainChunk, slave_to_host[p].count) \in Nat \ {0}
  BY <1>1, ShellSizes, SizeFacts DEF Least, RingRecord
<1> QED BY <1>1, <1>2 DEF PtyNext, pty_host_read

LEMMA DrainKeeps == ASSUME DInv, Drain PROVE Kept
<1>1. PtyNext /\ UNCHANGED <<used, slave_pid, pty_id>>
  BY HostReadIsPty DEF Drain, DrainOutput
<1>2. shell' = shell_push_text(shell) /\ UNCHANGED <<children, ptysh, pc, user, resume>>
  BY DEF Drain, DrainOutput
<1>3. Follows(shell, shell')
  BY <1>2, TextPushed DEF DInv
<1>4. Sessions'
  BY <1>1, <1>2, <1>3, StayingQuiet, QuietStep DEF DInv, QuietMove, Follows
<1> QED BY <1>1, <1>2, <1>3, <1>4 DEF Kept, DInv, Origin, Follows

LEMMA CloseKeeps == ASSUME DInv, Close PROVE Kept
<1>1. pc = "close" /\ UNCHANGED <<user, resume>>
  BY DEF Close, Goto
<1>2. CASE UNCHANGED <<shellVars, ptyVars>> /\ pc' = "panels"
  <2>1. UNCHANGED <<ptyVars, children, ptysh, user, resume>> /\ Follows(shell, shell')
    BY <1>1, <1>2 DEF shellVars, Follows, SameSession, DInv
  <2>2. QuietMove
    BY <1>1, <1>2 DEF QuietMove
  <2> QED BY <2>1, <2>2, QuietKeeps
<1>3. CASE CloseSession /\ pc' = "wait"
  <2>1. pty_close(shell.ext_pty) /\ UNCHANGED <<children, ptysh, shell>>
    BY <1>3 DEF CloseSession
  <2>2. Sessions'
    BY <1>1, <1>3, <2>1, CloseStep DEF DInv
  <2>3. shell.ext_pty \in Ptys
    BY <2>1, PtyFacts DEF DInv, pty_close
  <2>4. PtyNext
    BY <2>1, <2>3 DEF PtyNext
  <2> QED BY <1>1, <2>1, <2>2, <2>4 DEF Kept, DInv, Origin
<1> QED BY <1>2, <1>3 DEF Close, Goto

LEMMA WaitKeeps == ASSUME DInv, Wait PROVE Kept
<1>1. /\ pc = "wait" /\ pc' = "panels" /\ UNCHANGED <<user, resume, ptyVars, ptysh>>
      /\ children' = [children EXCEPT ![shell.ext_pid] = "reaped"]
      /\ \E code \in {0, 1} : shell' = shell_clear_external_state(IF code = 0 THEN shell ELSE shell_push_text(shell))
  BY DEF Wait, Goto, CollectChild
<1>2. PICK b : ShellSound(b) /\ shell' = shell_clear_external_state(b)
  BY <1>1, TextPushed DEF DInv, Follows
<1> DEFINE s == shell_clear_external_state(b)
<1>3. /\ DOMAIN s = ShellFields
      /\ s.history = b.history /\ s.history_next = b.history_next
      /\ s.history_count = b.history_count /\ s.past = b.past
      /\ s.scrollback = b.scrollback /\ s.scroll_head = b.scroll_head
      /\ s.scroll_count = b.scroll_count /\ s.log = b.log
      /\ s.ext_pty = NoPty
  BY <1>2 DEF shell_clear_external_state, ShellSound, ShellFields
<1>4. ~s.ext_running /\ s.ext_running \in BOOLEAN
  BY <1>2 DEF shell_clear_external_state, ShellSound, ShellFields
<1> HIDE DEF s
<1>5. ShellSound(s) /\ shell' = s
  BY <1>2, <1>3, RingsKept DEF s
<1>6. Sessions'
  BY <1>1, <1>3, <1>4, <1>5, CollectStep DEF DInv, ptyVars
<1> QED BY <1>1, <1>5, <1>6 DEF Kept, DInv, Origin

LEMMA LoopKeeps == ASSUME DInv, Loop PROVE Kept
<1>1. ASSUME UNCHANGED <<shellVars, ptyVars, resume, user>>, QuietMove PROVE Kept
  <2>1. UNCHANGED <<ptyVars, children, ptysh, user, resume>> /\ Follows(shell, shell')
    BY <1>1 DEF shellVars, Follows, SameSession, DInv
  <2> QED BY <1>1, <2>1, QuietKeeps
<1>2. CASE PollingDone
  BY <1>1, <1>2 DEF PollingDone, Goto, QuietMove
<1>3. CASE DrainEnds
  BY <1>1, <1>3 DEF DrainEnds, Goto, QuietMove, DInv, Origin
<1> QED BY <1>2, <1>3, SpawnKeeps, DrainKeeps, CloseKeeps, WaitKeeps DEF Loop

LEMMA ProgramsKeep == ASSUME DInv, Programs(user.output), UNCHANGED desktopVars PROVE Kept
<1>1. UNCHANGED <<pc, user, resume>>
  BY DEF desktopVars
<1>2. ASSUME UNCHANGED <<used, slave_pid, pty_id, shellVars>>, PtyNext PROVE Kept
  <2>1. UNCHANGED <<used, slave_pid, pty_id, children, ptysh>> /\ shell' = shell
    BY <1>2 DEF shellVars
  <2>2. Sessions'
    BY <1>1, <2>1, StayingQuiet, QuietStep DEF DInv, QuietMove, SameSession
  <2> QED BY <1>1, <1>2, <2>1, <2>2 DEF Kept, DInv, Origin
<1>3. ASSUME NEW t \in Pids, NEW chunk \in user.output, ProgramWrites(t, chunk) PROVE Kept
  <2>1. PtyNext
    BY <1>3, UserFacts DEF ProgramWrites, PtyNext
  <2> QED BY <1>2, <1>3, <2>1 DEF ProgramWrites, pty_slave_write
<1>4. ASSUME NEW t \in Pids, ProgramReads(t) PROVE Kept
  <2>1. PtyNext
    BY <1>4 DEF ProgramReads, PtyNext
  <2> QED BY <1>2, <1>4, <2>1 DEF ProgramReads, pty_slave_read
<1>5. ASSUME NEW t \in Pids, ProgramExits(t) PROVE Kept
  <2>1. PtyNext /\ shell' = shell
    BY <1>5 DEF ProgramExits, PtyNext
  <2>2. Sessions'
    BY <1>1, <1>5, ExitStep DEF DInv
  <2> QED BY <1>1, <2>1, <2>2 DEF Kept, DInv, Origin
<1> QED BY <1>3, <1>4, <1>5 DEF Programs

LEMMA PtyshKeeps == ASSUME DInv, Ptysh, UNCHANGED desktopVars PROVE Kept
<1>1. UNCHANGED <<pc, user, resume>>
  BY DEF desktopVars
<1>2. Sessions'
  BY <1>1, PtyshSteps DEF DInv
<1>3. shell' = shell
  BY DEF Ptysh, PtyshOpens, PtyshReads, PtyshEscape, PtyshCloses, PtyshSpawns, shellVars
<1>4. PtyNext \/ UNCHANGED ptyVars
  <2>1. CASE PtyshOpens
    BY <2>1 DEF PtyshOpens, PtyNext
  <2>2. CASE PtyshReads
    BY <2>2, HostReadIsPty DEF PtyshReads
  <2>3. CASE PtyshEscape
    BY <2>3, PtyFacts DEF PtyshEscape, PtyNext, DInv, pty_host_write
  <2>4. CASE PtyshCloses
    BY <2>4, PtyFacts DEF PtyshCloses, PtyNext, DInv, pty_close
  <2>5. ASSUME NEW t \in Pids, PtyshSpawns(t) PROVE PtyNext
    BY <2>5, PtyFacts DEF PtyshSpawns, PtyNext, DInv, pty_attach_slave
  <2> QED BY <2>1, <2>2, <2>3, <2>4, <2>5 DEF Ptysh
<1> QED BY <1>1, <1>2, <1>3, <1>4 DEF Kept, DInv, Origin

LEMMA StepKeeps == ASSUME DInv, Next PROVE Kept
<1>1. CASE Render
  <2>1. UNCHANGED <<ptyVars, children, ptysh, user, resume>> /\ shell' = shell
    BY <1>1 DEF Render, shellVars
  <2>2. Follows(shell, shell')
    BY <2>1 DEF DInv, Follows, SameSession
  <2>3. QuietMove
    BY <1>1 DEF Render, QuietMove
  <2> QED BY <2>1, <2>2, <2>3, QuietKeeps
<1>2. ASSUME NEW chunk \in user.typed, PtyshKey(chunk), UNCHANGED desktopVars PROVE Kept
  BY <1>2, UserFacts, HostWriteKeeps DEF PtyshKey, desktopVars, shellVars
<1>3. CASE OtherFiles
  BY <1>3, WindowStepKeeps DEF OtherFiles, desktopVars, kernelVars
<1> QED BY <1>1, <1>2, <1>3, KeyboardKeeps, MouseKeeps, LoopKeeps, ProgramsKeep, PtyshKeeps DEF Next

LEMMA ShellStarts == ASSUME Init PROVE DInv
<1>1. IInv
  BY PtyStarts DEF Init, ShellInit
<1> DEFINE blank == [cwd |-> <<>>, prev_cwd |-> <<>>,
                     ext_running |-> FALSE, ext_pid |-> 0, ext_pty |-> NoPty,
                     history |-> [i \in 0 .. HistoryMax - 1 |-> ""],
                     history_next |-> 0, history_count |-> 0, past |-> <<>>,
                     scrollback |-> [i \in 0 .. ScrollMax - 1 |-> ""],
                     scroll_head |-> 0, scroll_count |-> 0, log |-> <<>>]
<1>2. shell = shell_push_scrollback_line(shell_push_scrollback_line(blank, "boot"), "help")
  BY DEF Init, ShellInit
<1>3. /\ DOMAIN blank = ShellFields /\ blank.ext_pty = NoPty
      /\ blank.scroll_head = 0 /\ blank.scroll_count = 0 /\ blank.log = <<>>
      /\ blank.history_next = 0 /\ blank.history_count = 0 /\ blank.past = <<>>
      /\ blank.history = [i \in 0 .. HistoryMax - 1 |-> ""]
      /\ blank.scrollback = [i \in 0 .. ScrollMax - 1 |-> ""]
  BY DEF ShellFields
<1>4. ~blank.ext_running /\ blank.ext_running \in BOOLEAN
  OBVIOUS
<1> HIDE DEF blank
<1>5. /\ RingHolds(blank.scrollback, blank.scroll_head, blank.scroll_count, blank.log, ScrollMax)
      /\ RingHolds(blank.history, blank.history_next, blank.history_count, blank.past, HistoryMax)
  BY <1>3, ShellSizes, NothingPushed
<1>6. ShellSound(blank)
  BY <1>3, <1>5 DEF ShellSound
<1>7. Follows(blank, shell)
  BY <1>2, <1>6, LinePushed DEF Follows, SameSession
<1>8. shell.ext_pty = NoPty /\ ~shell.ext_running /\ shell.ext_running \in BOOLEAN
  BY <1>3, <1>4, <1>7 DEF Follows, SameSession
<1>9. /\ children = [t \in Pids |-> "none"] /\ ptysh = [at |-> "start", pty |-> NoPty, left |-> {}]
      /\ used = {} /\ pty_id = [t \in Pids |-> NoPty] /\ pc \in {"keyboard", "closed"}
  BY DEF Init, ShellInit, PtyInit
<1>10. Sessions
  BY <1>8, <1>9, PtyFacts DEF Sessions, SessionTyped, RunningAttached, DesktopSession, PtyshSession, NoneLost
<1> QED BY <1>1, <1>7, <1>10 DEF DInv, Origin, Init, Follows

LEMMA DesktopInvariant == Spec => []DInv
<1>1. DInv /\ [Next]_vars => DInv'
  <2> SUFFICES ASSUME DInv, [Next]_vars PROVE DInv'
    OBVIOUS
  <2>1. CASE Next
    BY <2>1, StepKeeps, KeptKeeps
  <2>2. CASE UNCHANGED vars
    <3>1. UNCHANGED <<shell, ptyVars, children, ptysh, user, resume, pc>>
      BY <2>2 DEF vars, desktopVars, shellVars
    <3> QED BY <3>1, WindowStepKeeps, KeptKeeps
  <2> QED BY <2>1, <2>2
<1> QED BY <1>1, ShellStarts, PTL DEF Spec

\* Whatever is typed, run, printed and recalled, and for every size of the
\* rings, the shell window shows the latest lines and !n is the nth command
\* (shell_push_scrollback_line, shell_history_add, shell_refresh_view).
THEOREM RingsAlwaysLatest == Spec => []RingsKeepLatest
<1>1. DInv => RingsKeepLatest
  BY RingsShown DEF DInv
<1> QED BY <1>1, DesktopInvariant, PTL

\* Whoever opens, starts, exits, closes and waits between the system calls of
\* the desktop, its command has a session of its own, it never blocks in
\* waitpid, and without an uncollected command it has no session open
\* (shell_start_external_command, shell_pump_external, ptysh.c and pty.c).  A
\* desktop that is left while its command runs leaves that session open.
THEOREM CommandAlwaysOwnsSession == Spec => []CommandOwnsSession
<1>1. DInv => CommandOwnsSession
  BY SessionsOwned DEF DInv
<1> QED BY <1>1, DesktopInvariant, PTL

\* The desktop, ptysh and the programs they start use pty.c as PtyChannel
\* allows: every step of the whole is one of the channel or none.
THEOREM DesktopUsesChannel == Spec => ImplementsPtyChannel
<1>1. Init => Channel!CInit
  <2>1. Init => PtyInit
    BY DEF Init, ShellInit
  <2> QED BY <2>1, EmptyContents DEF PtyInit, Channel!CInit
<1>2. DInv /\ [Next]_vars => [Channel!CNext]_Channel!chanVars
  <2> SUFFICES ASSUME DInv, [Next]_vars PROVE [Channel!CNext]_Channel!chanVars
    OBVIOUS
  <2>1. IInv
    BY DEF DInv
  <2>2. PtyNext \/ UNCHANGED ptyVars
    BY StepKeeps DEF Kept, vars
  <2> QED BY <2>1, <2>2, MappedStep, Unmoved
<1> QED BY <1>1, <1>2, DesktopInvariant, PTL DEF Spec, ImplementsPtyChannel, Channel!CSpec

-----------------------------------------------------------------------------
(* Greatest and least members, and induction over the naturals.            *)

LEMMA LessWellFounded == IsWellFoundedOn({p \in Nat \X Nat : p[1] < p[2]}, Nat)
BY NatLessThanWellFounded DEF OpToRel

LEMMA LeastNatural ==
    ASSUME NEW B, B \subseteq Nat, B # {}
    PROVE  \E x \in B : \A y \in B : x <= y
<1> DEFINE R == {p \in Nat \X Nat : p[1] < p[2]}
<1>1. IsWellFoundedOn(R, Nat)
  BY LessWellFounded
<1> HIDE DEF R
<1>2. PICK x \in B : \A y \in B : ~(<<y, x>> \in R)
  BY <1>1, WFMin
<1>3. ASSUME NEW y \in B PROVE x <= y
  <2>1. x \in Nat /\ y \in Nat
    BY <1>2
  <2>2. <<y, x>> \in R <=> y < x
    BY <2>1 DEF R
  <2> QED BY <1>2, <2>1, <2>2
<1> QED BY <1>3

\* A set with 0 and the successors of its members.
LEMMA NaturalInduction ==
    ASSUME NEW T, 0 \in T, \A n \in Nat : n \in T => n + 1 \in T
    PROVE  Nat \subseteq T
<1> SUFFICES ASSUME NEW m \in Nat, m \notin T PROVE FALSE
  OBVIOUS
<1> DEFINE B == {n \in Nat : n \notin T}
<1>1. B \subseteq Nat /\ B # {}
  OBVIOUS
<1> HIDE DEF B
<1>2. PICK x \in B : \A y \in B : x <= y
  BY <1>1, LeastNatural
<1>3. x \in Nat /\ x \notin T /\ x # 0
  BY <1>2 DEF B
<1>4. x - 1 \in Nat /\ x - 1 \notin T
  <2>1. x - 1 \in Nat /\ (x - 1) + 1 = x
    BY <1>3
  <2> QED BY <1>3, <2>1
<1>5. x - 1 \in B
  BY <1>4 DEF B
<1> QED BY <1>2, <1>3, <1>5

LEMMA MinOf ==
    ASSUME NEW S, S \subseteq Nat, S # {}
    PROVE  Min(S) \in S /\ \A x \in S : Min(S) <= x
<1>1. \E x \in S : \A y \in S : x =< y
  BY LeastNatural
<1> QED BY <1>1, Zenon DEF Min

LEMMA MaxOf ==
    ASSUME NEW n \in Nat, NEW S, S \subseteq 1 .. n, S # {}
    PROVE  Max(S) \in S /\ \A x \in S : x <= Max(S)
<1> DEFINE B == {m \in Nat : n - m \in S}
<1>1. B # {}
  <2>1. PICK x \in S : x \in 1 .. n
    OBVIOUS
  <2>2. n - x \in Nat /\ n - (n - x) = x
    BY <2>1
  <2>3. n - x \in B
    BY <2>1, <2>2
  <2> QED BY <2>3
<1>2. PICK m \in B : \A y \in B : m <= y
  <2>1. B \subseteq Nat
    OBVIOUS
  <2> HIDE DEF B
  <2> QED BY <1>1, <2>1, LeastNatural
<1>3. \A x \in S : n - m >= x
  <2> SUFFICES ASSUME NEW x \in S PROVE n - m >= x
    OBVIOUS
  <2>1. x \in 1 .. n /\ n - x \in Nat /\ n - (n - x) = x
    OBVIOUS
  <2>2. n - x \in B
    BY <2>1
  <2>3. m <= n - x /\ m \in Nat
    BY <1>2, <2>2
  <2> QED BY <2>1, <2>3
<1>4. \E x \in S : \A y \in S : x >= y
  BY <1>2, <1>3
<1>5. Max(S) \in S /\ \A y \in S : Max(S) >= y
  BY <1>4, Zenon DEF Max
<1> QED BY <1>5

LEMMA MaxTwo ==
    ASSUME NEW a \in Int, NEW b \in Int
    PROVE  Max({a, b}) = IF a >= b THEN a ELSE b
<1>1. \E x \in {a, b} : \A y \in {a, b} : x >= y
  OBVIOUS
<1>2. Max({a, b}) \in {a, b} /\ \A y \in {a, b} : Max({a, b}) >= y
  BY <1>1, Zenon DEF Max
<1> QED BY <1>2

LEMMA MinTwo ==
    ASSUME NEW a \in Int, NEW b \in Int
    PROVE  Min({a, b}) = IF a <= b THEN a ELSE b
<1>1. \E x \in {a, b} : \A y \in {a, b} : x =< y
  OBVIOUS
<1>2. Min({a, b}) \in {a, b} /\ \A y \in {a, b} : Min({a, b}) =< y
  BY <1>1, Zenon DEF Min
<1> QED BY <1>2

-----------------------------------------------------------------------------
(* The stacking order.                                                     *)

Places == 1 .. WindowCount

\* Every window has one place in the stacking order.
Stacked(z) ==
    /\ z \in [Places -> Windows]
    /\ \A j, k \in Places : z[j] = z[k] => j = k
    /\ \A i \in Windows : \E k \in Places : z[k] = i

LEMMA WindowFacts ==
    /\ WindowCount \in Nat /\ WindowCount >= 2 /\ 1 \in Places /\ WindowCount \in Places
    /\ ShellWindow \in Windows /\ FilesWindow \in Windows /\ -1 \notin Windows
    /\ ShellWindow # FilesWindow
BY WindowsConstants DEF WindowsAssumption, Places, Windows, ShellWindow, FilesWindow

\* k is the place of the topmost window of S.
TopPlace(z, S, k) == k \in Places /\ z[k] \in S /\ \A j \in Places : j > k => z[j] \notin S

LEMMA TopIs ==
    ASSUME NEW d, NEW S, NEW k, TopPlace(d.z_order, S, k)
    PROVE  TopOf(d, S) = d.z_order[k]
<1> DEFINE M == {j \in 1 .. WindowCount : d.z_order[j] \in S}
<1>1. M \subseteq 1 .. WindowCount /\ k \in M /\ WindowCount \in Nat
  BY WindowFacts DEF TopPlace, Places
<1>2. \A j \in M : j <= k
  BY <1>1 DEF TopPlace, Places
<1>3. TopOf(d, S) = d.z_order[Max(M)]
  BY DEF TopOf, TopPlace
<1> HIDE DEF M
<1>4. Max(M) \in M /\ \A j \in M : j <= Max(M)
  BY <1>1, MaxOf
<1>5. Max(M) = k
  <2>1. k \in 1 .. WindowCount /\ Max(M) \in 1 .. WindowCount
    BY <1>1, <1>4
  <2>2. Max(M) <= k /\ k <= Max(M)
    BY <1>1, <1>2, <1>4
  <2> QED BY <2>1, <2>2
<1> QED BY <1>3, <1>5

LEMMA TopExists ==
    ASSUME NEW z, Stacked(z), NEW S, S \subseteq Windows, S # {}
    PROVE  \E k \in Places : TopPlace(z, S, k)
<1> DEFINE M == {j \in 1 .. WindowCount : z[j] \in S}
<1>1. M \subseteq 1 .. WindowCount /\ M # {} /\ WindowCount \in Nat
  BY WindowFacts DEF Stacked, Places
<1>2. Max(M) \in M /\ \A j \in M : j <= Max(M)
  <2> HIDE DEF M
  <2> QED BY <1>1, MaxOf
<1>3. TopPlace(z, S, Max(M))
  BY <1>2 DEF TopPlace, Places
<1> QED BY <1>3 DEF TopPlace

LEMMA TopIn ==
    ASSUME NEW d, Stacked(d.z_order), NEW S, S \subseteq Windows
    PROVE  /\ S = {} => TopOf(d, S) = -1
           /\ S # {} => TopOf(d, S) \in S
<1>1. ASSUME S # {} PROVE TopOf(d, S) \in S
  <2>1. PICK k \in Places : TopPlace(d.z_order, S, k)
    BY <1>1, TopExists
  <2>2. TopOf(d, S) = d.z_order[k]
    BY <2>1, TopIs
  <2> QED BY <2>1, <2>2 DEF TopPlace
<1> QED BY <1>1 DEF TopOf

\* What is below the topmost window does not matter.
LEMMA TopOfLess ==
    ASSUME NEW d, Stacked(d.z_order), NEW S, S \subseteq Windows, NEW T, T \subseteq S, TopOf(d, S) \in T
    PROVE  TopOf(d, T) = TopOf(d, S)
<1>1. S # {}
  OBVIOUS
<1>2. PICK k \in Places : TopPlace(d.z_order, S, k)
  BY <1>1, TopExists
<1>3. TopOf(d, S) = d.z_order[k]
  BY <1>2, TopIs
<1>4. TopPlace(d.z_order, T, k)
  BY <1>2, <1>3 DEF TopPlace
<1> QED BY <1>3, <1>4, TopIs

LEMMA Raised ==
    ASSUME NEW z, Stacked(z), NEW i \in Windows
    PROVE  Stacked(bring_to_front(z, i)) /\ bring_to_front(z, i)[WindowCount] = i
<1> DEFINE pos == CHOOSE k \in 1 .. WindowCount : z[k] = i
           b == [k \in Places |-> IF k < pos THEN z[k] ELSE IF k < WindowCount THEN z[k + 1] ELSE i]
<1>1. pos \in Places /\ z[pos] = i
  <2>1. \E k \in 1 .. WindowCount : z[k] = i
    BY DEF Stacked, Places
  <2> QED BY <2>1, Zenon DEF Places
<1>2. bring_to_front(z, i) = b
  BY DEF bring_to_front, Places
<1> HIDE DEF pos
<1>3. /\ WindowCount \in Nat /\ WindowCount >= 2 /\ WindowCount \in Places
      /\ \A k \in Places : k \in Nat /\ k >= 1 /\ k <= WindowCount /\ (k < WindowCount => k + 1 \in Places)
  BY WindowFacts DEF Places
<1>4. \A k \in Places : b[k] = IF k < pos THEN z[k] ELSE IF k < WindowCount THEN z[k + 1] ELSE i
  OBVIOUS
<1>5. b \in [Places -> Windows]
  BY <1>3 DEF Stacked
<1> HIDE DEF b
<1>6. ASSUME NEW j \in Places, NEW k \in Places, b[j] = b[k] PROVE j = k
  <2> DEFINE Src(n) == IF n < pos THEN n ELSE IF n < WindowCount THEN n + 1 ELSE pos
  <2>1. \A n \in Places : Src(n) \in Places /\ b[n] = z[Src(n)]
    BY <1>1, <1>3, <1>4
  <2>2. Src(j) = Src(k)
    BY <1>6, <2>1 DEF Stacked
  <2> QED BY <1>1, <1>3, <2>2
<1>7. ASSUME NEW w \in Windows PROVE \E k \in Places : b[k] = w
  <2>1. PICK k \in Places : z[k] = w
    BY DEF Stacked
  <2>2. CASE k < pos
    BY <1>4, <2>1, <2>2
  <2>3. CASE k = pos
    <3>1. b[WindowCount] = i
      BY <1>1, <1>3, <1>4
    <3> QED BY <1>1, <1>3, <2>1, <2>3, <3>1
  <2>4. CASE k > pos
    <3>1. k - 1 \in Places /\ ~(k - 1 < pos) /\ k - 1 < WindowCount /\ (k - 1) + 1 = k
      BY <1>1, <1>3, <2>4 DEF Places
    <3>2. b[k - 1] = z[k]
      BY <1>4, <3>1
    <3> QED BY <2>1, <3>1, <3>2
  <2> QED BY <1>1, <1>3, <2>2, <2>3, <2>4
<1>8. b[WindowCount] = i
  <2>1. WindowCount \in Places /\ ~(WindowCount < WindowCount)
    BY <1>3
  <2>2. CASE WindowCount < pos
    BY <1>1, <1>3, <2>2
  <2> QED BY <1>4, <2>1, <2>2
<1> QED BY <1>2, <1>5, <1>6, <1>7, <1>8 DEF Stacked

LEMMA NextInFocus ==
    ASSUME NEW d, Stacked(d.z_order)
    PROVE  cycle_focus_window(d) \in Visible(d) \cup {-1}
<1> DEFINE at == CHOOSE k \in 1 .. WindowCount : d.z_order[k] = d.active_idx
           Nth(step) == d.z_order[((at - 1 + step) % WindowCount) + 1]
           Steps == {step \in 1 .. WindowCount : Nth(step) \in Visible(d)}
<1>1. CASE d.active_idx \notin Visible(d)
  BY <1>1, TopIn DEF cycle_focus_window, top_visible_window, Visible
<1>2. CASE d.active_idx \in Visible(d)
  <2>1. cycle_focus_window(d) = Nth(Min(Steps))
    BY <1>2 DEF cycle_focus_window
  <2>2. at \in 1 .. WindowCount /\ d.z_order[at] = d.active_idx
    <3>1. \E k \in 1 .. WindowCount : d.z_order[k] = d.active_idx
      BY <1>2 DEF Stacked, Places, Visible
    <3> QED BY <3>1, Zenon
  <2> HIDE DEF at
  <2>3. WindowCount \in 1 .. WindowCount /\ (at - 1 + WindowCount) % WindowCount = at - 1
    <3>1. WindowCount \in Nat \ {0} /\ at - 1 \in 0 .. WindowCount - 1 /\ WindowCount \in 0 .. WindowCount
      BY <2>2, WindowFacts
    <3>2. ((at - 1) + WindowCount) % WindowCount
             = IF (at - 1) + WindowCount < WindowCount THEN (at - 1) + WindowCount
               ELSE (at - 1) + WindowCount - WindowCount
      BY <3>1, WrapSum
    <3> QED BY <3>1, <3>2
  <2>4. (at - 1) + 1 = at
    BY <2>2, WindowFacts
  <2>5. WindowCount \in Steps
    BY <1>2, <2>2, <2>3, <2>4
  <2>6. Steps \subseteq Nat
    BY WindowFacts
  <2>7. Min(Steps) \in Steps
    <3> HIDE DEF Steps
    <3> QED BY <2>5, <2>6, MinOf
  <2> QED BY <2>1, <2>7
<1> QED BY <1>1, <1>2

-----------------------------------------------------------------------------
(* The runtime record between two frames.                                  *)

RtFields == {"windows", "lines", "z_order", "active_idx", "dragging_idx", "drag_off", "cursor",
             "left", "cursor_save", "screen", "scene_changed", "cursor_changed",
             "force_full_redraw", "files_cwd", "files_entries", "files_selected",
             "files_offset", "files_last_click"}

WindowRecord == [x : Int, y : Int, theme : Int, visible : BOOLEAN]

RtTyped(d) ==
    /\ DOMAIN d = RtFields
    /\ d.windows \in [Windows -> WindowRecord]
    /\ Stacked(d.z_order)
    /\ d.lines = [i \in Windows |-> d.lines[i]]
    /\ d.cursor \in Pixels
    /\ d.drag_off \in [x : Int, y : Int]
    /\ d.scene_changed \in BOOLEAN /\ d.cursor_changed \in BOOLEAN
    /\ d.force_full_redraw \in BOOLEAN

\* The window that has the focus is the topmost, and a dragged one is visible.
Focused(d) ==
    /\ d.active_idx \in {-1, top_visible_window(d)}
    /\ d.dragging_idx \in {-1} \cup Visible(d)

Well(d) == RtTyped(d) /\ Focused(d)

\* What an event does to what the frame reads: it sets flags and never
\* clears them, and leaves the screen alone.
Touches(a, b) ==
    /\ b.screen = a.screen /\ b.cursor_save = a.cursor_save
    /\ a.scene_changed => b.scene_changed
    /\ a.cursor_changed => b.cursor_changed
    /\ ~b.cursor_changed => b.cursor = a.cursor
    /\ b.force_full_redraw => a.force_full_redraw \/ b.scene_changed

SameLook(a, b) ==
    /\ b.windows = a.windows /\ b.z_order = a.z_order /\ b.active_idx = a.active_idx
    /\ \A i \in Visible(b) : b.lines[i] = a.lines[i]

\* A change that could be seen sets scene_changed.
Edits(a, b) == Touches(a, b) /\ (~b.scene_changed => SameLook(a, b))

KeepsPanel(a, b) ==
    /\ b.files_cwd = a.files_cwd /\ b.files_entries = a.files_entries
    /\ b.files_selected = a.files_selected /\ b.lines = a.lines

WindowStep(a, b) == Well(b) /\ Edits(a, b) /\ KeepsPanel(a, b)

LEMMA WindowStepItself == ASSUME NEW a, Well(a) PROVE WindowStep(a, a)
BY DEF WindowStep, Edits, Touches, SameLook, KeepsPanel

LEMMA WindowStepTwice ==
    ASSUME NEW a, NEW b, NEW c, WindowStep(a, b), WindowStep(b, c)
    PROVE  WindowStep(a, c)
<1>1. Touches(a, c) /\ KeepsPanel(a, c)
  BY DEF WindowStep, Edits, Touches, KeepsPanel
<1>2. ~c.scene_changed => SameLook(a, c)
  BY DEF WindowStep, Edits, Touches, SameLook, Visible
<1> QED BY <1>1, <1>2 DEF WindowStep, Edits

LEMMA TopSame ==
    ASSUME NEW d, NEW e, e.z_order = d.z_order, Visible(e) = Visible(d)
    PROVE  top_visible_window(e) = top_visible_window(d)
BY DEF top_visible_window, TopOf

\* The windows stay as they are or are moved and painted anew.
LEMMA FocusSame ==
    ASSUME NEW d, NEW e, Focused(d), e.z_order = d.z_order, Visible(e) = Visible(d),
           e.active_idx = d.active_idx, e.dragging_idx \in {-1, d.dragging_idx}
    PROVE  Focused(e)
BY TopSame DEF Focused

LEMMA ChangedStep == ASSUME NEW d, Well(d) PROVE WindowStep(d, Changed(d)) /\ Changed(d).scene_changed
<1> DEFINE e == Changed(d)
<1>1. /\ DOMAIN e = RtFields /\ e.windows = d.windows /\ e.z_order = d.z_order /\ e.lines = d.lines
      /\ e.active_idx = d.active_idx /\ e.dragging_idx = d.dragging_idx /\ e.drag_off = d.drag_off
      /\ e.cursor = d.cursor /\ e.screen = d.screen /\ e.cursor_save = d.cursor_save
      /\ e.cursor_changed = d.cursor_changed /\ e.force_full_redraw = d.force_full_redraw
      /\ KeepsPanel(d, e)
  BY DEF Well, RtTyped, RtFields, Changed, KeepsPanel
<1>2. e.scene_changed /\ e.scene_changed \in BOOLEAN
  BY DEF Well, RtTyped, RtFields, Changed
<1> HIDE DEF e
<1>3. RtTyped(e)
  BY <1>1, <1>2 DEF Well, RtTyped
<1>4. Focused(e)
  BY <1>1, FocusSame DEF Well, Visible
<1> QED BY <1>1, <1>2, <1>3, <1>4 DEF WindowStep, Well, Edits, Touches, e

LEMMA FocusStep ==
    ASSUME NEW d, RtTyped(d), d.dragging_idx \in {-1} \cup Visible(d), NEW i \in Visible(d)
    PROVE  WindowStep(d, focus_window(d, i))
<1> DEFINE z == bring_to_front(d.z_order, i)
           e == focus_window(d, i)
<1>0. i \in Windows
  BY DEF Visible
<1>1. /\ DOMAIN e = RtFields /\ e.windows = d.windows /\ e.z_order = z /\ e.lines = d.lines
      /\ e.active_idx = i /\ e.dragging_idx = d.dragging_idx /\ e.drag_off = d.drag_off
      /\ e.cursor = d.cursor /\ e.screen = d.screen /\ e.cursor_save = d.cursor_save
      /\ e.cursor_changed = d.cursor_changed /\ e.force_full_redraw = d.force_full_redraw
      /\ KeepsPanel(d, e)
  BY DEF RtTyped, RtFields, focus_window, KeepsPanel
<1>2. e.scene_changed = (d.scene_changed \/ d.active_idx # i \/ z # d.z_order)
  BY Zenon DEF RtTyped, RtFields, focus_window
<1>3. e.scene_changed \in BOOLEAN
  BY <1>2
<1> HIDE DEF e
<1>4. Stacked(z) /\ z[WindowCount] = i
  BY <1>0, Raised DEF RtTyped
<1> HIDE DEF z
<1>5. RtTyped(e)
  BY <1>1, <1>3, <1>4 DEF RtTyped
<1>6. Focused(e)
  <2>1. Visible(e) = Visible(d)
    BY <1>1 DEF Visible
  <2>2. TopPlace(e.z_order, Visible(e), WindowCount)
    BY <1>1, <1>4, <2>1, WindowFacts DEF TopPlace, Places
  <2>3. top_visible_window(e) = i
    BY <1>1, <1>4, <2>2, TopIs DEF top_visible_window
  <2> QED BY <1>1, <2>1, <2>3 DEF Focused
<1>7. Edits(d, e)
  BY <1>1, <1>2 DEF Edits, Touches, SameLook
<1> QED BY <1>1, <1>5, <1>6, <1>7 DEF WindowStep, Well, e

\* Fields no operation of this section but the ones named changes.
Rest(d, e) ==
    /\ DOMAIN e = RtFields /\ e.z_order = d.z_order /\ e.lines = d.lines /\ e.drag_off = d.drag_off
    /\ e.cursor = d.cursor /\ e.screen = d.screen /\ e.cursor_save = d.cursor_save
    /\ e.cursor_changed = d.cursor_changed /\ e.force_full_redraw = d.force_full_redraw
    /\ e.files_cwd = d.files_cwd /\ e.files_entries = d.files_entries
    /\ e.files_selected = d.files_selected

LEMMA HiddenStep ==
    ASSUME NEW d, Well(d), NEW i \in Windows
    PROVE  WindowStep(d, Hidden(d, i)) /\ Hidden(d, i).scene_changed
<1> DEFINE m == [d EXCEPT !.windows[i].visible = FALSE]
           e == Hidden(d, i)
<1>1. /\ Rest(d, m) /\ m.active_idx = d.active_idx /\ m.dragging_idx = d.dragging_idx
      /\ m.windows = [d.windows EXCEPT ![i].visible = FALSE]
  BY DEF Well, RtTyped, RtFields, Rest
<1>2. m.windows \in [Windows -> WindowRecord] /\ Visible(m) = Visible(d) \ {i}
  <2>1. d.windows \in [Windows -> WindowRecord]
    BY DEF Well, RtTyped
  <2> DEFINE ws == [d.windows EXCEPT ![i].visible = FALSE]
  <2>2. ws \in [Windows -> WindowRecord]
    BY <2>1 DEF WindowRecord
  <2>3. \A j \in Windows : j # i => ws[j] = d.windows[j]
    BY <2>1
  <2>4. ~ws[i].visible
    BY <2>1 DEF WindowRecord
  <2> HIDE DEF ws
  <2>5. {j \in Windows : ws[j].visible} = {j \in Windows : d.windows[j].visible} \ {i}
    BY <2>3, <2>4
  <2> QED BY <1>1, <2>2, <2>5 DEF Visible, ws
<1>3. /\ Rest(m, e) /\ e.windows = m.windows
      /\ e.dragging_idx = IF d.dragging_idx = i THEN -1 ELSE d.dragging_idx
      /\ e.active_idx = IF d.active_idx = i THEN top_visible_window(m) ELSE d.active_idx
  <2> HIDE DEF m
  <2>1. e = [m EXCEPT !.dragging_idx = IF @ = i THEN -1 ELSE @,
                      !.active_idx = IF @ = i THEN top_visible_window(m) ELSE @,
                      !.scene_changed = TRUE]
    BY DEF Hidden, m
  <2> HIDE DEF e
  <2> QED BY <1>1, <2>1 DEF Rest, RtFields
<1>4. e.scene_changed /\ e.scene_changed \in BOOLEAN
  <2> HIDE DEF m
  <2>1. e = [m EXCEPT !.dragging_idx = IF @ = i THEN -1 ELSE @,
                      !.active_idx = IF @ = i THEN top_visible_window(m) ELSE @,
                      !.scene_changed = TRUE]
    BY DEF Hidden, m
  <2> HIDE DEF e
  <2> QED BY <1>1, <2>1 DEF Rest, RtFields
<1> HIDE DEF m, e
<1>5. RtTyped(e)
  BY <1>1, <1>2, <1>3, <1>4 DEF Well, RtTyped, Rest
<1>6. Visible(e) = Visible(d) \ {i} /\ top_visible_window(e) = top_visible_window(m)
  <2>1. Visible(e) = Visible(m)
    BY <1>3 DEF Visible
  <2> QED BY <1>2, <1>3, <2>1, TopSame DEF Rest
<1>7. e.active_idx \in {-1, top_visible_window(e)}
  <2>1. CASE d.active_idx = i
    BY <1>3, <1>6, <2>1
  <2>2. CASE d.active_idx # i /\ d.active_idx # -1
    <3>1. d.active_idx = TopOf(d, Visible(d)) /\ e.active_idx = d.active_idx
      BY <1>3, <2>2 DEF Well, Focused, top_visible_window
    <3>2. Stacked(d.z_order) /\ Visible(d) \subseteq Windows
      BY DEF Well, RtTyped, Visible
    <3>3. TopOf(d, Visible(d)) \in Visible(d) \ {i}
      BY <2>2, <3>1, <3>2, TopIn
    <3>4. TopOf(d, Visible(d) \ {i}) = TopOf(d, Visible(d))
      BY <3>2, <3>3, TopOfLess
    <3>5. TopOf(e, Visible(e)) = TopOf(d, Visible(d) \ {i})
      BY <1>1, <1>3, <1>6 DEF TopOf, Rest
    <3> QED BY <3>1, <3>4, <3>5 DEF top_visible_window
  <2>3. CASE d.active_idx # i /\ d.active_idx = -1
    BY <1>3, <2>3
  <2> QED BY <2>1, <2>2, <2>3
<1>8. e.dragging_idx \in {-1} \cup Visible(e)
  BY <1>3, <1>6 DEF Well, Focused
<1> QED BY <1>1, <1>3, <1>4, <1>5, <1>7, <1>8 DEF WindowStep, Well, Focused, Edits, Touches, KeepsPanel, Rest, e

\* A window record is changed and the change is marked.
LEMMA WindowEdited ==
    ASSUME NEW d, Well(d), NEW m, Rest(d, m), m.windows \in [Windows -> WindowRecord],
           Visible(m) = Visible(d), m.active_idx = d.active_idx, m.dragging_idx = d.dragging_idx,
           m.scene_changed \in BOOLEAN, d.scene_changed => m.scene_changed,
           m.scene_changed \/ m.windows = d.windows
    PROVE  WindowStep(d, m)
<1>1. RtTyped(m)
  BY DEF Well, RtTyped, Rest
<1>2. Focused(m)
  BY FocusSame DEF Well, Rest
<1>3. Edits(d, m)
  BY DEF Edits, Touches, SameLook, Rest
<1> QED BY <1>1, <1>2, <1>3 DEF WindowStep, Well, KeepsPanel, Rest

LEMMA MovedStep ==
    ASSUME NEW d, Well(d), d.active_idx \in Visible(d), NEW dx \in Int, NEW dy \in Int
    PROVE  WindowStep(d, Moved(d, dx, dy))
<1> DEFINE a == d.active_idx
           m == [d EXCEPT !.windows[d.active_idx].x = @ + dx, !.windows[d.active_idx].y = @ + dy]
           e == Changed(m)
<1>0. a \in Windows /\ d.windows \in [Windows -> WindowRecord]
  BY DEF Visible, Well, RtTyped
<1>1. /\ Rest(d, e) /\ e.active_idx = d.active_idx /\ e.dragging_idx = d.dragging_idx
      /\ e.windows = [d.windows EXCEPT ![a].x = @ + dx, ![a].y = @ + dy]
  BY DEF Well, RtTyped, RtFields, Rest, Changed
<1>2. e.scene_changed /\ e.scene_changed \in BOOLEAN
  BY DEF Well, RtTyped, RtFields, Changed
<1> HIDE DEF e, m
<1>3. e.windows \in [Windows -> WindowRecord] /\ \A j \in Windows : e.windows[j].visible = d.windows[j].visible
  <2> HIDE DEF a
  <2> QED BY <1>0, <1>1 DEF WindowRecord
<1>4. Visible(e) = Visible(d)
  BY <1>3 DEF Visible
<1>5. WindowStep(d, e)
  BY <1>1, <1>2, <1>3, <1>4, WindowEdited
<1> QED BY <1>5 DEF Moved, e, m

LEMMA RethemedStep ==
    ASSUME NEW d, Well(d), d.active_idx \in Visible(d)
    PROVE  WindowStep(d, Rethemed(d))
<1> DEFINE a == d.active_idx
           e == Rethemed(d)
<1>0. a \in Windows /\ d.windows \in [Windows -> WindowRecord]
  BY DEF Visible, Well, RtTyped
<1>1. /\ Rest(d, e) /\ e.active_idx = d.active_idx /\ e.dragging_idx = d.dragging_idx
      /\ e.windows = [d.windows EXCEPT ![a].theme = (@ + 1) % ThemeCount]
  BY DEF Well, RtTyped, RtFields, Rest, Changed, Rethemed
<1>2. e.scene_changed /\ e.scene_changed \in BOOLEAN
  BY DEF Well, RtTyped, RtFields, Changed, Rethemed
<1> HIDE DEF e
<1>3. e.windows \in [Windows -> WindowRecord] /\ \A j \in Windows : e.windows[j].visible = d.windows[j].visible
  <2> HIDE DEF a
  <2>1. ThemeCount \in Nat \ {0} /\ (d.windows[a].theme + 1) % ThemeCount \in Int
    BY <1>0, WindowsConstants DEF WindowsAssumption, WindowRecord
  <2> QED BY <1>0, <1>1, <2>1 DEF WindowRecord
<1>4. Visible(e) = Visible(d)
  BY <1>3 DEF Visible
<1>5. WindowStep(d, e)
  BY <1>1, <1>2, <1>3, <1>4, WindowEdited
<1> QED BY <1>5 DEF e

LEMMA ShownStep ==
    ASSUME NEW d, Well(d), NEW i \in Windows
    PROVE  WindowStep(d, Shown(d, i)) /\ Shown(d, i).scene_changed
<1> DEFINE m == [d EXCEPT !.windows[i].visible = TRUE]
           f == focus_window(m, i)
           e == Changed(f)
<1>1. /\ Rest(d, m) /\ m.active_idx = d.active_idx /\ m.dragging_idx = d.dragging_idx
      /\ m.windows = [d.windows EXCEPT ![i].visible = TRUE]
  BY DEF Well, RtTyped, RtFields, Rest
<1>2. m.scene_changed = d.scene_changed
  BY DEF Well, RtTyped, RtFields
<1> HIDE DEF m
<1>3. m.windows \in [Windows -> WindowRecord] /\ i \in Visible(m) /\ Visible(d) \subseteq Visible(m)
  <2>1. d.windows \in [Windows -> WindowRecord]
    BY DEF Well, RtTyped
  <2> DEFINE ws == [d.windows EXCEPT ![i].visible = TRUE]
  <2>2. ws \in [Windows -> WindowRecord]
    BY <2>1 DEF WindowRecord
  <2>3. \A j \in Windows : j # i => ws[j] = d.windows[j]
    BY <2>1
  <2>4. ws[i].visible
    BY <2>1 DEF WindowRecord
  <2> HIDE DEF ws
  <2> QED BY <1>1, <2>2, <2>3, <2>4 DEF Visible, ws
<1>4. RtTyped(m)
  BY <1>1, <1>2, <1>3 DEF Well, RtTyped, Rest
<1>5. m.dragging_idx \in {-1} \cup Visible(m)
  BY <1>1, <1>3 DEF Well, Focused
<1>6. WindowStep(m, f)
  BY <1>3, <1>4, <1>5, FocusStep
<1> HIDE DEF f
<1>7. WindowStep(f, e) /\ e.scene_changed
  BY <1>6, ChangedStep DEF WindowStep
<1> HIDE DEF e
<1>8. WindowStep(m, e)
  BY <1>6, <1>7, WindowStepTwice
<1>9. WindowStep(d, e)
  BY <1>1, <1>2, <1>7, <1>8 DEF WindowStep, Edits, Touches, KeepsPanel, Rest
<1> QED BY <1>7, <1>9 DEF Shown, e, f, m

\* The focus goes to no window.
LEMMA UnfocusedStep ==
    ASSUME NEW d, Well(d)
    PROVE  WindowStep(d, [d EXCEPT !.active_idx = -1, !.scene_changed = @ \/ d.active_idx # -1])
<1> DEFINE e == [d EXCEPT !.active_idx = -1, !.scene_changed = @ \/ d.active_idx # -1]
<1>1. /\ Rest(d, e) /\ e.active_idx = -1 /\ e.dragging_idx = d.dragging_idx /\ e.windows = d.windows
  BY DEF Well, RtTyped, RtFields, Rest
<1>2. e.scene_changed = (d.scene_changed \/ d.active_idx # -1)
  BY Zenon DEF Well, RtTyped, RtFields
<1> HIDE DEF e
<1>3. RtTyped(e)
  BY <1>1, <1>2 DEF Well, RtTyped, Rest
<1>4. Visible(e) = Visible(d)
  BY <1>1 DEF Visible
<1>5. Focused(e)
  BY <1>1, <1>4 DEF Well, Focused
<1>6. Edits(d, e)
  BY <1>1, <1>2 DEF Edits, Touches, SameLook, Rest
<1> QED BY <1>1, <1>3, <1>5, <1>6 DEF WindowStep, Well, KeepsPanel, Rest, e

LEMMA CycledStep == ASSUME NEW d, Well(d) PROVE WindowStep(d, Cycled(d))
<1> DEFINE next == cycle_focus_window(d)
<1>1. next \in Visible(d) \cup {-1}
  BY NextInFocus DEF Well, RtTyped
<1> HIDE DEF next
<1>2. CASE next \in Windows
  <2>1. next \in Visible(d)
    BY <1>1, <1>2, WindowFacts
  <2>2. WindowStep(d, focus_window(d, next))
    BY <2>1, FocusStep DEF Well, Focused
  <2> QED BY <1>2, <2>2 DEF Cycled, next
<1>3. CASE next \notin Windows
  BY <1>3, UnfocusedStep DEF Cycled, next
<1> QED BY <1>2, <1>3

LEMMA CursorStep ==
    ASSUME NEW d, Well(d), NEW p \in Pixels, NEW down
    PROVE  WindowStep(d, [CursorAt(d, p) EXCEPT !.left = down])
<1> DEFINE e == [CursorAt(d, p) EXCEPT !.left = down]
<1>1. /\ DOMAIN e = RtFields /\ e.windows = d.windows /\ e.z_order = d.z_order /\ e.lines = d.lines
      /\ e.active_idx = d.active_idx /\ e.dragging_idx = d.dragging_idx /\ e.drag_off = d.drag_off
      /\ e.cursor = p /\ e.screen = d.screen /\ e.cursor_save = d.cursor_save
      /\ e.scene_changed = d.scene_changed /\ e.force_full_redraw = d.force_full_redraw
      /\ KeepsPanel(d, e)
  BY DEF Well, RtTyped, RtFields, CursorAt, KeepsPanel
<1>2. e.cursor_changed = (d.cursor_changed \/ d.cursor # p)
  BY Zenon DEF Well, RtTyped, RtFields, CursorAt
<1> HIDE DEF e
<1>3. RtTyped(e)
  BY <1>1, <1>2 DEF Well, RtTyped
<1>4. Visible(e) = Visible(d)
  BY <1>1 DEF Visible
<1>5. Focused(e)
  BY <1>1, <1>4, FocusSame DEF Well
<1>6. Edits(d, e)
  BY <1>1, <1>2 DEF Edits, Touches, SameLook
<1> QED BY <1>1, <1>3, <1>5, <1>6 DEF WindowStep, Well, e

LEMMA ReleasedStep == ASSUME NEW d, Well(d) PROVE WindowStep(d, Released(d))
<1> DEFINE e == Released(d)
<1>1. /\ Rest(d, e) /\ e.windows = d.windows /\ e.active_idx = d.active_idx /\ e.dragging_idx = -1
      /\ e.scene_changed = d.scene_changed
  BY DEF Well, RtTyped, RtFields, Released, Rest
<1> HIDE DEF e
<1>2. RtTyped(e)
  BY <1>1 DEF Well, RtTyped, Rest
<1>3. Visible(e) = Visible(d)
  BY <1>1 DEF Visible
<1>4. Focused(e)
  BY <1>1, <1>3, FocusSame DEF Well, Rest
<1>5. Edits(d, e)
  BY <1>1 DEF Edits, Touches, SameLook, Rest
<1> QED BY <1>1, <1>2, <1>4, <1>5 DEF WindowStep, Well, KeepsPanel, Rest, e

LEMMA DraggedStep == ASSUME NEW d, Well(d) PROVE WindowStep(d, Dragged(d))
<1> DEFINE k == d.dragging_idx
           w == d.windows[k]
           to == [w EXCEPT !.x = d.cursor.x - d.drag_off.x, !.y = d.cursor.y - d.drag_off.y]
           e == [d EXCEPT !.windows[d.dragging_idx] = to, !.scene_changed = @ \/ to # w]
<1>1. CASE k \notin Visible(d)
  BY <1>1, WindowStepItself DEF Dragged
<1>2. CASE k \in Visible(d)
  <2>1. Dragged(d) = e
    BY <1>2 DEF Dragged
  <2>2. k \in Windows /\ d.windows \in [Windows -> WindowRecord] /\ w \in WindowRecord
    BY <1>2 DEF Visible, Well, RtTyped
  <2>3. d.cursor.x - d.drag_off.x \in Int /\ d.cursor.y - d.drag_off.y \in Int
    BY WindowsConstants DEF Well, RtTyped, Pixels, WindowsAssumption
  <2>4. to \in WindowRecord /\ to.visible = w.visible
    BY <2>2, <2>3 DEF WindowRecord
  <2> HIDE DEF to
  <2>5. /\ Rest(d, e) /\ e.active_idx = d.active_idx /\ e.dragging_idx = d.dragging_idx
        /\ e.windows = [d.windows EXCEPT ![k] = to]
    BY DEF Well, RtTyped, RtFields, Rest
  <2>6. e.scene_changed = (d.scene_changed \/ to # w)
    BY Zenon DEF Well, RtTyped, RtFields
  <2> HIDE DEF e
  <2>7. /\ e.windows \in [Windows -> WindowRecord]
        /\ \A j \in Windows : e.windows[j].visible = d.windows[j].visible
        /\ to = w => e.windows = d.windows
    <3> HIDE DEF k
    <3> QED BY <2>2, <2>4, <2>5
  <2>8. Visible(e) = Visible(d)
    BY <2>7 DEF Visible
  <2>9. WindowStep(d, e)
    BY <2>5, <2>6, <2>7, <2>8, WindowEdited
  <2> QED BY <2>1, <2>9
<1> QED BY <1>1, <1>2

LEMMA IconStep == ASSUME NEW d, Well(d), NEW i \in Windows PROVE WindowStep(d, IconPressed(d, i))
<1> DEFINE f == IF d.windows[i].visible THEN focus_window(d, i) ELSE Shown(d, i)
<1>1. WindowStep(d, f)
  <2>1. CASE d.windows[i].visible
    <3>1. WindowStep(d, focus_window(d, i))
      BY <2>1, FocusStep DEF Well, Focused, Visible
    <3> QED BY <2>1, <3>1
  <2>2. CASE ~d.windows[i].visible
    <3>1. WindowStep(d, Shown(d, i))
      BY ShownStep
    <3> QED BY <2>2, <3>1
  <2> QED BY <2>1, <2>2
<1> HIDE DEF f
<1>2. WindowStep(f, Released(f))
  BY <1>1, ReleasedStep DEF WindowStep
<1> QED BY <1>1, <1>2, WindowStepTwice DEF IconPressed, f

LEMMA BackgroundStep == ASSUME NEW d, Well(d) PROVE WindowStep(d, BackgroundPressed(d))
<1> DEFINE f == [d EXCEPT !.active_idx = -1, !.scene_changed = @ \/ d.active_idx # -1]
<1>1. WindowStep(d, f)
  BY UnfocusedStep
<1> HIDE DEF f
<1>2. WindowStep(f, Released(f))
  BY <1>1, ReleasedStep DEF WindowStep
<1> QED BY <1>1, <1>2, WindowStepTwice DEF BackgroundPressed, f

LEMMA WindowPressedStep ==
    ASSUME NEW d, Well(d), NEW i \in Visible(d)
    PROVE  WindowStep(d, WindowPressed(d, i))
<1> DEFINE f == focus_window(d, i)
           w == d.windows[i]
           off == [x |-> d.cursor.x - w.x, y |-> d.cursor.y - w.y]
           g == [f EXCEPT !.dragging_idx = i, !.drag_off = off]
<1>0. i \in Windows
  BY DEF Visible
<1>1. WindowStep(d, f) /\ Visible(f) = Visible(d)
  <2>1. WindowStep(d, f)
    BY FocusStep DEF Well, Focused
  <2>2. f.windows = d.windows
    BY DEF focus_window, Well, RtTyped, RtFields
  <2> QED BY <2>1, <2>2 DEF Visible
<1> HIDE DEF f
<1>2. WindowStep(f, Hidden(f, i))
  BY <1>0, <1>1, HiddenStep DEF WindowStep
<1>3. WindowStep(f, Released(f))
  BY <1>1, ReleasedStep DEF WindowStep
<1>4. WindowStep(f, Dragged(g))
  <2>1. off \in [x : Int, y : Int]
    BY <1>0, WindowsConstants DEF Well, RtTyped, WindowRecord, Pixels, WindowsAssumption
  <2> HIDE DEF off
  <2>2. /\ DOMAIN g = RtFields /\ g.windows = f.windows /\ g.z_order = f.z_order /\ g.lines = f.lines
        /\ g.active_idx = f.active_idx /\ g.dragging_idx = i /\ g.drag_off = off
        /\ g.cursor = f.cursor /\ g.screen = f.screen /\ g.cursor_save = f.cursor_save
        /\ g.scene_changed = f.scene_changed /\ g.cursor_changed = f.cursor_changed
        /\ g.force_full_redraw = f.force_full_redraw /\ KeepsPanel(f, g)
    BY <1>1 DEF WindowStep, Well, RtTyped, RtFields, KeepsPanel
  <2> HIDE DEF g
  <2>3. RtTyped(g)
    BY <1>1, <2>1, <2>2 DEF WindowStep, Well, RtTyped
  <2>4. Visible(g) = Visible(f)
    BY <2>2 DEF Visible
  <2>5. Focused(g)
    BY <1>1, <2>2, <2>4, TopSame DEF WindowStep, Well, Focused
  <2>6. Edits(f, g)
    BY <2>2 DEF Edits, Touches, SameLook
  <2>7. WindowStep(f, g)
    BY <2>2, <2>3, <2>5, <2>6 DEF WindowStep, Well
  <2>8. WindowStep(g, Dragged(g))
    BY <2>7, DraggedStep DEF WindowStep
  <2> QED BY <2>7, <2>8, WindowStepTwice
<1>5. WindowStep(d, Hidden(f, i)) /\ WindowStep(d, Released(f)) /\ WindowStep(d, Dragged(g))
  BY <1>1, <1>2, <1>3, <1>4, WindowStepTwice
<1>6. WindowPressed(d, i) \in {Hidden(f, i), Released(f), Dragged(g)}
  BY DEF WindowPressed, f
<1> QED BY <1>5, <1>6

-----------------------------------------------------------------------------
(* The file panel and the shell window.                                    *)

\* The panel shows the entry that is selected.
PanelSound(d) == d.lines[FilesWindow].selected = d.files_entries[d.files_selected]

ShellLine(sh) ==
    [view |-> shell_refresh_view(sh), prompt |-> IF sh.ext_running THEN <<"(pty)">> ELSE sh.cwd]

\* A part of an event, which may still have to mark its change.
PartStep(a, b) == Well(b) /\ Touches(a, b)

LEMMA PartStepTwice ==
    ASSUME NEW a, NEW b, NEW c, PartStep(a, b), PartStep(b, c)
    PROVE  PartStep(a, c)
BY DEF PartStep, Touches

LEMMA WindowPart == ASSUME NEW a, NEW b, WindowStep(a, b) PROVE PartStep(a, b)
BY DEF WindowStep, PartStep, Edits

\* The fields of the windows stay as they are; lines and the panel may not.
SameWindows(d, e) ==
    /\ DOMAIN e = RtFields /\ e.windows = d.windows /\ e.z_order = d.z_order
    /\ e.active_idx = d.active_idx /\ e.dragging_idx = d.dragging_idx /\ e.drag_off = d.drag_off
    /\ e.cursor = d.cursor /\ e.screen = d.screen /\ e.cursor_save = d.cursor_save
    /\ e.scene_changed = d.scene_changed /\ e.cursor_changed = d.cursor_changed
    /\ e.force_full_redraw = d.force_full_redraw

LEMMA SameWindowsPart ==
    ASSUME NEW d, Well(d), NEW e, SameWindows(d, e), e.lines = [i \in Windows |-> e.lines[i]]
    PROVE  PartStep(d, e) /\ Visible(e) = Visible(d)
<1>1. RtTyped(e)
  BY DEF Well, RtTyped, SameWindows
<1>2. Visible(e) = Visible(d)
  BY DEF Visible, SameWindows
<1>3. Focused(e)
  BY <1>2, FocusSame DEF Well, SameWindows
<1> QED BY <1>1, <1>2, <1>3 DEF PartStep, Well, Touches, SameWindows

LEMMA SelectedPart ==
    ASSUME NEW d, Well(d), NEW sel
    PROVE  LET e == [d EXCEPT !.files_selected = sel]
           IN  /\ PartStep(d, e) /\ e.lines = d.lines /\ e.files_cwd = d.files_cwd
               /\ e.windows = d.windows
<1> DEFINE e == [d EXCEPT !.files_selected = sel]
<1>1. SameWindows(d, e) /\ e.lines = d.lines /\ e.files_cwd = d.files_cwd
  BY DEF Well, RtTyped, RtFields, SameWindows
<1>2. e.lines = [i \in Windows |-> e.lines[i]]
  BY <1>1 DEF Well, RtTyped
<1> HIDE DEF e
<1>3. PartStep(d, e)
  BY <1>1, <1>2, SameWindowsPart
<1> QED BY <1>1, <1>3 DEF e, SameWindows

\* The time of a click, kept beside.
LEMMA ClickedStep ==
    ASSUME NEW d, Well(d), NEW at
    PROVE  WindowStep(d, [d EXCEPT !.files_last_click = at])
<1> DEFINE e == [d EXCEPT !.files_last_click = at]
<1>1. SameWindows(d, e) /\ KeepsPanel(d, e)
  BY DEF Well, RtTyped, RtFields, SameWindows, KeepsPanel
<1>2. e.lines = [i \in Windows |-> e.lines[i]]
  BY <1>1 DEF Well, RtTyped, KeepsPanel
<1> HIDE DEF e
<1>3. PartStep(d, e)
  BY <1>1, <1>2, SameWindowsPart
<1>4. SameLook(d, e)
  BY <1>1 DEF SameLook, SameWindows, KeepsPanel
<1> QED BY <1>1, <1>3, <1>4 DEF e, WindowStep, PartStep, Edits

LEMMA SyncedPart ==
    ASSUME NEW d, Well(d), NEW sh
    PROVE  LET e == Synced(d, sh)
           IN  /\ PartStep(d, e) /\ e.lines[ShellWindow] = ShellLine(sh)
               /\ e.windows = d.windows /\ e.files_cwd = d.files_cwd
               /\ e.scene_changed = d.scene_changed /\ SameWindows(d, e)
               /\ \A i \in Windows : i # ShellWindow => e.lines[i] = d.lines[i]
               /\ PanelSound(d) => PanelSound(e)
<1> DEFINE l == ShellLine(sh)
           e == Synced(d, sh)
<1>1. e = [d EXCEPT !.lines[ShellWindow] = l]
  BY DEF Synced, ShellLine
<1> HIDE DEF l, e
<1>2. /\ SameWindows(d, e) /\ e.lines = [d.lines EXCEPT ![ShellWindow] = l]
      /\ e.files_cwd = d.files_cwd /\ e.files_entries = d.files_entries
      /\ e.files_selected = d.files_selected
  BY <1>1 DEF Well, RtTyped, RtFields, SameWindows
<1>3. d.lines = [i \in Windows |-> d.lines[i]]
  BY DEF Well, RtTyped
<1>4. /\ e.lines = [i \in Windows |-> e.lines[i]] /\ e.lines[ShellWindow] = l
      /\ \A i \in Windows : i # ShellWindow => e.lines[i] = d.lines[i]
  BY <1>2, <1>3, WindowFacts
<1>5. PartStep(d, e)
  BY <1>2, <1>4, SameWindowsPart
<1>6. PanelSound(d) => PanelSound(e)
  BY <1>2, <1>4, WindowFacts DEF PanelSound
<1> QED BY <1>2, <1>4, <1>5, <1>6 DEF e, l, SameWindows

LEMMA RebuiltPart ==
    ASSUME NEW d, Well(d), NEW cwd
    PROVE  LET e == files_rebuild_view(d, cwd)
           IN  /\ PartStep(d, e) /\ PanelSound(e) /\ e.lines[ShellWindow] = d.lines[ShellWindow]
               /\ e.windows = d.windows /\ e.files_cwd = d.files_cwd /\ SameWindows(d, e)
<1> DEFINE n == Len(d.files_entries)
           sel == IF d.files_selected \in 1 .. n THEN d.files_selected ELSE 1
           off == ScrolledTo(d.files_offset, sel, n)
           l == [path |-> cwd,
                 entries |-> SubSeq(d.files_entries, off + 1, Least(n, off + FilesSlots)),
                 selected |-> d.files_entries[sel]]
           e == files_rebuild_view(d, cwd)
<1>1. e = [d EXCEPT !.files_selected = sel, !.files_offset = off, !.lines[FilesWindow] = l]
  BY DEF files_rebuild_view
<1>2. l.selected = d.files_entries[sel]
  OBVIOUS
<1> HIDE DEF l, e, off, sel, n
<1>3. /\ SameWindows(d, e) /\ e.lines = [d.lines EXCEPT ![FilesWindow] = l]
      /\ e.files_cwd = d.files_cwd /\ e.files_entries = d.files_entries
      /\ e.files_selected = sel
  BY <1>1 DEF Well, RtTyped, RtFields, SameWindows
<1>4. d.lines = [i \in Windows |-> d.lines[i]]
  BY DEF Well, RtTyped
<1>5. /\ e.lines = [i \in Windows |-> e.lines[i]] /\ e.lines[FilesWindow] = l
      /\ e.lines[ShellWindow] = d.lines[ShellWindow]
  BY <1>3, <1>4, WindowFacts
<1>6. PartStep(d, e)
  BY <1>3, <1>5, SameWindowsPart
<1>7. PanelSound(e)
  BY <1>2, <1>3, <1>5 DEF PanelSound
<1> QED BY <1>3, <1>5, <1>6, <1>7 DEF e, SameWindows

LEMMA RefreshedPart ==
    ASSUME NEW d, Well(d), NEW files, NEW cwd
    PROVE  LET e == desktop_refresh_files_panel(d, files, cwd)
           IN  /\ PartStep(d, e) /\ PanelSound(e) /\ e.lines[ShellWindow] = d.lines[ShellWindow]
               /\ e.windows = d.windows /\ e.files_cwd = cwd /\ SameWindows(d, e)
<1> DEFINE found == <<"..">> \o (IF IsDirectory(files, cwd) THEN Listing(files, cwd) ELSE <<>>)
           shown == SubSeq(found, 1, Least(Len(found), EntryMax))
           m == [d EXCEPT !.files_entries = shown, !.files_cwd = cwd]
           e == files_rebuild_view(m, cwd)
<1>1. desktop_refresh_files_panel(d, files, cwd) = e
  BY DEF desktop_refresh_files_panel
<1> HIDE DEF shown, found
<1>2. SameWindows(d, m) /\ m.lines = d.lines /\ m.files_cwd = cwd
  BY DEF Well, RtTyped, RtFields, SameWindows
<1>3. m.lines = [i \in Windows |-> m.lines[i]]
  BY <1>2 DEF Well, RtTyped
<1> HIDE DEF m
<1>4. PartStep(d, m)
  BY <1>2, <1>3, SameWindowsPart
<1>5. /\ PartStep(m, e) /\ PanelSound(e) /\ e.lines[ShellWindow] = m.lines[ShellWindow]
      /\ e.windows = m.windows /\ e.files_cwd = m.files_cwd /\ SameWindows(m, e)
  BY <1>4, RebuiltPart DEF PartStep
<1>6. PartStep(d, e)
  BY <1>4, <1>5, PartStepTwice
<1> QED BY <1>1, <1>2, <1>5, <1>6 DEF SameWindows

\* The record after an event: what is shown of the shell is the shell sh.
Good(d, sh) == Well(d) /\ PanelSound(d) /\ d.lines[ShellWindow] = ShellLine(sh)

EventStep(a, b, sh) == Edits(a, b) /\ Good(b, sh)

\* Parts of an event, marked at its end.
LEMMA MarkedEvent ==
    ASSUME NEW a, NEW b, PartStep(a, b), PanelSound(b), NEW sh, b.lines[ShellWindow] = ShellLine(sh)
    PROVE  EventStep(a, Changed(b), sh) /\ Changed(b).scene_changed
<1>1. WindowStep(b, Changed(b)) /\ Changed(b).scene_changed
  BY ChangedStep DEF PartStep
<1>2. PartStep(a, Changed(b))
  BY <1>1, WindowPart, PartStepTwice
<1> QED BY <1>1, <1>2 DEF EventStep, Edits, Good, PartStep, WindowStep, KeepsPanel, PanelSound

\* An event of the windows only.
LEMMA WindowEvent ==
    ASSUME NEW a, NEW sh, Good(a, sh), NEW b, WindowStep(a, b)
    PROVE  EventStep(a, b, sh)
BY DEF EventStep, Good, WindowStep, KeepsPanel, PanelSound

-----------------------------------------------------------------------------
(* Rectangles.                                                             *)

Rect == [x : Int, y : Int, w : Int, h : Int]

Covered(D, c) == \E q \in D : point_in_rect(c, q)

LEMMA FbFacts ==
    /\ FbWidth \in Nat /\ FbHeight \in Nat /\ FbWidth > 0 /\ FbHeight > 0
    /\ WinWidth \in Nat /\ WinHeight \in Nat /\ WinWidth >= 2 /\ WinHeight >= 2
    /\ WinWidth < FbWidth /\ WinHeight < FbHeight
    /\ FbRect \in Rect
<1>1. FbWidth \in Nat /\ FbHeight \in Nat /\ WinWidth \in 2 .. FbWidth - 1 /\ WinHeight \in 2 .. FbHeight - 1
  BY WindowsConstants DEF WindowsAssumption
<1> QED BY <1>1 DEF FbRect, make_rect, Rect

LEMMA PixelFacts ==
    ASSUME NEW c \in Pixels
    PROVE  /\ c.x \in Int /\ c.y \in Int /\ 0 <= c.x /\ c.x < FbWidth /\ 0 <= c.y /\ c.y < FbHeight
           /\ point_in_rect(c, FbRect)
BY FbFacts DEF Pixels, point_in_rect, rect_valid, FbRect, make_rect

LEMMA Clipped ==
    ASSUME NEW r \in Rect
    PROVE  /\ clip_to_fb(r) \in Rect
           /\ \A c \in Pixels : point_in_rect(c, r) => point_in_rect(c, clip_to_fb(r))
<1> DEFINE x1 == IF r.x >= 0 THEN r.x ELSE 0
           y1 == IF r.y >= 0 THEN r.y ELSE 0
           x2 == IF r.x + r.w <= FbWidth THEN r.x + r.w ELSE FbWidth
           y2 == IF r.y + r.h <= FbHeight THEN r.y + r.h ELSE FbHeight
           w == IF x2 - x1 >= 0 THEN x2 - x1 ELSE 0
           h == IF y2 - y1 >= 0 THEN y2 - y1 ELSE 0
<1>1. /\ r.x \in Int /\ r.y \in Int /\ r.w \in Int /\ r.h \in Int
      /\ FbWidth \in Nat /\ FbHeight \in Nat
  BY FbFacts DEF Rect
<1>2. FbRect.x = 0 /\ FbRect.y = 0 /\ FbRect.w = FbWidth /\ FbRect.h = FbHeight
  BY DEF FbRect, make_rect
<1>3. Max({r.x, 0}) = x1 /\ Max({r.y, 0}) = y1
  BY <1>1, MaxTwo
<1>4. Min({r.x + r.w, FbWidth}) = x2 /\ Min({r.y + r.h, FbHeight}) = y2
  <2>1. r.x + r.w \in Int /\ r.y + r.h \in Int /\ FbWidth \in Int /\ FbHeight \in Int
    BY <1>1
  <2> QED BY <2>1, MinTwo
<1>5. x1 \in Int /\ y1 \in Int /\ x2 \in Int /\ y2 \in Int
  BY <1>1
<1>6. Max({x2 - x1, 0}) = w /\ Max({y2 - y1, 0}) = h
  <2>1. x2 - x1 \in Int /\ y2 - y1 \in Int
    BY <1>5
  <2> HIDE DEF x1, x2, y1, y2
  <2> QED BY <2>1, MaxTwo
<1>7. 0 + FbWidth = FbWidth /\ 0 + FbHeight = FbHeight
  BY <1>1
<1>8. clip_to_fb(r) = [x |-> x1, y |-> y1, w |-> w, h |-> h]
  <2> HIDE DEF x1, x2, y1, y2, w, h
  <2> QED BY <1>2, <1>3, <1>4, <1>6, <1>7 DEF clip_to_fb, rect_intersection, make_rect
<1>9. clip_to_fb(r) \in Rect
  BY <1>1, <1>8 DEF Rect
<1>10. ASSUME NEW c \in Pixels, point_in_rect(c, r) PROVE point_in_rect(c, clip_to_fb(r))
  <2> DEFINE q == clip_to_fb(r)
  <2>1. q.x = x1 /\ q.y = y1 /\ q.w = w /\ q.h = h
    BY <1>8
  <2> HIDE DEF q
  <2>2. c.x \in Int /\ c.y \in Int /\ 0 <= c.x /\ c.x < FbWidth /\ 0 <= c.y /\ c.y < FbHeight
    BY PixelFacts
  <2>3. c.x >= r.x /\ c.x < r.x + r.w /\ c.y >= r.y /\ c.y < r.y + r.h
    BY <1>10 DEF point_in_rect
  <2>4. c.x >= x1 /\ c.x < x2 /\ c.y >= y1 /\ c.y < y2
    BY <1>1, <2>2, <2>3
  <2>5. c.x < x1 + w /\ c.y < y1 + h /\ w > 0 /\ h > 0
    <3> HIDE DEF x1, x2, y1, y2
    <3> QED BY <1>5, <2>2, <2>4
  <2> HIDE DEF x1, x2, y1, y2, w, h
  <2>6. point_in_rect(c, q)
    BY <2>1, <2>4, <2>5 DEF point_in_rect, rect_valid
  <2> QED BY <2>6 DEF q
<1> QED BY <1>9, <1>10

LEMMA UnionCovers ==
    ASSUME NEW a \in Rect, NEW b \in Rect, rect_valid(a), rect_valid(b)
    PROVE  /\ rect_union(a, b) \in Rect /\ rect_valid(rect_union(a, b))
           /\ \A c \in Pixels : point_in_rect(c, a) \/ point_in_rect(c, b)
                                   => point_in_rect(c, rect_union(a, b))
<1> DEFINE x1 == IF a.x <= b.x THEN a.x ELSE b.x
           y1 == IF a.y <= b.y THEN a.y ELSE b.y
           x2 == IF a.x + a.w >= b.x + b.w THEN a.x + a.w ELSE b.x + b.w
           y2 == IF a.y + a.h >= b.y + b.h THEN a.y + a.h ELSE b.y + b.h
           q == rect_union(a, b)
<1>1. /\ a.x \in Int /\ a.y \in Int /\ a.w \in Int /\ a.h \in Int
      /\ b.x \in Int /\ b.y \in Int /\ b.w \in Int /\ b.h \in Int
      /\ a.w > 0 /\ a.h > 0 /\ b.w > 0 /\ b.h > 0
  BY DEF Rect, rect_valid
<1>2. Min({a.x, b.x}) = x1 /\ Min({a.y, b.y}) = y1
  BY <1>1, MinTwo
<1>3. Max({a.x + a.w, b.x + b.w}) = x2 /\ Max({a.y + a.h, b.y + b.h}) = y2
  <2>1. a.x + a.w \in Int /\ b.x + b.w \in Int /\ a.y + a.h \in Int /\ b.y + b.h \in Int
    BY <1>1
  <2> QED BY <2>1, MaxTwo
<1>4. q = [x |-> x1, y |-> y1, w |-> x2 - x1, h |-> y2 - y1]
  <2> HIDE DEF x1, x2, y1, y2
  <2> QED BY <1>2, <1>3 DEF rect_union, make_rect
<1>5. q.x = x1 /\ q.y = y1 /\ q.w = x2 - x1 /\ q.h = y2 - y1
  BY <1>4
<1>6. x1 \in Int /\ y1 \in Int /\ x2 \in Int /\ y2 \in Int /\ x2 > x1 /\ y2 > y1
  BY <1>1
<1>7. q \in Rect /\ rect_valid(q)
  <2> HIDE DEF x1, x2, y1, y2
  <2>1. x2 - x1 \in Int /\ y2 - y1 \in Int /\ x2 - x1 > 0 /\ y2 - y1 > 0
    BY <1>6
  <2>2. q \in Rect
    BY <1>4, <1>6, <2>1 DEF Rect
  <2> HIDE DEF q
  <2> QED BY <1>5, <2>1, <2>2 DEF rect_valid
<1>8. ASSUME NEW c \in Pixels, point_in_rect(c, a) \/ point_in_rect(c, b) PROVE point_in_rect(c, q)
  <2>1. c.x \in Int /\ c.y \in Int
    BY PixelFacts
  <2>2. \/ c.x >= a.x /\ c.x < a.x + a.w /\ c.y >= a.y /\ c.y < a.y + a.h
        \/ c.x >= b.x /\ c.x < b.x + b.w /\ c.y >= b.y /\ c.y < b.y + b.h
    BY <1>8 DEF point_in_rect
  <2>3. c.x >= x1 /\ c.x < x2 /\ c.y >= y1 /\ c.y < y2
    BY <1>1, <2>1, <2>2
  <2>4. c.x < x1 + (x2 - x1) /\ c.y < y1 + (y2 - y1)
    <3> HIDE DEF x1, x2, y1, y2
    <3> QED BY <1>6, <2>1, <2>3
  <2> HIDE DEF x1, x2, y1, y2, q
  <2> QED BY <1>5, <1>7, <2>3, <2>4 DEF point_in_rect
<1> HIDE DEF q
<1> QED BY <1>7, <1>8 DEF q

\* m is the function the loop of dirty_add computes in n rounds.
Rounds(m, start, n) ==
    m = [k \in 0 .. n |-> IF k = 0 THEN start ELSE Swallow(m[k - 1])]

LEMMA RoundsExist == ASSUME NEW start, NEW n \in Nat PROVE \E m : Rounds(m, start, n)
<1> DEFINE T == {k \in Nat : \E m : Rounds(m, start, k)}
<1>1. 0 \in T
  <2> DEFINE m == [k \in 0 .. 0 |-> start]
  <2>1. m = [k \in 0 .. 0 |-> IF k = 0 THEN start ELSE Swallow(m[k - 1])]
    OBVIOUS
  <2>2. Rounds(m, start, 0)
    BY <2>1 DEF Rounds
  <2> QED BY <2>2
<1>2. ASSUME NEW k \in Nat, k \in T PROVE k + 1 \in T
  <2>1. PICK m : Rounds(m, start, k)
    BY <1>2
  <2> DEFINE g == [j \in 0 .. k + 1 |-> IF j = 0 THEN start ELSE Swallow(m[j - 1])]
  <2>2. \A j \in 0 .. k : g[j] = m[j]
    <3>1. \A j \in 0 .. k : j \in 0 .. k + 1
      OBVIOUS
    <3>2. \A j \in 0 .. k : m[j] = IF j = 0 THEN start ELSE Swallow(m[j - 1])
      BY <2>1 DEF Rounds
    <3> QED BY <3>1, <3>2
  <2>3. \A j \in 0 .. k + 1 : j # 0 => j - 1 \in 0 .. k
    OBVIOUS
  <2>4. g = [j \in 0 .. k + 1 |-> IF j = 0 THEN start ELSE Swallow(g[j - 1])]
    BY <2>2, <2>3
  <2>5. Rounds(g, start, k + 1)
    <3> HIDE DEF g
    <3> QED BY <2>4 DEF Rounds
  <2> QED BY <2>5
<1>3. Nat \subseteq T
  <2> HIDE DEF T
  <2> QED BY <1>1, <1>2, NaturalInduction
<1> QED BY <1>3

\* Between the rounds nothing of the dirty cells is lost.
Swallowed(s, dirty, r) ==
    /\ s.rest \subseteq dirty /\ s.r \in Rect /\ rect_valid(s.r)
    /\ \A c \in Pixels : Covered(dirty \cup {r}, c) => Covered(s.rest \cup {s.r}, c)

LEMMA SwallowKeeps ==
    ASSUME NEW dirty, dirty \subseteq Rect, NEW r, NEW s, Swallowed(s, dirty, r)
    PROVE  Swallowed(Swallow(s), dirty, r)
<1> DEFINE met == {q \in s.rest : rect_intersects(q, s.r)}
           q == CHOOSE q \in met : TRUE
           t == [rest |-> s.rest \ {q}, r |-> rect_union(q, s.r)]
<1>1. CASE met = {}
  <2>1. Swallow(s) = s
    BY <1>1 DEF Swallow
  <2> QED BY <2>1
<1>2. CASE met # {}
  <2>1. Swallow(s) = t
    BY <1>2 DEF Swallow
  <2>2. q \in met
    <3> HIDE DEF met
    <3> QED BY <1>2
  <2>3. q \in s.rest /\ q \in Rect /\ rect_valid(q)
    BY <2>2 DEF Swallowed, rect_intersects
  <2> HIDE DEF q
  <2>4. t.rest = s.rest \ {q} /\ t.r = rect_union(q, s.r)
    OBVIOUS
  <2> HIDE DEF t
  <2>5. /\ rect_union(q, s.r) \in Rect /\ rect_valid(rect_union(q, s.r))
        /\ \A c \in Pixels : point_in_rect(c, q) \/ point_in_rect(c, s.r)
                                => point_in_rect(c, rect_union(q, s.r))
    BY <2>3, UnionCovers DEF Swallowed
  <2>6. ASSUME NEW c \in Pixels, Covered(s.rest \cup {s.r}, c) PROVE Covered(t.rest \cup {t.r}, c)
    BY <2>4, <2>5, <2>6 DEF Covered
  <2>7. Swallowed(t, dirty, r)
    BY <2>4, <2>5, <2>6 DEF Swallowed
  <2> QED BY <2>1, <2>7
<1> QED BY <1>1, <1>2

LEMMA DirtyAdded ==
    ASSUME NEW dirty, IsFiniteSet(dirty), dirty \subseteq Rect, NEW r \in Rect
    PROVE  LET after == dirty_add(dirty, r)
           IN  /\ IsFiniteSet(after) /\ after \subseteq Rect
               /\ \A c \in Pixels : Covered(dirty \cup {r}, c) => Covered(after, c)
<1> DEFINE start == [rest |-> dirty, r |-> r]
           N == Cardinality(dirty)
           merged == CHOOSE m : m = [n \in 0 .. N |-> IF n = 0 THEN start ELSE Swallow(m[n - 1])]
           end == merged[N]
<1>1. N \in Nat
  BY FS_CardinalityType
<1>2. Rounds(merged, start, N)
  <2> HIDE DEF start, N
  <2>1. \E m : m = [n \in 0 .. N |-> IF n = 0 THEN start ELSE Swallow(m[n - 1])]
    BY <1>1, RoundsExist DEF Rounds
  <2> QED BY <2>1, Zenon DEF Rounds
<1>3. dirty_add(dirty, r) = IF ~rect_valid(r) THEN dirty
                            ELSE IF Cardinality(end.rest) < MaxDirtyRects THEN end.rest \cup {end.r}
                            ELSE {FbRect}
  BY Zenon DEF dirty_add
<1> HIDE DEF merged, N
<1>4. CASE ~rect_valid(r)
  <2>1. \A c \in Pixels : ~point_in_rect(c, r)
    BY <1>4 DEF point_in_rect
  <2> QED BY <1>3, <1>4, <2>1 DEF Covered
<1>5. CASE rect_valid(r)
  <2>1. Swallowed(start, dirty, r)
    BY <1>5 DEF Swallowed
  <2> HIDE DEF start
  <2> DEFINE T == {n \in Nat : n <= N => Swallowed(merged[n], dirty, r)}
  <2>2. 0 \in T
    BY <1>1, <1>2, <2>1 DEF Rounds
  <2>3. ASSUME NEW n \in Nat, n \in T PROVE n + 1 \in T
    <3>1. CASE n + 1 <= N
      <4>1. n <= N /\ n + 1 \in 0 .. N /\ (n + 1) - 1 = n /\ n + 1 # 0
        BY <1>1, <3>1
      <4>2. merged[n + 1] = Swallow(merged[n])
        BY <1>2, <4>1 DEF Rounds
      <4>3. Swallowed(merged[n], dirty, r)
        BY <2>3, <4>1
      <4>4. Swallowed(merged[n + 1], dirty, r)
        BY <4>2, <4>3, SwallowKeeps
      <4> QED BY <4>4
    <3> QED BY <3>1
  <2>4. Nat \subseteq T
    <3> HIDE DEF T
    <3> QED BY <2>2, <2>3, NaturalInduction
  <2>5. Swallowed(end, dirty, r)
    BY <1>1, <2>4
  <2> HIDE DEF end, T
  <2>6. CASE Cardinality(end.rest) < MaxDirtyRects
    <3>1. dirty_add(dirty, r) = end.rest \cup {end.r}
      BY <1>3, <1>5, <2>6
    <3>2. IsFiniteSet(end.rest \cup {end.r})
      <4>1. IsFiniteSet(end.rest)
        BY <2>5, FS_Subset DEF Swallowed
      <4> QED BY <4>1, FS_AddElement
    <3> QED BY <2>5, <3>1, <3>2 DEF Swallowed
  <2>7. CASE ~(Cardinality(end.rest) < MaxDirtyRects)
    <3>1. dirty_add(dirty, r) = {FbRect}
      BY <1>3, <1>5, <2>7
    <3>2. IsFiniteSet({FbRect})
      BY FS_Singleton
    <3>3. \A c \in Pixels : Covered({FbRect}, c)
      BY PixelFacts DEF Covered
    <3> QED BY <3>1, <3>2, <3>3, FbFacts
  <2> QED BY <2>6, <2>7
<1> QED BY <1>4, <1>5

\* The dirty set the rectangles of S make, one after the other.
DirtySet(S) == FoldSet(LAMBDA r, dirty : dirty_add(dirty, clip_to_fb(r)), {}, S)

Folded(f, D) ==
    f = [s \in D |-> IF s = {} THEN {}
                     ELSE dirty_add(f[s \ {CHOOSE x \in s : TRUE}], clip_to_fb(CHOOSE x \in s : TRUE))]

Upto(S, n) == {s \in SUBSET S : Cardinality(s) <= n}

LEMMA UptoFacts ==
    ASSUME NEW S, IsFiniteSet(S)
    PROVE  /\ Upto(S, Cardinality(S)) = SUBSET S /\ Cardinality(S) \in Nat
           /\ \A s \in Upto(S, 0) : s = {}
           /\ \A n \in Nat : Upto(S, n) \subseteq Upto(S, n + 1)
           /\ \A n \in Nat : \A s \in Upto(S, n + 1) :
                 s # {} => (CHOOSE x \in s : TRUE) \in s /\ s \ {CHOOSE x \in s : TRUE} \in Upto(S, n)
<1>1. \A s \in SUBSET S : IsFiniteSet(s) /\ Cardinality(s) <= Cardinality(S) /\ Cardinality(s) \in Nat
  BY FS_Subset, FS_CardinalityType
<1>2. Cardinality(S) \in Nat
  BY FS_CardinalityType
<1>3. Upto(S, Cardinality(S)) = SUBSET S
  BY <1>1 DEF Upto
<1>4. \A s \in Upto(S, 0) : s = {}
  BY <1>1, FS_EmptySet DEF Upto
<1>5. \A n \in Nat : Upto(S, n) \subseteq Upto(S, n + 1)
  BY <1>1 DEF Upto
<1>6. ASSUME NEW n \in Nat, NEW s \in Upto(S, n + 1), s # {}
      PROVE  (CHOOSE x \in s : TRUE) \in s /\ s \ {CHOOSE x \in s : TRUE} \in Upto(S, n)
  <2> DEFINE x == CHOOSE x \in s : TRUE
  <2>1. x \in s
    BY <1>6
  <2> HIDE DEF x
  <2>2. IsFiniteSet(s) /\ Cardinality(s) <= n + 1 /\ s \in SUBSET S /\ Cardinality(s) \in Nat
    BY <1>1 DEF Upto
  <2>3. Cardinality(s \ {x}) = Cardinality(s) - 1
    BY <2>1, <2>2, FS_RemoveElement
  <2>4. Cardinality(s \ {x}) <= n
    BY <2>2, <2>3
  <2>5. s \ {x} \in SUBSET S
    BY <2>2
  <2> QED BY <2>1, <2>4, <2>5 DEF Upto, x
<1> QED BY <1>2, <1>3, <1>4, <1>5, <1>6

LEMMA FoldExists == ASSUME NEW S, IsFiniteSet(S) PROVE \E f : Folded(f, SUBSET S)
<1> DEFINE T == {n \in Nat : \E f : Folded(f, Upto(S, n))}
           Pick(s) == CHOOSE x \in s : TRUE
<1>1. 0 \in T
  <2> DEFINE f == [s \in Upto(S, 0) |-> {}]
  <2>1. Folded(f, Upto(S, 0))
    BY UptoFacts DEF Folded
  <2> QED BY <2>1
<1>2. ASSUME NEW n \in Nat, n \in T PROVE n + 1 \in T
  <2>1. PICK f : Folded(f, Upto(S, n))
    BY <1>2
  <2> DEFINE A == Upto(S, n)
             B == Upto(S, n + 1)
             g == [s \in B |-> IF s = {} THEN {} ELSE dirty_add(f[s \ {Pick(s)}], clip_to_fb(Pick(s)))]
  <2> HIDE DEF Pick
  <2>2. \A s \in A : s \in B
    BY UptoFacts
  <2>3. \A s \in B : s # {} => s \ {Pick(s)} \in A
    BY UptoFacts DEF Pick
  <2> HIDE DEF A, B
  <2>4. \A s \in A : f[s] = IF s = {} THEN {} ELSE dirty_add(f[s \ {Pick(s)}], clip_to_fb(Pick(s)))
    <3>1. f = [s \in A |-> IF s = {} THEN {} ELSE dirty_add(f[s \ {Pick(s)}], clip_to_fb(Pick(s)))]
      BY <2>1, Zenon DEF Folded, A, Pick
    <3> QED BY <3>1
  <2>5. \A s \in A : g[s] = f[s]
    BY <2>2, <2>4
  <2>6. g = [s \in B |-> IF s = {} THEN {} ELSE dirty_add(g[s \ {Pick(s)}], clip_to_fb(Pick(s)))]
    BY <2>3, <2>5
  <2> HIDE DEF g
  <2>7. Folded(g, B)
    BY <2>6, Zenon DEF Folded, Pick
  <2> QED BY <2>7 DEF B
<1>3. Nat \subseteq T
  <2> HIDE DEF T
  <2> QED BY <1>1, <1>2, NaturalInduction
<1>4. Cardinality(S) \in T /\ Upto(S, Cardinality(S)) = SUBSET S
  BY <1>3, UptoFacts
<1> QED BY <1>4

LEMMA DirtySetIs ==
    ASSUME NEW S, IsFiniteSet(S)
    PROVE  \E f : Folded(f, SUBSET S) /\ DirtySet(S) = f[S]
<1> DEFINE f == CHOOSE f : f = [s \in SUBSET S |-> IF s = {} THEN {}
                     ELSE dirty_add(f[s \ {CHOOSE x \in s : TRUE}], clip_to_fb(CHOOSE x \in s : TRUE))]
<1>1. DirtySet(S) = f[S]
  BY Zenon DEF DirtySet, FoldSet, MapThenFoldSet
<1>2. \E g : g = [s \in SUBSET S |-> IF s = {} THEN {}
                     ELSE dirty_add(g[s \ {CHOOSE x \in s : TRUE}], clip_to_fb(CHOOSE x \in s : TRUE))]
  BY FoldExists, Zenon DEF Folded
<1>3. Folded(f, SUBSET S)
  BY <1>2, Zenon DEF Folded
<1> QED BY <1>1, <1>3

\* Whatever is merged with what, every cell that was to be painted is.
LEMMA DirtySetCovers ==
    ASSUME NEW S, IsFiniteSet(S), S \subseteq Rect, NEW r \in S, NEW c \in Pixels, point_in_rect(c, r)
    PROVE  Covered(DirtySet(S), c)
<1>1. PICK f : Folded(f, SUBSET S) /\ DirtySet(S) = f[S]
  BY DirtySetIs
<1> DEFINE Pick(s) == CHOOSE x \in s : TRUE
           Fine(s) == /\ IsFiniteSet(f[s]) /\ f[s] \subseteq Rect
                      /\ \A q \in s, k \in Pixels : point_in_rect(k, q) => Covered(f[s], k)
           T == {n \in Nat : \A s \in Upto(S, n) : Fine(s)}
<1>2. f[{}] = {} /\ \A s \in SUBSET S : s # {} => f[s] = dirty_add(f[s \ {Pick(s)}], clip_to_fb(Pick(s)))
  <2>1. f = [s \in SUBSET S |-> IF s = {} THEN {} ELSE dirty_add(f[s \ {Pick(s)}], clip_to_fb(Pick(s)))]
    BY <1>1, Zenon DEF Folded
  <2> HIDE DEF Pick
  <2> QED BY <2>1
<1>3. Fine({})
  BY <1>2, FS_EmptySet
<1>4. 0 \in T
  BY <1>3, UptoFacts
<1>5. ASSUME NEW n \in Nat, n \in T PROVE n + 1 \in T
  <2> SUFFICES ASSUME NEW s \in Upto(S, n + 1) PROVE Fine(s)
    OBVIOUS
  <2>1. CASE s = {}
    BY <1>3, <2>1
  <2>2. CASE s # {}
    <3>0. Pick(s) \in s /\ s \ {Pick(s)} \in Upto(S, n) /\ s \in SUBSET S
      BY <2>2, UptoFacts DEF Upto
    <3>1. Fine(s \ {Pick(s)})
      BY <1>5, <3>0
    <3>2. f[s] = dirty_add(f[s \ {Pick(s)}], clip_to_fb(Pick(s)))
      BY <1>2, <2>2, <3>0
    <3> HIDE DEF Pick
    <3> DEFINE D == f[s \ {Pick(s)}]
               q0 == Pick(s)
               k0 == clip_to_fb(q0)
    <3>3. /\ q0 \in Rect /\ k0 \in Rect
          /\ \A k \in Pixels : point_in_rect(k, q0) => point_in_rect(k, k0)
      BY <3>0, Clipped
    <3>4. /\ IsFiniteSet(D) /\ D \subseteq Rect
          /\ \A q \in s, k \in Pixels : q # q0 /\ point_in_rect(k, q) => Covered(D, k)
      BY <3>1
    <3> HIDE DEF D, q0, k0
    <3>5. /\ IsFiniteSet(dirty_add(D, k0)) /\ dirty_add(D, k0) \subseteq Rect
          /\ \A k \in Pixels : Covered(D \cup {k0}, k) => Covered(dirty_add(D, k0), k)
      BY <3>3, <3>4, DirtyAdded
    <3>6. f[s] = dirty_add(D, k0)
      BY <3>2 DEF D, k0, q0
    <3>7. ASSUME NEW q \in s, NEW k \in Pixels, point_in_rect(k, q) PROVE Covered(D \cup {k0}, k)
      <4>1. CASE q = q0
        BY <3>3, <3>7, <4>1 DEF Covered
      <4>2. CASE q # q0
        BY <3>4, <3>7, <4>2 DEF Covered
      <4> QED BY <4>1, <4>2
    <3> QED BY <3>5, <3>6, <3>7
  <2> QED BY <2>1, <2>2
<1>6. Nat \subseteq T
  <2> HIDE DEF T
  <2> QED BY <1>4, <1>5, NaturalInduction
<1>7. Fine(S)
  <2>1. S \in Upto(S, Cardinality(S)) /\ Cardinality(S) \in Nat
    BY UptoFacts
  <2> QED BY <1>6, <2>1
<1> QED BY <1>1, <1>7

LEMMA NothingDirty == DirtySet({}) = {}
<1>1. IsFiniteSet({})
  BY FS_EmptySet
<1>2. PICK f : Folded(f, SUBSET {}) /\ DirtySet({}) = f[{}]
  BY <1>1, DirtySetIs
<1>3. f[{}] = {}
  BY <1>2 DEF Folded
<1> QED BY <1>2, <1>3

-----------------------------------------------------------------------------
(* A frame.                                                                *)

\* What the snapshot p and the lines l0 of a frame's beginning look like.
Frame(p, l0) ==
    [windows |-> p.windows, z_order |-> p.z_order, active_idx |-> p.active_idx, lines |-> l0]

\* Snapshots.
Snapshot(p) ==
    /\ p.windows \in [Windows -> WindowRecord] /\ Stacked(p.z_order)
    /\ p.active_idx \in {-1, top_visible_window(p)}

DirtyRects(p, d) == (UNION {DirtyWindow(p, d, i) : i \in Windows}) \cup DirtyDesktop(p, d)

LEMMA ImageFinite ==
    ASSUME NEW S, IsFiniteSet(S), NEW f, DOMAIN f = S, f = [x \in S |-> f[x]]
    PROVE  IsFiniteSet({f[x] : x \in S})
<1> DEFINE T == {f[x] : x \in S}
<1>1. f \in Surjection(S, T)
  BY DEF Surjection
<1> QED BY <1>1, FS_Surjection

LEMMA DirtyRectsFinite ==
    ASSUME NEW p, NEW d, Snapshot(p), RtTyped(d)
    PROVE  IsFiniteSet(DirtyRects(p, d)) /\ DirtyRects(p, d) \subseteq Rect
<1> DEFINE W == {p.windows[i] : i \in Windows} \cup {d.windows[i] : i \in Windows}
           A == {window_rect(w) : w \in W}
           B == {window_body_rect(w) : w \in W}
           I == {icon_rect(i) : i \in Windows}
           All == ((A \cup B) \cup I) \cup {desktop_top_rect}
<1>1. IsFiniteSet(Windows)
  <2>1. 0 \in Int /\ WindowCount - 1 \in Int
    BY WindowFacts
  <2> QED BY <2>1, FS_Interval DEF Windows
<1>2. IsFiniteSet(W)
  <2>1. IsFiniteSet({p.windows[i] : i \in Windows}) /\ IsFiniteSet({d.windows[i] : i \in Windows})
    <3> DEFINE f == [i \in Windows |-> p.windows[i]]
               g == [i \in Windows |-> d.windows[i]]
    <3>1. IsFiniteSet({f[i] : i \in Windows}) /\ IsFiniteSet({g[i] : i \in Windows})
      BY <1>1, ImageFinite
    <3>2. {f[i] : i \in Windows} = {p.windows[i] : i \in Windows} /\ {g[i] : i \in Windows} = {d.windows[i] : i \in Windows}
      OBVIOUS
    <3> QED BY <3>1, <3>2
  <2> QED BY <2>1, FS_Union
<1>3. W \subseteq WindowRecord
  BY DEF Snapshot, RtTyped
<1> HIDE DEF W
<1>4. IsFiniteSet(A) /\ IsFiniteSet(B) /\ IsFiniteSet(I)
  <2> DEFINE f == [w \in W |-> window_rect(w)]
             g == [w \in W |-> window_body_rect(w)]
             h == [i \in Windows |-> icon_rect(i)]
  <2>1. /\ IsFiniteSet({f[w] : w \in W}) /\ IsFiniteSet({g[w] : w \in W})
        /\ IsFiniteSet({h[i] : i \in Windows})
    BY <1>1, <1>2, ImageFinite
  <2>2. {f[w] : w \in W} = A /\ {g[w] : w \in W} = B /\ {h[i] : i \in Windows} = I
    OBVIOUS
  <2> QED BY <2>1, <2>2
<1>5. IsFiniteSet(All)
  BY <1>4, FS_Union, FS_Singleton
<1>6. All \subseteq Rect
  <2>1. \A w \in WindowRecord : window_rect(w) \in Rect /\ window_body_rect(w) \in Rect
    BY FbFacts DEF WindowRecord, window_rect, window_body_rect, make_rect, Rect
  <2>2. \A i \in Windows : icon_rect(i) \in Rect
    BY WindowFacts DEF icon_rect, make_rect, Rect, Windows
  <2>3. desktop_top_rect \in Rect
    BY FbFacts DEF desktop_top_rect, make_rect, Rect
  <2> QED BY <1>3, <2>1, <2>2, <2>3
<1>7. DirtyRects(p, d) \subseteq All
  <2>1. ASSUME NEW i \in Windows PROVE DirtyWindow(p, d, i) \subseteq A \cup B
    <3>1. p.windows[i] \in W /\ d.windows[i] \in W
      BY DEF W
    <3> QED BY <3>1 DEF DirtyWindow
  <2>2. DirtyDesktop(p, d) \subseteq I \cup {desktop_top_rect}
    BY DEF DirtyDesktop
  <2> QED BY <2>1, <2>2 DEF DirtyRects
<1> HIDE DEF All
<1> QED BY <1>5, <1>6, <1>7, FS_Subset

\* The windows of d that have the cell c.
HitBy(d, c) == {i \in Visible(d) : point_in_rect(c, window_rect(d.windows[i]))}

\* A cell no dirty rectangle has looks as it did.
LEMMA CleanCellSame ==
    ASSUME NEW p, Snapshot(p), NEW d, Well(d), d.scene_changed, NEW l0, NEW c \in Pixels,
           \A r \in DirtyRects(p, d) : ~point_in_rect(c, r)
    PROVE  Scene(Frame(p, l0), c) = Scene(d, c)
<1> DEFINE b == Frame(p, l0)
           Was(i) == p.windows[i]
           Is(i) == d.windows[i]
           Restyled(i) == Was(i).theme # Is(i).theme \/ (i = p.active_idx) # (i = d.active_idx)
           Differs(i) == Was(i) # Is(i) \/ Restyled(i) \/ p.z_order # d.z_order
<1>1. b.windows = p.windows /\ b.z_order = p.z_order /\ b.active_idx = p.active_idx
  BY DEF Frame
<1> HIDE DEF b
<1>2. Visible(b) = Visible(p) /\ HitBy(b, c) = HitBy(p, c)
  BY <1>1 DEF Visible, HitBy
<1>3. ASSUME NEW i \in Windows, NEW w \in {Was(i), Is(i)}, w.visible
      PROVE  ~point_in_rect(c, window_body_rect(w)) /\ (Differs(i) => ~point_in_rect(c, window_rect(w)))
  <2>1. window_body_rect(w) \in DirtyWindow(p, d, i)
    BY <1>3 DEF DirtyWindow
  <2>2. Differs(i) => window_rect(w) \in DirtyWindow(p, d, i)
    BY <1>3 DEF DirtyWindow
  <2>3. DirtyWindow(p, d, i) \subseteq DirtyRects(p, d)
    BY DEF DirtyRects
  <2> QED BY <2>1, <2>2, <2>3
<1>4. \A i \in Windows : Differs(i) => i \notin HitBy(p, c) /\ i \notin HitBy(d, c)
  BY <1>3 DEF HitBy, Visible
<1>5. HitBy(p, c) = HitBy(d, c)
  <2>1. \A i \in Windows : ~Differs(i) => (i \in HitBy(p, c) <=> i \in HitBy(d, c))
    BY DEF HitBy, Visible
  <2>2. HitBy(p, c) \subseteq Windows /\ HitBy(d, c) \subseteq Windows
    BY DEF HitBy, Visible
  <2> HIDE DEF Differs
  <2> QED BY <1>4, <2>1, <2>2
<1> DEFINE i == hit_test_window(d, c)
           icon == hit_test_icon(c)
<1>6. HitBy(d, c) \subseteq Windows /\ Stacked(d.z_order) /\ i = TopOf(d, HitBy(d, c))
  BY DEF HitBy, Visible, Well, RtTyped, hit_test_window
<1>7. hit_test_window(b, c) = i
  <2>1. hit_test_window(b, c) = TopOf(b, HitBy(d, c))
    BY <1>2, <1>5 DEF hit_test_window, HitBy
  <2>2. CASE HitBy(d, c) = {}
    BY <1>6, <2>1, <2>2 DEF TopOf
  <2>3. CASE HitBy(d, c) # {}
    <3>1. p.z_order = d.z_order
      BY <1>4, <1>6, <2>3
    <3> QED BY <1>1, <1>6, <2>1, <3>1 DEF TopOf
  <2> QED BY <2>2, <2>3
<1> HIDE DEF i, icon
<1>8. CASE i # -1
  <2>1. i \in HitBy(d, c) /\ i \in Windows
    BY <1>6, <1>8, TopIn
  <2>2. ~Differs(i)
    BY <1>4, <2>1
  <2>3. Was(i) = Is(i) /\ ((i = p.active_idx) <=> (i = d.active_idx))
    BY <2>2
  <2>4. ~point_in_rect(c, window_body_rect(Is(i)))
    <3>1. Is(i).visible
      BY <2>1 DEF HitBy, Visible
    <3> QED BY <1>3, <2>1, <3>1
  <2>5. Scene(d, c) = <<"frame", i, Is(i).theme, i = d.active_idx>>
    BY <1>8, <2>4 DEF Scene, i
  <2>6. Scene(b, c) = <<"frame", i, Was(i).theme, i = p.active_idx>>
    BY <1>1, <1>7, <1>8, <2>3, <2>4 DEF Scene
  <2>7. (i = p.active_idx) = (i = d.active_idx)
    BY <2>3
  <2> QED BY <2>3, <2>5, <2>6, <2>7 DEF b
<1>9. CASE i = -1 /\ icon # -1
  <2>1. icon \in Windows /\ point_in_rect(c, icon_rect(icon))
    <3> DEFINE hit == {j \in Windows : point_in_rect(c, icon_rect(j))}
    <3>1. hit # {} /\ icon = Min(hit)
      BY <1>9 DEF icon, hit_test_icon
    <3>2. hit \subseteq Nat
      BY WindowFacts DEF Windows
    <3>3. Min(hit) \in hit
      <4> HIDE DEF hit
      <4> QED BY <3>1, <3>2, MinOf
    <3> QED BY <3>1, <3>3
  <2>2. icon_rect(icon) \notin DirtyDesktop(p, d)
    BY <2>1 DEF DirtyRects
  <2>3. /\ (icon = p.active_idx) = (icon = d.active_idx)
        /\ Was(icon).visible = Is(icon).visible
    BY <2>1, <2>2, Zenon DEF DirtyDesktop
  <2>4. Scene(d, c) = <<"icon", icon, Is(icon).visible, icon = d.active_idx>>
    BY <1>9 DEF Scene, i, icon
  <2>5. Scene(b, c) = <<"icon", icon, Was(icon).visible, icon = p.active_idx>>
    BY <1>1, <1>7, <1>9 DEF Scene, icon
  <2> QED BY <2>3, <2>4, <2>5 DEF b
<1>10. CASE i = -1 /\ icon = -1 /\ point_in_rect(c, desktop_top_rect)
  <2> DEFINE Shown1(e) == IF e.active_idx \in Visible(e) THEN e.active_idx ELSE -1
  <2>1. desktop_top_rect \notin DirtyDesktop(p, d)
    BY <1>10 DEF DirtyRects
  <2>2. Cardinality(Visible(p)) = Cardinality(Visible(d)) /\ p.active_idx = d.active_idx
    BY <2>1 DEF DirtyDesktop
  <2>3. Shown1(d) = d.active_idx /\ Shown1(p) = p.active_idx
    <3>1. ASSUME NEW e, Stacked(e.z_order), e.active_idx \in {-1, top_visible_window(e)} PROVE Shown1(e) = e.active_idx
      BY <3>1, TopIn DEF top_visible_window, Visible
    <3> QED BY <3>1 DEF Well, RtTyped, Focused, Snapshot
  <2>4. Scene(d, c) = <<"bar", Cardinality(Visible(d)), Shown1(d)>>
    BY <1>10 DEF Scene, i, icon
  <2>5. Scene(b, c) = <<"bar", Cardinality(Visible(p)), Shown1(p)>>
    BY <1>1, <1>2, <1>7, <1>10 DEF Scene, icon
  <2> QED BY <2>2, <2>3, <2>4, <2>5 DEF b
<1>11. CASE i = -1 /\ icon = -1 /\ ~point_in_rect(c, desktop_top_rect)
  <2>1. Scene(d, c) = <<"background">>
    BY <1>11 DEF Scene, i, icon
  <2>2. Scene(b, c) = <<"background">>
    BY <1>7, <1>11 DEF Scene, icon
  <2> QED BY <2>1, <2>2 DEF b
<1> QED BY <1>8, <1>9, <1>10, <1>11

LEMMA SameLookSame ==
    ASSUME NEW a, NEW b, Stacked(b.z_order), SameLook(a, b), NEW c
    PROVE  Scene(a, c) = Scene(b, c)
<1> DEFINE i == hit_test_window(b, c)
<1>1. Visible(a) = Visible(b) /\ HitBy(a, c) = HitBy(b, c)
  BY DEF SameLook, Visible, HitBy
<1>2. hit_test_window(a, c) = i
  BY <1>1 DEF SameLook, hit_test_window, HitBy, TopOf
<1>3. i # -1 => b.lines[i] = a.lines[i]
  <2>1. HitBy(b, c) \subseteq Windows /\ i = TopOf(b, HitBy(b, c))
    BY DEF HitBy, Visible, hit_test_window
  <2>2. i # -1 => i \in HitBy(b, c)
    BY <2>1, TopIn
  <2> QED BY <2>2 DEF SameLook, HitBy
<1> HIDE DEF i
<1>4. /\ b.windows = a.windows /\ b.active_idx = a.active_idx
  BY DEF SameLook
<1> DEFINE icon == hit_test_icon(c)
<1> HIDE DEF icon
<1>5. CASE i # -1 /\ point_in_rect(c, window_body_rect(b.windows[i]))
  <2>1. Scene(b, c) = <<"body", i, b.windows[i].theme, i = b.active_idx, b.lines[i]>>
    BY <1>5 DEF Scene, i
  <2>2. Scene(a, c) = <<"body", i, a.windows[i].theme, i = a.active_idx, a.lines[i]>>
    BY <1>2, <1>4, <1>5 DEF Scene
  <2> QED BY <1>3, <1>4, <1>5, <2>1, <2>2
<1>6. CASE i # -1 /\ ~point_in_rect(c, window_body_rect(b.windows[i]))
  <2>1. Scene(b, c) = <<"frame", i, b.windows[i].theme, i = b.active_idx>>
    BY <1>6 DEF Scene, i
  <2>2. Scene(a, c) = <<"frame", i, a.windows[i].theme, i = a.active_idx>>
    BY <1>2, <1>4, <1>6 DEF Scene
  <2> QED BY <1>4, <2>1, <2>2
<1>7. CASE i = -1 /\ icon # -1
  <2>1. Scene(b, c) = <<"icon", icon, b.windows[icon].visible, icon = b.active_idx>>
    BY <1>7 DEF Scene, i, icon
  <2>2. Scene(a, c) = <<"icon", icon, a.windows[icon].visible, icon = a.active_idx>>
    BY <1>2, <1>7 DEF Scene, icon
  <2> QED BY <1>4, <2>1, <2>2
<1>8. CASE i = -1 /\ icon = -1 /\ point_in_rect(c, desktop_top_rect)
  <2> DEFINE Shown1(e) == IF e.active_idx \in Visible(e) THEN e.active_idx ELSE -1
  <2>1. Scene(b, c) = <<"bar", Cardinality(Visible(b)), Shown1(b)>>
    BY <1>8 DEF Scene, i, icon
  <2>2. Scene(a, c) = <<"bar", Cardinality(Visible(a)), Shown1(a)>>
    BY <1>2, <1>8 DEF Scene, icon
  <2> QED BY <1>1, <1>4, <2>1, <2>2
<1>9. CASE i = -1 /\ icon = -1 /\ ~point_in_rect(c, desktop_top_rect)
  <2>1. Scene(b, c) = <<"background">>
    BY <1>9 DEF Scene, i, icon
  <2>2. Scene(a, c) = <<"background">>
    BY <1>2, <1>9 DEF Scene, icon
  <2> QED BY <2>1, <2>2
<1> QED BY <1>5, <1>6, <1>7, <1>8, <1>9

\* The screen shows the frame that began with p and l0, and the flags say
\* what is different since.
FrameShown(p, l0, d) ==
    /\ d.screen = [c \in Pixels |-> IF c = d.cursor_save.at THEN <<"cursor">> ELSE Scene(Frame(p, l0), c)]
    /\ d.cursor_save.valid /\ d.cursor_save.at \in Pixels
    /\ d.cursor_save.pixel = Scene(Frame(p, l0), d.cursor_save.at)
    /\ ~d.scene_changed => SameLook(Frame(p, l0), d)
    /\ ~d.cursor_changed => d.cursor = d.cursor_save.at
    /\ d.force_full_redraw => d.scene_changed

LEMMA FrameEdited ==
    ASSUME NEW p, NEW l0, NEW a, NEW b, FrameShown(p, l0, a), Edits(a, b)
    PROVE  FrameShown(p, l0, b)
<1>1. ~b.scene_changed => SameLook(Frame(p, l0), b)
  BY DEF FrameShown, Edits, Touches, SameLook, Visible
<1>2. /\ b.screen = a.screen /\ b.cursor_save = a.cursor_save
      /\ ~b.cursor_changed => b.cursor = b.cursor_save.at
      /\ b.force_full_redraw => b.scene_changed
  BY DEF FrameShown, Edits, Touches
<1> QED BY <1>1, <1>2 DEF FrameShown

\* What desktop_render_frame paints is all there is to paint.
LEMMA Rendered ==
    ASSUME NEW p, Snapshot(p), NEW d, Well(d), NEW l0, FrameShown(p, l0, d)
    PROVE  LET e == desktop_render_frame(p, d)
           IN  /\ e.screen = [c \in Pixels |-> IF c = d.cursor THEN <<"cursor">> ELSE Scene(d, c)]
               /\ e.cursor_save.valid /\ e.cursor_save.at = d.cursor
               /\ e.cursor_save.pixel = Scene(d, d.cursor)
               /\ DOMAIN e = RtFields /\ e.windows = d.windows /\ e.z_order = d.z_order
               /\ e.active_idx = d.active_idx /\ e.dragging_idx = d.dragging_idx
               /\ e.drag_off = d.drag_off /\ e.cursor = d.cursor /\ KeepsPanel(d, e)
<1> DEFINE overlay == d.cursor_changed \/ d.scene_changed
           under == IF overlay THEN cursor_restore_under(d.screen, d.cursor_save) ELSE d.screen
           dirty == Dirty(p, d)
           painted == [c \in Pixels |-> IF \E r \in dirty : point_in_rect(c, r) THEN Scene(d, c) ELSE under[c]]
           over == Overlaid(painted, d.cursor)
           e == desktop_render_frame(p, d)
           Old(c) == Scene(Frame(p, l0), c)
           set == DirtySet(DirtyRects(p, d))
<1>1. Stacked(d.z_order) /\ d.cursor \in Pixels /\ DOMAIN d = RtFields
  BY DEF Well, RtTyped
<1>2. dirty = IF \/ d.force_full_redraw
                 \/ d.scene_changed /\ d.dragging_idx # -1
                 \/ d.scene_changed /\ set = {}
                 \/ (d.scene_changed \/ d.cursor_changed) /\ ~d.cursor_save.valid
              THEN {FbRect} ELSE set
  BY Zenon DEF Dirty, DirtySet, DirtyRects
<1>3. e = IF overlay THEN [d EXCEPT !.screen = over.screen, !.cursor_save = over.save]
          ELSE [d EXCEPT !.screen = painted]
  BY Zenon DEF desktop_render_frame
<1>4. \A c \in Pixels : c # d.cursor_save.at => d.screen[c] = Old(c)
  BY DEF FrameShown
<1> HIDE DEF dirty, set, e
<1>5. CASE overlay
  <2>1. \A c \in Pixels : under[c] = Old(c)
    <3>1. under = [d.screen EXCEPT ![d.cursor_save.at] = d.cursor_save.pixel]
      BY <1>5 DEF cursor_restore_under, FrameShown
    <3>2. DOMAIN d.screen = Pixels /\ d.cursor_save.pixel = Old(d.cursor_save.at)
      BY DEF FrameShown
    <3> HIDE DEF under, Old
    <3> QED BY <1>4, <3>1, <3>2
  <2> HIDE DEF under
  <2>2. ASSUME NEW c \in Pixels, ~\E r \in dirty : point_in_rect(c, r) PROVE Old(c) = Scene(d, c)
    <3>1. CASE ~d.scene_changed
      <4>1. SameLook(Frame(p, l0), d)
        BY <3>1 DEF FrameShown
      <4> QED BY <1>1, <4>1, SameLookSame
    <3>2. CASE d.scene_changed
      <4>1. dirty = set
        BY <1>2, <2>2, PixelFacts
      <4>2. \A r \in DirtyRects(p, d) : ~point_in_rect(c, r)
        <5>1. IsFiniteSet(DirtyRects(p, d)) /\ DirtyRects(p, d) \subseteq Rect
          BY DirtyRectsFinite DEF Well
        <5> QED BY <2>2, <4>1, <5>1, DirtySetCovers DEF Covered, set
      <4> QED BY <3>2, <4>2, CleanCellSame
    <3> QED BY <3>1, <3>2
  <2>3. painted = [c \in Pixels |-> Scene(d, c)]
    BY <2>1, <2>2
  <2>4. painted[d.cursor] = Scene(d, d.cursor)
    BY <1>1, <2>3
  <2>5. [painted EXCEPT ![d.cursor] = <<"cursor">>]
           = [c \in Pixels |-> IF c = d.cursor THEN <<"cursor">> ELSE Scene(d, c)]
    <3> HIDE DEF painted
    <3> QED BY <2>3
  <2> HIDE DEF painted
  <2>6. /\ over.screen = [painted EXCEPT ![d.cursor] = <<"cursor">>]
        /\ over.save.valid /\ over.save.at = d.cursor /\ over.save.pixel = painted[d.cursor]
    BY DEF Overlaid
  <2> HIDE DEF over
  <2>7. e = [d EXCEPT !.screen = over.screen, !.cursor_save = over.save]
    BY <1>3, <1>5
  <2>8. /\ DOMAIN e = RtFields /\ e.windows = d.windows /\ e.z_order = d.z_order
        /\ e.active_idx = d.active_idx /\ e.dragging_idx = d.dragging_idx
        /\ e.drag_off = d.drag_off /\ e.cursor = d.cursor /\ KeepsPanel(d, e)
        /\ e.screen = over.screen /\ e.cursor_save = over.save
    BY <1>1, <2>7 DEF RtFields, KeepsPanel
  <2> QED BY <2>4, <2>5, <2>6, <2>8 DEF e
<1>6. CASE ~overlay
  <2>1. SameLook(Frame(p, l0), d) /\ d.cursor = d.cursor_save.at /\ ~d.force_full_redraw
        /\ ~d.scene_changed /\ ~d.cursor_changed
    BY <1>6 DEF FrameShown
  <2>2. DirtyRects(p, d) = {}
    <3>1. d.windows = p.windows /\ d.z_order = p.z_order /\ d.active_idx = p.active_idx
      BY <2>1 DEF SameLook, Frame
    <3>2. Visible(d) = Visible(p)
      BY <3>1 DEF Visible
    <3>3. \A i \in Windows : DirtyWindow(p, d, i) = {}
      BY <2>1, <3>1 DEF DirtyWindow
    <3>4. DirtyDesktop(p, d) = {}
      BY <3>1, <3>2 DEF DirtyDesktop
    <3> QED BY <3>3, <3>4 DEF DirtyRects
  <2>3. dirty = {}
    BY <1>2, <2>1, <2>2, NothingDirty DEF set
  <2>4. painted = d.screen
    <3>1. under = d.screen
      BY <1>6
    <3>2. d.screen = [c \in Pixels |-> d.screen[c]]
      BY DEF FrameShown
    <3> HIDE DEF under
    <3> QED BY <2>3, <3>1, <3>2
  <2>5. \A c \in Pixels : Old(c) = Scene(d, c)
    BY <1>1, <2>1, SameLookSame
  <2> HIDE DEF painted
  <2>6. e = [d EXCEPT !.screen = d.screen]
    BY <1>3, <1>6, <2>4
  <2>7. /\ DOMAIN e = RtFields /\ e.windows = d.windows /\ e.z_order = d.z_order
        /\ e.active_idx = d.active_idx /\ e.dragging_idx = d.dragging_idx
        /\ e.drag_off = d.drag_off /\ e.cursor = d.cursor /\ KeepsPanel(d, e)
        /\ e.screen = d.screen /\ e.cursor_save = d.cursor_save
    BY <1>1, <2>6 DEF RtFields, KeepsPanel
  <2>8. d.screen = [c \in Pixels |-> IF c = d.cursor THEN <<"cursor">> ELSE Scene(d, c)]
    BY <2>1, <2>5 DEF FrameShown
  <2>9. d.cursor_save.pixel = Scene(d, d.cursor)
    BY <2>1, <2>5, <1>1 DEF FrameShown
  <2> QED BY <2>1, <2>7, <2>8, <2>9 DEF e, FrameShown
<1> QED BY <1>5, <1>6

\* Every visible window is on the screen, below the bar and beside the icons.
OnScreen(d) ==
    \A i \in Visible(d) : /\ d.windows[i].x \in 1 .. FbWidth - WinWidth
                          /\ d.windows[i].y \in 1 .. FbHeight - WinHeight

LEMMA ClampedWindow ==
    ASSUME NEW w \in WindowRecord
    PROVE  /\ clamp_window(w) \in WindowRecord /\ clamp_window(w).visible = w.visible
           /\ clamp_window(w).x \in 1 .. FbWidth - WinWidth
           /\ clamp_window(w).y \in 1 .. FbHeight - WinHeight
<1>1. /\ FbWidth - WinWidth \in Int /\ FbHeight - WinHeight \in Int
      /\ 1 <= FbWidth - WinWidth /\ 1 <= FbHeight - WinHeight
  BY FbFacts
<1>2. \A v, hi \in Int : 1 <= hi => clamp_i32(v, 1, hi) \in 1 .. hi
  BY DEF clamp_i32
<1>3. w.x \in Int /\ w.y \in Int
  BY DEF WindowRecord
<1>4. /\ clamp_i32(w.x, 1, FbWidth - WinWidth) \in 1 .. FbWidth - WinWidth
      /\ clamp_i32(w.y, 1, FbHeight - WinHeight) \in 1 .. FbHeight - WinHeight
  BY <1>1, <1>2, <1>3
<1>5. /\ clamp_i32(w.x, 1, FbWidth - WinWidth) \in Int
      /\ clamp_i32(w.y, 1, FbHeight - WinHeight) \in Int
  BY <1>1, <1>4
<1> QED BY <1>4, <1>5 DEF clamp_window, WindowRecord

LEMMA FinalizedStep ==
    ASSUME NEW d, Well(d)
    PROVE  /\ WindowStep(d, desktop_finalize_state(d)) /\ OnScreen(desktop_finalize_state(d))
           /\ Visible(desktop_finalize_state(d)) = Visible(d)
<1> DEFINE ws == [i \in Windows |-> IF d.windows[i].visible THEN clamp_window(d.windows[i]) ELSE d.windows[i]]
           lost == d.active_idx \in Windows \ Visible(d)
           e == desktop_finalize_state(d)
<1>1. ~lost
  <2>1. top_visible_window(d) \in Visible(d) \cup {-1}
    BY TopIn DEF top_visible_window, Well, RtTyped, Visible
  <2> QED BY <2>1, WindowFacts DEF Well, Focused
<1>2. e = [d EXCEPT !.windows = ws, !.active_idx = IF lost THEN top_visible_window(d) ELSE @,
                    !.scene_changed = @ \/ ws # d.windows \/ lost]
  BY Zenon DEF desktop_finalize_state
<1>3. d.windows \in [Windows -> WindowRecord]
  BY DEF Well, RtTyped
<1>4. /\ ws \in [Windows -> WindowRecord]
      /\ \A i \in Windows : ws[i].visible = d.windows[i].visible
      /\ \A i \in Windows : d.windows[i].visible => /\ ws[i].x \in 1 .. FbWidth - WinWidth
                                                    /\ ws[i].y \in 1 .. FbHeight - WinHeight
  <2>1. \A i \in Windows : d.windows[i] \in WindowRecord
    BY <1>3
  <2> QED BY <2>1, ClampedWindow
<1> HIDE DEF ws, e
<1>5. /\ Rest(d, e) /\ e.windows = ws /\ e.active_idx = d.active_idx /\ e.dragging_idx = d.dragging_idx
  BY <1>1, <1>2 DEF Well, RtTyped, RtFields, Rest
<1>6. e.scene_changed = (d.scene_changed \/ ws # d.windows \/ lost)
  BY <1>2, Zenon DEF Well, RtTyped, RtFields
<1>7. e.scene_changed \in BOOLEAN /\ (d.scene_changed => e.scene_changed) /\ (e.scene_changed \/ ws = d.windows)
  BY <1>6
<1>8. Visible(e) = Visible(d)
  BY <1>4, <1>5 DEF Visible
<1>9. WindowStep(d, e)
  BY <1>4, <1>5, <1>7, <1>8, WindowEdited
<1>10. OnScreen(e)
  BY <1>4, <1>5 DEF OnScreen, Visible
<1> QED BY <1>8, <1>9, <1>10 DEF e

LEMMA EventTwice ==
    ASSUME NEW a, NEW b, NEW c, NEW s1, NEW s2, EventStep(a, b, s1), EventStep(b, c, s2)
    PROVE  EventStep(a, c, s2)
<1>1. Touches(a, c)
  BY DEF EventStep, Edits, Touches
<1>2. ~c.scene_changed => SameLook(a, c)
  BY DEF EventStep, Edits, Touches, SameLook, Visible
<1> QED BY <1>1, <1>2 DEF EventStep, Edits

LEMMA EventItself == ASSUME NEW d, NEW sh, Good(d, sh) PROVE EventStep(d, d, sh)
BY WindowStepItself, WindowEvent DEF Good

\* When the file panel can be seen it is the shell's directory it shows.
PanelFollows(d, sh) == FilesWindow \in Visible(d) => d.files_cwd = sh.cwd

LEMMA FilesRefreshedStep ==
    ASSUME NEW d, Good(d, shell), NEW periodic
    PROVE  LET f == FilesRefreshed(d, periodic)
           IN  EventStep(d, f, shell) /\ PanelFollows(f, shell) /\ f.windows = d.windows
<1> DEFINE m == desktop_refresh_files_panel(d, fs, shell.cwd)
           f == FilesRefreshed(d, periodic)
<1>1. CASE FilesWindow \in Visible(d) /\ (d.files_cwd # shell.cwd \/ periodic)
  <2>1. f = Changed(m)
    BY <1>1 DEF FilesRefreshed
  <2>2. /\ PartStep(d, m) /\ PanelSound(m) /\ m.lines[ShellWindow] = d.lines[ShellWindow]
        /\ m.windows = d.windows /\ m.files_cwd = shell.cwd
    BY RefreshedPart DEF Good
  <2> HIDE DEF m, f
  <2>3. EventStep(d, Changed(m), shell)
    BY <2>2, MarkedEvent DEF Good
  <2>4. Changed(m).files_cwd = m.files_cwd /\ Changed(m).windows = m.windows
    BY <2>2 DEF Changed, PartStep, Well, RtTyped, RtFields
  <2> QED BY <2>1, <2>2, <2>3, <2>4 DEF PanelFollows, f
<1>2. CASE ~(FilesWindow \in Visible(d) /\ (d.files_cwd # shell.cwd \/ periodic))
  <2>1. f = d
    BY <1>2 DEF FilesRefreshed
  <2>2. PanelFollows(d, shell)
    BY <1>2 DEF PanelFollows
  <2> QED BY <2>1, <2>2, EventItself
<1> QED BY <1>1, <1>2

LEMMA NetworkRefreshedStep ==
    ASSUME NEW d, NEW sh, Good(d, sh), NEW periodic, NEW report
    PROVE  LET f == NetworkRefreshed(d, periodic, report)
           IN  EventStep(d, f, sh) /\ f.files_cwd = d.files_cwd /\ f.windows = d.windows
<1> DEFINE panels == {i \in Visible(d) : i > FilesWindow}
           ls == [i \in Windows |-> IF i \in panels THEN report ELSE d.lines[i]]
           m == [d EXCEPT !.lines = [i \in Windows |-> IF i \in panels THEN report ELSE @[i]]]
           f == NetworkRefreshed(d, periodic, report)
<1>1. CASE periodic /\ panels # {}
  <2>1. f = Changed(m)
    BY <1>1 DEF NetworkRefreshed
  <2>2. ShellWindow \notin panels /\ FilesWindow \notin panels
    BY DEF ShellWindow, FilesWindow
  <2>3. ls[ShellWindow] = d.lines[ShellWindow] /\ ls[FilesWindow] = d.lines[FilesWindow]
    BY <2>2, WindowFacts
  <2> HIDE DEF panels
  <2>4. /\ SameWindows(d, m) /\ m.lines = ls /\ m.files_cwd = d.files_cwd
        /\ m.files_entries = d.files_entries /\ m.files_selected = d.files_selected
    BY DEF Good, Well, RtTyped, RtFields, SameWindows
  <2>5. m.lines = [i \in Windows |-> m.lines[i]]
    BY <2>4
  <2> HIDE DEF m, ls, f
  <2>6. PartStep(d, m) /\ PanelSound(m) /\ m.lines[ShellWindow] = ShellLine(sh)
    BY <2>3, <2>4, <2>5, SameWindowsPart DEF Good, PanelSound
  <2>7. EventStep(d, Changed(m), sh)
    BY <2>6, MarkedEvent
  <2>8. Changed(m).files_cwd = m.files_cwd /\ Changed(m).windows = m.windows
    BY <2>4 DEF Changed, SameWindows, RtFields
  <2> QED BY <2>1, <2>4, <2>7, <2>8 DEF SameWindows, f
<1>2. CASE ~(periodic /\ panels # {})
  <2>1. f = d
    BY <1>2 DEF NetworkRefreshed
  <2> QED BY <2>1, EventItself
<1> QED BY <1>1, <1>2

\* The frame that begins now.
FrameFresh(d) ==
    /\ ~d.scene_changed /\ ~d.cursor_changed
    /\ OnScreen(d) /\ PanelFollows(d, shell)

LEMMA FrameBegins ==
    ASSUME NEW d, DOMAIN d = RtFields, Stacked(d.z_order), d.cursor \in Pixels,
           ~d.scene_changed, ~d.force_full_redraw,
           d.screen = [c \in Pixels |-> IF c = d.cursor THEN <<"cursor">> ELSE Scene(d, c)],
           d.cursor_save.valid, d.cursor_save.at = d.cursor, d.cursor_save.pixel = Scene(d, d.cursor)
    PROVE  FrameShown(desktop_snapshot_save(d), d.lines, d)
<1> DEFINE b == Frame(desktop_snapshot_save(d), d.lines)
<1>1. SameLook(b, d)
  BY DEF SameLook, Frame, desktop_snapshot_save
<1> HIDE DEF b
<1>2. \A c \in Pixels : Scene(b, c) = Scene(d, c)
  BY <1>1, SameLookSame
<1> QED BY <1>1, <1>2 DEF FrameShown, b

-----------------------------------------------------------------------------
(* The runtime record through every step.                                  *)

WInv ==
    /\ Good(rt, shell)
    /\ Snapshot(prev)
    /\ \E l0 : FrameShown(prev, l0, rt)
    /\ events \in Nat
    /\ pc = "spawn" => rt.scene_changed
    /\ pc \in {"spawn", "started"} => events > 0
    /\ pc = "keyboard" /\ events = 0 => FrameFresh(rt)

\* Events and the steps of the loop up to the frame.
LEMMA EventKeeps ==
    ASSUME WInv, EventStep(rt, rt', shell'), UNCHANGED prev, events' \in Nat,
           pc' = "spawn" => rt'.scene_changed,
           pc' \in {"spawn", "started", "keyboard"} => events' > 0
    PROVE  WInv'
<1>1. PICK l0 : FrameShown(prev, l0, rt)
  BY DEF WInv
<1>2. FrameShown(prev, l0, rt')
  BY <1>1, FrameEdited DEF EventStep
<1>3. (\E l : FrameShown(prev, l, rt))'
  BY <1>2 DEF FrameShown
<1> QED BY <1>3 DEF WInv, EventStep

\* Steps the desktop has no part in.
LEMMA OthersKeep == ASSUME WInv, UNCHANGED <<rt, shell, prev, pc, events>> PROVE WInv'
BY DEF WInv, FrameFresh

LEMMA AfterCommandStep ==
    ASSUME NEW a, NEW d, PartStep(a, d), PanelSound(d), AfterCommand(d)
    PROVE  EventStep(a, rt', shell') /\ rt'.scene_changed /\ UNCHANGED prev
<1> DEFINE m == Synced(d, shell')
<1>1. PartStep(d, m) /\ m.lines[ShellWindow] = ShellLine(shell') /\ PanelSound(m)
  BY SyncedPart DEF PartStep
<1> HIDE DEF m
<1>2. PartStep(a, m)
  BY <1>1, PartStepTwice
<1>3. EventStep(a, Changed(m), shell') /\ Changed(m).scene_changed
  BY <1>1, <1>2, MarkedEvent
<1> QED BY <1>3 DEF AfterCommand, m

LEMMA RunLineStep ==
    ASSUME NEW a, NEW d, PartStep(a, d), PanelSound(d), NEW line, shell_run_line(d, line)
    PROVE  EventStep(a, rt', shell') /\ rt'.scene_changed /\ UNCHANGED prev
<1> DEFINE h == Hidden(d, ShellWindow)
<1>1. AfterCommand(d) \/ AfterCommand(h)
  BY Zenon DEF shell_run_line, BuiltIn, ChangeFiles, StartCommand
<1>2. PartStep(a, h) /\ PanelSound(h)
  <2>1. WindowStep(d, h)
    BY HiddenStep, WindowFacts DEF PartStep
  <2> HIDE DEF h
  <2> QED BY <2>1, WindowPart, PartStepTwice DEF WindowStep, KeepsPanel, PanelSound
<1> HIDE DEF h
<1> QED BY <1>1, <1>2, AfterCommandStep

LEMMA ActivateStep ==
    ASSUME NEW a, NEW d, PartStep(a, d), d.lines[ShellWindow] = ShellLine(shell),
           desktop_files_activate_selected(d)
    PROVE  EventStep(a, rt', shell') /\ rt'.scene_changed /\ UNCHANGED prev
<1> DEFINE name == SelectedName(d)
           m == files_rebuild_view(d, shell.cwd)
<1>1. \/ \E dir : rt' = Changed(desktop_refresh_files_panel(Synced(d, shell'), fs, dir)) /\ UNCHANGED prev
      \/ shell_run_line(m, [cmd |-> "run", arg |-> name])
      \/ rt' = Changed(m) /\ UNCHANGED <<shell, prev>>
  BY Zenon DEF desktop_files_activate_selected
<1>2. PartStep(d, m) /\ PanelSound(m) /\ m.lines[ShellWindow] = d.lines[ShellWindow]
  BY RebuiltPart DEF PartStep
<1> HIDE DEF m
<1>3. PartStep(a, m)
  BY <1>2, PartStepTwice
<1>4. ASSUME NEW dir, rt' = Changed(desktop_refresh_files_panel(Synced(d, shell'), fs, dir)), UNCHANGED prev
      PROVE  EventStep(a, rt', shell') /\ rt'.scene_changed /\ UNCHANGED prev
  <2> DEFINE s == Synced(d, shell')
             r == desktop_refresh_files_panel(s, fs, dir)
  <2>1. PartStep(d, s) /\ s.lines[ShellWindow] = ShellLine(shell')
    BY SyncedPart DEF PartStep
  <2> HIDE DEF s
  <2>2. PartStep(s, r) /\ PanelSound(r) /\ r.lines[ShellWindow] = s.lines[ShellWindow]
    BY <2>1, RefreshedPart DEF PartStep
  <2> HIDE DEF r
  <2>3. PartStep(a, r)
    BY <2>1, <2>2, PartStepTwice
  <2>4. EventStep(a, Changed(r), shell') /\ Changed(r).scene_changed
    BY <2>1, <2>2, <2>3, MarkedEvent
  <2> QED BY <1>4, <2>4 DEF r, s
<1>5. ASSUME shell_run_line(m, [cmd |-> "run", arg |-> name])
      PROVE  EventStep(a, rt', shell') /\ rt'.scene_changed /\ UNCHANGED prev
  BY <1>2, <1>3, <1>5, RunLineStep
<1>6. ASSUME rt' = Changed(m), UNCHANGED <<shell, prev>>
      PROVE  EventStep(a, rt', shell') /\ rt'.scene_changed /\ UNCHANGED prev
  <2>1. EventStep(a, Changed(m), shell) /\ Changed(m).scene_changed
    BY <1>2, <1>3, MarkedEvent
  <2> QED BY <1>6, <2>1
<1> QED BY <1>1, <1>4, <1>5, <1>6

LEMMA SyncedSame ==
    ASSUME NEW d, NEW sh, Good(d, sh)
    PROVE  EventStep(d, Synced(d, sh), sh) /\ Visible(Synced(d, sh)) = Visible(d)
<1> DEFINE e == Synced(d, sh)
<1>1. /\ PartStep(d, e) /\ e.lines[ShellWindow] = ShellLine(sh) /\ SameWindows(d, e)
      /\ \A i \in Windows : i # ShellWindow => e.lines[i] = d.lines[i]
      /\ PanelSound(e)
  BY SyncedPart DEF Good
<1> HIDE DEF e
<1>2. \A i \in Windows : e.lines[i] = d.lines[i]
  BY <1>1 DEF Good
<1>3. SameLook(d, e) /\ Visible(e) = Visible(d)
  BY <1>1, <1>2 DEF SameLook, SameWindows, Visible
<1> QED BY <1>1, <1>3 DEF EventStep, Edits, Good, PartStep, e

\* A key or a click that changes the windows.
LEMMA WindowKeyShown ==
    ASSUME WInv, NEW d, EventStep(rt, d, shell), WindowKey(d), events' = events + 1
    PROVE  WInv'
<1>1. rt' = d /\ UNCHANGED <<shell, prev, pc>>
  BY DEF WindowKey, shellVars
<1>2. EventStep(rt, rt', shell')
  BY <1>1
<1>3. events' \in Nat /\ events' > 0
  BY DEF WInv
<1>4. pc' = "spawn" => rt'.scene_changed
  BY <1>1, <1>2 DEF WInv, EventStep, Edits, Touches
<1> QED BY <1>1, <1>2, <1>3, <1>4, EventKeeps

\* A command, or an entry that is opened.
LEMMA MarkedKeeps ==
    ASSUME WInv, EventStep(rt, rt', shell'), rt'.scene_changed, UNCHANGED prev, events' = events + 1
    PROVE  WInv'
<1>1. events' \in Nat /\ events' > 0
  BY DEF WInv
<1> QED BY <1>1, EventKeeps

LEMMA KeyLineShown == ASSUME WInv, KeyLine PROVE WInv'
<1>1. events' = events + 1 /\ Well(rt) /\ PanelSound(rt)
  BY DEF KeyLine, Key, Event, WInv, Good
<1>2. PartStep(rt, rt)
  BY <1>1, WindowStepItself, WindowPart
<1>3. ASSUME NEW line, shell_run_line(rt, line) PROVE WInv'
  BY <1>1, <1>2, <1>3, RunLineStep, MarkedKeeps
<1>4. ASSUME NEW chunk, SendLine(chunk), rt' = Changed(Synced(rt, shell)), UNCHANGED prev PROVE WInv'
  <2> DEFINE m == Synced(rt, shell)
  <2>1. PartStep(rt, m) /\ m.lines[ShellWindow] = ShellLine(shell) /\ PanelSound(m)
    BY <1>1, SyncedPart
  <2> HIDE DEF m
  <2>2. EventStep(rt, Changed(m), shell) /\ Changed(m).scene_changed
    BY <2>1, MarkedEvent
  <2>3. EventStep(rt, rt', shell') /\ rt'.scene_changed
    BY <1>4, <2>2 DEF SendLine, m
  <2> QED BY <1>1, <1>4, <2>3, MarkedKeeps
<1> QED BY <1>3, <1>4 DEF KeyLine

LEMMA KeyboardShown == ASSUME WInv, Keyboard PROVE WInv'
<1>0. Good(rt, shell) /\ Well(rt)
  BY DEF WInv, Good
<1>1. CASE KeyEscape
  <2>1. UNCHANGED <<rt, shell, prev>> /\ pc' = "closed" /\ events' \in Nat
    BY <1>1 DEF KeyEscape, Key, Event, shellVars, WInv
  <2>2. EventStep(rt, rt', shell')
    BY <1>0, <2>1, EventItself
  <2> QED BY <2>1, <2>2, EventKeeps
<1>2. ASSUME NEW d, WindowStep(rt, d), WindowKey(d), events' = events + 1 PROVE WInv'
  BY <1>0, <1>2, WindowEvent, WindowKeyShown
<1>3. CASE KeyTab
  BY <1>0, <1>2, <1>3, CycledStep DEF KeyTab, Key, Event
<1>4. CASE KeyLine
  BY <1>4, KeyLineShown
<1>5. CASE KeySelect
  <2>1. PICK delta \in {-1, 1} : WindowKey(desktop_files_select_next(rt, delta))
    BY <1>5 DEF KeySelect
  <2>2. events' = events + 1
    BY <1>5 DEF KeySelect, Key, Event
  <2> DEFINE next == clamp_i32(rt.files_selected + delta, 1, Len(rt.files_entries))
             s == [rt EXCEPT !.files_selected = next]
             m == files_rebuild_view(s, shell.cwd)
  <2>3. EventStep(rt, desktop_files_select_next(rt, delta), shell)
    <3>1. CASE next = rt.files_selected
      BY <1>0, <3>1, EventItself DEF desktop_files_select_next
    <3>2. CASE next # rt.files_selected
      <4>1. desktop_files_select_next(rt, delta) = Changed(m)
        BY <3>2 DEF desktop_files_select_next
      <4>2. PartStep(rt, s) /\ s.lines = rt.lines
        BY <1>0, SelectedPart
      <4> HIDE DEF s, next
      <4>3. PartStep(s, m) /\ PanelSound(m) /\ m.lines[ShellWindow] = s.lines[ShellWindow]
        BY <4>2, RebuiltPart DEF PartStep
      <4> HIDE DEF m
      <4>4. PartStep(rt, m)
        BY <4>2, <4>3, PartStepTwice
      <4>5. EventStep(rt, Changed(m), shell)
        BY <1>0, <4>2, <4>3, <4>4, MarkedEvent DEF Good
      <4> QED BY <4>1, <4>5
    <3> QED BY <3>1, <3>2
  <2> QED BY <2>1, <2>2, <2>3, WindowKeyShown
<1>6. CASE KeyOpen
  <2>1. PICK sel : desktop_files_activate_selected([rt EXCEPT !.files_selected = sel])
    BY <1>6 DEF KeyOpen
  <2>2. events' = events + 1
    BY <1>6 DEF KeyOpen, Key, Event
  <2> DEFINE s == [rt EXCEPT !.files_selected = sel]
  <2>3. PartStep(rt, s) /\ s.lines = rt.lines
    BY <1>0, SelectedPart
  <2> HIDE DEF s
  <2>4. desktop_files_activate_selected(s)
    BY <2>1 DEF s
  <2>5. EventStep(rt, rt', shell') /\ rt'.scene_changed /\ UNCHANGED prev
    BY <1>0, <2>3, <2>4, ActivateStep DEF Good
  <2> QED BY <2>2, <2>5, MarkedKeeps
<1>7. CASE KeyDelete
  <2> DEFINE m == files_rebuild_view(rt, shell.cwd)
             r == desktop_refresh_files_panel(rt, fs', shell.cwd)
  <2>1. events' = events + 1 /\ UNCHANGED <<shell, prev>> /\ (rt' = Changed(m) \/ rt' = Changed(r))
    BY <1>7 DEF KeyDelete, Key, Event, desktop_files_delete_selected
  <2>2. PartStep(rt, m) /\ PanelSound(m) /\ m.lines[ShellWindow] = rt.lines[ShellWindow]
    BY <1>0, RebuiltPart
  <2>3. PartStep(rt, r) /\ PanelSound(r) /\ r.lines[ShellWindow] = rt.lines[ShellWindow]
    BY <1>0, RefreshedPart
  <2> HIDE DEF m, r
  <2>4. /\ EventStep(rt, Changed(m), shell) /\ Changed(m).scene_changed
        /\ EventStep(rt, Changed(r), shell) /\ Changed(r).scene_changed
    BY <1>0, <2>2, <2>3, MarkedEvent DEF Good
  <2>5. EventStep(rt, rt', shell') /\ rt'.scene_changed
    BY <2>1, <2>4
  <2> QED BY <2>1, <2>5, MarkedKeeps
<1>8. CASE KeyRefresh
  <2> DEFINE r == desktop_refresh_files_panel(rt, fs, shell.cwd)
  <2>1. events' = events + 1 /\ WindowKey(Changed(r))
    BY <1>8 DEF KeyRefresh, Key, Event
  <2>2. PartStep(rt, r) /\ PanelSound(r) /\ r.lines[ShellWindow] = rt.lines[ShellWindow]
    BY <1>0, RefreshedPart
  <2> HIDE DEF r
  <2>3. EventStep(rt, Changed(r), shell)
    BY <1>0, <2>2, MarkedEvent DEF Good
  <2> QED BY <2>1, <2>3, WindowKeyShown
<1>9. CASE KeyToggle
  <2>1. PICK i \in Windows : WindowKey(IF i \in Visible(rt) THEN Hidden(rt, i)
                    ELSE Shown(IF i = ShellWindow THEN Synced(rt, shell) ELSE rt, i))
    BY <1>9 DEF KeyToggle
  <2>2. events' = events + 1
    BY <1>9 DEF KeyToggle, Key, Event
  <2> DEFINE s == IF i = ShellWindow THEN Synced(rt, shell) ELSE rt
  <2>3. EventStep(rt, s, shell)
    BY <1>0, EventItself, SyncedSame
  <2> HIDE DEF s
  <2>4. EventStep(rt, Shown(s, i), shell)
    <3>1. WindowStep(s, Shown(s, i))
      BY <2>3, ShownStep DEF EventStep, Good
    <3>2. EventStep(s, Shown(s, i), shell)
      BY <2>3, <3>1, WindowEvent DEF EventStep
    <3> QED BY <2>3, <3>2, EventTwice
  <2>5. EventStep(rt, Hidden(rt, i), shell)
    BY <1>0, HiddenStep, WindowEvent
  <2>6. WindowKey(Hidden(rt, i)) \/ WindowKey(Shown(s, i))
    BY <2>1 DEF s
  <2> QED BY <2>2, <2>4, <2>5, <2>6, WindowKeyShown
<1>10. CASE KeyMove
  <2>1. PICK step \in {<<-1, 0>>, <<1, 0>>, <<0, -1>>, <<0, 1>>} : WindowKey(Moved(rt, step[1], step[2]))
    BY <1>10 DEF KeyMove
  <2>2. events' = events + 1 /\ rt.active_idx \in Visible(rt)
    BY <1>10 DEF KeyMove, Key, Event, WindowFocused
  <2>3. step[1] \in Int /\ step[2] \in Int
    OBVIOUS
  <2>4. WindowStep(rt, Moved(rt, step[1], step[2]))
    BY <1>0, <2>2, <2>3, MovedStep
  <2> QED BY <1>2, <2>1, <2>2, <2>4
<1>11. CASE KeyTheme
  BY <1>0, <1>2, <1>11, RethemedStep DEF KeyTheme, Key, Event, WindowFocused
<1>12. CASE KeyClose
  <2>1. rt.active_idx \in Windows
    BY <1>12 DEF KeyClose, WindowFocused, Visible
  <2> QED BY <1>0, <1>2, <1>12, <2>1, HiddenStep DEF KeyClose, Key, Event
<1> QED BY <1>1, <1>3, <1>4, <1>5, <1>6, <1>7, <1>8, <1>9, <1>10, <1>11, <1>12 DEF Keyboard

LEMMA HitVisible ==
    ASSUME NEW d, Well(d), NEW p, hit_test_window(d, p) # -1
    PROVE  hit_test_window(d, p) \in Visible(d)
<1>1. HitBy(d, p) \subseteq Windows /\ Stacked(d.z_order) /\ hit_test_window(d, p) = TopOf(d, HitBy(d, p))
  BY DEF HitBy, Visible, Well, RtTyped, hit_test_window
<1>2. hit_test_window(d, p) \in HitBy(d, p)
  BY <1>1, TopIn
<1> QED BY <1>2 DEF HitBy

LEMMA PressedStep ==
    ASSUME Good(rt, shell), NEW p \in Points
    PROVE  /\ WindowStep(rt, PressedAt(p)) /\ EventStep(rt, PressedAt(p), shell)
           /\ Visible(PressedAt(p)) = Visible(rt)
<1>1. p \in Pixels
  BY DesktopConstants DEF DesktopAssumption
<1>2. WindowStep(rt, PressedAt(p))
  BY <1>1, CursorStep DEF Good, PressedAt
<1>3. PressedAt(p).windows = rt.windows
  BY DEF PressedAt, CursorAt, Good, Well, RtTyped, RtFields
<1> QED BY <1>2, <1>3, WindowEvent DEF Visible

LEMMA EntryStep ==
    ASSUME WInv, NEW p \in Points, NEW e, NEW quick, PressEntry(p, e, quick)
    PROVE  WInv'
<1> DEFINE f0 == focus_window(PressedAt(p), FilesWindow)
           d == Released(f0)
           s == [d EXCEPT !.files_selected = e]
           m == files_rebuild_view(s, shell.cwd)
           f == IF e = d.files_selected THEN d ELSE Changed(m)
<1>0. Good(rt, shell) /\ Well(rt) /\ events' = events + 1 /\ hit_test_window(rt, p) = FilesWindow
  BY DEF WInv, Good, PressEntry, Press, Event
<1>1. \/ desktop_files_activate_selected([f EXCEPT !.files_last_click = -1])
      \/ WindowKey([f EXCEPT !.files_last_click = e])
  BY Zenon DEF PressEntry
<1>2. WindowStep(rt, d)
  <2>1. FilesWindow \in Visible(rt)
    <3>1. FilesWindow # -1
      BY DEF FilesWindow
    <3> QED BY <1>0, <3>1, HitVisible
  <2>2. WindowStep(rt, PressedAt(p)) /\ FilesWindow \in Visible(PressedAt(p))
    BY <1>0, <2>1, PressedStep
  <2>3. WindowStep(PressedAt(p), f0)
    BY <2>2, FocusStep DEF WindowStep, Well, Focused
  <2> HIDE DEF f0
  <2>4. WindowStep(f0, d)
    BY <2>3, ReleasedStep DEF WindowStep
  <2> HIDE DEF d
  <2> QED BY <2>2, <2>3, <2>4, WindowStepTwice
<1> HIDE DEF d
<1>3. EventStep(rt, d, shell)
  BY <1>0, <1>2, WindowEvent
<1>4. EventStep(rt, f, shell)
  <2>1. CASE e = d.files_selected
    BY <1>3, <2>1
  <2>2. CASE e # d.files_selected
    <3>1. PartStep(d, s) /\ s.lines = d.lines
      BY <1>2, SelectedPart DEF WindowStep
    <3> HIDE DEF s
    <3>2. PartStep(s, m) /\ PanelSound(m) /\ m.lines[ShellWindow] = s.lines[ShellWindow]
      BY <3>1, RebuiltPart DEF PartStep
    <3> HIDE DEF m
    <3>3. PartStep(rt, m)
      BY <1>2, <3>1, <3>2, WindowPart, PartStepTwice
    <3>4. m.lines[ShellWindow] = ShellLine(shell)
      BY <1>3, <3>1, <3>2 DEF EventStep, Good
    <3>5. EventStep(rt, Changed(m), shell)
      BY <3>2, <3>3, <3>4, MarkedEvent
    <3> QED BY <2>2, <3>5
  <2> QED BY <2>1, <2>2
<1> HIDE DEF f
<1>5. \A at : WindowStep(f, [f EXCEPT !.files_last_click = at])
  BY <1>4, ClickedStep DEF EventStep, Good
<1>6. CASE desktop_files_activate_selected([f EXCEPT !.files_last_click = -1])
  <2> DEFINE g == [f EXCEPT !.files_last_click = -1]
  <2>1. WindowStep(f, g)
    BY <1>5
  <2>2. desktop_files_activate_selected(g)
    BY <1>6
  <2> HIDE DEF g
  <2>3. PartStep(rt, f)
    BY <1>4 DEF EventStep, Good, PartStep, Edits
  <2>4. PartStep(rt, g)
    BY <2>1, <2>3, WindowPart, PartStepTwice
  <2>5. g.lines[ShellWindow] = ShellLine(shell)
    BY <1>4, <2>1 DEF EventStep, Good, WindowStep, KeepsPanel
  <2>6. EventStep(rt, rt', shell') /\ rt'.scene_changed /\ UNCHANGED prev
    BY <2>2, <2>4, <2>5, ActivateStep
  <2> QED BY <1>0, <2>6, MarkedKeeps
<1>7. CASE WindowKey([f EXCEPT !.files_last_click = e])
  <2> DEFINE g == [f EXCEPT !.files_last_click = e]
  <2>1. WindowStep(f, g) /\ WindowKey(g)
    BY <1>5, <1>7
  <2> HIDE DEF g
  <2>2. EventStep(f, g, shell)
    BY <1>4, <2>1, WindowEvent DEF EventStep
  <2>3. EventStep(rt, g, shell)
    BY <1>4, <2>2, EventTwice
  <2> QED BY <1>0, <2>1, <2>3, WindowKeyShown
<1> QED BY <1>1, <1>6, <1>7

LEMMA MouseShown == ASSUME WInv, Mouse PROVE WInv'
<1>0. Good(rt, shell) /\ Well(rt)
  BY DEF WInv, Good
<1>1. PICK p \in Points :
         \/ \E down \in BOOLEAN : MouseMove(p, down)
         \/ PressIcon(p) \/ PressBackground(p) \/ PressWindow(p)
         \/ \E e \in 1 .. EntryMax, quick \in BOOLEAN : PressEntry(p, e, quick)
  BY DEF Mouse
<1>2. ASSUME NEW d, WindowStep(rt, d), WindowKey(d), events' = events + 1 PROVE WInv'
  BY <1>0, <1>2, WindowEvent, WindowKeyShown
<1>3. ASSUME NEW down \in BOOLEAN, MouseMove(p, down) PROVE WInv'
  <2> DEFINE d == [CursorAt(rt, p) EXCEPT !.left = down]
  <2>1. WindowKey(Dragged(d)) \/ WindowKey(Released(d)) \/ WindowKey(d)
    BY <1>3, Zenon DEF MouseMove
  <2>2. events' = events + 1
    BY <1>3 DEF MouseMove, Event
  <2>3. WindowStep(rt, d)
    <3>1. p \in Pixels
      BY DesktopConstants DEF DesktopAssumption
    <3> QED BY <1>0, <3>1, CursorStep
  <2> HIDE DEF d
  <2>4. WindowStep(d, Dragged(d)) /\ WindowStep(d, Released(d))
    BY <2>3, DraggedStep, ReleasedStep DEF WindowStep
  <2>5. WindowStep(rt, Dragged(d)) /\ WindowStep(rt, Released(d))
    BY <2>3, <2>4, WindowStepTwice
  <2> QED BY <1>2, <2>1, <2>2, <2>3, <2>5
<1>4. CASE PressIcon(p)
  <2> DEFINE i == hit_test_icon(p)
             s == IF i = ShellWindow THEN Synced(PressedAt(p), shell) ELSE PressedAt(p)
  <2>1. i # -1 /\ WindowKey(IconPressed(s, i)) /\ events' = events + 1
    BY <1>4 DEF PressIcon, Press, Event
  <2>2. i \in Windows
    <3> DEFINE hit == {j \in Windows : point_in_rect(p, icon_rect(j))}
    <3>1. hit # {} /\ i = Min(hit)
      BY <2>1 DEF hit_test_icon
    <3>2. hit \subseteq Nat
      BY WindowFacts DEF Windows
    <3>3. Min(hit) \in hit
      <4> HIDE DEF hit
      <4> QED BY <3>1, <3>2, MinOf
    <3> QED BY <3>1, <3>3
  <2>3. EventStep(rt, s, shell)
    <3>1. EventStep(rt, PressedAt(p), shell)
      BY <1>0, PressedStep
    <3>2. EventStep(PressedAt(p), Synced(PressedAt(p), shell), shell)
      BY <3>1, SyncedSame DEF EventStep
    <3>3. EventStep(rt, Synced(PressedAt(p), shell), shell)
      BY <3>1, <3>2, EventTwice
    <3> QED BY <3>1, <3>3
  <2> HIDE DEF s, i
  <2>4. WindowStep(s, IconPressed(s, i))
    BY <2>2, <2>3, IconStep DEF EventStep, Good
  <2>5. EventStep(s, IconPressed(s, i), shell)
    BY <2>3, <2>4, WindowEvent DEF EventStep
  <2>6. EventStep(rt, IconPressed(s, i), shell)
    BY <2>3, <2>5, EventTwice
  <2> QED BY <2>1, <2>6, WindowKeyShown
<1>5. CASE PressBackground(p)
  <2>1. WindowKey(BackgroundPressed(PressedAt(p))) /\ events' = events + 1
    BY <1>5 DEF PressBackground, Press, Event
  <2>2. WindowStep(rt, PressedAt(p))
    BY <1>0, PressedStep
  <2>3. WindowStep(PressedAt(p), BackgroundPressed(PressedAt(p)))
    BY <2>2, BackgroundStep DEF WindowStep
  <2>4. WindowStep(rt, BackgroundPressed(PressedAt(p)))
    BY <2>2, <2>3, WindowStepTwice
  <2> QED BY <1>2, <2>1, <2>4
<1>6. CASE PressWindow(p)
  <2> DEFINE i == hit_test_window(rt, p)
  <2>1. i # -1 /\ WindowKey(WindowPressed(PressedAt(p), i)) /\ events' = events + 1
    BY <1>6 DEF PressWindow, Press, Event
  <2>2. i \in Visible(rt)
    BY <1>0, <2>1, HitVisible
  <2> HIDE DEF i
  <2>3. WindowStep(rt, PressedAt(p)) /\ i \in Visible(PressedAt(p))
    BY <1>0, <2>2, PressedStep
  <2>4. WindowStep(PressedAt(p), WindowPressed(PressedAt(p), i))
    BY <2>3, WindowPressedStep DEF WindowStep
  <2>5. WindowStep(rt, WindowPressed(PressedAt(p), i))
    BY <2>3, <2>4, WindowStepTwice
  <2> QED BY <1>2, <2>1, <2>5
<1>7. ASSUME NEW e \in 1 .. EntryMax, NEW quick \in BOOLEAN, PressEntry(p, e, quick) PROVE WInv'
  BY <1>7, EntryStep
<1> QED BY <1>1, <1>3, <1>4, <1>5, <1>6, <1>7

\* The shell's text reaches its window, and a window that can be seen is
\* marked.
LEMMA PumpedStep ==
    ASSUME Good(rt, shell), rt' = Pumped(rt)
    PROVE  EventStep(rt, rt', shell')
<1> DEFINE e == Synced(rt, shell')
<1>1. /\ PartStep(rt, e) /\ e.lines[ShellWindow] = ShellLine(shell') /\ SameWindows(rt, e)
      /\ \A i \in Windows : i # ShellWindow => e.lines[i] = rt.lines[i]
      /\ PanelSound(e)
  BY SyncedPart DEF Good
<1> HIDE DEF e
<1>2. CASE ShellWindow \in Visible(rt)
  <2>1. rt' = Changed(e)
    BY <1>2 DEF Pumped, e
  <2> QED BY <1>1, <2>1, MarkedEvent
<1>3. CASE ShellWindow \notin Visible(rt)
  <2>1. rt' = e
    BY <1>3 DEF Pumped, e
  <2>2. Visible(e) = Visible(rt) /\ \A i \in Visible(rt) : i \in Windows /\ i # ShellWindow
    BY <1>1, <1>3 DEF Visible, SameWindows
  <2>3. SameLook(rt, e)
    BY <1>1, <2>2 DEF SameLook, SameWindows
  <2>4. EventStep(rt, e, shell')
    BY <1>1, <2>3 DEF EventStep, Edits, Good, PartStep
  <2> QED BY <2>1, <2>4
<1> QED BY <1>2, <1>3

LEMMA SpawnShown == ASSUME DInv, WInv, Spawn PROVE WInv'
<1> DEFINE e == Synced(rt, shell')
           f == [e EXCEPT !.force_full_redraw = TRUE]
<1>1. /\ pc = "spawn" /\ UNCHANGED <<prev, events>>
      /\ (pc' = "started" /\ rt' = f) \/ (pc' = resume /\ rt' = e)
  BY DEF Spawn, Goto
<1>2. rt.scene_changed /\ events > 0 /\ events \in Nat /\ resume \in {"keyboard", "mouse"}
  BY <1>1 DEF WInv, DInv, Origin
<1>3. /\ PartStep(rt, e) /\ e.lines[ShellWindow] = ShellLine(shell') /\ PanelSound(e)
  BY SyncedPart DEF WInv, Good
<1> HIDE DEF e
<1>4. EventStep(rt, e, shell') /\ e.scene_changed
  BY <1>2, <1>3 DEF EventStep, Edits, Good, PartStep, Touches
<1>5. EventStep(rt, f, shell') /\ f.scene_changed
  <2>1. /\ DOMAIN f = RtFields /\ f.windows = e.windows /\ f.z_order = e.z_order
        /\ f.active_idx = e.active_idx /\ f.dragging_idx = e.dragging_idx /\ f.drag_off = e.drag_off
        /\ f.cursor = e.cursor /\ f.screen = e.screen /\ f.cursor_save = e.cursor_save
        /\ f.scene_changed = e.scene_changed /\ f.cursor_changed = e.cursor_changed
        /\ KeepsPanel(e, f)
    BY <1>3 DEF PartStep, Well, RtTyped, RtFields, KeepsPanel
  <2>2. f.force_full_redraw = TRUE
    BY <1>3 DEF PartStep, Well, RtTyped, RtFields
  <2> HIDE DEF f
  <2>3. RtTyped(f)
    BY <1>3, <2>1, <2>2 DEF PartStep, Well, RtTyped, KeepsPanel
  <2>4. Visible(f) = Visible(e)
    BY <2>1 DEF Visible
  <2>5. Focused(f)
    BY <1>3, <2>1, <2>4, FocusSame DEF PartStep, Well
  <2>6. Touches(rt, f)
    BY <1>3, <1>4, <2>1 DEF PartStep, Touches
  <2>7. PanelSound(f) /\ f.lines[ShellWindow] = ShellLine(shell')
    BY <1>3, <2>1 DEF PanelSound, KeepsPanel
  <2> QED BY <1>4, <2>1, <2>3, <2>5, <2>6, <2>7 DEF EventStep, Edits, Good, Well
<1> HIDE DEF f
<1>6. EventStep(rt, rt', shell') /\ rt'.scene_changed
  BY <1>1, <1>4, <1>5
<1> QED BY <1>1, <1>2, <1>6, EventKeeps

LEMMA LoopShown == ASSUME DInv, WInv, Loop PROVE WInv'
<1>0. Good(rt, shell) /\ events \in Nat /\ resume \in {"keyboard", "mouse"}
  BY DEF WInv, DInv, Origin
<1>1. ASSUME UNCHANGED <<rt, shell, prev, events>>, pc' # "spawn",
             pc' \in {"started", "keyboard"} => events > 0
      PROVE  WInv'
  <2>1. EventStep(rt, rt', shell')
    BY <1>0, <1>1, EventItself
  <2> QED BY <1>0, <1>1, <2>1, EventKeeps
<1>2. CASE PollingDone
  <2>1. UNCHANGED <<rt, shell, prev, events>> /\ pc' \in {"mouse", "drain"}
    BY <1>2 DEF PollingDone, Goto, shellVars
  <2> QED BY <1>1, <2>1
<1>3. CASE Drain
  <2>1. UNCHANGED <<prev, events, pc>> /\ pc \in {"started", "drain"} /\ rt' = Pumped(rt)
    BY <1>3 DEF Drain
  <2>2. EventStep(rt, rt', shell')
    BY <1>0, <2>1, PumpedStep
  <2>3. pc' = "started" => events' > 0
    BY <2>1 DEF WInv
  <2> QED BY <1>0, <2>1, <2>2, <2>3, EventKeeps
<1>4. CASE DrainEnds
  <2>1. /\ UNCHANGED <<rt, shell, prev, events>> /\ pc' \in {resume, "close", "panels"}
        /\ pc' \in {"close", "panels"} \/ pc = "started"
    BY <1>4 DEF DrainEnds, Goto, shellVars
  <2>2. pc = "started" => events > 0
    BY DEF WInv
  <2> QED BY <1>0, <1>1, <2>1, <2>2
<1>5. CASE Close
  <2>1. UNCHANGED <<rt, shell, prev, events>> /\ pc' \in {"panels", "wait"}
    BY <1>5 DEF Close, Goto, shellVars, CloseSession
  <2> QED BY <1>1, <2>1
<1>6. CASE Wait
  <2>1. UNCHANGED <<prev, events>> /\ pc' = "panels" /\ rt' = Pumped(rt)
    BY <1>6 DEF Wait, Goto
  <2>2. EventStep(rt, rt', shell')
    BY <1>0, <2>1, PumpedStep
  <2> QED BY <1>0, <2>1, <2>2, EventKeeps
<1> QED BY <1>2, <1>3, <1>4, <1>5, <1>6, SpawnShown DEF Loop

LEMMA SnapshotTaken == ASSUME NEW d, Well(d) PROVE Snapshot(desktop_snapshot_save(d))
<1> DEFINE p == desktop_snapshot_save(d)
<1>1. p.windows = d.windows /\ p.z_order = d.z_order /\ p.active_idx = d.active_idx
  BY DEF desktop_snapshot_save
<1> HIDE DEF p
<1>2. top_visible_window(p) = top_visible_window(d)
  BY <1>1, TopSame DEF Visible
<1> QED BY <1>1, <1>2 DEF Snapshot, Well, RtTyped, Focused, p

\* The frame: what is painted is the scene, and a new frame begins with it.
LEMMA RenderShown == ASSUME WInv, Render PROVE WInv'
<1>0. Good(rt, shell)
  BY DEF WInv
<1>1. PICK periodic \in BOOLEAN, report \in {0, 1} :
         rt' = NewFrame(desktop_render_frame(prev, desktop_finalize_state(
                   NetworkRefreshed(FilesRefreshed(rt, periodic), periodic, report))))
  BY Zenon DEF Render
<1>2. prev' = desktop_snapshot_save(rt') /\ pc' = "keyboard" /\ events' = 0 /\ shell' = shell
  BY DEF Render, shellVars
<1> DEFINE d1 == FilesRefreshed(rt, periodic)
           d2 == NetworkRefreshed(d1, periodic, report)
           d3 == desktop_finalize_state(d2)
           e == desktop_render_frame(prev, d3)
<1>3. EventStep(rt, d1, shell) /\ PanelFollows(d1, shell)
  BY <1>0, FilesRefreshedStep
<1> HIDE DEF d1
<1>4. EventStep(d1, d2, shell) /\ d2.files_cwd = d1.files_cwd /\ d2.windows = d1.windows
  BY <1>3, NetworkRefreshedStep DEF EventStep
<1> HIDE DEF d2
<1>5. WindowStep(d2, d3) /\ OnScreen(d3) /\ Visible(d3) = Visible(d2)
  BY <1>4, FinalizedStep DEF EventStep, Good
<1> HIDE DEF d3
<1>6. EventStep(d2, d3, shell)
  BY <1>4, <1>5, WindowEvent DEF EventStep
<1>7. EventStep(rt, d3, shell)
  BY <1>3, <1>4, <1>6, EventTwice
<1>8. PanelFollows(d3, shell)
  <2>1. Visible(d2) = Visible(d1)
    BY <1>4 DEF Visible
  <2> QED BY <1>3, <1>4, <1>5, <2>1 DEF PanelFollows, WindowStep, KeepsPanel
<1>9. PICK l0 : FrameShown(prev, l0, d3)
  BY <1>7, FrameEdited DEF WInv, EventStep
<1>10. /\ e.screen = [c \in Pixels |-> IF c = d3.cursor THEN <<"cursor">> ELSE Scene(d3, c)]
       /\ e.cursor_save.valid /\ e.cursor_save.at = d3.cursor
       /\ e.cursor_save.pixel = Scene(d3, d3.cursor)
       /\ DOMAIN e = RtFields /\ e.windows = d3.windows /\ e.z_order = d3.z_order
       /\ e.active_idx = d3.active_idx /\ e.dragging_idx = d3.dragging_idx
       /\ e.drag_off = d3.drag_off /\ e.cursor = d3.cursor /\ KeepsPanel(d3, e)
  BY <1>7, <1>9, Rendered DEF WInv, EventStep, Good
<1> HIDE DEF e
<1> DEFINE g == NewFrame(e)
<1>11. rt' = g
  BY <1>1 DEF e, d3, d2, d1
<1>12. /\ DOMAIN g = RtFields /\ g.windows = d3.windows /\ g.z_order = d3.z_order
       /\ g.active_idx = d3.active_idx /\ g.dragging_idx = d3.dragging_idx
       /\ g.drag_off = d3.drag_off /\ g.cursor = d3.cursor /\ KeepsPanel(d3, g)
       /\ g.screen = e.screen /\ g.cursor_save = e.cursor_save
  BY <1>10 DEF NewFrame, RtFields, KeepsPanel
<1>13. g.scene_changed = FALSE /\ g.cursor_changed = FALSE /\ g.force_full_redraw = FALSE
  BY <1>10 DEF NewFrame, RtFields
<1> HIDE DEF g
<1>14. Good(g, shell)
  <2>1. RtTyped(d3) /\ Focused(d3) /\ PanelSound(d3) /\ d3.lines[ShellWindow] = ShellLine(shell)
    BY <1>7 DEF EventStep, Good, Well
  <2>2. RtTyped(g)
    BY <1>12, <1>13, <2>1 DEF RtTyped, KeepsPanel
  <2>3. Visible(g) = Visible(d3)
    BY <1>12 DEF Visible
  <2>4. Focused(g)
    BY <1>12, <2>1, <2>3, FocusSame
  <2> QED BY <1>12, <2>1, <2>2, <2>4 DEF Good, Well, PanelSound, KeepsPanel
<1>15. SameLook(d3, g) /\ Visible(g) = Visible(d3)
  BY <1>12 DEF SameLook, KeepsPanel, Visible
<1>16. \A c \in Pixels : Scene(d3, c) = Scene(g, c)
  BY <1>14, <1>15, SameLookSame DEF Good, Well, RtTyped
<1>17. g.cursor \in Pixels /\ Stacked(g.z_order)
  BY <1>14 DEF Good, Well, RtTyped
<1>18. FrameShown(desktop_snapshot_save(g), g.lines, g)
  <2>1. g.screen = [c \in Pixels |-> IF c = g.cursor THEN <<"cursor">> ELSE Scene(g, c)]
    BY <1>10, <1>12, <1>16
  <2>2. g.cursor_save.valid /\ g.cursor_save.at = g.cursor /\ g.cursor_save.pixel = Scene(g, g.cursor)
    BY <1>10, <1>12, <1>16, <1>17
  <2> QED BY <1>12, <1>13, <1>17, <2>1, <2>2, FrameBegins
<1>19. Snapshot(desktop_snapshot_save(g))
  BY <1>14, SnapshotTaken DEF Good
<1>20. FrameFresh(g)
  <2>1. OnScreen(g)
    BY <1>5, <1>12, <1>15 DEF OnScreen
  <2>2. PanelFollows(g, shell)
    BY <1>8, <1>12, <1>15 DEF PanelFollows, KeepsPanel
  <2> QED BY <1>13, <2>1, <2>2 DEF FrameFresh
<1>21. (\E l : FrameShown(prev, l, rt))'
  BY <1>2, <1>11, <1>18
<1>22. FrameFresh(rt)'
  BY <1>2, <1>11, <1>20 DEF FrameFresh
<1> QED BY <1>2, <1>11, <1>14, <1>19, <1>21, <1>22 DEF WInv

-----------------------------------------------------------------------------
(* The first frame, and the results.                                       *)

LEMMA FirstOrder ==
    LET z == bring_to_front([k \in 1 .. WindowCount |-> k - 1], ShellWindow)
    IN  Stacked(z) /\ z[WindowCount] = ShellWindow
<1> DEFINE y == [k \in 1 .. WindowCount |-> k - 1]
<1>1. WindowCount \in Nat
  BY WindowFacts
<1>2. y \in [Places -> Windows]
  BY <1>1 DEF Places, Windows
<1>3. \A j, k \in Places : y[j] = y[k] => j = k
  BY <1>1 DEF Places
<1>4. ASSUME NEW i \in Windows PROVE \E k \in Places : y[k] = i
  <2>1. i + 1 \in Places /\ y[i + 1] = i
    BY <1>1 DEF Places, Windows
  <2> QED BY <2>1
<1>5. Stacked(y)
  BY <1>2, <1>3, <1>4 DEF Stacked
<1> HIDE DEF y
<1>6. Stacked(bring_to_front(y, ShellWindow)) /\ bring_to_front(y, ShellWindow)[WindowCount] = ShellWindow
  BY <1>5, Raised, WindowFacts
<1> QED BY <1>6 DEF y

LEMMA FirstWindows ==
    LET ws == [i \in Windows |->
                 clamp_window([x |-> 1 + i, y |-> 1 + (i % 2), theme |-> i % ThemeCount,
                               visible |-> TRUE])]
    IN  /\ ws \in [Windows -> WindowRecord]
        /\ \A i \in Windows : /\ ws[i].visible
                              /\ ws[i].x \in 1 .. FbWidth - WinWidth
                              /\ ws[i].y \in 1 .. FbHeight - WinHeight
<1> DEFINE W(i) == [x |-> 1 + i, y |-> 1 + (i % 2), theme |-> i % ThemeCount, visible |-> TRUE]
<1>1. ASSUME NEW i \in Windows PROVE W(i) \in WindowRecord /\ W(i).visible
  <2>1. i \in Int /\ ThemeCount \in Int /\ ThemeCount > 0
    BY WindowsConstants DEF Windows, WindowsAssumption
  <2>2. 1 + i \in Int /\ 1 + (i % 2) \in Int /\ i % ThemeCount \in Int
    BY <2>1
  <2> QED BY <2>2 DEF WindowRecord
<1> HIDE DEF W
<1>2. \A i \in Windows : /\ clamp_window(W(i)) \in WindowRecord /\ clamp_window(W(i)).visible
                         /\ clamp_window(W(i)).x \in 1 .. FbWidth - WinWidth
                         /\ clamp_window(W(i)).y \in 1 .. FbHeight - WinHeight
  BY <1>1, ClampedWindow
<1> DEFINE ws == [i \in Windows |-> clamp_window(W(i))]
<1>3. /\ ws \in [Windows -> WindowRecord]
      /\ \A i \in Windows : /\ ws[i].visible
                            /\ ws[i].x \in 1 .. FbWidth - WinWidth
                            /\ ws[i].y \in 1 .. FbHeight - WinHeight
  BY <1>2
<1> QED BY <1>3 DEF W

\* The shell starts in the root.
LEMMA ShellStartsInRoot == ASSUME Init PROVE shell.cwd = <<>>
<1> DEFINE blank == [cwd |-> <<>>, prev_cwd |-> <<>>,
                     ext_running |-> FALSE, ext_pid |-> 0, ext_pty |-> NoPty,
                     history |-> [i \in 0 .. HistoryMax - 1 |-> ""],
                     history_next |-> 0, history_count |-> 0, past |-> <<>>,
                     scrollback |-> [i \in 0 .. ScrollMax - 1 |-> ""],
                     scroll_head |-> 0, scroll_count |-> 0, log |-> <<>>]
<1>1. shell = shell_push_scrollback_line(shell_push_scrollback_line(blank, "boot"), "help")
  BY DEF Init, ShellInit
<1>2. blank.cwd = <<>> /\ DOMAIN blank = ShellFields
  BY DEF ShellFields
<1> HIDE DEF blank
<1>3. ASSUME NEW sh, NEW l, DOMAIN sh = ShellFields
      PROVE  /\ DOMAIN shell_push_scrollback_line(sh, l) = ShellFields
             /\ shell_push_scrollback_line(sh, l).cwd = sh.cwd
  BY <1>3 DEF shell_push_scrollback_line, ShellFields
<1> QED BY <1>1, <1>2, <1>3

LEMMA WindowsStart == ASSUME Init PROVE WInv
<1> DEFINE at == CHOOSE p \in Points : TRUE
           ws == [i \in Windows |->
                    clamp_window([x |-> 1 + i, y |-> 1 + (i % 2), theme |-> i % ThemeCount,
                                  visible |-> TRUE])]
           z == bring_to_front([k \in 1 .. WindowCount |-> k - 1], ShellWindow)
           blank == [windows |-> ws,
                     lines |-> [i \in Windows |-> 0],
                     z_order |-> z,
                     active_idx |-> ShellWindow, dragging_idx |-> -1, drag_off |-> [x |-> 0, y |-> 0],
                     cursor |-> at, left |-> FALSE,
                     cursor_save |-> [valid |-> FALSE, at |-> at, pixel |-> <<>>],
                     screen |-> [c \in Pixels |-> <<"background">>],
                     scene_changed |-> FALSE, cursor_changed |-> FALSE, force_full_redraw |-> FALSE,
                     files_cwd |-> <<>>, files_entries |-> <<"..">>, files_selected |-> 1,
                     files_offset |-> 0, files_last_click |-> -1]
           s == Synced(blank, shell)
           d == desktop_refresh_files_panel(s, fs, <<>>)
           over == Overlaid([c \in Pixels |-> Scene(d, c)], d.cursor)
           g == [d EXCEPT !.screen = over.screen, !.cursor_save = over.save]
<1>1. rt = g /\ prev = desktop_snapshot_save(rt) /\ events = 0 /\ pc \in {"keyboard", "closed"}
  BY Zenon DEF Init
<1>2. at \in Pixels
  <2>1. Points \subseteq Pixels /\ \E p \in Points : TRUE
    BY DesktopConstants DEF DesktopAssumption
  <2> QED BY <2>1, Zenon
<1>3. Stacked(z) /\ z[WindowCount] = ShellWindow
  BY FirstOrder
<1>4. /\ ws \in [Windows -> WindowRecord]
      /\ \A i \in Windows : /\ ws[i].visible
                            /\ ws[i].x \in 1 .. FbWidth - WinWidth
                            /\ ws[i].y \in 1 .. FbHeight - WinHeight
  BY FirstWindows
<1> HIDE DEF at, ws, z
<1>5. /\ DOMAIN blank = RtFields /\ blank.windows = ws /\ blank.z_order = z
      /\ blank.lines = [i \in Windows |-> 0] /\ blank.cursor = at
      /\ blank.active_idx = ShellWindow /\ blank.dragging_idx = -1
      /\ blank.drag_off = [x |-> 0, y |-> 0]
  BY DEF RtFields
<1>6. blank.scene_changed = FALSE /\ blank.cursor_changed = FALSE /\ blank.force_full_redraw = FALSE
  OBVIOUS
<1> HIDE DEF blank
<1>7. Well(blank)
  <2>1. RtTyped(blank)
    <3>1. blank.lines = [i \in Windows |-> blank.lines[i]]
      BY <1>5
    <3>2. blank.drag_off \in [x : Int, y : Int]
      BY <1>5
    <3>3. /\ blank.scene_changed \in BOOLEAN /\ blank.cursor_changed \in BOOLEAN
          /\ blank.force_full_redraw \in BOOLEAN
      BY <1>6
    <3> QED BY <1>2, <1>3, <1>4, <1>5, <3>1, <3>2, <3>3 DEF RtTyped
  <2>2. ShellWindow \in Visible(blank)
    BY <1>4, <1>5, WindowFacts DEF Visible
  <2>3. TopPlace(blank.z_order, Visible(blank), WindowCount)
    BY <1>3, <1>5, <2>2, WindowFacts DEF TopPlace, Places
  <2>4. top_visible_window(blank) = ShellWindow
    <3>1. TopOf(blank, Visible(blank)) = blank.z_order[WindowCount]
      BY <2>3, TopIs
    <3> QED BY <1>3, <1>5, <3>1 DEF top_visible_window
  <2> QED BY <1>5, <2>1, <2>4 DEF Well, Focused
<1>8. PartStep(blank, s) /\ s.lines[ShellWindow] = ShellLine(shell) /\ SameWindows(blank, s)
  BY <1>7, SyncedPart
<1> HIDE DEF s
<1>9. /\ PartStep(s, d) /\ PanelSound(d) /\ d.lines[ShellWindow] = s.lines[ShellWindow]
      /\ d.windows = s.windows /\ d.files_cwd = <<>>
  BY <1>8, RefreshedPart DEF PartStep
<1>10. SameWindows(s, d)
  BY <1>8, RefreshedPart DEF PartStep
<1> HIDE DEF d
<1>11. /\ d.windows = ws /\ ~d.scene_changed /\ ~d.cursor_changed /\ ~d.force_full_redraw
       /\ d.scene_changed \in BOOLEAN /\ d.cursor_changed \in BOOLEAN /\ d.force_full_redraw \in BOOLEAN
  BY <1>5, <1>6, <1>8, <1>10 DEF SameWindows
<1>12. Well(d) /\ DOMAIN d = RtFields /\ d.cursor \in Pixels
  BY <1>9 DEF PartStep, Well, RtTyped
<1>13. /\ over.screen = [c \in Pixels |-> IF c = d.cursor THEN <<"cursor">> ELSE Scene(d, c)]
       /\ over.save.valid /\ over.save.at = d.cursor /\ over.save.pixel = Scene(d, d.cursor)
  <2> DEFINE pic == [c \in Pixels |-> Scene(d, c)]
  <2>1. over.screen = [pic EXCEPT ![d.cursor] = <<"cursor">>]
    BY DEF Overlaid
  <2>2. over.save.valid /\ over.save.at = d.cursor /\ over.save.pixel = pic[d.cursor]
    BY DEF Overlaid
  <2>3. pic[d.cursor] = Scene(d, d.cursor)
    BY <1>12
  <2>4. [pic EXCEPT ![d.cursor] = <<"cursor">>]
          = [c \in Pixels |-> IF c = d.cursor THEN <<"cursor">> ELSE Scene(d, c)]
    OBVIOUS
  <2> HIDE DEF pic, over
  <2> QED BY <2>1, <2>2, <2>3, <2>4
<1> HIDE DEF over
<1>14. /\ DOMAIN g = RtFields /\ g.windows = d.windows /\ g.z_order = d.z_order
       /\ g.active_idx = d.active_idx /\ g.dragging_idx = d.dragging_idx
       /\ g.drag_off = d.drag_off /\ g.cursor = d.cursor /\ KeepsPanel(d, g)
       /\ g.screen = over.screen /\ g.cursor_save = over.save
       /\ g.scene_changed = d.scene_changed /\ g.cursor_changed = d.cursor_changed
       /\ g.force_full_redraw = d.force_full_redraw
  BY <1>12 DEF RtFields, KeepsPanel
<1> HIDE DEF g
<1>15. Good(g, shell) /\ Visible(g) = Visible(d)
  <2>1. RtTyped(g)
    BY <1>12, <1>14 DEF Well, RtTyped, KeepsPanel
  <2>2. Visible(g) = Visible(d)
    BY <1>14 DEF Visible
  <2>3. Focused(g)
    BY <1>12, <1>14, <2>2, FocusSame DEF Well
  <2> QED BY <1>8, <1>9, <1>14, <2>1, <2>2, <2>3 DEF Good, Well, PanelSound, KeepsPanel
<1>16. SameLook(d, g)
  BY <1>14 DEF SameLook, KeepsPanel
<1>17. \A c \in Pixels : Scene(d, c) = Scene(g, c)
  BY <1>15, <1>16, SameLookSame DEF Good, Well, RtTyped
<1>18. FrameShown(desktop_snapshot_save(g), g.lines, g)
  <2>1. g.screen = [c \in Pixels |-> IF c = g.cursor THEN <<"cursor">> ELSE Scene(g, c)]
    BY <1>13, <1>14, <1>17
  <2>2. g.cursor_save.valid /\ g.cursor_save.at = g.cursor /\ g.cursor_save.pixel = Scene(g, g.cursor)
    BY <1>12, <1>13, <1>14, <1>17
  <2>3. g.cursor \in Pixels /\ Stacked(g.z_order) /\ ~g.scene_changed /\ ~g.force_full_redraw
    BY <1>11, <1>14, <1>15 DEF Good, Well, RtTyped
  <2> QED BY <1>14, <2>1, <2>2, <2>3, FrameBegins
<1>19. FrameFresh(g)
  <2>1. OnScreen(g)
    BY <1>4, <1>11, <1>14 DEF OnScreen, Visible
  <2>2. g.files_cwd = shell.cwd
    BY <1>9, <1>14, ShellStartsInRoot DEF KeepsPanel
  <2> QED BY <1>11, <1>14, <2>1, <2>2 DEF FrameFresh, PanelFollows
<1>20. Snapshot(desktop_snapshot_save(g))
  BY <1>15, SnapshotTaken DEF Good
<1> QED BY <1>1, <1>15, <1>18, <1>19, <1>20 DEF WInv

LEMMA StepShown == ASSUME DInv, WInv, [Next]_vars PROVE WInv'
<1>1. ASSUME UNCHANGED desktopVars, shell' = shell PROVE WInv'
  BY <1>1, OthersKeep DEF desktopVars
<1>2. CASE Programs(user.output) /\ UNCHANGED desktopVars
  BY <1>1, <1>2 DEF Programs, ProgramWrites, ProgramReads, ProgramExits, shellVars
<1>3. CASE Ptysh /\ UNCHANGED desktopVars
  BY <1>1, <1>3 DEF Ptysh, PtyshOpens, PtyshReads, PtyshEscape, PtyshCloses, PtyshSpawns, shellVars
<1>4. ASSUME NEW chunk, PtyshKey(chunk), UNCHANGED desktopVars PROVE WInv'
  BY <1>1, <1>4 DEF PtyshKey, shellVars
<1>5. CASE OtherFiles
  BY <1>1, <1>5 DEF OtherFiles
<1>6. CASE UNCHANGED vars
  BY <1>1, <1>6 DEF vars, shellVars
<1> QED BY <1>2, <1>3, <1>4, <1>5, <1>6, KeyboardShown, MouseShown, LoopShown, RenderShown DEF Next

LEMMA WindowsInvariant == Spec => []WInv
<1>1. DInv /\ WInv /\ [Next]_vars => WInv'
  BY StepShown
<1> QED BY <1>1, WindowsStart, DesktopInvariant, PTL DEF Spec

\* However windows are raised, hidden, dragged, cycled through and clicked,
\* for any number of them: the window the keys go to is the topmost visible
\* one or none, and the stacking order holds every window (focus_window,
\* hide_window, cycle_focus_window, bring_to_front).
THEOREM KeysAlwaysGoToTopWindow == Spec => []KeysGoToTopWindow
<1>1. WInv => KeysGoToTopWindow
  BY DEF WInv, Good, Well, Focused, RtTyped, Stacked, Places, KeysGoToTopWindow
<1> QED BY <1>1, WindowsInvariant, PTL

LEMMA FreshShown ==
    ASSUME WInv, pc = "keyboard", events = 0, NEW c \in Pixels
    PROVE  rt.screen[c] = IF c = rt.cursor THEN <<"cursor">> ELSE Scene(rt, c)
<1>1. PICK l0 : FrameShown(prev, l0, rt)
  BY DEF WInv
<1>2. ~rt.scene_changed /\ ~rt.cursor_changed
  BY DEF WInv, FrameFresh
<1>3. /\ rt.screen[c] = IF c = rt.cursor_save.at THEN <<"cursor">> ELSE Scene(Frame(prev, l0), c)
      /\ rt.cursor = rt.cursor_save.at /\ SameLook(Frame(prev, l0), rt)
  BY <1>1, <1>2 DEF FrameShown
<1>4. Scene(Frame(prev, l0), c) = Scene(rt, c)
  BY <1>3, SameLookSame DEF WInv, Good, Well, RtTyped
<1> QED BY <1>3, <1>4

\* When a frame begins the screen is the scene under the cursor, cell by
\* cell: for every number and size of windows and every limit of the dirty
\* set, what the rectangles of desktop_render_frame and dirty_add leave out
\* has not changed, and the pixel saved under the cursor is the scene's.
THEOREM ScreenAlwaysShowsScene == Spec => []ScreenShowsScene
<1>1. WInv => ScreenShowsScene
  BY FreshShown DEF ScreenShowsScene
<1> QED BY <1>1, WindowsInvariant, PTL

\* A cell of the topmost window's body is on the screen and not under the
\* cursor.
LEMMA BodySeen ==
    ASSUME NEW d, Well(d), OnScreen(d), FilesWindow \in Visible(d), d.active_idx = FilesWindow
    PROVE  \E c \in Pixels :
              /\ c # d.cursor
              /\ Scene(d, c) = <<"body", FilesWindow, d.windows[FilesWindow].theme,
                                 FilesWindow = d.active_idx, d.lines[FilesWindow]>>
<1> DEFINE w == d.windows[FilesWindow]
           a == [x |-> w.x, y |-> w.y + 1]
           b == [x |-> w.x + 1, y |-> w.y + 1]
           Body(c) == point_in_rect(c, window_body_rect(w)) /\ point_in_rect(c, window_rect(w))
<1>1. /\ w.x \in 1 .. FbWidth - WinWidth /\ w.y \in 1 .. FbHeight - WinHeight
      /\ FbWidth \in Nat /\ FbHeight \in Nat
      /\ WinWidth \in 2 .. FbWidth - 1 /\ WinHeight \in 2 .. FbHeight - 1
  BY WindowsConstants DEF OnScreen, WindowsAssumption
<1> HIDE DEF w
<1>2. a \in Pixels /\ b \in Pixels
  <2>1. /\ w.x \in 0 .. FbWidth - 1 /\ w.x + 1 \in 0 .. FbWidth - 1 /\ w.y + 1 \in 0 .. FbHeight - 1
    BY <1>1
  <2> QED BY <2>1 DEF Pixels
<1>3. a # b
  <2>1. a.x = w.x /\ b.x = w.x + 1
    OBVIOUS
  <2> HIDE DEF a, b
  <2> QED BY <1>1, <2>1
<1>4. Body(a) /\ Body(b)
  <2>1. a.x = w.x /\ b.x = w.x + 1 /\ a.y = w.y + 1 /\ b.y = w.y + 1
    OBVIOUS
  <2> HIDE DEF a, b
  <2>2. /\ w.x \in Int /\ w.y \in Int /\ WinWidth \in Int /\ WinHeight \in Int
        /\ WinWidth >= 2 /\ WinHeight >= 2
    BY <1>1
  <2> QED BY <2>1, <2>2 DEF point_in_rect, rect_valid, window_body_rect, window_rect, make_rect
<1>5. PICK c \in Pixels : c # d.cursor /\ Body(c)
  <2> HIDE DEF a, b, Body
  <2> QED BY <1>2, <1>3, <1>4
<1>6. hit_test_window(d, c) = FilesWindow
  <2>1. FilesWindow # -1
    BY DEF FilesWindow
  <2>2. TopOf(d, Visible(d)) = FilesWindow
    BY <2>1 DEF Well, Focused, top_visible_window
  <2>3. /\ Visible(d) \subseteq Windows /\ HitBy(d, c) \subseteq Visible(d)
        /\ FilesWindow \in HitBy(d, c) /\ Stacked(d.z_order)
    BY <1>5 DEF Visible, HitBy, w, Well, RtTyped
  <2>4. TopOf(d, HitBy(d, c)) = FilesWindow
    BY <2>2, <2>3, TopOfLess
  <2> QED BY <2>4 DEF hit_test_window, HitBy
<1>7. Scene(d, c) = <<"body", FilesWindow, d.windows[FilesWindow].theme,
                      FilesWindow = d.active_idx, d.lines[FilesWindow]>>
  <2>1. FilesWindow # -1
    BY DEF FilesWindow
  <2> QED BY <1>5, <1>6, <2>1 DEF Scene, w
<1> QED BY <1>5, <1>7

\* What D removes right after a frame is the entry the screen shows selected,
\* in the directory whose entries the panel holds: the panel and the shell's
\* directory are brought together before every frame
\* (desktop_files_delete_selected, desktop_refresh_dynamic_panels).
THEOREM DeletesOnlyWhatIsShown == Spec => DeletesWhatIsShown
<1>1. WInv =>
        (KeyDelete /\ events = 0 =>
         \A p \in fs \ fs' :
             \E c \in Pixels : LET seen == rt.screen[c]
                               IN  /\ seen[1] = "body" /\ seen[2] = FilesWindow
                                   /\ p = Append(rt.files_cwd, seen[5].selected))
  <2> SUFFICES ASSUME WInv, KeyDelete, events = 0, NEW p \in fs \ fs'
               PROVE  \E c \in Pixels : LET seen == rt.screen[c]
                               IN  /\ seen[1] = "body" /\ seen[2] = FilesWindow
                                   /\ p = Append(rt.files_cwd, seen[5].selected)
    OBVIOUS
  <2>1. pc = "keyboard" /\ rt.active_idx = FilesWindow /\ FilesWindow \in Visible(rt)
    BY DEF KeyDelete, Key, Event, FilesFocused
  <2>2. p = Append(shell.cwd, SelectedName(rt))
    BY DEF KeyDelete, desktop_files_delete_selected
  <2>3. /\ Well(rt) /\ OnScreen(rt) /\ rt.files_cwd = shell.cwd
        /\ rt.lines[FilesWindow].selected = SelectedName(rt)
    BY <2>1 DEF WInv, FrameFresh, PanelFollows, Good, PanelSound, SelectedName
  <2>4. PICK c \in Pixels :
              /\ c # rt.cursor
              /\ Scene(rt, c) = <<"body", FilesWindow, rt.windows[FilesWindow].theme,
                                 FilesWindow = rt.active_idx, rt.lines[FilesWindow]>>
    BY <2>1, <2>3, BodySeen
  <2>5. rt.screen[c] = <<"body", FilesWindow, rt.windows[FilesWindow].theme,
                         FilesWindow = rt.active_idx, rt.lines[FilesWindow]>>
    BY <2>1, <2>4, FreshShown
  <2>6. /\ rt.screen[c][1] = "body" /\ rt.screen[c][2] = FilesWindow
        /\ rt.screen[c][5] = rt.lines[FilesWindow]
    BY <2>5
  <2> QED BY <2>2, <2>3, <2>6
<1> QED BY <1>1, WindowsInvariant, PTL DEF DeletesWhatIsShown

=============================================================================
