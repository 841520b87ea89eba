----------------------------- MODULE DeviceProofs ----------------------------
(***************************************************************************)
(* Proofs about the drivers of the devices.                                *)
(*                                                                         *)
(* The network cards' rings: frames come in and go out whole, once and in  *)
(* order, for every size of ring, buffer and frame and any number of tasks *)
(* that send, while frames are sent and received at the same time, except  *)
(* for what the theorem names.                                             *)
(*                                                                         *)
(* Keyboards and mice, PS/2 or behind USB: what was typed is read, and the *)
(* pointer is where the mouse was moved to, for every set of devices at    *)
(* the ports, every size of ring and queue, and every screen.              *)
(***************************************************************************)
EXTENDS UsbHid, Nic, SequenceTheorems, FiniteSetTheorems, WellFoundedInduction, TLAPS

-----------------------------------------------------------------------------
(* The network cards.                                                      *)

\* Frames arrive, are polled and are sent in any order.
NicNext == ReceiveNext \/ SendNext

NicSpec == NicInit /\ [][NicNext]_nic_vars

-----------------------------------------------------------------------------
(* The inductive invariant.                                                *)

\* A place at most one round further on in a ring of n.
Wrap(x, n) == IF x < n THEN x ELSE x - n

Byte == 0 .. 255

RxIndex == 0 .. E1000RxCount - 1

E1000Rx ==
    [desc : [RxIndex -> [done : BOOLEAN, frame : Frames \cup {<<>>}]],
     rdh : RxIndex, rdt : RxIndex, head : RxIndex, step : {"copy", "clear", "tail"}]

\* Frames that were copied whose descriptor has not been given back.
Copied == IF rx.step = "copy" THEN 0 ELSE 1

\* The descriptors behind head hold the frames that wait, and RDT keeps one
\* descriptor away from the card, so that full and empty are told apart.
E1000RxSound ==
    /\ rx \in E1000Rx
    /\ Copied + Len(pending) < E1000RxCount
    /\ rx.rdh = Wrap(rx.head + Copied + Len(pending), E1000RxCount)
    /\ rx.rdt = Wrap(rx.head + E1000RxCount - 1, E1000RxCount)
    /\ \A k \in RxIndex :
          rx.desc[Wrap(rx.head + k, E1000RxCount)].done <=>
              \/ Copied <= k /\ k < Copied + Len(pending)
              \/ k = 0 /\ rx.step = "clear"
    /\ \A k \in 1 .. Len(pending) :
          rx.desc[Wrap(rx.head + Copied + k - 1, E1000RxCount)].frame = pending[k].frame
    /\ \A k \in 1 .. Len(pending) : ~pending[k].over

Cells == 0 .. RingSize - 1

RtlRx == [ring : [0 .. 2 * RingSize - 1 -> Nat], end : Cells, rx_offset : Cells]

\* The frame is at `at`, and, unless it went over the end of the ring, whole.
Holds(ring, at, p) ==
    /\ ring[at] = Len(p.frame) + 4
    /\ \/ p.over
       \/ /\ at + 4 + Len(p.frame) <= RingSize
          /\ \A j \in 1 .. Len(p.frame) : ring[at + 3 + j] = p.frame[j]

\* d[k] is how far behind rx_offset the kth frame that waits begins, and the
\* last of d how far the card has come.
Placed(d) ==
    /\ d \in [1 .. Len(pending) + 1 -> Cells]
    /\ d[1] = 0
    /\ \A k \in 1 .. Len(pending) : d[k + 1] = d[k] + RingNeeds(pending[k].frame)
    /\ \A i, j \in 1 .. Len(pending) + 1 : i <= j => d[i] <= d[j]
    /\ rx.end = Wrap(rx.rx_offset + d[Len(pending) + 1], RingSize)
    /\ \A k \in 1 .. Len(pending) :
          Holds(rx.ring, Wrap(rx.rx_offset + d[k], RingSize), pending[k])

RtlRxSound == rx \in RtlRx /\ rx.rx_offset % 4 = 0 /\ \E d : Placed(d)

Waiting == [frame : Frames, over : BOOLEAN]

RxInOrder ==
    /\ pending \in Seq(Waiting)
    /\ backend = "e1000" => E1000RxSound
    /\ backend = "rtl8139" => RtlRxSound
    /\ ~received.over => received.got = received.want

RxSound == astray \in BOOLEAN /\ (~astray => RxInOrder)

TxIndex == 0 .. TxCount - 1

Slot == [status : {"done", "given", "aborted"}, length : 0 .. BufferSize,
         bytes : [1 .. BufferSize -> Byte]]

TxRecord == [slot : [TxIndex -> Slot], next : TxIndex, card : TxIndex]

Call == [at : {"none", "chosen", "waits"}, slot : TxIndex, frame : Frames \cup {<<>>}, left : Nat]

TxTyped ==
    /\ tx \in TxRecord /\ handed \in Seq(Seq(Byte)) /\ reused \in BOOLEAN
    /\ calls \in [Senders -> Call]
    /\ \A c \in Senders : calls[c].at = "chosen" => calls[c].frame \in Frames

\* An RTL8139 moves on to the next buffer when a call returns.
Pointed == IF backend = "rtl8139" /\ \E c \in Senders : calls[c].at = "waits" THEN 1 ELSE 0

\* The buffers from the card's on hold the frames it was given, and no others are.
BuffersOrdered ==
    /\ Len(handed) <= TxCount
    /\ Wrap(tx.next + Pointed, TxCount) = Wrap(tx.card + Len(handed), TxCount)
    /\ \A k \in TxIndex :
          tx.slot[Wrap(tx.card + k, TxCount)].status = "given" <=> k < Len(handed)
    /\ \A k \in 1 .. Len(handed) :
          LET s == tx.slot[Wrap(tx.card + k - 1, TxCount)]
          IN  SubSeq(s.bytes, 1, s.length) = handed[k]
    /\ sent.got = sent.want

\* One call at most is about to use the next buffer, and a call that waits for
\* the card, waits for the buffer that holds its frame.
CallsOrdered ==
    /\ \A c \in Undecided : calls[c].slot = tx.next /\ \A d \in Undecided : d = c
    /\ \A c \in Senders : calls[c].left > 0 =>
          /\ calls[c].left <= Len(handed)
          /\ calls[c].slot = Wrap(tx.card + calls[c].left - 1, TxCount)
    /\ answer.said => answer.left = 0

TxSound == TxTyped /\ (~reused => BuffersOrdered /\ CallsOrdered)

IInv == backend \in {"e1000", "rtl8139"} /\ RxSound /\ TxSound

-----------------------------------------------------------------------------
(* Arithmetic and sequences.                                               *)

LEMMA Sizes ==
    /\ E1000RxCount \in Nat \ {0, 1} /\ E1000TxCount \in Nat \ {0, 1}
    /\ RtlTxCount \in Nat \ {0, 1} /\ TxCount \in Nat \ {0, 1}
    /\ RingSize \in Nat \ {0} /\ RingSize % 4 = 0 /\ BufferSize \in Nat /\ Capacity \in Nat
    /\ MinLength \in 1 .. BufferSize
BY NicAssumption DEF TxCount

LEMMA FrameIs ==
    ASSUME NEW frame \in Frames
    PROVE  /\ frame \in Seq(Byte) /\ Len(frame) \in Nat \ {0} /\ Len(frame) <= BufferSize
           /\ RingNeeds(frame) < RingSize
<1>1. /\ frame \in Seq(Byte) /\ Len(frame) \in 1 .. BufferSize /\ RingNeeds(frame) < RingSize
      /\ BufferSize \in Nat
  BY NicAssumption DEF Byte
<1> QED BY <1>1

\* Remainders of what is at most one round off.
LEMMA WrapIs ==
    ASSUME NEW n \in Nat \ {0}, NEW x \in 0 .. 2 * n - 1
    PROVE  x % n = Wrap(x, n) /\ Wrap(x, n) \in 0 .. n - 1
<1> DEFINE q == x \div n
           r == x % n
<1>1. q \in Int /\ r \in 0 .. n - 1 /\ x = n * q + r
  OBVIOUS
<1> HIDE DEF q, r
<1>2. q = 0 \/ q = 1
  <2>1. CASE q >= 2
    <3>1. n * q >= n * 2
      BY <2>1, <1>1
    <3> QED BY <1>1, <3>1
  <2>2. CASE q <= -1
    <3>1. n * q <= n * (-1)
      BY <2>2, <1>1
    <3> QED BY <1>1, <3>1
  <2> QED BY <1>1, <2>1, <2>2
<1>3. CASE q = 0
  <2>1. n * q = 0
    BY <1>3
  <2> QED BY <1>1, <2>1 DEF Wrap, r
<1>4. CASE q = 1
  <2>1. n * q = n
    BY <1>4
  <2> QED BY <1>1, <2>1 DEF Wrap, r
<1> QED BY <1>2, <1>3, <1>4

LEMMA WrapBack ==
    ASSUME NEW n \in Nat \ {0}, NEW x \in Int, -n < x, x < 0
    PROVE  x % n = x + n
<1> DEFINE q == x \div n
           r == x % n
<1>1. q \in Int /\ r \in 0 .. n - 1 /\ x = n * q + r
  OBVIOUS
<1> HIDE DEF q, r
<1>2. q = -1
  <2>1. CASE q >= 0
    <3>1. n * q >= 0
      BY <2>1, <1>1
    <3> QED BY <1>1, <3>1
  <2>2. CASE q <= -2
    <3>1. n * q <= n * (-2)
      BY <2>2, <1>1
    <3> QED BY <1>1, <3>1
  <2> QED BY <1>1, <2>1, <2>2
<1>3. n * q = -n
  BY <1>2
<1> QED BY <1>1, <1>3 DEF r

LEMMA AlignedIs ==
    ASSUME NEW n \in Nat
    PROVE  /\ Aligned(n) \in Nat /\ Aligned(n) >= n /\ Aligned(n) % 4 = 0
           /\ \A o \in Nat : o % 4 = 0 => Aligned(o + n) = o + Aligned(n)
BY DEF Aligned

\* The space a frame takes holds its header, its bytes and its check sequence.
LEMMA NeedsIs ==
    ASSUME NEW frame \in Frames
    PROVE  /\ RingNeeds(frame) \in Nat /\ RingNeeds(frame) >= Len(frame) + 8
           /\ RingNeeds(frame) % 4 = 0 /\ RingNeeds(frame) < RingSize
           /\ \A o \in Nat : o % 4 = 0 => Aligned(o + (Len(frame) + 4) + 4) = o + RingNeeds(frame)
<1>1. Len(frame) \in Nat /\ 4 + Len(frame) + 4 \in Nat /\ RingNeeds(frame) < RingSize
  BY FrameIs
<1> DEFINE m == 4 + Len(frame) + 4
<1>2. /\ Aligned(m) \in Nat /\ Aligned(m) >= m /\ Aligned(m) % 4 = 0
      /\ \A o \in Nat : o % 4 = 0 => Aligned(o + m) = o + Aligned(m)
  BY <1>1, AlignedIs
<1>3. \A o \in Nat : o + (Len(frame) + 4) + 4 = o + m
  BY <1>1
<1> QED BY <1>1, <1>2, <1>3 DEF RingNeeds

LEMMA RestIs ==
    ASSUME NEW S, NEW q \in Seq(S), q # <<>>
    PROVE  /\ Rest(q) \in Seq(S) /\ Len(q) \in Nat \ {0} /\ Len(Rest(q)) = Len(q) - 1
           /\ \A k \in 1 .. Len(q) - 1 : Rest(q)[k] = q[k + 1]
           /\ q[1] \in S /\ Head(q) = q[1]
<1>1. Len(q) \in Nat \ {0}
  BY EmptySeq
<1>2. /\ Rest(q) \in Seq(S)
      /\ Len(Rest(q)) = IF 2 <= Len(q) THEN Len(q) - 2 + 1 ELSE 0
      /\ \A i \in 1 .. Len(q) - 2 + 1 : Rest(q)[i] = q[2 + i - 1]
  BY <1>1, SubSeqProperties DEF Rest
<1>3. Len(Rest(q)) = Len(q) - 1
  <2>1. \A n \in Nat \ {0} : (IF 2 <= n THEN n - 2 + 1 ELSE 0) = n - 1
    OBVIOUS
  <2> QED BY <1>1, <1>2, <2>1
<1>4. ASSUME NEW k \in 1 .. Len(q) - 1
      PROVE  Rest(q)[k] = q[k + 1]
  <2>1. k \in 1 .. Len(q) - 2 + 1 /\ 2 + k - 1 = k + 1
    BY <1>1
  <2> QED BY <1>2, <2>1
<1>5. 1 \in DOMAIN q /\ q[1] \in S /\ Head(q) = q[1]
  BY <1>1, ElementOfSeq, HeadTailProperties
<1> QED BY <1>1, <1>2, <1>3, <1>4, <1>5

LEMMA AppendIs ==
    ASSUME NEW S, NEW q \in Seq(S), NEW e \in S
    PROVE  /\ Append(q, e) \in Seq(S) /\ Len(q) \in Nat /\ Len(Append(q, e)) = Len(q) + 1
           /\ \A k \in 1 .. Len(q) : Append(q, e)[k] = q[k]
           /\ Append(q, e)[Len(q) + 1] = e
BY AppendProperties

LEMMA TailAppend ==
    ASSUME NEW S, NEW q \in Seq(S), NEW e \in S, q # <<>>
    PROVE  Tail(Append(q, e)) = Append(Tail(q), e) /\ Append(q, e)[1] = q[1]
<1> DEFINE a == Append(q, e)
           t == Tail(q)
           l == Tail(a)
           r == Append(t, e)
           n == Len(q)
<1>1. n \in Nat /\ n > 0
  BY EmptySeq
<1>2. /\ a \in Seq(S) /\ Len(a) = n + 1 /\ a[n + 1] = e
      /\ \A k \in 1 .. n : a[k] = q[k]
  BY AppendIs
<1>3. /\ t \in Seq(S) /\ Len(t) = n - 1 /\ \A k \in 1 .. n - 1 : t[k] = q[k + 1]
  BY HeadTailProperties
<1> HIDE DEF a, t, n
<1>4. a # <<>>
  BY <1>1, <1>2, EmptySeq
<1>5. /\ l \in Seq(S) /\ Len(l) = Len(a) - 1 /\ \A k \in 1 .. Len(a) - 1 : l[k] = a[k + 1]
  BY <1>2, <1>4, HeadTailProperties
<1>6. /\ r \in Seq(S) /\ Len(r) = Len(t) + 1 /\ r[Len(t) + 1] = e
      /\ \A k \in 1 .. Len(t) : r[k] = t[k]
  BY <1>3, AppendIs
<1> HIDE DEF l, r
<1>7. Len(l) = n /\ Len(r) = n
  BY <1>1, <1>2, <1>3, <1>5, <1>6
<1>8. ASSUME NEW k \in 1 .. n
      PROVE  l[k] = r[k]
  <2>1. l[k] = a[k + 1]
    BY <1>1, <1>2, <1>5
  <2>2. CASE k = n
    BY <1>1, <1>2, <1>3, <1>6, <2>1, <2>2
  <2>3. CASE k # n
    <3>1. k \in 1 .. n - 1 /\ k + 1 \in 1 .. n /\ k \in 1 .. Len(t)
      BY <1>1, <1>3, <2>3
    <3> QED BY <1>2, <1>3, <1>6, <2>1, <3>1
  <2> QED BY <2>2, <2>3
<1>9. l = r
  BY <1>5, <1>6, <1>7, <1>8, SeqEqual
<1>10. a[1] = q[1]
  BY <1>1, <1>2
<1> QED BY <1>9, <1>10 DEF l, r, a, t

-----------------------------------------------------------------------------
(* Receiving with an E1000.                                                *)

\* Different steps from a place in a ring lead to different places.
LEMMA WrapDistinct ==
    ASSUME NEW n \in Nat \ {0}, NEW o \in 0 .. n - 1,
           NEW i \in 0 .. n - 1, NEW j \in 0 .. n - 1
    PROVE  /\ Wrap(o + i, n) \in 0 .. n - 1
           /\ Wrap(o + i, n) = Wrap(o + j, n) => i = j
BY DEF Wrap

\* Steps may be taken one after the other.
LEMMA WrapSum ==
    ASSUME NEW n \in Nat \ {0, 1}, NEW o \in 0 .. n - 1, NEW i \in 0 .. n - 1
    PROVE  /\ (o + 1) % n = Wrap(o + 1, n) /\ Wrap(o + 1, n) \in 0 .. n - 1
           /\ i + 1 < n => Wrap(Wrap(o + 1, n) + i, n) = Wrap(o + (i + 1), n)
           /\ Wrap(Wrap(o + 1, n) + n - 1, n) = o
           /\ Wrap(o + 0, n) = o
           /\ i + 1 < n => (Wrap(o + i, n) + 1) % n = Wrap(o + (i + 1), n)
<1>1. o + 1 \in 0 .. 2 * n - 1 /\ Wrap(o + i, n) + 1 \in 0 .. 2 * n - 1
  BY DEF Wrap
<1>2. (o + 1) % n = Wrap(o + 1, n) /\ (Wrap(o + i, n) + 1) % n = Wrap(Wrap(o + i, n) + 1, n)
  BY <1>1, WrapIs
<1> QED BY <1>2 DEF Wrap

LEMMA E1000StoreKeeps ==
    ASSUME RxInOrder, NEW frame \in Frames, E1000Stores(frame)
    PROVE  RxInOrder'
<1> DEFINE N == E1000RxCount
           L == Len(pending)
           C == Copied
           p == [frame |-> frame, over |-> FALSE]
<1>1. /\ backend = "e1000" /\ backend' = backend /\ rx.rdh # rx.rdt
      /\ pending' = Append(pending, p) /\ received' = received
      /\ rx' = [rx EXCEPT !.desc[rx.rdh] = [done |-> TRUE, frame |-> frame],
                          !.rdh = (@ + 1) % E1000RxCount]
  BY DEF E1000Stores
<1>2. N \in Nat \ {0, 1} /\ frame \in Seq(Byte)
  BY Sizes, FrameIs
<1>3. pending \in Seq(Waiting) /\ rx \in E1000Rx /\ E1000RxSound
  BY <1>1 DEF RxInOrder, E1000RxSound
<1>4. p \in Waiting
  BY DEF Waiting
<1>5. /\ pending' \in Seq(Waiting) /\ L \in Nat /\ Len(pending') = L + 1
      /\ \A k \in 1 .. L : pending'[k] = pending[k]
      /\ pending'[L + 1] = p
  BY <1>1, <1>3, <1>4, AppendIs
<1>6. /\ rx'.desc = [rx.desc EXCEPT ![rx.rdh] = [done |-> TRUE, frame |-> frame]]
      /\ rx'.rdh = (rx.rdh + 1) % N
      /\ rx'.rdt = rx.rdt /\ rx'.head = rx.head /\ rx'.step = rx.step
      /\ DOMAIN rx' = DOMAIN rx
  BY <1>1, <1>3 DEF E1000Rx
<1>7. C \in {0, 1} /\ C' = C /\ rx.head \in 0 .. N - 1
  BY <1>3, <1>6 DEF Copied, E1000Rx, RxIndex
<1>8. /\ C + L < N /\ rx.rdh = Wrap(rx.head + C + L, N) /\ rx.rdt = Wrap(rx.head + N - 1, N)
  BY <1>3 DEF E1000RxSound
<1>9. C + L + 1 < N
  BY <1>1, <1>2, <1>5, <1>7, <1>8 DEF Wrap
<1>10. C + L \in 0 .. N - 1 /\ C + L + 1 \in 0 .. N - 1
  BY <1>2, <1>5, <1>7, <1>9
<1>11. rx.rdh = Wrap(rx.head + (C + L), N)
  BY <1>2, <1>5, <1>7, <1>8
<1>12. rx'.rdh = Wrap(rx.head + (C + (L + 1)), N) /\ rx'.rdh \in 0 .. N - 1
  <2>1. (Wrap(rx.head + (C + L), N) + 1) % N = Wrap(rx.head + ((C + L) + 1), N)
    <3> DEFINE i == C + L
    <3>1. i \in 0 .. N - 1 /\ i + 1 < N
      BY <1>9, <1>10
    <3> HIDE DEF i, N
    <3>2. (Wrap(rx.head + i, N) + 1) % N = Wrap(rx.head + (i + 1), N)
      BY <1>2, <1>7, <3>1, WrapSum
    <3> QED BY <3>2 DEF i
  <2>2. (C + L) + 1 = C + (L + 1)
    BY <1>5, <1>7
  <2>3. Wrap(rx.head + ((C + L) + 1), N) \in 0 .. N - 1
    BY <1>2, <1>7, <1>10, WrapDistinct
  <2> QED BY <1>6, <1>11, <2>1, <2>2, <2>3
<1>13. rx' \in E1000Rx
  <2>1. rx'.desc \in [RxIndex -> [done : BOOLEAN, frame : Frames \cup {<<>>}]]
    BY <1>3, <1>6 DEF E1000Rx
  <2>2. (rx.rdh + 1) % N \in RxIndex
    BY <1>6, <1>12 DEF RxIndex
  <2> QED BY <1>1, <1>3, <1>6, <2>1, <2>2 DEF E1000Rx
<1>14. ASSUME NEW k \in RxIndex
       PROVE  rx'.desc[Wrap(rx'.head + k, N)].done <=>
                 \/ C <= k /\ k < C + (L + 1)
                 \/ k = 0 /\ rx.step = "clear"
  <2>1. rx.desc[Wrap(rx.head + k, N)].done <=>
           (C <= k /\ k < C + L) \/ (k = 0 /\ rx.step = "clear")
    BY <1>3 DEF E1000RxSound
  <2>2. Wrap(rx.head + k, N) \in RxIndex /\ (Wrap(rx.head + k, N) = rx.rdh <=> k = C + L)
    BY <1>2, <1>7, <1>10, <1>11, WrapDistinct DEF RxIndex
  <2>3. CASE k = C + L
    <3>1. rx'.desc[Wrap(rx'.head + k, N)].done
      BY <1>3, <1>6, <2>2, <2>3 DEF E1000Rx
    <3>2. C <= k /\ k < C + (L + 1)
      BY <1>5, <1>7, <2>3
    <3> QED BY <3>1, <3>2
  <2>4. CASE k # C + L
    <3>1. rx'.desc[Wrap(rx'.head + k, N)] = rx.desc[Wrap(rx.head + k, N)]
      BY <1>3, <1>6, <2>2, <2>4 DEF E1000Rx
    <3>2. (C <= k /\ k < C + L) <=> (C <= k /\ k < C + (L + 1))
      BY <1>2, <1>5, <1>7, <2>4 DEF RxIndex
    <3> QED BY <2>1, <3>1, <3>2
  <2> QED BY <2>3, <2>4
<1>15. ASSUME NEW k \in 1 .. L + 1
       PROVE  /\ rx'.desc[Wrap(rx'.head + C + k - 1, N)].frame = pending'[k].frame
              /\ ~pending'[k].over
  <2>1. C + (k - 1) \in 0 .. N - 1 /\ rx.head + C + k - 1 = rx.head + (C + (k - 1))
    BY <1>2, <1>5, <1>7, <1>9
  <2>2. /\ Wrap(rx.head + C + k - 1, N) \in RxIndex
        /\ Wrap(rx.head + C + k - 1, N) = rx.rdh <=> k = L + 1
    <3>1. /\ Wrap(rx.head + (C + (k - 1)), N) \in RxIndex
          /\ Wrap(rx.head + (C + (k - 1)), N) = rx.rdh <=> C + (k - 1) = C + L
      BY <1>2, <1>7, <1>10, <1>11, <2>1, WrapDistinct DEF RxIndex
    <3>2. C + (k - 1) = C + L <=> k = L + 1
      BY <1>5, <1>7
    <3> QED BY <2>1, <3>1, <3>2
  <2>3. CASE k = L + 1
    BY <1>3, <1>5, <1>6, <2>2, <2>3 DEF E1000Rx
  <2>4. CASE k # L + 1
    <3>1. k \in 1 .. L
      BY <1>5, <2>4
    <3>2. /\ rx.desc[Wrap(rx.head + C + k - 1, N)].frame = pending[k].frame
          /\ ~pending[k].over
      BY <1>3, <3>1 DEF E1000RxSound
    <3>3. rx'.desc[Wrap(rx'.head + C + k - 1, N)] = rx.desc[Wrap(rx.head + C + k - 1, N)]
      BY <1>3, <1>6, <2>2, <2>4 DEF E1000Rx
    <3> QED BY <1>5, <3>1, <3>2, <3>3
  <2> QED BY <2>3, <2>4
<1>16. rx'.rdh = Wrap(rx'.head + C + (L + 1), N) /\ C + (L + 1) < N
  <2>1. rx.head + C + (L + 1) = rx.head + (C + (L + 1)) /\ C + (L + 1) < N
    <3>1. \A h, c, l, n \in Int :
             h + c + (l + 1) = h + (c + (l + 1)) /\ (c + l + 1 < n => c + (l + 1) < n)
      OBVIOUS
    <3>2. rx.head \in Int /\ C \in Int /\ L \in Int /\ N \in Int
      BY <1>2, <1>5, <1>7
    <3> QED BY <1>9, <3>1, <3>2
  <2> QED BY <1>6, <1>12, <2>1
<1>17. E1000RxSound'
  BY <1>5, <1>6, <1>7, <1>8, <1>13, <1>14, <1>15, <1>16 DEF E1000RxSound, RxIndex
<1> QED BY <1>1, <1>5, <1>17 DEF RxInOrder

LEMMA E1000PollKeeps ==
    ASSUME RxInOrder, e1000_hw_poll_frame
    PROVE  RxInOrder'
<1> DEFINE N == E1000RxCount
           L == Len(pending)
<1>1. /\ backend = "e1000" /\ backend' = backend /\ rx.step = "copy" /\ rx.desc[rx.head].done
      /\ Returned(Cut(rx.desc[rx.head].frame))
      /\ rx' = [rx EXCEPT !.step = "clear"]
  BY DEF e1000_hw_poll_frame, StepAfter
<1>2. N \in Nat \ {0, 1}
  BY Sizes
<1>3. pending \in Seq(Waiting) /\ rx \in E1000Rx /\ E1000RxSound /\ L \in Nat
  BY <1>1 DEF RxInOrder, E1000RxSound
<1>4. /\ rx'.desc = rx.desc /\ rx'.rdh = rx.rdh /\ rx'.rdt = rx.rdt /\ rx'.head = rx.head
      /\ rx'.step = "clear" /\ rx' \in E1000Rx /\ rx.head \in 0 .. N - 1
  BY <1>1, <1>3 DEF E1000Rx, RxIndex
<1>5. Copied = 0 /\ Copied' = 1
  BY <1>1, <1>4 DEF Copied
<1>6. /\ L < N /\ rx.rdh = Wrap(rx.head + L, N) /\ rx.rdt = Wrap(rx.head + N - 1, N)
      /\ \A k \in RxIndex :
            rx.desc[Wrap(rx.head + k, N)].done <=>
               (0 <= k /\ k < L) \/ (k = 0 /\ rx.step = "clear")
      /\ \A k \in 1 .. L : /\ rx.desc[Wrap(rx.head + k - 1, N)].frame = pending[k].frame
                           /\ ~pending[k].over
  <2>1. rx.head + 0 + L = rx.head + L /\ \A k \in 1 .. L : rx.head + 0 + k - 1 = rx.head + k - 1
    BY <1>2, <1>3, <1>4
  <2> QED BY <1>3, <1>5, <2>1 DEF E1000RxSound
<1>7. L # 0 /\ pending # <<>>
  <2>1. 0 \in RxIndex /\ Wrap(rx.head + 0, N) = rx.head
    BY <1>2, <1>4 DEF RxIndex, Wrap
  <2>2. (0 <= 0 /\ 0 < L) \/ (0 = 0 /\ rx.step = "clear")
    BY <1>1, <1>6, <2>1
  <2> QED BY <1>1, <1>3, <2>2
<1>8. /\ pending' = Rest(pending) /\ pending' \in Seq(Waiting) /\ Len(pending') = L - 1
      /\ \A k \in 1 .. L - 1 : pending'[k] = pending[k + 1]
      /\ pending[1] \in Waiting /\ FirstOf(pending, NoFrame) = pending[1]
  BY <1>1, <1>3, <1>7, RestIs DEF Returned, FirstOf
<1>9. received'.got = received'.want
  <2>1. rx.desc[rx.head].frame = pending[1].frame
    <3>1. 1 \in 1 .. L /\ Wrap(rx.head + 1 - 1, N) = rx.head
      BY <1>2, <1>3, <1>4, <1>7 DEF Wrap
    <3> QED BY <1>6, <3>1
  <2> QED BY <1>1, <1>8, <2>1 DEF Returned
<1>10. ASSUME NEW k \in RxIndex
       PROVE  rx'.desc[Wrap(rx'.head + k, N)].done <=>
                 \/ 1 <= k /\ k < 1 + (L - 1)
                 \/ k = 0 /\ rx'.step = "clear"
  <2>1. (0 <= k /\ k < L) <=> (1 <= k /\ k < 1 + (L - 1)) \/ k = 0
    BY <1>2, <1>3, <1>7 DEF RxIndex
  <2> QED BY <1>1, <1>4, <1>6, <2>1
<1>11. ASSUME NEW k \in 1 .. L - 1
       PROVE  /\ rx'.desc[Wrap(rx'.head + 1 + k - 1, N)].frame = pending'[k].frame
              /\ ~pending'[k].over
  <2>1. k + 1 \in 1 .. L /\ rx.head + 1 + k - 1 = rx.head + (k + 1) - 1
    BY <1>2, <1>3, <1>4
  <2> QED BY <1>4, <1>6, <1>8, <2>1
<1>12. 1 + (L - 1) < N /\ rx.head + 1 + (L - 1) = rx.head + L
  <2>1. \A h, l, n \in Int : h + 1 + (l - 1) = h + l /\ (l < n => 1 + (l - 1) < n)
    OBVIOUS
  <2>2. rx.head \in Int /\ L \in Int /\ N \in Int
    BY <1>2, <1>3, <1>4
  <2> QED BY <1>6, <2>1, <2>2
<1>13. E1000RxSound'
  BY <1>4, <1>5, <1>6, <1>8, <1>10, <1>11, <1>12 DEF E1000RxSound, RxIndex
<1> QED BY <1>1, <1>8, <1>9, <1>13 DEF RxInOrder

LEMMA E1000ReleaseKeeps ==
    ASSUME RxInOrder, E1000PollReleases
    PROVE  RxInOrder'
<1> DEFINE N == E1000RxCount
           L == Len(pending)
<1>1. /\ backend = "e1000" /\ backend' = backend /\ rx.step # "copy"
      /\ pending' = pending /\ received' = received
  BY DEF E1000PollReleases
<1>2. N \in Nat \ {0, 1}
  BY Sizes
<1>3. /\ pending \in Seq(Waiting) /\ rx \in E1000Rx /\ E1000RxSound /\ L \in Nat
      /\ rx.head \in 0 .. N - 1 /\ rx.step \in {"clear", "tail"}
  BY <1>1 DEF RxInOrder, E1000RxSound, E1000Rx, RxIndex
<1>4. Copied = 1
  BY <1>1 DEF Copied
<1>5. /\ 1 + L < N /\ rx.rdh = Wrap(rx.head + 1 + L, N) /\ rx.rdt = Wrap(rx.head + N - 1, N)
      /\ \A k \in RxIndex :
            rx.desc[Wrap(rx.head + k, N)].done <=>
               (1 <= k /\ k < 1 + L) \/ (k = 0 /\ rx.step = "clear")
      /\ \A k \in 1 .. L : /\ rx.desc[Wrap(rx.head + 1 + k - 1, N)].frame = pending[k].frame
                           /\ ~pending[k].over
  BY <1>3, <1>4 DEF E1000RxSound
<1>6. CASE rx.step = "clear"
  <2>1. StepAfter("clear") = "tail"
    BY DEF StepAfter
  <2>2. /\ rx'.desc = [rx.desc EXCEPT ![rx.head].done = FALSE] /\ rx'.rdh = rx.rdh
        /\ rx'.rdt = rx.rdt /\ rx'.head = rx.head /\ rx'.step = "tail" /\ rx' \in E1000Rx
    <3>1. rx' = [rx EXCEPT !.desc[rx.head].done = @ /\ rx.step # "clear",
                           !.rdt = rx.rdt, !.head = rx.head, !.step = "tail"]
      BY <1>3, <1>6, <2>1 DEF E1000PollReleases, E1000Rx
    <3>2. (rx.desc[rx.head].done /\ rx.step # "clear") = FALSE
      BY <1>6
    <3>3. rx' = [rx EXCEPT !.desc[rx.head].done = FALSE,
                           !.rdt = rx.rdt, !.head = rx.head, !.step = "tail"]
      BY <3>1, <3>2
    <3>4. [rx.desc EXCEPT ![rx.head].done = FALSE]
             \in [RxIndex -> [done : BOOLEAN, frame : Frames \cup {<<>>}]]
      BY <1>3 DEF E1000Rx
    <3>5. /\ rx'.desc = [rx.desc EXCEPT ![rx.head].done = FALSE] /\ rx'.rdh = rx.rdh
          /\ rx'.rdt = rx.rdt /\ rx'.head = rx.head /\ rx'.step = "tail"
      BY <1>3, <3>3 DEF E1000Rx
    <3> HIDE DEF N, L
    <3>6. rx' \in E1000Rx
      BY <1>3, <3>3, <3>4, <3>5 DEF E1000Rx
    <3> QED BY <3>5, <3>6
  <2>3. Copied' = 1
    BY <2>2 DEF Copied
  <2>4. ASSUME NEW k \in RxIndex
        PROVE  rx'.desc[Wrap(rx'.head + k, N)].done <=>
                 \/ 1 <= k /\ k < 1 + L
                 \/ k = 0 /\ rx'.step = "clear"
    <3>1. /\ Wrap(rx.head + k, N) \in RxIndex
          /\ Wrap(rx.head + k, N) = rx.head <=> k = 0
      BY <1>2, <1>3 DEF Wrap, RxIndex
    <3>2. CASE k = 0
      <4>1. ~rx'.desc[Wrap(rx'.head + k, N)].done
        BY <1>3, <2>2, <3>1, <3>2 DEF E1000Rx
      <4> QED BY <2>2, <3>2, <4>1
    <3>3. CASE k # 0
      <4>1. rx'.desc[Wrap(rx'.head + k, N)] = rx.desc[Wrap(rx.head + k, N)]
        BY <1>3, <2>2, <3>1, <3>3 DEF E1000Rx
      <4> QED BY <1>5, <3>3, <4>1
    <3> QED BY <3>2, <3>3
  <2>5. ASSUME NEW k \in 1 .. L
        PROVE  rx'.desc[Wrap(rx'.head + 1 + k - 1, N)].frame = pending[k].frame
    <3>1. Wrap(rx.head + 1 + k - 1, N) \in RxIndex
      <4>1. k \in 1 .. N - 1 /\ rx.head + 1 + k - 1 = rx.head + k
        BY <1>2, <1>3, <1>5
      <4> QED BY <1>2, <1>3, <4>1, WrapDistinct DEF RxIndex
    <3>2. \A i \in RxIndex : rx'.desc[i].frame = rx.desc[i].frame
      BY <1>3, <2>2 DEF E1000Rx
    <3> QED BY <1>5, <2>2, <3>1, <3>2
  <2>6. E1000RxSound'
    BY <1>1, <1>5, <2>2, <2>3, <2>4, <2>5 DEF E1000RxSound, RxIndex
  <2> QED BY <1>1, <1>3, <2>6 DEF RxInOrder
<1>7. CASE rx.step = "tail"
  <2>1. StepAfter("tail") = "copy"
    BY DEF StepAfter
  <2>2. (rx.head + 1) % N = Wrap(rx.head + 1, N) /\ Wrap(rx.head + 1, N) \in 0 .. N - 1
        /\ Wrap(Wrap(rx.head + 1, N) + N - 1, N) = rx.head
    BY <1>2, <1>3, WrapSum
  <2>3. /\ rx'.desc = rx.desc /\ rx'.rdh = rx.rdh
        /\ rx'.rdt = rx.head /\ rx'.head = Wrap(rx.head + 1, N) /\ rx'.step = "copy"
        /\ rx' \in E1000Rx
    <3>1. rx' = [rx EXCEPT !.desc[rx.head].done = @ /\ rx.step # "clear",
                           !.rdt = rx.head, !.head = Wrap(rx.head + 1, N), !.step = "copy"]
      BY <1>3, <1>7, <2>1, <2>2 DEF E1000PollReleases, E1000Rx
    <3>2. (rx.desc[rx.head].done /\ rx.step # "clear") = rx.desc[rx.head].done
      BY <1>3, <1>7 DEF E1000Rx
    <3>3. rx' = [rx EXCEPT !.desc[rx.head].done = rx.desc[rx.head].done,
                           !.rdt = rx.head, !.head = Wrap(rx.head + 1, N), !.step = "copy"]
      BY <3>1, <3>2
    <3>4. [rx.desc EXCEPT ![rx.head].done = rx.desc[rx.head].done] = rx.desc
      BY <1>3 DEF E1000Rx
    <3> QED BY <1>3, <2>2, <3>3, <3>4 DEF E1000Rx, RxIndex
  <2>4. Copied' = 0
    BY <2>3 DEF Copied
  <2>5. ASSUME NEW k \in RxIndex
        PROVE  rx'.desc[Wrap(rx'.head + k, N)].done <=>
                 \/ 0 <= k /\ k < 0 + L
                 \/ k = 0 /\ rx'.step = "clear"
    <3>1. CASE k + 1 < N
      <4>1. k + 1 \in RxIndex /\ Wrap(Wrap(rx.head + 1, N) + k, N) = Wrap(rx.head + (k + 1), N)
        BY <1>2, <1>3, <3>1, SMTT(30) DEF RxIndex, Wrap
      <4>2. rx.desc[Wrap(rx.head + (k + 1), N)].done <=>
               (1 <= k + 1 /\ k + 1 < 1 + L) \/ (k + 1 = 0 /\ rx.step = "clear")
        BY <1>5, <4>1
      <4>3. (1 <= k + 1 /\ k + 1 < 1 + L) <=> (0 <= k /\ k < 0 + L)
        BY <1>3, <1>2 DEF RxIndex
      <4> QED BY <1>7, <2>3, <4>1, <4>2, <4>3
    <3>2. CASE k = N - 1
      <4>1. Wrap(Wrap(rx.head + 1, N) + k, N) = rx.head
        BY <1>2, <1>3, <3>2 DEF Wrap
      <4>2. 0 \in RxIndex /\ Wrap(rx.head + 0, N) = rx.head
        BY <1>2, <1>3 DEF Wrap, RxIndex
      <4>3. ~rx.desc[rx.head].done
        BY <1>5, <1>7, <4>2
      <4>4. ~(0 <= k /\ k < 0 + L) /\ k # 0
        BY <1>2, <1>3, <1>5, <3>2
      <4> QED BY <2>3, <4>1, <4>3, <4>4
    <3> QED BY <1>2, <3>1, <3>2 DEF RxIndex
  <2>6. ASSUME NEW k \in 1 .. L
        PROVE  rx'.desc[Wrap(rx'.head + 0 + k - 1, N)].frame = pending[k].frame
    <3>1. Wrap(Wrap(rx.head + 1, N) + 0 + k - 1, N) = Wrap(rx.head + 1 + k - 1, N)
      BY <1>2, <1>3, <1>5, SMTT(30) DEF Wrap
    <3> QED BY <1>5, <2>3, <3>1
  <2>7. 0 + L < N /\ rx.rdh = Wrap(Wrap(rx.head + 1, N) + 0 + L, N)
    BY <1>2, <1>3, <1>5 DEF Wrap
  <2>8. E1000RxSound'
    BY <1>1, <1>5, <2>2, <2>3, <2>4, <2>5, <2>6, <2>7 DEF E1000RxSound, RxIndex
  <2> QED BY <1>1, <1>3, <2>8 DEF RxInOrder
<1> QED BY <1>3, <1>6, <1>7

-----------------------------------------------------------------------------
(* Receiving with an RTL8139.                                              *)

\* What is stored from D on, where it fits, misses what is before D.
LEMMA StoredElsewhere ==
    ASSUME NEW n \in Nat, NEW o \in 0 .. n - 1, NEW D \in Nat, NEW d \in Nat,
           NEW taken \in Nat, NEW x \in Nat, NEW length \in Nat,
           d + taken <= D, x < taken, D + length + 7 < n,
           Wrap(o + d, n) + x < n
    PROVE  Wrap(o + d, n) + x \notin Wrap(o + D, n) .. Wrap(o + D, n) + 7 + length
BY DEF Wrap

\* The card finds the room the frames that wait leave.
LEMMA RoomIs ==
    ASSUME NEW n \in Nat \ {0}, NEW o \in 0 .. n - 1, NEW D \in 0 .. n - 1, NEW need \in Nat,
           need < (o - Wrap(o + D, n)) % n
    PROVE  D + need < n
<1>1. CASE D = 0
  <2>1. o - Wrap(o + D, n) = 0
    BY <1>1 DEF Wrap
  <2>2. 0 % n = 0
    BY WrapIs DEF Wrap
  <2> QED BY <2>1, <2>2
<1>2. CASE D # 0 /\ o + D < n
  <2>1. o - Wrap(o + D, n) = -D /\ -D \in Int /\ -n < -D /\ -D < 0
    BY <1>2 DEF Wrap
  <2>2. (-D) % n = -D + n
    BY <2>1, WrapBack
  <2> QED BY <2>1, <2>2
<1>3. CASE D # 0 /\ ~(o + D < n)
  <2>1. o - Wrap(o + D, n) = n - D /\ n - D \in 0 .. 2 * n - 1
    BY <1>3 DEF Wrap
  <2>2. (n - D) % n = Wrap(n - D, n)
    BY <2>1, WrapIs
  <2> QED BY <1>3, <2>1, <2>2 DEF Wrap
<1> QED BY <1>1, <1>2, <1>3

LEMMA StoredIs ==
    ASSUME NEW ring \in [0 .. 2 * RingSize - 1 -> Nat], NEW at \in Cells, NEW frame \in Frames
    PROVE  /\ Stored(ring, at, frame) \in [0 .. 2 * RingSize - 1 -> Nat]
           /\ \A b \in 0 .. 2 * RingSize - 1 : b \notin at .. at + 7 + Len(frame) =>
                 Stored(ring, at, frame)[b] = ring[b]
           /\ Stored(ring, at, frame)[at] = Len(frame) + 4
           /\ \A j \in 1 .. Len(frame) : Stored(ring, at, frame)[at + 3 + j] = frame[j]
<1> DEFINE n == RingSize
<1>0. n \in Nat /\ at \in 0 .. n - 1
  BY Sizes DEF Cells
<1> DEFINE length == Len(frame)
           stored == Stored(ring, at, frame)
<1>1. length \in Nat /\ length + 8 < n /\ \A j \in 1 .. length : frame[j] \in Nat
  <2>1. frame \in Seq(Byte) /\ length \in Nat
    BY FrameIs
  <2>2. \A j \in 1 .. length : frame[j] \in Byte
    BY <2>1, ElementOfSeq
  <2>3. RingNeeds(frame) \in Nat /\ RingNeeds(frame) >= length + 8 /\ RingNeeds(frame) < n
    BY NeedsIs
  <2>4. Byte \subseteq Nat
    BY DEF Byte
  <2>5. \A l, m \in Nat : m >= l + 8 /\ m < n => l + 8 < n
    BY <1>0
  <2> QED BY <2>1, <2>2, <2>3, <2>4, <2>5
<1>2. /\ DOMAIN stored = 0 .. 2 * n - 1
      /\ \A b \in 0 .. 2 * n - 1 :
           stored[b] = IF b = at THEN length + 4
                       ELSE IF b \in at + 4 .. at + 3 + length THEN frame[b - at - 3]
                       ELSE IF b \in at .. at + 7 + length THEN 0
                       ELSE ring[b]
      /\ stored = [b \in 0 .. 2 * n - 1 |-> stored[b]]
  BY DEF Stored
<1> HIDE DEF length, stored, n
<1>3. ASSUME NEW b \in at + 4 .. at + 3 + length
      PROVE  b - at - 3 \in 1 .. length
  BY <1>0, <1>1
<1>4. ASSUME NEW b \in 0 .. 2 * n - 1
      PROVE  stored[b] \in Nat
  <2>1. CASE b = at
    BY <1>0, <1>1, <1>2, <2>1
  <2>2. CASE b # at /\ b \in at + 4 .. at + 3 + length
    <3>1. stored[b] = frame[b - at - 3]
      BY <1>2, <2>2
    <3> QED BY <1>1, <1>3, <2>2, <3>1
  <2>3. CASE b # at /\ b \notin at + 4 .. at + 3 + length
    <3>1. stored[b] = 0 \/ stored[b] = ring[b]
      BY <1>2, <2>3
    <3> QED BY <3>1 DEF n
  <2> QED BY <2>1, <2>2, <2>3
<1>5. stored \in [0 .. 2 * n - 1 -> Nat]
  BY <1>2, <1>4
<1>6. ASSUME NEW b \in 0 .. 2 * n - 1, b \notin at .. at + 7 + length
      PROVE  stored[b] = ring[b]
  <2>1. b # at /\ b \notin at + 4 .. at + 3 + length
    BY <1>0, <1>1, <1>6
  <2> QED BY <1>2, <1>6, <2>1
<1>7. stored[at] = length + 4
  <2>1. at \in 0 .. 2 * n - 1
    BY <1>0
  <2> QED BY <1>2, <2>1
<1>8. ASSUME NEW j \in 1 .. length
      PROVE  stored[at + 3 + j] = frame[j]
  <2>1. /\ at + 3 + j \in 0 .. 2 * n - 1 /\ at + 3 + j # at
        /\ at + 3 + j \in at + 4 .. at + 3 + length /\ (at + 3 + j) - at - 3 = j
    BY <1>0, <1>1
  <2> QED BY <1>2, <2>1
<1> QED BY <1>5, <1>6, <1>7, <1>8 DEF length, stored, n

\* Where a frame is held, what is stored further on leaves it.
LEMMA HoldsStill ==
    ASSUME NEW n \in Nat, n = RingSize, NEW old \in [0 .. 2 * n - 1 -> Nat],
           NEW new \in [0 .. 2 * n - 1 -> Nat],
           NEW o \in 0 .. n - 1, NEW D \in Nat, NEW d \in Nat, NEW length \in Nat,
           NEW q \in Waiting, d + RingNeeds(q.frame) <= D, D + length + 7 < n,
           Holds(old, Wrap(o + d, n), q),
           \A b \in 0 .. 2 * n - 1 :
              b \notin Wrap(o + D, n) .. Wrap(o + D, n) + 7 + length => new[b] = old[b]
    PROVE  Holds(new, Wrap(o + d, n), q)
<1> DEFINE at == Wrap(o + d, n)
           taken == RingNeeds(q.frame)
           len == Len(q.frame)
<1>1. q.frame \in Frames /\ len \in Nat /\ taken \in Nat /\ taken >= len + 8
  BY FrameIs, NeedsIs DEF Waiting
<1>2. at \in 0 .. n - 1
  <2>1. d < n
    <3>1. d + taken <= D
      OBVIOUS
    <3> HIDE DEF taken
    <3> QED BY <1>1, <3>1
  <2> QED BY <2>1 DEF Wrap
<1>3. ASSUME NEW x \in Nat, x < taken, at + x < n
      PROVE  new[at + x] = old[at + x]
  <2> HIDE DEF taken
  <2>1. at + x \notin Wrap(o + D, n) .. Wrap(o + D, n) + 7 + length
    BY <1>1, <1>3, StoredElsewhere DEF taken
  <2> HIDE DEF at
  <2>2. at + x \in 0 .. 2 * n - 1
    BY <1>2, <1>3
  <2> QED BY <2>1, <2>2
<1>4. new[at] = old[at]
  <2> HIDE DEF at, taken, len
  <2>1. 0 \in Nat /\ 0 < taken /\ at + 0 < n /\ at + 0 = at
    BY <1>1, <1>2
  <2> QED BY <1>3, <2>1
<1>5. ASSUME at + 4 + len <= n, NEW j \in 1 .. len
      PROVE  new[at + 3 + j] = old[at + 3 + j]
  <2> HIDE DEF at, taken, len
  <2>1. 3 + j \in Nat /\ 3 + j < taken /\ at + (3 + j) < n /\ at + (3 + j) = at + 3 + j
    BY <1>1, <1>2, <1>5
  <2> QED BY <1>3, <2>1
<1> QED BY <1>4, <1>5 DEF Holds

LEMMA RtlStoreKeeps ==
    ASSUME RxInOrder, NEW frame \in Frames, RtlStores(frame)
    PROVE  RxInOrder'
<1> DEFINE R == RingSize
           L == Len(pending)
           o == rx.rx_offset
           end == rx.end
           need == RingNeeds(frame)
           length == Len(frame)
           p == [frame |-> frame, over |-> end + 4 + length > R]
           ring == Stored(rx.ring, end, frame)
<1>1. /\ backend = "rtl8139" /\ backend' = backend /\ received' = received
      /\ pending = <<>> \/ need < (o - end) % R
      /\ pending' = Append(pending, p)
      /\ rx' = [rx EXCEPT !.ring = Stored(@, rx.end, frame), !.end = (@ + need) % R]
  BY DEF RtlStores
<1>2. R \in Nat /\ length \in Nat /\ need \in Nat /\ need >= length + 8 /\ need < R
  BY Sizes, FrameIs, NeedsIs
<1>3. /\ pending \in Seq(Waiting) /\ rx \in RtlRx /\ o % 4 = 0
      /\ rx.ring \in [0 .. 2 * R - 1 -> Nat]
  BY <1>1 DEF RxInOrder, RtlRxSound, RtlRx
<1>4. L \in Nat /\ o \in 0 .. R - 1 /\ end \in 0 .. R - 1
  BY <1>3 DEF RtlRx, Cells
<1>5. PICK d : Placed(d)
  BY <1>1 DEF RxInOrder, RtlRxSound
<1> DEFINE D == d[L + 1]
           f == [k \in 1 .. (L + 1) + 1 |-> IF k <= L + 1 THEN d[k] ELSE D + need]
<1>6. /\ d \in [1 .. L + 1 -> 0 .. R - 1] /\ d[1] = 0
      /\ \A k \in 1 .. L : d[k + 1] = d[k] + RingNeeds(pending[k].frame)
      /\ \A i, j \in 1 .. L + 1 : i <= j => d[i] <= d[j]
      /\ end = Wrap(o + D, R)
      /\ \A k \in 1 .. L : Holds(rx.ring, Wrap(o + d[k], R), pending[k])
  BY <1>5 DEF Placed, Cells
<1>7. /\ pending' \in Seq(Waiting) /\ Len(pending') = L + 1
      /\ \A k \in 1 .. L : pending'[k] = pending[k]
      /\ pending'[L + 1] = p
  <2>1. p \in Waiting
    BY DEF Waiting
  <2> QED BY <1>1, <1>3, <2>1, AppendIs
<1>8. \A k \in 1 .. L : pending[k] \in Waiting
  BY <1>3, ElementOfSeq
<1>9. pending = <<>> => L = 0
  BY <1>3, EmptySeq
<1>10. /\ ring \in [0 .. 2 * R - 1 -> Nat]
       /\ \A b \in 0 .. 2 * R - 1 : b \notin end .. end + 7 + length => ring[b] = rx.ring[b]
       /\ ring[end] = length + 4
       /\ \A j \in 1 .. length : ring[end + 3 + j] = frame[j]
  <2>1. rx.ring \in [0 .. 2 * RingSize - 1 -> Nat] /\ rx.end \in Cells
    BY <1>3, <1>4 DEF Cells
  <2> QED BY <2>1, StoredIs
<1>11. p.frame = frame /\ (p.over <=> end + 4 + length > R)
  BY Zenon
<1>12. rx'.ring = ring /\ rx'.rx_offset = o /\ rx'.end = (end + need) % R
  BY <1>1, <1>3 DEF RtlRx
<1> HIDE DEF R, L, o, end, need, length, p, ring, D
<1>13. D \in 0 .. R - 1
  BY <1>4, <1>6 DEF D
<1>14. D + need < R
  <2>1. CASE pending = <<>>
    BY <1>2, <1>6, <1>9, <2>1 DEF D
  <2>2. CASE need < (o - end) % R
    <3>1. need < (o - Wrap(o + D, R)) % R /\ R \in Nat \ {0}
      BY <1>4, <1>2, <1>6, <2>2
    <3> QED BY <1>2, <1>4, <1>13, <3>1, RoomIs
  <2> QED BY <1>1, <2>1, <2>2
<1>15. (end + need) % R = Wrap(o + (D + need), R) /\ Wrap(o + (D + need), R) \in 0 .. R - 1
  <2>1. /\ R \in Nat \ {0} /\ end + need \in 0 .. 2 * R - 1
        /\ Wrap(end + need, R) = Wrap(o + (D + need), R)
    <3>1. end = Wrap(o + D, R)
      BY <1>6
    <3> QED BY <1>2, <1>4, <1>13, <1>14, <3>1 DEF Wrap
  <2> QED BY <2>1, WrapIs
<1>16. rx' \in RtlRx
  <2>1. (end + need) % R \in Cells
    BY <1>15 DEF Cells, R
  <2> QED BY <1>1, <1>3, <1>10, <1>12, <2>1 DEF RtlRx, R, ring
<1>17. ASSUME NEW k \in 1 .. L
       PROVE  Holds(ring, Wrap(o + d[k], R), pending[k])
  <2>1. k \in 1 .. L + 1 /\ k + 1 \in 1 .. L + 1 /\ L + 1 \in 1 .. L + 1 /\ k + 1 <= L + 1
    BY <1>4
  <2>2. d[k] \in 0 .. R - 1 /\ d[k + 1] <= D /\ d[k + 1] = d[k] + RingNeeds(pending[k].frame)
    BY <1>6, <2>1 DEF D
  <2>3. d[k] \in Nat /\ D \in Nat /\ D + length + 7 < R
    BY <1>2, <1>13, <1>14, <2>2
  <2>4. Holds(rx.ring, Wrap(o + d[k], R), pending[k]) /\ pending[k] \in Waiting /\ R = RingSize
    BY <1>6, <1>8 DEF R
  <2>5. \A b \in 0 .. 2 * R - 1 :
           b \notin Wrap(o + D, R) .. Wrap(o + D, R) + 7 + length => ring[b] = rx.ring[b]
    BY <1>6, <1>10
  <2>6. d[k] + RingNeeds(pending[k].frame) <= D
    BY <2>2
  <2> QED BY <1>2, <1>3, <1>4, <1>10, <2>3, <2>4, <2>5, <2>6, HoldsStill, ZenonT(30)
<1>18. Holds(ring, Wrap(o + D, R), p)
  <2>1. p.over \/ end + 4 + length <= R
    BY <1>2, <1>4, <1>11
  <2> QED BY <1>6, <1>10, <1>11, <2>1 DEF Holds, length, R
<1>19. /\ f \in [1 .. (L + 1) + 1 -> 0 .. R - 1]
       /\ \A k \in 1 .. L + 1 : f[k] = d[k]
       /\ f[(L + 1) + 1] = D + need
  <2>1. D + need \in 0 .. R - 1
    BY <1>2, <1>13, <1>14
  <2>2. /\ ~((L + 1) + 1 <= L + 1) /\ (L + 1) + 1 \in 1 .. (L + 1) + 1
        /\ \A k \in 1 .. L + 1 : k \in 1 .. (L + 1) + 1 /\ k <= L + 1
        /\ \A k \in 1 .. (L + 1) + 1 : k <= L + 1 => k \in 1 .. L + 1
    BY <1>4
  <2> QED BY <1>6, <2>1, <2>2
<1> HIDE DEF f
<1>20. \A k \in 1 .. L + 1 : f[k + 1] = f[k] + RingNeeds(pending'[k].frame)
  <2>1. ASSUME NEW k \in 1 .. L
        PROVE  f[k + 1] = f[k] + RingNeeds(pending'[k].frame)
    <3>1. k \in 1 .. L + 1 /\ k + 1 \in 1 .. L + 1
      BY <1>4
    <3> QED BY <1>6, <1>7, <1>19, <3>1
  <2>2. f[(L + 1) + 1] = f[L + 1] + RingNeeds(pending'[L + 1].frame)
    <3>1. L + 1 \in 1 .. L + 1
      BY <1>4
    <3> QED BY <1>7, <1>11, <1>19, <3>1 DEF D, need
  <2>3. \A k \in 1 .. L + 1 : k \in 1 .. L \/ k = L + 1
    BY <1>4
  <2> QED BY <2>1, <2>2, <2>3
<1>21. \A i, j \in 1 .. (L + 1) + 1 : i <= j => f[i] <= f[j]
  <2> SUFFICES ASSUME NEW i \in 1 .. (L + 1) + 1, NEW j \in 1 .. (L + 1) + 1, i <= j
               PROVE  f[i] <= f[j]
    OBVIOUS
  <2>1. CASE j \in 1 .. L + 1
    <3>1. i \in 1 .. L + 1
      BY <1>4, <2>1
    <3> QED BY <1>6, <1>19, <2>1, <3>1
  <2>2. CASE i \in 1 .. L + 1 /\ j = (L + 1) + 1
    <3>1. L + 1 \in 1 .. L + 1 /\ i <= L + 1
      BY <1>4, <2>2
    <3>2. d[i] \in 0 .. R - 1 /\ d[i] <= D
      BY <1>6, <2>2, <3>1 DEF D
    <3> QED BY <1>2, <1>13, <1>19, <2>2, <3>2
  <2>3. CASE i = (L + 1) + 1 /\ j = (L + 1) + 1
    BY <1>2, <1>13, <1>19, <2>3
  <2> QED BY <1>4, <2>1, <2>2, <2>3
<1>22. \A k \in 1 .. L + 1 : Holds(ring, Wrap(o + f[k], R), pending'[k])
  <2>1. ASSUME NEW k \in 1 .. L
        PROVE  Holds(ring, Wrap(o + f[k], R), pending'[k])
    <3>1. k \in 1 .. L + 1
      BY <1>4
    <3> QED BY <1>7, <1>17, <1>19, <3>1
  <2>2. Holds(ring, Wrap(o + f[L + 1], R), pending'[L + 1])
    <3>1. L + 1 \in 1 .. L + 1
      BY <1>4
    <3> QED BY <1>7, <1>18, <1>19, <3>1 DEF D
  <2>3. \A k \in 1 .. L + 1 : k \in 1 .. L \/ k = L + 1
    BY <1>4
  <2> QED BY <2>1, <2>2, <2>3
<1>23. 1 \in 1 .. L + 1
  BY <1>4
<1>24. PICK g : g = f
  OBVIOUS
<1>25. Placed(g)'
  BY <1>6, <1>7, <1>12, <1>15, <1>19, <1>20, <1>21, <1>22, <1>23, <1>24 DEF Placed, Cells, R
<1>26. RtlRxSound'
  BY <1>3, <1>12, <1>16, <1>25 DEF RtlRxSound, o
<1> QED BY <1>1, <1>7, <1>26 DEF RxInOrder

\* A frame that was not stored over the end is copied as it came.
LEMMA CopyIs ==
    ASSUME NEW p \in Waiting, rx \in RtlRx, Holds(rx.ring, rx.rx_offset, p)
    PROVE  /\ rtl8139_ring_read_u8(rx.rx_offset) = Len(p.frame) + 4
           /\ ~p.over => rtl8139_ring_copy(rx.rx_offset + 4, (Len(p.frame) + 4) - 4) = p.frame
<1> DEFINE R == RingSize
           o == rx.rx_offset
           frame == p.frame
           length == Len(frame)
<1>1. R \in Nat /\ o \in 0 .. R - 1 /\ frame \in Seq(Byte) /\ length \in Nat
  BY Sizes, FrameIs DEF RtlRx, Cells, Waiting
<1>2. ASSUME NEW x \in 0 .. R - 1
      PROVE  x % R = x
  <2>1. R \in Nat \ {0} /\ x \in 0 .. 2 * R - 1 /\ x < R
    BY <1>1
  <2> HIDE DEF R
  <2> QED BY <2>1, WrapIs DEF Wrap
<1>3. rtl8139_ring_read_u8(o) = length + 4
  BY <1>1, <1>2 DEF rtl8139_ring_read_u8, Holds
<1>4. ASSUME ~p.over
      PROVE  rtl8139_ring_copy(o + 4, (length + 4) - 4) = frame
  <2>1. o + 4 + length <= R /\ \A j \in 1 .. length : rx.ring[o + 3 + j] = frame[j]
    BY <1>4 DEF Holds
  <2>2. (length + 4) - 4 = length
    BY <1>1
  <2>3. ASSUME NEW j \in 1 .. length
        PROVE  rtl8139_ring_read_u8(o + 4 + j - 1) = frame[j]
    <3>1. o + 4 + j - 1 = o + 3 + j /\ o + 3 + j \in 0 .. R - 1
      <4>1. o + 4 + length <= R /\ R \in Nat /\ o \in Nat /\ length \in Nat /\ j \in 1 .. length
        BY <1>1, <2>1
      <4> HIDE DEF o, length, R
      <4> QED BY ONLY <4>1
    <3>2. (o + 3 + j) % R = o + 3 + j /\ rx.ring[o + 3 + j] = frame[j]
      BY <1>2, <2>1, <3>1
    <3>3. rtl8139_ring_read_u8(o + 4 + j - 1) = rx.ring[(o + 4 + j - 1) % R]
      BY Zenon DEF rtl8139_ring_read_u8
    <3> QED BY <3>1, <3>2, <3>3, Zenon
  <2>4. frame = [j \in 1 .. length |-> frame[j]]
    BY <1>1
  <2>5. rtl8139_ring_copy(o + 4, length) =
           [j \in 1 .. length |-> rtl8139_ring_read_u8(o + 4 + j - 1)]
    BY DEF rtl8139_ring_copy
  <2> HIDE DEF frame, length, o
  <2>6. [j \in 1 .. length |-> rtl8139_ring_read_u8(o + 4 + j - 1)] =
           [j \in 1 .. length |-> frame[j]]
    BY <2>3
  <2> QED BY <2>2, <2>4, <2>5, <2>6
<1> QED BY <1>3, <1>4

LEMMA RtlPollKeeps ==
    ASSUME RxInOrder, rtl8139_hw_poll_frame
    PROVE  RxInOrder'
<1> DEFINE R == RingSize
           L == Len(pending)
           o == rx.rx_offset
           p == pending[1]
           need == RingNeeds(p.frame)
<1>1. /\ backend = "rtl8139" /\ backend' = backend /\ pending # <<>>
      /\ Returned(Cut(rtl8139_ring_copy(o + 4, rtl8139_ring_read_u8(o) - 4)))
      /\ rx' = [rx EXCEPT !.rx_offset = Aligned(@ + rtl8139_ring_read_u8(o) + 4) % RingSize]
  BY DEF rtl8139_hw_poll_frame, LengthFound
<1>2. /\ pending \in Seq(Waiting) /\ rx \in RtlRx /\ o % 4 = 0
  BY <1>1 DEF RxInOrder, RtlRxSound
<1>3. /\ pending' = Rest(pending) /\ pending' \in Seq(Waiting) /\ Len(pending') = L - 1
      /\ L \in Nat \ {0}
      /\ \A k \in 1 .. L - 1 : pending'[k] = pending[k + 1]
      /\ p \in Waiting /\ FirstOf(pending, NoFrame) = p
  BY <1>1, <1>2, RestIs DEF Returned, FirstOf
<1>4. /\ R \in Nat \ {0} /\ R % 4 = 0 /\ o \in 0 .. R - 1 /\ p.frame \in Frames
      /\ need \in Nat /\ need < R /\ need % 4 = 0
      /\ Aligned(o + (Len(p.frame) + 4) + 4) = o + need
  <2>1. R \in Nat /\ R % 4 = 0 /\ o \in 0 .. R - 1 /\ p.frame \in Frames
    BY <1>2, <1>3, Sizes DEF RtlRx, Cells, Waiting
  <2>2. /\ need \in Nat /\ need < R /\ need % 4 = 0
        /\ \A x \in Nat : x % 4 = 0 => Aligned(x + (Len(p.frame) + 4) + 4) = x + need
    BY <2>1, NeedsIs
  <2>3. o \in Nat /\ R # 0
    BY <2>1
  <2> QED BY <1>2, <2>1, <2>2, <2>3
<1>5. PICK d : Placed(d)
  BY <1>1 DEF RxInOrder, RtlRxSound
<1>6. /\ d \in [1 .. L + 1 -> 0 .. R - 1] /\ d[1] = 0
      /\ \A k \in 1 .. L : d[k + 1] = d[k] + RingNeeds(pending[k].frame)
      /\ \A i, j \in 1 .. L + 1 : i <= j => d[i] <= d[j]
      /\ rx.end = Wrap(o + d[L + 1], R)
      /\ \A k \in 1 .. L : Holds(rx.ring, Wrap(o + d[k], R), pending[k])
  BY <1>5 DEF Placed, Cells
<1>7. 1 \in 1 .. L /\ Wrap(o + 0, R) = o
  BY <1>3, <1>4 DEF Wrap
<1>8. /\ rtl8139_ring_read_u8(o) = Len(p.frame) + 4
      /\ ~p.over => rtl8139_ring_copy(o + 4, (Len(p.frame) + 4) - 4) = p.frame
  BY <1>2, <1>3, <1>6, <1>7, CopyIs
<1>9. ~received'.over => received'.got = received'.want
  BY <1>1, <1>3, <1>8 DEF Returned
<1>10. /\ rx'.ring = rx.ring /\ rx'.end = rx.end
       /\ rx'.rx_offset = Aligned(o + (Len(p.frame) + 4) + 4) % R
  BY <1>1, <1>2, <1>8 DEF RtlRx
<1>11. /\ rx'.rx_offset = Wrap(o + need, R) /\ rx'.rx_offset \in 0 .. R - 1
  <2>1. o + need \in 0 .. 2 * R - 1
    BY <1>4
  <2> QED BY <1>4, <1>10, <2>1, WrapIs
<1>12. rx' \in RtlRx
  BY <1>1, <1>2, <1>10, <1>11 DEF RtlRx, Cells
<1> HIDE DEF R, L, o, need, p
<1>13. rx'.rx_offset % 4 = 0
  <2>1. o \in Nat /\ need \in Nat /\ R \in Nat /\ o % 4 = 0 /\ need % 4 = 0 /\ R % 4 = 0
    BY <1>2, <1>4 DEF o
  <2>2. (o + need) % 4 = 0 /\ (o + need - R) % 4 = 0
    BY <2>1
  <2>3. rx'.rx_offset = o + need \/ rx'.rx_offset = o + need - R
    BY <1>11, <2>1 DEF Wrap
  <2> QED BY <2>2, <2>3
<1>14. ASSUME NEW k \in 1 .. L
       PROVE  /\ d[k + 1] - need \in 0 .. R - 1
              /\ Wrap(o + d[k + 1], R) = Wrap(Wrap(o + need, R) + (d[k + 1] - need), R)
  <2>1. 1 + 1 \in 1 .. L + 1 /\ k + 1 \in 1 .. L + 1 /\ 1 + 1 <= k + 1 /\ k \in 1 .. L
    BY <1>3
  <2>2. d[1 + 1] = 0 + need
    BY <1>6, <1>7 DEF need, p
  <2>3. d[1 + 1] <= d[k + 1] /\ d[k + 1] \in 0 .. R - 1
    BY <1>6, <2>1
  <2>4. \A e \in 0 .. R - 1 : need <= e =>
           /\ e - need \in 0 .. R - 1
           /\ Wrap(o + e, R) = Wrap(Wrap(o + need, R) + (e - need), R)
    BY <1>4 DEF Wrap
  <2>5. need <= d[k + 1]
    BY <1>4, <2>2, <2>3
  <2> QED BY <2>3, <2>4, <2>5
<1> DEFINE f == [k \in 1 .. (L - 1) + 1 |-> d[k + 1] - need]
<1>15. \A k \in 1 .. L : k \in 1 .. (L - 1) + 1
  BY <1>3
<1>16. /\ f \in [1 .. (L - 1) + 1 -> 0 .. R - 1]
       /\ \A k \in 1 .. L : f[k] = d[k + 1] - need
  <2>1. \A k \in 1 .. (L - 1) + 1 : k \in 1 .. L
    BY <1>3
  <2> QED BY <1>14, <1>15, <2>1
<1> HIDE DEF f
<1>17. f[1] = 0
  <2>1. d[1 + 1] = 0 + need
    BY <1>6, <1>7 DEF need, p
  <2> QED BY <1>4, <1>7, <1>16, <2>1
<1>18. \A k \in 1 .. L - 1 : f[k + 1] = f[k] + RingNeeds(pending'[k].frame)
  <2> SUFFICES ASSUME NEW k \in 1 .. L - 1
               PROVE  f[k + 1] = f[k] + RingNeeds(pending'[k].frame)
    OBVIOUS
  <2>1. k \in 1 .. L /\ k + 1 \in 1 .. L /\ k + 1 \in 1 .. L + 1 /\ (k + 1) + 1 \in 1 .. L + 1
    BY <1>3
  <2> DEFINE x == d[(k + 1) + 1]
             y == d[k + 1]
             z == RingNeeds(pending[k + 1].frame)
  <2>2. x = y + z
    BY <1>6, <2>1
  <2>3. x \in Int /\ y \in Int
    BY <1>6, <2>1
  <2>4. z \in Int
    <3>1. pending[k + 1] \in Waiting
      BY <1>2, <2>1, ElementOfSeq DEF L
    <3>2. pending[k + 1].frame \in Frames
      BY <3>1 DEF Waiting
    <3> QED BY <3>2, NeedsIs
  <2>5. f[k] = y - need /\ f[k + 1] = x - need /\ RingNeeds(pending'[k].frame) = z
    BY <1>3, <1>16, <2>1
  <2> HIDE DEF x, y, z
  <2>6. x - need = (y - need) + z
    BY <1>4, <2>2, <2>3, <2>4
  <2> QED BY <2>5, <2>6
<1>19. \A i, j \in 1 .. (L - 1) + 1 : i <= j => f[i] <= f[j]
  <2> SUFFICES ASSUME NEW i \in 1 .. (L - 1) + 1, NEW j \in 1 .. (L - 1) + 1, i <= j
               PROVE  f[i] <= f[j]
    OBVIOUS
  <2>1. /\ i \in 1 .. L /\ j \in 1 .. L
        /\ i + 1 \in 1 .. L + 1 /\ j + 1 \in 1 .. L + 1 /\ i + 1 <= j + 1
    BY <1>3
  <2>2. d[i + 1] <= d[j + 1] /\ d[i + 1] \in Int /\ d[j + 1] \in Int
    BY <1>6, <2>1
  <2>3. f[i] = d[i + 1] - need /\ f[j] = d[j + 1] - need
    BY <1>16, <2>1
  <2> QED BY <1>4, <2>2, <2>3
<1>20. rx.end = Wrap(Wrap(o + need, R) + f[(L - 1) + 1], R)
  <2>1. (L - 1) + 1 = L /\ L \in 1 .. L
    BY <1>3
  <2>2. /\ Wrap(o + d[L + 1], R) = Wrap(Wrap(o + need, R) + (d[L + 1] - need), R)
        /\ f[L] = d[L + 1] - need
    BY <1>14, <1>16, <2>1
  <2> QED BY <1>6, <2>1, <2>2
<1>21. \A k \in 1 .. L - 1 : Holds(rx.ring, Wrap(Wrap(o + need, R) + f[k], R), pending'[k])
  <2> SUFFICES ASSUME NEW k \in 1 .. L - 1
               PROVE  Holds(rx.ring, Wrap(Wrap(o + need, R) + f[k], R), pending'[k])
    OBVIOUS
  <2>1. k \in 1 .. L /\ k + 1 \in 1 .. L
    BY <1>3
  <2>2. Holds(rx.ring, Wrap(o + d[k + 1], R), pending[k + 1])
    BY <1>6, <2>1
  <2>3. Wrap(o + d[k + 1], R) = Wrap(Wrap(o + need, R) + f[k], R) /\ pending'[k] = pending[k + 1]
    BY <1>3, <1>14, <1>16, <2>1
  <2> QED BY <2>2, <2>3
<1>22. PICK g : g = f
  OBVIOUS
<1>23. Placed(g)'
  BY <1>3, <1>10, <1>11, <1>16, <1>17, <1>18, <1>19, <1>20, <1>21, <1>22 DEF Placed, Cells, R
<1>24. RtlRxSound'
  BY <1>12, <1>13, <1>23 DEF RtlRxSound
<1> QED BY <1>1, <1>3, <1>9, <1>24 DEF RxInOrder

-----------------------------------------------------------------------------
(* Sending.                                                                *)

\* What is put into a buffer is the frame with zeros up to the minimum.
LEMMA GivenIs ==
    ASSUME NEW frame \in Frames, NEW slot, tx.slot[slot].bytes \in [1 .. BufferSize -> Byte]
    PROVE  /\ Given(slot, frame) \in Slot /\ Given(slot, frame).status = "given"
           /\ Padded(frame) \in Seq(Byte)
           /\ SubSeq(Given(slot, frame).bytes, 1, Given(slot, frame).length) = Padded(frame)
<1> DEFINE l == Len(frame)
           n == PaddedLength(frame)
           old == tx.slot[slot].bytes
           bytes == Filled(old, frame)
           zeros == [b \in 1 .. n - l |-> 0]
<1>1. /\ frame \in Seq(Byte) /\ l \in Nat \ {0} /\ l <= BufferSize /\ BufferSize \in Nat
      /\ MinLength \in 1 .. BufferSize
  BY FrameIs, Sizes
<1>2. n = IF l < MinLength THEN MinLength ELSE l
  BY DEF PaddedLength
<1>3. \A b \in 1 .. l : frame[b] \in Byte
  BY <1>1, ElementOfSeq
<1>4. bytes = [b \in 1 .. BufferSize |->
                  IF b <= l THEN frame[b] ELSE IF b <= MinLength THEN 0 ELSE old[b]]
  BY DEF Filled
<1>5. 0 \in Byte
  BY DEF Byte
<1>6. bytes \in [1 .. BufferSize -> Byte]
  <2>1. \A b \in 1 .. BufferSize : b <= l => b \in 1 .. l
    BY <1>1
  <2> HIDE DEF l, old, bytes
  <2> QED BY <1>3, <1>4, <1>5, <2>1 DEF old
<1>7. Given(slot, frame) = [status |-> "given", length |-> n, bytes |-> bytes]
  BY DEF Given
<1>8. Padded(frame) = frame \o zeros
  BY DEF Padded
<1> HIDE DEF l, n, old, bytes
<1>9. n \in Nat /\ n >= l /\ n <= BufferSize /\ n >= MinLength /\ (n > l => n = MinLength)
  BY <1>1, <1>2
<1>10. Given(slot, frame) \in Slot /\ Given(slot, frame).status = "given"
       /\ Given(slot, frame).bytes = bytes /\ Given(slot, frame).length = n
  <2>1. n \in 0 .. BufferSize
    BY <1>1, <1>9
  <2> QED BY <1>6, <1>7, <2>1 DEF Slot
<1>11. bytes \in Seq(Byte) /\ Len(bytes) = BufferSize
  BY <1>1, <1>6
<1>12. /\ SubSeq(bytes, 1, n) \in Seq(Byte) /\ Len(SubSeq(bytes, 1, n)) = n
       /\ \A i \in 1 .. n : SubSeq(bytes, 1, n)[i] = bytes[i]
  BY <1>1, <1>9, <1>11, SubSeqProperties
<1>13. zeros \in Seq(Byte) /\ Len(zeros) = n - l /\ \A b \in 1 .. n - l : zeros[b] = 0
  BY <1>1, <1>5, <1>9
<1> HIDE DEF zeros
<1>14. /\ frame \o zeros \in Seq(Byte) /\ Len(frame \o zeros) = n
       /\ \A i \in 1 .. n : (frame \o zeros)[i] = IF i <= l THEN frame[i] ELSE zeros[i - l]
  BY <1>1, <1>9, <1>13, ConcatProperties DEF l
<1>15. \A i \in 1 .. n : SubSeq(bytes, 1, n)[i] = (frame \o zeros)[i]
  <2> SUFFICES ASSUME NEW i \in 1 .. n
               PROVE  bytes[i] = (frame \o zeros)[i]
    BY <1>12
  <2>1. CASE i <= l
    BY <1>1, <1>4, <1>9, <1>14, <2>1
  <2>2. CASE ~(i <= l)
    <3>1. i - l \in 1 .. n - l /\ i <= MinLength /\ i \in 1 .. BufferSize
      BY <1>1, <1>9, <2>2
    <3> QED BY <1>4, <1>13, <1>14, <2>2, <3>1
  <2> QED BY <2>1, <2>2
<1>16. SubSeq(bytes, 1, n) = frame \o zeros
  BY <1>9, <1>12, <1>14, <1>15, SeqEqual
<1> QED BY <1>8, <1>10, <1>14, <1>16

\* One step on, after m steps or before them.
LEMMA WrapNext ==
    ASSUME NEW n \in Nat \ {0, 1}, NEW c \in 0 .. n - 1, NEW m \in Nat, m < n
    PROVE  Wrap(Wrap(Wrap(c + m, n) + 1, n) + 0, n) = Wrap(c + (m + 1), n)
<1>1. CASE c + m < n
  <2>1. Wrap(c + m, n) = c + m
    BY <1>1 DEF Wrap
  <2> QED BY <1>1, <2>1 DEF Wrap
<1>2. CASE ~(c + m < n)
  <2>1. Wrap(c + m, n) = c + m - n /\ c + m - n + 1 < n
    BY <1>2 DEF Wrap
  <2> QED BY <1>2, <2>1 DEF Wrap
<1> QED BY <1>1, <1>2

LEMMA WrapTurn ==
    ASSUME NEW n \in Nat \ {0, 1}, NEW c \in 0 .. n - 1
    PROVE  /\ Wrap(Wrap(c + 1, n) + (n - 1), n) = c
           /\ \A k \in Nat : k + 1 < n =>
                 /\ Wrap(Wrap(c + 1, n) + k, n) = Wrap(c + (k + 1), n)
                 /\ Wrap(c + (k + 1), n) \in 0 .. n - 1 /\ Wrap(c + (k + 1), n) # c
<1>1. CASE c + 1 < n
  <2>1. Wrap(c + 1, n) = c + 1
    BY <1>1 DEF Wrap
  <2> QED BY <1>1, <2>1 DEF Wrap
<1>2. CASE c = n - 1
  <2>1. Wrap(c + 1, n) = 0
    BY <1>2 DEF Wrap
  <2> QED BY <1>2, <2>1 DEF Wrap
<1> QED BY <1>1, <1>2


\* The next buffer is behind those the card has been given, if it was not.
LEMMA NextIsFree ==
    ASSUME TxTyped, BuffersOrdered, Pointed = 0, tx.slot[tx.next].status # "given"
    PROVE  Len(handed) < TxCount /\ tx.next = Wrap(tx.card + Len(handed), TxCount)
<1> DEFINE N == TxCount
           m == Len(handed)
<1>1. /\ N \in Nat \ {0, 1} /\ tx.next \in 0 .. N - 1 /\ tx.card \in 0 .. N - 1
      /\ m \in Nat /\ m <= N
  BY Sizes DEF TxTyped, BuffersOrdered, TxRecord, TxIndex
<1>2. Wrap(tx.next + 0, N) = Wrap(tx.card + m, N)
  BY DEF BuffersOrdered
<1>3. tx.slot[Wrap(tx.card + 0, N)].status = "given" <=> 0 < m
  BY <1>1 DEF BuffersOrdered, TxIndex
<1> HIDE DEF N, m
<1>4. m # N
  <2>1. m = N => /\ 0 < m /\ Wrap(tx.card + 0, N) = Wrap(tx.card + m, N)
                 /\ Wrap(tx.next + 0, N) = tx.next
    BY <1>1 DEF Wrap
  <2> QED BY <1>2, <1>3, <2>1
<1>5. Wrap(tx.next + 0, N) = tx.next /\ m < N
  BY <1>1, <1>4 DEF Wrap
<1> QED BY <1>2, <1>5 DEF N, m

\* A frame was put into the next buffer, which was free.
LEMMA GiveKeeps ==
    ASSUME TxTyped, BuffersOrdered, Pointed = 0, tx.slot[tx.next].status # "given",
           NEW frame \in Frames, backend \in {"e1000", "rtl8139"}, backend' = backend,
           sent' = sent, handed' = Append(handed, Padded(frame)),
           tx'.slot = [tx.slot EXCEPT ![tx.next] = Given(tx.next, frame)],
           tx'.card = tx.card,
           backend = "e1000" => tx'.next = (tx.next + 1) % TxCount,
           backend = "rtl8139" => tx'.next = tx.next /\ Pointed' = 1
    PROVE  BuffersOrdered'
<1> DEFINE N == TxCount
           m == Len(handed)
           G == Given(tx.next, frame)
<1>1. /\ N \in Nat \ {0, 1} /\ tx.next \in 0 .. N - 1 /\ tx.card \in 0 .. N - 1
      /\ m \in Nat /\ N' = N
  BY Sizes DEF TxTyped, TxRecord, TxIndex, TxCount
<1>2. /\ tx.slot \in [0 .. N - 1 -> Slot] /\ handed \in Seq(Seq(Byte))
  BY DEF TxTyped, TxRecord, TxIndex
<1>3. m < N /\ tx.next = Wrap(tx.card + m, N)
  BY NextIsFree
<1>4. /\ G \in Slot /\ G.status = "given" /\ Padded(frame) \in Seq(Byte)
      /\ SubSeq(G.bytes, 1, G.length) = Padded(frame)
  <2>1. tx.slot[tx.next].bytes \in [1 .. BufferSize -> Byte]
    BY <1>1, <1>2 DEF Slot
  <2> QED BY <2>1, GivenIs
<1>5. /\ handed' \in Seq(Seq(Byte)) /\ Len(handed') = m + 1 /\ handed'[m + 1] = Padded(frame)
      /\ \A k \in 1 .. m : handed'[k] = handed[k]
  BY <1>2, <1>4, AppendIs
<1>6. /\ \A k \in 0 .. N - 1 : tx.slot[Wrap(tx.card + k, N)].status = "given" <=> k < m
      /\ \A k \in 1 .. m : LET s == tx.slot[Wrap(tx.card + k - 1, N)]
                           IN  SubSeq(s.bytes, 1, s.length) = handed[k]
      /\ sent.got = sent.want
  BY DEF BuffersOrdered, TxIndex
<1>7. /\ tx'.slot[tx.next] = G
      /\ \A i \in 0 .. N - 1 : i # tx.next => tx'.slot[i] = tx.slot[i]
  BY <1>1, <1>2
<1> HIDE DEF G
<1>8. Wrap(tx'.next + Pointed', N) = Wrap(tx.card + (m + 1), N)
  <2>1. CASE backend = "e1000"
    <3>1. Pointed' = 0 /\ tx'.next = (tx.next + 1) % N
      BY <2>1 DEF Pointed
    <3>2. (tx.next + 1) % N = Wrap(tx.next + 1, N)
      BY <1>1, WrapSum
    <3>3. tx'.next = Wrap(Wrap(tx.card + m, N) + 1, N)
      BY <1>3, <3>1, <3>2
    <3> HIDE DEF N, m
    <3>4. Wrap(Wrap(Wrap(tx.card + m, N) + 1, N) + 0, N) = Wrap(tx.card + (m + 1), N)
      BY <1>1, <1>3, WrapNext
    <3> QED BY <3>1, <3>3, <3>4
  <2>2. CASE backend = "rtl8139"
    <3>1. Pointed' = 1 /\ tx'.next = tx.next
      BY <2>2
    <3> HIDE DEF N, m
    <3> QED BY <1>1, <1>3, <3>1, SMTT(30) DEF Wrap
  <2> QED BY <2>1, <2>2
<1> HIDE DEF N, m
<1>9. ASSUME NEW k \in 0 .. N - 1
      PROVE  tx'.slot[Wrap(tx.card + k, N)].status = "given" <=> k < m + 1
  <2>1. /\ Wrap(tx.card + k, N) \in 0 .. N - 1 /\ (Wrap(tx.card + k, N) = tx.next <=> k = m)
    BY <1>1, <1>3, SMTT(30) DEF Wrap
  <2>2. CASE k = m
    BY <1>1, <1>4, <1>7, <2>1, <2>2
  <2>3. CASE k # m
    <3>1. k < m <=> k < m + 1
      BY <1>1, <2>3
    <3> QED BY <1>6, <1>7, <2>1, <2>3, <3>1
  <2> QED BY <2>2, <2>3
<1>10. ASSUME NEW k \in 1 .. m + 1
       PROVE  LET s == tx'.slot[Wrap(tx.card + k - 1, N)]
              IN  SubSeq(s.bytes, 1, s.length) = handed'[k]
  <2>1. /\ Wrap(tx.card + k - 1, N) \in 0 .. N - 1
        /\ (Wrap(tx.card + k - 1, N) = tx.next <=> k = m + 1)
    BY <1>1, <1>3, SMTT(30) DEF Wrap
  <2>2. CASE k = m + 1
    BY <1>4, <1>5, <1>7, <2>1, <2>2
  <2>3. CASE k # m + 1
    <3>1. k \in 1 .. m
      BY <1>1, <2>3
    <3> QED BY <1>5, <1>6, <1>7, <2>1, <2>3, <3>1
  <2> QED BY <2>2, <2>3
<1>11. TxCount' = N /\ m + 1 <= N
  BY <1>1, <1>3 DEF N
<1>12. Len(handed') <= TxCount'
  BY <1>5, <1>11
<1>13. Wrap(tx'.next + Pointed', TxCount') = Wrap(tx'.card + Len(handed'), TxCount')
  BY <1>5, <1>8, <1>11
<1>14. /\ \A k \in 0 .. TxCount' - 1 :
             tx'.slot[Wrap(tx'.card + k, TxCount')].status = "given" <=> k < Len(handed')
       /\ \A k \in 1 .. Len(handed') : LET s == tx'.slot[Wrap(tx'.card + k - 1, TxCount')]
                                       IN  SubSeq(s.bytes, 1, s.length) = handed'[k]
  BY <1>5, <1>9, <1>10, <1>11
<1> QED BY <1>6, <1>12, <1>13, <1>14 DEF BuffersOrdered, TxIndex

\* The types of what a call that hands its frame over leaves.
LEMMA HandTyped ==
    ASSUME TxTyped, NEW c \in Senders, calls[c].at = "chosen", HandsOver(c),
           backend' = backend, reused' \in BOOLEAN,
           tx'.slot = [tx.slot EXCEPT ![calls[c].slot] = Given(calls[c].slot, calls[c].frame)],
           tx'.next \in TxIndex, tx'.card = tx.card,
           tx' \in [slot : {tx'.slot}, next : {tx'.next}, card : {tx'.card}]
    PROVE  TxTyped'
<1> DEFINE slot == calls[c].slot
           frame == calls[c].frame
<1>1. /\ tx \in TxRecord /\ TxIndex' = TxIndex /\ handed \in Seq(Seq(Byte))
      /\ calls \in [Senders -> Call] /\ slot \in TxIndex /\ frame \in Frames
      /\ tx.slot \in [TxIndex -> Slot] /\ tx.card \in TxIndex
  BY DEF TxTyped, TxIndex, TxCount, Call, TxRecord
<1>2. Given(slot, frame) \in Slot /\ Padded(frame) \in Seq(Byte)
  BY <1>1, GivenIs DEF Slot
<1>3. tx' \in TxRecord
  BY <1>1, <1>2 DEF TxRecord
<1>4. /\ handed' = Append(handed, Padded(frame)) /\ handed' \in Seq(Seq(Byte)) /\ Len(handed') \in Nat
  <2>1. handed' = Append(handed, Padded(frame))
    BY DEF HandsOver
  <2> QED BY <1>1, <1>2, <2>1, AppendIs
<1>5. calls' = [calls EXCEPT ![c].at = "waits", ![c].left = Len(handed')]
  BY DEF HandsOver
<1>6. calls' \in [Senders -> Call]
  <2> DEFINE n == Len(handed')
             call == [calls[c] EXCEPT !.at = "waits", !.left = n]
  <2>1. n \in Nat /\ calls[c] \in Call /\ calls' = [calls EXCEPT ![c] = call]
    BY <1>1, <1>4, <1>5
  <2> HIDE DEF n
  <2>2. call \in Call
    BY <2>1 DEF Call
  <2> HIDE DEF call
  <2> QED BY <1>1, <2>1, <2>2
<1>7. \A d \in Senders : calls'[d].at = "chosen" => calls'[d].frame \in Frames
  BY <1>1, <1>5 DEF TxTyped, Call
<1> QED BY <1>1, <1>3, <1>4, <1>6, <1>7 DEF TxTyped, TxRecord, Call

\* A call handed over its frame in the next buffer, which was free.
LEMMA HandKeeps ==
    ASSUME IInv, ~reused, NEW c \in Senders, calls[c].at = "chosen", HandsOver(c),
           tx.slot[calls[c].slot].status # "given",
           tx'.slot = [tx.slot EXCEPT ![calls[c].slot] = Given(calls[c].slot, calls[c].frame)],
           tx'.card = tx.card,
           backend = "e1000" => tx'.next = SlotAfter(calls[c].slot),
           backend = "rtl8139" => tx'.next = tx.next
    PROVE  BuffersOrdered' /\ CallsOrdered'
<1> DEFINE frame == calls[c].frame
           m == Len(handed)
<1>1. /\ handed' = Append(handed, Padded(frame)) /\ sent' = sent /\ answer' = answer
      /\ calls' = [calls EXCEPT ![c].at = "waits", ![c].left = Len(handed')]
      /\ backend' = backend
  BY DEF HandsOver
<1>2. /\ TxTyped /\ BuffersOrdered /\ CallsOrdered /\ backend \in {"e1000", "rtl8139"}
      /\ calls \in [Senders -> Call] /\ frame \in Frames /\ handed \in Seq(Seq(Byte))
      /\ TxCount' = TxCount
  BY <1>1 DEF IInv, TxSound, TxTyped, TxCount
<1>3. c \in Undecided
  BY DEF Undecided
<1>4. calls[c].slot = tx.next /\ \A d \in Undecided : d = c
  BY <1>2, <1>3 DEF CallsOrdered
<1>5. Pointed = 0
  <2> SUFFICES ASSUME backend = "rtl8139", NEW d \in Senders, calls[d].at = "waits"
               PROVE  FALSE
    BY DEF Pointed
  <2>1. d \in Undecided
    BY DEF Undecided
  <2> QED BY <1>4, <2>1
<1>6. /\ calls'[c].at = "waits" /\ calls'[c].left = Len(handed') /\ calls'[c].slot = calls[c].slot
      /\ \A d \in Senders : d # c => calls'[d] = calls[d]
  BY <1>1, <1>2 DEF Call
<1>7. backend = "rtl8139" => Pointed' = 1
  BY <1>1, <1>6 DEF Pointed
<1>8. BuffersOrdered'
  <2> HIDE DEF frame
  <2>1. /\ tx'.slot = [tx.slot EXCEPT ![tx.next] = Given(tx.next, frame)]
        /\ backend = "e1000" => tx'.next = (tx.next + 1) % TxCount
        /\ tx.slot[tx.next].status # "given"
    BY <1>4 DEF SlotAfter, frame
  <2> QED BY <1>1, <1>2, <1>5, <1>7, <2>1, GiveKeeps
<1>9. /\ m < TxCount /\ tx.next = Wrap(tx.card + m, TxCount)
  BY <1>2, <1>4, <1>5, NextIsFree
<1>10. Len(handed') = m + 1 /\ m \in Nat
  <2>1. Padded(frame) \in Seq(Byte)
    BY <1>2, GivenIs DEF TxTyped, TxRecord, Slot, Call
  <2> QED BY <1>1, <1>2, <2>1, AppendIs
<1> HIDE DEF m
<1>11. ASSUME NEW d \in Undecided'
       PROVE  d = c /\ backend = "rtl8139"
  <2>1. d \in Senders /\ (calls'[d].at = "chosen" \/ (calls'[d].at = "waits" /\ backend = "rtl8139"))
    BY <1>1 DEF Undecided
  <2>2. d # c => d \in Undecided
    BY <1>6, <2>1 DEF Undecided
  <2>3. d = c
    BY <1>4, <2>2
  <2> QED BY <1>6, <2>1, <2>3
<1>12. \A d \in Undecided' : calls'[d].slot = tx'.next /\ \A e \in Undecided' : e = d
  BY <1>4, <1>6, <1>11
<1>13. ASSUME NEW d \in Senders, calls'[d].left > 0
       PROVE  /\ calls'[d].left <= Len(handed')
              /\ calls'[d].slot = Wrap(tx.card + calls'[d].left - 1, TxCount)
  <2>1. CASE d = c
    <3>1. tx.card + (m + 1) - 1 = tx.card + m /\ m + 1 <= m + 1
      BY <1>2, <1>10, Sizes DEF TxTyped, TxRecord, TxIndex
    <3> QED BY <1>4, <1>6, <1>9, <1>10, <2>1, <3>1
  <2>2. CASE d # c
    <3>1. /\ calls'[d] = calls[d] /\ calls[d].left <= m /\ calls[d].left \in Nat
          /\ calls[d].slot = Wrap(tx.card + calls[d].left - 1, TxCount)
      BY <1>2, <1>6, <1>13, <2>2 DEF CallsOrdered, Call, m
    <3>2. calls[d].left <= m + 1
      BY <1>10, <3>1
    <3> QED BY <1>10, <3>1, <3>2
  <2> QED BY <2>1, <2>2
<1>14. answer'.said => answer'.left = 0
  BY <1>1, <1>2 DEF CallsOrdered
<1>15. CallsOrdered'
  BY <1>2, <1>12, <1>13, <1>14 DEF CallsOrdered
<1> QED BY <1>8, <1>15

LEMMA E1000SendKeeps ==
    ASSUME IInv, NEW c \in Senders, e1000_hw_send_frame(c)
    PROVE  TxSound'
<1> DEFINE slot == calls[c].slot
<1>1. /\ backend = "e1000" /\ backend' = backend /\ HandsOver(c) /\ calls[c].at = "chosen"
      /\ tx.slot[slot].status = "done" /\ reused' = reused
      /\ tx' = [tx EXCEPT !.slot[slot] = Given(slot, calls[c].frame), !.next = SlotAfter(slot)]
  BY DEF e1000_hw_send_frame, E1000Free, HandsOver
<1>2. tx \in TxRecord /\ reused \in BOOLEAN /\ TxTyped /\ slot \in TxIndex
  BY DEF IInv, TxSound, TxTyped, Call
<1>3. /\ tx'.slot = [tx.slot EXCEPT ![slot] = Given(slot, calls[c].frame)] /\ tx'.card = tx.card
      /\ tx'.next = SlotAfter(slot)
      /\ tx' \in [slot : {tx'.slot}, next : {tx'.next}, card : {tx'.card}]
  BY <1>1, <1>2 DEF TxRecord
<1>4. SlotAfter(slot) \in TxIndex
  BY <1>2, Sizes, WrapSum DEF SlotAfter, TxIndex
<1>5. TxTyped'
  BY <1>1, <1>2, <1>3, <1>4, HandTyped
<1>6. ~reused => BuffersOrdered' /\ CallsOrdered'
  BY <1>1, <1>3, HandKeeps
<1> QED BY <1>1, <1>5, <1>6 DEF TxSound

LEMMA RtlSendKeeps ==
    ASSUME IInv, NEW c \in Senders, rtl8139_hw_send_frame(c)
    PROVE  TxSound'
<1> DEFINE slot == calls[c].slot
<1>1. /\ backend = "rtl8139" /\ backend' = backend /\ HandsOver(c) /\ calls[c].at = "chosen"
      /\ reused' = (reused \/ tx.slot[slot].status = "given")
      /\ tx' = [tx EXCEPT !.slot[slot] = Given(slot, calls[c].frame)]
  BY DEF rtl8139_hw_send_frame, HandsOver
<1>2. tx \in TxRecord /\ reused \in BOOLEAN /\ TxTyped /\ slot \in TxIndex
  BY DEF IInv, TxSound, TxTyped, Call
<1>3. /\ tx'.slot = [tx.slot EXCEPT ![slot] = Given(slot, calls[c].frame)] /\ tx'.card = tx.card
      /\ tx'.next = tx.next /\ tx.next \in TxIndex
      /\ tx' \in [slot : {tx'.slot}, next : {tx'.next}, card : {tx'.card}]
  BY <1>1, <1>2 DEF TxRecord
<1>4. reused' \in BOOLEAN /\ (~reused' => ~reused /\ tx.slot[slot].status # "given")
  BY <1>1, Zenon
<1>5. TxTyped'
  BY <1>1, <1>2, <1>3, <1>4, HandTyped
<1>6. ~reused' => BuffersOrdered' /\ CallsOrdered'
  BY <1>1, <1>3, <1>4, HandKeeps
<1> QED BY <1>5, <1>6 DEF TxSound

\* A call begins: alone, or a buffer is used twice.
LEMMA ChooseKeeps ==
    ASSUME IInv, NEW c \in Senders, NEW frame \in Frames, ChoosesBuffer(c, frame)
    PROVE  TxSound'
<1> DEFINE call == [at |-> "chosen", slot |-> tx.next, frame |-> frame, left |-> 0]
<1>1. /\ calls[c].at = "none" /\ calls' = [calls EXCEPT ![c] = call]
      /\ reused' = (reused \/ Undecided # {})
      /\ tx' = tx /\ handed' = handed /\ sent' = sent /\ answer' = answer /\ backend' = backend
  BY DEF ChoosesBuffer
<1>2. /\ TxTyped /\ tx \in TxRecord /\ calls \in [Senders -> Call] /\ TxIndex' = TxIndex
      /\ TxCount' = TxCount
  BY <1>1 DEF IInv, TxSound, TxTyped, TxIndex, TxCount
<1>3. call \in Call /\ call.at = "chosen" /\ call.left = 0 /\ call.slot = tx.next /\ call.frame = frame
  BY <1>2 DEF Call, TxRecord
<1> HIDE DEF call
<1>4. /\ calls'[c] = call /\ calls' \in [Senders -> Call]
      /\ \A d \in Senders : d # c => calls'[d] = calls[d]
  BY <1>1, <1>2, <1>3
<1>5. reused' \in BOOLEAN /\ (~reused' => ~reused /\ Undecided = {})
  BY <1>1, Zenon
<1>6. TxTyped'
  <2>1. \A d \in Senders : calls'[d].at = "chosen" => calls'[d].frame \in Frames
    BY <1>2, <1>3, <1>4 DEF TxTyped
  <2> QED BY <1>1, <1>2, <1>4, <1>5, <2>1 DEF TxTyped, TxRecord, Call
<1>7. ASSUME ~reused'
      PROVE  BuffersOrdered' /\ CallsOrdered'
  <2>1. BuffersOrdered /\ CallsOrdered /\ Undecided = {}
    BY <1>5, <1>7 DEF IInv, TxSound
  <2>2. ASSUME NEW d \in Undecided'
        PROVE  d = c
    <3>1. d \in Senders /\ (calls'[d].at = "chosen" \/ (calls'[d].at = "waits" /\ backend = "rtl8139"))
      BY <1>1 DEF Undecided
    <3>2. d # c => d \in Undecided
      BY <1>4, <3>1 DEF Undecided
    <3> QED BY <2>1, <3>2
  <2>3. Pointed' = Pointed
    <3>1. \A d \in Senders : calls'[d].at = "waits" <=> calls[d].at = "waits"
      BY <1>1, <1>3, <1>4
    <3> QED BY <1>1, <3>1 DEF Pointed
  <2>4. BuffersOrdered'
    BY <1>1, <1>2, <2>1, <2>3 DEF BuffersOrdered
  <2>5. \A d \in Undecided' : calls'[d].slot = tx'.next /\ \A e \in Undecided' : e = d
    BY <1>1, <1>3, <1>4, <2>2
  <2>6. ASSUME NEW d \in Senders, calls'[d].left > 0
        PROVE  /\ calls'[d].left <= Len(handed')
               /\ calls'[d].slot = Wrap(tx'.card + calls'[d].left - 1, TxCount')
    <3>1. d # c
      BY <1>3, <1>4, <2>6
    <3>2. calls'[d] = calls[d]
      BY <1>4, <3>1
    <3> QED BY <1>1, <1>2, <2>1, <2>6, <3>2 DEF CallsOrdered
  <2>7. answer'.said => answer'.left = 0
    BY <1>1, <2>1 DEF CallsOrdered
  <2> QED BY <2>4, <2>5, <2>6, <2>7 DEF CallsOrdered
<1> QED BY <1>6, <1>7 DEF TxSound

\* What remains when a call ends, apart from the place of an RTL8139.
LEMMA CallEnds ==
    ASSUME TxTyped, NEW c \in Senders, calls' = [calls EXCEPT ![c] = NoCall], backend' = backend
    PROVE  /\ calls' \in [Senders -> Call] /\ calls'[c] = NoCall
           /\ \A d \in Senders : d # c => calls'[d] = calls[d]
           /\ \A d \in Senders : calls'[d].at = "chosen" => calls'[d].frame \in Frames
           /\ \A d \in Undecided' : d # c /\ d \in Undecided
           /\ TxIndex' = TxIndex /\ TxCount' = TxCount
<1>1. /\ calls \in [Senders -> Call] /\ TxIndex' = TxIndex /\ TxCount' = TxCount
  BY DEF TxTyped, TxIndex, TxCount
<1>2. NoCall \in Call /\ NoCall.at = "none"
  BY Sizes DEF NoCall, Call, TxIndex
<1>3. /\ calls' \in [Senders -> Call] /\ calls'[c] = NoCall
      /\ \A d \in Senders : d # c => calls'[d] = calls[d]
  BY <1>1, <1>2
<1>4. \A d \in Senders : calls'[d].at = "chosen" => calls'[d].frame \in Frames
  BY <1>2, <1>3 DEF TxTyped
<1>5. ASSUME NEW d \in Undecided'
      PROVE  d # c /\ d \in Undecided
  <2>1. d \in Senders /\ (calls'[d].at = "chosen" \/ (calls'[d].at = "waits" /\ backend = "rtl8139"))
    BY DEF Undecided
  <2>2. d # c
    BY <1>2, <1>3, <2>1
  <2> QED BY <1>3, <2>1, <2>2 DEF Undecided
<1> QED BY <1>1, <1>3, <1>4, <1>5

\* Those that still wait are where they were.
LEMMA OthersWait ==
    ASSUME TxTyped, CallsOrdered, NEW c \in Senders, calls' = [calls EXCEPT ![c] = NoCall],
           backend' = backend, handed' = handed, tx'.card = tx.card
    PROVE  \A d \in Senders : calls'[d].left > 0 =>
              /\ calls'[d].left <= Len(handed')
              /\ calls'[d].slot = Wrap(tx'.card + calls'[d].left - 1, TxCount')
<1> SUFFICES ASSUME NEW d \in Senders, calls'[d].left > 0
             PROVE  /\ calls'[d].left <= Len(handed')
                    /\ calls'[d].slot = Wrap(tx'.card + calls'[d].left - 1, TxCount')
  OBVIOUS
<1>1. /\ calls'[c] = NoCall /\ (d # c => calls'[d] = calls[d]) /\ TxCount' = TxCount
  BY CallEnds
<1>2. d # c
  BY <1>1 DEF NoCall
<1> QED BY <1>1, <1>2 DEF CallsOrdered

LEMMA RefusedKeeps ==
    ASSUME IInv, NEW c \in Senders, E1000SendRefused(c)
    PROVE  TxSound'
<1>1. /\ backend = "e1000" /\ calls' = [calls EXCEPT ![c] = NoCall]
      /\ answer' = [said |-> FALSE, left |-> 0]
      /\ tx' = tx /\ handed' = handed /\ sent' = sent /\ reused' = reused /\ backend' = backend
  BY DEF E1000SendRefused
<1>2. TxTyped
  BY DEF IInv, TxSound
<1>3. /\ calls' \in [Senders -> Call]
      /\ \A d \in Senders : calls'[d].at = "chosen" => calls'[d].frame \in Frames
      /\ \A d \in Undecided' : d \in Undecided /\ calls'[d] = calls[d]
      /\ TxIndex' = TxIndex /\ TxCount' = TxCount
  <2>1. \A d \in Undecided : d \in Senders
    BY DEF Undecided
  <2> QED BY <1>1, <1>2, <2>1, CallEnds
<1>4. TxTyped'
  BY <1>1, <1>2, <1>3 DEF TxTyped, TxRecord, Call
<1>5. ASSUME ~reused
      PROVE  BuffersOrdered' /\ CallsOrdered'
  <2>1. BuffersOrdered /\ CallsOrdered
    BY <1>5 DEF IInv, TxSound
  <2>2. Pointed = 0 /\ Pointed' = 0
    BY <1>1 DEF Pointed
  <2>3. BuffersOrdered'
    BY <1>1, <1>3, <2>1, <2>2 DEF BuffersOrdered
  <2>4. \A d \in Undecided' : calls'[d].slot = tx'.next /\ \A e \in Undecided' : e = d
    BY <1>1, <1>3, <2>1 DEF CallsOrdered
  <2>5. \A d \in Senders : calls'[d].left > 0 =>
           /\ calls'[d].left <= Len(handed')
           /\ calls'[d].slot = Wrap(tx'.card + calls'[d].left - 1, TxCount')
    BY <1>1, <1>2, <2>1, OthersWait
  <2>6. ~answer'.said
    BY <1>1
  <2> QED BY <2>3, <2>4, <2>5, <2>6 DEF CallsOrdered
<1> QED BY <1>1, <1>4, <1>5 DEF TxSound

LEMMA ReturnKeeps ==
    ASSUME IInv, NEW c \in Senders, SendReturns(c)
    PROVE  TxSound'
<1> DEFINE N == TxCount
           m == Len(handed)
           slot == calls[c].slot
           left == calls[c].left
<1>1. /\ calls[c].at = "waits" /\ calls' = [calls EXCEPT ![c] = NoCall]
      /\ answer' = [said |-> tx.slot[slot].status = "done", left |-> left]
      /\ tx' = IF backend = "e1000" THEN tx ELSE [tx EXCEPT !.next = SlotAfter(slot)]
      /\ handed' = handed /\ sent' = sent /\ reused' = reused /\ backend' = backend
  BY DEF SendReturns
<1>2. /\ TxTyped /\ tx \in TxRecord /\ handed \in Seq(Seq(Byte)) /\ reused \in BOOLEAN
      /\ backend \in {"e1000", "rtl8139"} /\ (~reused => BuffersOrdered /\ CallsOrdered)
      /\ slot \in TxIndex /\ left \in Nat
  BY DEF IInv, TxSound, TxTyped, Call
<1>3. /\ calls' \in [Senders -> Call] /\ calls'[c] = NoCall
      /\ \A d \in Senders : d # c => calls'[d] = calls[d]
      /\ \A d \in Senders : calls'[d].at = "chosen" => calls'[d].frame \in Frames
      /\ \A d \in Undecided' : d # c /\ d \in Undecided
      /\ TxIndex' = TxIndex /\ TxCount' = N
  BY <1>1, <1>2, CallEnds
<1>4. /\ N \in Nat \ {0, 1} /\ tx.next \in 0 .. N - 1 /\ tx.card \in 0 .. N - 1 /\ m \in Nat
      /\ slot \in 0 .. N - 1
  BY <1>2, Sizes DEF TxRecord, TxIndex
<1>5. SlotAfter(slot) = Wrap(slot + 1, N) /\ Wrap(slot + 1, N) \in 0 .. N - 1
  BY <1>4, WrapSum DEF SlotAfter
<1>6. /\ tx'.slot = tx.slot /\ tx'.card = tx.card
      /\ tx'.next = IF backend = "e1000" THEN tx.next ELSE Wrap(slot + 1, N)
  BY <1>1, <1>2, <1>5 DEF TxRecord
<1>7. tx' \in TxRecord
  BY <1>1, <1>2, <1>4, <1>5, <1>6 DEF TxRecord, TxIndex
<1>8. TxTyped'
  BY <1>1, <1>2, <1>3, <1>7 DEF TxTyped, TxRecord, Call
<1>9. ASSUME ~reused
      PROVE  BuffersOrdered' /\ CallsOrdered'
  <2>1. BuffersOrdered /\ CallsOrdered
    BY <1>2, <1>9
  <2>2. ASSUME backend = "e1000"
        PROVE  BuffersOrdered' /\ \A d \in Undecided' : calls'[d].slot = tx'.next /\ \A e \in Undecided' : e = d
    <3>1. Pointed = 0 /\ Pointed' = 0 /\ tx' = tx
      BY <1>1, <2>2 DEF Pointed
    <3>2. BuffersOrdered'
      BY <1>1, <1>3, <2>1, <3>1 DEF BuffersOrdered
    <3>3. \A d \in Undecided' : d \in Undecided /\ calls'[d] = calls[d]
      <4>1. \A d \in Undecided : d \in Senders
        BY DEF Undecided
      <4> QED BY <1>3, <4>1
    <3>4. \A d \in Undecided' : calls'[d].slot = tx'.next /\ \A e \in Undecided' : e = d
      BY <2>1, <3>1, <3>3 DEF CallsOrdered
    <3> QED BY <3>2, <3>4
  <2>3. ASSUME backend = "rtl8139"
        PROVE  BuffersOrdered' /\ \A d \in Undecided' : calls'[d].slot = tx'.next /\ \A e \in Undecided' : e = d
    <3>1. c \in Undecided
      BY <1>1, <2>3 DEF Undecided
    <3>2. slot = tx.next /\ \A d \in Undecided : d = c
      BY <2>1, <3>1 DEF CallsOrdered
    <3>3. Undecided' = {}
      BY <1>3, <3>2
    <3>4. Pointed' = 0
      <4> SUFFICES ASSUME NEW d \in Senders, calls'[d].at = "waits"
                   PROVE  FALSE
        BY DEF Pointed
      <4>1. d \in Undecided'
        BY <1>1, <2>3 DEF Undecided
      <4> QED BY <3>3, <4>1
    <3>5. Pointed = 1
      BY <1>1, <2>3 DEF Pointed
    <3>6. tx'.next = Wrap(tx.next + 1, N) /\ Wrap(Wrap(tx.next + 1, N) + 0, N) = Wrap(tx.next + 1, N)
      <4>1. Wrap(Wrap(tx.next + 1, N) + 0, N) = Wrap(tx.next + 1, N)
        BY <1>4 DEF Wrap
      <4> QED BY <1>6, <2>3, <3>2, <4>1
    <3>7. BuffersOrdered'
      BY <1>1, <1>3, <1>6, <2>1, <3>4, <3>5, <3>6 DEF BuffersOrdered
    <3> QED BY <3>3, <3>7
  <2>4. \A d \in Senders : calls'[d].left > 0 =>
           /\ calls'[d].left <= Len(handed')
           /\ calls'[d].slot = Wrap(tx'.card + calls'[d].left - 1, TxCount')
    BY <1>1, <1>2, <1>6, <2>1, OthersWait
  <2>5. answer'.said => answer'.left = 0
    <3> SUFFICES ASSUME left > 0
                 PROVE  tx.slot[slot].status # "done"
      <4>1. answer'.left = left /\ (answer'.said => tx.slot[slot].status = "done")
        BY <1>1, Zenon
      <4>2. left = 0 \/ left > 0
        BY <1>2
      <4> QED BY <4>1, <4>2
    <3>1. left <= m /\ slot = Wrap(tx.card + left - 1, N) /\ m <= N
      BY <2>1 DEF CallsOrdered, BuffersOrdered
    <3> HIDE DEF left, m, N, slot
    <3>2. left - 1 \in 0 .. N - 1 /\ left - 1 < m /\ tx.card + left - 1 = tx.card + (left - 1)
      BY <1>2, <1>4, <3>1
    <3>3. tx.slot[Wrap(tx.card + (left - 1), N)].status = "given"
      BY <2>1, <3>2 DEF BuffersOrdered, TxIndex, m, N
    <3> QED BY <3>1, <3>2, <3>3
  <2>6. BuffersOrdered' /\ \A d \in Undecided' : calls'[d].slot = tx'.next /\ \A e \in Undecided' : e = d
    BY <1>2, <2>2, <2>3
  <2> QED BY <2>4, <2>5, <2>6 DEF CallsOrdered
<1> QED BY <1>1, <1>8, <1>9 DEF TxSound

LEMMA CardKeeps ==
    ASSUME IInv, NEW status \in {"done", "aborted"}, CardSends(status)
    PROVE  TxSound'
<1> DEFINE N == TxCount
           m == Len(handed)
           c == tx.card
           s == tx.slot[c]
<1>1. /\ IF backend = "e1000" THEN c # tx.next /\ status = "done" ELSE s.status = "given"
      /\ tx' = [tx EXCEPT !.slot[tx.card].status = status, !.card = SlotAfter(@)]
      /\ handed' = Rest(handed)
      /\ sent' = IF status = "done"
                 THEN [got |-> SubSeq(s.bytes, 1, s.length), want |-> FirstOf(handed, <<>>)]
                 ELSE sent
      /\ calls' = [d \in Senders |-> [calls[d] EXCEPT !.left = IF @ > 0 THEN @ - 1 ELSE 0]]
      /\ answer' = answer /\ reused' = reused /\ backend' = backend
  BY DEF CardSends
<1>2. /\ tx \in TxRecord /\ handed \in Seq(Seq(Byte)) /\ reused \in BOOLEAN
      /\ calls \in [Senders -> Call] /\ TxIndex' = TxIndex
      /\ backend \in {"e1000", "rtl8139"} /\ (~reused => BuffersOrdered /\ CallsOrdered) /\ TxCount' = N
  BY <1>1 DEF IInv, TxSound, TxTyped, TxIndex, TxCount
<1>3. /\ N \in Nat \ {0, 1} /\ tx.next \in 0 .. N - 1 /\ c \in 0 .. N - 1 /\ m \in Nat
      /\ tx.slot \in [0 .. N - 1 -> Slot]
  BY <1>2, Sizes DEF TxRecord, TxIndex
<1>4. SlotAfter(c) = Wrap(c + 1, N) /\ Wrap(c + 1, N) \in 0 .. N - 1
  BY <1>3, WrapSum DEF SlotAfter
<1>5. /\ tx'.slot = [tx.slot EXCEPT ![c].status = status] /\ tx'.card = Wrap(c + 1, N)
      /\ tx'.next = tx.next
  BY <1>1, <1>2, <1>4 DEF TxRecord
<1>6. tx' \in TxRecord
  <2>1. [tx.slot EXCEPT ![c].status = status] \in [TxIndex -> Slot]
    BY <1>3 DEF Slot, TxIndex
  <2>2. SlotAfter(c) \in TxIndex
    BY <1>4 DEF TxIndex
  <2> QED BY <1>1, <1>2, <1>5, <2>1, <2>2 DEF TxRecord
<1>7. handed' \in Seq(Seq(Byte))
  <2>1. CASE handed = <<>>
    <3>1. Len(handed) = 0 /\ Rest(handed) = <<>>
      BY <2>1, SubSeqEmpty DEF Rest
    <3> QED BY <1>1, <3>1
  <2>2. CASE handed # <<>>
    BY <1>1, <1>2, <2>2, RestIs
  <2> QED BY <2>1, <2>2
<1>8. /\ tx'.slot[c].status = status
      /\ \A i \in 0 .. N - 1 : i # c => tx'.slot[i] = tx.slot[i]
  BY <1>3, <1>5 DEF Slot
<1>9. ASSUME NEW d \in Senders
      PROVE  /\ calls'[d].at = calls[d].at /\ calls'[d].slot = calls[d].slot
             /\ calls'[d].frame = calls[d].frame /\ calls[d].left \in Nat
             /\ calls'[d].left = IF calls[d].left > 0 THEN calls[d].left - 1 ELSE 0
             /\ calls'[d] \in Call
  <2>1. calls[d] \in Call /\ calls'[d] = [calls[d] EXCEPT !.left = IF @ > 0 THEN @ - 1 ELSE 0]
    BY <1>1, <1>2
  <2> QED BY <2>1 DEF Call
<1>10. TxTyped'
  <2>1. calls' \in [Senders -> Call]
    BY <1>1, <1>9
  <2>2. \A d \in Senders : calls'[d].at = "chosen" => calls'[d].frame \in Frames
    BY <1>9 DEF IInv, TxSound, TxTyped
  <2> QED BY <1>1, <1>2, <1>6, <1>7, <2>1, <2>2 DEF TxTyped, TxRecord, Call
<1>11. ASSUME ~reused
       PROVE  BuffersOrdered' /\ CallsOrdered'
  <2>1. /\ m <= N /\ Wrap(tx.next + Pointed, N) = Wrap(c + m, N)
        /\ \A k \in 0 .. N - 1 : tx.slot[Wrap(c + k, N)].status = "given" <=> k < m
        /\ \A k \in 1 .. m : LET t == tx.slot[Wrap(c + k - 1, N)]
                             IN  SubSeq(t.bytes, 1, t.length) = handed[k]
        /\ sent.got = sent.want /\ CallsOrdered
    BY <1>2, <1>11 DEF BuffersOrdered, TxIndex
  <2>2. handed # <<>>
    <3> SUFFICES ASSUME handed = <<>>
                 PROVE  FALSE
      OBVIOUS
    <3>1. m = 0
      OBVIOUS
    <3>2. CASE backend = "e1000"
      <4>1. Pointed = 0 /\ c # tx.next
        BY <1>1, <3>2 DEF Pointed
      <4>2. Wrap(tx.next + 0, N) = Wrap(c + 0, N)
        BY <2>1, <3>1, <4>1
      <4> QED BY <1>3, <4>1, <4>2 DEF Wrap
    <3>3. CASE backend = "rtl8139"
      <4>1. s.status = "given" /\ 0 \in 0 .. N - 1 /\ Wrap(c + 0, N) = c
        BY <1>1, <1>3, <3>3 DEF Wrap
      <4>2. 0 < m
        BY <2>1, <4>1
      <4> QED BY <3>1, <4>2
    <3> QED BY <1>2, <3>2, <3>3
  <2>3. /\ m # 0 /\ Len(handed') = m - 1 /\ FirstOf(handed, <<>>) = handed[1]
        /\ \A k \in 1 .. m - 1 : handed'[k] = handed[k + 1]
    BY <1>1, <1>2, <2>2, RestIs DEF FirstOf
  <2>4. Wrap(tx'.next + Pointed', N) = Wrap(tx'.card + (m - 1), N)
    <3>1. Pointed' = Pointed
      BY <1>1, <1>9 DEF Pointed
    <3>2. Wrap(c + m, N) = Wrap(Wrap(c + 1, N) + (m - 1), N)
      BY <1>3, <2>1, <2>3, SMTT(30) DEF Wrap
    <3> QED BY <1>5, <2>1, <3>1, <3>2
  <2>5. ASSUME NEW k \in 0 .. N - 1
        PROVE  tx'.slot[Wrap(tx'.card + k, N)].status = "given" <=> k < m - 1
    <3>1. CASE k = N - 1
      <4>1. Wrap(Wrap(c + 1, N) + k, N) = c /\ ~(k < m - 1)
        <5>1. ~(k < m - 1)
          BY <1>3, <2>1, <3>1
        <5> QED BY <1>3, <3>1, <5>1, WrapTurn
      <4> QED BY <1>5, <1>8, <4>1
    <3>2. CASE k # N - 1
      <4>1. /\ Wrap(Wrap(c + 1, N) + k, N) = Wrap(c + (k + 1), N) /\ k + 1 \in 0 .. N - 1
            /\ Wrap(c + (k + 1), N) \in 0 .. N - 1 /\ Wrap(c + (k + 1), N) # c
            /\ (k + 1 < m <=> k < m - 1)
        <5>1. k \in Nat /\ k + 1 < N /\ k + 1 \in 0 .. N - 1 /\ (k + 1 < m <=> k < m - 1)
          BY <1>3, <3>2
        <5> QED BY <1>3, <5>1, WrapTurn, ZenonT(30)
      <4> QED BY <1>5, <1>8, <2>1, <4>1
    <3> QED BY <3>1, <3>2
  <2>6. ASSUME NEW k \in 1 .. m - 1
        PROVE  LET t == tx'.slot[Wrap(tx'.card + k - 1, N)]
               IN  SubSeq(t.bytes, 1, t.length) = handed'[k]
    <3>1. /\ Wrap(Wrap(c + 1, N) + k - 1, N) = Wrap(c + (k + 1) - 1, N) /\ k + 1 \in 1 .. m
          /\ Wrap(c + (k + 1) - 1, N) \in 0 .. N - 1 /\ Wrap(c + (k + 1) - 1, N) # c
      <4>1. /\ k - 1 \in Nat /\ (k - 1) + 1 < N /\ k + 1 \in 1 .. m
            /\ c + (k + 1) - 1 = c + ((k - 1) + 1)
            /\ Wrap(c + 1, N) + k - 1 = Wrap(c + 1, N) + (k - 1)
        BY <1>3, <1>4, <2>1
      <4>2. /\ Wrap(Wrap(c + 1, N) + (k - 1), N) = Wrap(c + ((k - 1) + 1), N)
            /\ Wrap(c + ((k - 1) + 1), N) \in 0 .. N - 1 /\ Wrap(c + ((k - 1) + 1), N) # c
        <5> DEFINE x == k - 1
        <5>1. x \in Nat /\ x + 1 < N
          BY <4>1
        <5> HIDE DEF x, N, c
        <5>2. /\ Wrap(Wrap(c + 1, N) + x, N) = Wrap(c + (x + 1), N)
              /\ Wrap(c + (x + 1), N) \in 0 .. N - 1 /\ Wrap(c + (x + 1), N) # c
          BY <1>3, <5>1, WrapTurn
        <5> QED BY <5>2 DEF x
      <4> QED BY <4>1, <4>2
    <3> QED BY <1>5, <1>8, <2>1, <2>3, <3>1
  <2>7. \A d \in Undecided' : calls'[d].slot = tx'.next /\ \A e \in Undecided' : e = d
    <3>1. \A d \in Undecided' : d \in Undecided /\ calls'[d].slot = calls[d].slot
      BY <1>1, <1>9 DEF Undecided
    <3> QED BY <1>5, <2>1, <3>1 DEF CallsOrdered
  <2>8. ASSUME NEW d \in Senders, calls'[d].left > 0
        PROVE  /\ calls'[d].left <= m - 1
               /\ calls'[d].slot = Wrap(tx'.card + calls'[d].left - 1, N)
    <3> DEFINE l == calls[d].left
    <3>1. l \in Nat /\ l - 1 > 0 /\ calls'[d].left = l - 1 /\ calls'[d].slot = calls[d].slot
      BY <1>9, <2>8
    <3>2. l <= m /\ calls[d].slot = Wrap(c + l - 1, N)
      BY <2>1, <3>1 DEF CallsOrdered
    <3> HIDE DEF l
    <3>3. Wrap(c + l - 1, N) = Wrap(Wrap(c + 1, N) + (l - 1) - 1, N)
      <4>1. /\ (l - 1) - 1 \in Nat /\ ((l - 1) - 1) + 1 < N
            /\ c + l - 1 = c + (((l - 1) - 1) + 1)
            /\ Wrap(c + 1, N) + (l - 1) - 1 = Wrap(c + 1, N) + ((l - 1) - 1)
        BY <1>3, <1>4, <2>1, <3>1, <3>2, SMTT(30)
      <4>2. Wrap(Wrap(c + 1, N) + ((l - 1) - 1), N) = Wrap(c + (((l - 1) - 1) + 1), N)
        <5> DEFINE x == (l - 1) - 1
        <5>1. x \in Nat /\ x + 1 < N
          BY <4>1
        <5> HIDE DEF x, N, c
        <5>2. Wrap(Wrap(c + 1, N) + x, N) = Wrap(c + (x + 1), N)
          BY <1>3, <5>1, WrapTurn, ZenonT(30)
        <5> QED BY <5>2 DEF x
      <4> QED BY <4>1, <4>2
    <3>4. l - 1 <= m - 1
      BY <1>3, <3>1, <3>2
    <3> QED BY <1>5, <3>1, <3>2, <3>3, <3>4
  <2>9. sent'.got = sent'.want
    <3>1. CASE status = "done"
      <4>1. 1 \in 1 .. m /\ Wrap(c + 1 - 1, N) = c
        BY <1>3, <2>3 DEF Wrap
      <4>2. SubSeq(s.bytes, 1, s.length) = handed[1]
        BY <2>1, <4>1
      <4> QED BY <1>1, <2>3, <3>1, <4>2
    <3>2. CASE status # "done"
      BY <1>1, <2>1, <3>2
    <3> QED BY <3>1, <3>2
  <2>10. m - 1 <= N /\ (answer'.said => answer'.left = 0)
    BY <1>1, <1>3, <2>1 DEF CallsOrdered
  <2>11. BuffersOrdered'
    BY <1>2, <2>3, <2>4, <2>5, <2>6, <2>9, <2>10 DEF BuffersOrdered, TxIndex
  <2>12. CallsOrdered'
    BY <1>2, <2>3, <2>7, <2>8, <2>10 DEF CallsOrdered
  <2> QED BY <2>11, <2>12
<1> QED BY <1>1, <1>10, <1>11 DEF TxSound

-----------------------------------------------------------------------------
(* The whole.                                                              *)

LEMMA InitHolds ==
    ASSUME NicInit
    PROVE  IInv
<1>1. /\ pending = <<>> /\ handed = <<>> /\ received = [got |-> <<>>, want |-> <<>>, over |-> FALSE]
      /\ sent = [got |-> <<>>, want |-> <<>>] /\ answer = [said |-> FALSE, left |-> 0]
      /\ reused = FALSE /\ astray = FALSE /\ calls = [c \in Senders |-> NoCall]
      /\ e1000_hw_init \/ rtl8139_hw_init
  BY DEF NicInit, rtl8139_init
<1>2. Len(pending) = 0 /\ Len(handed) = 0 /\ pending \in Seq(Waiting) /\ handed \in Seq(Seq(Byte))
  BY <1>1
<1>3. tx = e1000_setup_tx(TxCount) /\ backend \in {"e1000", "rtl8139"}
  BY <1>1 DEF e1000_hw_init, rtl8139_hw_init, TxCount
<1>4. TxSound
  <2>1. TxCount \in Nat \ {0, 1} /\ BufferSize \in Nat
    BY Sizes
  <2>2. /\ tx.slot = [i \in 0 .. TxCount - 1 |-> [status |-> "done", length |-> 0,
                                                  bytes |-> [b \in 1 .. BufferSize |-> 0]]]
        /\ tx.next = 0 /\ tx.card = 0
    BY <1>3 DEF e1000_setup_tx
  <2>3. tx.slot \in [TxIndex -> Slot]
    BY <2>1, <2>2 DEF Slot, Byte, TxIndex
  <2>4. tx \in TxRecord
    <3> DEFINE slot == tx.slot
    <3>1. tx = [slot |-> slot, next |-> 0, card |-> 0]
      BY <1>3, <2>2 DEF e1000_setup_tx
    <3>2. slot \in [TxIndex -> Slot] /\ 0 \in TxIndex
      BY <2>1, <2>3 DEF TxIndex
    <3> HIDE DEF slot
    <3> QED BY <3>1, <3>2 DEF TxRecord
  <2>5. \A k \in TxIndex : tx.slot[Wrap(tx.card + k, TxCount)].status # "given" /\ ~(k < 0)
    BY <2>1, <2>2 DEF TxIndex, Wrap
  <2>6. /\ Pointed = 0 /\ Undecided = {} /\ \A c \in Senders : calls[c].left = 0
        /\ calls \in [Senders -> Call] /\ \A c \in Senders : calls[c].at # "chosen"
    BY <1>1, <2>1 DEF Pointed, Undecided, Call, NoCall, TxIndex
  <2>7. BuffersOrdered
    <3>1. Len(handed) <= TxCount /\ sent.got = sent.want
      BY <1>1, <1>2, <2>1
    <3>2. Wrap(tx.next + Pointed, TxCount) = Wrap(tx.card + Len(handed), TxCount)
      BY <1>2, <2>2, <2>6
    <3>3. \A k \in TxIndex :
             tx.slot[Wrap(tx.card + k, TxCount)].status = "given" <=> k < Len(handed)
      BY <1>2, <2>5
    <3>4. \A k \in 1 .. Len(handed) : FALSE
      BY <1>2
    <3> QED BY <3>1, <3>2, <3>3, <3>4 DEF BuffersOrdered
  <2>8. CallsOrdered
    BY <1>1, <2>6 DEF CallsOrdered
  <2> QED BY <1>1, <1>2, <2>4, <2>6, <2>7, <2>8 DEF TxSound, TxTyped
<1>5. ASSUME backend = "e1000"
      PROVE  E1000RxSound
  <2>1. rx = e1000_setup_rx /\ E1000RxCount \in Nat \ {0, 1}
    BY <1>1, <1>5, Sizes DEF e1000_hw_init, rtl8139_hw_init
  <2>2. /\ rx.desc = [i \in RxIndex |-> [done |-> FALSE, frame |-> <<>>]]
        /\ rx.rdh = 0 /\ rx.rdt = E1000RxCount - 1 /\ rx.head = 0 /\ rx.step = "copy"
    BY <2>1 DEF e1000_setup_rx, RxIndex
  <2>3. rx.desc \in [RxIndex -> [done : BOOLEAN, frame : Frames \cup {<<>>}]]
    BY <2>2
  <2>4. rx \in E1000Rx
    BY <2>1, <2>2, <2>3 DEF e1000_setup_rx, E1000Rx, RxIndex
  <2>5. Copied = 0
    BY <2>2 DEF Copied
  <2>6. \A k \in RxIndex : Wrap(0 + k, E1000RxCount) \in RxIndex /\ ~(k < 0)
    BY <2>1 DEF RxIndex, Wrap
  <2>7. /\ 0 = Wrap(0 + 0 + 0, E1000RxCount)
        /\ E1000RxCount - 1 = Wrap(0 + E1000RxCount - 1, E1000RxCount)
        /\ 0 + 0 < E1000RxCount
    BY <2>1 DEF Wrap
  <2>8. \A k \in RxIndex : ~rx.desc[Wrap(rx.head + k, E1000RxCount)].done /\ ~(k < 0 + 0)
    BY <2>2, <2>6
  <2>9. 1 .. Len(pending) = {}
    BY <1>2
  <2>10. \A k \in RxIndex :
            rx.desc[Wrap(rx.head + k, E1000RxCount)].done <=>
               (0 <= k /\ k < 0 + 0) \/ (k = 0 /\ rx.step = "clear")
    BY <2>2, <2>8
  <2>11. Copied + Len(pending) = 0 + 0 /\ rx.head + Copied + Len(pending) = 0 + 0 + 0
    BY <1>2, <2>2, <2>5
  <2>12. \A k \in 1 .. Len(pending) :
            /\ rx.desc[Wrap(rx.head + Copied + k - 1, E1000RxCount)].frame = pending[k].frame
            /\ ~pending[k].over
    BY <2>9
  <2> QED BY <1>2, <2>2, <2>4, <2>5, <2>7, <2>10, <2>11, <2>12 DEF E1000RxSound
<1>6. ASSUME backend = "rtl8139"
      PROVE  RtlRxSound
  <2>1. rx = rtl8139_rx
    BY <1>1, <1>6 DEF e1000_hw_init, rtl8139_hw_init
  <2>2. RingSize \in Nat \ {0}
    BY Sizes
  <2>3. rx \in RtlRx /\ rx.rx_offset = 0 /\ rx.end = 0
    BY <2>1, <2>2 DEF rtl8139_rx, RtlRx, Cells
  <2> DEFINE d == [k \in 1 .. 0 + 1 |-> 0]
  <2>4. d \in [1 .. 0 + 1 -> Cells] /\ d[1] = 0 /\ \A i, j \in 1 .. 0 + 1 : d[i] <= d[j]
    BY <2>2 DEF Cells
  <2>5. 0 = Wrap(0 + 0, RingSize) /\ 0 % 4 = 0
    BY <2>2 DEF Wrap
  <2> HIDE DEF d
  <2>6. Placed(d)
    BY <1>2, <2>3, <2>4, <2>5 DEF Placed
  <2> QED BY <2>3, <2>5, <2>6 DEF RtlRxSound
<1>7. ~received.over => received.got = received.want
  BY <1>1
<1>8. RxInOrder
  BY <1>2, <1>5, <1>6, <1>7 DEF RxInOrder
<1> QED BY <1>1, <1>3, <1>4, <1>8 DEF IInv, RxSound


\* A step of the receiving side leaves the sending side, and the other way round.
LEMMA RxOnly ==
    ASSUME IInv, backend' = backend, UNCHANGED tx_vars
    PROVE  TxSound'
<1>1. /\ tx' = tx /\ calls' = calls /\ handed' = handed /\ sent' = sent /\ answer' = answer
      /\ reused' = reused /\ TxCount' = TxCount /\ Undecided' = Undecided /\ Pointed' = Pointed
  BY DEF tx_vars, TxCount, Undecided, Pointed
<1>2. TxTyped'
  BY <1>1 DEF IInv, TxSound, TxTyped, TxRecord, Call, TxIndex
<1>3. ~reused => BuffersOrdered' /\ CallsOrdered'
  BY <1>1 DEF IInv, TxSound, BuffersOrdered, CallsOrdered, TxIndex
<1> QED BY <1>1, <1>2, <1>3 DEF TxSound

LEMMA TxOnly ==
    ASSUME IInv, backend' = backend, UNCHANGED rx_vars
    PROVE  RxSound'
<1>1. rx' = rx /\ pending' = pending /\ received' = received /\ astray' = astray
  BY DEF rx_vars
<1>2. (\E d : Placed(d)) => (\E d : Placed(d))'
  BY <1>1 DEF Placed
<1> QED BY <1>1, <1>2 DEF IInv, RxSound, RxInOrder, E1000RxSound, RtlRxSound, Copied

\* A step of the receiving side that keeps the order, or for which there is none.
LEMMA RxKeeps ==
    ASSUME IInv, backend' = backend, astray' = astray, UNCHANGED tx_vars,
           RxInOrder => RxInOrder'
    PROVE  IInv'
BY RxOnly DEF IInv, RxSound

LEMMA StepKeeps ==
    ASSUME IInv, [NicNext]_nic_vars
    PROVE  IInv'
<1>1. ASSUME NEW frame \in Frames, E1000Stores(frame)
      PROVE  IInv'
  <2>1. backend' = backend /\ astray' = astray /\ UNCHANGED tx_vars
    BY <1>1 DEF E1000Stores
  <2> QED BY <1>1, <2>1, E1000StoreKeeps, RxKeeps
<1>2. ASSUME NEW frame \in Frames, RtlStores(frame)
      PROVE  IInv'
  <2>1. backend' = backend /\ astray' = astray /\ UNCHANGED tx_vars
    BY <1>2 DEF RtlStores
  <2> QED BY <1>2, <2>1, RtlStoreKeeps, RxKeeps
<1>3. CASE e1000_hw_poll_frame
  <2>1. backend' = backend /\ astray' = astray /\ UNCHANGED tx_vars
    BY <1>3 DEF e1000_hw_poll_frame
  <2> QED BY <1>3, <2>1, E1000PollKeeps, RxKeeps
<1>4. CASE E1000PollReleases
  <2>1. backend' = backend /\ astray' = astray /\ UNCHANGED tx_vars
    BY <1>4 DEF E1000PollReleases
  <2> QED BY <1>4, <2>1, E1000ReleaseKeeps, RxKeeps
<1>5. CASE rtl8139_hw_poll_frame
  <2>1. backend' = backend /\ astray' = astray /\ UNCHANGED tx_vars
    BY <1>5 DEF rtl8139_hw_poll_frame
  <2> QED BY <1>5, <2>1, RtlPollKeeps, RxKeeps
<1>6. CASE RtlPollResets
  <2>1. backend' = backend /\ astray' = TRUE /\ UNCHANGED tx_vars
    BY <1>6 DEF RtlPollResets
  <2>2. RxSound'
    BY <2>1 DEF RxSound
  <2> QED BY <2>1, <2>2, RxOnly DEF IInv
<1>7. ASSUME NEW c \in Senders, NEW frame \in Frames, ChoosesBuffer(c, frame)
      PROVE  IInv'
  BY <1>7, ChooseKeeps, TxOnly DEF IInv, ChoosesBuffer
<1>8. ASSUME NEW c \in Senders, e1000_hw_send_frame(c)
      PROVE  IInv'
  BY <1>8, E1000SendKeeps, TxOnly DEF IInv, e1000_hw_send_frame, HandsOver
<1>9. ASSUME NEW c \in Senders, rtl8139_hw_send_frame(c)
      PROVE  IInv'
  BY <1>9, RtlSendKeeps, TxOnly DEF IInv, rtl8139_hw_send_frame, HandsOver
<1>10. ASSUME NEW c \in Senders, E1000SendRefused(c)
       PROVE  IInv'
  BY <1>10, RefusedKeeps, TxOnly DEF IInv, E1000SendRefused
<1>11. ASSUME NEW c \in Senders, SendReturns(c)
       PROVE  IInv'
  BY <1>11, ReturnKeeps, TxOnly DEF IInv, SendReturns
<1>12. ASSUME NEW status \in {"done", "aborted"}, CardSends(status)
       PROVE  IInv'
  BY <1>12, CardKeeps, TxOnly DEF IInv, CardSends
<1>13. CASE UNCHANGED nic_vars
  BY <1>13, RxOnly, TxOnly DEF IInv, nic_vars
<1> QED BY <1>1, <1>2, <1>3, <1>4, <1>5, <1>6, <1>7, <1>8, <1>9, <1>10, <1>11, <1>12, <1>13
        DEF NicNext, ReceiveNext, SendNext

LEMMA InvariantGives ==
    ASSUME IInv
    PROVE  FramesIntact
<1>1. RxInOrder => LooksAtNext
  <2> SUFFICES ASSUME RxInOrder, pending # <<>>
               PROVE  IF backend = "e1000" THEN rx.step = "copy" => rx.desc[rx.head].done
                      ELSE LengthFound = Len(Head(pending).frame) + 4
    BY DEF LooksAtNext
  <2>1. /\ pending \in Seq(Waiting) /\ Len(pending) \in Nat \ {0} /\ Head(pending) = pending[1]
        /\ pending[1] \in Waiting
    BY RestIs DEF RxInOrder
  <2>2. CASE backend = "e1000"
    <3> SUFFICES ASSUME rx.step = "copy"
                 PROVE  rx.desc[rx.head].done
      BY <2>2
    <3>1. E1000RxSound /\ Copied = 0 /\ E1000RxCount \in Nat \ {0, 1}
      BY <2>2, Sizes DEF RxInOrder, Copied
    <3>2. rx.head \in 0 .. E1000RxCount - 1
      BY <3>1 DEF E1000RxSound, E1000Rx, RxIndex
    <3>3. 0 \in RxIndex /\ 0 < 0 + Len(pending) /\ Wrap(rx.head + 0, E1000RxCount) = rx.head
      BY <2>1, <3>1, <3>2 DEF RxIndex, Wrap
    <3>4. rx.desc[Wrap(rx.head + 0, E1000RxCount)].done
      BY <3>1, <3>3 DEF E1000RxSound
    <3> QED BY <3>3, <3>4
  <2>3. CASE backend = "rtl8139"
    <3>1. rx \in RtlRx /\ RtlRxSound /\ RingSize \in Nat
      BY <2>3, Sizes DEF RxInOrder, RtlRxSound
    <3>2. PICK d : Placed(d)
      BY <3>1 DEF RtlRxSound
    <3>3. 1 \in 1 .. Len(pending) /\ Wrap(rx.rx_offset + 0, RingSize) = rx.rx_offset
      BY <2>1, <3>1 DEF RtlRx, Cells, Wrap
    <3>4. Holds(rx.ring, rx.rx_offset, pending[1])
      BY <3>2, <3>3 DEF Placed
    <3>5. rtl8139_ring_read_u8(rx.rx_offset) = Len(pending[1].frame) + 4
      BY <2>1, <3>1, <3>4, CopyIs
    <3> QED BY <2>1, <2>3, <3>5 DEF LengthFound
  <2> QED BY <2>2, <2>3 DEF IInv
<1> QED BY <1>1 DEF FramesIntact, IInv, RxSound, RxInOrder, TxSound, BuffersOrdered, CallsOrdered

\* net_driver.c, with either card and any number of tasks that send: polls
\* return the frames that arrived, each once, in order and byte for byte, while
\* the card stores others; the card sends what it was given, in order and
\* padded, and a call says TRUE only when its frame went out.  For rings,
\* buffers and frames of every size.  Not promised: the bytes of a frame the
\* RTL8139 stored across the end of its ring (those after it are found);
\* anything it receives once a frame longer than 1792 bytes made the driver
\* start again (230-235); anything sent once two calls were about to use one
\* buffer or one of the RTL8139's was used again too early.
THEOREM FramesAreIntact == NicSpec => []FramesIntact
<1>1. NicInit => IInv
  BY InitHolds
<1>2. IInv /\ [NicNext]_nic_vars => IInv'
  BY StepKeeps
<1>3. IInv => FramesIntact
  BY InvariantGives
<1> QED BY <1>1, <1>2, <1>3, PTL DEF NicSpec

-----------------------------------------------------------------------------
(* Keyboards and mice: induction over the natural numbers, in set form.    *)

LEMMA LessWellFounded == IsWellFoundedOn({p \in Nat \X Nat : p[1] < p[2]}, Nat)
BY NatLessThanWellFounded DEF OpToRel

LEMMA LeastNatural ==
    ASSUME NEW B, B \subseteq Nat, B # {}
    PROVE  \E x \in B : \A y \in B : x <= y
<1> DEFINE R == {p \in Nat \X Nat : p[1] < p[2]}
<1>1. IsWellFoundedOn(R, Nat)
  BY LessWellFounded
<1> HIDE DEF R
<1>2. PICK x \in B : \A y \in B : ~(<<y, x>> \in R)
  BY <1>1, WFMin
<1>3. ASSUME NEW y \in B PROVE x <= y
  <2>1. x \in Nat /\ y \in Nat
    BY <1>2
  <2>2. <<y, x>> \in R <=> y < x
    BY <2>1 DEF R
  <2> QED BY <1>2, <2>1, <2>2
<1> QED BY <1>3

\* A set with 0 and the successors of its members.
LEMMA NaturalInduction ==
    ASSUME NEW T, 0 \in T, \A n \in Nat : n \in T => n + 1 \in T
    PROVE  Nat \subseteq T
<1> SUFFICES ASSUME NEW m \in Nat, m \notin T PROVE FALSE
  OBVIOUS
<1> DEFINE B == {n \in Nat : n \notin T}
<1>1. B \subseteq Nat /\ B # {}
  OBVIOUS
<1> HIDE DEF B
<1>2. PICK x \in B : \A y \in B : x <= y
  BY <1>1, LeastNatural
<1>3. x \in Nat /\ x \notin T /\ x # 0
  BY <1>2 DEF B
<1>4. x - 1 \in Nat /\ x - 1 \notin T
  <2>1. x - 1 \in Nat /\ (x - 1) + 1 = x
    BY <1>3
  <2> QED BY <1>3, <2>1
<1>5. x - 1 \in B
  BY <1>4 DEF B
<1> QED BY <1>2, <1>3, <1>5

-----------------------------------------------------------------------------
(* What the folds of Input and UsbHid compute, for every sequence.         *)

\* The folds of the model as they look at one element.
Kept(kept, e, S) == IF e \in S THEN Append(kept, e) ELSE kept

Typed(s, key, shift) ==
    IF key = CapsLock THEN [s EXCEPT !.caps = ~@]
    ELSE [s EXCEPT !.chars = Append(@, Char(key, shift, s.caps))]

FoldStep(fold, acc, e) ==
    IF fold.name = "only" THEN Kept(acc, e, fold.of)
    ELSE IF fold.name = "type" THEN Typed(acc, e, fold.of)
    ELSE key_buffer_push(acc, e)

\* f is the function FoldLeft computes on the positions up to n.
Folding(f, fold, base, seq, n) ==
    f = [s \in SUBSET (1 .. n) |->
            IF s = {} THEN base ELSE FoldStep(fold, f[s \ {Max(s)}], seq[Max(s)])]

\* The greatest position among the first n + 1.
LEMMA LastPosition ==
    ASSUME NEW n \in Nat, NEW s \in SUBSET (1 .. n + 1)
    PROVE  /\ n + 1 \in s => Max(s) = n + 1 /\ s \ {Max(s)} \in SUBSET (1 .. n)
           /\ n + 1 \notin s => s \in SUBSET (1 .. n)
<1>1. ASSUME n + 1 \in s PROVE Max(s) = n + 1
  <2>1. \A y \in s : y \in Int /\ n + 1 >= y
    OBVIOUS
  <2>2. \A x \in s : (\A y \in s : x >= y) => x = n + 1
    BY <1>1, <2>1
  <2>3. \E x \in s : \A y \in s : x >= y
    BY <1>1, <2>1
  <2>4. Max(s) \in s /\ \A y \in s : Max(s) >= y
    BY <2>3, Zenon DEF Max
  <2> QED BY <2>2, <2>4
<1>2. s \ {n + 1} \in SUBSET (1 .. n)
  OBVIOUS
<1>3. n + 1 \notin s => s = s \ {n + 1}
  OBVIOUS
<1> QED BY <1>1, <1>2, <1>3

\* The function that FoldLeft chooses exists.
LEMMA FoldingExists ==
    ASSUME NEW fold, NEW base, NEW seq, NEW n \in Nat
    PROVE  \E f : Folding(f, fold, base, seq, n)
<1> DEFINE T == {k \in Nat : \E f : Folding(f, fold, base, seq, k)}
<1>1. 0 \in T
  <2> DEFINE f == [s \in SUBSET (1 .. 0) |-> base]
  <2>1. \A s \in SUBSET (1 .. 0) : s = {}
    OBVIOUS
  <2>2. f = [s \in SUBSET (1 .. 0) |->
                IF s = {} THEN base ELSE FoldStep(fold, f[s \ {Max(s)}], seq[Max(s)])]
    BY <2>1
  <2> HIDE DEF f
  <2>3. Folding(f, fold, base, seq, 0)
    BY <2>2, Zenon DEF Folding
  <2> QED BY <2>3
<1>2. ASSUME NEW k \in Nat, k \in T PROVE k + 1 \in T
  <2>1. PICK f : Folding(f, fold, base, seq, k)
    BY <1>2
  <2> DEFINE A == SUBSET (1 .. k)
             B == SUBSET (1 .. k + 1)
             g == [s \in B |-> IF k + 1 \in s THEN FoldStep(fold, f[s \ {Max(s)}], seq[Max(s)])
                               ELSE f[s]]
  <2>2. \A s \in A : s \in B /\ k + 1 \notin s
    OBVIOUS
  <2>3. \A s \in B : (k + 1 \in s => s \ {Max(s)} \in A) /\ (k + 1 \notin s => s \in A)
    BY LastPosition
  <2>4. \A s \in A : s # {} => s \ {Max(s)} \in A
    OBVIOUS
  <2> HIDE DEF A, B
  <2>5. \A s \in A : f[s] = IF s = {} THEN base ELSE FoldStep(fold, f[s \ {Max(s)}], seq[Max(s)])
    <3>1. f = [s \in A |-> IF s = {} THEN base ELSE FoldStep(fold, f[s \ {Max(s)}], seq[Max(s)])]
      BY <2>1, Zenon DEF Folding, A
    <3> QED BY <3>1
  <2>6. \A s \in A : g[s] = f[s]
    BY <2>2
  <2>7. g = [s \in B |-> IF s = {} THEN base ELSE FoldStep(fold, g[s \ {Max(s)}], seq[Max(s)])]
    <3>1. ASSUME NEW s \in B, k + 1 \in s
          PROVE  g[s] = IF s = {} THEN base ELSE FoldStep(fold, g[s \ {Max(s)}], seq[Max(s)])
      BY <2>3, <2>6, <3>1
    <3>2. ASSUME NEW s \in B, k + 1 \notin s
          PROVE  g[s] = IF s = {} THEN base ELSE FoldStep(fold, g[s \ {Max(s)}], seq[Max(s)])
      BY <2>3, <2>4, <2>5, <2>6, <3>2
    <3>3. \A s \in B : g[s] = IF s = {} THEN base ELSE FoldStep(fold, g[s \ {Max(s)}], seq[Max(s)])
      BY <3>1, <3>2
    <3>4. g = [s \in B |-> g[s]]
      OBVIOUS
    <3> HIDE DEF g
    <3> QED BY <3>3, <3>4
  <2> HIDE DEF g
  <2>8. Folding(g, fold, base, seq, k + 1)
    BY <2>7, Zenon DEF Folding, B
  <2> QED BY <2>8
<1>3. Nat \subseteq T
  <2> HIDE DEF T
  <2> QED BY <1>1, <1>2, NaturalInduction
<1> QED BY <1>3

\* k[n] is the result after the first n elements.
Folds(k, fold, base, seq) ==
    /\ k[0] = base
    /\ \A n \in 1 .. Len(seq) : k[n] = FoldStep(fold, k[n - 1], seq[n])

LEMMA FoldingGives ==
    ASSUME NEW fold, NEW base, NEW X, NEW seq \in Seq(X), NEW f,
           Folding(f, fold, base, seq, Len(seq))
    PROVE  \E k : Folds(k, fold, base, seq) /\ f[DOMAIN seq] = k[Len(seq)]
<1>0. DOMAIN seq = 1 .. Len(seq) /\ Len(seq) \in Nat
  OBVIOUS
<1> DEFINE k == [n \in 0 .. Len(seq) |-> f[1 .. n]]
<1>4. \A s \in SUBSET (1 .. Len(seq)) :
          f[s] = IF s = {} THEN base ELSE FoldStep(fold, f[s \ {Max(s)}], seq[Max(s)])
  <2>1. f = [s \in SUBSET (1 .. Len(seq)) |->
                IF s = {} THEN base ELSE FoldStep(fold, f[s \ {Max(s)}], seq[Max(s)])]
    BY Zenon DEF Folding
  <2> QED BY <2>1
<1>5. k[0] = base
  <2>1. 1 .. 0 = {}
    OBVIOUS
  <2>2. f[{}] = base
    <3>1. {} \in SUBSET (1 .. Len(seq))
      OBVIOUS
    <3> QED BY <1>4, <3>1
  <2>3. 0 \in 0 .. Len(seq)
    BY <1>0
  <2> QED BY <2>1, <2>2, <2>3
<1>6. ASSUME NEW n \in 1 .. Len(seq) PROVE k[n] = FoldStep(fold, k[n - 1], seq[n])
  <2>1. n - 1 \in Nat /\ 1 .. n \in SUBSET (1 .. (n - 1) + 1) /\ n \in 1 .. n
        /\ 1 .. n \in SUBSET (1 .. Len(seq)) /\ (n - 1) + 1 = n
        /\ n \in 0 .. Len(seq) /\ n - 1 \in 0 .. Len(seq) /\ (1 .. n) \ {n} = 1 .. (n - 1)
    BY <1>0
  <2>2. Max(1 .. n) = n
    BY <2>1, LastPosition
  <2>3. f[1 .. n] = FoldStep(fold, f[(1 .. n) \ {n}], seq[n])
    BY <1>4, <2>1, <2>2
  <2> QED BY <2>1, <2>3
<1>7. f[DOMAIN seq] = k[Len(seq)]
  BY <1>0
<1> HIDE DEF k
<1>8. Folds(k, fold, base, seq)
  BY <1>5, <1>6 DEF Folds
<1> QED BY <1>7, <1>8

\* k[n] is what is kept of the first n elements.
Keeps(k, seq, S) ==
    /\ k[0] = <<>>
    /\ \A n \in 1 .. Len(seq) : k[n] = Kept(k[n - 1], seq[n], S)

\* Only looks at one element after the other.
LEMMA OnlyIs ==
    ASSUME NEW X, NEW seq \in Seq(X), NEW S
    PROVE  \E k : Keeps(k, seq, S) /\ Only(seq, S) = k[Len(seq)]
<1> DEFINE fold == [name |-> "only", of |-> S]
           f == CHOOSE f : f = [s \in SUBSET DOMAIN seq |->
                    IF s = {} THEN <<>> ELSE Kept(f[s \ {Max(s)}], seq[Max(s)], S)]
<1>0. DOMAIN seq = 1 .. Len(seq) /\ Len(seq) \in Nat
  OBVIOUS
<1>1. Only(seq, S) = f[DOMAIN seq]
  BY Zenon DEF Only, FoldLeft, MapThenFoldSet, Kept
<1>2. \A acc, e : FoldStep(fold, acc, e) = Kept(acc, e, S)
  BY DEF FoldStep
<1> HIDE DEF fold
<1>3. \E g : g = [s \in SUBSET DOMAIN seq |->
                    IF s = {} THEN <<>> ELSE Kept(g[s \ {Max(s)}], seq[Max(s)], S)]
  <2>1. PICK g : Folding(g, fold, <<>>, seq, Len(seq))
    BY <1>0, FoldingExists
  <2>2. g = [s \in SUBSET DOMAIN seq |->
                    IF s = {} THEN <<>> ELSE Kept(g[s \ {Max(s)}], seq[Max(s)], S)]
    BY <1>0, <1>2, <2>1 DEF Folding
  <2> QED BY <2>2, Zenon
<1>4. f = [s \in SUBSET DOMAIN seq |->
                    IF s = {} THEN <<>> ELSE Kept(f[s \ {Max(s)}], seq[Max(s)], S)]
  BY <1>3, Zenon
<1> HIDE DEF f
<1>5. Folding(f, fold, <<>>, seq, Len(seq))
  BY <1>0, <1>2, <1>4 DEF Folding
<1>6. PICK k : Folds(k, fold, <<>>, seq) /\ f[DOMAIN seq] = k[Len(seq)]
  BY <1>5, FoldingGives
<1>7. Keeps(k, seq, S)
  BY <1>2, <1>6 DEF Folds, Keeps
<1> QED BY <1>1, <1>6, <1>7

LEMMA KeepsType ==
    ASSUME NEW X, NEW seq \in Seq(X), NEW S, NEW k, Keeps(k, seq, S), NEW n \in 0 .. Len(seq)
    PROVE  k[n] \in Seq(X \cap S)
<1> DEFINE T == {m \in Nat : m <= Len(seq) => k[m] \in Seq(X \cap S)}
<1>1. 0 \in T
  <2>1. k[0] = <<>> /\ <<>> \in Seq(X \cap S)
    BY DEF Keeps
  <2> QED BY <2>1
<1>2. ASSUME NEW m \in Nat, m \in T PROVE m + 1 \in T
  <2>1. CASE m + 1 <= Len(seq)
    <3>1. m + 1 \in 1 .. Len(seq) /\ (m + 1) - 1 = m /\ m <= Len(seq)
      BY <2>1
    <3>2. k[m + 1] = Kept(k[m], seq[m + 1], S)
      BY <3>1, Zenon DEF Keeps
    <3>3. k[m] \in Seq(X \cap S) /\ seq[m + 1] \in X
      BY <1>2, <3>1
    <3>4. k[m + 1] \in Seq(X \cap S)
      BY <3>2, <3>3 DEF Kept
    <3> QED BY <3>4
  <2>2. CASE ~(m + 1 <= Len(seq))
    BY <2>2
  <2> QED BY <2>1, <2>2
<1>3. Nat \subseteq T
  <2> HIDE DEF T
  <2> QED BY <1>1, <1>2, NaturalInduction
<1> QED BY <1>3

LEMMA OnlyType ==
    ASSUME NEW X, NEW seq \in Seq(X), NEW S
    PROVE  Only(seq, S) \in Seq(X \cap S)
<1>1. PICK k : Keeps(k, seq, S) /\ Only(seq, S) = k[Len(seq)]
  BY OnlyIs
<1>2. Len(seq) \in 0 .. Len(seq)
  OBVIOUS
<1> QED BY <1>1, <1>2, KeepsType

LEMMA OnlyEmpty == ASSUME NEW S PROVE Only(<<>>, S) = <<>>
<1>1. <<>> \in Seq({}) /\ Len(<<>>) = 0
  OBVIOUS
<1> QED BY <1>1, OnlyIs DEF Keeps

\* Sequences that agree on their first n elements, as far as S is concerned.
LEMMA KeepsSame ==
    ASSUME NEW S, NEW R, NEW seq, NEW other, NEW k, NEW l, Keeps(k, seq, S), Keeps(l, other, R),
           NEW n \in Nat, Len(seq) \in Nat, Len(other) \in Nat, n <= Len(seq), n <= Len(other),
           \A i \in 1 .. n : seq[i] = other[i] /\ (seq[i] \in S <=> seq[i] \in R)
    PROVE  k[n] = l[n]
<1> DEFINE T == {m \in Nat : m <= n => k[m] = l[m]}
<1>1. 0 \in T
  BY DEF Keeps
<1>2. ASSUME NEW m \in Nat, m \in T PROVE m + 1 \in T
  <2>1. CASE m + 1 <= n
    <3>1. m + 1 \in 1 .. Len(seq) /\ m + 1 \in 1 .. Len(other) /\ m + 1 \in 1 .. n
          /\ (m + 1) - 1 = m /\ m <= n
      BY <2>1
    <3>2. k[m + 1] = Kept(k[m], seq[m + 1], S) /\ l[m + 1] = Kept(l[m], other[m + 1], R)
      BY <3>1, Zenon DEF Keeps
    <3>3. k[m] = l[m]
      BY <1>2, <3>1
    <3>4. k[m + 1] = l[m + 1]
      BY <3>1, <3>2, <3>3, Zenon DEF Kept
    <3> QED BY <3>4
  <2>2. CASE ~(m + 1 <= n)
    BY <2>2
  <2> QED BY <2>1, <2>2
<1>3. Nat \subseteq T
  <2> HIDE DEF T
  <2> QED BY <1>1, <1>2, NaturalInduction
<1> QED BY <1>3

LEMMA OnlyAgrees ==
    ASSUME NEW X, NEW seq \in Seq(X), NEW S, NEW R,
           \A i \in 1 .. Len(seq) : seq[i] \in S <=> seq[i] \in R
    PROVE  Only(seq, S) = Only(seq, R)
<1>1. PICK k : Keeps(k, seq, S) /\ Only(seq, S) = k[Len(seq)]
  BY OnlyIs
<1>2. PICK l : Keeps(l, seq, R) /\ Only(seq, R) = l[Len(seq)]
  BY OnlyIs
<1>3. Len(seq) \in Nat /\ Len(seq) <= Len(seq)
  OBVIOUS
<1>4. k[Len(seq)] = l[Len(seq)]
  BY <1>1, <1>2, <1>3, KeepsSame
<1> QED BY <1>1, <1>2, <1>4

LEMMA OnlyAppend ==
    ASSUME NEW X, NEW seq \in Seq(X), NEW S, NEW e \in X
    PROVE  Only(Append(seq, e), S) = Kept(Only(seq, S), e, S)
<1> DEFINE more == Append(seq, e)
           n == Len(seq)
<1>1. /\ more \in Seq(X) /\ Len(more) = n + 1 /\ n \in Nat /\ more[n + 1] = e
      /\ \A i \in 1 .. n : more[i] = seq[i]
  OBVIOUS
<1> HIDE DEF more
<1>2. PICK k : Keeps(k, seq, S) /\ Only(seq, S) = k[n]
  BY OnlyIs
<1>3. PICK l : Keeps(l, more, S) /\ Only(more, S) = l[n + 1]
  <2>1. \E l : Keeps(l, more, S) /\ Only(more, S) = l[Len(more)]
    BY <1>1, OnlyIs
  <2> QED BY <1>1, <2>1
<1>4. k[n] = l[n]
  BY <1>1, <1>2, <1>3, KeepsSame
<1>5. l[n + 1] = Kept(l[n], more[n + 1], S)
  <2>1. n + 1 \in 1 .. Len(more) /\ (n + 1) - 1 = n
    BY <1>1
  <2> QED BY <1>3, <2>1, Zenon DEF Keeps
<1>6. Only(more, S) = Kept(Only(seq, S), e, S)
  BY <1>1, <1>2, <1>3, <1>4, <1>5
<1> QED BY <1>6 DEF more

LEMMA OnlyNone ==
    ASSUME NEW X, NEW seq \in Seq(X), NEW S, \A i \in 1 .. Len(seq) : seq[i] \notin S
    PROVE  Only(seq, S) = <<>>
<1>1. Only(seq, S) \in Seq(X \cap {}) /\ Only(seq, {}) = Only(seq, S)
  <2>1. Only(seq, {}) = Only(seq, S)
    BY OnlyAgrees
  <2>2. Only(seq, {}) \in Seq(X \cap {})
    BY OnlyType
  <2> QED BY <2>1, <2>2
<1> QED BY <1>1

\* The first element first.
LEMMA OnlyHead ==
    ASSUME NEW X, NEW seq \in Seq(X), NEW S, seq # <<>>
    PROVE  Only(seq, S) = IF Head(seq) \in S THEN <<Head(seq)>> \o Only(Tail(seq), S)
                          ELSE Only(Tail(seq), S)
<1> DEFINE rest == Tail(seq)
           n == Len(rest)
           h == Head(seq)
           first == IF h \in S THEN <<h>> ELSE <<>>
<1>1. /\ rest \in Seq(X) /\ Len(seq) = n + 1 /\ n \in Nat /\ h \in X /\ h = seq[1]
      /\ \A i \in 1 .. n : rest[i] = seq[i + 1]
  OBVIOUS
<1> HIDE DEF rest, h
<1>2. PICK k : Keeps(k, seq, S) /\ Only(seq, S) = k[n + 1]
  <2>1. \E k : Keeps(k, seq, S) /\ Only(seq, S) = k[Len(seq)]
    BY OnlyIs
  <2> QED BY <1>1, <2>1
<1>3. PICK l : Keeps(l, rest, S) /\ Only(rest, S) = l[n]
  BY <1>1, OnlyIs
<1>4. \A m \in 0 .. n : l[m] \in Seq(X)
  <2>1. \A m \in 0 .. n : l[m] \in Seq(X \cap S)
    BY <1>1, <1>3, KeepsType
  <2>2. Seq(X \cap S) \subseteq Seq(X)
    OBVIOUS
  <2> QED BY <2>1, <2>2
<1> DEFINE T == {m \in Nat : m <= n => k[m + 1] = first \o l[m]}
<1>5. 0 \in T
  <2>1. 1 \in 1 .. Len(seq) /\ 1 - 1 = 0
    BY <1>1
  <2>2. k[1] = Kept(k[0], h, S) /\ k[0] = <<>> /\ l[0] = <<>>
    BY <1>1, <1>2, <1>3, <2>1 DEF Keeps
  <2>3. k[1] = first \o l[0]
    BY <1>1, <2>2 DEF Kept
  <2> HIDE DEF first
  <2>4. k[0 + 1] = first \o l[0]
    BY <2>3
  <2> QED BY <2>4
<1>6. ASSUME NEW m \in Nat, m \in T PROVE m + 1 \in T
  <2>1. CASE m + 1 <= n
    <3>1. (m + 1) + 1 \in 1 .. Len(seq) /\ m + 1 \in 1 .. Len(rest) /\ m \in 0 .. n
          /\ ((m + 1) + 1) - 1 = m + 1 /\ (m + 1) - 1 = m /\ m <= n
      BY <1>1, <2>1
    <3>2. rest[m + 1] = seq[(m + 1) + 1] /\ rest[m + 1] \in X
      BY <1>1, <3>1
    <3>3. k[(m + 1) + 1] = Kept(k[m + 1], rest[m + 1], S) /\ l[m + 1] = Kept(l[m], rest[m + 1], S)
      BY <1>2, <1>3, <3>1, <3>2, Zenon DEF Keeps
    <3>0. first \in Seq(X)
      BY <1>1
    <3> HIDE DEF first
    <3>4. k[m + 1] = first \o l[m] /\ l[m] \in Seq(X) /\ first \in Seq(X)
      BY <1>4, <1>6, <3>0, <3>1
    <3>5. Append(first \o l[m], rest[m + 1]) = first \o Append(l[m], rest[m + 1])
      <4> DEFINE e == rest[m + 1]
                 b == l[m]
      <4>1. b \in Seq(X) /\ first \in Seq(X) /\ e \in X
        BY <3>2, <3>4
      <4> HIDE DEF e, b
      <4>2. <<e>> \in Seq(X) /\ first \o b \in Seq(X)
        BY <4>1, ConcatProperties
      <4>3. Append(first \o b, e) = (first \o b) \o <<e>> /\ Append(b, e) = b \o <<e>>
        BY <4>1, <4>2, AppendIsConcat
      <4>4. (first \o b) \o <<e>> = first \o (b \o <<e>>)
        BY ONLY <4>1, <4>2, ConcatAssociative, SMTT(30)
      <4>5. Append(first \o b, e) = first \o Append(b, e)
        BY <4>3, <4>4, Zenon
      <4> QED BY <4>5 DEF e, b
    <3>6. k[(m + 1) + 1] = first \o l[m + 1]
      BY <3>3, <3>4, <3>5, Zenon DEF Kept
    <3> QED BY <3>6
  <2>2. CASE ~(m + 1 <= n)
    <3> HIDE DEF first, n
    <3> QED BY <2>2
  <2> QED BY <2>1, <2>2
<1>7. Nat \subseteq T
  <2> HIDE DEF T
  <2> QED BY <1>5, <1>6, NaturalInduction
<1>8. k[n + 1] = first \o l[n]
  <2>1. n \in T
    BY <1>1, <1>7
  <2> HIDE DEF first
  <2> QED BY <1>1, <2>1
<1>9. <<>> \o l[n] = l[n]
  BY <1>1, <1>4
<1> QED BY <1>2, <1>3, <1>8, <1>9 DEF rest, h

\* k[n] are the ring and what is expected of it after n characters.
PushedRun(k, seq, expected) ==
    /\ k[0] = [buffer |-> keyboard.buffer, typed |-> expected]
    /\ \A n \in 1 .. Len(seq) : k[n] = key_buffer_push(k[n - 1], seq[n])
    /\ Pushed(seq, expected) = k[Len(seq)]

LEMMA PushedIs ==
    ASSUME NEW X, NEW seq \in Seq(X), NEW expected
    PROVE  \E k : PushedRun(k, seq, expected)
<1> DEFINE fold == [name |-> "push", of |-> 0]
           f == CHOOSE f : f = [s \in SUBSET DOMAIN seq |->
                    IF s = {} THEN [buffer |-> keyboard.buffer, typed |-> expected]
                    ELSE key_buffer_push(f[s \ {Max(s)}], seq[Max(s)])]
<1>0. DOMAIN seq = 1 .. Len(seq) /\ Len(seq) \in Nat
  OBVIOUS
<1>1. Pushed(seq, expected) = f[DOMAIN seq]
  BY Zenon DEF Pushed, FoldLeft, MapThenFoldSet
<1>2. \A acc, e : FoldStep(fold, acc, e) = key_buffer_push(acc, e)
  BY DEF FoldStep
<1> HIDE DEF fold
<1>3. \E g : g = [s \in SUBSET DOMAIN seq |->
                    IF s = {} THEN [buffer |-> keyboard.buffer, typed |-> expected]
                    ELSE key_buffer_push(g[s \ {Max(s)}], seq[Max(s)])]
  <2>1. PICK g : Folding(g, fold, [buffer |-> keyboard.buffer, typed |-> expected], seq, Len(seq))
    BY <1>0, FoldingExists
  <2>2. g = [s \in SUBSET DOMAIN seq |->
                    IF s = {} THEN [buffer |-> keyboard.buffer, typed |-> expected]
                    ELSE key_buffer_push(g[s \ {Max(s)}], seq[Max(s)])]
    BY <1>0, <1>2, <2>1 DEF Folding
  <2> QED BY <2>2, Zenon
<1>4. f = [s \in SUBSET DOMAIN seq |->
                    IF s = {} THEN [buffer |-> keyboard.buffer, typed |-> expected]
                    ELSE key_buffer_push(f[s \ {Max(s)}], seq[Max(s)])]
  BY <1>3, Zenon
<1> HIDE DEF f
<1>5. Folding(f, fold, [buffer |-> keyboard.buffer, typed |-> expected], seq, Len(seq))
  BY <1>0, <1>2, <1>4 DEF Folding
<1>6. PICK k : Folds(k, fold, [buffer |-> keyboard.buffer, typed |-> expected], seq) /\ f[DOMAIN seq] = k[Len(seq)]
  BY <1>5, FoldingGives
<1>7. \A n \in 1 .. Len(seq) : k[n] = key_buffer_push(k[n - 1], seq[n])
  BY <1>2, <1>6 DEF Folds
<1>8. PushedRun(k, seq, expected)
  BY <1>1, <1>6, <1>7 DEF Folds, PushedRun
<1> QED BY <1>8

\* k[n] is what the first n new keys of a report make of caps lock and the
\* characters.
TypingRun(k, hid, report, seq) ==
    /\ k[0] = [caps |-> hid.caps, chars |-> <<>>]
    /\ \A n \in 1 .. Len(seq) : k[n] = Typed(k[n - 1], seq[n], report.shift)
    /\ Typing(hid, report) = k[Len(seq)]

LEMMA TypingIs ==
    ASSUME NEW X, NEW hid, NEW report, NEW seq \in Seq(X), seq = NewKeys(hid, report)
    PROVE  \E k : TypingRun(k, hid, report, seq)
<1> DEFINE fold == [name |-> "type", of |-> report.shift]
           f == CHOOSE f : f = [s \in SUBSET DOMAIN seq |->
                    IF s = {} THEN [caps |-> hid.caps, chars |-> <<>>]
                    ELSE Typed(f[s \ {Max(s)}], seq[Max(s)], report.shift)]
<1>0. DOMAIN seq = 1 .. Len(seq) /\ Len(seq) \in Nat
  OBVIOUS
<1>1. Typing(hid, report) = f[DOMAIN seq]
  BY Zenon DEF Typing, Typed, FoldLeft, MapThenFoldSet
<1>2. \A acc, e : FoldStep(fold, acc, e) = Typed(acc, e, report.shift)
  BY DEF FoldStep
<1> HIDE DEF fold
<1>3. \E g : g = [s \in SUBSET DOMAIN seq |->
                    IF s = {} THEN [caps |-> hid.caps, chars |-> <<>>]
                    ELSE Typed(g[s \ {Max(s)}], seq[Max(s)], report.shift)]
  <2>1. PICK g : Folding(g, fold, [caps |-> hid.caps, chars |-> <<>>], seq, Len(seq))
    BY <1>0, FoldingExists
  <2>2. g = [s \in SUBSET DOMAIN seq |->
                    IF s = {} THEN [caps |-> hid.caps, chars |-> <<>>]
                    ELSE Typed(g[s \ {Max(s)}], seq[Max(s)], report.shift)]
    BY <1>0, <1>2, <2>1 DEF Folding
  <2> QED BY <2>2, Zenon
<1>4. f = [s \in SUBSET DOMAIN seq |->
                    IF s = {} THEN [caps |-> hid.caps, chars |-> <<>>]
                    ELSE Typed(f[s \ {Max(s)}], seq[Max(s)], report.shift)]
  BY <1>3, Zenon
<1> HIDE DEF f
<1>5. Folding(f, fold, [caps |-> hid.caps, chars |-> <<>>], seq, Len(seq))
  BY <1>0, <1>2, <1>4 DEF Folding
<1>6. PICK k : Folds(k, fold, [caps |-> hid.caps, chars |-> <<>>], seq) /\ f[DOMAIN seq] = k[Len(seq)]
  BY <1>5, FoldingGives
<1>7. \A n \in 1 .. Len(seq) : k[n] = Typed(k[n - 1], seq[n], report.shift)
  BY <1>2, <1>6 DEF Folds
<1>8. TypingRun(k, hid, report, seq)
  BY <1>1, <1>6, <1>7 DEF Folds, TypingRun
<1> QED BY <1>8

-----------------------------------------------------------------------------
(* The keyboards and mice: the specification and its inductive invariant.  *)

\* A person types and points while the ports are scanned and polled and the
\* readers read; lost reports are not the end of a behaviour.
HidNext == UsbNext \/ Types \/ Points

hid_vars == <<usb_vars, input_vars>>

HidSpec == UsbInit /\ [][HidNext]_hid_vars

AllKeys == Keys \cup {CapsLock}
Chars == [key : Keys, upper : BOOLEAN, again : BOOLEAN]
Spots == [x : 0 .. Width - 1, y : 0 .. Height - 1, button : BOOLEAN]

KeyReports == [shift : BOOLEAN, keys : Seq(AllKeys)]
MouseReports == [dx : Int, dy : Int, button : BOOLEAN]
ReportsOf(type) == IF type = "keyboard" THEN KeyReports ELSE MouseReports
AnyReport == KeyReports \cup MouseReports

Entries ==
    [type : Interfaces, addr : Nat \ {0}, toggle : BOOLEAN, caps : BOOLEAN,
     last : SUBSET (AllKeys \cup BOOLEAN), repeat : AllKeys]

Devices ==
    [enabled : BOOLEAN, addr : Nat, toggle : [Interfaces -> BOOLEAN],
     fifo : [Interfaces -> Seq(AnyReport)]]

InputTypes ==
    /\ keyboard \in [buffer : Seq(Chars), shift : BOOLEAN, caps : BOOLEAN, usb : BOOLEAN]
    /\ mouse \in [x : 0 .. Width - 1, y : 0 .. Height - 1, button : BOOLEAN,
                  queue : Seq(Spots), usb : BOOLEAN]
    /\ person \in [shift : SUBSET ShiftKeys, caps : BOOLEAN, keys : Seq(AllKeys)]
    /\ typed \in Seq(Chars)
    /\ hand \in Spots /\ seen \in Spots

LineTypes ==
    /\ plug \in Plugs
    /\ port \in Nat \ {0} /\ g_next_usb_address \in Nat \ {0}
    /\ device \in [DOMAIN plug -> Devices]
    /\ \A p \in DOMAIN plug, type \in Interfaces : device[p].fifo[type] \in Seq(ReportsOf(type))
    /\ g_hid_devices \in Seq(Entries)
    /\ td \in [slot : {0} \cup DOMAIN g_hid_devices, done : BOOLEAN, report : SUBSET AnyReport]
    /\ td.slot # 0 => td.report \subseteq ReportsOf(g_hid_devices[td.slot].type)

\* No two devices answer at an address, and no two entries share an interface.
Addresses ==
    /\ \A p \in DOMAIN plug : device[p].addr < g_next_usb_address
                              /\ (device[p].enabled => p < port)
    /\ \A p, q \in DOMAIN plug :
          device[p].enabled /\ device[q].enabled /\ device[p].addr = device[q].addr
          /\ device[p].addr # 0 => p = q
    /\ \A k \in DOMAIN g_hid_devices : g_hid_devices[k].addr < g_next_usb_address
    /\ \A j, k \in DOMAIN g_hid_devices :
          g_hid_devices[j].addr = g_hid_devices[k].addr
          /\ g_hid_devices[j].type = g_hid_devices[k].type => j = k
    /\ keyboard.usb <=> Has(g_hid_devices, "keyboard")
    /\ mouse.usb <=> Has(g_hid_devices, "mouse")

At == [x |-> mouse.x, y |-> mouse.y, button |-> mouse.button]

\* Nothing has been polled or touched.
Fresh ==
    /\ td = NoTd
    /\ \A p \in DOMAIN plug, type \in Interfaces :
          device[p].fifo[type] = <<>> /\ ~device[p].toggle[type]
    /\ \A k \in DOMAIN g_hid_devices :
          /\ ~g_hid_devices[k].toggle /\ ~g_hid_devices[k].caps
          /\ g_hid_devices[k].type = "keyboard" => g_hid_devices[k].last = {}
          /\ g_hid_devices[k].type = "mouse" => g_hid_devices[k].last = {FALSE}
    /\ keyboard.buffer = <<>> /\ ~keyboard.shift /\ ~keyboard.caps
    /\ person = [shift |-> {}, caps |-> FALSE, keys |-> <<>>]
    /\ typed = <<>>
    /\ At = Centre /\ mouse.queue = <<>> /\ hand = Centre /\ seen = Centre

\* The entry k is that of the device p, which the person uses.
InHand(k, p, type) ==
    /\ k \in DOMAIN g_hid_devices /\ p \in DOMAIN plug
    /\ g_hid_devices[k].type = type /\ type \in plug[p]
    /\ device[p].enabled /\ device[p].addr = g_hid_devices[k].addr
    /\ \A q \in InUse(type) : p <= q

\* Devices nobody uses have nothing to say, and what was received came from
\* one that is used.
Silence ==
    /\ \A p \in DOMAIN plug, type \in Interfaces :
          device[p].fifo[type] # <<>> => \E k : InHand(k, p, type)
    /\ td.done => td.slot # 0 /\ \E p : InHand(td.slot, p, g_hid_devices[td.slot].type)

\* w is what a device has to say that its driver has not been told yet: a
\* report may be received and its acknowledgement under way, or lost.
Untold(came, report, agree, fifo, w) ==
    IF came THEN w # <<>> /\ report = {w[1]} /\ fifo = IF agree THEN w ELSE Tail(w)
    ELSE IF agree THEN fifo = w ELSE fifo # <<>> /\ w = Tail(fifo)

Carried(type, k, p, w) ==
    Untold(td.slot = k /\ td.done, td.report,
           device[p].toggle[type] = g_hid_devices[k].toggle, device[p].fifo[type], w)

MovedBy(spot, report) ==
    [x |-> clamp_i32(spot.x + report.dx, 0, Width - 1),
     y |-> clamp_i32(spot.y + report.dy, 0, Height - 1), button |-> report.button]

\* The reports take the pointer to where the hand is.
Track(w) ==
    \E s \in [0 .. Len(w) -> Spots] :
        /\ s[0] = At /\ s[Len(w)] = hand
        /\ \A i \in 1 .. Len(w) : s[i] = MovedBy(s[i - 1], w[i])

PointerSound ==
    /\ IF mouse.queue = <<>> THEN seen = At ELSE mouse.queue[Len(mouse.queue)] = At
    /\ \A k, p : InHand(k, p, "mouse") =>
          /\ g_hid_devices[k].last = {mouse.button}
          /\ \E w \in Seq(MouseReports) : Carried("mouse", k, p, w) /\ Track(w)
    /\ (\A k, p : ~InHand(k, p, "mouse")) => hand = At

\* A report says that one more key is down, or that none is.
OneEvent(before, caps, report, caps2, rest, rest2) ==
    \/ ToSet(report.keys) \subseteq before /\ caps2 = caps /\ rest = rest2
    \/ \E ks \in Seq(AllKeys), key \in AllKeys :
          /\ report.keys = Append(ks, key) /\ ToSet(ks) \subseteq before /\ key \notin before
          /\ IF key = CapsLock THEN caps2 = ~caps /\ rest = rest2
             ELSE caps2 = caps /\ rest = <<Char(key, report.shift, caps)>> \o rest2

\* The reports make up what was typed and is not in the ring: down[i] are the
\* keys down after i reports, rest[i] the characters still to come.
Script(hid, w) ==
    \E down \in [0 .. Len(w) -> SUBSET AllKeys], caps \in [0 .. Len(w) -> BOOLEAN],
       rest \in [0 .. Len(w) -> Seq(Chars)] :
        /\ down[0] = hid.last /\ caps[0] = hid.caps
        /\ typed = Plain(keyboard.buffer) \o rest[0]
        /\ down[Len(w)] = ToSet(person.keys) /\ caps[Len(w)] = person.caps
        /\ rest[Len(w)] = <<>>
        /\ \A i \in 1 .. Len(w) :
              /\ down[i] = ToSet(w[i].keys)
              /\ OneEvent(down[i - 1], caps[i - 1], w[i], caps[i], rest[i - 1], rest[i])

KeysSound ==
    /\ \A k, p : InHand(k, p, "keyboard") =>
          \E w \in Seq(KeyReports) : Carried("keyboard", k, p, w) /\ Script(g_hid_devices[k], w)
    /\ (\A k, p : ~InHand(k, p, "keyboard")) =>
          /\ typed = Plain(keyboard.buffer)
          /\ ~keyboard.usb => keyboard.shift = Shifted(person) /\ keyboard.caps = person.caps

InUseSound ==
    /\ Silence
    /\ "mouse" \notin lost => PointerSound
    /\ "keyboard" \notin lost => KeysSound

HidInv ==
    /\ InputTypes /\ LineTypes /\ Addresses
    /\ \/ Fresh
       \/ Scanned /\ InUseSound

LEMMA CharType ==
    ASSUME NEW key \in Keys, NEW shift \in BOOLEAN, NEW caps \in BOOLEAN
    PROVE  Char(key, shift, caps) \in Chars /\ ~Char(key, shift, caps).again
BY DEF Char, Chars, Upper

Said == {c \in Chars : ~c.again}

\* Characters that are not repetitions, whatever sequence they are in.
LEMMA PlainIs == ASSUME NEW s \in Seq(Chars) PROVE Plain(s) = Only(s, Said)
<1> DEFINE S == {c \in ToSet(s) : ~c.again}
<1>1. \A i \in 1 .. Len(s) : s[i] \in S <=> s[i] \in Said
  BY DEF ToSet, Said
<1>2. Plain(s) = Only(s, S)
  BY Zenon DEF Plain
<1> HIDE DEF S
<1> QED BY <1>1, <1>2, OnlyAgrees

LEMMA PlainType == ASSUME NEW s \in Seq(Chars) PROVE Plain(s) \in Seq(Chars)
<1>1. Plain(s) \in Seq(Chars \cap Said)
  BY PlainIs, OnlyType
<1> QED BY <1>1

LEMMA PlainEmpty == Plain(<<>>) = <<>>
<1>1. <<>> \in Seq(Chars)
  OBVIOUS
<1> QED BY <1>1, PlainIs, OnlyEmpty

LEMMA PlainAppend ==
    ASSUME NEW s \in Seq(Chars), NEW c \in Chars
    PROVE  Plain(Append(s, c)) = IF c.again THEN Plain(s) ELSE Append(Plain(s), c)
<1>1. Append(s, c) \in Seq(Chars)
  OBVIOUS
<1>2. Plain(Append(s, c)) = Only(Append(s, c), Said) /\ Plain(s) = Only(s, Said)
  BY <1>1, PlainIs
<1>3. Only(Append(s, c), Said) = Kept(Only(s, Said), c, Said)
  BY OnlyAppend
<1>4. c \in Said <=> ~c.again
  BY DEF Said
<1> QED BY <1>2, <1>3, <1>4 DEF Kept

LEMMA PlainHead ==
    ASSUME NEW s \in Seq(Chars), s # <<>>
    PROVE  Plain(s) = IF Head(s).again THEN Plain(Tail(s)) ELSE <<Head(s)>> \o Plain(Tail(s))
<1>1. Tail(s) \in Seq(Chars) /\ Head(s) \in Chars
  OBVIOUS
<1>2. Plain(Tail(s)) = Only(Tail(s), Said) /\ Plain(s) = Only(s, Said)
  BY <1>1, PlainIs
<1>3. Only(s, Said) = IF Head(s) \in Said THEN <<Head(s)>> \o Only(Tail(s), Said)
                      ELSE Only(Tail(s), Said)
  BY OnlyHead
<1>4. Head(s) \in Said <=> ~Head(s).again
  BY <1>1 DEF Said
<1> QED BY <1>2, <1>3, <1>4

LEMMA NewKeysType ==
    ASSUME NEW hid, NEW report \in KeyReports
    PROVE  NewKeys(hid, report) \in Seq(AllKeys)
<1>1. report.keys \in Seq(AllKeys)
  BY DEF KeyReports
<1>2. NewKeys(hid, report) \in Seq(AllKeys \cap (ToSet(report.keys) \ hid.last))
  BY <1>1, OnlyType DEF NewKeys
<1> QED BY <1>2

Typings == [caps : BOOLEAN, chars : Seq(Chars)]

LEMMA TypedType ==
    ASSUME NEW s \in Typings, NEW key \in AllKeys, NEW shift \in BOOLEAN
    PROVE  Typed(s, key, shift) \in Typings
<1>1. CASE key = CapsLock
  BY <1>1 DEF Typed, Typings
<1>2. CASE key # CapsLock
  <2>1. Char(key, shift, s.caps) \in Chars
    BY <1>2, CharType DEF Typings, AllKeys
  <2> QED BY <1>2, <2>1 DEF Typed, Typings
<1> QED BY <1>1, <1>2

LEMMA TypingType ==
    ASSUME NEW hid, hid.caps \in BOOLEAN, NEW report \in KeyReports
    PROVE  Typing(hid, report) \in Typings
<1> DEFINE seq == NewKeys(hid, report)
<1>1. seq \in Seq(AllKeys) /\ report.shift \in BOOLEAN
  BY NewKeysType DEF KeyReports
<1>2. PICK k : /\ k[0] = [caps |-> hid.caps, chars |-> <<>>]
               /\ \A n \in 1 .. Len(seq) : k[n] = Typed(k[n - 1], seq[n], report.shift)
               /\ Typing(hid, report) = k[Len(seq)]
  <2>1. \E k : TypingRun(k, hid, report, seq)
    BY <1>1, TypingIs
  <2> QED BY <2>1 DEF TypingRun
<1> HIDE DEF seq
<1> DEFINE T == {n \in Nat : n <= Len(seq) => k[n] \in Typings}
<1>3. 0 \in T
  <2>1. k[0] \in Typings
    BY <1>2 DEF Typings
  <2> QED BY <2>1
<1>4. ASSUME NEW n \in Nat, n \in T PROVE n + 1 \in T
  <2>1. CASE n + 1 <= Len(seq)
    <3>1. n + 1 \in 1 .. Len(seq) /\ (n + 1) - 1 = n /\ n <= Len(seq) /\ seq[n + 1] \in AllKeys
      BY <1>1, <2>1
    <3>2. k[n + 1] = Typed(k[n], seq[n + 1], report.shift)
      BY <1>2, <3>1, Zenon
    <3>3. k[n + 1] \in Typings
      BY <1>1, <1>4, <3>1, <3>2, TypedType
    <3> QED BY <3>3
  <2>2. CASE ~(n + 1 <= Len(seq))
    BY <2>2
  <2> QED BY <2>1, <2>2
<1>5. Nat \subseteq T
  <2> HIDE DEF T
  <2> QED BY <1>3, <1>4, NaturalInduction
<1> QED BY <1>1, <1>2, <1>5

Repeated == {c \in Chars : c.again}

\* The characters of a report: at most one that was typed, at most one again.
Comes(chars, rest, rest2) ==
    \/ chars = <<>> /\ rest = rest2
    \/ \E c \in Said : chars = <<c>> /\ rest = <<c>> \o rest2

Repeats(again) == again = <<>> \/ \E c \in Repeated : again = <<c>>

\* The characters of a report, and caps lock after it.
LEMMA TypingOfEvent ==
    ASSUME NEW hid, NEW report \in KeyReports, NEW caps, NEW rest \in Seq(Chars),
           NEW rest2 \in Seq(Chars), hid.caps \in BOOLEAN,
           OneEvent(hid.last, hid.caps, report, caps, rest, rest2)
    PROVE  Typing(hid, report).caps = caps /\ Comes(Typing(hid, report).chars, rest, rest2)
<1> DEFINE seq == NewKeys(hid, report)
           new == ToSet(report.keys) \ hid.last
           start == [caps |-> hid.caps, chars |-> <<>>]
<1>1. seq \in Seq(AllKeys) /\ report.shift \in BOOLEAN /\ report.keys \in Seq(AllKeys)
  BY NewKeysType DEF KeyReports
<1>2. PICK k : /\ k[0] = start
               /\ \A n \in 1 .. Len(seq) : k[n] = Typed(k[n - 1], seq[n], report.shift)
               /\ Typing(hid, report) = k[Len(seq)]
  <2>1. \E k : TypingRun(k, hid, report, seq)
    BY <1>1, TypingIs
  <2> QED BY <2>1 DEF TypingRun
<1>3. seq = Only(report.keys, new)
  BY DEF NewKeys
<1> HIDE DEF seq
<1>4. CASE ToSet(report.keys) \subseteq hid.last /\ caps = hid.caps /\ rest = rest2
  <2>1. seq = <<>>
    <3>1. \A i \in 1 .. Len(report.keys) : report.keys[i] \notin new
      BY <1>1, <1>4 DEF ToSet
    <3> HIDE DEF new
    <3> QED BY <1>1, <1>3, <3>1, OnlyNone
  <2>2. Typing(hid, report) = start
    BY <1>2, <2>1
  <2> QED BY <1>4, <2>2 DEF Comes
<1>5. ASSUME NEW ks \in Seq(AllKeys), NEW key \in AllKeys,
             report.keys = Append(ks, key), ToSet(ks) \subseteq hid.last, key \notin hid.last,
             IF key = CapsLock THEN caps = ~hid.caps /\ rest = rest2
             ELSE caps = hid.caps /\ rest = <<Char(key, report.shift, hid.caps)>> \o rest2
      PROVE  Typing(hid, report).caps = caps /\ Comes(Typing(hid, report).chars, rest, rest2)
  <2>1. seq = <<key>>
    <3>1. \A i \in 1 .. Len(ks) : ks[i] \notin new
      BY <1>5 DEF ToSet
    <3>2. key \in new
      <4>1. Len(report.keys) \in DOMAIN report.keys /\ report.keys[Len(report.keys)] = key
        BY <1>5
      <4> QED BY <1>5, <4>1 DEF ToSet
    <3> HIDE DEF new
    <3>3. Only(ks, new) = <<>>
      BY <3>1, OnlyNone
    <3>4. seq = Kept(<<>>, key, new)
      BY <1>3, <1>5, <3>3, OnlyAppend
    <3>5. Append(<<>>, key) = <<key>>
      OBVIOUS
    <3> QED BY <3>2, <3>4, <3>5 DEF Kept
  <2>2. Typing(hid, report) = Typed(start, key, report.shift)
    <3>1. Len(seq) = 1 /\ seq[1] = key /\ 1 \in 1 .. Len(seq) /\ 1 - 1 = 0
      BY <2>1
    <3>2. k[1] = Typed(k[0], key, report.shift)
      BY <1>2, <3>1
    <3> QED BY <1>2, <3>1, <3>2
  <2>3. CASE key = CapsLock
    <3>1. Typing(hid, report) = [start EXCEPT !.caps = ~@]
      BY <2>2, <2>3 DEF Typed
    <3>2. Typing(hid, report).caps = ~hid.caps /\ Typing(hid, report).chars = <<>>
      BY <3>1
    <3> QED BY <1>5, <2>3, <3>2 DEF Comes
  <2>4. CASE key # CapsLock
    <3> DEFINE c == Char(key, report.shift, hid.caps)
    <3>1. c \in Said
      BY <1>1, <2>4, CharType DEF AllKeys, Said
    <3> HIDE DEF c
    <3>2. Typing(hid, report) = [start EXCEPT !.chars = Append(@, c)]
      BY <2>2, <2>4 DEF Typed, c
    <3>3. Typing(hid, report).caps = hid.caps /\ Typing(hid, report).chars = <<c>>
      BY <3>2
    <3>4. caps = hid.caps /\ rest = <<c>> \o rest2
      BY <1>5, <2>4 DEF c
    <3> QED BY <3>1, <3>3, <3>4 DEF Comes
  <2> QED BY <2>3, <2>4
<1> QED BY <1>4, <1>5, Zenon DEF OneEvent

Rings == [buffer : Seq(Chars), typed : Seq(Chars)]

LEMMA RemoveFirstOfRest ==
    ASSUME NEW a \in Seq(Chars), NEW c \in Chars, NEW r \in Seq(Chars)
    PROVE  RemoveAt(a \o (<<c>> \o r), Len(a) + 1) = a \o r
<1> DEFINE n == Len(a)
           t == a \o (<<c>> \o r)
<1>1. <<c>> \in Seq(Chars) /\ n \in Nat /\ Len(r) \in Nat
  OBVIOUS
<1>2. <<c>> \o r \in Seq(Chars) /\ Len(<<c>> \o r) = Len(r) + 1 /\ (<<c>> \o r)[1] = c
      /\ \A i \in 1 .. Len(r) : (<<c>> \o r)[i + 1] = r[i]
  BY <1>1
<1>3. t \in Seq(Chars) /\ Len(t) = n + Len(r) + 1
  BY <1>1, <1>2, ConcatProperties
<1>4. (\A i \in 1 .. n : t[i] = a[i]) /\ (\A i \in 1 .. Len(r) : t[n + 1 + i] = r[i])
  <2>1. \A i \in 1 .. n : t[i] = a[i]
    BY <1>2, ConcatProperties
  <2>2. ASSUME NEW i \in 1 .. Len(r) PROVE t[n + 1 + i] = r[i]
    <3>1. n + 1 + i \in 1 .. n + Len(<<c>> \o r) /\ n + 1 + i > n /\ n + 1 + i - n = i + 1
      BY <1>1, <1>2
    <3>2. t[n + 1 + i] = (<<c>> \o r)[n + 1 + i - n]
      BY <1>1, <1>2, <3>1, ConcatProperties
    <3> QED BY <1>2, <3>1, <3>2
  <2> QED BY <2>1, <2>2
<1> HIDE DEF t
<1> DEFINE u == SubSeq(t, 1, (n + 1) - 1)
           v == SubSeq(t, (n + 1) + 1, Len(t))
<1>5. u = a
  <2>1. u \in Seq(Chars) /\ Len(u) = n /\ \A i \in 1 .. n : u[i] = t[i]
    BY <1>1, <1>3
  <2> HIDE DEF u
  <2> QED BY <1>1, <1>4, <2>1, SeqEqual
<1>6. v = r
  <2>1. v \in Seq(Chars) /\ Len(v) = Len(r) /\ \A i \in 1 .. Len(r) : v[i] = t[n + 1 + i]
    BY <1>1, <1>3
  <2> HIDE DEF v
  <2> QED BY <1>1, <1>4, <2>1, SeqEqual
<1>7. RemoveAt(t, n + 1) = u \o v
  BY Zenon DEF RemoveAt
<1> HIDE DEF u, v
<1>8. RemoveAt(t, n + 1) = a \o r
  BY <1>5, <1>6, <1>7
<1> QED BY <1>8, Zenon DEF t

LEMMA PushType ==
    ASSUME NEW s \in Rings, NEW c \in Chars
    PROVE  key_buffer_push(s, c) \in Rings
<1>1. s.buffer \in Seq(Chars) /\ s.typed \in Seq(Chars) /\ Append(s.buffer, c) \in Seq(Chars)
  BY DEF Rings
<1>2. CASE Len(s.buffer) < KeyBufferSize - 1
  BY <1>1, <1>2 DEF key_buffer_push, Rings
<1>3. CASE ~(Len(s.buffer) < KeyBufferSize - 1)
  <2> DEFINE n == Len(Plain(s.buffer)) + 1
  <2>1. n \in Nat \ {0}
    BY <1>1, PlainType
  <2>2. CASE c.again \/ Len(Plain(s.buffer)) >= Len(s.typed)
    BY <1>3, <2>2 DEF key_buffer_push
  <2>3. CASE ~(c.again \/ Len(Plain(s.buffer)) >= Len(s.typed))
    <3>0. n <= Len(s.typed) /\ Len(s.typed) \in Nat
      BY <1>1, <2>1, <2>3
    <3> HIDE DEF n
    <3>1. SubSeq(s.typed, 1, n - 1) \in Seq(Chars) /\ SubSeq(s.typed, n + 1, Len(s.typed)) \in Seq(Chars)
      BY <1>1, <2>1, <3>0
    <3>2. RemoveAt(s.typed, n) \in Seq(Chars)
      BY <3>1, ConcatProperties DEF RemoveAt
    <3>3. key_buffer_push(s, c) = [s EXCEPT !.typed = RemoveAt(s.typed, n)]
      BY <1>3, <2>3, Zenon DEF key_buffer_push, n
    <3> QED BY <3>2, <3>3 DEF Rings
  <2> QED BY <2>2, <2>3
<1> QED BY <1>2, <1>3

\* A character that was typed, and what is still to come.
LEMMA PushSaid ==
    ASSUME NEW s \in Rings, NEW c \in Said, NEW r \in Seq(Chars),
           s.typed = Plain(s.buffer) \o (<<c>> \o r)
    PROVE  LET t == key_buffer_push(s, c) IN t.typed = Plain(t.buffer) \o r
<1> DEFINE b == s.buffer
           a == Plain(b)
<1>1. b \in Seq(Chars) /\ a \in Seq(Chars) /\ c \in Chars /\ ~c.again /\ <<c>> \in Seq(Chars)
  BY PlainType DEF Rings, Said
<1>2. CASE Len(b) < KeyBufferSize - 1
  <2>1. /\ key_buffer_push(s, c).typed = s.typed
        /\ key_buffer_push(s, c).buffer = Append(b, c)
    BY <1>2 DEF key_buffer_push, Rings
  <2>2. Plain(Append(b, c)) = Append(a, c)
    BY <1>1, PlainAppend
  <2> HIDE DEF a, b
  <2>3. Append(a, c) = a \o <<c>>
    BY <1>1, AppendIsConcat
  <2>4. (a \o <<c>>) \o r = a \o (<<c>> \o r)
    BY <1>1, ConcatAssociative
  <2>5. s.typed = a \o (<<c>> \o r)
    BY DEF a, b
  <2> QED BY <2>1, <2>2, <2>3, <2>4, <2>5
<1>3. CASE ~(Len(b) < KeyBufferSize - 1)
  <2>1. Len(s.typed) = Len(a) + Len(r) + 1
    <3>1. Len(<<c>> \o r) = 1 + Len(r) /\ <<c>> \o r \in Seq(Chars) /\ Len(r) \in Nat /\ Len(a) \in Nat
      BY <1>1, ConcatProperties
    <3>2. Len(a \o (<<c>> \o r)) = Len(a) + Len(<<c>> \o r)
      BY <1>1, <3>1, ConcatProperties
    <3> QED BY <3>1, <3>2
  <2>2. ~(c.again \/ Len(a) >= Len(s.typed))
    BY <1>1, <2>1
  <2>3. key_buffer_push(s, c) = [s EXCEPT !.typed = RemoveAt(s.typed, Len(a) + 1)]
    BY <1>3, <2>2, Zenon DEF key_buffer_push
  <2>4. RemoveAt(s.typed, Len(a) + 1) = a \o r
    BY <1>1, RemoveFirstOfRest
  <2>5. key_buffer_push(s, c).typed = a \o r /\ key_buffer_push(s, c).buffer = b
    <3> HIDE DEF a
    <3> QED BY <2>3, <2>4 DEF Rings
  <2> QED BY <2>5
<1> QED BY <1>2, <1>3

\* A character that a held key repeats.
LEMMA PushAgain ==
    ASSUME NEW s \in Rings, NEW c \in Chars, c.again, NEW r,
           s.typed = Plain(s.buffer) \o r
    PROVE  LET t == key_buffer_push(s, c) IN t.typed = Plain(t.buffer) \o r
<1>1. s.buffer \in Seq(Chars)
  BY DEF Rings
<1>2. CASE Len(s.buffer) < KeyBufferSize - 1
  <2>1. /\ key_buffer_push(s, c).typed = s.typed
        /\ key_buffer_push(s, c).buffer = Append(s.buffer, c)
    BY <1>2 DEF key_buffer_push, Rings
  <2>2. Plain(Append(s.buffer, c)) = Plain(s.buffer)
    BY <1>1, PlainAppend
  <2> QED BY <2>1, <2>2
<1>3. CASE ~(Len(s.buffer) < KeyBufferSize - 1)
  BY <1>3 DEF key_buffer_push
<1> QED BY <1>2, <1>3

LEMMA PushedType ==
    ASSUME NEW seq \in Seq(Chars), NEW expected \in Seq(Chars), keyboard.buffer \in Seq(Chars)
    PROVE  Pushed(seq, expected) \in Rings
<1>1. PICK k : PushedRun(k, seq, expected)
  BY PushedIs
<1>2. /\ k[0] = [buffer |-> keyboard.buffer, typed |-> expected]
      /\ \A n \in 1 .. Len(seq) : k[n] = key_buffer_push(k[n - 1], seq[n])
      /\ Pushed(seq, expected) = k[Len(seq)]
  BY <1>1 DEF PushedRun
<1> DEFINE T == {n \in Nat : n <= Len(seq) => k[n] \in Rings}
<1>3. 0 \in T
  <2>1. k[0] \in Rings
    BY <1>2 DEF Rings
  <2> QED BY <2>1
<1>4. ASSUME NEW n \in Nat, n \in T PROVE n + 1 \in T
  <2>1. CASE n + 1 <= Len(seq)
    <3>1. n + 1 \in 1 .. Len(seq) /\ (n + 1) - 1 = n /\ n <= Len(seq) /\ seq[n + 1] \in Chars
      BY <2>1
    <3>2. k[n + 1] = key_buffer_push(k[n], seq[n + 1])
      BY <1>2, <3>1, Zenon
    <3>3. k[n + 1] \in Rings
      BY <1>4, <3>1, <3>2, PushType
    <3> QED BY <3>3
  <2>2. CASE ~(n + 1 <= Len(seq))
    BY <2>2
  <2> QED BY <2>1, <2>2
<1>5. Nat \subseteq T
  <2> HIDE DEF T
  <2> QED BY <1>3, <1>4, NaturalInduction
<1> QED BY <1>2, <1>5

Fits(s, rest) == s \in Rings /\ s.typed = Plain(s.buffer) \o rest

\* What the ring and its expectation are after the characters of a report: at
\* most one that was typed, at most one that is repeated.
LEMMA PushedKeeps ==
    ASSUME NEW chars, NEW again, NEW rest \in Seq(Chars), NEW rest2 \in Seq(Chars),
           NEW expected \in Seq(Chars), keyboard.buffer \in Seq(Chars),
           expected = Plain(keyboard.buffer) \o rest, Comes(chars, rest, rest2), Repeats(again)
    PROVE  Fits(Pushed(chars \o again, expected), rest2)
<1> DEFINE seq == chars \o again
           start == [buffer |-> keyboard.buffer, typed |-> expected]
<1>0. chars \in Seq(Chars) /\ again \in Seq(Chars)
  <2>1. \A c \in Said : c \in Chars
    BY DEF Said
  <2>2. \A c \in Repeated : c \in Chars
    BY DEF Repeated
  <2>3. <<>> \in Seq(Chars) /\ \A c \in Chars : <<c>> \in Seq(Chars)
    OBVIOUS
  <2> QED BY <2>1, <2>2, <2>3, Zenon DEF Comes, Repeats
<1>1. seq \in Seq(Chars)
  BY <1>0, ConcatProperties
<1>2. PICK k : PushedRun(k, seq, expected)
  BY <1>1, PushedIs
<1>3. /\ k[0] = start
      /\ \A n \in 1 .. Len(seq) : k[n] = key_buffer_push(k[n - 1], seq[n])
      /\ Pushed(seq, expected) = k[Len(seq)]
  BY <1>2 DEF PushedRun
<1>4. Pushed(seq, expected) \in Rings
  BY <1>1, PushedType
<1>5. start \in Rings /\ start.typed = Plain(start.buffer) \o rest
  BY DEF Rings
<1> HIDE DEF start
<1>6. ASSUME NEW s, Fits(s, rest2), NEW c \in Repeated PROVE Fits(key_buffer_push(s, c), rest2)
  <2>1. c \in Chars /\ c.again
    BY DEF Repeated
  <2> QED BY <1>6, <2>1, PushType, PushAgain DEF Fits
<1>7. ASSUME NEW c \in Said, rest = <<c>> \o rest2 PROVE Fits(key_buffer_push(start, c), rest2)
  <2>1. c \in Chars
    BY DEF Said
  <2> QED BY <1>5, <1>7, <2>1, PushType, PushSaid DEF Fits
<1>8. CASE chars = <<>> /\ rest = rest2
  <2>1. Fits(start, rest2)
    BY <1>5, <1>8 DEF Fits
  <2>2. CASE again = <<>>
    <3>1. Len(seq) = 0
      BY <1>8, <2>2
    <3> QED BY <1>3, <2>1, <3>1
  <2>3. ASSUME NEW c \in Repeated, again = <<c>> PROVE Fits(Pushed(seq, expected), rest2)
    <3>1. Len(seq) = 1 /\ seq[1] = c /\ 1 \in 1 .. Len(seq) /\ 1 - 1 = 0
      BY <1>8, <2>3
    <3>2. Pushed(seq, expected) = key_buffer_push(start, c)
      BY <1>3, <3>1
    <3> QED BY <1>6, <2>1, <3>2
  <2> QED BY <2>2, <2>3 DEF Repeats
<1>9. ASSUME NEW c \in Said, chars = <<c>>, rest = <<c>> \o rest2
      PROVE  Fits(Pushed(seq, expected), rest2)
  <2>1. Fits(key_buffer_push(start, c), rest2)
    BY <1>7, <1>9
  <2>2. CASE again = <<>>
    <3>1. Len(seq) = 1 /\ seq[1] = c /\ 1 \in 1 .. Len(seq) /\ 1 - 1 = 0
      BY <1>9, <2>2
    <3>2. Pushed(seq, expected) = key_buffer_push(start, c)
      BY <1>3, <3>1
    <3> QED BY <2>1, <3>2
  <2>3. ASSUME NEW d \in Repeated, again = <<d>> PROVE Fits(Pushed(seq, expected), rest2)
    <3>1. seq = <<c>> \o <<d>>
      BY <1>9, <2>3
    <3>2. Len(seq) = 2 /\ seq[1] = c /\ seq[2] = d
      BY <3>1
    <3>3. 1 \in 1 .. Len(seq) /\ 2 \in 1 .. Len(seq) /\ 1 - 1 = 0 /\ 2 - 1 = 1
      BY <3>2
    <3> HIDE DEF seq
    <3>4. k[1] = key_buffer_push(start, c)
      BY <1>3, <3>2, <3>3
    <3>5. k[2] = key_buffer_push(k[1], d)
      BY <1>3, <3>2, <3>3
    <3> QED BY <1>3, <1>6, <2>1, <3>2, <3>4, <3>5
  <2> QED BY <2>2, <2>3 DEF Repeats
<1>10. Fits(Pushed(seq, expected), rest2)
  BY <1>8, <1>9 DEF Comes
<1> QED BY <1>10

Base == InputTypes /\ LineTypes /\ Addresses

LEMMA PortsAre == ASSUME NEW pl \in Plugs, NEW p \in DOMAIN pl PROVE p \in Nat
<1>1. p \in Ports /\ Ports = 1 .. Cardinality(Ports) /\ Cardinality(Ports) \in Nat
  BY UsbAssumption, FS_CardinalityType
<1> QED BY <1>1

LEMMA CentreType == Centre \in Spots
BY InputAssumption DEF Centre, Spots

LEMMA EntryIs ==
    ASSUME LineTypes, NEW k \in DOMAIN g_hid_devices
    PROVE  LET hid == g_hid_devices[k]
           IN  /\ hid \in Entries /\ hid.type \in Interfaces /\ hid.addr \in Nat /\ hid.addr # 0
               /\ hid.toggle \in BOOLEAN /\ hid.caps \in BOOLEAN /\ hid.repeat \in AllKeys
               /\ k \in 1 .. Len(g_hid_devices)
<1>1. g_hid_devices[k] \in Entries /\ k \in 1 .. Len(g_hid_devices)
  BY DEF LineTypes
<1> DEFINE hid == g_hid_devices[k]
<1> HIDE DEF hid
<1>2. hid \in Entries
  BY <1>1 DEF hid
<1>3. /\ hid.type \in Interfaces /\ hid.addr \in Nat /\ hid.addr # 0
      /\ hid.toggle \in BOOLEAN /\ hid.caps \in BOOLEAN /\ hid.repeat \in AllKeys
  BY <1>2 DEF Entries
<1> QED BY <1>1, <1>2, <1>3 DEF hid

LEMMA DeviceIs ==
    ASSUME LineTypes, NEW p \in DOMAIN plug
    PROVE  LET d == device[p]
           IN  /\ d \in Devices /\ d.enabled \in BOOLEAN /\ d.addr \in Nat /\ p \in Nat
               /\ d.toggle \in [Interfaces -> BOOLEAN] /\ d.fifo \in [Interfaces -> Seq(AnyReport)]
               /\ \A type \in Interfaces : /\ d.toggle[type] \in BOOLEAN
                                           /\ d.fifo[type] \in Seq(ReportsOf(type))
<1>1. device[p] \in Devices /\ \A type \in Interfaces : device[p].fifo[type] \in Seq(ReportsOf(type))
  BY DEF LineTypes
<1>2. p \in Nat
  BY PortsAre DEF LineTypes
<1> DEFINE d == device[p]
<1> HIDE DEF d
<1>3. d \in Devices /\ \A type \in Interfaces : d.fifo[type] \in Seq(ReportsOf(type))
  BY <1>1 DEF d
<1>4. /\ d.enabled \in BOOLEAN /\ d.addr \in Nat
      /\ d.toggle \in [Interfaces -> BOOLEAN] /\ d.fifo \in [Interfaces -> Seq(AnyReport)]
  BY <1>3 DEF Devices
<1>5. \A type \in Interfaces : d.toggle[type] \in BOOLEAN
  BY <1>4
<1> QED BY <1>2, <1>3, <1>4, <1>5 DEF d

\* Before anything is polled or touched there is nothing to be sound about.
LEMMA FreshGives == Base /\ Fresh => InUseSound
<1> SUFFICES ASSUME Base, Fresh PROVE InUseSound
  OBVIOUS
<1> USE DEF Base
<1>1. ~td.done /\ td.slot = 0
  BY DEF Fresh, NoTd
<1>2. Silence
  BY <1>1 DEF Silence, Fresh
<1>3. ASSUME NEW type \in Interfaces, NEW k, NEW p, InHand(k, p, type)
      PROVE  Carried(type, k, p, <<>>)
  <2>1. device[p].fifo[type] = <<>> /\ ~device[p].toggle[type] /\ ~g_hid_devices[k].toggle
    BY <1>3 DEF Fresh, InHand
  <2>2. device[p].toggle[type] \in BOOLEAN /\ g_hid_devices[k].toggle \in BOOLEAN
    BY <1>3, EntryIs, DeviceIs DEF InHand
  <2>3. device[p].toggle[type] = g_hid_devices[k].toggle
    BY <2>1, <2>2
  <2> QED BY <1>1, <2>1, <2>3 DEF Carried, Untold
<1>4. "mouse" \in Interfaces /\ "keyboard" \in Interfaces
  BY DEF Interfaces
<1>5. PointerSound
  <2>1. ASSUME NEW k, NEW p, InHand(k, p, "mouse")
        PROVE  /\ g_hid_devices[k].last = {mouse.button}
               /\ \E w \in Seq(MouseReports) : Carried("mouse", k, p, w) /\ Track(w)
    <3>1. mouse.button = FALSE
      BY DEF Fresh, At, Centre
    <3>2. g_hid_devices[k].last = {FALSE}
      BY <2>1 DEF Fresh, InHand
    <3>3. Track(<<>>)
      <4> DEFINE f == [i \in 0 .. 0 |-> At]
      <4>1. At \in Spots /\ hand = At
        BY CentreType DEF Fresh
      <4> HIDE DEF At
      <4>2. f \in [0 .. Len(<<>>) -> Spots] /\ f[0] = At /\ f[Len(<<>>)] = hand
        BY <4>1
      <4>3. \A i \in 1 .. Len(<<>>) : f[i] = MovedBy(f[i - 1], <<>>[i])
        OBVIOUS
      <4> HIDE DEF f
      <4> QED BY <4>2, <4>3 DEF Track
    <3>4. <<>> \in Seq(MouseReports)
      OBVIOUS
    <3> QED BY <1>3, <1>4, <2>1, <3>1, <3>2, <3>3, <3>4
  <2> QED BY <2>1 DEF PointerSound, Fresh
<1>6. KeysSound
  <2>0. Plain(keyboard.buffer) = <<>> /\ typed = <<>>
    BY PlainEmpty DEF Fresh
  <2>1. ASSUME NEW k, NEW p, InHand(k, p, "keyboard")
        PROVE  \E w \in Seq(KeyReports) : Carried("keyboard", k, p, w) /\ Script(g_hid_devices[k], w)
    <3> DEFINE hid == g_hid_devices[k]
    <3>1. hid.last = {} /\ hid.caps = person.caps /\ person.caps \in BOOLEAN
      <4>1. ~hid.caps /\ hid.last = {}
        BY <2>1 DEF InHand, Fresh
      <4>2. hid \in Entries
        BY <2>1 DEF LineTypes, InHand
      <4>3. hid.caps \in BOOLEAN
        BY <4>2 DEF Entries
      <4>4. ~person.caps /\ person.caps \in BOOLEAN
        BY DEF Fresh
      <4> HIDE DEF hid
      <4> QED BY <4>1, <4>3, <4>4
    <3> HIDE DEF hid
    <3>2. person.keys = <<>>
      BY DEF Fresh
    <3>3. Script(hid, <<>>)
      <4> DEFINE down == [i \in 0 .. 0 |-> {}]
                 caps == [i \in 0 .. 0 |-> person.caps]
                 rest == [i \in 0 .. 0 |-> <<>>]
      <4>1. /\ down \in [0 .. Len(<<>>) -> SUBSET AllKeys] /\ caps \in [0 .. Len(<<>>) -> BOOLEAN]
            /\ rest \in [0 .. Len(<<>>) -> Seq(Chars)]
        BY <3>1
      <4>2. down[0] = hid.last /\ caps[0] = hid.caps /\ rest[0] = <<>> /\ Len(<<>>) = 0
        BY <3>1
      <4>3. ToSet(person.keys) = {}
        BY <3>2 DEF ToSet
      <4>4. down[0] = ToSet(person.keys) /\ caps[0] = person.caps
        BY <3>2, <4>3
      <4>5. typed = Plain(keyboard.buffer) \o rest[0]
        BY <2>0, <4>2
      <4>6. \A i \in 1 .. Len(<<>>) :
              /\ down[i] = ToSet(<<>>[i].keys)
              /\ OneEvent(down[i - 1], caps[i - 1], <<>>[i], caps[i], rest[i - 1], rest[i])
        OBVIOUS
      <4> HIDE DEF down, caps, rest
      <4> QED BY <4>1, <4>2, <4>4, <4>5, <4>6 DEF Script
    <3>4. <<>> \in Seq(KeyReports)
      OBVIOUS
    <3> QED BY <1>3, <1>4, <2>1, <3>3, <3>4 DEF hid
  <2>2. keyboard.shift = Shifted(person) /\ keyboard.caps = person.caps
    <3>1. keyboard.shift \in BOOLEAN /\ keyboard.caps \in BOOLEAN /\ ~keyboard.shift /\ ~keyboard.caps
      BY DEF InputTypes, Fresh
    <3>2. Shifted(person) = FALSE /\ person.caps = FALSE
      BY DEF Fresh, Shifted
    <3> QED BY <3>1, <3>2
  <2> QED BY <2>0, <2>1, <2>2 DEF KeysSound
<1> QED BY <1>2, <1>5, <1>6 DEF InUseSound

\* The drivers after their initialization, before the scan.
LEMMA HidInit == UsbInit => Base /\ Fresh
<1> SUFFICES ASSUME UsbInit PROVE Base /\ Fresh
  OBVIOUS
<1> USE DEF UsbInit, InputInit
<1>1. /\ keyboard = [buffer |-> <<>>, shift |-> FALSE, caps |-> FALSE, usb |-> FALSE]
      /\ mouse = [x |-> Centre.x, y |-> Centre.y, button |-> FALSE, queue |-> <<>>, usb |-> FALSE]
      /\ Centre \in Spots /\ Centre.x \in 0 .. Width - 1 /\ Centre.y \in 0 .. Height - 1
  BY CentreType DEF keyboard_init, mouse_init, Spots
<1>2. At = Centre
  BY <1>1 DEF At, Centre
<1>3. InputTypes
  BY <1>1 DEF InputTypes
<1>4. /\ td.slot = 0 /\ td.done = FALSE /\ td.report = {} /\ DOMAIN g_hid_devices = {}
      /\ g_hid_devices \in Seq(Entries)
  BY DEF NoTd
<1>5. ASSUME NEW p \in DOMAIN plug
      PROVE  /\ device[p] \in Devices /\ device[p].enabled = FALSE /\ device[p].addr = 0
             /\ \A type \in Interfaces : device[p].fifo[type] = <<>> /\ device[p].toggle[type] = FALSE
  BY DEF Devices
<1>6. LineTypes
  <2>1. device \in [DOMAIN plug -> Devices]
    BY <1>5
  <2>2. td \in [slot : {0} \cup DOMAIN g_hid_devices, done : BOOLEAN, report : SUBSET AnyReport]
    BY DEF NoTd
  <2>3. \A p \in DOMAIN plug, type \in Interfaces : device[p].fifo[type] \in Seq(ReportsOf(type))
    <3>1. \A type : <<>> \in Seq(ReportsOf(type))
      OBVIOUS
    <3> QED BY <1>5, <3>1, Zenon
  <2>4. plug \in Plugs /\ port = 1 /\ g_next_usb_address = 1
    OBVIOUS
  <2> HIDE DEF UsbInit
  <2> QED BY <1>4, <2>1, <2>2, <2>3, <2>4 DEF LineTypes
<1>7. Addresses
  <2>1. ~Has(g_hid_devices, "keyboard") /\ ~Has(g_hid_devices, "mouse")
    BY <1>4 DEF Has
  <2>2. ~keyboard.usb /\ ~mouse.usb
    BY <1>1
  <2>3. \A p \in DOMAIN plug : device[p].addr < g_next_usb_address /\ ~device[p].enabled
    BY <1>5
  <2> QED BY <1>4, <2>1, <2>2, <2>3 DEF Addresses
<1>8. Fresh
  <2>1. \A p \in DOMAIN plug, type \in Interfaces : device[p].fifo[type] = <<>> /\ ~device[p].toggle[type]
    BY <1>5
  <2>2. keyboard.buffer = <<>> /\ ~keyboard.shift /\ ~keyboard.caps /\ mouse.queue = <<>>
    BY <1>1
  <2> QED BY <1>2, <1>4, <2>1, <2>2 DEF Fresh
<1> QED BY <1>3, <1>6, <1>7, <1>8 DEF Base

\* The interfaces of a device that have a driver, each once.
LEMMA InterfacesOf ==
    ASSUME NEW S
    PROVE  LET new == Only(<<"keyboard", "mouse">>, S)
           IN  /\ new \in Seq(Interfaces) /\ Len(new) \in Nat
               /\ \A i, j \in 1 .. Len(new) : new[i] = new[j] => i = j
<1> DEFINE new == Only(<<"keyboard", "mouse">>, S)
<1>1. /\ <<>> \in Seq(Interfaces) /\ "keyboard" \in Interfaces /\ "mouse" \in Interfaces
      /\ Append(<<>>, "keyboard") = <<"keyboard">> /\ <<"keyboard">> \in Seq(Interfaces)
      /\ Append(<<"keyboard">>, "mouse") = <<"keyboard", "mouse">>
      /\ Append(<<>>, "mouse") = <<"mouse">>
  <2>1. "keyboard" \in Interfaces /\ "mouse" \in Interfaces
    BY DEF Interfaces
  <2>2. <<>> \in Seq(Interfaces) /\ <<"keyboard">> \in Seq(Interfaces)
    BY <2>1
  <2>3. Append(<<>>, "keyboard") = <<"keyboard">> /\ Append(<<>>, "mouse") = <<"mouse">>
    OBVIOUS
  <2>4. Append(<<"keyboard">>, "mouse") = <<"keyboard", "mouse">>
    <3> DEFINE a == Append(<<"keyboard">>, "mouse")
               b == <<"keyboard", "mouse">>
    <3>1. a \in Seq(Interfaces) /\ Len(a) = 2 /\ a[1] = "keyboard" /\ a[2] = "mouse"
      BY <2>1, <2>2
    <3>2. b \in Seq(Interfaces) /\ Len(b) = 2 /\ b[1] = "keyboard" /\ b[2] = "mouse"
      BY <2>1
    <3> HIDE DEF a, b
    <3>3. \A i \in 1 .. Len(a) : a[i] = b[i]
      <4>1. \A i \in 1 .. 2 : i = 1 \/ i = 2
        OBVIOUS
      <4> QED BY <3>1, <3>2, <4>1
    <3>4. a = b
      BY <3>1, <3>2, <3>3, SeqEqual
    <3> QED BY <3>4, Zenon DEF a, b
  <2> QED BY <2>1, <2>2, <2>3, <2>4
<1>2. Only(<<"keyboard">>, S) = Kept(<<>>, "keyboard", S)
  <2>1. Only(Append(<<>>, "keyboard"), S) = Kept(Only(<<>>, S), "keyboard", S)
    BY <1>1, OnlyAppend
  <2> QED BY <1>1, <2>1, OnlyEmpty
<1>3. new = Kept(Kept(<<>>, "keyboard", S), "mouse", S)
  <2>1. Only(Append(<<"keyboard">>, "mouse"), S) = Kept(Only(<<"keyboard">>, S), "mouse", S)
    BY <1>1, OnlyAppend
  <2> QED BY <1>1, <1>2, <2>1
<1>4. new \in {<<>>, <<"keyboard">>, <<"mouse">>, <<"keyboard", "mouse">>}
  BY <1>1, <1>3 DEF Kept
<1> HIDE DEF new
<1>5. new \in Seq(Interfaces)
  <2>1. <<"keyboard">> \in Seq(Interfaces) /\ <<"mouse">> \in Seq(Interfaces)
    BY <1>1
  <2>2. <<"keyboard", "mouse">> \in Seq(Interfaces)
    BY <1>1
  <2> QED BY <1>1, <1>4, <2>1, <2>2
<1>6. ASSUME NEW i \in 1 .. Len(new), NEW j \in 1 .. Len(new), new[i] = new[j] PROVE i = j
  <2>1. CASE Len(new) <= 1
    BY <1>5, <1>6, <2>1
  <2>2. CASE new = <<"keyboard", "mouse">>
    <3>1. new[1] = "keyboard" /\ new[2] = "mouse" /\ Len(new) = 2
      BY <2>2
    <3>2. i \in {1, 2} /\ j \in {1, 2}
      BY <3>1
    <3> QED BY <1>6, <3>1, <3>2
  <2> QED BY <1>4, <2>1, <2>2
<1> QED BY <1>5, <1>6 DEF new

\* r has the entries of before and then fresh ones, of different interfaces at addr.
Enrolled(r, before, addr) ==
    LET n == Len(before)
    IN  /\ r \in Seq(Entries)
        /\ \A k \in DOMAIN r : k \in 1 .. Len(r) /\ k \in Nat
        /\ \A k \in DOMAIN r : k <= n => k \in DOMAIN before /\ r[k] = before[k]
        /\ \A k \in DOMAIN r : ~(k <= n) =>
              /\ r[k].addr = addr /\ ~r[k].toggle /\ ~r[k].caps
              /\ r[k].type = "keyboard" => r[k].last = {}
              /\ r[k].type = "mouse" => r[k].last = {FALSE}
        /\ \A j, k \in DOMAIN r : ~(j <= n) /\ ~(k <= n) /\ r[j].type = r[k].type => j = k

LEMMA RegisteredIs ==
    ASSUME LineTypes, NEW p, NEW addr \in Nat \ {0}
    PROVE  Enrolled(Registered(p, addr), g_hid_devices, addr)
<1> DEFINE r == Registered(p, addr)
           n == Len(g_hid_devices)
           new == Only(<<"keyboard", "mouse">>, plug[p])
           more == [k \in DOMAIN new |-> usb_hid_register_device(new[k], addr)]
           all == g_hid_devices \o more
           m == IF Len(all) < MaxHid THEN Len(all) ELSE MaxHid
<1>1. r = SubSeq(all, 1, m)
  BY Zenon DEF Registered
<1>2. /\ new \in Seq(Interfaces) /\ Len(new) \in Nat
      /\ \A i, j \in 1 .. Len(new) : new[i] = new[j] => i = j
  BY InterfacesOf
<1> HIDE DEF new
<1>3. ASSUME NEW type \in Interfaces
      PROVE  LET e == usb_hid_register_device(type, addr)
             IN  /\ e \in Entries /\ e.addr = addr /\ ~e.toggle /\ ~e.caps /\ e.type = type
                 /\ e.type = "keyboard" => e.last = {}
                 /\ e.type = "mouse" => e.last = {FALSE}
  <2>1. {FALSE} \in SUBSET (AllKeys \cup BOOLEAN) /\ {} \in SUBSET (AllKeys \cup BOOLEAN)
        /\ CapsLock \in AllKeys
    BY DEF AllKeys
  <2>2. CASE type = "mouse"
    BY <2>1, <2>2 DEF usb_hid_register_device, Entries, Interfaces
  <2>3. CASE type = "keyboard"
    BY <2>1, <2>3 DEF usb_hid_register_device, Entries, Interfaces
  <2> QED BY <2>2, <2>3 DEF Interfaces
<1>4. more \in Seq(Entries) /\ Len(more) = Len(new)
      /\ \A k \in 1 .. Len(new) : more[k] = usb_hid_register_device(new[k], addr) /\ new[k] \in Interfaces
  <2>1. DOMAIN new = 1 .. Len(new) /\ \A k \in 1 .. Len(new) : new[k] \in Interfaces
    BY <1>2
  <2>2. more \in [1 .. Len(new) -> Entries]
    BY <1>3, <2>1
  <2>3. DOMAIN more = 1 .. Len(new)
    BY <2>1
  <2>4. \A k \in 1 .. Len(new) : more[k] = usb_hid_register_device(new[k], addr)
    BY <2>1
  <2> HIDE DEF more
  <2>5. more \in Seq(Entries) /\ Len(more) = Len(new)
    BY <1>2, <2>2, <2>3
  <2> QED BY <2>1, <2>4, <2>5
<1> HIDE DEF more
<1>5. g_hid_devices \in Seq(Entries) /\ n \in Nat
  BY DEF LineTypes
<1>6. /\ all \in Seq(Entries) /\ Len(all) = n + Len(new)
      /\ \A k \in 1 .. n : all[k] = g_hid_devices[k]
      /\ \A k \in 1 .. Len(new) : all[n + k] = more[k]
  <2>0. more \in Seq(Entries) /\ Len(more) = Len(new)
    BY <1>4
  <2>1. /\ g_hid_devices \o more \in Seq(Entries) /\ Len(g_hid_devices \o more) = n + Len(new)
        /\ \A i \in 1 .. n + Len(new) : (g_hid_devices \o more)[i] =
              IF i <= n THEN g_hid_devices[i] ELSE more[i - n]
    BY ONLY <2>0, <1>5, ConcatProperties, ZenonT(60)
  <2> HIDE DEF n, all
  <2>2. all \in Seq(Entries) /\ Len(all) = n + Len(new)
        /\ \A i \in 1 .. n + Len(new) : all[i] = IF i <= n THEN g_hid_devices[i] ELSE more[i - n]
    BY <2>1, Zenon DEF all
  <2>3. \A k \in 1 .. n : k \in 1 .. n + Len(new) /\ k <= n
    BY <1>2, <1>5
  <2>4. \A k \in 1 .. Len(new) : n + k \in 1 .. n + Len(new) /\ ~(n + k <= n) /\ (n + k) - n = k
    BY <1>2, <1>5
  <2> QED BY <2>2, <2>3, <2>4, Zenon
<1> HIDE DEF all
<1>7. m \in Nat /\ m <= Len(all)
  BY <1>2, <1>5, <1>6, UsbAssumption
<1> HIDE DEF m
<1>8. r \in Seq(Entries) /\ Len(r) = m /\ DOMAIN r = 1 .. m /\ \A k \in 1 .. m : r[k] = all[k]
  BY <1>1, <1>6, <1>7
<1> HIDE DEF r
<1>9. ASSUME NEW k \in DOMAIN r, ~(k <= n)
      PROVE  /\ k - n \in 1 .. Len(new) /\ r[k] = usb_hid_register_device(new[k - n], addr)
             /\ new[k - n] \in Interfaces
  <2>1. k \in 1 .. m /\ k - n \in 1 .. Len(new) /\ n + (k - n) = k
    BY <1>2, <1>5, <1>6, <1>7, <1>8, <1>9
  <2>2. all[n + (k - n)] = more[k - n]
    BY <1>6, <2>1
  <2> QED BY <1>4, <1>8, <2>1, <2>2
<1>10. ASSUME NEW k \in DOMAIN r, k <= n
       PROVE  k \in DOMAIN g_hid_devices /\ r[k] = g_hid_devices[k]
  BY <1>5, <1>6, <1>7, <1>8, <1>10
<1>11. ASSUME NEW k \in DOMAIN r, ~(k <= n)
       PROVE  /\ r[k].addr = addr /\ ~r[k].toggle /\ ~r[k].caps /\ r[k].type = new[k - n]
              /\ r[k].type = "keyboard" => r[k].last = {}
              /\ r[k].type = "mouse" => r[k].last = {FALSE}
  <2> DEFINE t == new[k - n]
             e == usb_hid_register_device(t, addr)
  <2>1. t \in Interfaces /\ r[k] = e
    BY <1>9, <1>11
  <2> HIDE DEF t
  <2>2. /\ e.addr = addr /\ ~e.toggle /\ ~e.caps /\ e.type = t
        /\ e.type = "keyboard" => e.last = {}
        /\ e.type = "mouse" => e.last = {FALSE}
    BY <1>3, <2>1
  <2> HIDE DEF e
  <2>3. r[k].type = t
    BY <2>1, <2>2
  <2> QED BY <2>1, <2>2, <2>3 DEF t
<1>12. ASSUME NEW j \in DOMAIN r, NEW k \in DOMAIN r, ~(j <= n), ~(k <= n), r[j].type = r[k].type
       PROVE  j = k
  <2>1. j - n \in 1 .. Len(new) /\ k - n \in 1 .. Len(new) /\ new[j - n] = new[k - n]
    BY <1>9, <1>11, <1>12
  <2>2. j - n = k - n
    BY <1>2, <2>1
  <2>3. j \in Nat /\ k \in Nat
    BY <1>8
  <2> QED BY <1>5, <2>2, <2>3
<1>13. \A k \in DOMAIN r : k \in 1 .. Len(r) /\ k \in Nat
  BY <1>7, <1>8
<1>14. Enrolled(r, g_hid_devices, addr)
  BY <1>8, <1>10, <1>11, <1>12, <1>13 DEF Enrolled
<1> QED BY <1>14 DEF r

LEMMA ResetIs ==
    ASSUME LineTypes, port \in DOMAIN plug
    PROVE  LET reset == uhci_port_reset_enable(port)
           IN  /\ reset \in [DOMAIN plug -> Devices]
               /\ \A q \in DOMAIN plug : /\ reset[q].fifo = device[q].fifo
                                         /\ reset[q].toggle = device[q].toggle
                                         /\ q # port => reset[q] = device[q]
               /\ reset[port].enabled = TRUE /\ reset[port].addr = 0
<1> DEFINE d == device[port]
           e == [d EXCEPT !.enabled = TRUE]
           f == [e EXCEPT !.addr = 0]
<1>1. d \in Devices /\ device \in [DOMAIN plug -> Devices]
  BY DEF LineTypes
<1>2. uhci_port_reset_enable(port) = [device EXCEPT ![port] = f]
  BY <1>1 DEF uhci_port_reset_enable
<1> HIDE DEF d
<1>3. f \in Devices /\ f.fifo = d.fifo /\ f.toggle = d.toggle /\ f.enabled = TRUE /\ f.addr = 0
  BY <1>1 DEF Devices
<1> HIDE DEF e, f
<1> QED BY <1>1, <1>2, <1>3 DEF d

\* A step of the scan gives devices and entries addresses and nothing else.
LEMMA ScanKeeps ==
    ASSUME Base, Fresh, UNCHANGED <<plug, td, person, typed, hand, seen>>,
           port' = port + 1, g_next_usb_address' \in Nat \ {0},
           g_hid_devices' \in Seq(Entries), device' \in [DOMAIN plug -> Devices],
           \A p \in DOMAIN plug : /\ device'[p].fifo = device[p].fifo
                                  /\ device'[p].toggle = device[p].toggle,
           keyboard' = [keyboard EXCEPT !.usb = Has(g_hid_devices', "keyboard")],
           mouse' = [mouse EXCEPT !.usb = Has(g_hid_devices', "mouse")],
           \A p \in DOMAIN plug : device'[p].addr < g_next_usb_address'
                                  /\ (device'[p].enabled => p < port + 1),
           \A p, q \in DOMAIN plug :
              device'[p].enabled /\ device'[q].enabled /\ device'[p].addr = device'[q].addr
              /\ device'[p].addr # 0 => p = q,
           \A k \in DOMAIN g_hid_devices' :
              /\ g_hid_devices'[k].addr < g_next_usb_address'
              /\ ~g_hid_devices'[k].toggle /\ ~g_hid_devices'[k].caps
              /\ g_hid_devices'[k].type = "keyboard" => g_hid_devices'[k].last = {}
              /\ g_hid_devices'[k].type = "mouse" => g_hid_devices'[k].last = {FALSE},
           \A j, k \in DOMAIN g_hid_devices' :
              g_hid_devices'[j].addr = g_hid_devices'[k].addr
              /\ g_hid_devices'[j].type = g_hid_devices'[k].type => j = k
    PROVE  Base' /\ Fresh'
<1> USE DEF Base
<1>1. /\ keyboard' \in [buffer : Seq(Chars), shift : BOOLEAN, caps : BOOLEAN, usb : BOOLEAN]
      /\ keyboard'.buffer = keyboard.buffer /\ keyboard'.shift = keyboard.shift
      /\ keyboard'.caps = keyboard.caps /\ (keyboard'.usb <=> Has(g_hid_devices', "keyboard"))
  <2>1. Has(g_hid_devices', "keyboard") \in BOOLEAN
    BY DEF Has
  <2>2. keyboard \in [buffer : Seq(Chars), shift : BOOLEAN, caps : BOOLEAN, usb : BOOLEAN]
    BY DEF InputTypes
  <2> QED BY <2>1, <2>2
<1>2. /\ mouse' \in [x : 0 .. Width - 1, y : 0 .. Height - 1, button : BOOLEAN,
                     queue : Seq(Spots), usb : BOOLEAN]
      /\ mouse'.x = mouse.x /\ mouse'.y = mouse.y /\ mouse'.button = mouse.button
      /\ mouse'.queue = mouse.queue /\ (mouse'.usb <=> Has(g_hid_devices', "mouse"))
  <2>1. Has(g_hid_devices', "mouse") \in BOOLEAN
    BY DEF Has
  <2>2. mouse \in [x : 0 .. Width - 1, y : 0 .. Height - 1, button : BOOLEAN,
                   queue : Seq(Spots), usb : BOOLEAN]
    BY DEF InputTypes
  <2> QED BY <2>1, <2>2
<1>3. InputTypes'
  BY <1>1, <1>2 DEF InputTypes
<1>4. td' = NoTd /\ td'.slot = 0 /\ td' \in [slot : {0}, done : BOOLEAN, report : SUBSET AnyReport]
  BY DEF Fresh, NoTd
<1>5. LineTypes'
  <2>1. td' \in [slot : {0} \cup DOMAIN g_hid_devices', done : BOOLEAN, report : SUBSET AnyReport]
    BY <1>4
  <2>2. \A p \in DOMAIN plug, type \in Interfaces : device'[p].fifo[type] \in Seq(ReportsOf(type))
    BY DeviceIs
  <2>3. port' \in Nat \ {0} /\ plug' \in Plugs
    BY DEF LineTypes
  <2> QED BY <1>4, <2>1, <2>2, <2>3 DEF LineTypes
<1>6. Addresses'
  BY <1>1, <1>2 DEF Addresses, Has
<1>7. At' = At
  BY <1>2 DEF At
<1>8. Fresh'
  <2>1. \A p \in DOMAIN plug, type \in Interfaces :
           device'[p].fifo[type] = <<>> /\ ~device'[p].toggle[type]
    BY DEF Fresh
  <2> QED BY <1>1, <1>2, <1>4, <1>7, <2>1 DEF Fresh, Centre
<1> QED BY <1>3, <1>5, <1>6, <1>8

LEMMA SameEntries ==
    ASSUME Base, Fresh, g_hid_devices' = g_hid_devices
    PROVE  /\ g_hid_devices' \in Seq(Entries)
           /\ \A k \in DOMAIN g_hid_devices' :
              /\ g_hid_devices'[k].addr < g_next_usb_address
              /\ ~g_hid_devices'[k].toggle /\ ~g_hid_devices'[k].caps
              /\ g_hid_devices'[k].type = "keyboard" => g_hid_devices'[k].last = {}
              /\ g_hid_devices'[k].type = "mouse" => g_hid_devices'[k].last = {FALSE}
           /\ \A j, k \in DOMAIN g_hid_devices' :
              g_hid_devices'[j].addr = g_hid_devices'[k].addr
              /\ g_hid_devices'[j].type = g_hid_devices'[k].type => j = k
BY DEF Base, LineTypes, Addresses, Fresh

LEMMA SameDrivers ==
    ASSUME Base, g_hid_devices' = g_hid_devices, keyboard' = keyboard, mouse' = mouse
    PROVE  /\ keyboard' = [keyboard EXCEPT !.usb = Has(g_hid_devices', "keyboard")]
           /\ mouse' = [mouse EXCEPT !.usb = Has(g_hid_devices', "mouse")]
<1>1. /\ keyboard.usb = Has(g_hid_devices', "keyboard") /\ mouse.usb = Has(g_hid_devices', "mouse")
  <2>1. keyboard.usb \in BOOLEAN /\ mouse.usb \in BOOLEAN
    BY DEF Base, InputTypes
  <2>2. (keyboard.usb <=> Has(g_hid_devices, "keyboard")) /\ (mouse.usb <=> Has(g_hid_devices, "mouse"))
    BY DEF Base, Addresses
  <2>3. Has(g_hid_devices, "keyboard") \in BOOLEAN /\ Has(g_hid_devices, "mouse") \in BOOLEAN
    BY DEF Has
  <2> QED BY <2>1, <2>2, <2>3
<1>2. keyboard = [keyboard EXCEPT !.usb = keyboard.usb] /\ mouse = [mouse EXCEPT !.usb = mouse.usb]
  BY DEF Base, InputTypes
<1> QED BY <1>1, <1>2

\* The steps of the scan.
LEMMA PortSkippedKeeps == ASSUME Base, Fresh, PortSkipped PROVE Base' /\ Fresh'
<1>1. /\ port' = port + 1 /\ UNCHANGED <<plug, td, person, typed, hand, seen, keyboard, mouse>>
      /\ UNCHANGED <<device, g_next_usb_address, g_hid_devices>>
  BY DEF PortSkipped, input_vars
<1>2. /\ device' \in [DOMAIN plug -> Devices] /\ g_next_usb_address' \in Nat \ {0}
      /\ \A p \in DOMAIN plug : /\ device'[p].fifo = device[p].fifo
                                /\ device'[p].toggle = device[p].toggle
  BY <1>1 DEF Base, LineTypes
<1>3. /\ \A p \in DOMAIN plug : device'[p].addr < g_next_usb_address'
                                /\ (device'[p].enabled => p < port + 1)
      /\ \A p, q \in DOMAIN plug :
              device'[p].enabled /\ device'[q].enabled /\ device'[p].addr = device'[q].addr
              /\ device'[p].addr # 0 => p = q
  <2>1. \A p \in DOMAIN plug : p \in Nat
    BY DeviceIs DEF Base
  <2>2. port \in Nat
    BY DEF Base, LineTypes
  <2> QED BY <1>1, <2>1, <2>2 DEF Base, Addresses
<1> QED BY <1>1, <1>2, <1>3, SameEntries, SameDrivers, ScanKeeps

LEMMA EnumerationFailsKeeps == ASSUME Base, Fresh, EnumerationFails PROVE Base' /\ Fresh'
<1>1. /\ port' = port + 1 /\ UNCHANGED <<plug, td, person, typed, hand, seen, keyboard, mouse>>
      /\ UNCHANGED <<g_next_usb_address, g_hid_devices>>
      /\ device' = uhci_port_reset_enable(port) /\ port \in DOMAIN plug
  BY DEF EnumerationFails, input_vars
<1>2. /\ device' \in [DOMAIN plug -> Devices]
      /\ \A q \in DOMAIN plug : /\ device'[q].fifo = device[q].fifo
                                /\ device'[q].toggle = device[q].toggle
                                /\ q # port => device'[q] = device[q]
      /\ device'[port].enabled = TRUE /\ device'[port].addr = 0
  BY <1>1, ResetIs DEF Base
<1>3. g_next_usb_address' \in Nat \ {0} /\ port \in Nat
  BY <1>1 DEF Base, LineTypes
<1>4. \A p \in DOMAIN plug : device'[p].addr < g_next_usb_address'
                             /\ (device'[p].enabled => p < port + 1)
  <2>1. \A p \in DOMAIN plug : p \in Nat
    BY DeviceIs DEF Base
  <2> QED BY <1>1, <1>2, <1>3, <2>1 DEF Base, Addresses
<1>5. \A p, q \in DOMAIN plug :
              device'[p].enabled /\ device'[q].enabled /\ device'[p].addr = device'[q].addr
              /\ device'[p].addr # 0 => p = q
  <2>1. ASSUME NEW p \in DOMAIN plug, NEW q \in DOMAIN plug, device'[p].enabled, device'[q].enabled,
               device'[p].addr = device'[q].addr, device'[p].addr # 0
        PROVE  p = q
    <3>1. p # port /\ q # port
      BY <1>2, <2>1
    <3> QED BY <1>2, <2>1, <3>1 DEF Base, Addresses
  <2> QED BY <2>1
<1> QED BY <1>1, <1>2, <1>3, <1>4, <1>5, SameEntries, SameDrivers, ScanKeeps

\* A device may take the address of one that was left at address 0: an
\* address is given once, so no two devices answer at it afterwards.
LEMMA EnumerateKeeps ==
    ASSUME Base, Fresh, NEW taken \in BOOLEAN, NEW configured \in BOOLEAN, configured => taken,
           uhci_enumerate_hid_on_port(taken, configured)
    PROVE  Base' /\ Fresh'
<1> DEFINE reset == uhci_port_reset_enable(port)
           addr == g_next_usb_address
           n == Len(g_hid_devices)
<1>1. /\ port' = port + 1 /\ UNCHANGED <<plug, td, person, typed, hand, seen>>
      /\ g_next_usb_address' = addr + 1 /\ port \in DOMAIN plug
      /\ keyboard' = [keyboard EXCEPT !.usb = Has(g_hid_devices', "keyboard")]
      /\ mouse' = [mouse EXCEPT !.usb = Has(g_hid_devices', "mouse")]
  BY DEF uhci_enumerate_hid_on_port, NextAddress
<1>2. PICK p \in Answering(0) \cup {port} :
         /\ device' = IF taken THEN [reset EXCEPT ![p].addr = addr] ELSE reset
         /\ g_hid_devices' = IF configured THEN Registered(p, addr) ELSE g_hid_devices
  BY Zenon DEF uhci_enumerate_hid_on_port
<1>3. addr \in Nat \ {0} /\ addr + 1 \in Nat \ {0} /\ port \in Nat
  BY DEF Base, LineTypes
<1>4. p \in DOMAIN plug /\ p < port + 1 /\ p \in Nat
  <2>1. CASE p = port
    BY <1>1, <1>3, <2>1
  <2>2. CASE p \in Answering(0)
    <3>1. p \in DOMAIN plug /\ device[p].enabled
      BY <2>2 DEF Answering
    <3>2. p < port /\ p \in Nat
      BY <3>1, DeviceIs DEF Base, Addresses
    <3> QED BY <1>3, <3>1, <3>2
  <2> QED BY <1>2, <2>1, <2>2
<1>5. /\ reset \in [DOMAIN plug -> Devices]
      /\ \A q \in DOMAIN plug : /\ reset[q].fifo = device[q].fifo
                                /\ reset[q].toggle = device[q].toggle
                                /\ q # port => reset[q] = device[q]
      /\ reset[port].enabled = TRUE /\ reset[port].addr = 0
  BY <1>1, ResetIs DEF Base
<1> HIDE DEF reset
<1>6. /\ device' \in [DOMAIN plug -> Devices]
      /\ \A q \in DOMAIN plug : /\ device'[q].fifo = device[q].fifo
                                /\ device'[q].toggle = device[q].toggle
                                /\ device'[q].enabled = reset[q].enabled
                                /\ device'[q].addr = IF taken /\ q = p THEN addr ELSE reset[q].addr
  <2>1. CASE ~taken
    BY <1>2, <1>5, <2>1
  <2>2. CASE taken
    <3> DEFINE d == reset[p]
               e == [d EXCEPT !.addr = addr]
    <3>1. device' = [reset EXCEPT ![p] = e]
      BY <1>2, <2>2
    <3>2. d \in Devices
      BY <1>4, <1>5
    <3>3. e \in Devices /\ e.fifo = d.fifo /\ e.toggle = d.toggle /\ e.enabled = d.enabled /\ e.addr = addr
      <4> HIDE DEF d
      <4> QED BY <1>3, <3>2 DEF Devices
    <3> HIDE DEF e
    <3> QED BY <1>4, <1>5, <2>2, <3>1, <3>3
  <2> QED BY <2>1, <2>2
<1>7. \A q \in DOMAIN plug : q \in Nat /\ reset[q].addr < addr /\ reset[q].addr \in Nat
                             /\ (reset[q].enabled => q < port + 1)
  <2>1. ASSUME NEW q \in DOMAIN plug
        PROVE  q \in Nat /\ reset[q].addr < addr /\ reset[q].addr \in Nat
               /\ (reset[q].enabled => q < port + 1)
    <3>1. q \in Nat /\ device[q].addr \in Nat /\ device[q].addr < addr /\ (device[q].enabled => q < port)
      BY DeviceIs DEF Base, Addresses
    <3> QED BY <1>3, <1>5, <3>1
  <2> QED BY <2>1
<1>8. \A q \in DOMAIN plug : device'[q].addr < addr + 1 /\ (device'[q].enabled => q < port + 1)
  BY <1>3, <1>6, <1>7
<1>9. ASSUME NEW q \in DOMAIN plug, NEW r \in DOMAIN plug, device'[q].enabled, device'[r].enabled,
             device'[q].addr = device'[r].addr, device'[q].addr # 0
      PROVE  q = r
  <2>1. CASE taken /\ (q = p \/ r = p)
    BY <1>3, <1>6, <1>7, <1>9, <2>1
  <2>2. CASE ~(taken /\ (q = p \/ r = p))
    <3>1. reset[q].enabled /\ reset[r].enabled /\ reset[q].addr = reset[r].addr /\ reset[q].addr # 0
      BY <1>6, <1>9, <2>2
    <3>2. q # port /\ r # port
      BY <1>5, <3>1
    <3> QED BY <1>5, <3>1, <3>2 DEF Base, Addresses
  <2> QED BY <2>1, <2>2
<1>10. /\ g_hid_devices' \in Seq(Entries)
       /\ \A k \in DOMAIN g_hid_devices' :
              /\ g_hid_devices'[k].addr < addr + 1
              /\ ~g_hid_devices'[k].toggle /\ ~g_hid_devices'[k].caps
              /\ g_hid_devices'[k].type = "keyboard" => g_hid_devices'[k].last = {}
              /\ g_hid_devices'[k].type = "mouse" => g_hid_devices'[k].last = {FALSE}
       /\ \A j, k \in DOMAIN g_hid_devices' :
              g_hid_devices'[j].addr = g_hid_devices'[k].addr
              /\ g_hid_devices'[j].type = g_hid_devices'[k].type => j = k
  <2>1. CASE ~configured
    <3>1. g_hid_devices' = g_hid_devices
      BY <1>2, <2>1
    <3>2. \A k \in DOMAIN g_hid_devices' : g_hid_devices'[k].addr \in Nat
      BY <3>1, EntryIs DEF Base
    <3>3. \A a \in Nat : a < addr => a < addr + 1
      BY <1>3
    <3>4. \A k \in DOMAIN g_hid_devices' : g_hid_devices'[k].addr < addr
      BY <3>1, SameEntries
    <3>5. \A k \in DOMAIN g_hid_devices' : g_hid_devices'[k].addr < addr + 1
      BY <3>2, <3>3, <3>4, Zenon
    <3> QED BY <3>1, <3>5, SameEntries, Zenon
  <2>2. CASE configured
    <3> DEFINE h == g_hid_devices'
    <3>0. Enrolled(h, g_hid_devices, addr)
      <4>1. h = Registered(p, addr)
        BY <1>2, <2>2
      <4>2. LineTypes /\ addr \in Nat \ {0}
        BY <1>3 DEF Base
      <4> QED BY <4>1, <4>2, RegisteredIs
    <3>1. /\ h \in Seq(Entries)
          /\ \A k \in DOMAIN h : k \in 1 .. Len(h) /\ k \in Nat
          /\ \A k \in DOMAIN h : k <= n => k \in DOMAIN g_hid_devices /\ h[k] = g_hid_devices[k]
          /\ \A k \in DOMAIN h : ~(k <= n) =>
                     /\ h[k].addr = addr /\ ~h[k].toggle /\ ~h[k].caps
                     /\ h[k].type = "keyboard" => h[k].last = {}
                     /\ h[k].type = "mouse" => h[k].last = {FALSE}
          /\ \A j, k \in DOMAIN h : ~(j <= n) /\ ~(k <= n) /\ h[j].type = h[k].type => j = k
      BY <3>0, Zenon DEF Enrolled
    <3> HIDE DEF h
    <3>2. \A k \in DOMAIN g_hid_devices :
              /\ g_hid_devices[k].addr \in Nat /\ g_hid_devices[k].addr < addr
              /\ ~g_hid_devices[k].toggle /\ ~g_hid_devices[k].caps
              /\ g_hid_devices[k].type = "keyboard" => g_hid_devices[k].last = {}
              /\ g_hid_devices[k].type = "mouse" => g_hid_devices[k].last = {FALSE}
      BY EntryIs DEF Base, Addresses, Fresh
    <3>3. ASSUME NEW k \in DOMAIN h
          PROVE  /\ h[k].addr < addr + 1
                 /\ ~h[k].toggle /\ ~h[k].caps
                 /\ h[k].type = "keyboard" => h[k].last = {}
                 /\ h[k].type = "mouse" => h[k].last = {FALSE}
                 /\ (k <= n => h[k].addr < addr /\ h[k].addr \in Nat)
      <4>1. CASE k <= n
        <5>1. k \in DOMAIN g_hid_devices /\ h[k] = g_hid_devices[k]
          BY <3>1, <4>1, Zenon
        <5>2. h[k].addr \in Nat /\ h[k].addr < addr
          BY <3>2, <5>1
        <5>3. h[k].addr < addr + 1
          BY <1>3, <5>2
        <5> QED BY <3>2, <5>1, <5>2, <5>3, Zenon
      <4>2. CASE ~(k <= n)
        <5>1. addr < addr + 1
          BY <1>3
        <5> QED BY <3>1, <4>2, <5>1, Zenon
      <4> QED BY <4>1, <4>2, Zenon
    <3>4. ASSUME NEW j \in DOMAIN h, NEW k \in DOMAIN h, h[j].addr = h[k].addr, h[j].type = h[k].type
          PROVE  j = k
      <4>1. CASE j <= n /\ k <= n
        BY <3>1, <3>4, <4>1 DEF Base, Addresses
      <4>2. CASE ~(j <= n) /\ ~(k <= n)
        BY <3>1, <3>4, <4>2
      <4>3. CASE j <= n /\ ~(k <= n)
        <5>1. h[j].addr < addr /\ h[j].addr \in Nat /\ h[k].addr = addr
          BY <3>1, <3>3, <4>3, Zenon
        <5> QED BY <1>3, <3>4, <5>1
      <4>4. CASE ~(j <= n) /\ k <= n
        <5>1. h[k].addr < addr /\ h[k].addr \in Nat /\ h[j].addr = addr
          BY <3>1, <3>3, <4>4, Zenon
        <5> QED BY <1>3, <3>4, <5>1
      <4> QED BY <4>1, <4>2, <4>3, <4>4
    <3> QED BY <3>1, <3>3, <3>4 DEF h
  <2> QED BY <2>1, <2>2
<1> QED BY <1>1, <1>3, <1>6, <1>8, <1>9, <1>10, ScanKeeps

-----------------------------------------------------------------------------
(* Once the ports have been scanned.                                       *)

\* Devices and entries stay where they are.
Settled ==
    /\ UNCHANGED <<plug, port, g_next_usb_address>>
    /\ DOMAIN g_hid_devices' = DOMAIN g_hid_devices
    /\ \A k \in DOMAIN g_hid_devices : /\ g_hid_devices'[k].type = g_hid_devices[k].type
                                       /\ g_hid_devices'[k].addr = g_hid_devices[k].addr
    /\ \A p \in DOMAIN plug : /\ device'[p].enabled = device[p].enabled
                              /\ device'[p].addr = device[p].addr
    /\ keyboard'.usb = keyboard.usb /\ mouse'.usb = mouse.usb

LEMMA SettledInHand ==
    ASSUME Settled
    PROVE  \A k, p, type : InHand(k, p, type)' <=> InHand(k, p, type)
<1>1. ASSUME NEW type PROVE InUse(type)' = InUse(type)
  BY DEF Settled, InUse, Answering
<1>2. ASSUME NEW k, NEW p, NEW type PROVE InHand(k, p, type)' <=> InHand(k, p, type)
  BY <1>1 DEF Settled, InHand
<1> QED BY <1>2

LEMMA SettledAddresses == ASSUME Settled, Addresses PROVE Addresses'
<1>1. /\ Has(g_hid_devices', "keyboard") <=> Has(g_hid_devices, "keyboard")
      /\ Has(g_hid_devices', "mouse") <=> Has(g_hid_devices, "mouse")
  BY DEF Settled, Has
<1> QED BY <1>1 DEF Settled, Addresses

\* A person uses one keyboard and one mouse, each with one entry.
LEMMA OneInHand ==
    ASSUME Base, NEW type, NEW j, NEW k, NEW p, NEW q, InHand(j, p, type), InHand(k, q, type)
    PROVE  j = k /\ p = q
<1>1. p \in InUse(type) /\ q \in InUse(type)
  BY DEF InHand, InUse, Answering
<1>2. p \in Nat /\ q \in Nat
  BY DeviceIs DEF Base, InHand
<1>3. p <= q /\ q <= p
  BY <1>1 DEF InHand
<1>4. p = q
  BY <1>2, <1>3
<1> QED BY <1>4 DEF Base, Addresses, InHand

\* A step on the line that leaves the drivers alone.
LEMMA LineKeeps ==
    ASSUME Base, InUseSound, Settled, LineTypes', Silence', UNCHANGED <<g_hid_devices, input_vars>>,
           lost \subseteq lost',
           \A type \in Interfaces : \A k, p : \A w \in Seq(ReportsOf(type)) :
               type \notin lost' /\ InHand(k, p, type) /\ Carried(type, k, p, w)
                   => Carried(type, k, p, w)'
    PROVE  Base' /\ InUseSound'
<1>1. UNCHANGED <<keyboard, mouse, person, typed, hand, seen>>
  BY DEF input_vars
<1>2. InputTypes'
  BY <1>1 DEF Base, InputTypes
<1>3. Base'
  BY <1>2, SettledAddresses DEF Base
<1>4. \A w : Track(w)' <=> Track(w)
  BY <1>1 DEF Track, At
<1>5. \A hid, w : Script(hid, w)' <=> Script(hid, w)
  BY <1>1 DEF Script
<1>6. ASSUME "mouse" \notin lost' PROVE PointerSound'
  <2>0. PointerSound
    BY <1>6 DEF InUseSound
  <2>1. At' = At
    BY <1>1 DEF At
  <2>2. ASSUME NEW k, NEW p, InHand(k, p, "mouse")'
        PROVE  /\ g_hid_devices'[k].last = {mouse'.button}
               /\ \E w \in Seq(MouseReports) : Carried("mouse", k, p, w)' /\ Track(w)'
    <3>1. InHand(k, p, "mouse")
      BY <2>2, SettledInHand
    <3>2. PICK w \in Seq(MouseReports) : Carried("mouse", k, p, w) /\ Track(w)
      BY <2>0, <3>1 DEF PointerSound
    <3>3. w \in Seq(ReportsOf("mouse")) /\ "mouse" \in Interfaces
      BY DEF ReportsOf, Interfaces
    <3>4. Carried("mouse", k, p, w)' /\ Track(w)'
      BY <1>4, <1>6, <3>1, <3>2, <3>3
    <3>5. g_hid_devices[k].last = {mouse.button}
      BY <2>0, <3>1 DEF PointerSound
    <3> QED BY <1>1, <3>4, <3>5
  <2>3. (\A k, p : ~InHand(k, p, "mouse")') => hand' = At'
    BY <1>1, <2>0, <2>1, SettledInHand DEF PointerSound
  <2> QED BY <1>1, <2>0, <2>1, <2>2, <2>3 DEF PointerSound
<1>7. ASSUME "keyboard" \notin lost' PROVE KeysSound'
  <2>0. KeysSound
    BY <1>7 DEF InUseSound
  <2>1. ASSUME NEW k, NEW p, InHand(k, p, "keyboard")'
        PROVE  \E w \in Seq(KeyReports) : Carried("keyboard", k, p, w)' /\ Script(g_hid_devices[k], w)'
    <3>1. InHand(k, p, "keyboard")
      BY <2>1, SettledInHand
    <3>2. PICK w \in Seq(KeyReports) : Carried("keyboard", k, p, w) /\ Script(g_hid_devices[k], w)
      BY <2>0, <3>1 DEF KeysSound
    <3>3. w \in Seq(ReportsOf("keyboard")) /\ "keyboard" \in Interfaces
      BY DEF ReportsOf, Interfaces
    <3>4. Carried("keyboard", k, p, w)'
      BY <1>7, <3>1, <3>2, <3>3
    <3>5. Script(g_hid_devices[k], w)'
      BY <1>1, <3>2 DEF Script
    <3> QED BY <3>4, <3>5
  <2>2. (\A k, p : ~InHand(k, p, "keyboard")') =>
          /\ typed' = Plain(keyboard'.buffer)
          /\ ~keyboard'.usb => keyboard'.shift = Shifted(person') /\ keyboard'.caps = person'.caps
    BY <1>1, <2>0, SettledInHand DEF KeysSound
  <2> QED BY <1>1, <2>1, <2>2 DEF KeysSound
<1> QED BY <1>3, <1>6, <1>7 DEF InUseSound

\* The devices after one has changed what it has to say and its toggle.
Spoken(p, type, fifo, toggle) ==
    [device EXCEPT ![p].fifo[type] = fifo, ![p].toggle[type] = toggle]

\* Devices that differ from what they were in what p has to say for an interface.
Telling(e, p, type) ==
    /\ e \in [DOMAIN plug -> Devices]
    /\ \A q \in DOMAIN plug :
          /\ e[q].enabled = device[q].enabled /\ e[q].addr = device[q].addr
          /\ q # p => e[q] = device[q]
          /\ \A u \in Interfaces : /\ e[q].fifo[u] \in Seq(ReportsOf(u))
                                   /\ u # type => /\ e[q].fifo[u] = device[q].fifo[u]
                                                  /\ e[q].toggle[u] = device[q].toggle[u]

LEMMA SpokenIs ==
    ASSUME LineTypes, NEW p \in DOMAIN plug, NEW type \in Interfaces,
           NEW fifo \in Seq(ReportsOf(type)), NEW toggle \in BOOLEAN
    PROVE  LET e == Spoken(p, type, fifo, toggle)
           IN  /\ Telling(e, p, type)
               /\ e[p].fifo[type] = fifo /\ e[p].toggle[type] = toggle
<1> DEFINE d == device[p]
           g == [d.fifo EXCEPT ![type] = fifo]
           t == [d.toggle EXCEPT ![type] = toggle]
           c == [d EXCEPT !.fifo = g]
           f == [c EXCEPT !.toggle = t]
<1>1. /\ d \in Devices /\ device \in [DOMAIN plug -> Devices] /\ d.fifo \in [Interfaces -> Seq(AnyReport)]
      /\ d.toggle \in [Interfaces -> BOOLEAN]
      /\ \A u \in Interfaces : d.fifo[u] \in Seq(ReportsOf(u))
  BY DeviceIs DEF LineTypes
<1>2. Spoken(p, type, fifo, toggle) = [device EXCEPT ![p] = f]
  BY <1>1 DEF Spoken, Devices
<1>3. fifo \in Seq(AnyReport)
  <2>1. ReportsOf(type) \subseteq AnyReport
    BY DEF ReportsOf, AnyReport
  <2> QED BY <2>1
<1> HIDE DEF d
<1>4. /\ g \in [Interfaces -> Seq(AnyReport)] /\ t \in [Interfaces -> BOOLEAN]
      /\ g[type] = fifo /\ t[type] = toggle
      /\ \A u \in Interfaces : /\ g[u] \in Seq(ReportsOf(u))
                               /\ u # type => g[u] = d.fifo[u] /\ t[u] = d.toggle[u]
  BY <1>1, <1>3
<1> HIDE DEF g, t
<1>5. f \in Devices /\ f.fifo = g /\ f.toggle = t /\ f.enabled = d.enabled /\ f.addr = d.addr
  BY <1>1, <1>4 DEF Devices
<1> HIDE DEF c, f
<1> DEFINE e == Spoken(p, type, fifo, toggle)
<1>6. e \in [DOMAIN plug -> Devices] /\ e[p] = f /\ \A q \in DOMAIN plug : q # p => e[q] = device[q]
  BY <1>1, <1>2, <1>5
<1> HIDE DEF e
<1>7. ASSUME NEW q \in DOMAIN plug
      PROVE  /\ e[q].enabled = device[q].enabled /\ e[q].addr = device[q].addr
             /\ \A u \in Interfaces : /\ e[q].fifo[u] \in Seq(ReportsOf(u))
                                      /\ u # type => /\ e[q].fifo[u] = device[q].fifo[u]
                                                     /\ e[q].toggle[u] = device[q].toggle[u]
  <2>1. CASE q = p
    BY <1>4, <1>5, <1>6, <2>1 DEF d
  <2>2. CASE q # p
    BY <1>6, <2>2, DeviceIs
  <2> QED BY <2>1, <2>2
<1>8. Telling(e, p, type)
  BY <1>6, <1>7 DEF Telling
<1> QED BY <1>4, <1>5, <1>6, <1>8 DEF e

LEMMA NothingTold == ASSUME LineTypes, NEW p, NEW type PROVE Telling(device, p, type)
<1>1. device \in [DOMAIN plug -> Devices]
  BY DEF LineTypes
<1> QED BY <1>1, DeviceIs DEF Telling

\* A device that is asked for a report and has one is in the person's hands.
LEMMA AskedInHand ==
    ASSUME Base, Silence, NEW p, NEW fits, Offers(p, fits)
    PROVE  /\ InHand(td.slot, p, g_hid_devices[td.slot].type) /\ ~td.done /\ td.slot # 0
           /\ td.slot \in DOMAIN g_hid_devices /\ p \in DOMAIN plug
           /\ g_hid_devices[td.slot].type \in Interfaces
<1> DEFINE hid == g_hid_devices[td.slot]
<1>1. /\ td.slot # 0 /\ ~td.done /\ p \in Answering(hid.addr) /\ hid.type \in plug[p]
      /\ device[p].fifo[hid.type] # <<>>
  BY DEF Offers
<1>2. td.slot \in DOMAIN g_hid_devices /\ p \in DOMAIN plug
  BY <1>1 DEF Base, LineTypes, Answering
<1>3. hid.type \in Interfaces
  BY <1>2, EntryIs DEF Base
<1>4. PICK k : InHand(k, p, hid.type)
  BY <1>1, <1>2, <1>3 DEF Silence
<1>5. g_hid_devices[k].addr = hid.addr /\ g_hid_devices[k].type = hid.type /\ k \in DOMAIN g_hid_devices
  BY <1>1, <1>4 DEF InHand, Answering
<1>6. k = td.slot
  BY <1>2, <1>5 DEF Base, Addresses
<1> QED BY <1>1, <1>2, <1>3, <1>4, <1>6

\* A step on the line brings no report from anywhere else.
LEMMA SilenceKept ==
    ASSUME Settled, Silence, g_hid_devices' = g_hid_devices,
           \A p \in DOMAIN plug, type \in Interfaces :
               device'[p].fifo[type] # <<>> => device[p].fifo[type] # <<>>,
           \A k : td'.done /\ td'.slot = k => k # 0 /\ \E p : InHand(k, p, g_hid_devices[k].type)
    PROVE  Silence'
<1>1. ASSUME NEW p \in DOMAIN plug, NEW type \in Interfaces, device'[p].fifo[type] # <<>>
      PROVE  \E k : InHand(k, p, type)'
  BY <1>1, SettledInHand DEF Silence
<1>2. (td.done => td.slot # 0 /\ \E p : InHand(td.slot, p, g_hid_devices[td.slot].type))'
  <2>1. ASSUME NEW k, td'.done, td'.slot = k
        PROVE  k # 0 /\ \E p : InHand(k, p, g_hid_devices[k].type)'
    BY <2>1, SettledInHand
  <2> QED BY <2>1
<1>3. plug' = plug
  BY DEF Settled
<1> QED BY <1>1, <1>2, <1>3 DEF Silence

\* A poll begins, or ends with nothing.
LEMMA AskingKeeps ==
    ASSUME Base, InUseSound, UNCHANGED <<usb_state, input_vars>>, ~td.done, ~td'.done,
           NEW slot \in {0} \cup DOMAIN g_hid_devices,
           td' = [slot |-> slot, done |-> FALSE, report |-> {}]
    PROVE  Base' /\ InUseSound'
<1>1. /\ UNCHANGED <<plug, device, g_next_usb_address, g_hid_devices, port, lost>>
      /\ UNCHANGED <<keyboard, mouse>>
  BY DEF usb_state, input_vars
<1>2. Settled
  BY <1>1 DEF Settled
<1>3. LineTypes'
  <2>1. td' \in [slot : {0} \cup DOMAIN g_hid_devices, done : BOOLEAN, report : SUBSET AnyReport]
        /\ td'.report = {}
    OBVIOUS
  <2> QED BY <1>1, <2>1 DEF Base, LineTypes
<1>4. Silence'
  <2>1. Silence
    BY DEF InUseSound
  <2> QED BY <1>1, <1>2, <2>1, SilenceKept
<1>5. ASSUME NEW type \in Interfaces, NEW k, NEW p, NEW w, Carried(type, k, p, w)
      PROVE  Carried(type, k, p, w)'
  <2>1. ~(td.slot = k /\ td.done) /\ ~(td'.slot = k /\ td'.done)
    OBVIOUS
  <2> QED BY <1>1, <1>5, <2>1 DEF Carried, Untold
<1> QED BY <1>1, <1>2, <1>3, <1>4, <1>5, LineKeeps

\* The steps of a poll that give the drivers nothing.
LEMMA usb_pollKeeps ==
    ASSUME Base, InUseSound, NEW slot \in DOMAIN g_hid_devices, usb_poll(slot)
    PROVE  Base' /\ InUseSound'
<1>1. /\ td' = [slot |-> slot, done |-> FALSE, report |-> {}] /\ ~td'.done
      /\ UNCHANGED <<plug, device, g_next_usb_address, g_hid_devices, port>>
      /\ UNCHANGED input_vars /\ UNCHANGED <<keyboard, mouse>>
  BY DEF usb_poll, input_vars
<1>2. CASE td = NoTd
  <2>1. ~td.done /\ UNCHANGED <<usb_state, input_vars>>
    BY <1>1, <1>2 DEF usb_poll, NoTd, usb_state
  <2> QED BY <1>1, <2>1, AskingKeeps
<1>3. CASE td # NoTd
  <2>1. lost' = lost \cup Polled
    BY <1>3 DEF usb_poll
  <2>2. Settled
    BY <1>1 DEF Settled
  <2>3. LineTypes'
    <3>1. td' \in [slot : {0} \cup DOMAIN g_hid_devices, done : BOOLEAN, report : SUBSET AnyReport]
          /\ td'.report = {}
      BY <1>1
    <3> QED BY <1>1, <3>1 DEF Base, LineTypes
  <2>4. Silence'
    <3>1. Silence
      BY DEF InUseSound
    <3> QED BY <1>1, <2>2, <3>1, SilenceKept
  <2>5. ASSUME NEW type \in Interfaces, NEW k, NEW p, InHand(k, p, type)
        PROVE  type \in lost'
    BY <2>1, <2>5 DEF InHand, Polled
  <2> QED BY <1>1, <2>1, <2>2, <2>3, <2>4, <2>5, LineKeeps
<1> QED BY <1>2, <1>3

LEMMA GivesUpKeeps ==
    ASSUME Base, InUseSound, PollGivesUp
    PROVE  Base' /\ InUseSound'
<1>1. ~td.done /\ ~td'.done /\ td' = [slot |-> 0, done |-> FALSE, report |-> {}]
      /\ UNCHANGED <<usb_state, input_vars>>
  BY DEF PollGivesUp, NoTd
<1> QED BY <1>1, AskingKeeps

LEMMA GivesUpLateKeeps ==
    ASSUME Base, InUseSound, PollGivesUpLate
    PROVE  Base' /\ InUseSound'
<1>1. /\ td.done /\ td' = NoTd /\ lost' = lost \cup {g_hid_devices[td.slot].type}
      /\ UNCHANGED <<plug, device, g_next_usb_address, g_hid_devices, port>>
      /\ UNCHANGED input_vars /\ UNCHANGED <<keyboard, mouse>> /\ ~td'.done
  BY DEF PollGivesUpLate, input_vars, NoTd
<1>2. Settled
  BY <1>1 DEF Settled
<1>3. LineTypes'
  <2>1. td' \in [slot : {0} \cup DOMAIN g_hid_devices, done : BOOLEAN, report : SUBSET AnyReport]
        /\ td'.slot = 0
    BY <1>1 DEF NoTd
  <2> QED BY <1>1, <2>1 DEF Base, LineTypes
<1>4. Silence'
  <2>1. Silence
    BY DEF InUseSound
  <2> QED BY <1>1, <1>2, <2>1, SilenceKept
<1>5. ASSUME NEW type \in Interfaces, NEW k, NEW p, NEW w, type \notin lost', InHand(k, p, type),
             Carried(type, k, p, w)
      PROVE  Carried(type, k, p, w)'
  <2>1. k # td.slot
    BY <1>1, <1>5 DEF InHand
  <2>2. ~(td.slot = k /\ td.done) /\ ~(td'.slot = k /\ td'.done)
    BY <1>1, <2>1
  <2> QED BY <1>1, <1>5, <2>2 DEF Carried, Untold
<1> QED BY <1>1, <1>2, <1>3, <1>4, <1>5, LineKeeps

\* What a device that is acknowledged has to say is one report less.
LEMMA AcknowledgedIs ==
    ASSUME LineTypes, td.slot \in DOMAIN g_hid_devices, NEW p \in DOMAIN plug,
           device[p].fifo[g_hid_devices[td.slot].type] # <<>>
    PROVE  LET type == g_hid_devices[td.slot].type
           IN  /\ Acknowledged(p) = Spoken(p, type, Tail(device[p].fifo[type]), ~device[p].toggle[type])
               /\ Tail(device[p].fifo[type]) \in Seq(ReportsOf(type)) /\ type \in Interfaces
               /\ (~device[p].toggle[type]) \in BOOLEAN
<1> DEFINE type == g_hid_devices[td.slot].type
<1>1. type \in Interfaces
  BY EntryIs
<1>2. device[p].toggle[type] \in BOOLEAN /\ device[p].fifo[type] \in Seq(ReportsOf(type))
      /\ device[p] \in Devices /\ device \in [DOMAIN plug -> Devices]
      /\ device[p].toggle \in [Interfaces -> BOOLEAN] /\ device[p].fifo \in [Interfaces -> Seq(AnyReport)]
  BY <1>1, DeviceIs DEF LineTypes
<1>3. Tail(device[p].fifo[type]) \in Seq(ReportsOf(type))
  <2> DEFINE f == device[p].fifo[type]
             R == ReportsOf(type)
  <2>1. f \in Seq(R) /\ f # <<>>
    BY <1>2
  <2> HIDE DEF f, R
  <2>2. Tail(f) \in Seq(R)
    BY <2>1
  <2> QED BY <2>2 DEF f, R
<1>4. Acknowledged(p) = Spoken(p, type, Tail(device[p].fifo[type]), ~device[p].toggle[type])
  BY <1>1, <1>2 DEF Acknowledged, Spoken, Devices
<1> QED BY <1>1, <1>2, <1>3, <1>4

LEMMA AcknowledgedGives ==
    ASSUME LineTypes, td.slot \in DOMAIN g_hid_devices, NEW p \in DOMAIN plug,
           device[p].fifo[g_hid_devices[td.slot].type] # <<>>
    PROVE  LET type == g_hid_devices[td.slot].type
               e == Acknowledged(p)
           IN  /\ Telling(e, p, type)
               /\ e[p].fifo[type] = Tail(device[p].fifo[type])
               /\ e[p].toggle[type] = ~device[p].toggle[type]
<1> DEFINE type == g_hid_devices[td.slot].type
           f == Tail(device[p].fifo[type])
           t == ~device[p].toggle[type]
<1>1. /\ Acknowledged(p) = Spoken(p, type, f, t) /\ f \in Seq(ReportsOf(type))
      /\ t \in BOOLEAN /\ type \in Interfaces
  BY AcknowledgedIs, Zenon
<1> HIDE DEF type, f, t
<1>2. LET e == Spoken(p, type, f, t)
           IN  /\ Telling(e, p, type)
               /\ e[p].fifo[type] = f /\ e[p].toggle[type] = t
  BY <1>1, SpokenIs
<1> QED BY <1>1, <1>2, Zenon DEF type, f, t

\* What of a device has changed that matters to the other interface.
LEMMA OthersCarried ==
    ASSUME NEW type, NEW k, NEW p, NEW w, Carried(type, k, p, w),
           g_hid_devices'[k].toggle = g_hid_devices[k].toggle,
           device'[p].toggle[type] = device[p].toggle[type],
           device'[p].fifo[type] = device[p].fifo[type],
           td.slot = k => ~td.done, td'.slot = k => ~td'.done
    PROVE  Carried(type, k, p, w)'
<1>1. ~(td.slot = k /\ td.done) /\ ~(td'.slot = k /\ td'.done)
  OBVIOUS
<1> QED BY <1>1 DEF Carried, Untold

\* What the controller discards is what the driver was told already: the
\* toggles agree again, and nothing untold is lost.
LEMMA RepetitionKeeps ==
    ASSUME Base, InUseSound, NEW p, Repetition(p)
    PROVE  Base' /\ InUseSound'
<1> DEFINE hid == g_hid_devices[td.slot]
           T == hid.type
           f == device[p].fifo[T]
<1>1. /\ Offers(p, FALSE) /\ device' = Acknowledged(p)
      /\ UNCHANGED <<plug, g_next_usb_address, g_hid_devices, port, lost, td>>
      /\ UNCHANGED input_vars /\ UNCHANGED <<keyboard, mouse>>
  BY DEF Repetition, input_vars
<1>0. Silence /\ LineTypes
  BY DEF InUseSound, Base
<1>2. /\ InHand(td.slot, p, T) /\ ~td.done /\ td.slot # 0 /\ T \in Interfaces
      /\ td.slot \in DOMAIN g_hid_devices /\ p \in DOMAIN plug
  BY <1>0, <1>1, AskedInHand
<1>3. f # <<>> /\ device[p].toggle[T] # hid.toggle
  BY <1>1 DEF Offers
<1>5. /\ Telling(device', p, T)
      /\ device'[p].fifo[T] = Tail(f) /\ device'[p].toggle[T] = ~device[p].toggle[T]
  BY <1>0, <1>1, <1>2, <1>3, AcknowledgedGives, Zenon
<1>5a. /\ device' \in [DOMAIN plug -> Devices]
      /\ \A q \in DOMAIN plug :
            /\ device'[q].enabled = device[q].enabled /\ device'[q].addr = device[q].addr
            /\ q # p => device'[q] = device[q]
            /\ \A u \in Interfaces : /\ device'[q].fifo[u] \in Seq(ReportsOf(u))
                                     /\ u # T => /\ device'[q].fifo[u] = device[q].fifo[u]
                                                 /\ device'[q].toggle[u] = device[q].toggle[u]
  BY <1>5 DEF Telling
<1>6. Settled
  BY <1>1, <1>5, <1>5a DEF Settled
<1>7. LineTypes'
  BY <1>0, <1>1, <1>5a DEF LineTypes
<1>8. Silence'
  <2>1. ASSUME NEW q \in DOMAIN plug, NEW u \in Interfaces, device'[q].fifo[u] # <<>>
        PROVE  device[q].fifo[u] # <<>>
    BY <1>3, <1>5, <1>5a, <2>1
  <2>2. ~td'.done
    BY <1>1, <1>2
  <2> QED BY <1>0, <1>1, <1>6, <2>1, <2>2, SilenceKept
<1>9. ASSUME NEW type \in Interfaces, NEW k, NEW q, NEW w, InHand(k, q, type), Carried(type, k, q, w)
      PROVE  Carried(type, k, q, w)'
  <2>0. q \in DOMAIN plug
    BY <1>9 DEF InHand
  <2>1. CASE type = T
    <3>1. k = td.slot /\ q = p
      BY <1>2, <1>9, <2>1, OneInHand
    <3>2. ~(td.slot = k /\ td.done) /\ ~(td'.slot = k /\ td'.done)
      BY <1>1, <1>2
    <3>3. w = Tail(f)
      BY <1>3, <1>9, <2>1, <3>1, <3>2 DEF Carried, Untold
    <3>4. device'[p].toggle[T] = g_hid_devices'[td.slot].toggle
      <4>1. hid.toggle \in BOOLEAN /\ device[p].toggle[T] \in BOOLEAN
        BY <1>0, <1>2, EntryIs, DeviceIs
      <4>2. (~device[p].toggle[T]) = hid.toggle
        BY <1>3, <4>1
      <4> QED BY <1>1, <1>5, <1>5a, <4>2
    <3> QED BY <1>5, <1>5a, <2>1, <3>1, <3>2, <3>3, <3>4 DEF Carried, Untold
  <2>2. CASE type # T
    <3>1. k # td.slot
      BY <1>9, <2>2 DEF InHand
    <3> QED BY <1>1, <1>2, <1>5, <1>5a, <1>9, <2>0, <2>2, <3>1, OthersCarried
  <2> QED BY <2>1, <2>2
<1> QED BY <1>1, <1>6, <1>7, <1>8, <1>9, LineKeeps

\* What the controller stores is the first report that is untold.
LEMMA TransferKeeps ==
    ASSUME Base, InUseSound, NEW p, NEW heard \in BOOLEAN, Transfer(p, heard)
    PROVE  Base' /\ InUseSound'
<1> DEFINE hid == g_hid_devices[td.slot]
           T == hid.type
           f == device[p].fifo[T]
<1>1. /\ Offers(p, TRUE) /\ device' = IF heard THEN Acknowledged(p) ELSE device
      /\ td' = [td EXCEPT !.done = TRUE, !.report = {Head(f)}]
      /\ UNCHANGED <<plug, g_next_usb_address, g_hid_devices, port, lost>>
      /\ UNCHANGED input_vars /\ UNCHANGED <<keyboard, mouse>>
  BY DEF Transfer, input_vars
<1>0. Silence /\ LineTypes
  BY DEF InUseSound, Base
<1>2. /\ InHand(td.slot, p, T) /\ ~td.done /\ td.slot # 0 /\ T \in Interfaces
      /\ td.slot \in DOMAIN g_hid_devices /\ p \in DOMAIN plug
  BY <1>0, <1>1, AskedInHand
<1>3. f # <<>> /\ device[p].toggle[T] = hid.toggle
  BY <1>1 DEF Offers
<1>4a. hid.toggle \in BOOLEAN /\ device[p].toggle[T] \in BOOLEAN /\ f \in Seq(ReportsOf(T))
  BY <1>0, <1>2, EntryIs, DeviceIs
<1>5. /\ Telling(device', p, T)
      /\ \/ device'[p].fifo[T] = Tail(f) /\ device'[p].toggle[T] # hid.toggle
         \/ device'[p].fifo[T] = f /\ device'[p].toggle[T] = hid.toggle
  <2>1. CASE heard
    <3>1. device' = Acknowledged(p)
      BY <1>1, <2>1
    <3>2. (~device[p].toggle[T]) # hid.toggle
      BY <1>3, <1>4a
    <3> QED BY <1>0, <1>2, <1>3, <3>1, <3>2, AcknowledgedGives, Zenon
  <2>2. CASE ~heard
    <3>1. device' = device
      BY <1>1, <2>2
    <3>2. Telling(device, p, T)
      BY <1>0, NothingTold
    <3> QED BY <1>3, <3>1, <3>2
  <2> QED BY <2>1, <2>2
<1>5a. /\ device' \in [DOMAIN plug -> Devices]
      /\ \A q \in DOMAIN plug :
            /\ device'[q].enabled = device[q].enabled /\ device'[q].addr = device[q].addr
            /\ q # p => device'[q] = device[q]
            /\ \A u \in Interfaces : /\ device'[q].fifo[u] \in Seq(ReportsOf(u))
                                     /\ u # T => /\ device'[q].fifo[u] = device[q].fifo[u]
                                                 /\ device'[q].toggle[u] = device[q].toggle[u]
  BY <1>5 DEF Telling
<1>6. Settled
  BY <1>1, <1>5, <1>5a DEF Settled
<1>6a. td'.slot = td.slot /\ td'.done /\ td'.report = {Head(f)}
       /\ td' \in [slot : {0} \cup DOMAIN g_hid_devices, done : BOOLEAN, report : SUBSET AnyReport]
       /\ Head(f) \in ReportsOf(T)
  <2>1. Head(f) \in ReportsOf(T)
    <3> DEFINE R == ReportsOf(T)
    <3> HIDE DEF f, R
    <3>1. Head(f) \in R
      BY <1>3, <1>4a DEF R
    <3> QED BY <3>1 DEF R
  <2>2. ReportsOf(T) \subseteq AnyReport
    BY DEF ReportsOf, AnyReport
  <2>3. td \in [slot : {0} \cup DOMAIN g_hid_devices, done : BOOLEAN, report : SUBSET AnyReport]
    BY <1>0 DEF LineTypes
  <2> HIDE DEF f
  <2> QED BY <1>1, <2>1, <2>2, <2>3
<1>7. LineTypes'
  <2>1. td'.report \subseteq ReportsOf(g_hid_devices'[td'.slot].type)
    BY <1>1, <1>6a
  <2> QED BY <1>0, <1>1, <1>5, <1>5a, <1>6a, <2>1 DEF LineTypes
<1>8. Silence'
  <2>1. ASSUME NEW q \in DOMAIN plug, NEW u \in Interfaces, device'[q].fifo[u] # <<>>
        PROVE  device[q].fifo[u] # <<>>
    BY <1>3, <1>5, <1>5a, <2>1
  <2>2. \A k : td'.done /\ td'.slot = k => k # 0 /\ \E q : InHand(k, q, g_hid_devices[k].type)
    BY <1>2, <1>6a
  <2> QED BY <1>0, <1>1, <1>6, <2>1, <2>2, SilenceKept
<1>9. ASSUME NEW type \in Interfaces, NEW k, NEW q, NEW w \in Seq(ReportsOf(type)),
             InHand(k, q, type), Carried(type, k, q, w)
      PROVE  Carried(type, k, q, w)'
  <2>0. q \in DOMAIN plug
    BY <1>9 DEF InHand
  <2>1. CASE type = T
    <3>1. k = td.slot /\ q = p
      BY <1>2, <1>9, <2>1, OneInHand
    <3>2. ~(td.slot = k /\ td.done) /\ (td'.slot = k /\ td'.done)
      BY <1>2, <1>6a, <3>1
    <3>3. w = f
      BY <1>3, <1>9, <2>1, <3>1, <3>2 DEF Carried, Untold
    <3>4. Head(f) = f[1]
      BY <1>3, <1>4a
    <3>5. g_hid_devices'[k].toggle = hid.toggle
      BY <1>1, <3>1
    <3>6. Untold(td'.slot = k /\ td'.done, td'.report, device'[p].toggle[T] = hid.toggle, device'[p].fifo[T], w)
      BY <1>3, <1>5, <1>5a, <1>6a, <3>2, <3>3, <3>4 DEF Untold
    <3> QED BY <2>1, <3>1, <3>5, <3>6 DEF Carried
  <2>2. CASE type # T
    <3>1. k # td.slot
      BY <1>9, <2>2 DEF InHand
    <3> QED BY <1>1, <1>2, <1>5, <1>5a, <1>6a, <1>9, <2>0, <2>2, <3>1, OthersCarried, ZenonT(60)
  <2> QED BY <2>1, <2>2
<1> QED BY <1>1, <1>6, <1>7, <1>8, <1>9, LineKeeps

\* Nothing happens to the mice.
LEMMA PointerUntouched ==
    ASSUME Settled, PointerSound, UNCHANGED <<mouse, hand, seen>>,
           \A k, p : InHand(k, p, "mouse") => /\ g_hid_devices'[k].last = g_hid_devices[k].last
                                              /\ \A w : Carried("mouse", k, p, w) => Carried("mouse", k, p, w)'
    PROVE  PointerSound'
<1>1. At' = At
  BY DEF At
<1>2. \A w : Track(w) => Track(w)'
  BY <1>1 DEF Track
<1>3. ASSUME NEW k, NEW p, InHand(k, p, "mouse")'
      PROVE  /\ g_hid_devices'[k].last = {mouse'.button}
             /\ \E w \in Seq(MouseReports) : Carried("mouse", k, p, w)' /\ Track(w)'
  <2>1. InHand(k, p, "mouse")
    BY <1>3, SettledInHand
  <2>2. PICK w \in Seq(MouseReports) : Carried("mouse", k, p, w) /\ Track(w)
    BY <2>1 DEF PointerSound
  <2>3. g_hid_devices[k].last = {mouse.button}
    BY <2>1 DEF PointerSound
  <2> QED BY <1>2, <2>1, <2>2, <2>3
<1>4. (\A k, p : ~InHand(k, p, "mouse")') => hand' = At'
  BY <1>1, SettledInHand DEF PointerSound
<1>5. IF mouse'.queue = <<>> THEN seen' = At' ELSE mouse'.queue[Len(mouse'.queue)] = At'
  BY <1>1 DEF PointerSound
<1> QED BY <1>3, <1>4, <1>5 DEF PointerSound

LEMMA ScriptSame ==
    ASSUME keyboard'.buffer = keyboard.buffer, person' = person, typed' = typed
    PROVE  \A hid, w : Script(hid, w)' <=> Script(hid, w)
BY DEF Script

\* Nothing happens to the keyboards.
LEMMA KeysUntouched ==
    ASSUME Settled, KeysSound, UNCHANGED <<keyboard, person, typed>>,
           \A k, p : InHand(k, p, "keyboard") =>
               /\ g_hid_devices'[k] = g_hid_devices[k]
               /\ \A w : Carried("keyboard", k, p, w) => Carried("keyboard", k, p, w)'
    PROVE  KeysSound'
<1>1. \A hid, w : Script(hid, w)' <=> Script(hid, w)
  BY ScriptSame
<1>2. ASSUME NEW k, NEW p, InHand(k, p, "keyboard")'
      PROVE  \E w \in Seq(KeyReports) : Carried("keyboard", k, p, w)' /\ Script(g_hid_devices[k], w)'
  <2>1. InHand(k, p, "keyboard")
    BY <1>2, SettledInHand
  <2>2. PICK w \in Seq(KeyReports) : Carried("keyboard", k, p, w) /\ Script(g_hid_devices[k], w)
    BY <2>1 DEF KeysSound
  <2>3. Carried("keyboard", k, p, w)' /\ g_hid_devices'[k] = g_hid_devices[k]
    BY <2>1, <2>2
  <2>4. Script(g_hid_devices[k], w)'
    <3>1. PICK hid : hid = g_hid_devices[k]
      OBVIOUS
    <3>2. Script(hid, w) /\ hid = g_hid_devices'[k]
      BY <2>2, <2>3, <3>1
    <3>3. Script(hid, w)'
      BY <1>1, <3>2
    <3> QED BY <3>2, <3>3
  <2> QED BY <2>3, <2>4
<1>3. (\A k, p : ~InHand(k, p, "keyboard")') =>
         /\ typed' = Plain(keyboard'.buffer)
         /\ ~keyboard'.usb => keyboard'.shift = Shifted(person') /\ keyboard'.caps = person'.caps
  BY SettledInHand DEF KeysSound
<1> QED BY <1>2, <1>3 DEF KeysSound

-----------------------------------------------------------------------------
(* Mice.                                                                   *)

Mice == [x : 0 .. Width - 1, y : 0 .. Height - 1, button : BOOLEAN, queue : Seq(Spots), usb : BOOLEAN]

\* A mouse after a movement: where it is, and the last event of its queue.
After(m, report) ==
    /\ m \in Mice /\ m.usb = mouse.usb
    /\ [x |-> m.x, y |-> m.y, button |-> m.button] = MovedBy(At, report)
    /\ \/ m.queue = mouse.queue /\ [x |-> m.x, y |-> m.y, button |-> m.button] = At
       \/ m.queue # <<>> /\ m.queue[Len(m.queue)] = [x |-> m.x, y |-> m.y, button |-> m.button]

LEMMA ClampType ==
    ASSUME NEW v \in Int, NEW n \in Nat \ {0}
    PROVE  clamp_i32(v, 0, n - 1) \in 0 .. n - 1 /\ (v \in 0 .. n - 1 => clamp_i32(v, 0, n - 1) = v)
BY DEF clamp_i32

LEMMA MovedType ==
    ASSUME NEW spot \in Spots, NEW report \in MouseReports
    PROVE  MovedBy(spot, report) \in Spots
<1>1. spot.x + report.dx \in Int /\ spot.y + report.dy \in Int /\ report.button \in BOOLEAN
  BY InputAssumption DEF Spots, MouseReports
<1>2. Width \in Nat \ {0} /\ Height \in Nat \ {0}
  BY InputAssumption
<1>3. /\ clamp_i32(spot.x + report.dx, 0, Width - 1) \in 0 .. Width - 1
      /\ clamp_i32(spot.y + report.dy, 0, Height - 1) \in 0 .. Height - 1
  BY <1>1, <1>2, ClampType
<1> QED BY <1>1, <1>3 DEF MovedBy, Spots

\* A queue that is full forgets its oldest event, never its newest.
LEMMA QueuePush ==
    ASSUME NEW queue \in Seq(Spots), NEW ev \in Spots
    PROVE  LET q == mouse_queue_push(queue, ev)
           IN  q \in Seq(Spots) /\ q # <<>> /\ q[Len(q)] = ev
<1>1. CASE Len(queue) < MouseQueueSize - 1
  BY <1>1 DEF mouse_queue_push
<1>2. CASE ~(Len(queue) < MouseQueueSize - 1)
  <2>1. queue # <<>>
    BY <1>2, InputAssumption
  <2> DEFINE t == Tail(queue)
  <2>2. t \in Seq(Spots)
    BY <2>1
  <2>3. mouse_queue_push(queue, ev) = Append(t, ev)
    BY <1>2 DEF mouse_queue_push
  <2> HIDE DEF t
  <2> QED BY <2>2, <2>3
<1> QED BY <1>1, <1>2

LEMMA ApplyDelta ==
    ASSUME mouse \in Mice, NEW report \in MouseReports
    PROVE  After(mouse_apply_delta(report.dx, -report.dy, report.button), report)
<1> DEFINE b == report.button
           m == mouse_apply_delta(report.dx, -report.dy, b)
           ev == MovedBy(At, report)
<1>1. At \in Spots /\ mouse.queue \in Seq(Spots)
  BY DEF At, Spots, Mice
<1>2. ev \in Spots
  BY <1>1, MovedType
<1>3. ev = [x |-> clamp_i32(mouse.x + report.dx, 0, Width - 1),
            y |-> clamp_i32(mouse.y - (-report.dy), 0, Height - 1), button |-> b]
  <2>1. mouse.y - (-report.dy) = mouse.y + report.dy
    BY InputAssumption DEF Mice, MouseReports
  <2> QED BY <2>1 DEF MovedBy, At
<1>4. CASE ev = At
  <2>1. m = mouse
    BY <1>3, <1>4, Zenon DEF mouse_apply_delta, At
  <2> HIDE DEF m
  <2>2. [x |-> m.x, y |-> m.y, button |-> m.button] = At
    BY <2>1 DEF At
  <2>3. After(m, report)
    BY <1>4, <2>1, <2>2 DEF After
  <2> QED BY <2>3 DEF m
<1>5. CASE ev # At
  <2> DEFINE q == mouse_queue_push(mouse.queue, ev)
  <2>1. m = [mouse EXCEPT !.x = ev.x, !.y = ev.y, !.button = b, !.queue = q]
    BY <1>3, <1>5, Zenon DEF mouse_apply_delta, At
  <2>2. q \in Seq(Spots) /\ q # <<>> /\ q[Len(q)] = ev
    BY <1>1, <1>2, QueuePush
  <2>3. ev.button = b
    BY <1>3
  <2> HIDE DEF m, ev, q, b
  <2>4. ev = [x |-> ev.x, y |-> ev.y, button |-> ev.button]
        /\ ev.x \in 0 .. Width - 1 /\ ev.y \in 0 .. Height - 1 /\ ev.button \in BOOLEAN
    BY <1>2 DEF Spots
  <2>5. m \in Mice /\ m.usb = mouse.usb /\ m.x = ev.x /\ m.y = ev.y /\ m.button = ev.button /\ m.queue = q
    BY <2>1, <2>2, <2>3, <2>4 DEF Mice
  <2>6. [x |-> m.x, y |-> m.y, button |-> m.button] = ev
    BY <2>4, <2>5
  <2>7. After(m, report)
    BY <2>2, <2>5, <2>6 DEF After, ev
  <2> QED BY <2>7 DEF m, b
<1> QED BY <1>4, <1>5

\* The conversions of a movement.
LEMMA Int8Is ==
    ASSUME NEW v \in Int
    PROVE  Int8(v) \in Int /\ PacketDelta(v) \in Int
BY DEF Int8, PacketDelta

\* A movement as the driver applies it, after its conversions.
LEMMA ApplyAny ==
    ASSUME mouse \in Mice, NEW dx \in Int, NEW dy \in Int, NEW b \in BOOLEAN
    PROVE  After(mouse_apply_delta(dx, dy, b), [dx |-> dx, dy |-> -dy, button |-> b])
<1> DEFINE r == [dx |-> dx, dy |-> -dy, button |-> b]
<1>1. r \in MouseReports /\ r.dx = dx /\ -r.dy = dy /\ r.button = b
  BY DEF MouseReports
<1> HIDE DEF r
<1>2. After(mouse_apply_delta(r.dx, -r.dy, r.button), r)
  BY <1>1, ApplyDelta
<1>3. After(mouse_apply_delta(dx, dy, b), r)
  BY <1>1, <1>2
<1> QED BY <1>3 DEF r

\* A report that says nothing new.
LEMMA NotApplied ==
    ASSUME mouse \in Mice, NEW report \in MouseReports,
           report.dx = 0, report.dy = 0, report.button = mouse.button
    PROVE  After(mouse, report)
<1>1. mouse.x \in 0 .. Width - 1 /\ mouse.y \in 0 .. Height - 1 /\ Width \in Nat \ {0} /\ Height \in Nat \ {0}
  BY InputAssumption DEF Mice
<1>2. mouse.x + 0 = mouse.x /\ mouse.y + 0 = mouse.y /\ mouse.x \in Int /\ mouse.y \in Int
  BY <1>1
<1>3. clamp_i32(mouse.x, 0, Width - 1) = mouse.x /\ clamp_i32(mouse.y, 0, Height - 1) = mouse.y
  BY <1>1, <1>2, ClampType
<1>4. MovedBy(At, report) = At
  BY <1>2, <1>3 DEF MovedBy, At
<1> QED BY <1>4 DEF After, At

-----------------------------------------------------------------------------
(* A poll that receives a report.                                          *)

\* The driver passes the report on and changes its entry.
Delivered(new) ==
    /\ td.done /\ td' = NoTd
    /\ UNCHANGED <<plug, device, g_next_usb_address, port>>
    /\ g_hid_devices' = [g_hid_devices EXCEPT ![td.slot] = new]
    /\ new \in Entries /\ new.type = g_hid_devices[td.slot].type
    /\ new.addr = g_hid_devices[td.slot].addr
    /\ new.toggle = ~g_hid_devices[td.slot].toggle
    /\ keyboard'.usb = keyboard.usb /\ mouse'.usb = mouse.usb

LEMMA DeliveredKeeps ==
    ASSUME Base, Silence, NEW new, Delivered(new)
    PROVE  /\ Settled /\ LineTypes' /\ Silence' /\ td.slot \in DOMAIN g_hid_devices
           /\ g_hid_devices'[td.slot] = new
           /\ \A k \in DOMAIN g_hid_devices : k # td.slot => g_hid_devices'[k] = g_hid_devices[k]
           /\ \E p : InHand(td.slot, p, g_hid_devices[td.slot].type)
<1>1. PICK p : InHand(td.slot, p, g_hid_devices[td.slot].type)
  BY DEF Silence, Delivered
<1>2. td.slot \in DOMAIN g_hid_devices
  BY <1>1 DEF InHand
<1>3. g_hid_devices \in Seq(Entries) /\ DOMAIN g_hid_devices = 1 .. Len(g_hid_devices)
  BY DEF Base, LineTypes
<1>4. /\ g_hid_devices' \in Seq(Entries) /\ DOMAIN g_hid_devices' = DOMAIN g_hid_devices
      /\ g_hid_devices'[td.slot] = new
      /\ \A k \in DOMAIN g_hid_devices : k # td.slot => g_hid_devices'[k] = g_hid_devices[k]
  <2>1. g_hid_devices' = [g_hid_devices EXCEPT ![td.slot] = new] /\ new \in Entries
    BY DEF Delivered
  <2> QED BY <1>2, <1>3, <2>1
<1>5. Settled
  BY <1>4 DEF Settled, Delivered
<1>6. LineTypes'
  <2>1. td' \in [slot : {0} \cup DOMAIN g_hid_devices', done : BOOLEAN, report : SUBSET AnyReport]
        /\ td'.slot = 0
    BY DEF Delivered, NoTd
  <2>2. UNCHANGED <<plug, device, g_next_usb_address, port>>
    BY DEF Delivered
  <2> QED BY <1>4, <2>1, <2>2 DEF Base, LineTypes
<1>7. Silence'
  <2>1. UNCHANGED <<plug, device>> /\ ~td'.done
    BY DEF Delivered, NoTd
  <2>2. ASSUME NEW q \in DOMAIN plug, NEW type \in Interfaces, device'[q].fifo[type] # <<>>
        PROVE  \E k : InHand(k, q, type)'
    BY <1>5, <2>1, <2>2, SettledInHand DEF Silence
  <2> QED BY <2>1, <2>2 DEF Silence
<1> QED BY <1>1, <1>2, <1>4, <1>5, <1>6, <1>7

\* What was untold, without the report that was received.
LEMMA CarriedNext ==
    ASSUME Base, NEW new, Delivered(new), NEW p, NEW type,
           InHand(td.slot, p, type), g_hid_devices'[td.slot] = new,
           NEW w \in Seq(ReportsOf(type)), Carried(type, td.slot, p, w), NEW k, k = td.slot
    PROVE  w # <<>> /\ td.report = {w[1]} /\ Carried(type, k, p, Tail(w))'
<1> DEFINE t == device[p].toggle[type]
           h == g_hid_devices[k].toggle
           f == device[p].fifo[type]
<1>1. t \in BOOLEAN /\ h \in BOOLEAN
  <2>1. type \in Interfaces /\ p \in DOMAIN plug /\ k \in DOMAIN g_hid_devices /\ LineTypes
    BY EntryIs DEF InHand, Base
  <2> QED BY <2>1, EntryIs, DeviceIs
<1>2. Untold(TRUE, td.report, t = h, f, w)
  <2>1. td.slot = td.slot /\ td.done
    BY DEF Delivered
  <2> QED BY <2>1 DEF Carried, Untold
<1>3. w # <<>> /\ td.report = {w[1]} /\ f = IF t = h THEN w ELSE Tail(w)
  BY <1>2 DEF Untold
<1>4. /\ device'[p].toggle[type] = t /\ device'[p].fifo[type] = f
      /\ g_hid_devices'[k].toggle = ~h /\ ~(td'.slot = k /\ td'.done)
  BY DEF Delivered, NoTd
<1> HIDE DEF t, h, f
<1>5. Untold(td'.slot = k /\ td'.done, td'.report, t = ~h, f, Tail(w))
  BY <1>1, <1>3, <1>4 DEF Untold
<1>6. Carried(type, k, p, Tail(w))'
  BY <1>4, <1>5 DEF Carried
<1> QED BY <1>3, <1>6

\* The other interface is not affected.
LEMMA OtherCarried ==
    ASSUME Base, Silence, NEW new, Delivered(new), NEW type, type # g_hid_devices[td.slot].type,
           NEW k, NEW p, InHand(k, p, type)
    PROVE  /\ g_hid_devices'[k] = g_hid_devices[k]
           /\ \A w : Carried(type, k, p, w) => Carried(type, k, p, w)'
<1>1. k # td.slot /\ k \in DOMAIN g_hid_devices
  BY DEF InHand
<1>2. g_hid_devices'[k] = g_hid_devices[k]
  BY <1>1, DeliveredKeeps
<1>3. device' = device /\ ~td'.done
  BY DEF Delivered, NoTd
<1> QED BY <1>1, <1>2, <1>3, OthersCarried

LEMMA TailIs ==
    ASSUME NEW A, NEW w \in Seq(A), w # <<>>
    PROVE  /\ Tail(w) \in Seq(A) /\ Len(w) \in Nat /\ Len(Tail(w)) + 1 = Len(w) /\ Len(Tail(w)) \in Nat
           /\ \A i \in 1 .. Len(Tail(w)) : Tail(w)[i] = w[i + 1] /\ i + 1 \in 1 .. Len(w)
           /\ 1 \in 1 .. Len(w) /\ w[1] \in A
OBVIOUS

\* The first report takes the pointer along the track.
LEMMA TrackShift ==
    ASSUME NEW w \in Seq(MouseReports), w # <<>>, Track(w), hand' = hand, At' = MovedBy(At, w[1])
    PROVE  Track(Tail(w))'
<1>1. PICK s \in [0 .. Len(w) -> Spots] :
        /\ s[0] = At /\ s[Len(w)] = hand
        /\ \A i \in 1 .. Len(w) : s[i] = MovedBy(s[i - 1], w[i])
  BY DEF Track
<1> DEFINE v == Tail(w)
           n == Len(v)
           u == [i \in 0 .. n |-> s[i + 1]]
<1>2. /\ n + 1 = Len(w) /\ n \in Nat /\ 1 \in 1 .. Len(w)
      /\ \A i \in 1 .. n : v[i] = w[i + 1] /\ i + 1 \in 1 .. Len(w)
  BY TailIs
<1> HIDE DEF v, n
<1>3. u \in [0 .. n -> Spots]
  <2>1. \A i \in 0 .. n : i + 1 \in 0 .. Len(w)
    BY <1>2
  <2>2. \A i \in 0 .. n : s[i + 1] \in Spots
    BY <1>1, <2>1
  <2> QED BY <2>2
<1>4. u[0] = At'
  <2>1. s[1] = MovedBy(s[0], w[1])
    <3>1. s[1] = MovedBy(s[1 - 1], w[1])
      BY <1>1, <1>2, Zenon
    <3> QED BY <3>1
  <2>2. u[0] = s[1]
    BY <1>2
  <2> QED BY <1>1, <2>1, <2>2
<1>5. u[n] = hand'
  BY <1>1, <1>2
<1>6. ASSUME NEW i \in 1 .. n PROVE u[i] = MovedBy(u[i - 1], v[i])
  <2>1. s[i + 1] = MovedBy(s[(i + 1) - 1], w[i + 1])
    BY <1>1, <1>2, Zenon
  <2>2. (i + 1) - 1 = i /\ (i - 1) + 1 = i /\ i - 1 \in 0 .. n /\ i \in 0 .. n
    BY <1>2
  <2>3. u[i] = s[i + 1] /\ u[i - 1] = s[i]
    BY <2>2
  <2> QED BY <1>2, <2>1, <2>2, <2>3
<1> HIDE DEF u
<1>7. Track(v)'
  BY <1>3, <1>4, <1>5, <1>6 DEF Track, n
<1> QED BY <1>7 DEF v

\* The queue's last event is where the pointer is.
LEMMA QueueFollows ==
    ASSUME PointerSound, NEW report, After(mouse', report), seen' = seen
    PROVE  IF mouse'.queue = <<>> THEN seen' = At' ELSE mouse'.queue[Len(mouse'.queue)] = At'
BY DEF PointerSound, After, At

\* The pointer follows the report, or was there already.
LEMMA MouseReceives ==
    ASSUME Base, InUseSound, td.done, NEW report \in td.report, NEW hid, hid = g_hid_devices[td.slot],
           hid.type # "keyboard", usb_hid_process_mouse(hid, report), td' = NoTd,
           UNCHANGED <<plug, device, g_next_usb_address, port, person, hand, seen>>
    PROVE  Base' /\ InUseSound'
<1> DEFINE new == [hid EXCEPT !.toggle = ~hid.toggle, !.last = {report.button}]
<1>0. Silence /\ LineTypes /\ InputTypes /\ Addresses
  BY DEF Base, InUseSound
<1>1. td.slot # 0 /\ td.slot \in DOMAIN g_hid_devices
  BY <1>0 DEF Silence, InHand
<1>2. hid \in Entries /\ hid.type = "mouse" /\ hid.toggle \in BOOLEAN
  BY <1>0, <1>1, EntryIs DEF Interfaces
<1>3. report \in MouseReports
  <2>1. report \in ReportsOf(hid.type)
    BY <1>0, <1>1 DEF LineTypes
  <2> QED BY <1>2, <2>1 DEF ReportsOf
<1>3a. report.button \in BOOLEAN
  BY <1>3 DEF MouseReports
<1>4. /\ g_hid_devices' = [g_hid_devices EXCEPT ![td.slot] = new] /\ UNCHANGED <<keyboard, typed>>
      /\ mouse' = IF report.dx # 0 \/ report.dy # 0 \/ report.button \notin hid.last
                  THEN mouse_apply_delta(report.dx, Int8(-report.dy), report.button) ELSE mouse
      /\ lost' = lost \cup {type \in {"mouse"} : Int8(-report.dy) # -report.dy}
  BY DEF usb_hid_process_mouse, NextToggle
<1>5. new \in Entries /\ new.type = hid.type /\ new.addr = hid.addr /\ new.toggle = ~hid.toggle
      /\ new.last = {report.button}
  BY <1>2, <1>3a DEF Entries
<1> HIDE DEF new
<1>6. mouse \in Mice
  BY <1>0 DEF InputTypes, Mice
<1>7. mouse' \in Mice /\ mouse'.usb = mouse.usb
  <2>1. report.dx \in Int /\ -report.dy \in Int
    BY <1>3 DEF MouseReports
  <2>2. PICK dy \in Int : dy = Int8(-report.dy)
    BY <2>1, Int8Is
  <2>3. PICK r : After(mouse_apply_delta(report.dx, dy, report.button), r)
    BY <1>3a, <1>6, <2>1, ApplyAny
  <2> QED BY <1>4, <1>6, <2>2, <2>3 DEF After
<1>8. Delivered(new)
  BY <1>4, <1>5, <1>7 DEF Delivered
<1>9. /\ Settled /\ LineTypes' /\ Silence' /\ g_hid_devices'[td.slot] = new
      /\ \E p : InHand(td.slot, p, "mouse")
  BY <1>0, <1>2, <1>8, DeliveredKeeps
<1>10. Base'
  <2>1. InputTypes'
    BY <1>0, <1>4, <1>7 DEF InputTypes, Mice
  <2> QED BY <1>0, <1>9, <2>1, SettledAddresses DEF Base
<1>11. ASSUME "keyboard" \notin lost' PROVE KeysSound'
  <2>1. KeysSound
    BY <1>4, <1>11 DEF InUseSound
  <2>2. \A k, p : InHand(k, p, "keyboard") =>
               /\ g_hid_devices'[k] = g_hid_devices[k]
               /\ \A w : Carried("keyboard", k, p, w) => Carried("keyboard", k, p, w)'
    BY <1>0, <1>2, <1>8, OtherCarried
  <2> QED BY <1>4, <1>9, <2>1, <2>2, KeysUntouched
<1>12. ASSUME "mouse" \notin lost' PROVE PointerSound'
  <2>1. PointerSound /\ Int8(-report.dy) = -report.dy
    BY <1>4, <1>12 DEF InUseSound
  <2>2. PICK p : InHand(td.slot, p, "mouse")
    BY <1>9
  <2>3. PICK w \in Seq(MouseReports) : Carried("mouse", td.slot, p, w) /\ Track(w)
    BY <2>1, <2>2 DEF PointerSound
  <2>4. hid.last = {mouse.button}
    BY <2>1, <2>2 DEF PointerSound
  <2>5. PICK k : k = td.slot
    OBVIOUS
  <2>6. w # <<>> /\ td.report = {w[1]} /\ Carried("mouse", k, p, Tail(w))'
    <3>1. w \in Seq(ReportsOf("mouse"))
      BY DEF ReportsOf
    <3> QED BY <1>8, <1>9, <2>2, <2>3, <2>5, <3>1, CarriedNext
  <2>7. report = w[1]
    BY <2>6
  <2>8. After(mouse', report)
    BY <1>3, <1>4, <1>6, <2>1, <2>4, ApplyDelta, NotApplied
  <2>9. At' = MovedBy(At, w[1])
    BY <2>7, <2>8 DEF After, At
  <2>10. Track(Tail(w))' /\ Tail(w) \in Seq(MouseReports)
    BY <2>3, <2>6, <2>9, TrackShift, TailIs
  <2>11. mouse'.button = report.button
    <3>1. [x |-> mouse'.x, y |-> mouse'.y, button |-> mouse'.button] = MovedBy(At, report)
      BY <2>8 DEF After
    <3>2. MovedBy(At, report).button = report.button
      BY DEF MovedBy
    <3> QED BY <3>1, <3>2
  <2>12. ASSUME NEW j, NEW q, InHand(j, q, "mouse")'
         PROVE  /\ g_hid_devices'[j].last = {mouse'.button}
                /\ \E v \in Seq(MouseReports) : Carried("mouse", j, q, v)' /\ Track(v)'
    <3>1. InHand(j, q, "mouse")
      BY <1>9, <2>12, SettledInHand
    <3>2. j = k /\ q = p
      BY <2>2, <2>5, <3>1, OneInHand
    <3> QED BY <1>5, <1>9, <2>5, <2>6, <2>10, <2>11, <3>2
  <2>13. ~ \A j, q : ~InHand(j, q, "mouse")'
    BY <1>9, <2>2, <2>5, SettledInHand
  <2>14. IF mouse'.queue = <<>> THEN seen' = At' ELSE mouse'.queue[Len(mouse'.queue)] = At'
    BY <2>1, <2>8, QueueFollows
  <2> QED BY <2>12, <2>13, <2>14 DEF PointerSound
<1> QED BY <1>9, <1>10, <1>11, <1>12 DEF InUseSound

-----------------------------------------------------------------------------
(* A keyboard's report.                                                    *)

LEMMA CandidateType ==
    ASSUME NEW chars \in Seq(Chars), NEW report \in KeyReports
    PROVE  RepeatCandidate(chars, report) \in AllKeys
<1> DEFINE held == Only(report.keys, Keys)
<1>1. held \in Seq(AllKeys \cap Keys)
  BY OnlyType DEF KeyReports
<1>2. held # <<>> => held[1] \in AllKeys
  BY <1>1
<1>3. chars # <<>> => chars[1].key \in AllKeys
  <2>1. chars # <<>> => chars[1] \in Chars
    OBVIOUS
  <2>2. \A c \in Chars : c.key \in AllKeys
    BY DEF Chars, AllKeys
  <2> QED BY <2>1, <2>2
<1>4. CapsLock \in AllKeys
  BY DEF AllKeys
<1> HIDE DEF held
<1> QED BY <1>2, <1>3, <1>4 DEF RepeatCandidate, held

\* The character a held key repeats.
LEMMA AgainType ==
    ASSUME NEW key \in AllKeys, key # CapsLock, NEW shift \in BOOLEAN, NEW caps \in BOOLEAN
    PROVE  [Char(key, shift, caps) EXCEPT !.again = TRUE] \in Repeated
<1>1. Char(key, shift, caps) \in Chars
  BY CharType DEF AllKeys
<1> DEFINE c == Char(key, shift, caps)
<1> HIDE DEF c
<1>2. c \in Chars
  BY <1>1 DEF c
<1>3. [c EXCEPT !.again = TRUE] \in Repeated
  BY <1>2 DEF Chars, Repeated
<1> QED BY <1>3 DEF c

LEMMA Before ==
    ASSUME NEW n \in Nat
    PROVE  /\ 0 \in 0 .. n /\ n \in 0 .. n /\ 0 + 1 = 1
           /\ \A i \in 1 .. n : (i + 1) - 1 = i /\ (i - 1) + 1 = i /\ i - 1 \in 0 .. n /\ i \in 0 .. n
OBVIOUS

\* The driver types what the first report of the script adds.
LEMMA ScriptNext ==
    ASSUME NEW w \in Seq(KeyReports), NEW hid, NEW again, NEW typing, NEW s, NEW new,
           w # <<>>, hid.caps \in BOOLEAN, Script(hid, w),
           keyboard.buffer \in Seq(Chars), typed \in Seq(Chars), person' = person,
           Repeats(again), typing = Typing(hid, w[1]), s = Pushed(typing.chars \o again, typed),
           keyboard'.buffer = s.buffer, typed' = s.typed, new.last = ToSet(w[1].keys), new.caps = typing.caps
    PROVE  Script(new, Tail(w))'
<1>1. PICK down \in [0 .. Len(w) -> SUBSET AllKeys], caps \in [0 .. Len(w) -> BOOLEAN],
           rest \in [0 .. Len(w) -> Seq(Chars)] :
        /\ down[0] = hid.last /\ caps[0] = hid.caps
        /\ typed = Plain(keyboard.buffer) \o rest[0]
        /\ down[Len(w)] = ToSet(person.keys) /\ caps[Len(w)] = person.caps
        /\ rest[Len(w)] = <<>>
        /\ \A i \in 1 .. Len(w) :
              /\ down[i] = ToSet(w[i].keys)
              /\ OneEvent(down[i - 1], caps[i - 1], w[i], caps[i], rest[i - 1], rest[i])
  BY DEF Script
<1> DEFINE v == Tail(w)
           n == Len(v)
           d == [i \in 0 .. n |-> down[i + 1]]
           c == [i \in 0 .. n |-> caps[i + 1]]
           r == [i \in 0 .. n |-> rest[i + 1]]
<1>2. /\ n + 1 = Len(w) /\ n \in Nat /\ 1 \in 1 .. Len(w) /\ w[1] \in KeyReports
      /\ \A i \in 1 .. n : v[i] = w[i + 1] /\ i + 1 \in 1 .. Len(w)
  BY TailIs
<1>2a. n \in Nat
  BY <1>2
<1> HIDE DEF v, n
<1>3. /\ d \in [0 .. n -> SUBSET AllKeys] /\ c \in [0 .. n -> BOOLEAN] /\ r \in [0 .. n -> Seq(Chars)]
      /\ \A i \in 0 .. n : d[i] = down[i + 1] /\ c[i] = caps[i + 1] /\ r[i] = rest[i + 1]
      /\ rest[0] \in Seq(Chars) /\ rest[1] \in Seq(Chars)
  <2>1. \A i \in 0 .. n : i + 1 \in 0 .. Len(w)
    BY <1>2
  <2>2. 0 \in 0 .. Len(w) /\ 1 \in 0 .. Len(w)
    BY <1>2
  <2>3. \A i \in 0 .. n : down[i + 1] \in SUBSET AllKeys /\ caps[i + 1] \in BOOLEAN /\ rest[i + 1] \in Seq(Chars)
    BY <2>1
  <2> QED BY <2>2, <2>3
<1> HIDE DEF d, c, r
<1>4. OneEvent(hid.last, hid.caps, w[1], caps[1], rest[0], rest[1]) /\ down[1] = ToSet(w[1].keys)
  <2>1. OneEvent(down[1 - 1], caps[1 - 1], w[1], caps[1], rest[1 - 1], rest[1]) /\ down[1] = ToSet(w[1].keys)
    BY <1>1, <1>2, Zenon
  <2>2. 1 - 1 = 0
    OBVIOUS
  <2> QED BY <1>1, <2>1, <2>2
<1>5. typing.caps = caps[1] /\ Comes(typing.chars, rest[0], rest[1])
  <2>1. w[1] \in KeyReports /\ rest[0] \in Seq(Chars) /\ rest[1] \in Seq(Chars)
    BY <1>2, <1>3
  <2>2. OneEvent(hid.last, hid.caps, w[1], caps[1], rest[0], rest[1])
    BY <1>4
  <2>3. Typing(hid, w[1]).caps = caps[1] /\ Comes(Typing(hid, w[1]).chars, rest[0], rest[1])
    BY <2>1, <2>2, TypingOfEvent
  <2> QED BY <2>3
<1>6. s.typed = Plain(s.buffer) \o rest[1]
  <2>2. Fits(Pushed(typing.chars \o again, typed), rest[1])
    BY <1>1, <1>3, <1>5, PushedKeeps
  <2> QED BY <2>2, Zenon DEF Fits
<1>7. d[0] = new.last /\ c[0] = new.caps /\ typed' = Plain(keyboard'.buffer) \o r[0]
  <2>1. 0 \in 0 .. n /\ 0 + 1 = 1
    BY <1>2a, Before
  <2>2. d[0] = down[1] /\ c[0] = caps[1] /\ r[0] = rest[1]
    BY <1>3, <2>1
  <2> QED BY <1>4, <1>5, <1>6, <2>2
<1>8. d[n] = ToSet(person'.keys) /\ c[n] = person'.caps /\ r[n] = <<>>
  <2>1. n \in 0 .. n
    BY <1>2a, Before
  <2> QED BY <1>1, <1>2, <1>3, <2>1
<1>9. ASSUME NEW i \in 1 .. n
      PROVE  d[i] = ToSet(v[i].keys) /\ OneEvent(d[i - 1], c[i - 1], v[i], c[i], r[i - 1], r[i])
  <2>1. /\ down[i + 1] = ToSet(w[i + 1].keys)
        /\ OneEvent(down[(i + 1) - 1], caps[(i + 1) - 1], w[i + 1], caps[i + 1], rest[(i + 1) - 1], rest[i + 1])
    BY <1>1, <1>2, Zenon
  <2>2. (i + 1) - 1 = i /\ (i - 1) + 1 = i /\ i - 1 \in 0 .. n /\ i \in 0 .. n
    BY <1>2a, Before
  <2>3. /\ d[i] = down[i + 1] /\ c[i] = caps[i + 1] /\ r[i] = rest[i + 1]
        /\ d[i - 1] = down[i] /\ c[i - 1] = caps[i] /\ r[i - 1] = rest[i]
    <3>1. d[i] = down[i + 1] /\ c[i] = caps[i + 1] /\ r[i] = rest[i + 1]
      BY <1>3, <2>2, Zenon
    <3>2. d[i - 1] = down[(i - 1) + 1] /\ c[i - 1] = caps[(i - 1) + 1] /\ r[i - 1] = rest[(i - 1) + 1]
      BY <1>3, <2>2, Zenon
    <3> QED BY <2>2, <3>1, <3>2, Zenon
  <2> QED BY <1>2, <2>1, <2>2, <2>3
<1>10. Script(new, v)'
  BY <1>3, <1>7, <1>8, <1>9 DEF Script, n
<1> QED BY <1>10 DEF v

\* The ring gets the characters of the report, as far as it has room.
LEMMA KeyboardReceives ==
    ASSUME Base, InUseSound, td.done, NEW report \in td.report, NEW hid, hid = g_hid_devices[td.slot],
           hid.type = "keyboard", NEW due, usb_hid_process_keyboard(hid, report, due), td' = NoTd,
           UNCHANGED <<plug, device, g_next_usb_address, port, person, hand, seen>>
    PROVE  Base' /\ InUseSound'
<1>0. Silence /\ LineTypes /\ InputTypes /\ Addresses
  BY DEF Base, InUseSound
<1>1. td.slot # 0 /\ td.slot \in DOMAIN g_hid_devices
  BY <1>0 DEF Silence, InHand
<1>2. hid \in Entries /\ hid.toggle \in BOOLEAN /\ hid.caps \in BOOLEAN
  BY <1>0, <1>1, EntryIs
<1>3. report \in KeyReports
  <2>1. report \in ReportsOf(hid.type)
    BY <1>0, <1>1 DEF LineTypes
  <2> QED BY <2>1 DEF ReportsOf
<1> DEFINE ty == Typing(hid, report)
           ca == RepeatCandidate(ty.chars, report)
           ag == IF due /\ ca # CapsLock /\ ca = hid.repeat
                 THEN <<[Char(ca, report.shift, ty.caps) EXCEPT !.again = TRUE]>>
                 ELSE <<>>
<1>4. PICK typing : typing = ty
  OBVIOUS
<1>5. PICK candidate : candidate = ca
  OBVIOUS
<1>6. PICK again : again = ag
  OBVIOUS
<1>7. PICK s : s = Pushed(typing.chars \o again, typed)
  OBVIOUS
<1>8. /\ keyboard' = [keyboard EXCEPT !.buffer = s.buffer] /\ typed' = s.typed /\ mouse' = mouse
      /\ g_hid_devices' = [g_hid_devices EXCEPT ![td.slot] =
             [hid EXCEPT !.toggle = ~hid.toggle, !.caps = typing.caps,
                         !.last = ToSet(report.keys), !.repeat = candidate]]
  BY <1>4, <1>5, <1>6, <1>7, Zenon DEF usb_hid_process_keyboard, NextToggle
<1>9. typing \in Typings /\ typing.chars \in Seq(Chars) /\ typing.caps \in BOOLEAN
  <2>1. typing \in Typings
    BY <1>2, <1>3, <1>4, TypingType
  <2> QED BY <2>1 DEF Typings
<1>10. candidate \in AllKeys
  BY <1>3, <1>4, <1>5, <1>9, CandidateType
<1>11. Repeats(again)
  <2>1. report.shift \in BOOLEAN
    BY <1>3 DEF KeyReports
  <2>2. candidate # CapsLock => [Char(candidate, report.shift, typing.caps) EXCEPT !.again = TRUE] \in Repeated
    BY <1>9, <1>10, <2>1, AgainType
  <2>3. again = <<>> \/ (candidate # CapsLock /\
           again = <<[Char(candidate, report.shift, typing.caps) EXCEPT !.again = TRUE]>>)
    BY <1>4, <1>5, <1>6, Zenon
  <2> QED BY <2>2, <2>3, Zenon DEF Repeats
<1> HIDE DEF ty, ca, ag
<1>12. s \in Rings
  <2>1. \A c \in Repeated : <<c>> \in Seq(Chars)
    BY DEF Repeated
  <2>2. again \in Seq(Chars) /\ typed \in Seq(Chars) /\ keyboard.buffer \in Seq(Chars)
    <3>1. typed \in Seq(Chars) /\ keyboard.buffer \in Seq(Chars)
      BY <1>0 DEF InputTypes
    <3>2. <<>> \in Seq(Chars)
      OBVIOUS
    <3>3. again \in Seq(Chars)
      BY <1>11, <2>1, <3>2, Zenon DEF Repeats
    <3> QED BY <3>1, <3>3
  <2>3. typing.chars \o again \in Seq(Chars)
    BY <1>9, <2>2, ConcatProperties
  <2> QED BY <1>7, <2>2, <2>3, PushedType
<1>13. InputTypes' /\ keyboard'.usb = keyboard.usb /\ keyboard'.buffer = s.buffer
       /\ keyboard'.shift = keyboard.shift /\ keyboard'.caps = keyboard.caps
  <2>1. keyboard \in [buffer : Seq(Chars), shift : BOOLEAN, caps : BOOLEAN, usb : BOOLEAN]
    BY <1>0 DEF InputTypes
  <2>2. s.buffer \in Seq(Chars) /\ s.typed \in Seq(Chars)
    BY <1>12 DEF Rings
  <2>3. /\ keyboard' \in [buffer : Seq(Chars), shift : BOOLEAN, caps : BOOLEAN, usb : BOOLEAN]
        /\ keyboard'.usb = keyboard.usb /\ keyboard'.buffer = s.buffer
        /\ keyboard'.shift = keyboard.shift /\ keyboard'.caps = keyboard.caps
    BY <1>8, <2>1, <2>2
  <2> QED BY <1>0, <1>8, <2>2, <2>3 DEF InputTypes
<1> DEFINE N == [hid EXCEPT !.toggle = ~hid.toggle, !.caps = typing.caps,
                            !.last = ToSet(report.keys), !.repeat = candidate]
<1>14. PICK new : new = N
  OBVIOUS
<1>15. /\ new \in Entries /\ new.type = hid.type /\ new.addr = hid.addr /\ new.toggle = ~hid.toggle
       /\ new.last = ToSet(report.keys) /\ new.caps = typing.caps
  <2>1. ToSet(report.keys) \in SUBSET (AllKeys \cup BOOLEAN)
    <3>1. report.keys \in Seq(AllKeys)
      BY <1>3 DEF KeyReports
    <3> QED BY <3>1 DEF ToSet
  <2> QED BY <1>2, <1>9, <1>10, <1>14, <2>1 DEF Entries
<1>16. Delivered(new)
  <2>1. g_hid_devices' = [g_hid_devices EXCEPT ![td.slot] = new]
    BY <1>8, <1>14, Zenon
  <2> QED BY <1>8, <1>13, <1>15, <2>1 DEF Delivered
<1>17. /\ Settled /\ LineTypes' /\ Silence' /\ g_hid_devices'[td.slot] = new
       /\ \E p : InHand(td.slot, p, "keyboard")
  BY <1>0, <1>16, DeliveredKeeps
<1>18. Base'
  BY <1>0, <1>13, <1>17, SettledAddresses DEF Base
<1>21. lost' = lost
  BY DEF usb_hid_process_keyboard
<1>19. ASSUME "mouse" \notin lost' PROVE PointerSound'
  <2>1. PointerSound
    BY <1>19, <1>21 DEF InUseSound
  <2>2. \A k, p : InHand(k, p, "mouse") =>
               /\ g_hid_devices'[k] = g_hid_devices[k]
               /\ \A w : Carried("mouse", k, p, w) => Carried("mouse", k, p, w)'
    BY <1>0, <1>16, OtherCarried
  <2> QED BY <1>8, <1>17, <2>1, <2>2, PointerUntouched
<1>20. ASSUME "keyboard" \notin lost' PROVE KeysSound'
  <2>1. KeysSound
    BY <1>20, <1>21 DEF InUseSound
  <2>2. PICK p : InHand(td.slot, p, "keyboard")
    BY <1>17
  <2>3. PICK w \in Seq(KeyReports) : Carried("keyboard", td.slot, p, w) /\ Script(hid, w)
    BY <2>1, <2>2 DEF KeysSound
  <2>5. PICK k : k = td.slot
    OBVIOUS
  <2>6. w # <<>> /\ td.report = {w[1]} /\ Carried("keyboard", k, p, Tail(w))'
    <3>1. w \in Seq(ReportsOf("keyboard"))
      BY DEF ReportsOf
    <3> QED BY <1>16, <1>17, <2>2, <2>3, <2>5, <3>1, CarriedNext
  <2>7. report = w[1]
    BY <2>6
  <2>8. Script(new, Tail(w))'
    <3>1. keyboard.buffer \in Seq(Chars) /\ typed \in Seq(Chars)
      BY <1>0 DEF InputTypes
    <3>2. typing = Typing(hid, w[1])
      BY <1>4, <2>7 DEF ty
    <3>3. new.last = ToSet(w[1].keys) /\ new.caps = typing.caps /\ typed' = s.typed /\ keyboard'.buffer = s.buffer
      BY <1>8, <1>13, <1>15, <2>7
    <3>4. person' = person
      OBVIOUS
    <3> QED BY <1>2, <1>7, <1>11, <2>3, <2>6, <3>1, <3>2, <3>3, <3>4, ScriptNext, Zenon
  <2>9. Tail(w) \in Seq(KeyReports)
    BY <2>6, TailIs
  <2>10. ASSUME NEW j, NEW q, InHand(j, q, "keyboard")'
         PROVE  \E v \in Seq(KeyReports) : Carried("keyboard", j, q, v)' /\ Script(g_hid_devices[j], v)'
    <3>1. InHand(j, q, "keyboard")
      BY <1>17, <2>10, SettledInHand
    <3>2. j = k /\ q = p
      BY <2>2, <2>5, <3>1, OneInHand
    <3>3. g_hid_devices'[j] = new
      BY <1>17, <2>5, <3>2
    <3>4. Script(g_hid_devices[j], Tail(w))'
      BY <2>8, <3>3
    <3> QED BY <2>6, <2>9, <3>2, <3>4
  <2>11. ~ \A j, q : ~InHand(j, q, "keyboard")'
    BY <1>17, <2>2, <2>5, SettledInHand
  <2> QED BY <2>10, <2>11 DEF KeysSound
<1> QED BY <1>17, <1>18, <1>19, <1>20 DEF InUseSound

LEMMA ReceivesKeeps ==
    ASSUME Base, InUseSound, NEW due, PollReceives(due)
    PROVE  Base' /\ InUseSound'
<1>1. PICK hid : hid = g_hid_devices[td.slot]
  OBVIOUS
<1>2. PICK report \in td.report :
        IF hid.type = "keyboard" THEN usb_hid_process_keyboard(hid, report, due)
        ELSE usb_hid_process_mouse(hid, report)
  BY <1>1, Zenon DEF PollReceives
<1>3. td.done /\ td' = NoTd /\ UNCHANGED <<plug, device, g_next_usb_address, port, person, hand, seen>>
  BY DEF PollReceives
<1> QED BY <1>1, <1>2, <1>3, MouseReceives, KeyboardReceives

\* The device in the person's hands has one more report.
Spoke(k, p, type, report) ==
    /\ InHand(k, p, type) /\ type \in Interfaces /\ report \in ReportsOf(type)
    /\ device' = [device EXCEPT ![p].fifo[type] = Append(@, report)]
    /\ UNCHANGED <<plug, g_next_usb_address, g_hid_devices, port, td, lost, keyboard, mouse, seen>>

LEMMA SpokeKeeps ==
    ASSUME Base, Silence, NEW k, NEW p, NEW type, NEW report, Spoke(k, p, type, report)
    PROVE  /\ Settled /\ LineTypes' /\ Silence' /\ p \in DOMAIN plug
           /\ Telling(device', p, type)
           /\ device'[p].fifo[type] = Append(device[p].fifo[type], report)
           /\ device'[p].toggle[type] = device[p].toggle[type]
<1> DEFINE f == device[p].fifo[type]
           t == device[p].toggle[type]
           R == ReportsOf(type)
<1>0. LineTypes /\ Addresses
  BY DEF Base
<1>1. p \in DOMAIN plug /\ type \in Interfaces /\ report \in R
  BY DEF Spoke, InHand
<1>2. /\ f \in Seq(R) /\ t \in BOOLEAN /\ device[p] \in Devices /\ device \in [DOMAIN plug -> Devices]
      /\ device[p].toggle \in [Interfaces -> BOOLEAN] /\ device[p].fifo \in [Interfaces -> Seq(AnyReport)]
  BY <1>0, <1>1, DeviceIs DEF LineTypes
<1>3. device' = [device EXCEPT ![p].fifo[type] = Append(f, report)]
  BY <1>1, <1>2 DEF Spoke
<1> DEFINE g == Append(f, report)
<1>4. g \in Seq(R)
  <2> HIDE DEF f, R
  <2> QED BY <1>1, <1>2
<1> HIDE DEF g
<1>5. device' = Spoken(p, type, g, t)
  <2>1. device' = [device EXCEPT ![p].fifo[type] = g]
    BY <1>3 DEF g
  <2> QED BY <1>1, <1>2, <2>1 DEF Spoken, Devices
<1> HIDE DEF t, f, R
<1>6. Telling(device', p, type) /\ device'[p].fifo[type] = g /\ device'[p].toggle[type] = t
  <2>1. LET e == Spoken(p, type, g, t)
        IN  /\ Telling(e, p, type)
            /\ e[p].fifo[type] = g /\ e[p].toggle[type] = t
    BY <1>0, <1>1, <1>2, <1>4, SpokenIs DEF R
  <2> QED BY <1>5, <2>1, Zenon
<1>7. UNCHANGED <<plug, g_next_usb_address, g_hid_devices, port, td, lost, keyboard, mouse, seen>>
  BY DEF Spoke
<1>8. /\ device' \in [DOMAIN plug -> Devices]
      /\ \A q \in DOMAIN plug :
            /\ device'[q].enabled = device[q].enabled /\ device'[q].addr = device[q].addr
            /\ q # p => device'[q] = device[q]
            /\ \A u \in Interfaces : /\ device'[q].fifo[u] \in Seq(ReportsOf(u))
                                     /\ u # type => /\ device'[q].fifo[u] = device[q].fifo[u]
                                                    /\ device'[q].toggle[u] = device[q].toggle[u]
  BY <1>6 DEF Telling
<1>9. Settled
  BY <1>7, <1>8 DEF Settled
<1>10. LineTypes'
  BY <1>0, <1>7, <1>8 DEF LineTypes
<1>11. Silence'
  <2>1. ASSUME NEW q \in DOMAIN plug, NEW u \in Interfaces, device'[q].fifo[u] # <<>>
        PROVE  \E j : InHand(j, q, u)'
    <3>1. CASE q = p /\ u = type
      <4>1. InHand(k, q, u)
        BY <3>1 DEF Spoke
      <4> QED BY <1>9, <4>1, SettledInHand
    <3>2. CASE ~(q = p /\ u = type)
      <4>1. device[q].fifo[u] # <<>>
        BY <1>8, <2>1, <3>2
      <4> QED BY <1>9, <4>1, SettledInHand DEF Silence
    <3> QED BY <3>1, <3>2
  <2>2. ASSUME td'.done
        PROVE  td'.slot # 0 /\ \E q : InHand(td.slot, q, g_hid_devices[td.slot].type)'
    <3>1. PICK j : j = td.slot
      OBVIOUS
    <3>2. td.done /\ j # 0 /\ td'.slot = j /\ g_hid_devices' = g_hid_devices
      BY <1>7, <2>2, <3>1 DEF Silence
    <3>3. PICK q : InHand(j, q, g_hid_devices[j].type)
      BY <3>1, <3>2 DEF Silence
    <3>4. InHand(j, q, g_hid_devices[j].type)'
      <4>1. PICK u : u = g_hid_devices[j].type
        OBVIOUS
      <4>2. InHand(j, q, u)' /\ g_hid_devices'[j].type = u
        BY <1>9, <3>2, <3>3, <4>1, SettledInHand
      <4> QED BY <4>2
    <3> QED BY <3>2, <3>4
  <2> QED BY <1>7, <2>1, <2>2 DEF Silence
<1> QED BY <1>1, <1>6, <1>9, <1>10, <1>11 DEF f, t, g

\* What is untold is one report more.
LEMMA CarriedMore ==
    ASSUME Base, Silence, NEW k, NEW p, NEW type, NEW report, Spoke(k, p, type, report),
           NEW w \in Seq(ReportsOf(type)), Carried(type, k, p, w)
    PROVE  Carried(type, k, p, Append(w, report))' /\ Append(w, report) \in Seq(ReportsOf(type))
<1> DEFINE f == device[p].fifo[type]
           R == ReportsOf(type)
           a == (device[p].toggle[type] = g_hid_devices[k].toggle)
           c == (td.slot = k /\ td.done)
           x == Append(w, report)
<1>1. /\ device'[p].fifo[type] = Append(f, report) /\ device'[p].toggle[type] = device[p].toggle[type]
      /\ UNCHANGED <<g_hid_devices, td>> /\ report \in R
  <2>1. UNCHANGED <<g_hid_devices, td>> /\ report \in R
    BY DEF Spoke
  <2>2. device'[p].fifo[type] = Append(f, report) /\ device'[p].toggle[type] = device[p].toggle[type]
    <3>1. /\ Settled /\ LineTypes' /\ Silence' /\ p \in DOMAIN plug
          /\ Telling(device', p, type)
          /\ device'[p].fifo[type] = Append(device[p].fifo[type], report)
          /\ device'[p].toggle[type] = device[p].toggle[type]
      BY SpokeKeeps
    <3> QED BY <3>1
  <2> QED BY <2>1, <2>2
<1>2. f \in Seq(R)
  <2>1. LineTypes /\ p \in DOMAIN plug /\ type \in Interfaces
    BY DEF Base, Spoke, InHand
  <2> QED BY <2>1, DeviceIs
<1>3. Untold(c, td.report, a, f, w)
  BY DEF Carried
<1> HIDE DEF f, R, a, c
<1>w. w \in Seq(R)
  BY DEF R
<1>4. ASSUME NEW s \in Seq(R), s # <<>>
      PROVE  Tail(Append(s, report)) = Append(Tail(s), report) /\ Append(s, report)[1] = s[1]
  BY <1>1, <1>4, TailAppend
<1>5. x \in Seq(R) /\ x # <<>> /\ Append(f, report) # <<>>
  BY <1>1, <1>2, <1>w
<1>6. Untold(c, td.report, a, Append(f, report), x)
  <2>1. CASE c
    <3>1. w # <<>> /\ td.report = {w[1]} /\ f = IF a THEN w ELSE Tail(w)
      BY <1>3, <2>1 DEF Untold
    <3>2. x[1] = w[1] /\ Append(f, report) = IF a THEN x ELSE Tail(x)
      BY <1>4, <1>w, <3>1
    <3> QED BY <1>5, <2>1, <3>1, <3>2 DEF Untold
  <2>2. CASE ~c
    <3>1. IF a THEN f = w ELSE f # <<>> /\ w = Tail(f)
      BY <1>3, <2>2 DEF Untold
    <3>2. IF a THEN Append(f, report) = x ELSE x = Tail(Append(f, report))
      BY <1>2, <1>4, <3>1
    <3> QED BY <1>5, <2>2, <3>2 DEF Untold
  <2> QED BY <2>1, <2>2
<1> HIDE DEF x
<1>7. Carried(type, k, p, x)'
  BY <1>1, <1>6 DEF Carried, f, a, c
<1> QED BY <1>5, <1>7 DEF x, R

\* The other interface is not affected.
LEMMA SpokeOthers ==
    ASSUME Base, Silence, NEW k, NEW p, NEW type, NEW report, Spoke(k, p, type, report),
           NEW u \in Interfaces, u # type, NEW j, NEW q, InHand(j, q, u), NEW w, Carried(u, j, q, w)
    PROVE  Carried(u, j, q, w)'
<1>1. device'[q].fifo[u] = device[q].fifo[u] /\ device'[q].toggle[u] = device[q].toggle[u]
  BY SpokeKeeps DEF Telling, InHand
<1>2. UNCHANGED <<g_hid_devices, td>>
  BY DEF Spoke
<1> QED BY <1>1, <1>2 DEF Carried

LEMMA UsedInHand ==
    ASSUME NEW type, NEW p \in InUse(type), \A q \in InUse(type) : p <= q
    PROVE  \E k : InHand(k, p, type)
<1>1. p \in DOMAIN plug
  BY DEF InUse
<1>2. PICK k \in DOMAIN g_hid_devices :
         g_hid_devices[k].type = type /\ p \in Answering(g_hid_devices[k].addr) /\ type \in plug[p]
  BY DEF InUse
<1>3. InHand(k, p, type)
  BY <1>1, <1>2 DEF InHand, Answering
<1> QED BY <1>3

\* One more report at the end of the track.
LEMMA TrackMore ==
    ASSUME NEW w \in Seq(MouseReports), NEW report \in MouseReports,
           Track(w), hand \in Spots, hand' = MovedBy(hand, report), At' = At
    PROVE  Track(Append(w, report))'
<1>1. PICK s \in [0 .. Len(w) -> Spots] :
        /\ s[0] = At /\ s[Len(w)] = hand
        /\ \A i \in 1 .. Len(w) : s[i] = MovedBy(s[i - 1], w[i])
  BY DEF Track
<1>2. PICK h : h = hand'
  OBVIOUS
<1> DEFINE x == Append(w, report)
           n == Len(w)
           u == [i \in 0 .. n + 1 |-> IF i <= n THEN s[i] ELSE h]
<1>3. Len(x) = n + 1 /\ n \in Nat /\ x[n + 1] = report /\ \A i \in 1 .. n : x[i] = w[i]
  BY AppendIs
<1>4. h \in Spots
  BY <1>2, MovedType
<1> HIDE DEF x, n
<1>5. u \in [0 .. n + 1 -> Spots]
  <2>1. \A i \in 0 .. n + 1 : i <= n => i \in 0 .. n
    BY <1>3
  <2>2. \A i \in 0 .. n : s[i] \in Spots
    BY <1>1 DEF n
  <2> QED BY <1>4, <2>1, <2>2
<1>6. u[0] = s[0] /\ u[n + 1] = h
  BY <1>3
<1>7. ASSUME NEW i \in 1 .. n + 1 PROVE u[i] = MovedBy(u[i - 1], x[i])
  <2>1. i \in 0 .. n + 1 /\ i - 1 \in 0 .. n + 1 /\ i - 1 <= n
    BY <1>3
  <2>2. u[i - 1] = s[i - 1]
    BY <2>1
  <2>3. CASE i <= n
    <3>1. i \in 1 .. Len(w) /\ i \in 1 .. n
      BY <1>3, <2>3 DEF n
    <3>2. s[i] = MovedBy(s[i - 1], w[i])
      BY <1>1, <3>1, Zenon
    <3>3. u[i] = s[i] /\ x[i] = w[i]
      BY <1>3, <2>1, <2>3, <3>1
    <3> QED BY <2>2, <3>2, <3>3
  <2>4. CASE ~(i <= n)
    <3>1. i = n + 1 /\ i - 1 = n
      BY <1>3, <2>4
    <3>2. u[i - 1] = hand
      BY <1>1, <2>2, <3>1 DEF n
    <3>3. u[i] = h /\ x[i] = report
      BY <1>3, <1>6, <3>1
    <3> QED BY <1>2, <3>2, <3>3
  <2> QED BY <2>3, <2>4
<1> HIDE DEF u
<1>8. Track(x)'
  BY <1>1, <1>2, <1>3, <1>5, <1>6, <1>7 DEF Track
<1> QED BY <1>8 DEF x

LEMMA UsbPointsKeeps ==
    ASSUME Base, InUseSound, UsbPoints
    PROVE  Base' /\ InUseSound'
<1>0. Silence /\ LineTypes /\ InputTypes /\ Addresses
  BY DEF Base, InUseSound
<1>1. PICK p \in InUse("mouse"), move \in Moves, button \in BOOLEAN :
         (\A q \in InUse("mouse") : p <= q) /\ UsbMouse(p, move, button)
  BY DEF UsbPoints
<1>2. UNCHANGED <<plug, g_next_usb_address, g_hid_devices, port, td, lost, keyboard, mouse, person, typed, seen>>
  BY DEF UsbPoints
<1>3. PICK k : InHand(k, p, "mouse")
  BY <1>1, UsedInHand
<1> DEFINE report == [dx |-> move.right, dy |-> move.down, button |-> button]
<1>4. report \in MouseReports
  BY InputAssumption DEF MouseReports
<1>5. hand' = MovedBy(hand, report) /\ Reports(p, "mouse", report)
  BY <1>1 DEF UsbMouse, Moved, MovedBy
<1> HIDE DEF report
<1>6. Spoke(k, p, "mouse", report)
  BY <1>2, <1>3, <1>4, <1>5 DEF Spoke, Reports, ReportsOf, Interfaces
<1>7. Settled /\ LineTypes' /\ Silence'
  BY <1>0, <1>6, SpokeKeeps
<1>8. Base'
  <2>1. hand' \in Spots
    BY <1>0, <1>4, <1>5, MovedType DEF InputTypes
  <2>2. InputTypes'
    BY <1>0, <1>2, <2>1 DEF InputTypes
  <2> QED BY <1>0, <1>7, <2>2, SettledAddresses DEF Base
<1>9. ASSUME "keyboard" \notin lost' PROVE KeysSound'
  <2>1. KeysSound
    BY <1>2, <1>9 DEF InUseSound
  <2>2. ASSUME NEW j, NEW q, InHand(j, q, "keyboard")
        PROVE  /\ g_hid_devices'[j] = g_hid_devices[j]
               /\ \A w : Carried("keyboard", j, q, w) => Carried("keyboard", j, q, w)'
    <3>1. "keyboard" \in Interfaces
      BY DEF Interfaces
    <3> QED BY <1>0, <1>2, <1>6, <2>2, <3>1, SpokeOthers
  <2> QED BY <1>2, <1>7, <2>1, <2>2, KeysUntouched
<1>10. ASSUME "mouse" \notin lost' PROVE PointerSound'
  <2>1. PointerSound
    BY <1>2, <1>10 DEF InUseSound
  <2>2. PICK w \in Seq(MouseReports) : Carried("mouse", k, p, w) /\ Track(w)
    BY <1>3, <2>1 DEF PointerSound
  <2>3. At' = At
    BY <1>2 DEF At
  <2> DEFINE x == Append(w, report)
  <2>4. Track(x)'
    BY <1>0, <1>4, <1>5, <2>2, <2>3, TrackMore DEF InputTypes
  <2>5. Carried("mouse", k, p, x)' /\ x \in Seq(MouseReports)
    <3>1. ReportsOf("mouse") = MouseReports
      BY DEF ReportsOf
    <3> QED BY <1>0, <1>6, <2>2, <3>1, CarriedMore
  <2> HIDE DEF x
  <2>6. ASSUME NEW j, NEW q, InHand(j, q, "mouse")'
        PROVE  /\ g_hid_devices'[j].last = {mouse'.button}
               /\ \E v \in Seq(MouseReports) : Carried("mouse", j, q, v)' /\ Track(v)'
    <3>1. InHand(j, q, "mouse")
      BY <1>7, <2>6, SettledInHand
    <3>2. j = k /\ q = p
      BY <1>3, <3>1, OneInHand
    <3>3. g_hid_devices[j].last = {mouse.button}
      BY <2>1, <3>1 DEF PointerSound
    <3> QED BY <1>2, <2>4, <2>5, <3>2, <3>3
  <2>7. ~ \A j, q : ~InHand(j, q, "mouse")'
    BY <1>3, <1>7, SettledInHand
  <2>8. IF mouse'.queue = <<>> THEN seen' = At' ELSE mouse'.queue[Len(mouse'.queue)] = At'
    BY <1>2, <2>1, <2>3 DEF PointerSound
  <2> QED BY <2>6, <2>7, <2>8 DEF PointerSound
<1> QED BY <1>7, <1>8, <1>9, <1>10 DEF InUseSound

-----------------------------------------------------------------------------
(* Typing.                                                                 *)

LEMMA EventMore ==
    ASSUME NEW before, NEW caps \in BOOLEAN, NEW report \in KeyReports, NEW caps2, NEW rest \in Seq(Chars),
           NEW rest2 \in Seq(Chars), NEW more \in Seq(Chars),
           OneEvent(before, caps, report, caps2, rest, rest2)
    PROVE  OneEvent(before, caps, report, caps2, rest \o more, rest2 \o more)
<1>0. report.shift \in BOOLEAN
  BY DEF KeyReports
<1>1. CASE ToSet(report.keys) \subseteq before /\ caps2 = caps /\ rest = rest2
  BY <1>1, Zenon DEF OneEvent
<1>2. ASSUME NEW ks \in Seq(AllKeys), NEW key \in AllKeys,
             report.keys = Append(ks, key), ToSet(ks) \subseteq before, key \notin before,
             IF key = CapsLock THEN caps2 = ~caps /\ rest = rest2
             ELSE caps2 = caps /\ rest = <<Char(key, report.shift, caps)>> \o rest2
      PROVE  OneEvent(before, caps, report, caps2, rest \o more, rest2 \o more)
  <2>1. CASE key = CapsLock
    <3>1. caps2 = ~caps /\ rest \o more = rest2 \o more
      BY <1>2, <2>1
    <3> QED BY <1>2, <2>1, <3>1, Zenon DEF OneEvent
  <2>2. CASE key # CapsLock
    <3> DEFINE c == Char(key, report.shift, caps)
    <3>1. c \in Chars
      BY <1>0, <2>2, CharType DEF AllKeys
    <3>2. caps2 = caps /\ rest = <<c>> \o rest2
      BY <1>2, <2>2
    <3> HIDE DEF c
    <3>3. <<c>> \in Seq(Chars)
      BY <3>1
    <3>4. (<<c>> \o rest2) \o more = <<c>> \o (rest2 \o more)
      BY <3>3, ConcatAssociative
    <3>5. rest \o more = <<c>> \o (rest2 \o more)
      BY <3>2, <3>4
    <3> QED BY <1>2, <2>2, <3>2, <3>5, Zenon DEF OneEvent, c
  <2> QED BY <2>1, <2>2
<1> QED BY <1>1, <1>2, Zenon DEF OneEvent

\* One more report at the end of the script.
LEMMA ScriptMore ==
    ASSUME NEW w \in Seq(KeyReports), NEW report \in KeyReports, NEW hid, NEW more \in Seq(Chars),
           InputTypes, Script(hid, w), keyboard' = keyboard, typed' = typed \o more,
           report.keys = person'.keys, person'.caps \in BOOLEAN,
           OneEvent(ToSet(person.keys), person.caps, report, person'.caps, more, <<>>)
    PROVE  Script(hid, Append(w, report))'
<1>1. PICK down \in [0 .. Len(w) -> SUBSET AllKeys], caps \in [0 .. Len(w) -> BOOLEAN],
           rest \in [0 .. Len(w) -> Seq(Chars)] :
        /\ down[0] = hid.last /\ caps[0] = hid.caps
        /\ typed = Plain(keyboard.buffer) \o rest[0]
        /\ down[Len(w)] = ToSet(person.keys) /\ caps[Len(w)] = person.caps
        /\ rest[Len(w)] = <<>>
        /\ \A i \in 1 .. Len(w) :
              /\ down[i] = ToSet(w[i].keys)
              /\ OneEvent(down[i - 1], caps[i - 1], w[i], caps[i], rest[i - 1], rest[i])
  BY DEF Script
<1>2. PICK nc : nc = person'.caps
  OBVIOUS
<1> DEFINE x == Append(w, report)
           n == Len(w)
           S == ToSet(report.keys)
           d == [i \in 0 .. n + 1 |-> IF i <= n THEN down[i] ELSE S]
           c == [i \in 0 .. n + 1 |-> IF i <= n THEN caps[i] ELSE nc]
           r == [i \in 0 .. n + 1 |-> IF i <= n THEN rest[i] \o more ELSE <<>>]
<1>3. Len(x) = n + 1 /\ n \in Nat /\ x[n + 1] = report /\ \A i \in 1 .. n : x[i] = w[i] /\ w[i] \in KeyReports
  BY AppendIs
<1>4. S \in SUBSET AllKeys /\ nc \in BOOLEAN
  <2>1. report.keys \in Seq(AllKeys)
    BY DEF KeyReports
  <2>2. S \in SUBSET AllKeys
    BY <2>1 DEF ToSet
  <2> QED BY <1>2, <2>2
<1> HIDE DEF x, n, S
<1>5. \A i \in 0 .. n : down[i] \in SUBSET AllKeys /\ caps[i] \in BOOLEAN /\ rest[i] \in Seq(Chars)
  BY <1>1 DEF n
<1>6. \A i \in 0 .. n : rest[i] \o more \in Seq(Chars)
  BY <1>5, ConcatProperties
<1>7. \A i \in 0 .. n + 1 : i <= n => i \in 0 .. n
  BY <1>3
<1>8. d \in [0 .. n + 1 -> SUBSET AllKeys]
  BY <1>4, <1>5, <1>7
<1>9. c \in [0 .. n + 1 -> BOOLEAN]
  BY <1>4, <1>5, <1>7
<1>10. r \in [0 .. n + 1 -> Seq(Chars)]
  <2>1. <<>> \in Seq(Chars)
    OBVIOUS
  <2> DEFINE m(i) == rest[i] \o more
  <2>2. \A i \in 0 .. n : m(i) \in Seq(Chars)
    BY <1>6
  <2>3. r = [i \in 0 .. n + 1 |-> IF i <= n THEN m(i) ELSE <<>>]
    OBVIOUS
  <2> HIDE DEF m, r
  <2> QED BY <1>7, <2>1, <2>2, <2>3
<1>11. /\ \A i \in 0 .. n : d[i] = down[i] /\ c[i] = caps[i] /\ r[i] = rest[i] \o more
       /\ d[n + 1] = S /\ c[n + 1] = nc /\ r[n + 1] = <<>>
  <2>1. \A i \in 0 .. n : i \in 0 .. n + 1 /\ i <= n
    BY <1>3
  <2>2. n + 1 \in 0 .. n + 1 /\ ~(n + 1 <= n)
    BY <1>3
  <2>3. \A i \in 0 .. n : d[i] = down[i] /\ c[i] = caps[i] /\ r[i] = rest[i] \o more
    BY <2>1, Zenon
  <2> QED BY <2>2, <2>3
<1> HIDE DEF d, c, r
<1>12. d[0] = hid.last /\ c[0] = hid.caps /\ typed' = Plain(keyboard'.buffer) \o r[0]
  <2>1. 0 \in 0 .. n
    BY <1>3
  <2>2. Plain(keyboard.buffer) \in Seq(Chars) /\ rest[0] \in Seq(Chars)
    BY <1>5, <2>1, PlainType DEF InputTypes
  <2>3. ASSUME NEW a \in Seq(Chars), NEW b \in Seq(Chars) PROVE (a \o b) \o more = a \o (b \o more)
    BY ONLY a \in Seq(Chars), b \in Seq(Chars), more \in Seq(Chars), ConcatAssociative, SMTT(30)
  <2>4. typed' = (Plain(keyboard.buffer) \o rest[0]) \o more
    BY <1>1, Zenon
  <2>5. typed' = Plain(keyboard'.buffer) \o (rest[0] \o more)
    BY <2>2, <2>3, <2>4, Zenon
  <2> QED BY <1>1, <1>11, <2>1, <2>5
<1>13. d[n + 1] = ToSet(person'.keys) /\ c[n + 1] = person'.caps /\ r[n + 1] = <<>>
  BY <1>2, <1>11 DEF S
<1>14. ASSUME NEW i \in 1 .. n + 1
       PROVE  d[i] = ToSet(x[i].keys) /\ OneEvent(d[i - 1], c[i - 1], x[i], c[i], r[i - 1], r[i])
  <2>1. i \in 0 .. n + 1 /\ i - 1 \in 0 .. n
    BY <1>3
  <2>2. d[i - 1] = down[i - 1] /\ c[i - 1] = caps[i - 1] /\ r[i - 1] = rest[i - 1] \o more
    BY <1>11, <2>1
  <2>3. CASE i <= n
    <3>1. i \in 1 .. Len(w) /\ i \in 1 .. n /\ i \in 0 .. n
      BY <1>3, <2>3 DEF n
    <3>2. down[i] = ToSet(w[i].keys) /\ OneEvent(down[i - 1], caps[i - 1], w[i], caps[i], rest[i - 1], rest[i])
      BY <1>1, <3>1, Zenon
    <3>3. x[i] = w[i] /\ w[i] \in KeyReports /\ d[i] = down[i] /\ c[i] = caps[i] /\ r[i] = rest[i] \o more
      BY <1>3, <1>11, <3>1
    <3>4. OneEvent(down[i - 1], caps[i - 1], w[i], caps[i], rest[i - 1] \o more, rest[i] \o more)
      BY <1>5, <2>1, <3>1, <3>2, <3>3, EventMore
    <3> QED BY <2>2, <3>2, <3>3, <3>4
  <2>4. CASE ~(i <= n)
    <3>1. i = n + 1 /\ i - 1 = n
      BY <1>3, <2>4
    <3>2. d[i - 1] = ToSet(person.keys) /\ c[i - 1] = person.caps
      BY <1>1, <2>2, <3>1 DEF n
    <3>3. r[i - 1] = more
      <4>1. r[i - 1] = <<>> \o more
        BY <1>1, <2>2, <3>1 DEF n
      <4>2. <<>> \o more = more
        BY ConcatEmptySeq
      <4> QED BY <4>1, <4>2
    <3>4. d[i] = S /\ c[i] = nc /\ r[i] = <<>> /\ x[i] = report
      BY <1>3, <1>11, <3>1
    <3> QED BY <1>2, <3>2, <3>3, <3>4 DEF S
  <2> QED BY <2>3, <2>4
<1>15. Script(hid, x)'
  <2>1. n + 1 = Len(x)
    BY <1>3
  <2>2. d \in [0 .. Len(x) -> SUBSET AllKeys] /\ c \in [0 .. Len(x) -> BOOLEAN] /\ r \in [0 .. Len(x) -> Seq(Chars)]
    BY <1>8, <1>9, <1>10, <2>1
  <2>3. d[Len(x)] = ToSet(person'.keys) /\ c[Len(x)] = person'.caps /\ r[Len(x)] = <<>>
    BY <1>13, <2>1
  <2>4. \A i \in 1 .. Len(x) : d[i] = ToSet(x[i].keys) /\ OneEvent(d[i - 1], c[i - 1], x[i], c[i], r[i - 1], r[i])
    BY <1>14, <2>1
  <2> QED BY <1>12, <2>2, <2>3, <2>4, Zenon DEF Script
<1> QED BY <1>15 DEF x

People == [shift : SUBSET ShiftKeys, caps : BOOLEAN, keys : Seq(AllKeys)]

LEMMA HoldingIs ==
    ASSUME person \in People, NEW key \in ShiftKeys, NEW down \in BOOLEAN
    PROVE  /\ Holding(key, down) \in People
           /\ Holding(key, down).caps = person.caps /\ Holding(key, down).keys = person.keys
<1> DEFINE s == IF down THEN person.shift \cup {key} ELSE person.shift \ {key}
<1>1. s \in SUBSET ShiftKeys /\ Holding(key, down) = [person EXCEPT !.shift = s]
  BY DEF People, Holding
<1> HIDE DEF s
<1> QED BY <1>1 DEF People

LEMMA TypedKeeps ==
    ASSUME NEW k, NEW p, NEW report, NEW more \in Seq(Chars), Base, InUseSound,
           Spoke(k, p, "keyboard", report), hand' = hand, person' \in People,
           report.keys = person'.keys, typed' = typed \o more,
           OneEvent(ToSet(person.keys), person.caps, report, person'.caps, more, <<>>)
    PROVE  Base' /\ InUseSound'
<1>0. Silence /\ LineTypes /\ InputTypes /\ Addresses
  BY DEF Base, InUseSound
<1>1. /\ UNCHANGED <<plug, g_next_usb_address, g_hid_devices, port, td, lost, keyboard, mouse, seen>>
      /\ InHand(k, p, "keyboard") /\ report \in KeyReports
  BY DEF Spoke, ReportsOf
<1>2. Settled /\ LineTypes' /\ Silence'
  BY <1>0, SpokeKeeps
<1>3. Base'
  <2>1. typed' \in Seq(Chars)
    BY <1>0, ConcatProperties DEF InputTypes
  <2>2. InputTypes'
    BY <1>0, <1>1, <2>1 DEF InputTypes, People
  <2> QED BY <1>0, <1>2, <2>2, SettledAddresses DEF Base
<1>4. ASSUME "mouse" \notin lost' PROVE PointerSound'
  <2>1. PointerSound
    BY <1>1, <1>4 DEF InUseSound
  <2>2. ASSUME NEW j, NEW q, InHand(j, q, "mouse")
        PROVE  /\ g_hid_devices'[j].last = g_hid_devices[j].last
               /\ \A w : Carried("mouse", j, q, w) => Carried("mouse", j, q, w)'
    <3>1. "mouse" \in Interfaces
      BY DEF Interfaces
    <3> QED BY <1>0, <1>1, <2>2, <3>1, SpokeOthers
  <2> QED BY <1>1, <1>2, <2>1, <2>2, PointerUntouched
<1>5. ASSUME "keyboard" \notin lost' PROVE KeysSound'
  <2>1. KeysSound
    BY <1>1, <1>5 DEF InUseSound
  <2>2. PICK hid : hid = g_hid_devices[k]
    OBVIOUS
  <2>3. PICK w \in Seq(KeyReports) : Carried("keyboard", k, p, w) /\ Script(hid, w)
    BY <1>1, <2>1, <2>2 DEF KeysSound
  <2> DEFINE x == Append(w, report)
  <2>4. Script(hid, x)'
    <3>1. person'.caps \in BOOLEAN /\ keyboard' = keyboard
      BY <1>1 DEF People
    <3> QED BY <1>0, <1>1, <2>3, <3>1, ScriptMore
  <2>5. Carried("keyboard", k, p, x)' /\ x \in Seq(KeyReports)
    <3>1. ReportsOf("keyboard") = KeyReports
      BY DEF ReportsOf
    <3> QED BY <1>0, <2>3, <3>1, CarriedMore
  <2> HIDE DEF x
  <2>6. ASSUME NEW j, NEW q, InHand(j, q, "keyboard")'
        PROVE  \E v \in Seq(KeyReports) : Carried("keyboard", j, q, v)' /\ Script(g_hid_devices[j], v)'
    <3>1. InHand(j, q, "keyboard")
      BY <1>2, <2>6, SettledInHand
    <3>2. j = k /\ q = p
      BY <1>1, <3>1, OneInHand
    <3>3. g_hid_devices'[j] = hid
      BY <1>1, <2>2, <3>2
    <3>4. Script(g_hid_devices[j], x)'
      BY <2>4, <3>3
    <3> QED BY <2>5, <3>2, <3>4
  <2>7. ~ \A j, q : ~InHand(j, q, "keyboard")'
    BY <1>1, <1>2, SettledInHand
  <2> QED BY <2>6, <2>7 DEF KeysSound
<1> QED BY <1>2, <1>3, <1>4, <1>5 DEF InUseSound

LEMMA UsbTypesKeeps ==
    ASSUME Base, InUseSound, UsbTypes
    PROVE  Base' /\ InUseSound'
<1>0. InputTypes /\ person \in People /\ person.keys \in Seq(AllKeys) /\ person.caps \in BOOLEAN
      /\ Shifted(person) \in BOOLEAN /\ typed \in Seq(Chars)
  <2>1. person \in People /\ typed \in Seq(Chars) /\ InputTypes
    BY DEF Base, InputTypes, People
  <2> QED BY <2>1 DEF People, Shifted
<1>1. PICK p \in InUse("keyboard") :
         /\ \A q \in InUse("keyboard") : p <= q
         /\ \/ \E key \in Keys \cup {CapsLock} : UsbKeyDown(p, key) \/ UsbKeyUp(p, key)
            \/ \E key \in ShiftKeys : UsbShift(p, key)
  BY DEF UsbTypes
<1>2. UNCHANGED <<plug, g_next_usb_address, g_hid_devices, port, td, lost, keyboard, mouse, hand, seen>>
  BY DEF UsbTypes
<1>3. PICK k : InHand(k, p, "keyboard")
  BY <1>1, UsedInHand
<1>4. PICK report : report = KeyReport(person')
  OBVIOUS
<1>5. ASSUME person' \in People, Reports(p, "keyboard", report)
      PROVE  /\ Spoke(k, p, "keyboard", report) /\ report.keys = person'.keys
             /\ report \in KeyReports /\ report.shift = Shifted(person')
  <2>1. report \in KeyReports /\ report.keys = person'.keys /\ report.shift = Shifted(person')
    BY <1>4, <1>5 DEF KeyReport, People, KeyReports, Shifted
  <2>2. report \in ReportsOf("keyboard") /\ "keyboard" \in Interfaces
    BY <2>1 DEF ReportsOf, Interfaces
  <2> QED BY <1>2, <1>3, <1>5, <2>1, <2>2 DEF Spoke, Reports
<1>6. <<>> \in Seq(Chars) /\ typed \o <<>> = typed
  BY <1>0, ConcatEmptySeq
<1>7. ASSUME person' \in People, Reports(p, "keyboard", report), typed' = typed, person'.caps = person.caps,
             ToSet(person'.keys) \subseteq ToSet(person.keys)
      PROVE  Base' /\ InUseSound'
  <2>1. Spoke(k, p, "keyboard", report) /\ report.keys = person'.keys
    BY <1>5, <1>7
  <2>2. OneEvent(ToSet(person.keys), person.caps, report, person'.caps, <<>>, <<>>)
    BY <1>7, <2>1, Zenon DEF OneEvent
  <2>3. typed' = typed \o <<>> /\ hand' = hand
    BY <1>2, <1>6, <1>7
  <2> QED BY <1>6, <1>7, <2>1, <2>2, <2>3, TypedKeeps
<1>8. ASSUME NEW key \in ShiftKeys, UsbShift(p, key) PROVE Base' /\ InUseSound'
  <2>1. person' = Holding(key, key \notin person.shift) /\ Reports(p, "keyboard", report) /\ typed' = typed
    BY <1>4, <1>8 DEF UsbShift
  <2>2. person' \in People /\ person'.caps = person.caps /\ person'.keys = person.keys
    BY <1>0, <2>1, HoldingIs
  <2> QED BY <1>7, <2>1, <2>2
<1>9. ASSUME NEW key \in Keys \cup {CapsLock}, UsbKeyUp(p, key) PROVE Base' /\ InUseSound'
  <2> DEFINE left == Only(person.keys, ToSet(person.keys) \ {key})
             A == ToSet(person.keys)
  <2>1. person' = [person EXCEPT !.keys = left] /\ Reports(p, "keyboard", report) /\ typed' = typed
    BY <1>4, <1>9 DEF UsbKeyUp
  <2>2. person.keys \in Seq(A) /\ A \subseteq AllKeys
    BY <1>0 DEF ToSet
  <2>3. left \in Seq(A \cap (A \ {key}))
    <3> HIDE DEF A
    <3>1. Only(person.keys, A \ {key}) \in Seq(A \cap (A \ {key}))
      BY <2>2, OnlyType
    <3> QED BY <3>1 DEF A
  <2> HIDE DEF left
  <2>4. left \in Seq(AllKeys) /\ ToSet(left) \subseteq A
    <3> HIDE DEF A
    <3> QED BY <2>2, <2>3 DEF ToSet
  <2>5. person' \in People /\ person'.caps = person.caps /\ person'.keys = left
    BY <1>0, <2>1, <2>4 DEF People
  <2> QED BY <1>7, <2>1, <2>4, <2>5
<1>10. ASSUME NEW key \in Keys \cup {CapsLock}, UsbKeyDown(p, key) PROVE Base' /\ InUseSound'
  <2>1. /\ ~Contains(person.keys, key) /\ Reports(p, "keyboard", report)
        /\ person' = [person EXCEPT !.keys = Append(@, key), !.caps = IF key = CapsLock THEN ~@ ELSE @]
        /\ typed' = IF key = CapsLock THEN typed
                    ELSE Append(typed, Char(key, Shifted(person), person.caps))
    BY <1>4, <1>10 DEF UsbKeyDown
  <2>2. key \in AllKeys /\ key \notin ToSet(person.keys)
    BY <1>0, <2>1 DEF AllKeys, Contains, ToSet
  <2>3. Append(person.keys, key) \in Seq(AllKeys)
    BY <1>0, <2>2
  <2>4. /\ person' \in People /\ person'.keys = Append(person.keys, key) /\ person'.shift = person.shift
        /\ person'.caps = IF key = CapsLock THEN ~person.caps ELSE person.caps
    BY <1>0, <2>1, <2>3 DEF People
  <2>5. /\ Spoke(k, p, "keyboard", report) /\ report.keys = person'.keys
        /\ report \in KeyReports /\ report.shift = Shifted(person')
    BY <1>5, <2>1, <2>4
  <2>6. CASE key = CapsLock
    <3>1. OneEvent(ToSet(person.keys), person.caps, report, person'.caps, <<>>, <<>>)
      BY <1>0, <2>2, <2>4, <2>5, <2>6, Zenon DEF OneEvent
    <3>2. typed' = typed \o <<>> /\ hand' = hand
      BY <1>2, <1>6, <2>1, <2>6
    <3> QED BY <1>6, <2>4, <2>5, <3>1, <3>2, TypedKeeps
  <2>7. CASE key # CapsLock
    <3> DEFINE c == Char(key, Shifted(person), person.caps)
    <3>1. c \in Chars
      BY <1>0, <2>2, <2>7, CharType DEF AllKeys
    <3>2. c = Char(key, report.shift, person.caps) /\ person'.caps = person.caps
      BY <2>4, <2>5, <2>7 DEF Shifted
    <3>3. typed' = Append(typed, c) /\ hand' = hand
      BY <1>2, <2>1, <2>7
    <3> HIDE DEF c
    <3>4. <<c>> \in Seq(Chars) /\ typed' = typed \o <<c>> /\ <<c>> \o <<>> = <<c>>
      <4>1. <<c>> \in Seq(Chars)
        BY <3>1
      <4>2. Append(typed, c) = typed \o <<c>>
        BY <1>0, <3>1, AppendIsConcat
      <4> QED BY <3>3, <4>1, <4>2, ConcatEmptySeq
    <3>5. OneEvent(ToSet(person.keys), person.caps, report, person'.caps, <<c>>, <<>>)
      <4>1. <<c>> = <<Char(key, report.shift, person.caps)>> \o <<>>
        BY <3>2, <3>4
      <4>2. report.keys = Append(person.keys, key) /\ ToSet(person.keys) \subseteq ToSet(person.keys)
        BY <2>4, <2>5
      <4> QED BY <1>0, <2>2, <2>7, <3>2, <4>1, <4>2, Zenon DEF OneEvent
    <3> QED BY <2>4, <2>5, <3>3, <3>4, <3>5, TypedKeeps
  <2> QED BY <2>6, <2>7
<1> QED BY <1>1, <1>8, <1>9, <1>10

\* A step of the drivers and their readers alone.
LEMMA LineQuiet ==
    ASSUME LineTypes, Silence, UNCHANGED bus_vars, keyboard'.usb = keyboard.usb, mouse'.usb = mouse.usb
    PROVE  /\ Settled /\ LineTypes' /\ Silence' /\ UNCHANGED g_hid_devices
           /\ \A type, k, p, w : Carried(type, k, p, w) => Carried(type, k, p, w)'
<1>1. UNCHANGED <<plug, device, g_next_usb_address, g_hid_devices, port, td>>
  BY DEF bus_vars
<1>2. Settled
  BY <1>1 DEF Settled
<1>3. LineTypes'
  BY <1>1 DEF LineTypes
<1>4. \A k, p, type : InHand(k, p, type)' <=> InHand(k, p, type)
  BY <1>2, SettledInHand
<1>5. Silence'
  <2>1. ASSUME NEW p \in DOMAIN plug, NEW type \in Interfaces, device[p].fifo[type] # <<>>
        PROVE  \E k : InHand(k, p, type)'
    BY <1>4, <2>1 DEF Silence
  <2>2. ASSUME td.done PROVE td.slot # 0 /\ \E p : InHand(td.slot, p, g_hid_devices[td.slot].type)'
    <3>1. PICK j, u : j = td.slot /\ u = g_hid_devices[td.slot].type
      OBVIOUS
    <3>2. PICK p : InHand(j, p, u) /\ j # 0
      BY <2>2, <3>1 DEF Silence
    <3>3. InHand(j, p, u)' /\ j = td'.slot /\ u = g_hid_devices'[j].type
      BY <1>1, <1>4, <3>1, <3>2
    <3> QED BY <3>1, <3>2, <3>3
  <2> QED BY <1>1, <2>1, <2>2 DEF Silence
<1>6. \A type, k, p, w : Carried(type, k, p, w) => Carried(type, k, p, w)'
  BY <1>1 DEF Carried
<1> QED BY <1>1, <1>2, <1>3, <1>5, <1>6

\* A step of the readers is one.
LEMMA BusQuiet == ASSUME UNCHANGED usb_vars PROVE UNCHANGED bus_vars /\ UNCHANGED lost
BY DEF usb_vars, usb_state, bus_vars

LEMMA NoUsbKeyboard ==
    ASSUME Addresses, ~keyboard.usb PROVE \A k, p : ~InHand(k, p, "keyboard")
BY DEF Addresses, InHand, Has

LEMMA NoUsbMouse ==
    ASSUME Addresses, ~mouse.usb PROVE \A k, p : ~InHand(k, p, "mouse")
BY DEF Addresses, InHand, Has

Keyboards == [buffer : Seq(Chars), shift : BOOLEAN, caps : BOOLEAN, usb : BOOLEAN]

\* A step of the PS/2 keyboard.
LEMMA Ps2KeyKeeps ==
    ASSUME Base, InUseSound, UNCHANGED bus_vars, UNCHANGED <<mouse, hand, seen>>, ~keyboard.usb,
           lost \subseteq lost',
           keyboard' \in Keyboards, keyboard'.usb = keyboard.usb, person' \in People, typed' \in Seq(Chars),
           KeysSound /\ "keyboard" \notin lost' =>
               /\ typed' = Plain(keyboard'.buffer)
               /\ keyboard'.shift = Shifted(person') /\ keyboard'.caps = person'.caps
    PROVE  Base' /\ InUseSound'
<1>0. Silence /\ LineTypes /\ InputTypes /\ Addresses
  BY DEF Base, InUseSound
<1>1. /\ Settled /\ LineTypes' /\ Silence' /\ UNCHANGED g_hid_devices
      /\ \A type, k, p, w : Carried(type, k, p, w) => Carried(type, k, p, w)'
  BY <1>0, LineQuiet
<1>2. Base'
  <2>1. InputTypes'
    BY <1>0 DEF InputTypes, Keyboards, People
  <2> QED BY <1>0, <1>1, <2>1, SettledAddresses DEF Base
<1>3. ASSUME "mouse" \notin lost' PROVE PointerSound'
  <2>1. PointerSound
    BY <1>1, <1>3 DEF InUseSound
  <2>2. \A k, p : InHand(k, p, "mouse") =>
           /\ g_hid_devices'[k].last = g_hid_devices[k].last
           /\ \A w : Carried("mouse", k, p, w) => Carried("mouse", k, p, w)'
    BY <1>1
  <2> QED BY <1>1, <2>1, <2>2, PointerUntouched
<1>4. ASSUME "keyboard" \notin lost' PROVE KeysSound'
  <2>1. KeysSound
    BY <1>1, <1>4 DEF InUseSound
  <2>2. \A k, p : ~InHand(k, p, "keyboard")'
    BY <1>0, <1>1, NoUsbKeyboard, SettledInHand
  <2> QED BY <1>4, <2>1, <2>2 DEF KeysSound
<1> QED BY <1>1, <1>2, <1>3, <1>4 DEF InUseSound

LEMMA Ps2TypesKeeps ==
    ASSUME Base, InUseSound, UNCHANGED bus_vars, Ps2Types
    PROVE  Base' /\ InUseSound'
<1>0. /\ keyboard \in Keyboards /\ person \in People /\ typed \in Seq(Chars) /\ keyboard.buffer \in Seq(Chars)
      /\ keyboard.shift \in BOOLEAN /\ keyboard.caps \in BOOLEAN /\ keyboard.usb \in BOOLEAN
      /\ Shifted(person) \in BOOLEAN /\ person.caps \in BOOLEAN /\ person.keys \in Seq(AllKeys)
  <2>1. keyboard \in Keyboards /\ person \in People /\ typed \in Seq(Chars)
    BY DEF Base, InputTypes, Keyboards, People
  <2> QED BY <2>1 DEF Keyboards, People, Shifted
<1>1. ASSUME KeysSound, ~keyboard.usb
      PROVE  typed = Plain(keyboard.buffer) /\ keyboard.shift = Shifted(person) /\ keyboard.caps = person.caps
  BY <1>1, NoUsbKeyboard DEF Base, KeysSound
<1>2. ASSUME NEW key \in ShiftKeys, NEW down \in BOOLEAN, HandleShift(key, down) PROVE Base' /\ InUseSound'
  <2>1. /\ ~keyboard.usb /\ keyboard' = [keyboard EXCEPT !.shift = down]
        /\ person' = Holding(key, down) /\ UNCHANGED <<mouse, typed, hand, seen>>
        /\ lost' = lost \cup {type \in {"keyboard"} : Shifted(person') # down}
    BY <1>2 DEF HandleShift
  <2>2. /\ keyboard' \in Keyboards /\ keyboard'.usb = keyboard.usb /\ keyboard'.buffer = keyboard.buffer
        /\ keyboard'.shift = down /\ keyboard'.caps = keyboard.caps
    BY <1>0, <2>1 DEF Keyboards
  <2>3. person' \in People /\ person'.caps = person.caps
    BY <1>0, <2>1, HoldingIs
  <2>4. KeysSound /\ "keyboard" \notin lost' =>
            /\ typed' = Plain(keyboard'.buffer)
            /\ keyboard'.shift = Shifted(person') /\ keyboard'.caps = person'.caps
    BY <1>1, <2>1, <2>2, <2>3
  <2> QED BY <1>0, <2>1, <2>2, <2>3, <2>4, Ps2KeyKeeps
<1>3. ASSUME HandleCapsLock PROVE Base' /\ InUseSound'
  <2>1. /\ ~keyboard.usb /\ keyboard' = [keyboard EXCEPT !.caps = ~@]
        /\ person' = [person EXCEPT !.caps = ~@] /\ UNCHANGED <<mouse, lost, typed, hand, seen>>
    BY <1>3 DEF HandleCapsLock
  <2>2. /\ keyboard' \in Keyboards /\ keyboard'.usb = keyboard.usb /\ keyboard'.buffer = keyboard.buffer
        /\ keyboard'.shift = keyboard.shift /\ keyboard'.caps = ~keyboard.caps
    BY <1>0, <2>1 DEF Keyboards
  <2>3. person' \in People /\ person'.shift = person.shift /\ person'.caps = ~person.caps
    BY <1>0, <2>1 DEF People
  <2>4. KeysSound => /\ typed' = Plain(keyboard'.buffer)
                     /\ keyboard'.shift = Shifted(person') /\ keyboard'.caps = person'.caps
    BY <1>1, <2>1, <2>2, <2>3 DEF Shifted
  <2> QED BY <1>0, <2>1, <2>2, <2>3, <2>4, Ps2KeyKeeps
<1>4. ASSUME NEW key \in Keys, keyboard_handler(key) PROVE Base' /\ InUseSound'
  <2> DEFINE c == PressedChar(key)
             e == Char(key, Shifted(person), person.caps)
             exp == Append(typed, e)
  <2>1. PICK s : s = Pushed(<<c>>, exp)
    OBVIOUS
  <2>2. /\ ~keyboard.usb /\ keyboard' = [keyboard EXCEPT !.buffer = s.buffer] /\ typed' = s.typed
        /\ UNCHANGED <<mouse, person, lost, hand, seen>>
    BY <1>4, <2>1, Zenon DEF keyboard_handler
  <2>3. c \in Said /\ c \in Chars /\ e \in Chars
    BY <1>0, CharType DEF PressedChar, Said
  <2>4. KeysSound => c = e
    BY <1>1, <2>2 DEF PressedChar
  <2> HIDE DEF c, e
  <2>5. <<c>> \in Seq(Chars) /\ exp \in Seq(Chars) /\ <<e>> \in Seq(Chars)
    BY <1>0, <2>3
  <2>6. exp = typed \o <<e>>
    BY <1>0, <2>3, AppendIsConcat
  <2> HIDE DEF exp
  <2>7. s \in Rings
    BY <1>0, <2>1, <2>5, PushedType
  <2>8. KeysSound => s.typed = Plain(s.buffer)
    <3>1. ASSUME KeysSound PROVE Fits(s, <<>>)
      <4>1. typed = Plain(keyboard.buffer) /\ c = e
        BY <1>1, <2>2, <2>4, <3>1
      <4>2. <<c>> \o <<>> = <<c>> /\ <<>> \in Seq(Chars)
        BY <2>5, ConcatEmptySeq
      <4>3. Comes(<<c>>, <<c>>, <<>>)
        BY <2>3, <4>2 DEF Comes
      <4>4. Repeats(<<>>)
        BY DEF Repeats
      <4>5. exp = Plain(keyboard.buffer) \o <<c>>
        BY <2>6, <4>1
      <4>6. Fits(Pushed(<<c>> \o <<>>, exp), <<>>)
        BY <1>0, <2>5, <4>2, <4>3, <4>4, <4>5, PushedKeeps
      <4> QED BY <2>1, <4>2, <4>6
    <3>2. Plain(s.buffer) \o <<>> = Plain(s.buffer)
      <4>1. Plain(s.buffer) \in Seq(Chars)
        BY <2>7, PlainType DEF Rings
      <4> QED BY <4>1, ConcatEmptySeq
    <3> QED BY <3>1, <3>2 DEF Fits
  <2>9. s.buffer \in Seq(Chars) /\ s.typed \in Seq(Chars)
    BY <2>7 DEF Rings
  <2>10. /\ keyboard' \in Keyboards /\ keyboard'.usb = keyboard.usb /\ keyboard'.buffer = s.buffer
         /\ keyboard'.shift = keyboard.shift /\ keyboard'.caps = keyboard.caps
    BY <1>0, <2>2, <2>9 DEF Keyboards
  <2>11. KeysSound => /\ typed' = Plain(keyboard'.buffer)
                      /\ keyboard'.shift = Shifted(person') /\ keyboard'.caps = person'.caps
    BY <1>1, <2>2, <2>8, <2>10
  <2> QED BY <1>0, <2>2, <2>9, <2>10, <2>11, Ps2KeyKeeps
<1> QED BY <1>2, <1>3, <1>4 DEF Ps2Types

LEMMA Ps2PointsKeeps ==
    ASSUME Base, InUseSound, UNCHANGED bus_vars, Ps2Points
    PROVE  Base' /\ InUseSound'
<1>0. Silence /\ LineTypes /\ InputTypes /\ Addresses
  BY DEF Base, InUseSound
<1>1. PICK move \in Moves, button \in BOOLEAN : mouse_handler(move, button)
  BY DEF Ps2Points
<1> DEFINE report == [dx |-> move.right, dy |-> move.down, button |-> button]
<1>2. report \in MouseReports /\ report.dx = move.right /\ report.dy = move.down /\ report.button = button
  BY InputAssumption DEF MouseReports
<1>2a. PICK dx \in Int, dy \in Int : dx = PacketDelta(move.right) /\ dy = PacketDelta(-move.down)
  BY InputAssumption, Int8Is
<1>3. /\ ~mouse.usb /\ mouse' = mouse_apply_delta(dx, dy, button)
      /\ hand' = MovedBy(hand, report) /\ UNCHANGED <<keyboard, person, typed, seen>>
      /\ lost' = lost \cup {type \in {"mouse"} : dx # move.right \/ dy # -move.down}
  BY <1>1, <1>2a DEF mouse_handler, mouse_handle_packet, Moved, MovedBy
<1> DEFINE applied == [dx |-> dx, dy |-> -dy, button |-> button]
<1>4. After(mouse', applied)
  <2>1. mouse \in Mice
    BY <1>0 DEF InputTypes, Mice
  <2> QED BY <1>3, <2>1, ApplyAny
<1>4a. "mouse" \notin lost' => applied = report
  <2>1. "mouse" \notin lost' => dx = move.right /\ dy = -move.down
    BY <1>3
  <2>2. -(-move.down) = move.down
    BY InputAssumption
  <2> QED BY <2>1, <2>2
<1> HIDE DEF report, applied
<1>5. mouse' \in Mice /\ mouse'.usb = mouse.usb /\ At' = MovedBy(At, applied)
  BY <1>4 DEF After, At
<1>6. /\ Settled /\ LineTypes' /\ Silence' /\ UNCHANGED g_hid_devices
      /\ \A type, k, p, w : Carried(type, k, p, w) => Carried(type, k, p, w)'
  BY <1>0, <1>3, <1>5, LineQuiet
<1>7. Base'
  <2>1. hand' \in Spots
    BY <1>0, <1>2, <1>3, MovedType DEF InputTypes
  <2>2. InputTypes'
    BY <1>0, <1>3, <1>5, <2>1 DEF InputTypes, Mice
  <2> QED BY <1>0, <1>6, <2>2, SettledAddresses DEF Base
<1>8. ASSUME "keyboard" \notin lost' PROVE KeysSound'
  <2>1. KeysSound
    BY <1>3, <1>8 DEF InUseSound
  <2>2. \A k, p : InHand(k, p, "keyboard") =>
           /\ g_hid_devices'[k] = g_hid_devices[k]
           /\ \A w : Carried("keyboard", k, p, w) => Carried("keyboard", k, p, w)'
    BY <1>6
  <2> QED BY <1>3, <1>6, <2>1, <2>2, KeysUntouched
<1>9. ASSUME "mouse" \notin lost' PROVE PointerSound'
  <2>1. PointerSound /\ applied = report
    BY <1>3, <1>4a, <1>9 DEF InUseSound
  <2>2. \A k, p : ~InHand(k, p, "mouse")
    BY <1>0, <1>3, NoUsbMouse
  <2>3. \A k, p : ~InHand(k, p, "mouse")'
    BY <1>6, <2>2, SettledInHand
  <2>4. hand' = At'
    BY <1>3, <1>5, <2>1, <2>2 DEF PointerSound
  <2>5. IF mouse'.queue = <<>> THEN seen' = At' ELSE mouse'.queue[Len(mouse'.queue)] = At'
    BY <1>3, <1>4, <2>1, QueueFollows
  <2> QED BY <2>3, <2>4, <2>5 DEF PointerSound
<1> QED BY <1>6, <1>7, <1>8, <1>9 DEF InUseSound

-----------------------------------------------------------------------------
(* The readers.                                                            *)

\* The newest event is read last.
LEMMA LastOfTail ==
    ASSUME NEW A, NEW q \in Seq(A), q # <<>>
    PROVE  IF Tail(q) = <<>> THEN Head(q) = q[Len(q)] ELSE Tail(q)[Len(Tail(q))] = q[Len(q)]
<1>1. Tail(q) \in Seq(A) /\ Len(q) = Len(Tail(q)) + 1 /\ Len(Tail(q)) \in Nat /\ Head(q) = q[1]
      /\ \A i \in 1 .. Len(Tail(q)) : Tail(q)[i] = q[i + 1]
  OBVIOUS
<1> DEFINE t == Tail(q)
           n == Len(t)
<1>2. t = <<>> <=> n = 0
  BY <1>1, EmptySeq
<1> HIDE DEF t
<1>3. CASE t = <<>>
  <2>1. Len(q) = 1
    BY <1>1, <1>2, <1>3 DEF t
  <2> QED BY <1>1, <1>3, <2>1 DEF t
<1>4. CASE t # <<>>
  <2>1. n \in Nat /\ n # 0
    BY <1>1, <1>2, <1>4 DEF t
  <2> HIDE DEF n
  <2>2. n \in 1 .. n
    BY <2>1
  <2> QED BY <1>1, <1>4, <2>2 DEF n, t
<1> QED BY <1>3, <1>4 DEF t

LEMMA EventReadKeeps ==
    ASSUME Base, InUseSound, UNCHANGED usb_vars, mouse_poll_event
    PROVE  Base' /\ InUseSound'
<1>0. Silence /\ LineTypes /\ InputTypes /\ Addresses /\ UNCHANGED bus_vars /\ lost' = lost
  BY BusQuiet DEF Base, InUseSound
<1>1. /\ mouse.queue # <<>> /\ seen' = Head(mouse.queue) /\ mouse' = [mouse EXCEPT !.queue = Tail(@)]
      /\ UNCHANGED <<keyboard, person, typed, hand>>
  BY DEF mouse_poll_event
<1> DEFINE q == mouse.queue
<1>2. mouse \in Mice /\ q \in Seq(Spots)
  BY <1>0 DEF InputTypes, Mice
<1>3. Tail(q) \in Seq(Spots) /\ Head(q) \in Spots /\ Head(q) = q[1] /\ Len(Tail(q)) + 1 = Len(q)
      /\ Len(Tail(q)) \in Nat /\ \A i \in 1 .. Len(Tail(q)) : Tail(q)[i] = q[i + 1]
  <2> HIDE DEF q
  <2>1. q # <<>>
    BY <1>1 DEF q
  <2> QED BY <1>2, <2>1
<1>4. /\ mouse' \in Mice /\ mouse'.usb = mouse.usb /\ mouse'.x = mouse.x /\ mouse'.y = mouse.y
      /\ mouse'.button = mouse.button /\ mouse'.queue = Tail(q)
  BY <1>1, <1>2, <1>3 DEF Mice
<1>5. At' = At
  BY <1>4 DEF At
<1>6. /\ Settled /\ LineTypes' /\ Silence' /\ UNCHANGED g_hid_devices
      /\ \A type, k, p, w : Carried(type, k, p, w) => Carried(type, k, p, w)'
  BY <1>0, <1>1, <1>4, LineQuiet
<1>7. Base'
  <2>1. InputTypes'
    BY <1>0, <1>1, <1>3, <1>4 DEF InputTypes, Mice
  <2> QED BY <1>0, <1>6, <2>1, SettledAddresses DEF Base
<1>8. ASSUME "keyboard" \notin lost' PROVE KeysSound'
  <2>1. KeysSound
    BY <1>0, <1>8 DEF InUseSound
  <2>2. \A k, p : InHand(k, p, "keyboard") =>
           /\ g_hid_devices'[k] = g_hid_devices[k]
           /\ \A w : Carried("keyboard", k, p, w) => Carried("keyboard", k, p, w)'
    BY <1>6
  <2> QED BY <1>1, <1>6, <2>1, <2>2, KeysUntouched
<1>9. ASSUME "mouse" \notin lost' PROVE PointerSound'
  <2>1. PointerSound
    BY <1>0, <1>9 DEF InUseSound
  <2>2. q[Len(q)] = At
    BY <1>1, <2>1 DEF PointerSound
  <2>3. IF mouse'.queue = <<>> THEN seen' = At' ELSE mouse'.queue[Len(mouse'.queue)] = At'
    <3>1. IF Tail(q) = <<>> THEN Head(q) = q[Len(q)] ELSE Tail(q)[Len(Tail(q))] = q[Len(q)]
      BY <1>1, <1>2, LastOfTail
    <3> QED BY <1>1, <1>4, <1>5, <2>2, <3>1
  <2>4. ASSUME NEW k, NEW p, InHand(k, p, "mouse")'
        PROVE  /\ g_hid_devices'[k].last = {mouse'.button}
               /\ \E w \in Seq(MouseReports) : Carried("mouse", k, p, w)' /\ Track(w)'
    <3>1. InHand(k, p, "mouse")
      BY <1>6, <2>4, SettledInHand
    <3>2. PICK w \in Seq(MouseReports) : Carried("mouse", k, p, w) /\ Track(w)
      BY <2>1, <3>1 DEF PointerSound
    <3>3. g_hid_devices[k].last = {mouse.button}
      BY <2>1, <3>1 DEF PointerSound
    <3>4. Track(w)'
      BY <1>1, <1>5, <3>2 DEF Track
    <3> QED BY <1>4, <1>6, <3>2, <3>3, <3>4
  <2>5. (\A k, p : ~InHand(k, p, "mouse")') => hand' = At'
    BY <1>1, <1>5, <1>6, <2>1, SettledInHand DEF PointerSound
  <2> QED BY <2>3, <2>4, <2>5 DEF PointerSound
<1> QED BY <1>6, <1>7, <1>8, <1>9 DEF InUseSound

\* Whatever is still to come, the reader takes what was typed first.
LEMMA CharRead ==
    ASSUME NEW b \in Seq(Chars), NEW t \in Seq(Chars), NEW rest \in Seq(Chars),
           b # <<>>, t = Plain(b) \o rest
    PROVE  (IF Head(b).again \/ t = <<>> THEN t ELSE Tail(t)) = Plain(Tail(b)) \o rest
<1> DEFINE h == Head(b)
           a == Plain(Tail(b))
<1>1. Tail(b) \in Seq(Chars) /\ h \in Chars
  OBVIOUS
<1>2. a \in Seq(Chars)
  BY <1>1, PlainType
<1>3. Plain(b) = IF h.again THEN a ELSE <<h>> \o a
  BY PlainHead
<1> HIDE DEF h, a
<1>4. CASE h.again
  BY <1>3, <1>4 DEF h, a
<1>5. CASE ~h.again
  <2> DEFINE r == a \o rest
  <2>1. <<h>> \in Seq(Chars) /\ r \in Seq(Chars)
    BY <1>1, <1>2, ConcatProperties
  <2>2. (<<h>> \o a) \o rest = <<h>> \o r
    BY <1>2, <2>1, ConcatAssociative
  <2>3. t = <<h>> \o r
    BY <1>3, <1>5, <2>2
  <2> HIDE DEF r
  <2>4. t # <<>> /\ Tail(t) = r
    <3>1. Len(t) = Len(r) + 1 /\ Len(r) \in Nat /\ t \in Seq(Chars) /\ \A i \in 1 .. Len(r) : t[i + 1] = r[i]
      BY <1>1, <2>1, <2>3
    <3>2. t # <<>>
      BY <3>1
    <3>3. Tail(t) \in Seq(Chars) /\ Len(Tail(t)) = Len(r) /\ \A i \in 1 .. Len(r) : Tail(t)[i] = r[i]
      BY <3>1, <3>2
    <3>4. Tail(t) = r
      BY <2>1, <3>3, SeqEqual
    <3> QED BY <3>2, <3>4
  <2> QED BY <1>5, <2>4 DEF r, h, a
<1> QED BY <1>4, <1>5

LEMMA CharReadKeeps ==
    ASSUME Base, InUseSound, UNCHANGED usb_vars, keyboard_getchar
    PROVE  Base' /\ InUseSound'
<1>0. Silence /\ LineTypes /\ InputTypes /\ Addresses /\ UNCHANGED bus_vars /\ lost' = lost
  BY BusQuiet DEF Base, InUseSound
<1>1. /\ keyboard.buffer # <<>> /\ keyboard' = [keyboard EXCEPT !.buffer = Tail(@)]
      /\ typed' = IF Head(keyboard.buffer).again \/ typed = <<>> THEN typed ELSE Tail(typed)
      /\ UNCHANGED <<mouse, person, hand, seen>>
  BY DEF keyboard_getchar
<1> DEFINE b == keyboard.buffer
<1>2. keyboard \in Keyboards /\ b \in Seq(Chars) /\ typed \in Seq(Chars)
  BY <1>0 DEF InputTypes, Keyboards
<1>3. Tail(b) \in Seq(Chars)
  <2> HIDE DEF b
  <2>1. b # <<>>
    BY <1>1 DEF b
  <2> QED BY <1>2, <2>1
<1>4. /\ keyboard' \in Keyboards /\ keyboard'.usb = keyboard.usb /\ keyboard'.buffer = Tail(b)
      /\ keyboard'.shift = keyboard.shift /\ keyboard'.caps = keyboard.caps
  BY <1>1, <1>2, <1>3 DEF Keyboards
<1>5. typed' \in Seq(Chars)
  <2>1. typed # <<>> => Tail(typed) \in Seq(Chars)
    BY <1>2
  <2> QED BY <1>1, <1>2, <2>1
<1>6. ASSUME NEW rest \in Seq(Chars), typed = Plain(b) \o rest PROVE typed' = Plain(keyboard'.buffer) \o rest
  <2>1. (IF Head(b).again \/ typed = <<>> THEN typed ELSE Tail(typed)) = Plain(Tail(b)) \o rest
    <3> HIDE DEF b
    <3>1. b # <<>>
      BY <1>1 DEF b
    <3> QED BY <1>2, <1>6, <3>1, CharRead
  <2> QED BY <1>1, <1>4, <2>1, Zenon
<1>7. /\ Settled /\ LineTypes' /\ Silence' /\ UNCHANGED g_hid_devices
      /\ \A type, k, p, w : Carried(type, k, p, w) => Carried(type, k, p, w)'
  BY <1>0, <1>1, <1>4, LineQuiet
<1>8. Base'
  <2>1. InputTypes'
    BY <1>0, <1>1, <1>4, <1>5 DEF InputTypes, Keyboards
  <2> QED BY <1>0, <1>7, <2>1, SettledAddresses DEF Base
<1>9. ASSUME "mouse" \notin lost' PROVE PointerSound'
  <2>1. PointerSound
    BY <1>0, <1>9 DEF InUseSound
  <2>2. \A k, p : InHand(k, p, "mouse") =>
           /\ g_hid_devices'[k].last = g_hid_devices[k].last
           /\ \A w : Carried("mouse", k, p, w) => Carried("mouse", k, p, w)'
    BY <1>7
  <2> QED BY <1>1, <1>7, <2>1, <2>2, PointerUntouched
<1>10. ASSUME "keyboard" \notin lost' PROVE KeysSound'
  <2>1. KeysSound
    BY <1>0, <1>10 DEF InUseSound
  <2>2. ASSUME NEW hid, NEW w \in Seq(KeyReports), Script(hid, w) PROVE Script(hid, w)'
    <3>1. PICK down \in [0 .. Len(w) -> SUBSET AllKeys], caps \in [0 .. Len(w) -> BOOLEAN],
               rest \in [0 .. Len(w) -> Seq(Chars)] :
            /\ down[0] = hid.last /\ caps[0] = hid.caps
            /\ typed = Plain(keyboard.buffer) \o rest[0]
            /\ down[Len(w)] = ToSet(person.keys) /\ caps[Len(w)] = person.caps
            /\ rest[Len(w)] = <<>>
            /\ \A i \in 1 .. Len(w) :
                  /\ down[i] = ToSet(w[i].keys)
                  /\ OneEvent(down[i - 1], caps[i - 1], w[i], caps[i], rest[i - 1], rest[i])
      BY <2>2 DEF Script
    <3>2. 0 \in 0 .. Len(w)
      OBVIOUS
    <3>3. rest[0] \in Seq(Chars)
      BY <3>2
    <3>4. typed' = Plain(keyboard'.buffer) \o rest[0]
      BY <1>6, <3>1, <3>3
    <3>5. person' = person
      BY <1>1
    <3> QED BY <3>1, <3>4, <3>5 DEF Script
  <2>3. ASSUME NEW k, NEW p, InHand(k, p, "keyboard")'
        PROVE  \E w \in Seq(KeyReports) : Carried("keyboard", k, p, w)' /\ Script(g_hid_devices[k], w)'
    <3>1. InHand(k, p, "keyboard")
      BY <1>7, <2>3, SettledInHand
    <3>2. PICK hid : hid = g_hid_devices[k]
      OBVIOUS
    <3>3. PICK w \in Seq(KeyReports) : Carried("keyboard", k, p, w) /\ Script(hid, w)
      BY <2>1, <3>1, <3>2 DEF KeysSound
    <3>4. Script(hid, w)' /\ Carried("keyboard", k, p, w)' /\ g_hid_devices'[k] = hid
      BY <1>7, <2>2, <3>2, <3>3
    <3> QED BY <3>4
  <2>4. ASSUME \A k, p : ~InHand(k, p, "keyboard")'
        PROVE  /\ typed' = Plain(keyboard'.buffer)
               /\ ~keyboard'.usb => keyboard'.shift = Shifted(person') /\ keyboard'.caps = person'.caps
    <3>1. /\ typed = Plain(b)
          /\ ~keyboard.usb => keyboard.shift = Shifted(person) /\ keyboard.caps = person.caps
      BY <1>7, <2>1, <2>4, SettledInHand DEF KeysSound
    <3>2. <<>> \in Seq(Chars) /\ \A u \in Seq(Chars) : u \o <<>> = u
      BY ConcatEmptySeq
    <3>3. Plain(b) \in Seq(Chars) /\ Plain(keyboard'.buffer) \in Seq(Chars)
      BY <1>2, <1>3, <1>4, PlainType
    <3>4. typed = Plain(b) \o <<>>
      BY <3>1, <3>2, <3>3
    <3>5. typed' = Plain(keyboard'.buffer) \o <<>>
      BY <1>6, <3>2, <3>4
    <3> QED BY <1>1, <1>4, <3>1, <3>2, <3>3, <3>5
  <2> QED BY <2>3, <2>4 DEF KeysSound
<1> QED BY <1>7, <1>8, <1>9, <1>10 DEF InUseSound

-----------------------------------------------------------------------------
(* The keyboards and mice: every step.                                     *)

\* A step of something else.
LEMMA HidStutters ==
    ASSUME HidInv, UNCHANGED hid_vars PROVE HidInv'
<1>1. UNCHANGED usb_vars /\ UNCHANGED input_vars /\ UNCHANGED <<keyboard, mouse, person, typed, hand, seen>>
      /\ UNCHANGED <<plug, device, g_next_usb_address, g_hid_devices, port, lost, td>>
  BY DEF hid_vars, usb_vars, usb_state, input_vars
<1>2. InputTypes' /\ LineTypes'
  BY <1>1 DEF HidInv, InputTypes, LineTypes
<1>3. Settled
  BY <1>1 DEF Settled
<1>4. Addresses'
  BY <1>3, SettledAddresses DEF HidInv
<1>5. ASSUME Fresh PROVE Fresh'
  BY <1>1, <1>5 DEF Fresh, At
<1>6. ASSUME Scanned, InUseSound PROVE Scanned' /\ InUseSound'
  <2>1. Silence /\ LineTypes
    BY <1>6 DEF HidInv, InUseSound
  <2>2. Silence' /\ \A type, k, p, w : Carried(type, k, p, w) => Carried(type, k, p, w)'
    BY <1>1, <2>1, LineQuiet, BusQuiet
  <2>3. ASSUME PointerSound PROVE PointerSound'
    <3>1. \A k, p : InHand(k, p, "mouse") =>
             /\ g_hid_devices'[k].last = g_hid_devices[k].last
             /\ \A w : Carried("mouse", k, p, w) => Carried("mouse", k, p, w)'
      BY <1>1, <2>2
    <3> QED BY <1>1, <1>3, <2>3, <3>1, PointerUntouched
  <2>4. ASSUME KeysSound PROVE KeysSound'
    <3>1. \A k, p : InHand(k, p, "keyboard") =>
             /\ g_hid_devices'[k] = g_hid_devices[k]
             /\ \A w : Carried("keyboard", k, p, w) => Carried("keyboard", k, p, w)'
      BY <1>1, <2>2
    <3> QED BY <1>1, <1>3, <2>4, <3>1, KeysUntouched
  <2>5. InUseSound'
    BY <1>1, <1>6, <2>2, <2>3, <2>4 DEF InUseSound
  <2> QED BY <1>1, <1>6, <2>5 DEF Scanned
<1> QED BY <1>2, <1>4, <1>5, <1>6 DEF HidInv

\* What is not a step of the scan leaves its end where it is.
LEMMA HidStep ==
    ASSUME HidInv, HidNext PROVE HidInv'
<1>0. Base
  BY DEF HidInv, Base
<1>1. ASSUME Base', Fresh' PROVE HidInv'
  BY <1>1 DEF HidInv, Base
<1>2. ASSUME Base', InUseSound', Scanned, port' = port PROVE HidInv'
  BY <1>2 DEF HidInv, Base, Scanned
<1>3. ~Scanned => Fresh
  BY DEF HidInv
<1>4. Scanned => InUseSound
  BY <1>0, FreshGives DEF HidInv
<1>5. td.slot # 0 \/ td.done => Scanned
  <2>1. Fresh => td.slot = 0 /\ ~td.done
    BY DEF Fresh, NoTd
  <2> QED BY <2>1 DEF HidInv
<1>6. keyboard.buffer # <<>> \/ mouse.queue # <<>> => Scanned
  BY DEF HidInv, Fresh
<1>7. CASE PortSkipped
  BY <1>0, <1>1, <1>3, <1>7, PortSkippedKeeps DEF PortSkipped
<1>8. CASE EnumerationFails
  BY <1>0, <1>1, <1>3, <1>8, EnumerationFailsKeeps DEF EnumerationFails
<1>9. CASE \E way \in uhci_control_transfer : uhci_enumerate_hid_on_port(way.taken, way.configured)
  <2>1. PICK way \in uhci_control_transfer : uhci_enumerate_hid_on_port(way.taken, way.configured)
    BY <1>9
  <2>2. way.taken \in BOOLEAN /\ way.configured \in BOOLEAN /\ (way.configured => way.taken)
    BY DEF uhci_control_transfer
  <2>3. Fresh
    BY <1>3, <2>1 DEF uhci_enumerate_hid_on_port
  <2> QED BY <1>0, <1>1, <2>1, <2>2, <2>3, EnumerateKeeps
<1>10. CASE \E slot \in DOMAIN g_hid_devices : usb_poll(slot)
  <2>1. PICK slot \in DOMAIN g_hid_devices : usb_poll(slot)
    BY <1>10
  <2>2. Scanned /\ port' = port
    BY <2>1 DEF usb_poll
  <2> QED BY <1>0, <1>2, <1>4, <2>1, <2>2, usb_pollKeeps
<1>11. CASE \E p \in DOMAIN plug : Repetition(p) \/ Transfer(p, TRUE) \/ Transfer(p, FALSE)
  <2>1. PICK p \in DOMAIN plug : Repetition(p) \/ Transfer(p, TRUE) \/ Transfer(p, FALSE)
    BY <1>11
  <2>2. Scanned /\ port' = port
    BY <1>5, <2>1 DEF Repetition, Transfer, Offers
  <2>3. CASE Repetition(p)
    BY <1>0, <1>2, <1>4, <2>2, <2>3, RepetitionKeeps
  <2>4. ASSUME NEW heard \in BOOLEAN, Transfer(p, heard) PROVE HidInv'
    BY <1>0, <1>2, <1>4, <2>2, <2>4, TransferKeeps
  <2> QED BY <2>1, <2>3, <2>4
<1>12. CASE PollGivesUp
  <2>1. Scanned /\ port' = port
    BY <1>5, <1>12 DEF PollGivesUp, usb_state
  <2> QED BY <1>0, <1>2, <1>4, <1>12, <2>1, GivesUpKeeps
<1>13. CASE PollGivesUpLate
  <2>1. Scanned /\ port' = port
    BY <1>5, <1>13 DEF PollGivesUpLate
  <2> QED BY <1>0, <1>2, <1>4, <1>13, <2>1, GivesUpLateKeeps
<1>14. CASE \E due \in BOOLEAN : PollReceives(due)
  <2>1. PICK due \in BOOLEAN : PollReceives(due)
    BY <1>14
  <2>2. Scanned /\ port' = port
    BY <1>5, <2>1 DEF PollReceives
  <2> QED BY <1>0, <1>2, <1>4, <2>1, <2>2, ReceivesKeeps
<1>15. CASE ReaderNext /\ UNCHANGED usb_vars
  <2>1. Scanned /\ port' = port
    BY <1>6, <1>15 DEF ReaderNext, keyboard_getchar, mouse_poll_event, usb_vars, usb_state
  <2> QED BY <1>0, <1>2, <1>4, <1>15, <2>1, CharReadKeeps, EventReadKeeps DEF ReaderNext
<1>16. CASE Types
  <2>1. Scanned /\ port' = port
    BY <1>16 DEF Types, UsbTypes, bus_vars
  <2> QED BY <1>0, <1>2, <1>4, <1>16, <2>1, UsbTypesKeeps, Ps2TypesKeeps DEF Types
<1>17. CASE Points
  <2>1. Scanned /\ port' = port
    BY <1>17 DEF Points, UsbPoints, bus_vars
  <2> QED BY <1>0, <1>2, <1>4, <1>17, <2>1, UsbPointsKeeps, Ps2PointsKeeps DEF Points
<1> QED BY <1>7, <1>8, <1>9, <1>10, <1>11, <1>12, <1>13, <1>14, <1>15, <1>16, <1>17
        DEF HidNext, UsbNext

\* A device with nothing on its way has told everything.
LEMMA QuietTold ==
    ASSUME NEW type \in Interfaces, NEW k, NEW p, NEW w, LineTypes, Quiet(type),
           InHand(k, p, type), Carried(type, k, p, w)
    PROVE  w = <<>>
<1>1. device[p].fifo[type] = <<>> /\ k \in DOMAIN g_hid_devices /\ g_hid_devices[k].type = type
  BY DEF Quiet, InHand
<1>2. k # 0
  BY <1>1 DEF LineTypes
<1>3. td.slot # k
  BY <1>1, <1>2 DEF Quiet
<1> QED BY <1>1, <1>3 DEF Carried, Untold

\* What the invariant is for.
LEMMA HidPointer == HidInv => PointerFollows
<1> SUFFICES ASSUME HidInv, "mouse" \notin lost, Quiet("mouse"), mouse.queue = <<>> PROVE seen = hand
  BY DEF PointerFollows
<1>1. Base /\ LineTypes
  BY DEF HidInv, Base
<1>2. PointerSound
  BY <1>1, FreshGives DEF HidInv, InUseSound
<1>3. seen = At
  BY <1>2 DEF PointerSound
<1>4. CASE \A k, p : ~InHand(k, p, "mouse")
  BY <1>2, <1>3, <1>4 DEF PointerSound
<1>5. ASSUME NEW k, NEW p, InHand(k, p, "mouse") PROVE hand = At
  <2>1. PICK w \in Seq(MouseReports) : Carried("mouse", k, p, w) /\ Track(w)
    BY <1>2, <1>5 DEF PointerSound
  <2>2. "mouse" \in Interfaces
    BY DEF Interfaces
  <2>3. w = <<>>
    BY <1>1, <1>5, <2>1, <2>2, QuietTold
  <2>4. Len(w) = 0
    BY <2>3
  <2> QED BY <2>1, <2>4 DEF Track
<1> QED BY <1>3, <1>4, <1>5

LEMMA PrefixOfConcat ==
    ASSUME NEW A, NEW s \in Seq(A), NEW t \in Seq(A) PROVE IsPrefix(s, s \o t)
<1>1. Len(s) \in Nat /\ Len(t) \in Nat /\ Len(s \o t) = Len(s) + Len(t) /\ s \o t \in Seq(A)
  OBVIOUS
<1>2. SubSeq(s \o t, 1, Len(s)) = s
  OBVIOUS
<1>3. SubSeq(s, 1, Len(s)) = s
  OBVIOUS
<1> QED BY <1>1, <1>2, <1>3 DEF IsPrefix

LEMMA HidKeys == HidInv => KeysReadAsTyped
<1> SUFFICES ASSUME HidInv, "keyboard" \notin lost
             PROVE  /\ IsPrefix(Plain(keyboard.buffer), typed)
                    /\ Quiet("keyboard") => Plain(keyboard.buffer) = typed
  BY DEF KeysReadAsTyped
<1>1. Base /\ LineTypes
  BY DEF HidInv, Base
<1>2. KeysSound
  BY <1>1, FreshGives DEF HidInv, InUseSound
<1>3. Plain(keyboard.buffer) \in Seq(Chars)
  BY PlainType DEF HidInv, InputTypes
<1>4. CASE \A k, p : ~InHand(k, p, "keyboard")
  <2>1. typed = Plain(keyboard.buffer)
    BY <1>2, <1>4 DEF KeysSound
  <2>2. Plain(keyboard.buffer) \o <<>> = Plain(keyboard.buffer) /\ <<>> \in Seq(Chars)
    BY <1>3, ConcatEmptySeq
  <2>3. IsPrefix(Plain(keyboard.buffer), Plain(keyboard.buffer) \o <<>>)
    BY <1>3, <2>2, PrefixOfConcat
  <2> QED BY <2>1, <2>2, <2>3
<1>5. ASSUME NEW k, NEW p, InHand(k, p, "keyboard")
      PROVE  /\ IsPrefix(Plain(keyboard.buffer), typed)
             /\ Quiet("keyboard") => Plain(keyboard.buffer) = typed
  <2>1. PICK w \in Seq(KeyReports) : Carried("keyboard", k, p, w) /\ Script(g_hid_devices[k], w)
    BY <1>2, <1>5 DEF KeysSound
  <2>2. PICK hid : hid = g_hid_devices[k]
    OBVIOUS
  <2>3. PICK rest \in [0 .. Len(w) -> Seq(Chars)] :
           typed = Plain(keyboard.buffer) \o rest[0] /\ rest[Len(w)] = <<>>
    BY <2>1, <2>2 DEF Script
  <2>4. rest[0] \in Seq(Chars)
    <3>1. 0 \in 0 .. Len(w)
      OBVIOUS
    <3> QED BY <2>3, <3>1
  <2>5. IsPrefix(Plain(keyboard.buffer), typed)
    BY <1>3, <2>3, <2>4, PrefixOfConcat
  <2>6. ASSUME Quiet("keyboard") PROVE Plain(keyboard.buffer) = typed
    <3>1. "keyboard" \in Interfaces
      BY DEF Interfaces
    <3>2. w = <<>>
      BY <1>1, <1>5, <2>1, <2>6, <3>1, QuietTold
    <3>3. Len(w) = 0
      BY <3>2
    <3>4. rest[0] = <<>>
      BY <2>3, <3>3
    <3> QED BY <1>3, <2>3, <3>4, ConcatEmptySeq
  <2> QED BY <2>5, <2>6
<1> QED BY <1>4, <1>5

LEMMA HidAlways == HidSpec => []HidInv
<1>1. UsbInit => HidInv
  BY HidInit DEF HidInv, Base
<1>2. HidInv /\ [HidNext]_hid_vars => HidInv'
  BY HidStutters, HidStep
<1> QED BY <1>1, <1>2, PTL DEF HidSpec

\* The pointer of the screen: whatever keyboards and mice are plugged in, at
\* however many ports, and whichever acknowledgements are lost on the line,
\* once nothing a mouse said is on its way and the reader has taken every
\* event, it knows where the mouse was moved to and whether its button is down
\* (mouse_queue_push drops the oldest event, usb_hid_process_mouse and the
\* PS/2 packet count y in opposite ways, data toggles tell a repeated report
\* from a new one).  It holds until a poll gives up on a report that came, two
\* polls overlap, or a movement is one that the conversions of the code change
\* (more than a signed byte in a PS/2 packet, -128 in a USB report).
THEOREM PointerAlwaysFollows == HidSpec => []PointerFollows
<1>1. HidSpec => []HidInv
  BY HidAlways
<1>2. HidInv => PointerFollows
  BY HidPointer
<1> QED BY <1>1, <1>2, PTL

\* The characters of the keyboard: whatever is plugged in, for rings of every
\* size and any number of keys held down, what waits in key_buffer is the
\* beginning of what was typed and not read, in order, each once, and all of
\* it once nothing a keyboard said is on its way; a full ring loses what does
\* not fit, and nothing else is lost until a poll gives up on a report that
\* came, two polls overlap, or one of two shift keys of a PS/2 keyboard is
\* released while the other is held.
THEOREM KeysAlwaysReadAsTyped == HidSpec => []KeysReadAsTyped
<1>1. HidSpec => []HidInv
  BY HidAlways
<1>2. HidInv => KeysReadAsTyped
  BY HidKeys
<1> QED BY <1>1, <1>2, PTL

=============================================================================
