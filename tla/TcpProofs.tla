----------------------------- MODULE TcpProofs ------------------------------
(***************************************************************************)
(* Proofs about the kernel's TCP: what a request returns is what the peer  *)
(* sent, and what a probe says is true, for any peers, sequence numbers,   *)
(* lengths and capacities, whatever the network loses, repeats, reorders   *)
(* and cuts anew.                                                          *)
(***************************************************************************)
EXTENDS TcpClient, SequenceTheorems, TLAPS

-----------------------------------------------------------------------------
(* The inductive invariant.                                                *)

\* A connection's records and what its state says about its segments.
PeerSound(s) ==
    /\ s = [st |-> s.st, peer |-> s.peer, irs |-> s.irs, iss |-> s.iss,
            opened |-> s.opened, est |-> s.est, req |-> s.req,
            refused |-> s.refused, aborted |-> s.aborted]
    /\ s.iss \in 0 .. SeqSpace - 1
    /\ s.opened \/ s.refused \/ s.aborted => s.st # "none"
    /\ s.opened => s.peer \in Listening
    /\ s.refused => s.peer \notin Listening

\* How a connection changes: its numbers are chosen once.
Later(s, t) ==
    s.st # "none" =>
        /\ t.st # "none" /\ t.iss = s.iss
        /\ s.opened => t.opened
        /\ s.aborted => t.aborted

PeersSound == DOMAIN server = Ports /\ \A p \in Ports : PeerSound(server[p])

\* Of k positions that were acknowledged, FIN included, those with data, and
\* those of them that are in the buffer.
DataOf(k) == IF k > StreamLen THEN StreamLen ELSE k
Kept(k, capacity) == IF DataOf(k) > capacity THEN capacity ELSE DataOf(k)

\* The first n bytes of what a peer sends to port p.
Prefix(p, n) == Bytes(p, 0, n)

\* The client has acknowledged k positions of a stream that starts at iss.
Reached(c, iss, k) ==
    /\ c.rcv_nxt = Plus(iss, 1 + k)
    /\ c.rx = Prefix(c.src_port, Kept(k, c.capacity))
    /\ c.truncated <=> DataOf(k) > c.capacity
    /\ ~c.reset => (c.finished <=> k = StreamLen + 1)

\* A connection of the client, which numbers its peer's bytes from iss on.
Transfer(c, iss) ==
    /\ c.src_port \in Ports /\ c.capacity \in Nat /\ c.truncated \in BOOLEAN
    /\ c.established => \E k \in 0 .. StreamLen + 1 : Reached(c, iss, k)
    /\ ~c.established => c.rx = <<>> /\ ~c.truncated /\ (~c.reset => ~c.finished)

ClientShape(c) ==
    c = [active |-> c.active, established |-> c.established, finished |-> c.finished,
         reset |-> c.reset, truncated |-> c.truncated, src_port |-> c.src_port,
         peer |-> c.peer, snd_nxt |-> c.snd_nxt, rcv_nxt |-> c.rcv_nxt,
         capacity |-> c.capacity, rx |-> c.rx]

ClientSound ==
    LET c == g_tcp_client
    IN  /\ ClientShape(c)
        /\ ~c.active => c = NoClient
        /\ c.active =>
              /\ pc \in {"connect", "response"}
              /\ Transfer(c, server[c.src_port].iss)
              /\ c.established => server[c.src_port].opened

\* What a probe has heard is true, unless the server took its answer back.
ProbeSound ==
    LET b == g_tcp_probe_state
    IN  /\ b = [waiting |-> b.waiting, received |-> b.received, open |-> b.open,
                src_port |-> b.src_port, peer |-> b.peer, sequence |-> b.sequence]
        /\ b.waiting => b.src_port \in Ports
        /\ b.received =>
              /\ b.src_port \in Ports
              /\ (b.open = (b.peer \in Listening)) \/ server[b.src_port].aborted

\* A response that ended with FIN and is not cut is whole.
GetSound ==
    result.call = "get" /\ result.end = "fin" /\ result.ok /\ ~result.truncated
        => result.status /\ result.body = Bytes(result.port, HdrLen, StreamLen)

AnswerSound ==
    result.call = "probe" /\ result.ok =>
        /\ result.port \in Ports
        /\ (result.open = (result.peer \in Listening)) \/ server[result.port].aborted

IInv ==
    /\ PeersSound /\ ClientSound /\ ProbeSound /\ GetSound /\ AnswerSound
    /\ g_tcp_src_port \in Ports

-----------------------------------------------------------------------------
(* Numbers and bytes.                                                      *)

LEMMA Constants ==
    /\ SeqSpace \in Nat \ {0} /\ StreamLen \in Nat /\ HdrLen \in Nat /\ StatusLen \in Nat
    /\ StreamLen + 3 < SeqSpace /\ StatusLen <= HdrLen /\ HdrLen <= StreamLen /\ 0 < HdrLen
    /\ ISNs \subseteq 0 .. SeqSpace - 1
BY TcpAssumption

\* The sum on SeqSpace numbers of one of them and less than SeqSpace.
LEMMA PlusIs ==
    ASSUME NEW a \in 0 .. SeqSpace - 1, NEW n \in 0 .. SeqSpace - 1
    PROVE  /\ Plus(a, n) \in 0 .. SeqSpace - 1
           /\ a + n < SeqSpace => Plus(a, n) = a + n
           /\ a + n >= SeqSpace => Plus(a, n) = a + n - SeqSpace
<1> DEFINE x == a + n
           d == x \div SeqSpace
           r == x % SeqSpace
<1>1. x \in Nat /\ x < 2 * SeqSpace
  BY Constants
<1>2. d \in Int /\ r \in 0 .. SeqSpace - 1 /\ x = SeqSpace * d + r
  BY <1>1, Constants
<1> HIDE DEF d, r, x
<1>3. d >= 2 => SeqSpace * d >= 2 * SeqSpace
  BY <1>2, Constants
<1>4. d <= -1 => SeqSpace * d <= -SeqSpace
  BY <1>2, Constants
<1>5. d \in {0, 1}
  BY <1>1, <1>2, <1>3, <1>4, Constants
<1>6. r = IF x < SeqSpace THEN x ELSE x - SeqSpace
  BY <1>1, <1>2, <1>5, Constants
<1>7. Plus(a, n) = r
  BY DEF Plus, r, x
<1>8. r = IF a + n < SeqSpace THEN a + n ELSE a + n - SeqSpace
  BY <1>1, <1>2, <1>6, Constants DEF x
<1> HIDE DEF r, x
<1> QED BY <1>2, <1>7, <1>8, Constants

\* Positions of one stream that are told apart by their numbers.
LEMMA PlusDiffers ==
    ASSUME NEW a \in 0 .. SeqSpace - 1, NEW m \in 0 .. SeqSpace - 1, NEW n \in 0 .. SeqSpace - 1,
           Plus(a, m) = Plus(a, n)
    PROVE  m = n
<1>1. /\ a + m < SeqSpace => Plus(a, m) = a + m
      /\ a + m >= SeqSpace => Plus(a, m) = a + m - SeqSpace
  BY PlusIs
<1>2. /\ a + n < SeqSpace => Plus(a, n) = a + n
      /\ a + n >= SeqSpace => Plus(a, n) = a + n - SeqSpace
  BY PlusIs
<1> DEFINE x == Plus(a, m)
<1>3. x = Plus(a, m) /\ x = Plus(a, n)
  OBVIOUS
<1> HIDE DEF x
<1> QED BY <1>1, <1>2, <1>3, Constants

LEMMA PlusPlus ==
    ASSUME NEW a \in 0 .. SeqSpace - 1, NEW m \in Nat, NEW n \in Nat, m + n < SeqSpace
    PROVE  Plus(Plus(a, m), n) = Plus(a, m + n)
<1> DEFINE b == Plus(a, m)
           k == m + n
<1>1. m \in 0 .. SeqSpace - 1 /\ n \in 0 .. SeqSpace - 1 /\ k \in 0 .. SeqSpace - 1 /\ k = m + n
  BY Constants
<1> HIDE DEF k
<1>2. /\ b \in 0 .. SeqSpace - 1
      /\ a + m < SeqSpace => b = a + m
      /\ a + m >= SeqSpace => b = a + m - SeqSpace
  BY <1>1, PlusIs
<1> HIDE DEF b
<1>3. /\ Plus(b, n) \in 0 .. SeqSpace - 1
      /\ b + n < SeqSpace => Plus(b, n) = b + n
      /\ b + n >= SeqSpace => Plus(b, n) = b + n - SeqSpace
  BY <1>1, <1>2, PlusIs
<1>4. /\ Plus(a, k) \in 0 .. SeqSpace - 1
      /\ a + k < SeqSpace => Plus(a, k) = a + k
      /\ a + k >= SeqSpace => Plus(a, k) = a + k - SeqSpace
  BY <1>1, PlusIs
<1>5. Plus(b, n) = Plus(a, k)
  BY <1>1, <1>2, <1>3, <1>4, Constants
<1> QED BY <1>5 DEF b, k

\* How far a number is behind the first one of the stream.
LEMMA Distance ==
    ASSUME NEW a \in 0 .. SeqSpace - 1, NEW k \in 0 .. StreamLen + 1
    PROVE  (Plus(a, 1 + k) + SeqSpace - Plus(a, 1)) % SeqSpace = k
<1> DEFINE b == Plus(a, 1)
           j == 1 + k
           e == Plus(a, j)
           x == e + SeqSpace - b
           d == x \div SeqSpace
           r == x % SeqSpace
<1>1. j \in 0 .. SeqSpace - 1 /\ 1 \in 0 .. SeqSpace - 1 /\ j = 1 + k
  BY Constants
<1> HIDE DEF j
<1>2. /\ b \in 0 .. SeqSpace - 1
      /\ a + 1 < SeqSpace => b = a + 1
      /\ a + 1 >= SeqSpace => b = a + 1 - SeqSpace
  BY <1>1, PlusIs
<1>3. /\ e \in 0 .. SeqSpace - 1
      /\ a + j < SeqSpace => e = a + j
      /\ a + j >= SeqSpace => e = a + j - SeqSpace
  BY <1>1, PlusIs
<1> HIDE DEF b, e
<1>4. x = k \/ x = k + SeqSpace
  BY <1>1, <1>2, <1>3, Constants
<1> HIDE DEF x
<1>5. d \in Int /\ r \in 0 .. SeqSpace - 1 /\ x = SeqSpace * d + r
  BY <1>4, Constants, SMTT(30)
<1> HIDE DEF d, r
<1>6. d >= 2 => SeqSpace * d >= 2 * SeqSpace
  BY <1>5, Constants
<1>7. d <= -1 => SeqSpace * d <= -SeqSpace
  BY <1>5, Constants
<1>8. d \in {0, 1}
  BY <1>4, <1>5, <1>6, <1>7, Constants
<1>9. r = k
  BY <1>4, <1>5, <1>8, Constants
<1> QED BY <1>9 DEF r, x, e, b, j

BytesTo(p) == {p} \X Nat

LEMMA BytesAre ==
    ASSUME NEW p, NEW i \in Nat, NEW j \in Nat, i <= j
    PROVE  /\ Bytes(p, i, j) \in Seq(BytesTo(p)) /\ Len(Bytes(p, i, j)) = j - i
           /\ \A n \in 1 .. j - i : Bytes(p, i, j)[n] = <<p, i + n>>
<1> DEFINE len == j - i
           b == [n \in 1 .. len |-> <<p, i + n>>]
<1>1. len \in Nat /\ len = j - i
  OBVIOUS
<1>2. Bytes(p, i, j) = b
  BY DEF Bytes
<1> HIDE DEF len
<1>3. b \in [1 .. len -> BytesTo(p)] /\ \A n \in 1 .. len : b[n] = <<p, i + n>>
  BY <1>1 DEF BytesTo
<1> HIDE DEF b
<1> DEFINE T == BytesTo(p)
<1> HIDE DEF T
<1>5. b \in [1 .. len -> T]
  BY <1>3 DEF T
<1>4. b \in Seq(T) /\ Len(b) = len
  BY <1>1, <1>5, SeqDef
<1> QED BY <1>1, <1>2, <1>3, <1>4 DEF T

\* A sequence of the right length whose elements are the bytes is them.
LEMMA IsBytes ==
    ASSUME NEW p, NEW i \in Nat, NEW j \in Nat, i <= j, NEW T, NEW s \in Seq(T),
           Len(s) = j - i, \A n \in 1 .. j - i : s[n] = <<p, i + n>>
    PROVE  s = Bytes(p, i, j)
<1>1. DOMAIN s = 1 .. j - i /\ s = [n \in DOMAIN s |-> s[n]]
  OBVIOUS
<1> QED BY <1>1, Zenon DEF Bytes

LEMMA PrefixIs ==
    ASSUME NEW p, NEW n \in Nat
    PROVE  /\ Prefix(p, n) \in Seq(BytesTo(p)) /\ Len(Prefix(p, n)) = n
           /\ \A m \in 1 .. n : Prefix(p, n)[m] = <<p, m>>
<1> DEFINE zero == 0
<1>1. zero \in Nat /\ zero <= n /\ zero = 0
  OBVIOUS
<1>2. Prefix(p, n) = Bytes(p, zero, n)
  BY DEF Prefix
<1> HIDE DEF zero
<1>3. /\ Bytes(p, zero, n) \in Seq(BytesTo(p)) /\ Len(Bytes(p, zero, n)) = n - zero
      /\ \A m \in 1 .. n - zero : Bytes(p, zero, n)[m] = <<p, zero + m>>
  BY <1>1, BytesAre
<1> QED BY <1>1, <1>2, <1>3

LEMMA NoBytes == \A p : Prefix(p, 0) = <<>>
<1> TAKE p
<1>1. Prefix(p, 0) \in Seq(BytesTo(p)) /\ Len(Prefix(p, 0)) = 0
  BY PrefixIs
<1> QED BY <1>1, EmptySeq

\* A sequence of the right length whose elements are the first bytes.
LEMMA IsPrefix ==
    ASSUME NEW p, NEW n \in Nat, NEW T, NEW s \in Seq(T),
           Len(s) = n, \A m \in 1 .. n : s[m] = <<p, m>>
    PROVE  s = Prefix(p, n)
<1> DEFINE zero == 0
<1>1. zero \in Nat /\ zero <= n /\ zero = 0
  OBVIOUS
<1>2. Prefix(p, n) = Bytes(p, zero, n)
  BY DEF Prefix
<1> HIDE DEF zero
<1>3. Len(s) = n - zero /\ \A m \in 1 .. n - zero : s[m] = <<p, zero + m>>
  BY <1>1
<1> QED BY <1>1, <1>2, <1>3, IsBytes

\* What is appended continues the stream.
LEMMA BytesGrow ==
    ASSUME NEW p, NEW i \in Nat, NEW j \in Nat, NEW n \in Nat, NEW k, k = i + n, k <= j
    PROVE  Prefix(p, i) \o SubSeq(Bytes(p, i, j), 1, n) = Prefix(p, k)
<1> DEFINE a == Prefix(p, i)
           d == Bytes(p, i, j)
           b == SubSeq(d, 1, n)
           T == BytesTo(p)
           s == a \o b
<1>1. a \in Seq(T) /\ Len(a) = i /\ \A m \in 1 .. i : a[m] = <<p, m>>
  BY PrefixIs
<1>2. d \in Seq(T) /\ Len(d) = j - i /\ \A m \in 1 .. j - i : d[m] = <<p, i + m>>
  <2>1. i <= j
    OBVIOUS
  <2> QED BY <2>1, BytesAre
<1>3. k \in Nat /\ k = i + n
  OBVIOUS
<1> HIDE DEF a, d, T
<1>4. b \in Seq(T) /\ Len(b) = n /\ \A m \in 1 .. n : b[m] = d[m]
  BY <1>2, SubSeqProperties
<1>5. \A m \in 1 .. n : b[m] = <<p, i + m>>
  BY <1>2, <1>4
<1> HIDE DEF b
<1>6. /\ s \in Seq(T) /\ Len(s) = k
      /\ \A m \in 1 .. k : s[m] = IF m <= i THEN a[m] ELSE b[m - i]
  <2>1. /\ s \in Seq(T) /\ Len(s) = Len(a) + Len(b)
        /\ \A m \in 1 .. Len(a) + Len(b) : s[m] = IF m <= Len(a) THEN a[m] ELSE b[m - Len(a)]
    BY <1>1, <1>4, ConcatProperties
  <2> HIDE DEF s
  <2> QED BY <1>1, <1>3, <1>4, <2>1
<1> HIDE DEF s
<1>7. \A m \in 1 .. k : s[m] = <<p, m>>
  <2> TAKE m \in 1 .. k
  <2>1. CASE m <= i
    BY <1>1, <1>3, <1>6, <2>1
  <2>2. CASE m > i
    <3> DEFINE q == m - i
    <3>1. q \in 1 .. n /\ i + q = m
      BY <1>3, <2>2
    <3>2. s[m] = b[q]
      BY <1>3, <1>6, <2>2
    <3> HIDE DEF q
    <3> QED BY <1>5, <3>1, <3>2
  <2>3. m <= i \/ m > i
    BY <1>3
  <2> QED BY <2>1, <2>2, <2>3
<1>8. s = Prefix(p, k)
  BY <1>3, <1>6, <1>7, IsPrefix
<1> QED BY <1>8 DEF s, a, b, d

-----------------------------------------------------------------------------
(* The peers.                                                              *)

PeerRecord(st, peer, irs, iss, opened, est, req, refused, aborted) ==
    [st |-> st, peer |-> peer, irs |-> irs, iss |-> iss, opened |-> opened, est |-> est,
     req |-> req, refused |-> refused, aborted |-> aborted]

\* What the peers' actions make of a connection.
Accepting(peer, irs, iss) ==
    [[NoConnection EXCEPT !.peer = peer, !.irs = irs]
        EXCEPT !.st = "syn", !.iss = iss, !.opened = TRUE]
Refusing(peer, irs) ==
    [[NoConnection EXCEPT !.peer = peer, !.irs = irs] EXCEPT !.st = "closed", !.refused = TRUE]
Hearing(s, req) == [s EXCEPT !.st = "est", !.est = TRUE, !.req = req]
Closing(s) == [s EXCEPT !.st = "closed"]
Aborting(s) == [s EXCEPT !.st = "closed", !.aborted = TRUE]

LEMMA NoConnectionIs ==
    NoConnection = PeerRecord("none", "none", 0, 0, FALSE, FALSE, FALSE, FALSE, FALSE)
BY DEF NoConnection, PeerRecord

LEMMA AcceptingIs ==
    ASSUME NEW peer, NEW irs, NEW iss
    PROVE  Accepting(peer, irs, iss) =
              PeerRecord("syn", peer, irs, iss, TRUE, FALSE, FALSE, FALSE, FALSE)
<1> DEFINE no == FALSE
           yes == TRUE
           zero == 0
           none == "none"
           syn == "syn"
           r1 == [NoConnection EXCEPT !.peer = peer]
           r2 == [r1 EXCEPT !.irs = irs]
           r3 == [r2 EXCEPT !.st = syn]
           r4 == [r3 EXCEPT !.iss = iss]
           r5 == [r4 EXCEPT !.opened = yes]
<1>1. NoConnection = PeerRecord(none, none, zero, zero, no, no, no, no, no)
  BY Zenon DEF NoConnection, PeerRecord
<1>2. Accepting(peer, irs, iss) = r5
  BY Zenon DEF Accepting
<1> HIDE DEF no, yes, zero, none, syn
<1>3. r1 = PeerRecord(none, peer, zero, zero, no, no, no, no, no)
  BY <1>1 DEF PeerRecord
<1> HIDE DEF r1
<1>4. r2 = PeerRecord(none, peer, irs, zero, no, no, no, no, no)
  BY <1>3 DEF PeerRecord
<1> HIDE DEF r2
<1>5. r3 = PeerRecord(syn, peer, irs, zero, no, no, no, no, no)
  BY <1>4 DEF PeerRecord
<1> HIDE DEF r3
<1>6. r4 = PeerRecord(syn, peer, irs, iss, no, no, no, no, no)
  BY <1>5 DEF PeerRecord
<1> HIDE DEF r4
<1>7. r5 = PeerRecord(syn, peer, irs, iss, yes, no, no, no, no)
  BY <1>6 DEF PeerRecord
<1> HIDE DEF r5
<1> QED BY <1>2, <1>7, Zenon DEF no, yes, syn

LEMMA RefusingIs ==
    ASSUME NEW peer, NEW irs
    PROVE  Refusing(peer, irs) =
              PeerRecord("closed", peer, irs, 0, FALSE, FALSE, FALSE, TRUE, FALSE)
<1> DEFINE no == FALSE
           yes == TRUE
           zero == 0
           none == "none"
           closed == "closed"
           r1 == [NoConnection EXCEPT !.peer = peer]
           r2 == [r1 EXCEPT !.irs = irs]
           r3 == [r2 EXCEPT !.st = closed]
           r4 == [r3 EXCEPT !.refused = yes]
<1>1. NoConnection = PeerRecord(none, none, zero, zero, no, no, no, no, no)
  BY Zenon DEF NoConnection, PeerRecord
<1>2. Refusing(peer, irs) = r4
  BY Zenon DEF Refusing
<1> HIDE DEF no, yes, zero, none, closed
<1>3. r1 = PeerRecord(none, peer, zero, zero, no, no, no, no, no)
  BY <1>1 DEF PeerRecord
<1> HIDE DEF r1
<1>4. r2 = PeerRecord(none, peer, irs, zero, no, no, no, no, no)
  BY <1>3 DEF PeerRecord
<1> HIDE DEF r2
<1>5. r3 = PeerRecord(closed, peer, irs, zero, no, no, no, no, no)
  BY <1>4 DEF PeerRecord
<1> HIDE DEF r3
<1>6. r4 = PeerRecord(closed, peer, irs, zero, no, no, no, yes, no)
  BY <1>5 DEF PeerRecord
<1> HIDE DEF r4
<1> QED BY <1>2, <1>6, Zenon DEF no, yes, zero, closed

\* The changes of a connection keep what its segments rest on.
LEMMA HearingIs ==
    ASSUME NEW s, PeerSound(s), NEW req, s.st # "none"
    PROVE  PeerSound(Hearing(s, req)) /\ Later(s, Hearing(s, req))
<1> DEFINE yes == TRUE
           est == "est"
           t == Hearing(s, req)
           r1 == [s EXCEPT !.st = est]
           r2 == [r1 EXCEPT !.est = yes]
           r3 == [r2 EXCEPT !.req = req]
<1>1. s = PeerRecord(s.st, s.peer, s.irs, s.iss, s.opened, s.est, s.req, s.refused, s.aborted)
  BY Zenon DEF PeerSound, PeerRecord
<1>2. t = r3
  BY Zenon DEF Hearing
<1> HIDE DEF t, yes, est
<1>3. r1 = PeerRecord(est, s.peer, s.irs, s.iss, s.opened, s.est, s.req, s.refused, s.aborted)
  BY <1>1 DEF PeerRecord
<1> HIDE DEF r1
<1>4. r2 = PeerRecord(est, s.peer, s.irs, s.iss, s.opened, yes, s.req, s.refused, s.aborted)
  BY <1>3 DEF PeerRecord
<1> HIDE DEF r2
<1>5. r3 = PeerRecord(est, s.peer, s.irs, s.iss, s.opened, yes, req, s.refused, s.aborted)
  BY <1>4 DEF PeerRecord
<1> HIDE DEF r3
<1>6. /\ t = PeerRecord(t.st, t.peer, t.irs, t.iss, t.opened, t.est, t.req, t.refused, t.aborted)
      /\ t.st = est /\ t.peer = s.peer /\ t.iss = s.iss /\ t.opened = s.opened
      /\ t.refused = s.refused /\ t.aborted = s.aborted
  BY <1>2, <1>5 DEF PeerRecord
<1>7. est # "none"
  BY DEF est
<1>8. PeerSound(t) /\ Later(s, t)
  BY <1>6, <1>7, Zenon DEF PeerSound, PeerRecord, Later
<1> QED BY <1>8 DEF t

LEMMA ClosingIs ==
    ASSUME NEW s, PeerSound(s), s.st # "none"
    PROVE  PeerSound(Closing(s)) /\ Later(s, Closing(s))
<1> DEFINE closed == "closed"
           t == Closing(s)
<1>1. s = PeerRecord(s.st, s.peer, s.irs, s.iss, s.opened, s.est, s.req, s.refused, s.aborted)
  BY Zenon DEF PeerSound, PeerRecord
<1>2. t = [s EXCEPT !.st = closed]
  BY Zenon DEF Closing
<1> HIDE DEF t, closed
<1>3. t = PeerRecord(closed, s.peer, s.irs, s.iss, s.opened, s.est, s.req, s.refused, s.aborted)
  BY <1>1, <1>2 DEF PeerRecord
<1>4. /\ t = PeerRecord(t.st, t.peer, t.irs, t.iss, t.opened, t.est, t.req, t.refused, t.aborted)
      /\ t.st = closed /\ t.peer = s.peer /\ t.iss = s.iss /\ t.opened = s.opened
      /\ t.refused = s.refused /\ t.aborted = s.aborted
  BY <1>3 DEF PeerRecord
<1>5. closed # "none"
  BY DEF closed
<1>6. PeerSound(t) /\ Later(s, t)
  BY <1>4, <1>5, Zenon DEF PeerSound, PeerRecord, Later
<1> QED BY <1>6 DEF t

LEMMA AbortingIs ==
    ASSUME NEW s, PeerSound(s), s.st # "none"
    PROVE  PeerSound(Aborting(s)) /\ Later(s, Aborting(s))
<1> DEFINE closed == "closed"
           yes == TRUE
           t == Aborting(s)
           r1 == [s EXCEPT !.st = closed]
           r2 == [r1 EXCEPT !.aborted = yes]
<1>1. s = PeerRecord(s.st, s.peer, s.irs, s.iss, s.opened, s.est, s.req, s.refused, s.aborted)
  BY Zenon DEF PeerSound, PeerRecord
<1>2. t = r2
  BY Zenon DEF Aborting
<1> HIDE DEF t, closed, yes
<1>3. r1 = PeerRecord(closed, s.peer, s.irs, s.iss, s.opened, s.est, s.req, s.refused, s.aborted)
  BY <1>1 DEF PeerRecord
<1> HIDE DEF r1
<1>4. r2 = PeerRecord(closed, s.peer, s.irs, s.iss, s.opened, s.est, s.req, s.refused, yes)
  BY <1>3 DEF PeerRecord
<1> HIDE DEF r2
<1>5. /\ t = PeerRecord(t.st, t.peer, t.irs, t.iss, t.opened, t.est, t.req, t.refused, t.aborted)
      /\ t.st = closed /\ t.peer = s.peer /\ t.iss = s.iss /\ t.opened = s.opened
      /\ t.refused = s.refused /\ t.aborted = yes
  BY <1>2, <1>4 DEF PeerRecord
<1>6. closed # "none" /\ yes
  BY DEF closed, yes
<1>7. PeerSound(t) /\ Later(s, t)
  BY <1>5, <1>6, Zenon DEF PeerSound, PeerRecord, Later
<1> QED BY <1>7 DEF t

LEMMA AnsweringIs ==
    ASSUME NEW s, s.st = "none", NEW peer, NEW irs, NEW iss \in 0 .. SeqSpace - 1
    PROVE  /\ peer \in Listening => PeerSound(Accepting(peer, irs, iss))
           /\ peer \notin Listening => PeerSound(Refusing(peer, irs))
           /\ \A t : Later(s, t)
<1> DEFINE no == FALSE
           yes == TRUE
           zero == 0
           syn == "syn"
           closed == "closed"
           a == Accepting(peer, irs, iss)
           b == Refusing(peer, irs)
<1>1. a = PeerRecord(syn, peer, irs, iss, yes, no, no, no, no)
  BY AcceptingIs, Zenon
<1>2. b = PeerRecord(closed, peer, irs, zero, no, no, no, yes, no)
  BY RefusingIs, Zenon
<1>3. syn # "none" /\ closed # "none" /\ yes /\ ~no /\ zero \in 0 .. SeqSpace - 1
  BY Constants
<1> HIDE DEF no, yes, zero, syn, closed, a, b
<1>4. /\ a = PeerRecord(a.st, a.peer, a.irs, a.iss, a.opened, a.est, a.req, a.refused, a.aborted)
      /\ a.st = syn /\ a.peer = peer /\ a.iss = iss /\ a.refused = no
  BY <1>1 DEF PeerRecord
<1>5. /\ b = PeerRecord(b.st, b.peer, b.irs, b.iss, b.opened, b.est, b.req, b.refused, b.aborted)
      /\ b.st = closed /\ b.peer = peer /\ b.iss = zero /\ b.opened = no
  BY <1>2 DEF PeerRecord
<1>6. peer \in Listening => PeerSound(a)
  BY <1>3, <1>4, Zenon DEF PeerSound, PeerRecord
<1>7. peer \notin Listening => PeerSound(b)
  BY <1>3, <1>5, Zenon DEF PeerSound, PeerRecord
<1>8. \A t : Later(s, t)
  BY Zenon DEF Later
<1> QED BY <1>6, <1>7, <1>8 DEF a, b

LEMMA LaterItself == \A s : Later(s, s)
BY DEF Later

\* Of one connection replaced by a later one.
LEMMA OnePeerMoves ==
    ASSUME PeersSound, NEW p, NEW t, server' = [server EXCEPT ![p] = t],
           p \in Ports => PeerSound(t) /\ Later(server[p], t)
    PROVE  PeersSound' /\ \A q \in Ports : Later(server[q], server'[q])
<1>1. DOMAIN server = Ports /\ \A q \in Ports : PeerSound(server[q])
  BY DEF PeersSound
<1>2. DOMAIN server' = Ports
  BY <1>1
<1>3. \A q \in Ports : server'[q] = IF q = p THEN t ELSE server[q]
  BY <1>1
<1>4. \A q \in Ports : PeerSound(server'[q]) /\ Later(server[q], server'[q])
  BY <1>1, <1>3, LaterItself
<1> QED BY <1>2, <1>4 DEF PeersSound

\* Whatever a peer receives, and when it gives up.
LEMMA PeersMove ==
    ASSUME PeersSound, NEW m, ServerReceives(m) \/ \E p \in Ports : ServerAborts(p)
    PROVE  PeersSound' /\ \A q \in Ports : Later(server[q], server'[q])
<1>1. ASSUME ServerReceivesSyn(m)
      PROVE  PeersSound' /\ \A q \in Ports : Later(server[q], server'[q])
  <2> DEFINE p == m.port
  <2>1. PICK iss \in ISNs :
           server' = [server EXCEPT ![p] = IF m.peer \in Listening
                                           THEN Accepting(m.peer, m.seq, iss)
                                           ELSE Refusing(m.peer, m.seq)]
    BY <1>1, Zenon DEF ServerReceivesSyn, Accepting, Refusing
  <2>2. server[p].st = "none" /\ iss \in 0 .. SeqSpace - 1
    BY <1>1, Constants DEF ServerReceivesSyn
  <2> DEFINE t == IF m.peer \in Listening THEN Accepting(m.peer, m.seq, iss)
                  ELSE Refusing(m.peer, m.seq)
  <2>3. PeerSound(t) /\ Later(server[p], t)
    <3> DEFINE s == server[p]
               peer == m.peer
               irs == m.seq
    <3>1. s.st = "none"
      BY <2>2
    <3> HIDE DEF s, peer, irs
    <3>2. /\ peer \in Listening => PeerSound(Accepting(peer, irs, iss))
          /\ peer \notin Listening => PeerSound(Refusing(peer, irs))
          /\ \A u : Later(s, u)
      BY <2>2, <3>1, AnsweringIs
    <3> QED BY <3>2 DEF s, peer, irs
  <2> HIDE DEF t
  <2>4. server' = [server EXCEPT ![p] = t]
    BY <2>1 DEF t
  <2> HIDE DEF p
  <2> QED BY <2>3, <2>4, OnePeerMoves
<1>2. ASSUME ServerReceivesAck(m)
      PROVE  PeersSound' /\ \A q \in Ports : Later(server[q], server'[q])
  <2> DEFINE p == m.port
             c == server[p]
             est == c.st = "est" \/ m.ack = Plus(c.iss, 1)
             req == c.req \/ (est /\ m.len > 0 /\ m.seq = Expected(c))
  <2>1. /\ c.st \in {"syn", "est"}
        /\ server' = [server EXCEPT ![p].st = "est", ![p].est = TRUE, ![p].req = req]
    BY <1>2, Zenon DEF ServerReceivesAck
  <2> HIDE DEF est, req
  <2>2. c.st # "none"
    BY <2>1
  <2> DEFINE t == Hearing(c, req)
  <2>3. server' = [server EXCEPT ![p] = t]
    <3> HIDE DEF p, c, t
    <3>1. [server EXCEPT ![p].st = "est", ![p].est = TRUE, ![p].req = req] =
          [server EXCEPT ![p] = [@ EXCEPT !.st = "est", !.est = TRUE, !.req = req]]
      OBVIOUS
    <3>2. [server EXCEPT ![p] = [@ EXCEPT !.st = "est", !.est = TRUE, !.req = req]] =
          [server EXCEPT ![p] = t]
      BY Zenon DEF t, c, Hearing
    <3> QED BY <2>1, <3>1, <3>2, Zenon
  <2>4. p \in Ports => PeerSound(c)
    BY DEF PeersSound
  <2> HIDE DEF p, c
  <2>5. p \in Ports => PeerSound(t) /\ Later(c, t)
    BY <2>2, <2>4, HearingIs
  <2> HIDE DEF t
  <2> QED BY <2>3, <2>5, OnePeerMoves DEF c
<1>3. ASSUME ServerReceivesReset(m)
      PROVE  PeersSound' /\ \A q \in Ports : Later(server[q], server'[q])
  <2> DEFINE p == m.port
             c == server[p]
             t == Closing(c)
  <2>1. c.st \in {"syn", "est"} /\ server' = [server EXCEPT ![p] = t]
    BY <1>3, Zenon DEF ServerReceivesReset, Closing
  <2>2. c.st # "none" /\ (p \in Ports => PeerSound(c))
    BY <2>1 DEF PeersSound
  <2> HIDE DEF p, c
  <2>3. p \in Ports => PeerSound(t) /\ Later(c, t)
    BY <2>2, ClosingIs
  <2> HIDE DEF t
  <2> QED BY <2>1, <2>3, OnePeerMoves DEF c
<1>4. ASSUME NEW p \in Ports, ServerAborts(p)
      PROVE  PeersSound' /\ \A q \in Ports : Later(server[q], server'[q])
  <2> DEFINE c == server[p]
             t == Aborting(c)
  <2>1. c.st \in {"syn", "est"} /\ server' = [server EXCEPT ![p] = t]
    BY <1>4, Zenon DEF ServerAborts, Aborting
  <2>2. c.st # "none" /\ PeerSound(c)
    BY <2>1 DEF PeersSound
  <2> HIDE DEF c
  <2>3. PeerSound(t) /\ Later(c, t)
    BY <2>2, AbortingIs
  <2> HIDE DEF t
  <2> QED BY <2>1, <2>3, OnePeerMoves DEF c
<1> QED BY <1>1, <1>2, <1>3, <1>4, Zenon DEF ServerReceives

-----------------------------------------------------------------------------
(* Segments that arrive.                                                   *)

\* A segment of the connection s of port p: it opens it, acknowledges, holds
\* a piece of the response, or ends it.
SegmentOf(m, p, s) ==
    \/ m.flags = {"SYN", "ACK"} /\ m.seq = s.iss /\ m.data = <<>> /\ s.opened
    \/ m.flags = {"ACK"} /\ m.data = <<>>
    \/ \E cut \in Cuts : /\ m.flags = cut.flags /\ m.seq = Plus(s.iss, 1 + cut.from)
                         /\ m.data = Bytes(p, cut.from, cut.to)
    \/ m.flags = {"RST", "ACK"} /\ (s.refused \/ s.aborted)

LEMMA InFlightIs ==
    ASSUME NEW p \in Ports, NEW m \in InFlight(p)
    PROVE  m.port = p /\ m.peer = server[p].peer /\ SegmentOf(m, p, server[p])
<1> DEFINE s == server[p]
           acks == {Plus(s.irs, 1)} \cup (IF s.req THEN {Expected(s)} ELSE {})
<1>1. \/ s.opened /\ m = Segment(s, p, s.iss, Plus(s.irs, 1), {"SYN", "ACK"}, <<>>)
      \/ \E a \in acks : m = Segment(s, p, Plus(s.iss, 1), a, {"ACK"}, <<>>)
      \/ \E cut \in Cuts : m = Segment(s, p, Plus(s.iss, 1 + cut.from), Expected(s), cut.flags,
                                       Bytes(p, cut.from, cut.to))
      \/ s.refused /\ m = Segment(s, p, 0, Plus(s.irs, 1), {"RST", "ACK"}, <<>>)
      \/ s.aborted /\ m = Segment(s, p, Plus(s.iss, 1), Expected(s), {"RST", "ACK"}, <<>>)
  BY Zenon DEF InFlight
<1> HIDE DEF s, acks
<1>2. CASE s.opened /\ m = Segment(s, p, s.iss, Plus(s.irs, 1), {"SYN", "ACK"}, <<>>)
  <2>1. m.peer = s.peer /\ m.port = p /\ m.seq = s.iss /\ m.flags = {"SYN", "ACK"} /\ m.data = <<>>
    BY <1>2 DEF Segment
  <2> QED BY <1>2, <2>1, Zenon DEF SegmentOf, s
<1>3. ASSUME NEW a \in acks, m = Segment(s, p, Plus(s.iss, 1), a, {"ACK"}, <<>>)
      PROVE  m.port = p /\ m.peer = s.peer /\ SegmentOf(m, p, s)
  <2>1. m.peer = s.peer /\ m.port = p /\ m.flags = {"ACK"} /\ m.data = <<>>
    BY <1>3 DEF Segment
  <2> QED BY <2>1, Zenon DEF SegmentOf
<1>4. ASSUME NEW cut \in Cuts,
             m = Segment(s, p, Plus(s.iss, 1 + cut.from), Expected(s), cut.flags,
                         Bytes(p, cut.from, cut.to))
      PROVE  m.port = p /\ m.peer = s.peer /\ SegmentOf(m, p, s)
  <2>1. /\ m.peer = s.peer /\ m.port = p /\ m.flags = cut.flags
        /\ m.seq = Plus(s.iss, 1 + cut.from) /\ m.data = Bytes(p, cut.from, cut.to)
    BY <1>4, Zenon DEF Segment
  <2> QED BY <2>1, Zenon DEF SegmentOf
<1>5. CASE s.refused /\ m = Segment(s, p, 0, Plus(s.irs, 1), {"RST", "ACK"}, <<>>)
  <2>1. m.peer = s.peer /\ m.port = p /\ m.flags = {"RST", "ACK"}
    BY <1>5 DEF Segment
  <2> QED BY <1>5, <2>1, Zenon DEF SegmentOf, s
<1>6. CASE s.aborted /\ m = Segment(s, p, Plus(s.iss, 1), Expected(s), {"RST", "ACK"}, <<>>)
  <2>1. m.peer = s.peer /\ m.port = p /\ m.flags = {"RST", "ACK"}
    BY <1>6 DEF Segment
  <2> QED BY <1>6, <2>1, Zenon DEF SegmentOf, s
<1> QED BY <1>1, <1>2, <1>3, <1>4, <1>5, <1>6, Zenon DEF s

-----------------------------------------------------------------------------
(* The client's record.                                                    *)

ClientRecord(active, est, fin, rst, tr, port, peer, snd, rcv, cap, rx) ==
    [active |-> active, established |-> est, finished |-> fin, reset |-> rst,
     truncated |-> tr, src_port |-> port, peer |-> peer, snd_nxt |-> snd,
     rcv_nxt |-> rcv, capacity |-> cap, rx |-> rx]

\* What the code assigns to it.
WithReset(c) == [c EXCEPT !.reset = TRUE, !.finished = TRUE]
WithPeer(c, rcv) == [c EXCEPT !.established = TRUE, !.rcv_nxt = rcv]
WithData(c, rx, tr, rcv) == [c EXCEPT !.rx = rx, !.truncated = tr, !.rcv_nxt = rcv]
WithFin(c, rcv) == [c EXCEPT !.rcv_nxt = rcv, !.finished = TRUE]
WithSent(c, snd) == [c EXCEPT !.snd_nxt = snd]
Opening(port, peer, isn, capacity) ==
    [NoClient EXCEPT !.active = TRUE, !.src_port = port, !.peer = peer, !.snd_nxt = isn,
                     !.capacity = capacity]

SameCall(c, d) ==
    /\ ClientShape(d)
    /\ d.active = c.active /\ d.src_port = c.src_port /\ d.peer = c.peer /\ d.capacity = c.capacity

LEMMA WithResetIs ==
    ASSUME NEW c, ClientShape(c)
    PROVE  LET d == WithReset(c)
           IN  /\ SameCall(c, d) /\ d.established = c.established /\ d.finished /\ d.reset
               /\ d.truncated = c.truncated /\ d.rcv_nxt = c.rcv_nxt /\ d.rx = c.rx
<1> DEFINE yes == TRUE
           d == WithReset(c)
           r1 == [c EXCEPT !.reset = yes]
           r2 == [r1 EXCEPT !.finished = yes]
<1>1. c = ClientRecord(c.active, c.established, c.finished, c.reset, c.truncated, c.src_port,
                       c.peer, c.snd_nxt, c.rcv_nxt, c.capacity, c.rx)
  BY Zenon DEF ClientShape, ClientRecord
<1>2. d = r2
  BY Zenon DEF WithReset
<1>3. yes
  OBVIOUS
<1> HIDE DEF d, yes
<1>4. r1 = ClientRecord(c.active, c.established, c.finished, yes, c.truncated, c.src_port,
                        c.peer, c.snd_nxt, c.rcv_nxt, c.capacity, c.rx)
  BY <1>1 DEF ClientRecord
<1> HIDE DEF r1
<1>5. r2 = ClientRecord(c.active, c.established, yes, yes, c.truncated, c.src_port,
                        c.peer, c.snd_nxt, c.rcv_nxt, c.capacity, c.rx)
  BY <1>4 DEF ClientRecord
<1> HIDE DEF r2
<1>6. /\ SameCall(c, d) /\ d.established = c.established /\ d.finished = yes /\ d.reset = yes
      /\ d.truncated = c.truncated /\ d.rcv_nxt = c.rcv_nxt /\ d.rx = c.rx
  BY <1>2, <1>5 DEF ClientRecord, SameCall, ClientShape
<1> QED BY <1>3, <1>6, Zenon DEF d

LEMMA WithPeerIs ==
    ASSUME NEW c, ClientShape(c), NEW rcv
    PROVE  LET d == WithPeer(c, rcv)
           IN  /\ SameCall(c, d) /\ d.established /\ d.finished = c.finished /\ d.reset = c.reset
               /\ d.truncated = c.truncated /\ d.rcv_nxt = rcv /\ d.rx = c.rx
<1> DEFINE yes == TRUE
           d == WithPeer(c, rcv)
           r1 == [c EXCEPT !.established = yes]
           r2 == [r1 EXCEPT !.rcv_nxt = rcv]
<1>1. c = ClientRecord(c.active, c.established, c.finished, c.reset, c.truncated, c.src_port,
                       c.peer, c.snd_nxt, c.rcv_nxt, c.capacity, c.rx)
  BY Zenon DEF ClientShape, ClientRecord
<1>2. d = r2
  BY Zenon DEF WithPeer
<1>3. yes
  OBVIOUS
<1> HIDE DEF d, yes
<1>4. r1 = ClientRecord(c.active, yes, c.finished, c.reset, c.truncated, c.src_port,
                        c.peer, c.snd_nxt, c.rcv_nxt, c.capacity, c.rx)
  BY <1>1 DEF ClientRecord
<1> HIDE DEF r1
<1>5. r2 = ClientRecord(c.active, yes, c.finished, c.reset, c.truncated, c.src_port,
                        c.peer, c.snd_nxt, rcv, c.capacity, c.rx)
  BY <1>4 DEF ClientRecord
<1> HIDE DEF r2
<1>6. /\ SameCall(c, d) /\ d.established = yes /\ d.finished = c.finished /\ d.reset = c.reset
      /\ d.truncated = c.truncated /\ d.rcv_nxt = rcv /\ d.rx = c.rx
  BY <1>2, <1>5 DEF ClientRecord, SameCall, ClientShape
<1> QED BY <1>3, <1>6, Zenon DEF d

LEMMA WithDataIs ==
    ASSUME NEW c, ClientShape(c), NEW rx, NEW tr, NEW rcv
    PROVE  LET d == WithData(c, rx, tr, rcv)
           IN  /\ SameCall(c, d) /\ d.established = c.established /\ d.finished = c.finished
               /\ d.reset = c.reset /\ d.truncated = tr /\ d.rcv_nxt = rcv /\ d.rx = rx
<1> DEFINE d == WithData(c, rx, tr, rcv)
           r1 == [c EXCEPT !.rx = rx]
           r2 == [r1 EXCEPT !.truncated = tr]
           r3 == [r2 EXCEPT !.rcv_nxt = rcv]
<1>1. c = ClientRecord(c.active, c.established, c.finished, c.reset, c.truncated, c.src_port,
                       c.peer, c.snd_nxt, c.rcv_nxt, c.capacity, c.rx)
  BY Zenon DEF ClientShape, ClientRecord
<1>2. d = r3
  BY Zenon DEF WithData
<1> HIDE DEF d
<1>3. r1 = ClientRecord(c.active, c.established, c.finished, c.reset, c.truncated, c.src_port,
                        c.peer, c.snd_nxt, c.rcv_nxt, c.capacity, rx)
  BY <1>1 DEF ClientRecord
<1> HIDE DEF r1
<1>4. r2 = ClientRecord(c.active, c.established, c.finished, c.reset, tr, c.src_port,
                        c.peer, c.snd_nxt, c.rcv_nxt, c.capacity, rx)
  BY <1>3 DEF ClientRecord
<1> HIDE DEF r2
<1>5. r3 = ClientRecord(c.active, c.established, c.finished, c.reset, tr, c.src_port,
                        c.peer, c.snd_nxt, rcv, c.capacity, rx)
  BY <1>4 DEF ClientRecord
<1> HIDE DEF r3
<1>6. /\ SameCall(c, d) /\ d.established = c.established /\ d.finished = c.finished
      /\ d.reset = c.reset /\ d.truncated = tr /\ d.rcv_nxt = rcv /\ d.rx = rx
  BY <1>2, <1>5 DEF ClientRecord, SameCall, ClientShape
<1> QED BY <1>6, Zenon DEF d

LEMMA WithFinIs ==
    ASSUME NEW c, ClientShape(c), NEW rcv
    PROVE  LET d == WithFin(c, rcv)
           IN  /\ SameCall(c, d) /\ d.established = c.established /\ d.finished
               /\ d.reset = c.reset /\ d.truncated = c.truncated /\ d.rcv_nxt = rcv /\ d.rx = c.rx
<1> DEFINE yes == TRUE
           d == WithFin(c, rcv)
           r1 == [c EXCEPT !.rcv_nxt = rcv]
           r2 == [r1 EXCEPT !.finished = yes]
<1>1. c = ClientRecord(c.active, c.established, c.finished, c.reset, c.truncated, c.src_port,
                       c.peer, c.snd_nxt, c.rcv_nxt, c.capacity, c.rx)
  BY Zenon DEF ClientShape, ClientRecord
<1>2. d = r2
  BY Zenon DEF WithFin
<1>3. yes
  OBVIOUS
<1> HIDE DEF d, yes
<1>4. r1 = ClientRecord(c.active, c.established, c.finished, c.reset, c.truncated, c.src_port,
                        c.peer, c.snd_nxt, rcv, c.capacity, c.rx)
  BY <1>1 DEF ClientRecord
<1> HIDE DEF r1
<1>5. r2 = ClientRecord(c.active, c.established, yes, c.reset, c.truncated, c.src_port,
                        c.peer, c.snd_nxt, rcv, c.capacity, c.rx)
  BY <1>4 DEF ClientRecord
<1> HIDE DEF r2
<1>6. /\ SameCall(c, d) /\ d.established = c.established /\ d.finished = yes
      /\ d.reset = c.reset /\ d.truncated = c.truncated /\ d.rcv_nxt = rcv /\ d.rx = c.rx
  BY <1>2, <1>5 DEF ClientRecord, SameCall, ClientShape
<1> QED BY <1>3, <1>6, Zenon DEF d

LEMMA WithSentIs ==
    ASSUME NEW c, ClientShape(c), NEW snd
    PROVE  LET d == WithSent(c, snd)
           IN  /\ SameCall(c, d) /\ d.established = c.established /\ d.finished = c.finished
               /\ d.reset = c.reset /\ d.truncated = c.truncated /\ d.rcv_nxt = c.rcv_nxt
               /\ d.rx = c.rx
<1> DEFINE d == WithSent(c, snd)
<1>1. c = ClientRecord(c.active, c.established, c.finished, c.reset, c.truncated, c.src_port,
                       c.peer, c.snd_nxt, c.rcv_nxt, c.capacity, c.rx)
  BY Zenon DEF ClientShape, ClientRecord
<1>2. d = [c EXCEPT !.snd_nxt = snd]
  BY Zenon DEF WithSent
<1> HIDE DEF d
<1>3. d = ClientRecord(c.active, c.established, c.finished, c.reset, c.truncated, c.src_port,
                       c.peer, snd, c.rcv_nxt, c.capacity, c.rx)
  BY <1>1, <1>2 DEF ClientRecord
<1>4. /\ SameCall(c, d) /\ d.established = c.established /\ d.finished = c.finished
      /\ d.reset = c.reset /\ d.truncated = c.truncated /\ d.rcv_nxt = c.rcv_nxt /\ d.rx = c.rx
  BY <1>3 DEF ClientRecord, SameCall, ClientShape
<1> QED BY <1>4, Zenon DEF d

LEMMA OpeningIs ==
    ASSUME NEW port, NEW peer, NEW isn, NEW capacity
    PROVE  LET d == Opening(port, peer, isn, capacity)
           IN  /\ ClientShape(d) /\ d.active /\ ~d.established /\ ~d.finished /\ ~d.truncated
               /\ d.truncated \in BOOLEAN /\ d.src_port = port /\ d.capacity = capacity /\ d.rx = <<>>
<1> DEFINE yes == TRUE
           no == FALSE
           zero == 0
           none == "none"
           empty == <<>>
           d == Opening(port, peer, isn, capacity)
           r1 == [NoClient EXCEPT !.active = yes]
           r2 == [r1 EXCEPT !.src_port = port]
           r3 == [r2 EXCEPT !.peer = peer]
           r4 == [r3 EXCEPT !.snd_nxt = isn]
           r5 == [r4 EXCEPT !.capacity = capacity]
<1>1. NoClient = ClientRecord(no, no, no, no, no, zero, none, zero, zero, zero, empty)
  BY Zenon DEF NoClient, ClientRecord
<1>2. d = r5
  BY Zenon DEF Opening
<1>3. yes /\ ~no /\ no \in BOOLEAN /\ empty = <<>>
  OBVIOUS
<1> HIDE DEF d, yes, no, zero, none, empty
<1>4. r1 = ClientRecord(yes, no, no, no, no, zero, none, zero, zero, zero, empty)
  BY <1>1 DEF ClientRecord
<1> HIDE DEF r1
<1>5. r2 = ClientRecord(yes, no, no, no, no, port, none, zero, zero, zero, empty)
  BY <1>4 DEF ClientRecord
<1> HIDE DEF r2
<1>6. r3 = ClientRecord(yes, no, no, no, no, port, peer, zero, zero, zero, empty)
  BY <1>5 DEF ClientRecord
<1> HIDE DEF r3
<1>7. r4 = ClientRecord(yes, no, no, no, no, port, peer, isn, zero, zero, empty)
  BY <1>6 DEF ClientRecord
<1> HIDE DEF r4
<1>8. r5 = ClientRecord(yes, no, no, no, no, port, peer, isn, zero, capacity, empty)
  BY <1>7 DEF ClientRecord
<1> HIDE DEF r5
<1>9. /\ ClientShape(d) /\ d.active = yes /\ d.established = no /\ d.finished = no
      /\ d.truncated = no /\ d.src_port = port /\ d.capacity = capacity /\ d.rx = empty
  BY <1>2, <1>8 DEF ClientRecord, ClientShape
<1> QED BY <1>3, <1>9, Zenon DEF d

LEMMA NoClientIs ==
    ClientShape(NoClient) /\ ~NoClient.active /\ NoClient.rx = <<>> /\ NoClient.capacity = 0
BY DEF NoClient, ClientShape

-----------------------------------------------------------------------------
(* What a segment does to the transfer.                                    *)

\* The room that is left, and how much of a piece is taken (room and kept of
\* Stored).
Room(rx, cap) == cap - Len(rx)
Overflows(rx, data, cap) == Len(data) > Room(rx, cap)
Taken(rx, data, cap) == IF Overflows(rx, data, cap) THEN Room(rx, cap) ELSE Len(data)

PieceTaken(p, cap, from, to, rx, data) ==
    /\ rx \o SubSeq(data, 1, Taken(rx, data, cap)) = Prefix(p, Kept(to, cap))
    /\ (DataOf(from) > cap \/ Overflows(rx, data, cap)) <=> DataOf(to) > cap
    /\ Len(data) = to - from

\* A piece that begins where the client is: what fits is appended, and all of
\* it is acknowledged.
LEMMA PieceArrives ==
    ASSUME NEW p, NEW cap \in Nat, NEW from \in 0 .. StreamLen, NEW to \in from .. StreamLen,
           NEW rx, rx = Prefix(p, Kept(from, cap)), NEW data, data = Bytes(p, from, to)
    PROVE  PieceTaken(p, cap, from, to, rx, data)
<1> DEFINE room == Room(rx, cap)
           kept == Taken(rx, data, cap)
<1>0. /\ room = cap - Len(rx) /\ kept = IF Len(data) > room THEN room ELSE Len(data)
      /\ Overflows(rx, data, cap) <=> Len(data) > room
  BY DEF Room, Taken, Overflows
<1> HIDE DEF room, kept
<1>1. from \in Nat /\ to \in Nat /\ from <= to /\ to <= StreamLen
  BY Constants
<1>2. DataOf(from) = from /\ DataOf(to) = to
  BY <1>1, Constants DEF DataOf
<1> DEFINE had == Kept(from, cap)
           has == Kept(to, cap)
<1>3. /\ had = IF from > cap THEN cap ELSE from
      /\ has = IF to > cap THEN cap ELSE to
      /\ had \in Nat /\ has \in Nat
  BY <1>1, <1>2 DEF Kept
<1> HIDE DEF had, has
<1>4. Len(data) = to - from
  BY <1>1, BytesAre
<1>7. rx \in Seq(BytesTo(p)) /\ Len(rx) = had
  <2>1. rx = Prefix(p, had)
    BY DEF had
  <2> QED BY <1>3, <2>1, PrefixIs
<1>8. CASE from > cap
  <2>1. room = 0 /\ kept = 0 /\ has = had
    BY <1>0, <1>1, <1>3, <1>4, <1>7, <1>8
  <2>2. SubSeq(data, 1, kept) = <<>>
    BY <2>1, SubSeqEmpty
  <2>3. rx \o SubSeq(data, 1, kept) = rx
    BY <1>7, <2>2, ConcatEmptySeq
  <2> QED BY <1>0, <1>1, <1>2, <1>4, <1>8, <2>1, <2>3 DEF had, has, kept, PieceTaken
<1>9. CASE from <= cap
  <2>1. had = from /\ room = cap - from
    BY <1>0, <1>1, <1>3, <1>7, <1>9
  <2>2. kept \in Nat /\ has <= to /\ has = from + kept
    BY <1>0, <1>1, <1>3, <1>4, <1>9, <2>1
  <2>3. Prefix(p, from) \o SubSeq(Bytes(p, from, to), 1, kept) = Prefix(p, has)
    BY <1>1, <2>2, BytesGrow, SMTT(30)
  <2>4. rx \o SubSeq(data, 1, kept) = Prefix(p, has)
    BY <2>1, <2>2, <2>3 DEF had
  <2> QED BY <1>0, <1>1, <1>2, <1>4, <1>9, <2>1, <2>4 DEF has, kept, PieceTaken
<1>10. from > cap \/ from <= cap
  BY <1>1
<1> QED BY <1>8, <1>9, <1>10, Zenon

\* A piece in order moves the client from its first to its last position.
LEMMA StoredIs ==
    ASSUME NEW c, ClientShape(c), c.capacity \in Nat, NEW iss \in 0 .. SeqSpace - 1,
           NEW from \in 0 .. StreamLen, NEW to \in from .. StreamLen, Reached(c, iss, from),
           NEW m, m.data = Bytes(c.src_port, from, to)
    PROVE  /\ SameCall(c, Stored(c, m)) /\ Stored(c, m).established = c.established
           /\ Stored(c, m).finished = c.finished /\ Stored(c, m).reset = c.reset
           /\ Reached(Stored(c, m), iss, to) \/ (~c.reset /\ c.finished)
<1> DEFINE over == Overflows(c.rx, m.data, c.capacity)
           rx == c.rx \o SubSeq(m.data, 1, Taken(c.rx, m.data, c.capacity))
           tr == c.truncated \/ over
           rcv == Plus(c.rcv_nxt, Len(m.data))
           d == Stored(c, m)
<1>1. d = WithData(c, rx, tr, rcv)
  BY Zenon DEF Stored, WithData, Taken, Overflows, Room
<1>2. from \in Nat /\ to \in Nat /\ from <= to /\ to <= StreamLen /\ from <= StreamLen
  BY Constants
<1>3. /\ c.rx = Prefix(c.src_port, Kept(from, c.capacity))
      /\ c.rcv_nxt = Plus(iss, 1 + from)
      /\ c.truncated <=> DataOf(from) > c.capacity
      /\ ~c.reset => (c.finished <=> from = StreamLen + 1)
  BY DEF Reached
<1>4. /\ rx = Prefix(c.src_port, Kept(to, c.capacity))
      /\ (DataOf(from) > c.capacity \/ over) <=> DataOf(to) > c.capacity
      /\ Len(m.data) = to - from
  <2> DEFINE cap == c.capacity
             had == c.rx
             data == m.data
             p == c.src_port
  <2>1. cap \in Nat /\ had = Prefix(p, Kept(from, cap)) /\ data = Bytes(p, from, to)
    BY <1>3
  <2> HIDE DEF cap, had, data, p
  <2>2. PieceTaken(p, cap, from, to, had, data)
    BY <2>1, PieceArrives
  <2> QED BY <2>2 DEF PieceTaken, cap, had, data, p
<1>5. rcv = Plus(iss, 1 + to)
  <2> DEFINE a == 1 + from
             n == to - from
             b == 1 + to
  <2>1. a \in Nat /\ n \in Nat /\ a + n < SeqSpace /\ a + n = b
    BY <1>2, Constants
  <2>2. rcv = Plus(Plus(iss, a), n)
    BY <1>3, <1>4
  <2> HIDE DEF a, n
  <2>3. Plus(Plus(iss, a), n) = Plus(iss, a + n)
    BY <2>1, PlusPlus
  <2> QED BY <2>1, <2>2, <2>3
<1>6. tr <=> DataOf(to) > c.capacity
  BY <1>3, <1>4
<1> HIDE DEF over, rx, tr, rcv
<1>7. /\ SameCall(c, d) /\ d.established = c.established /\ d.finished = c.finished
      /\ d.reset = c.reset /\ d.truncated = tr /\ d.rcv_nxt = rcv /\ d.rx = rx
  <2> HIDE DEF d
  <2> QED BY <1>1, WithDataIs
<1> HIDE DEF d
<1>8. d.capacity = c.capacity /\ d.src_port = c.src_port
  BY <1>7 DEF SameCall
<1>9. ~c.reset /\ ~c.finished => (d.finished <=> to = StreamLen + 1)
  BY <1>2, <1>7, Constants
<1>10. Reached(d, iss, to) \/ (~c.reset /\ c.finished)
  BY <1>4, <1>5, <1>6, <1>7, <1>8, <1>9 DEF Reached
<1> QED BY <1>7, <1>10 DEF d

\* truncated is a flag, whatever is stored.
LEMMA StoredFlag ==
    ASSUME NEW c, ClientShape(c), NEW m
    PROVE  Stored(c, m).truncated \in BOOLEAN
<1> DEFINE rx == c.rx \o SubSeq(m.data, 1, Taken(c.rx, m.data, c.capacity))
           tr == c.truncated \/ Overflows(c.rx, m.data, c.capacity)
           rcv == Plus(c.rcv_nxt, Len(m.data))
           d == Stored(c, m)
<1>1. d = WithData(c, rx, tr, rcv)
  BY Zenon DEF Stored, WithData, Taken, Overflows, Room
<1>2. tr \in BOOLEAN
  BY Zenon
<1> HIDE DEF d, rx, tr, rcv
<1>3. d.truncated = tr
  BY <1>1, WithDataIs
<1> QED BY <1>2, <1>3 DEF d

\* A segment without data leaves the transfer where it is.
LEMMA NothingStored ==
    ASSUME NEW c, ClientShape(c), c.capacity \in Nat, NEW iss \in 0 .. SeqSpace - 1,
           NEW k \in 0 .. StreamLen + 1, Reached(c, iss, k), NEW m, m.data = <<>>
    PROVE  /\ SameCall(c, Stored(c, m)) /\ Stored(c, m).established = c.established
           /\ Reached(Stored(c, m), iss, k)
<1> DEFINE over == Overflows(c.rx, m.data, c.capacity)
           rx == c.rx \o SubSeq(m.data, 1, Taken(c.rx, m.data, c.capacity))
           tr == c.truncated \/ over
           rcv == Plus(c.rcv_nxt, Len(m.data))
           d == Stored(c, m)
           had == Kept(k, c.capacity)
<1>1. d = WithData(c, rx, tr, rcv)
  BY Zenon DEF Stored, WithData, Taken, Overflows, Room
<1>2. had \in Nat /\ had <= c.capacity
  BY Constants DEF Kept, DataOf
<1>3. c.rx = Prefix(c.src_port, had) /\ c.rcv_nxt = Plus(iss, 1 + k)
  BY DEF Reached
<1> HIDE DEF had
<1>4. c.rx \in Seq(BytesTo(c.src_port)) /\ Len(c.rx) = had
  BY <1>2, <1>3, PrefixIs
<1>5. Len(m.data) = 0
  OBVIOUS
<1>6. ~over /\ Taken(c.rx, m.data, c.capacity) = 0
  BY <1>2, <1>4, <1>5 DEF Overflows, Taken, Room
<1>7. SubSeq(m.data, 1, Taken(c.rx, m.data, c.capacity)) = <<>>
  BY <1>6, SubSeqEmpty
<1>8. rx = c.rx
  BY <1>4, <1>7, ConcatEmptySeq
<1>9. rcv = c.rcv_nxt
  <2> DEFINE j == 1 + k
             x == c.rcv_nxt
  <2>1. j \in 0 .. SeqSpace - 1
    BY Constants
  <2> HIDE DEF j
  <2>2. Plus(iss, j) \in 0 .. SeqSpace - 1
    BY <2>1, PlusIs
  <2>3. x \in 0 .. SeqSpace - 1
    BY <1>3, <2>2 DEF j
  <2> HIDE DEF x
  <2>4. 0 \in 0 .. SeqSpace - 1 /\ x + 0 = x /\ x < SeqSpace
    BY <2>3, Constants
  <2>5. Plus(x, 0) = x
    BY <2>3, <2>4, PlusIs
  <2> QED BY <1>5, <2>5 DEF x
<1>10. tr <=> c.truncated
  BY <1>6
<1> HIDE DEF rx, tr, rcv, over
<1>11. /\ SameCall(c, d) /\ d.established = c.established /\ d.finished = c.finished
       /\ d.reset = c.reset /\ d.truncated = tr /\ d.rcv_nxt = rcv /\ d.rx = rx
  <2> HIDE DEF d
  <2> QED BY <1>1, WithDataIs
<1> HIDE DEF d
<1>12. d.capacity = c.capacity /\ d.src_port = c.src_port
  BY <1>11 DEF SameCall
<1>13. Reached(d, iss, k)
  BY <1>8, <1>9, <1>10, <1>11, <1>12 DEF Reached
<1> QED BY <1>11, <1>13 DEF d

\* tcp_client_handle_segment by its branches.
LEMMA HandledIs ==
    ASSUME NEW c, NEW m
    PROVE  LET d == tcp_client_handle_segment(c, m)
               s == Stored(c, m)
           IN  /\ "RST" \in m.flags => d = WithReset(c)
               /\ "RST" \notin m.flags /\ ~c.established =>
                     IF SynAck(m, c.snd_nxt) THEN d = WithPeer(c, Plus(m.seq, 1)) ELSE d = c
               /\ "RST" \notin m.flags /\ c.established =>
                     IF ~InOrder(c, m) THEN d = c
                     ELSE IF "FIN" \in m.flags THEN d = WithFin(s, Plus(s.rcv_nxt, 1))
                     ELSE d = s
BY Zenon DEF tcp_client_handle_segment, WithReset, WithPeer, WithFin

\* A piece of the response, with FIN or without.
LEMMA PieceHandled ==
    ASSUME NEW c, ClientShape(c), c.capacity \in Nat, c.src_port \in Ports,
           c.truncated \in BOOLEAN,
           NEW iss \in 0 .. SeqSpace - 1,
           NEW k \in 0 .. StreamLen + 1, Reached(c, iss, k), c.established,
           NEW m, NEW cut \in Cuts, m.flags = cut.flags, m.seq = Plus(iss, 1 + cut.from),
           m.data = Bytes(c.src_port, cut.from, cut.to)
    PROVE  LET d == tcp_client_handle_segment(c, m)
           IN  SameCall(c, d) /\ d.established /\ Transfer(d, iss)
<1> DEFINE d == tcp_client_handle_segment(c, m)
           s == Stored(c, m)
           from == cut.from
           to == cut.to
<1>1. /\ from \in 0 .. StreamLen /\ to \in from .. StreamLen /\ "RST" \notin m.flags
      /\ "FIN" \in m.flags => to = StreamLen
  BY Constants DEF Cuts
<1>2. IF ~InOrder(c, m) THEN d = c
      ELSE IF "FIN" \in m.flags THEN d = WithFin(s, Plus(s.rcv_nxt, 1))
      ELSE d = s
  BY <1>1, HandledIs, Zenon
<1>3. CASE ~InOrder(c, m)
  <2>1. d = c
    BY <1>2, <1>3, Zenon
  <2>2. SameCall(c, d) /\ d.established
    BY <2>1 DEF SameCall
  <2>3. Transfer(d, iss)
    BY <2>1 DEF Transfer
  <2> QED BY <2>2, <2>3
<1>4. CASE InOrder(c, m)
  <2>1. from = k
    <3> DEFINE i == 1 + from
               j == 1 + k
    <3>1. i \in 0 .. SeqSpace - 1 /\ j \in 0 .. SeqSpace - 1
      BY <1>1, Constants
    <3>2. Plus(iss, i) = Plus(iss, j)
      BY <1>4 DEF InOrder, Reached
    <3> HIDE DEF i, j
    <3>3. i = j
      BY <3>1, <3>2, PlusDiffers
    <3> QED BY <1>1, <3>3 DEF i, j
  <2>2. Reached(c, iss, from) /\ (~c.reset => ~c.finished)
    BY <1>1, <2>1, Constants DEF Reached
  <2>3. m.data = Bytes(c.src_port, from, to)
    OBVIOUS
  <2> HIDE DEF from, to
  <2>4. /\ SameCall(c, s) /\ s.established = c.established
        /\ s.finished = c.finished /\ s.reset = c.reset
        /\ Reached(s, iss, to) \/ (~c.reset /\ c.finished)
    <3> HIDE DEF s
    <3> QED BY <1>1, <2>2, <2>3, StoredIs, ZenonT(30) DEF s
  <2>5. Reached(s, iss, to) /\ s.truncated \in BOOLEAN
    BY <2>2, <2>4, StoredFlag
  <2> HIDE DEF s
  <2>6. s.src_port \in Ports /\ s.capacity \in Nat /\ ClientShape(s) /\ s.src_port = c.src_port
    BY <2>4 DEF SameCall
  <2>7. CASE "FIN" \notin m.flags
    <3>1. d = s
      BY <1>2, <1>4, <2>7, Zenon
    <3>2. to \in 0 .. StreamLen + 1
      BY <1>1, Constants
    <3>3. Transfer(s, iss)
      BY <2>4, <2>5, <2>6, <3>2, Zenon DEF Transfer
    <3> QED BY <2>4, <3>1, <3>3
  <2>8. CASE "FIN" \in m.flags
    <3> DEFINE rcv == Plus(s.rcv_nxt, 1)
               last == StreamLen + 1
    <3>1. d = WithFin(s, rcv)
      BY <1>2, <1>4, <2>8, Zenon
    <3>2. rcv = Plus(iss, 1 + last)
      <4> DEFINE a == 1 + to
                 one == 1
      <4>1. a \in Nat /\ one \in Nat /\ a + one < SeqSpace /\ a + one = 1 + last
        BY <1>1, <2>8, Constants
      <4>2. rcv = Plus(Plus(iss, a), one)
        BY <2>5 DEF Reached
      <4> HIDE DEF a, one
      <4>3. Plus(Plus(iss, a), one) = Plus(iss, a + one)
        BY <4>1, PlusPlus
      <4> QED BY <4>1, <4>2, <4>3
    <3>3. /\ DataOf(last) = DataOf(to) /\ last \in 0 .. StreamLen + 1
          /\ Kept(last, s.capacity) = Kept(to, s.capacity)
      BY <1>1, <2>8, Constants DEF DataOf, Kept
    <3> HIDE DEF rcv
    <3>4. /\ SameCall(s, d) /\ d.established = s.established /\ d.finished
          /\ d.reset = s.reset /\ d.truncated = s.truncated /\ d.rcv_nxt = rcv /\ d.rx = s.rx
      <4> HIDE DEF d
      <4> QED BY <2>6, <3>1, WithFinIs
    <3> HIDE DEF d
    <3>5. d.src_port = s.src_port /\ d.capacity = s.capacity
      BY <3>4 DEF SameCall
    <3>6. Reached(d, iss, last)
      BY <2>5, <3>2, <3>3, <3>4, <3>5 DEF Reached
    <3> HIDE DEF last
    <3>7. Transfer(d, iss)
      BY <2>4, <2>5, <2>6, <3>3, <3>4, <3>5, <3>6, Zenon DEF Transfer
    <3>8. SameCall(c, d)
      BY <2>4, <3>4 DEF SameCall
    <3> QED BY <2>4, <3>4, <3>7, <3>8 DEF d
  <2> QED BY <2>7, <2>8
<1> QED BY <1>3, <1>4

\* Whatever segment of its connection reaches the client.
LEMMA SegmentHandled ==
    ASSUME NEW c, ClientShape(c), NEW s, s.iss \in 0 .. SeqSpace - 1, Transfer(c, s.iss),
           NEW m, SegmentOf(m, c.src_port, s) \/ (m.flags = {"SYN"} /\ m.data = <<>>)
    PROVE  LET d == tcp_client_handle_segment(c, m)
           IN  /\ SameCall(c, d) /\ Transfer(d, s.iss)
               /\ d.established => c.established \/ s.opened
<1> DEFINE d == tcp_client_handle_segment(c, m)
           iss == s.iss
<1>0. iss \in 0 .. SeqSpace - 1 /\ Transfer(c, iss)
  OBVIOUS
<1> HIDE DEF iss
<1>1. c.src_port \in Ports /\ c.capacity \in Nat /\ c.truncated \in BOOLEAN
  BY <1>0 DEF Transfer
<1>2. CASE "RST" \in m.flags
  <2>1. d = WithReset(c)
    BY <1>2, HandledIs, Zenon
  <2>2. /\ SameCall(c, d) /\ d.established = c.established /\ d.finished /\ d.reset
        /\ d.truncated = c.truncated /\ d.rcv_nxt = c.rcv_nxt /\ d.rx = c.rx
    <3> HIDE DEF d
    <3> QED BY <2>1, WithResetIs
  <2> HIDE DEF d
  <2>3. d.src_port = c.src_port /\ d.capacity = c.capacity
    BY <2>2 DEF SameCall
  <2>4. \A k \in 0 .. StreamLen + 1 : Reached(c, iss, k) => Reached(d, iss, k)
    BY <2>2, <2>3, Zenon DEF Reached
  <2>5. Transfer(d, iss)
    BY <1>0, <2>2, <2>3, <2>4, Zenon DEF Transfer
  <2> QED BY <2>2, <2>5 DEF d, iss
<1>3. CASE "RST" \notin m.flags /\ ~c.established
  <2>1. IF SynAck(m, c.snd_nxt) THEN d = WithPeer(c, Plus(m.seq, 1)) ELSE d = c
    BY <1>3, HandledIs, Zenon
  <2>2. CASE ~SynAck(m, c.snd_nxt)
    <3>1. d = c
      BY <2>1, <2>2, Zenon
    <3> HIDE DEF d
    <3>2. SameCall(c, d) /\ Transfer(d, iss)
      BY <1>0, <3>1 DEF SameCall
    <3> QED BY <3>1, <3>2, Zenon DEF d, iss
  <2>3. CASE SynAck(m, c.snd_nxt)
    <3> DEFINE rcv == Plus(m.seq, 1)
    <3>1. d = WithPeer(c, rcv)
      BY <2>1, <2>3, Zenon
    <3>2. "SYN" \in m.flags /\ "ACK" \in m.flags
      BY <2>3 DEF SynAck
    <3>3. m.seq = iss /\ s.opened
      <4>1. \A cut \in Cuts : "SYN" \notin cut.flags
        BY DEF Cuts
      <4> QED BY <1>3, <3>2, <4>1 DEF SegmentOf, iss
    <3>4. rcv = Plus(iss, 1 + 0)
      BY <3>3
    <3> HIDE DEF rcv
    <3>5. /\ SameCall(c, d) /\ d.established /\ d.finished = c.finished /\ d.reset = c.reset
          /\ d.truncated = c.truncated /\ d.rcv_nxt = rcv /\ d.rx = c.rx
      <4> HIDE DEF d
      <4> QED BY <3>1, WithPeerIs
    <3> HIDE DEF d
    <3>6. d.src_port = c.src_port /\ d.capacity = c.capacity
      BY <3>5 DEF SameCall
    <3>7. c.rx = <<>> /\ ~c.truncated /\ (~c.reset => ~c.finished)
      BY <1>0, <1>3 DEF Transfer
    <3>8. Kept(0, d.capacity) = 0 /\ DataOf(0) = 0 /\ ~(0 > d.capacity) /\ 0 # StreamLen + 1
      BY <1>1, <3>6, Constants DEF Kept, DataOf
    <3>9. Reached(d, iss, 0)
      <4>1. d.rx = Prefix(d.src_port, Kept(0, d.capacity))
        BY <3>5, <3>7, <3>8, NoBytes
      <4>2. d.rcv_nxt = Plus(iss, 1 + 0)
        BY <3>4, <3>5
      <4>3. (d.truncated <=> DataOf(0) > d.capacity)
        BY <3>5, <3>7, <3>8
      <4>4. ~d.reset => (d.finished <=> 0 = StreamLen + 1)
        BY <3>5, <3>7, <3>8
      <4> QED BY <4>1, <4>2, <4>3, <4>4, Zenon DEF Reached
    <3>10. 0 \in 0 .. StreamLen + 1
      BY Constants
    <3>11. Transfer(d, iss)
      BY <1>1, <3>5, <3>6, <3>9, <3>10, Zenon DEF Transfer
    <3> QED BY <3>3, <3>5, <3>11, Zenon DEF d, iss
  <2> QED BY <2>2, <2>3, Zenon
<1>4. CASE "RST" \notin m.flags /\ c.established
  <2>1. PICK k \in 0 .. StreamLen + 1 : Reached(c, iss, k)
    BY <1>0, <1>4 DEF Transfer
  <2>2. CASE m.data = <<>> /\ "FIN" \notin m.flags
    <3>1. IF ~InOrder(c, m) THEN d = c ELSE d = Stored(c, m)
      BY <1>4, <2>2, HandledIs, Zenon
    <3>2. /\ SameCall(c, Stored(c, m)) /\ Stored(c, m).established = c.established
          /\ Reached(Stored(c, m), iss, k)
      BY <1>0, <1>1, <2>1, <2>2, NothingStored
    <3>3. ClientShape(c) /\ SameCall(c, c)
      BY DEF SameCall
    <3>4. /\ SameCall(c, d) /\ d.established = c.established /\ Reached(d, iss, k)
          /\ d.truncated \in BOOLEAN
      BY <1>1, <2>1, <3>1, <3>2, <3>3, StoredFlag, Zenon
    <3> HIDE DEF d
    <3>5. d.src_port = c.src_port /\ d.capacity = c.capacity
      BY <3>4 DEF SameCall
    <3>6. Transfer(d, iss)
      BY <1>1, <1>4, <3>4, <3>5, Zenon DEF Transfer
    <3> QED BY <1>4, <3>4, <3>6, Zenon DEF d, iss
  <2>3. CASE ~(m.data = <<>> /\ "FIN" \notin m.flags)
    <3>1. PICK cut \in Cuts : /\ m.flags = cut.flags /\ m.seq = Plus(s.iss, 1 + cut.from)
                              /\ m.data = Bytes(c.src_port, cut.from, cut.to)
      BY <1>4, <2>3 DEF SegmentOf
    <3>2. SameCall(c, d) /\ d.established /\ Transfer(d, iss)
      BY <1>0, <1>1, <1>4, <2>1, <3>1, PieceHandled DEF iss
    <3> QED BY <1>4, <3>2, Zenon DEF iss
  <2> QED BY <2>2, <2>3, Zenon
<1> QED BY <1>2, <1>3, <1>4, Zenon

-----------------------------------------------------------------------------
(* The steps.                                                              *)

\* Every step of the client's side keeps the peers as they are.
LEMMA PeersRest == PeersSound /\ UNCHANGED server => PeersSound'
BY DEF PeersSound

\* What the invariant says of the calls stays true when the peers move on.
LEMMA CallsKeep ==
    ASSUME IInv, PeersSound', \A q \in Ports : Later(server[q], server'[q]),
           UNCHANGED <<g_tcp_client, g_tcp_probe_state, g_tcp_src_port, pc, result>>
    PROVE  IInv'
<1>1. \A q \in Ports : PeerSound(server[q])
  BY DEF IInv, PeersSound
<1>2. \A q \in Ports :
         /\ server[q].opened => server'[q].opened /\ server'[q].iss = server[q].iss
         /\ server[q].aborted => server'[q].aborted
  BY <1>1 DEF PeerSound, Later
<1> DEFINE c == g_tcp_client
<1>3. ClientSound'
  <2>1. c' = c /\ pc' = pc
    OBVIOUS
  <2>2. /\ ClientShape(c) /\ (~c.active => c = NoClient)
        /\ c.active => /\ pc \in {"connect", "response"}
                       /\ Transfer(c, server[c.src_port].iss)
                       /\ c.established => server[c.src_port].opened
    BY DEF IInv, ClientSound
  <2>3. ASSUME c.active
        PROVE  /\ Transfer(c, server'[c.src_port].iss)
               /\ c.established => server'[c.src_port].opened
    <3>1. c.src_port \in Ports
      BY <2>2, <2>3 DEF Transfer
    <3>2. CASE c.established
      <4>1. server'[c.src_port].iss = server[c.src_port].iss /\ server'[c.src_port].opened
        BY <1>2, <2>2, <2>3, <3>1, <3>2
      <4> QED BY <2>2, <2>3, <4>1
    <3>3. CASE ~c.established
      BY <2>2, <2>3, <3>3, Zenon DEF Transfer
    <3> QED BY <3>2, <3>3
  <2> HIDE DEF c
  <2>4. /\ ClientShape(c') /\ (~c'.active => c' = NoClient)
        /\ c'.active => /\ pc' \in {"connect", "response"}
                        /\ Transfer(c', server'[c'.src_port].iss)
                        /\ c'.established => server'[c'.src_port].opened
    BY <2>1, <2>2, <2>3
  <2> QED BY <2>4, Zenon DEF ClientSound, c
<1>4. ProbeSound'
  <2> DEFINE b == g_tcp_probe_state
  <2>1. /\ b = [waiting |-> b.waiting, received |-> b.received, open |-> b.open,
                src_port |-> b.src_port, peer |-> b.peer, sequence |-> b.sequence]
        /\ b.waiting => b.src_port \in Ports
        /\ b.received =>
              /\ b.src_port \in Ports
              /\ (b.open = (b.peer \in Listening)) \/ server[b.src_port].aborted
    BY Zenon DEF IInv, ProbeSound
  <2>2. b.received => (b.open = (b.peer \in Listening)) \/ server'[b.src_port].aborted
    BY <1>2, <2>1
  <2>3. b' = b
    OBVIOUS
  <2> QED BY <2>1, <2>2, <2>3, Zenon DEF ProbeSound
<1>5. GetSound'
  BY DEF IInv, GetSound
<1>6. AnswerSound'
  BY <1>2 DEF IInv, AnswerSound
<1> QED BY <1>3, <1>4, <1>5, <1>6 DEF IInv

\* Parts of the invariant that a step leaves alone.
LEMMA ResultRests ==
    ASSUME IInv, UNCHANGED <<result, server>>
    PROVE  GetSound' /\ AnswerSound'
BY DEF IInv, GetSound, AnswerSound

LEMMA ProbeRests ==
    ASSUME IInv, UNCHANGED <<g_tcp_probe_state, server>>
    PROVE  ProbeSound'
BY Zenon DEF IInv, ProbeSound

LEMMA ClientRests ==
    ASSUME IInv, UNCHANGED <<g_tcp_client, server>>, pc' = pc \/ pc \in {"idle", "probe"}
    PROVE  ClientSound'
<1> DEFINE c == g_tcp_client
<1>1. /\ ClientShape(c) /\ (~c.active => c = NoClient)
      /\ c.active => /\ pc \in {"connect", "response"}
                     /\ Transfer(c, server[c.src_port].iss)
                     /\ c.established => server[c.src_port].opened
  BY DEF IInv, ClientSound
<1>2. c' = c /\ server' = server
  OBVIOUS
<1> HIDE DEF c
<1>3. c.active => pc' = pc
  BY <1>1
<1> QED BY <1>1, <1>2, <1>3, Zenon DEF ClientSound, c

LEMMA ClientGone ==
    ASSUME g_tcp_client' = NoClient
    PROVE  ClientSound'
BY NoClientIs, Zenon DEF ClientSound

\* Records of a probe.
ProbeShape(b) ==
    b = [waiting |-> b.waiting, received |-> b.received, open |-> b.open,
         src_port |-> b.src_port, peer |-> b.peer, sequence |-> b.sequence]
Answered(b, open) == [b EXCEPT !.received = TRUE, !.open = open]
Over(b) == [b EXCEPT !.waiting = FALSE]
Probing(port, peer, isn) ==
    [NoProbe EXCEPT !.waiting = TRUE, !.src_port = port, !.peer = peer, !.sequence = isn]

LEMMA AnsweredIs ==
    ASSUME NEW b, ProbeShape(b), NEW open
    PROVE  /\ ProbeShape(Answered(b, open)) /\ Answered(b, open).waiting = b.waiting
           /\ Answered(b, open).open = open /\ Answered(b, open).src_port = b.src_port
           /\ Answered(b, open).peer = b.peer
<1> DEFINE yes == TRUE
           d == Answered(b, open)
           r1 == [b EXCEPT !.received = yes]
           r2 == [r1 EXCEPT !.open = open]
<1>1. b = [waiting |-> b.waiting, received |-> b.received, open |-> b.open,
           src_port |-> b.src_port, peer |-> b.peer, sequence |-> b.sequence]
  BY Zenon DEF ProbeShape
<1>2. d = r2
  BY Zenon DEF Answered
<1> HIDE DEF d, yes
<1>3. r1 = [waiting |-> b.waiting, received |-> yes, open |-> b.open,
            src_port |-> b.src_port, peer |-> b.peer, sequence |-> b.sequence]
  BY <1>1
<1> HIDE DEF r1
<1>4. r2 = [waiting |-> b.waiting, received |-> yes, open |-> open,
            src_port |-> b.src_port, peer |-> b.peer, sequence |-> b.sequence]
  BY <1>3
<1> HIDE DEF r2
<1>5. /\ ProbeShape(d) /\ d.waiting = b.waiting /\ d.open = open /\ d.src_port = b.src_port
      /\ d.peer = b.peer
  BY <1>2, <1>4 DEF ProbeShape
<1> QED BY <1>5 DEF d

LEMMA OverIs ==
    ASSUME NEW b, ProbeShape(b)
    PROVE  /\ ProbeShape(Over(b)) /\ ~Over(b).waiting /\ Over(b).received = b.received
           /\ Over(b).open = b.open /\ Over(b).src_port = b.src_port /\ Over(b).peer = b.peer
<1> DEFINE no == FALSE
           d == Over(b)
<1>1. b = [waiting |-> b.waiting, received |-> b.received, open |-> b.open,
           src_port |-> b.src_port, peer |-> b.peer, sequence |-> b.sequence]
  BY Zenon DEF ProbeShape
<1>2. d = [b EXCEPT !.waiting = no]
  BY Zenon DEF Over
<1>3. ~no
  OBVIOUS
<1> HIDE DEF d, no
<1>4. d = [waiting |-> no, received |-> b.received, open |-> b.open,
           src_port |-> b.src_port, peer |-> b.peer, sequence |-> b.sequence]
  BY <1>1, <1>2
<1>5. /\ ProbeShape(d) /\ d.waiting = no /\ d.received = b.received
      /\ d.open = b.open /\ d.src_port = b.src_port /\ d.peer = b.peer
  BY <1>4 DEF ProbeShape
<1> QED BY <1>3, <1>5, Zenon DEF d

LEMMA ProbingIs ==
    ASSUME NEW port, NEW peer, NEW isn
    PROVE  /\ ProbeShape(Probing(port, peer, isn)) /\ ~Probing(port, peer, isn).received
           /\ Probing(port, peer, isn).src_port = port
<1> DEFINE yes == TRUE
           no == FALSE
           zero == 0
           none == "none"
           d == Probing(port, peer, isn)
           r1 == [NoProbe EXCEPT !.waiting = yes]
           r2 == [r1 EXCEPT !.src_port = port]
           r3 == [r2 EXCEPT !.peer = peer]
           r4 == [r3 EXCEPT !.sequence = isn]
<1>1. NoProbe = [waiting |-> no, received |-> no, open |-> no, src_port |-> zero,
                 peer |-> none, sequence |-> zero]
  BY Zenon DEF NoProbe
<1>2. d = r4
  BY Zenon DEF Probing
<1>3. ~no
  OBVIOUS
<1> HIDE DEF d, yes, no, zero, none
<1>4. r1 = [waiting |-> yes, received |-> no, open |-> no, src_port |-> zero,
            peer |-> none, sequence |-> zero]
  BY <1>1
<1> HIDE DEF r1
<1>5. r2 = [waiting |-> yes, received |-> no, open |-> no, src_port |-> port,
            peer |-> none, sequence |-> zero]
  BY <1>4
<1> HIDE DEF r2
<1>6. r3 = [waiting |-> yes, received |-> no, open |-> no, src_port |-> port,
            peer |-> peer, sequence |-> zero]
  BY <1>5
<1> HIDE DEF r3
<1>7. r4 = [waiting |-> yes, received |-> no, open |-> no, src_port |-> port,
            peer |-> peer, sequence |-> isn]
  BY <1>6
<1> HIDE DEF r4
<1>8. ProbeShape(d) /\ d.received = no /\ d.src_port = port
  BY <1>2, <1>7 DEF ProbeShape
<1> QED BY <1>3, <1>8, Zenon DEF d

\* A frame with a segment of a peer, or of a stranger, is handled.
LEMMA HandleKeeps ==
    ASSUME IInv, NEW m, net_handle_tcp(m),
           \/ \E p \in Ports : m \in InFlight(p)
           \/ m = StraySyn
    PROVE  IInv'
<1> DEFINE c == g_tcp_client
           b == g_tcp_probe_state
<1>1. /\ UNCHANGED <<g_tcp_src_port, pc, last_rx_length, result, calls, server>>
      /\ \/ ProbeReset(m) /\ b' = Answered(b, FALSE) /\ UNCHANGED g_tcp_client
         \/ ProbeOpen(m) /\ b' = Answered(b, TRUE) /\ UNCHANGED g_tcp_client
         \/ /\ tcp_client_matches(m) /\ c' = tcp_client_handle_segment(c, m)
            /\ UNCHANGED g_tcp_probe_state
         \/ UNCHANGED <<g_tcp_client, g_tcp_probe_state>>
  BY Zenon DEF net_handle_tcp, Answered
<1>2. PeersSound' /\ GetSound' /\ AnswerSound' /\ g_tcp_src_port' \in Ports
  BY <1>1, ResultRests, PeersRest DEF IInv
<1>3. /\ StraySyn.flags = {"SYN"} /\ StraySyn.data = <<>>
  BY DEF StraySyn
<1>4. \/ /\ m.port \in Ports /\ m.peer = server[m.port].peer
         /\ SegmentOf(m, m.port, server[m.port])
      \/ (m.flags = {"SYN"} /\ m.data = <<>>)
  BY <1>3, InFlightIs
<1>5. \A p \in Ports : PeerSound(server[p])
  BY DEF IInv, PeersSound
<1>6. /\ ProbeShape(b) /\ (b.waiting => b.src_port \in Ports)
      /\ b.received =>
            /\ b.src_port \in Ports
            /\ (b.open = (b.peer \in Listening)) \/ server[b.src_port].aborted
  BY Zenon DEF IInv, ProbeSound, ProbeShape
<1>7. \A cut \in Cuts : cut.flags = {"ACK"} \/ cut.flags = {"ACK", "FIN"}
  BY DEF Cuts
<1>8. CASE ProbeReset(m) /\ b' = Answered(b, FALSE) /\ UNCHANGED g_tcp_client
  <2>1. m.peer = b.peer /\ m.port = b.src_port /\ "RST" \in m.flags /\ b.waiting
    BY <1>8 DEF ProbeReset, ProbeMatches
  <2>2. server[m.port].refused \/ server[m.port].aborted
    BY <1>4, <1>7, <2>1 DEF SegmentOf
  <2>3. /\ b.src_port \in Ports
        /\ server[b.src_port].refused => b.peer \notin Listening
    <3>1. b.src_port \in Ports
      BY <1>6, <2>1
    <3>2. m.peer = server[m.port].peer
      BY <1>4, <2>1
    <3> QED BY <1>5, <2>1, <3>1, <3>2 DEF PeerSound
  <2> DEFINE no == FALSE
             d == Answered(b, no)
  <2>4. b' = d
    BY <1>8
  <2>5. no = FALSE
    OBVIOUS
  <2> HIDE DEF no
  <2>6. /\ ProbeShape(d) /\ d.waiting = b.waiting /\ d.open = no
        /\ d.src_port = b.src_port /\ d.peer = b.peer
    <3> HIDE DEF b
    <3> QED BY <1>6, AnsweredIs
  <2> HIDE DEF d
  <2>7. (d.open = (d.peer \in Listening)) \/ server[d.src_port].aborted
    <3>1. server[d.src_port].refused \/ server[d.src_port].aborted
      BY <2>1, <2>2, <2>6
    <3>2. server[d.src_port].refused => d.peer \notin Listening
      BY <2>3, <2>6
    <3>3. d.peer \notin Listening => d.open = (d.peer \in Listening)
      <4>1. d.open = FALSE
        BY <2>5, <2>6
      <4>2. d.peer \notin Listening => (d.peer \in Listening) = FALSE
        OBVIOUS
      <4> QED BY <4>1, <4>2, Zenon
    <3> QED BY <3>1, <3>2, <3>3, Zenon
  <2>8. d.src_port \in Ports /\ server' = server
    BY <1>1, <2>3, <2>6
  <2>9. ProbeSound'
    BY <2>4, <2>6, <2>7, <2>8, Zenon DEF ProbeSound, ProbeShape
  <2>10. ClientSound'
    BY <1>1, <1>8, ClientRests
  <2> QED BY <1>2, <2>9, <2>10 DEF IInv
<1>9. CASE ProbeOpen(m) /\ b' = Answered(b, TRUE) /\ UNCHANGED g_tcp_client
  <2>1. /\ m.peer = b.peer /\ m.port = b.src_port /\ b.waiting
        /\ "SYN" \in m.flags /\ "ACK" \in m.flags /\ "RST" \notin m.flags
    BY <1>9 DEF ProbeOpen, ProbeMatches, SynAck
  <2>2. server[m.port].opened /\ m.peer = server[m.port].peer
    BY <1>4, <1>7, <2>1 DEF SegmentOf
  <2>3. b.src_port \in Ports /\ b.peer \in Listening
    <3>1. b.src_port \in Ports
      BY <1>6, <2>1
    <3> QED BY <1>5, <2>1, <2>2, <3>1 DEF PeerSound
  <2> DEFINE yes == TRUE
             d == Answered(b, yes)
  <2>4. b' = d
    BY <1>9
  <2>5. yes = TRUE
    OBVIOUS
  <2> HIDE DEF yes
  <2>6. /\ ProbeShape(d) /\ d.waiting = b.waiting /\ d.open = yes
        /\ d.src_port = b.src_port /\ d.peer = b.peer
    <3> HIDE DEF b
    <3> QED BY <1>6, AnsweredIs
  <2> HIDE DEF d
  <2>7. d.open = (d.peer \in Listening)
    BY <2>3, <2>5, <2>6, Zenon
  <2>8. d.src_port \in Ports
    BY <2>3, <2>6
  <2>9. ProbeSound'
    BY <2>4, <2>6, <2>7, <2>8, Zenon DEF ProbeSound, ProbeShape
  <2>10. ClientSound'
    BY <1>1, <1>9, ClientRests
  <2> QED BY <1>2, <2>9, <2>10 DEF IInv
<1>10. CASE /\ tcp_client_matches(m) /\ c' = tcp_client_handle_segment(c, m)
            /\ UNCHANGED g_tcp_probe_state
  <2> DEFINE p == c.src_port
             s == server[p]
             d == tcp_client_handle_segment(c, m)
  <2>1. c.active /\ m.port = p
    BY <1>10 DEF tcp_client_matches
  <2>2. /\ ClientShape(c) /\ pc \in {"connect", "response"} /\ Transfer(c, s.iss)
        /\ c.established => s.opened
    BY <2>1 DEF IInv, ClientSound
  <2>3. p \in Ports
    BY <2>2 DEF Transfer
  <2>4. s.iss \in 0 .. SeqSpace - 1
    BY <1>5, <2>3 DEF PeerSound
  <2>5. SegmentOf(m, c.src_port, s) \/ (m.flags = {"SYN"} /\ m.data = <<>>)
    BY <1>4, <2>1
  <2>6. SameCall(c, d) /\ Transfer(d, s.iss) /\ (d.established => c.established \/ s.opened)
    <3> HIDE DEF s, c
    <3> QED BY <2>2, <2>4, <2>5, SegmentHandled
  <2>7. c' = d /\ server' = server /\ pc' = pc
    BY <1>1, <1>10
  <2> HIDE DEF d
  <2>8. ClientShape(d) /\ d.active = c.active /\ d.src_port = c.src_port
    BY <2>6 DEF SameCall
  <2>9. /\ ClientShape(c') /\ c'.active /\ pc' \in {"connect", "response"}
        /\ Transfer(c', server'[c'.src_port].iss)
        /\ c'.established => server'[c'.src_port].opened
    BY <2>1, <2>2, <2>6, <2>7, <2>8
  <2>10. ClientSound'
    BY <2>9, Zenon DEF ClientSound
  <2>11. ProbeSound'
    BY <1>1, <1>10, ProbeRests
  <2> QED BY <1>2, <2>10, <2>11 DEF IInv
<1>11. CASE UNCHANGED <<g_tcp_client, g_tcp_probe_state>>
  <2>1. ClientSound' /\ ProbeSound'
    BY <1>1, <1>11, ClientRests, ProbeRests
  <2> QED BY <1>2, <2>1 DEF IInv
<1> QED BY <1>1, <1>8, <1>9, <1>10, <1>11, Zenon

\* The caller's side: what its steps leave alone.
LEMMA CallerKeeps ==
    ASSUME IInv, UNCHANGED server, ClientSound', ProbeSound', GetSound', AnswerSound',
           g_tcp_src_port' \in Ports
    PROVE  IInv'
BY PeersRest DEF IInv

LEMMA NextPortIs == g_tcp_src_port \in Ports => NextPort \in Ports
BY TcpAssumption DEF NextPort, Ports

\* A request that is not answered says nothing.
LEMMA NoAnswer ==
    ASSUME NEW end, result' = [call |-> "get", ok |-> FALSE, end |-> end]
    PROVE  GetSound' /\ AnswerSound'
BY DEF GetSound, AnswerSound

LEMMA GetKeeps ==
    ASSUME IInv, NEW peer \in Peers, NEW isn \in ISNs, NEW capacity \in Capacities,
           NEW ok \in BOOLEAN, net_http_get_ipv4(peer, isn, capacity, ok)
    PROVE  IInv'
<1> DEFINE c == Opening(g_tcp_src_port, peer, isn, capacity)
           snd == Plus(c.snd_nxt, tcp_segment_advance({"SYN"}, 0))
           d == WithSent(c, snd)
<1>1. /\ g_tcp_src_port \in Ports /\ g_tcp_src_port' = NextPort /\ UNCHANGED <<server, g_tcp_probe_state>>
      /\ pc = "idle"
      /\ IF ok THEN g_tcp_client' = d /\ pc' = "connect" /\ UNCHANGED result
         ELSE /\ g_tcp_client' = NoClient
              /\ result' = [call |-> "get", ok |-> FALSE, end |-> "unsent"]
  BY Zenon DEF net_http_get_ipv4, Begin, IInv, Opening, Advanced, WithSent
<1>2. g_tcp_src_port' \in Ports
  BY <1>1, NextPortIs
<1>3. ProbeSound'
  BY <1>1, ProbeRests
<1>4. CASE ~ok
  <2>1. ClientSound'
    BY <1>1, <1>4, ClientGone, Zenon
  <2>2. GetSound' /\ AnswerSound'
    BY <1>1, <1>4, NoAnswer
  <2> QED BY <1>1, <1>2, <1>3, <2>1, <2>2, CallerKeeps
<1>5. CASE ok
  <2>1. /\ ClientShape(c) /\ c.active /\ ~c.established /\ ~c.finished /\ ~c.truncated
        /\ c.truncated \in BOOLEAN /\ c.src_port = g_tcp_src_port /\ c.capacity = capacity /\ c.rx = <<>>
    BY OpeningIs
  <2> HIDE DEF c, snd
  <2>2. /\ SameCall(c, d) /\ d.established = c.established /\ d.finished = c.finished
        /\ d.reset = c.reset /\ d.truncated = c.truncated /\ d.rcv_nxt = c.rcv_nxt
        /\ d.rx = c.rx
    BY <2>1, WithSentIs
  <2>3. g_tcp_client' = d /\ pc' = "connect" /\ result' = result
    BY <1>1, <1>5, Zenon
  <2> HIDE DEF d
  <2>4. /\ ClientShape(d) /\ d.active /\ d.src_port \in Ports /\ d.capacity \in Nat
        /\ ~d.established /\ d.rx = <<>> /\ ~d.truncated /\ ~d.finished
        /\ d.truncated \in BOOLEAN
    BY <1>1, <2>1, <2>2, TcpAssumption DEF SameCall
  <2>5. Transfer(d, server'[d.src_port].iss)
    BY <2>4, Zenon DEF Transfer
  <2>6. ClientSound'
    <3>1. pc' \in {"connect", "response"}
      BY <2>3
    <3> QED BY <2>3, <2>4, <2>5, <3>1, Zenon DEF ClientSound
  <2>7. GetSound' /\ AnswerSound'
    BY <1>1, <2>3, ResultRests
  <2> QED BY <1>1, <1>2, <1>3, <2>6, <2>7, CallerKeeps
<1> QED BY <1>4, <1>5

LEMMA ProbeKeeps ==
    ASSUME IInv, NEW peer \in Peers, NEW isn \in ISNs, NEW ok \in BOOLEAN,
           net_tcp_probe_ipv4(peer, isn, ok)
    PROVE  IInv'
<1> DEFINE b == Probing(g_tcp_src_port, peer, isn)
<1>1. /\ g_tcp_src_port \in Ports /\ g_tcp_src_port' = NextPort /\ UNCHANGED <<server, g_tcp_client>>
      /\ pc = "idle"
      /\ IF ok THEN g_tcp_probe_state' = b /\ UNCHANGED result
         ELSE /\ g_tcp_probe_state' = Over(b)
              /\ result' = [call |-> "probe", ok |-> FALSE]
  BY Zenon DEF net_tcp_probe_ipv4, Begin, IInv, Probing, Over
<1>2. g_tcp_src_port' \in Ports
  BY <1>1, NextPortIs
<1>3. ClientSound'
  BY <1>1, ClientRests
<1>4. ProbeShape(b) /\ ~b.received /\ b.src_port = g_tcp_src_port
  BY ProbingIs
<1> HIDE DEF b
<1>5. ProbeShape(Over(b)) /\ ~Over(b).waiting /\ Over(b).received = b.received
  BY <1>4, OverIs
<1>6. ProbeSound'
  <2>1. CASE ok
    <3>1. g_tcp_probe_state' = b
      BY <1>1, <2>1, Zenon
    <3>2. b.src_port \in Ports
      BY <1>1, <1>4
    <3> QED BY <1>4, <3>1, <3>2, Zenon DEF ProbeSound, ProbeShape
  <2>2. CASE ~ok
    <3>1. g_tcp_probe_state' = Over(b)
      BY <1>1, <2>2, Zenon
    <3>2. ~Over(b).received
      BY <1>4, <1>5
    <3> QED BY <1>5, <3>1, <3>2, Zenon DEF ProbeSound, ProbeShape
  <2> QED BY <2>1, <2>2
<1>7. GetSound' /\ AnswerSound'
  <2>1. CASE ok
    BY <1>1, <2>1, ResultRests
  <2>2. CASE ~ok
    <3>1. result' = [call |-> "probe", ok |-> FALSE]
      BY <1>1, <2>2
    <3> QED BY <3>1 DEF GetSound, AnswerSound
  <2> QED BY <2>1, <2>2
<1> QED BY <1>1, <1>2, <1>3, <1>6, <1>7, CallerKeeps

LEMMA GiveUpKeeps ==
    ASSUME IInv, NEW end, GiveUp(end), CallUnchanged
    PROVE  IInv'
<1>1. /\ g_tcp_client' = NoClient /\ result' = [call |-> "get", ok |-> FALSE, end |-> end]
      /\ UNCHANGED <<server, g_tcp_probe_state, g_tcp_src_port>>
  BY DEF GiveUp, CallUnchanged
<1>2. ClientSound' /\ ProbeSound' /\ GetSound' /\ AnswerSound'
  BY <1>1, ClientGone, ProbeRests, NoAnswer
<1>3. g_tcp_src_port' \in Ports
  BY <1>1 DEF IInv
<1> QED BY <1>1, <1>2, <1>3, CallerKeeps

\* The caller only looks.
LEMMA LookKeeps ==
    ASSUME IInv, UNCHANGED <<g_tcp_client, pc, result>>, CallUnchanged
    PROVE  IInv'
<1>1. UNCHANGED <<server, g_tcp_probe_state, g_tcp_src_port>>
  BY DEF CallUnchanged
<1>2. ClientSound' /\ ProbeSound' /\ GetSound' /\ AnswerSound'
  BY <1>1, ClientRests, ProbeRests, ResultRests
<1>3. g_tcp_src_port' \in Ports
  BY <1>1 DEF IInv
<1> QED BY <1>1, <1>2, <1>3, CallerKeeps

LEMMA RequestKeeps ==
    ASSUME IInv, NEW ok \in BOOLEAN, ConnectDone(ok)
    PROVE  IInv'
<1> DEFINE c == g_tcp_client
           snd == Plus(c.snd_nxt, tcp_segment_advance({"ACK", "PSH"}, ReqLen))
           d == WithSent(c, snd)
<1>1. /\ CallUnchanged /\ pc = "connect"
      /\ \/ g_tcp_client' = d /\ pc' = "response" /\ UNCHANGED result
         \/ GiveUp("unsent")
  BY Zenon DEF ConnectDone, Advanced, WithSent
<1>2. CASE GiveUp("unsent")
  BY <1>1, <1>2, GiveUpKeeps
<1>3. CASE g_tcp_client' = d /\ pc' = "response" /\ UNCHANGED result
  <2>1. UNCHANGED <<server, g_tcp_probe_state, g_tcp_src_port>>
    BY <1>1 DEF CallUnchanged
  <2>2. ProbeSound' /\ GetSound' /\ AnswerSound' /\ g_tcp_src_port' \in Ports
    BY <1>3, <2>1, ProbeRests, ResultRests DEF IInv
  <2>3. /\ ClientShape(c) /\ (~c.active => c = NoClient)
        /\ c.active => /\ Transfer(c, server[c.src_port].iss)
                       /\ c.established => server[c.src_port].opened
    BY DEF IInv, ClientSound
  <2>4. c.active
    <3>1. c.established
      BY DEF ConnectDone
    <3>2. ~NoClient.established
      BY DEF NoClient
    <3> QED BY <2>3, <3>1, <3>2
  <2>5. /\ SameCall(c, d) /\ d.established = c.established /\ d.finished = c.finished
        /\ d.reset = c.reset /\ d.truncated = c.truncated /\ d.rcv_nxt = c.rcv_nxt
        /\ d.rx = c.rx
    <3> HIDE DEF c, snd
    <3> QED BY <2>3, WithSentIs
  <2>6. c' = d
    BY <1>3
  <2> HIDE DEF d
  <2>7. ClientShape(d) /\ d.active /\ d.src_port = c.src_port /\ d.capacity = c.capacity
    BY <2>4, <2>5 DEF SameCall
  <2>8. \A iss, k : Reached(c, iss, k) => Reached(d, iss, k)
    BY <2>5, <2>7, Zenon DEF Reached
  <2>9. Transfer(d, server[c.src_port].iss)
    <3> DEFINE iss == server[c.src_port].iss
    <3>1. Transfer(c, iss)
      BY <2>3, <2>4
    <3> HIDE DEF iss
    <3>2. Transfer(d, iss)
      BY <2>5, <2>7, <2>8, <3>1, Zenon DEF Transfer
    <3> QED BY <3>2 DEF iss
  <2>10. /\ ClientShape(c') /\ c'.active /\ pc' \in {"connect", "response"}
         /\ Transfer(c', server'[c'.src_port].iss)
         /\ c'.established => server'[c'.src_port].opened
    BY <1>3, <2>1, <2>3, <2>4, <2>5, <2>6, <2>7, <2>9
  <2>11. ClientSound'
    BY <2>10, Zenon DEF ClientSound
  <2> QED BY <2>1, <2>2, <2>11, CallerKeeps
<1> QED BY <1>1, <1>2, <1>3

\* The body of a whole response.
LEMMA WholeBody ==
    ASSUME NEW p
    PROVE  Body(Prefix(p, StreamLen)) = Bytes(p, HdrLen, StreamLen)
<1> DEFINE rx == Prefix(p, StreamLen)
           s == SubSeq(rx, HdrLen + 1, StreamLen)
           T == BytesTo(p)
<1>1. rx \in Seq(T) /\ Len(rx) = StreamLen /\ \A n \in 1 .. StreamLen : rx[n] = <<p, n>>
  BY Constants, PrefixIs
<1>2. Body(rx) = s
  BY <1>1, Constants DEF Body
<1> HIDE DEF rx, T
<1> DEFINE i == HdrLen + 1
<1>3. i \in Int /\ StreamLen \in Int /\ \A n \in i .. StreamLen : rx[n] \in T
  BY <1>1, Constants
<1>4. /\ SubSeq(rx, i, StreamLen) \in Seq(T)
      /\ Len(SubSeq(rx, i, StreamLen)) = IF i <= StreamLen THEN StreamLen - i + 1 ELSE 0
      /\ \A n \in 1 .. StreamLen - i + 1 : SubSeq(rx, i, StreamLen)[n] = rx[i + n - 1]
  <2> HIDE DEF i
  <2> QED BY <1>3, SubSeqProperties
<1>5. s = SubSeq(rx, i, StreamLen)
  OBVIOUS
<1> HIDE DEF s
<1>6. /\ s \in Seq(T) /\ Len(s) = StreamLen - HdrLen
      /\ \A n \in 1 .. StreamLen - HdrLen : s[n] = rx[HdrLen + n]
  BY <1>4, <1>5, Constants
<1>7. \A n \in 1 .. StreamLen - HdrLen : s[n] = <<p, HdrLen + n>>
  <2> TAKE n \in 1 .. StreamLen - HdrLen
  <2> DEFINE k == HdrLen + n
  <2>1. k \in 1 .. StreamLen
    BY Constants
  <2> HIDE DEF k
  <2>2. rx[k] = <<p, k>>
    BY <1>1, <2>1
  <2> QED BY <1>6, <2>2 DEF k
<1>8. s = Bytes(p, HdrLen, StreamLen)
  BY <1>6, <1>7, Constants, IsBytes
<1> QED BY <1>2, <1>8 DEF rx

LEMMA ReturnKeeps ==
    ASSUME IInv, NEW end, Return(end), CallUnchanged,
           end = "fin" => ~g_tcp_client.reset /\ g_tcp_client.finished
    PROVE  IInv'
<1> DEFINE c == g_tcp_client
<1>1. /\ g_tcp_client' = NoClient /\ UNCHANGED <<server, g_tcp_probe_state, g_tcp_src_port>>
      /\ result' = [call |-> "get", ok |-> ~c.reset /\ c.rx # <<>>, end |-> end,
                    port |-> c.src_port, body |-> Body(c.rx),
                    status |-> StatusKnown(c.rx), truncated |-> c.truncated]
  BY Zenon DEF Return, CallUnchanged
<1>2. /\ result'.call = "get" /\ result'.end = end /\ result'.port = c.src_port
      /\ result'.body = Body(c.rx)
      /\ result'.status = StatusKnown(c.rx) /\ result'.truncated = c.truncated
  BY <1>1
<1>3. ASSUME end = "fin", ~c.truncated
      PROVE  StatusKnown(c.rx) /\ Body(c.rx) = Bytes(c.src_port, HdrLen, StreamLen)
  <2> DEFINE iss == server[c.src_port].iss
  <2>1. ~c.reset /\ c.finished
    BY <1>3
  <2>2. c.active /\ Transfer(c, iss)
    <3>1. ~NoClient.finished
      BY DEF NoClient
    <3>2. c.active
      BY <2>1, <3>1 DEF IInv, ClientSound
    <3> QED BY <3>2 DEF IInv, ClientSound
  <2> HIDE DEF iss
  <2>3. PICK k \in 0 .. StreamLen + 1 : Reached(c, iss, k)
    BY <2>1, <2>2 DEF Transfer
  <2>4. k = StreamLen + 1 /\ ~(DataOf(k) > c.capacity)
        /\ c.rx = Prefix(c.src_port, Kept(k, c.capacity))
    BY <1>3, <2>1, <2>3 DEF Reached
  <2>5. Kept(k, c.capacity) = StreamLen
    BY <2>4, Constants DEF Kept, DataOf
  <2>6. c.rx = Prefix(c.src_port, StreamLen)
    BY <2>4, <2>5
  <2>7. Len(c.rx) = StreamLen
    BY <2>6, Constants, PrefixIs
  <2> QED BY <2>6, <2>7, Constants, WholeBody DEF StatusKnown
<1>4. GetSound'
  BY <1>2, <1>3 DEF GetSound
<1>5. AnswerSound'
  BY <1>2 DEF AnswerSound
<1>6. ClientSound' /\ ProbeSound'
  BY <1>1, ClientGone, ProbeRests
<1>7. g_tcp_src_port' \in Ports
  BY <1>1 DEF IInv
<1> QED BY <1>1, <1>4, <1>5, <1>6, <1>7, CallerKeeps

LEMMA ProbeEnds ==
    ASSUME IInv, NEW res, ProbeReturns(res), pc = "probe",
           \/ res = [call |-> "probe", ok |-> FALSE]
           \/ /\ g_tcp_probe_state.received
              /\ res = [call |-> "probe", ok |-> TRUE, peer |-> g_tcp_probe_state.peer,
                        port |-> g_tcp_probe_state.src_port, open |-> g_tcp_probe_state.open]
    PROVE  IInv'
<1> DEFINE b == g_tcp_probe_state
<1>1. /\ b' = Over(b) /\ result' = res
      /\ UNCHANGED <<g_tcp_client, g_tcp_src_port, server>>
  BY Zenon DEF ProbeReturns, Over
<1>2. /\ ProbeShape(b) /\ (b.waiting => b.src_port \in Ports)
      /\ b.received =>
            /\ b.src_port \in Ports
            /\ (b.open = (b.peer \in Listening)) \/ server[b.src_port].aborted
  BY Zenon DEF IInv, ProbeSound, ProbeShape
<1>3. ClientSound'
  BY <1>1, ClientRests
<1>4. ProbeSound'
  <2> DEFINE d == Over(b)
  <2>1. /\ ProbeShape(d) /\ ~d.waiting /\ d.received = b.received
        /\ d.open = b.open /\ d.src_port = b.src_port /\ d.peer = b.peer
    <3> HIDE DEF b
    <3> QED BY <1>2, OverIs
  <2>2. b' = d /\ server' = server
    BY <1>1
  <2> HIDE DEF d
  <2>3. d.received =>
            /\ d.src_port \in Ports
            /\ (d.open = (d.peer \in Listening)) \/ server[d.src_port].aborted
    BY <1>2, <2>1
  <2> QED BY <2>1, <2>2, <2>3, Zenon DEF ProbeSound, ProbeShape
<1>5. GetSound' /\ AnswerSound'
  <2>1. CASE res = [call |-> "probe", ok |-> FALSE]
    BY <1>1, <2>1 DEF GetSound, AnswerSound
  <2>2. CASE /\ b.received
             /\ res = [call |-> "probe", ok |-> TRUE, peer |-> b.peer,
                       port |-> b.src_port, open |-> b.open]
    <3>1. /\ result'.call = "probe" /\ result'.peer = b.peer /\ result'.port = b.src_port
          /\ result'.open = b.open
      BY <1>1, <2>2
    <3>2. server' = server
      BY <1>1
    <3> QED BY <1>2, <2>2, <3>1, <3>2 DEF GetSound, AnswerSound
  <2> QED BY <2>1, <2>2
<1>6. g_tcp_src_port' \in Ports
  BY <1>1 DEF IInv
<1> QED BY <1>1, <1>3, <1>4, <1>5, <1>6, CallerKeeps

\* What earlier calls may have left at the peers.
LeftOpen(peer, isn) ==
    [NoConnection EXCEPT !.st = "est", !.peer = peer, !.irs = isn, !.iss = isn,
                         !.opened = TRUE, !.est = TRUE, !.req = TRUE]
LeftRefused(peer, isn) ==
    [NoConnection EXCEPT !.st = "closed", !.peer = peer, !.irs = isn, !.refused = TRUE]

LEMMA LeftOpenIs ==
    ASSUME NEW peer \in Listening, NEW isn \in 0 .. SeqSpace - 1
    PROVE  PeerSound(LeftOpen(peer, isn)) /\ LeftOpen(peer, isn).st # "none"
<1> DEFINE no == FALSE
           yes == TRUE
           zero == 0
           none == "none"
           est == "est"
           d == LeftOpen(peer, isn)
           r1 == [NoConnection EXCEPT !.st = est]
           r2 == [r1 EXCEPT !.peer = peer]
           r3 == [r2 EXCEPT !.irs = isn]
           r4 == [r3 EXCEPT !.iss = isn]
           r5 == [r4 EXCEPT !.opened = yes]
           r6 == [r5 EXCEPT !.est = yes]
           r7 == [r6 EXCEPT !.req = yes]
<1>1. NoConnection = PeerRecord(none, none, zero, zero, no, no, no, no, no)
  BY Zenon DEF NoConnection, PeerRecord
<1>2. d = r7
  BY Zenon DEF LeftOpen
<1>3. est # "none" /\ ~no
  OBVIOUS
<1> HIDE DEF no, yes, zero, none, est, d
<1>4. r1 = PeerRecord(est, none, zero, zero, no, no, no, no, no)
  BY <1>1 DEF PeerRecord
<1> HIDE DEF r1
<1>5. r2 = PeerRecord(est, peer, zero, zero, no, no, no, no, no)
  BY <1>4 DEF PeerRecord
<1> HIDE DEF r2
<1>6. r3 = PeerRecord(est, peer, isn, zero, no, no, no, no, no)
  BY <1>5 DEF PeerRecord
<1> HIDE DEF r3
<1>7. r4 = PeerRecord(est, peer, isn, isn, no, no, no, no, no)
  BY <1>6 DEF PeerRecord
<1> HIDE DEF r4
<1>8. r5 = PeerRecord(est, peer, isn, isn, yes, no, no, no, no)
  BY <1>7 DEF PeerRecord
<1> HIDE DEF r5
<1>9. r6 = PeerRecord(est, peer, isn, isn, yes, yes, no, no, no)
  BY <1>8 DEF PeerRecord
<1> HIDE DEF r6
<1>10. r7 = PeerRecord(est, peer, isn, isn, yes, yes, yes, no, no)
  BY <1>9 DEF PeerRecord
<1> HIDE DEF r7
<1>11. /\ d = PeerRecord(d.st, d.peer, d.irs, d.iss, d.opened, d.est, d.req, d.refused, d.aborted)
       /\ d.st = est /\ d.peer = peer /\ d.iss = isn /\ d.refused = no
  BY <1>2, <1>10 DEF PeerRecord
<1>12. PeerSound(d) /\ d.st # "none"
  BY <1>3, <1>11, Zenon DEF PeerSound, PeerRecord
<1> QED BY <1>12 DEF d

LEMMA LeftRefusedIs ==
    ASSUME NEW peer, peer \notin Listening, NEW isn
    PROVE  PeerSound(LeftRefused(peer, isn))
<1> DEFINE no == FALSE
           yes == TRUE
           zero == 0
           none == "none"
           closed == "closed"
           d == LeftRefused(peer, isn)
           r1 == [NoConnection EXCEPT !.st = closed]
           r2 == [r1 EXCEPT !.peer = peer]
           r3 == [r2 EXCEPT !.irs = isn]
           r4 == [r3 EXCEPT !.refused = yes]
<1>1. NoConnection = PeerRecord(none, none, zero, zero, no, no, no, no, no)
  BY Zenon DEF NoConnection, PeerRecord
<1>2. d = r4
  BY Zenon DEF LeftRefused
<1>3. closed # "none" /\ ~no /\ zero \in 0 .. SeqSpace - 1
  BY Constants
<1> HIDE DEF no, yes, zero, none, closed, d
<1>4. r1 = PeerRecord(closed, none, zero, zero, no, no, no, no, no)
  BY <1>1 DEF PeerRecord
<1> HIDE DEF r1
<1>5. r2 = PeerRecord(closed, peer, zero, zero, no, no, no, no, no)
  BY <1>4 DEF PeerRecord
<1> HIDE DEF r2
<1>6. r3 = PeerRecord(closed, peer, isn, zero, no, no, no, no, no)
  BY <1>5 DEF PeerRecord
<1> HIDE DEF r3
<1>7. r4 = PeerRecord(closed, peer, isn, zero, no, no, no, yes, no)
  BY <1>6 DEF PeerRecord
<1> HIDE DEF r4
<1>8. /\ d = PeerRecord(d.st, d.peer, d.irs, d.iss, d.opened, d.est, d.req, d.refused, d.aborted)
      /\ d.st = closed /\ d.peer = peer /\ d.iss = zero /\ d.opened = no
  BY <1>2, <1>7 DEF PeerRecord
<1>9. PeerSound(d)
  BY <1>3, <1>8, Zenon DEF PeerSound, PeerRecord
<1> QED BY <1>9 DEF d

LEMMA NoneLeftIs == PeerSound(NoConnection)
<1> DEFINE d == NoConnection
<1>1. /\ d = PeerRecord(d.st, d.peer, d.irs, d.iss, d.opened, d.est, d.req, d.refused, d.aborted)
      /\ d.iss = 0 /\ ~d.opened /\ ~d.refused /\ ~d.aborted
  BY DEF NoConnection, PeerRecord
<1>2. d.iss \in 0 .. SeqSpace - 1
  BY <1>1, Constants
<1> HIDE DEF d
<1>3. PeerSound(d)
  BY <1>1, <1>2, Zenon DEF PeerSound, PeerRecord
<1> QED BY <1>3 DEF d

LEMMA LeftBehindIs == \A old \in LeftBehind : PeerSound(old)
<1> DEFINE isn == CHOOSE n \in ISNs : TRUE
<1>1. isn \in 0 .. SeqSpace - 1
  <2>1. isn \in ISNs
    BY TcpAssumption
  <2> QED BY <2>1, Constants
<1> HIDE DEF isn
<1>2. LeftBehind = {NoConnection}
         \cup {LeftOpen(peer, isn) : peer \in Listening}
         \cup {Aborting(LeftOpen(peer, isn)) : peer \in Listening}
         \cup {LeftRefused(peer, isn) : peer \in Peers \ Listening}
  BY Zenon DEF LeftBehind, LeftOpen, Aborting, LeftRefused, isn
<1>3. \A peer \in Listening : PeerSound(LeftOpen(peer, isn)) /\ LeftOpen(peer, isn).st # "none"
  BY <1>1, LeftOpenIs
<1>4. ASSUME NEW peer \in Listening
      PROVE  PeerSound(Aborting(LeftOpen(peer, isn)))
  <2> DEFINE s == LeftOpen(peer, isn)
  <2>1. PeerSound(s) /\ s.st # "none"
    BY <1>3
  <2> HIDE DEF s
  <2>2. PeerSound(Aborting(s))
    BY <2>1, AbortingIs
  <2> QED BY <2>2 DEF s
<1>5. \A peer \in Peers \ Listening : PeerSound(LeftRefused(peer, isn))
  BY LeftRefusedIs
<1> QED BY <1>2, <1>3, <1>4, <1>5, NoneLeftIs, Zenon

LEMMA TcpStarts == Init => IInv
<1> SUFFICES ASSUME Init PROVE IInv
  OBVIOUS
<1>1. PICK old \in LeftBehind :
         server = [p \in Ports |-> IF p = MinPort THEN old ELSE NoConnection]
  BY Zenon DEF Init
<1>2. PeersSound
  <2>1. PeerSound(old) /\ PeerSound(NoConnection)
    BY LeftBehindIs, NoneLeftIs
  <2>2. DOMAIN server = Ports /\ \A p \in Ports : server[p] = old \/ server[p] = NoConnection
    BY <1>1
  <2> QED BY <2>1, <2>2 DEF PeersSound
<1>3. ClientSound
  BY NoClientIs, Zenon DEF Init, ClientSound
<1>4. ProbeSound
  <2> DEFINE b == NoProbe
  <2>1. /\ b = [waiting |-> b.waiting, received |-> b.received, open |-> b.open,
                src_port |-> b.src_port, peer |-> b.peer, sequence |-> b.sequence]
        /\ ~b.waiting /\ ~b.received
    BY DEF NoProbe
  <2>2. g_tcp_probe_state = b
    BY DEF Init
  <2> HIDE DEF b
  <2> QED BY <2>1, <2>2, Zenon DEF ProbeSound
<1>5. GetSound /\ AnswerSound
  BY DEF Init, NoResult, GetSound, AnswerSound
<1>6. g_tcp_src_port \in Ports
  BY TcpAssumption DEF Init, Ports
<1> QED BY <1>2, <1>3, <1>4, <1>5, <1>6 DEF IInv

LEMMA TcpKeeps == IInv /\ [Next]_vars => IInv'
<1> SUFFICES ASSUME IInv, [Next]_vars PROVE IInv'
  OBVIOUS
<1>1. CASE Calls
  BY <1>1, GetKeeps, ProbeKeeps DEF Calls
<1>2. CASE ConnectReset \/ ConnectTimeout
  BY <1>2, GiveUpKeeps DEF ConnectReset, ConnectTimeout
<1>3. CASE \E ok \in BOOLEAN : ConnectDone(ok)
  BY <1>3, RequestKeeps
<1>4. CASE ConnectAgain \/ ResponseAgain \/ ProbeAgain
  BY <1>4, LookKeeps DEF ConnectAgain, ResponseAgain, ProbeAgain
<1>5. CASE ResponseEnds \/ ResponseTimeout
  <2>1. PICK end : /\ Return(end) /\ CallUnchanged
                   /\ end = "fin" => ~g_tcp_client.reset /\ g_tcp_client.finished
    <3>1. "reset" # "fin" /\ "quiet" # "fin" /\ "deadline" # "fin"
      OBVIOUS
    <3> QED BY <1>5, <3>1, Zenon DEF ResponseEnds, ResponseTimeout
  <2> QED BY <2>1, ReturnKeeps
<1>6. CASE ProbeAnswered
  BY <1>6, ProbeEnds DEF ProbeAnswered
<1>7. CASE ProbeTimeout
  BY <1>7, ProbeEnds DEF ProbeTimeout
<1>8. CASE (\E p \in Ports : Receive(p)) \/ net_handle_tcp(StraySyn)
  BY <1>8, HandleKeeps DEF Receive
<1>9. CASE (\E m \in toServer : ServerReceives(m)) \/ \E p \in Ports : ServerAborts(p)
  <2>1. PeersSound
    BY DEF IInv
  <2>2. PeersSound' /\ \A q \in Ports : Later(server[q], server'[q])
    BY <1>9, <2>1, PeersMove
  <2>3. UNCHANGED <<g_tcp_client, g_tcp_probe_state, g_tcp_src_port, pc, result>>
    BY <1>9 DEF ServerReceives, ServerAborts
  <2> QED BY <2>2, <2>3, CallsKeep
<1>10. CASE UNCHANGED vars
  BY <1>10, LookKeeps DEF vars, CallUnchanged
<1> QED BY <1>1, <1>2, <1>3, <1>4, <1>5, <1>6, <1>7, <1>8, <1>9, <1>10 DEF Next, Looks, Deadline

LEMMA TcpInvariant == Spec => []IInv
BY TcpStarts, TcpKeeps, PTL DEF Spec

\* The transfer says what the buffer and the flags say.
LEMMA TransferExact == IInv => ResponseExact
<1> SUFFICES ASSUME IInv PROVE ResponseExact
  OBVIOUS
<1> DEFINE c == g_tcp_client
           fin == IF c.finished /\ ~c.reset THEN 1 ELSE 0
           iss == server[c.src_port].iss
<1>1. /\ ClientShape(c) /\ (~c.active => c = NoClient)
      /\ c.active => /\ pc \in {"connect", "response"} /\ Transfer(c, iss)
                     /\ c.established => server[c.src_port].opened
  BY DEF IInv, ClientSound
<1>2. NoClient.rx = <<>> /\ NoClient.capacity = 0
  BY NoClientIs
<1>3. Prefix(c.src_port, 0) = <<>> /\ Len(<<>>) = 0
  BY NoBytes
<1>4. CASE ~c.active
  <2>1. c.rx = <<>> /\ Len(c.rx) = 0 /\ c.capacity = 0
    BY <1>1, <1>2, <1>4
  <2>2. c.rx = Bytes(c.src_port, 0, Len(c.rx)) /\ Len(c.rx) <= c.capacity
    BY <1>3, <2>1 DEF Prefix
  <2> QED BY <1>4, <2>2, Zenon DEF ResponseExact, IInv, GetSound
<1>5. CASE c.active /\ ~c.established
  <2>1. c.rx = <<>> /\ Len(c.rx) = 0 /\ c.capacity \in Nat /\ pc \in {"connect", "response"}
    BY <1>1, <1>3, <1>5 DEF Transfer
  <2>2. c.rx = Bytes(c.src_port, 0, Len(c.rx)) /\ Len(c.rx) <= c.capacity
    BY <1>3, <2>1 DEF Prefix
  <2> QED BY <1>5, <2>1, <2>2, Zenon DEF ResponseExact, IInv, GetSound
<1>6. CASE c.active /\ c.established
  <2>1. /\ c.src_port \in Ports /\ c.capacity \in Nat /\ pc \in {"connect", "response"}
        /\ c.truncated \in BOOLEAN
    BY <1>1, <1>6 DEF Transfer
  <2>2. iss \in 0 .. SeqSpace - 1
    BY <2>1 DEF IInv, PeersSound, PeerSound
  <2>3. PICK k \in 0 .. StreamLen + 1 : Reached(c, iss, k)
    BY <1>1, <1>6 DEF Transfer
  <2> DEFINE n == Kept(k, c.capacity)
  <2>4. /\ n \in Nat /\ n <= c.capacity
        /\ DataOf(k) = IF k = StreamLen + 1 THEN StreamLen ELSE k
        /\ n = IF DataOf(k) > c.capacity THEN c.capacity ELSE DataOf(k)
    BY <2>1, Constants DEF Kept, DataOf
  <2>5. /\ c.rcv_nxt = Plus(iss, 1 + k) /\ c.rx = Prefix(c.src_port, n)
        /\ c.truncated <=> DataOf(k) > c.capacity
        /\ ~c.reset => (c.finished <=> k = StreamLen + 1)
    BY <2>3 DEF Reached
  <2> HIDE DEF n
  <2>6. Len(c.rx) = n
    BY <2>4, <2>5, PrefixIs
  <2>7. c.rx = Bytes(c.src_port, 0, Len(c.rx)) /\ Len(c.rx) <= c.capacity
    BY <2>4, <2>5, <2>6 DEF Prefix
  <2>8. Acked(c) = k
    <3>1. (Plus(iss, 1 + k) + SeqSpace - Plus(iss, 1)) % SeqSpace = k
      <4> HIDE DEF iss
      <4> QED BY <2>2, Distance
    <3> QED BY <2>5, <3>1 DEF Acked
  <2>9. ~c.reset => (c.truncated <=> Acked(c) - fin > Len(c.rx))
    <3>1. SUFFICES ASSUME ~c.reset PROVE c.truncated <=> Acked(c) - fin > Len(c.rx)
      OBVIOUS
    <3>2. fin = IF k = StreamLen + 1 THEN 1 ELSE 0
      BY <2>5, <3>1
    <3>3. Acked(c) - fin = DataOf(k)
      BY <2>4, <2>8, <3>2, Constants
    <3>4. DataOf(k) \in Int /\ (DataOf(k) > c.capacity <=> DataOf(k) > n)
      BY <2>1, <2>4, Constants
    <3> QED BY <2>5, <2>6, <3>3, <3>4
  <2> HIDE DEF fin
  <2>10. ~c.reset => c.truncated = (Acked(c) - fin > Len(c.rx))
    <3>1. CASE c.truncated
      <4>1. c.truncated = TRUE
        BY <2>1, <3>1
      <4>2. ~c.reset => (Acked(c) - fin > Len(c.rx)) = TRUE
        BY <2>9, <3>1
      <4> QED BY <4>1, <4>2, Zenon
    <3>2. CASE ~c.truncated
      <4>1. c.truncated = FALSE
        BY <2>1, <3>2
      <4>2. ~c.reset => (Acked(c) - fin > Len(c.rx)) = FALSE
        BY <2>9, <3>2
      <4> QED BY <4>1, <4>2, Zenon
    <3> QED BY <3>1, <3>2, Zenon
  <2> QED BY <1>6, <2>1, <2>7, <2>10, Zenon DEF ResponseExact, IInv, GetSound, fin
<1> QED BY <1>4, <1>5, <1>6, Zenon

LEMMA AnswersTruthful == IInv => ProbeTruthful
BY Zenon DEF IInv, AnswerSound, ProbeTruthful

-----------------------------------------------------------------------------
(* The theorems.                                                           *)

\* tcp_client_handle_segment keeps the buffer of a transfer exact: whatever
\* pieces of the response arrive, again, late or out of order, and whatever
\* segments earlier calls left on their way, the buffer is the response's
\* first bytes, never more than it has room for, truncated says whether any
\* acknowledged byte did not fit, and a GET that ends with FIN and is not cut
\* returns the whole body.
THEOREM ResponseIsExact == Spec => []ResponseExact
<1>1. Spec => []IInv
  BY TcpInvariant
<1>2. IInv => ResponseExact
  BY TransferExact
<1> QED BY <1>1, <1>2, PTL

\* net_tcp_probe_ipv4 says "open" only of a port somebody listens on, and
\* "closed" only of one nobody listens on, whatever answers to earlier probes
\* come in late; the exception is a server that reset what it had accepted.
THEOREM ProbesAreTrue == Spec => []ProbeTruthful
<1>1. Spec => []IInv
  BY TcpInvariant
<1>2. IInv => ProbeTruthful
  BY AnswersTruthful
<1> QED BY <1>1, <1>2, PTL

=============================================================================
