----------------------------- MODULE PtyChannel -----------------------------
(***************************************************************************)
(* What the two ends of a pseudo terminal are promised: a session carries  *)
(* bytes each way in order, each once, up to a capacity.  A full direction *)
(* refuses the rest of a write and a read takes what is there.  Nothing of *)
(* one session is ever seen in a later one.                                *)
(***************************************************************************)
EXTENDS Integers, Sequences

CONSTANTS Sessions,   \* the slots a session may live in
          Capacity,   \* bytes a direction holds
          Chunks      \* what one write may offer

VARIABLES live,     \* slots with a session
          to_slave, \* bytes on their way to the slave, per slot
          to_host,  \* bytes on their way to the host, per slot
          got       \* the bytes the last read returned

chanVars == <<live, to_slave, to_host, got>>

Accepted(q, chunk) ==
    IF Len(chunk) <= Capacity - Len(q) THEN Len(chunk) ELSE Capacity - Len(q)

Write(q, chunk) == q \o SubSeq(chunk, 1, Accepted(q, chunk))

Read(q, n) == SubSeq(q, n + 1, Len(q))

CInit ==
    /\ live = {}
    /\ to_slave = [s \in Sessions |-> <<>>]
    /\ to_host = [s \in Sessions |-> <<>>]
    /\ got = <<>>

COpen(s) ==
    /\ live' = live \cup {s}
    /\ to_slave[s] = <<>> /\ to_host[s] = <<>>
    /\ UNCHANGED <<to_slave, to_host, got>>

\* What nobody has read when the session ends is dropped.
CClose(s) ==
    /\ live' = live \ {s}
    /\ to_slave' = [to_slave EXCEPT ![s] = <<>>]
    /\ to_host' = [to_host EXCEPT ![s] = <<>>]
    /\ UNCHANGED got

CHostWrites(s) ==
    /\ \E chunk \in Chunks : to_slave' = [to_slave EXCEPT ![s] = Write(@, chunk)]
    /\ UNCHANGED <<live, to_host, got>>

CSlaveWrites(s) ==
    /\ \E chunk \in Chunks : to_host' = [to_host EXCEPT ![s] = Write(@, chunk)]
    /\ UNCHANGED <<live, to_slave, got>>

CHostReads(s) ==
    /\ \E n \in 1 .. Len(to_host[s]) :
          /\ got' = SubSeq(to_host[s], 1, n)
          /\ to_host' = [to_host EXCEPT ![s] = Read(@, n)]
    /\ UNCHANGED <<live, to_slave>>

CSlaveReads(s) ==
    /\ \E n \in 1 .. Len(to_slave[s]) :
          /\ got' = SubSeq(to_slave[s], 1, n)
          /\ to_slave' = [to_slave EXCEPT ![s] = Read(@, n)]
    /\ UNCHANGED <<live, to_host>>

CNext ==
    \/ \E s \in Sessions \ live : COpen(s)
    \/ \E s \in live :
          \/ CClose(s)
          \/ CHostWrites(s) \/ CSlaveWrites(s) \/ CHostReads(s) \/ CSlaveReads(s)

CSpec == CInit /\ [][CNext]_chanVars
=============================================================================
