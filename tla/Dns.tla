-------------------------------- MODULE Dns --------------------------------
(***************************************************************************)
(* The resolver: net_dns_resolve_ipv4, dns_handle_udp_packet and the cache *)
(* of net_utils.c, against a name server whose answers are lost, repeated  *)
(* and late.                                                               *)
(*                                                                         *)
(* A query is known by its transaction number and source port; the answer's*)
(* question is not compared with the name.  Ticks count only for the cache;*)
(* the deadline may be due whenever the code compares the clock.  A retry  *)
(* sends the same query again, which the server may answer at any time     *)
(* anyway.                                                                 *)
(***************************************************************************)
EXTENDS Integers, FiniteSets

CONSTANTS
    Names,             \* spellings callers use
    Lower,             \* the lower-case spelling of each
    Zone,              \* address the name server has for each lower-case name
    ZeroIp,            \* 0.0.0.0 or 255.255.255.255
    Ttls,              \* times to live the server may send
    MinTtl, MaxTtl,    \* DNS_MIN_TTL_S, DNS_MAX_TTL_S, in ticks
    MaxTxid,           \* 65535
    MinPort, MaxPort,  \* DNS_MIN_SRC_PORT, 65535
    CacheSize,         \* DNS_CACHE_SIZE
    MaxTick,           \* bound on time
    MaxQueries         \* bound on queries sent

ASSUME DnsAssumption ==
    /\ Lower \in [Names -> Names] /\ \A n \in Names : Lower[Lower[n]] = Lower[n]
    /\ DOMAIN Zone = Names
    /\ Ttls \subseteq Nat /\ MinTtl \in Nat \ {0} /\ MaxTtl \in Nat /\ MinTtl <= MaxTtl
    /\ MaxTxid \in Nat \ {0} /\ MinPort \in Nat /\ MaxPort \in Nat /\ MinPort <= MaxPort
    /\ CacheSize \in Nat \ {0}
    /\ MaxTick \in Nat /\ MaxQueries \in Nat

VARIABLES
    g_dns_cache,
    g_dns_state,
    g_dns_txid, g_dns_src_port,
    tick,
    pc,                \* "idle" or "wait", in the loop of the call
    name,              \* hostname of the call
    result,            \* what the last call returned
    sent,              \* every query ever sent
    queries

dns_vars == <<g_dns_cache, g_dns_state, g_dns_txid, g_dns_src_port, tick, pc, name,
              result, sent, queries>>

Slots == 0..(CacheSize - 1)
Ports == MinPort..MaxPort
Empty == [valid |-> FALSE, host |-> "", ip |-> ZeroIp, expires |-> 0, updated |-> 0]
NoQuery == [waiting |-> FALSE, received |-> FALSE, txid |-> 0, src_port |-> 0,
            ip |-> ZeroIp, ttl |-> MinTtl]

-----------------------------------------------------------------------------
(* The cache.                                                              *)

dns_normalize_ttl(ttl) ==
    IF ttl < MinTtl THEN MinTtl ELSE IF ttl > MaxTtl THEN MaxTtl ELSE ttl

dns_cache_expire_stale(cache) ==
    [i \in Slots |-> [cache[i] EXCEPT !.valid = @ /\ tick < cache[i].expires]]

Holding(cache, n) == {i \in Slots : cache[i].valid /\ cache[i].host = Lower[n]}

Lowest(S) == CHOOSE i \in S : \A j \in S : i <= j

\* The slot dns_cache_update writes: the name's, a free one, the oldest.
SlotFor(n) ==
    LET holding == Holding(g_dns_cache, n)
        free == {i \in Slots : ~g_dns_cache[i].valid}
        oldest == {i \in Slots : \A j \in Slots :
                       g_dns_cache[i].updated <= g_dns_cache[j].updated}
    IN  IF holding # {} THEN Lowest(holding)
        ELSE IF free # {} THEN Lowest(free)
        ELSE Lowest(oldest)

dns_cache_update(n, ip, ttl) ==
    g_dns_cache' =
        IF ip = ZeroIp THEN g_dns_cache
        ELSE [g_dns_cache EXCEPT ![SlotFor(n)] =
                [valid |-> TRUE, host |-> Lower[n], ip |-> ip,
                 expires |-> tick + dns_normalize_ttl(ttl), updated |-> tick]]

-----------------------------------------------------------------------------
(* The name server, external: an answer to each query, at any later time   *)
(* and any number of times.                                                *)

Answers ==
    {[txid |-> q.txid, port |-> q.port, ip |-> Zone[Lower[q.name]], ttl |-> t] :
        q \in sent, t \in Ttls}

\* Slip: the port an answer comes to is not compared.
Matches_AnyPort(m) ==
    /\ g_dns_state.waiting /\ ~g_dns_state.received
    /\ m.txid = g_dns_state.txid

Matches(m) ==
    /\ g_dns_state.waiting /\ ~g_dns_state.received
    /\ m.port = g_dns_state.src_port
    /\ m.txid = g_dns_state.txid

\* One frame of net_poll with an answer in it.
dns_handle_udp_packet(m) ==
    /\ g_dns_state' = IF Matches(m)
                      THEN [g_dns_state EXCEPT !.received = TRUE, !.ip = m.ip,
                                               !.ttl = dns_normalize_ttl(m.ttl)]
                      ELSE g_dns_state
    /\ UNCHANGED <<g_dns_cache, g_dns_txid, g_dns_src_port, tick, pc, name,
                   result, sent, queries>>

-----------------------------------------------------------------------------
(* net_dns_resolve_ipv4                                                    *)

Fail(n) == [ok |-> FALSE, name |-> n]

\* The cache knows the name.
CacheHit(n) ==
    LET cache == dns_cache_expire_stale(g_dns_cache)
        slot == cache[Lowest(Holding(cache, n))]
    IN  /\ pc = "idle"
        /\ Holding(cache, n) # {}
        /\ g_dns_cache' = cache
        /\ result' = [ok |-> TRUE, name |-> n, ip |-> slot.ip, got |-> slot.updated,
                      at |-> tick]
        /\ UNCHANGED <<g_dns_state, g_dns_txid, g_dns_src_port, tick, pc, name,
                       sent, queries>>

\* It does not: a query is sent, if the name server can be reached.
SendQuery(n, ok) ==
    LET cache == dns_cache_expire_stale(g_dns_cache)
        q == [NoQuery EXCEPT !.txid = g_dns_txid, !.src_port = g_dns_src_port]
    IN  /\ pc = "idle" /\ queries < MaxQueries
        /\ Holding(cache, n) = {}
        /\ g_dns_cache' = cache
        /\ g_dns_txid' = IF g_dns_txid = MaxTxid THEN 1 ELSE g_dns_txid + 1
        /\ g_dns_src_port' = IF g_dns_src_port = MaxPort THEN MinPort
                             ELSE g_dns_src_port + 1
        /\ queries' = queries + 1
        /\ \/ /\ ok
              /\ g_dns_state' = [q EXCEPT !.waiting = TRUE]
              /\ sent' = sent \cup {[txid |-> g_dns_txid, port |-> g_dns_src_port,
                                     name |-> n]}
              /\ pc' = "wait" /\ name' = n
              /\ UNCHANGED result
           \/ /\ ~ok
              /\ g_dns_state' = q
              /\ result' = Fail(n)
              /\ UNCHANGED <<sent, pc, name>>
        /\ UNCHANGED tick

LookReceived ==
    /\ pc = "wait" /\ g_dns_state.received
    /\ result' = [ok |-> TRUE, name |-> name, ip |-> g_dns_state.ip, got |-> tick,
                  at |-> tick]
    /\ dns_cache_update(name, g_dns_state.ip, g_dns_state.ttl)
    /\ g_dns_state' = [g_dns_state EXCEPT !.waiting = FALSE]
    /\ pc' = "idle"
    /\ UNCHANGED <<g_dns_txid, g_dns_src_port, tick, name, sent, queries>>

\* The loop looks after each net_poll, so an answer wins over the deadline.
DnsDeadline ==
    /\ pc = "wait" /\ ~g_dns_state.received
    /\ result' = Fail(name)
    /\ g_dns_state' = [g_dns_state EXCEPT !.waiting = FALSE]
    /\ pc' = "idle"
    /\ UNCHANGED <<g_dns_cache, g_dns_txid, g_dns_src_port, tick, name,
                   sent, queries>>

\* The part of net_get_stats that changes state.
net_get_stats ==
    /\ pc = "idle"
    /\ g_dns_cache' = dns_cache_expire_stale(g_dns_cache)
    /\ UNCHANGED <<g_dns_state, g_dns_txid, g_dns_src_port, tick, pc, name,
                   result, sent, queries>>

Tick ==
    /\ tick < MaxTick
    /\ tick' = tick + 1
    /\ UNCHANGED <<g_dns_cache, g_dns_state, g_dns_txid, g_dns_src_port, pc, name,
                   result, sent, queries>>

DnsInit ==
    /\ g_dns_cache = [i \in Slots |-> Empty]
    /\ g_dns_state = NoQuery
    /\ g_dns_txid = 1
    /\ g_dns_src_port = MinPort
    /\ tick = 0
    /\ pc = "idle"
    /\ name = ""
    /\ result = Fail("")
    /\ sent = {}
    /\ queries = 0

DnsNext ==
    \/ \E n \in Names : CacheHit(n) \/ \E ok \in BOOLEAN : SendQuery(n, ok)
    \/ \E m \in Answers : dns_handle_udp_packet(m)
    \/ LookReceived
    \/ DnsDeadline
    \/ net_get_stats
    \/ Tick

-----------------------------------------------------------------------------
(* Properties.                                                             *)

\* A caller gets the address of the name it asked for, in whatever spelling,
\* from the cache or from the server, also when answers to earlier queries
\* that timed out come in during its own; and no answer is older than the
\* longest time an entry may live, however long the cache was not looked at.
AnswersTrue ==
    result.ok => /\ result.ip = Zone[Lower[result.name]]
                 /\ result.at - result.got < MaxTtl

=============================================================================
