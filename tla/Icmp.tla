-------------------------------- MODULE Icmp --------------------------------
(***************************************************************************)
(* Echo requests in both directions and the ARP cache under them: ping and *)
(* traceroute through net_icmp_probe_ipv4, net_handle_icmp, net_handle_arp *)
(* and the routing of net_ip.c.                                            *)
(*                                                                         *)
(* A probe is known by its sequence number; the identifier is one and the  *)
(* same.  Answers are lost, repeated and late, and the two programs share  *)
(* g_ping_state: while traceroute sleeps between two hops, ping runs.      *)
(* Handlers run in any net_poll, also when nobody waits.  Ticks are left   *)
(* out: deadlines may be due whenever the code compares the clock, and any *)
(* ARP entry may be the stale or the oldest one.                           *)
(***************************************************************************)
EXTENDS Integers, Sequences, FiniteSets

CONSTANTS
    Self,          \* g_net_config.ip
    Subnet,        \* the other addresses of the subnet
    Gateway,
    Path,          \* routers on the way to each address that can be probed
    Mac,           \* hardware address of Self and of each address in Subnet
    PingTtl,       \* 64
    MaxHops,       \* of traceroute
    MaxSequence,   \* 65535
    ArpCacheSize   \* ARP_CACHE_SIZE

Targets == DOMAIN Path

ASSUME IcmpAssumption ==
    /\ Gateway \in Subnet /\ Self \notin Subnet
    /\ DOMAIN Mac = Subnet \cup {Self}
    /\ \A d \in Targets : (d \in Subnet \cup {Self}) = (Path[d] = <<>>)
    /\ \A d \in Targets : Path[d] # <<>> => Head(Path[d]) = Gateway
    /\ \A d \in Targets : /\ Len(Path[d]) \in Nat
                          /\ \A k \in 1..Len(Path[d]) : Path[d][k] # d
    /\ PingTtl \in Nat \ {0} /\ MaxHops \in Nat \ {0}
    /\ MaxSequence \in Nat \ {0} /\ ArpCacheSize \in Nat \ {0}

VARIABLES
    g_ping_state,
    g_ping_sequence,
    g_arp_cache,   \* function from the cached addresses to hardware addresses
    call,          \* the net_icmp_probe_ipv4 under way: where it is, and for whom
    trace,         \* the traceroute under way, and the lines it has printed
    ping,          \* the last ping succeeded
    probes,        \* probes sent that may still be answered
    air,           \* answers that may still arrive
    frame          \* the last frame that was no broadcast: its address, its
                   \* hardware address

icmp_vars == <<g_ping_state, g_ping_sequence, g_arp_cache, call, trace, ping, probes,
               air, frame>>

NoProbe == [waiting |-> FALSE, received |-> FALSE, sequence |-> 0, expected |-> Self,
            accept |-> FALSE, reply |-> Self, type |-> "none"]
NoCall == [at |-> "none", by |-> "none", dst |-> Self, ttl |-> 0]
NoTrace == [dst |-> Self, ttl |-> 0, lines |-> <<>>, at |-> "done"]
NoFrame == [ip |-> Self, mac |-> Mac[Self]]

-----------------------------------------------------------------------------
(* Routing and the ARP cache.                                              *)

\* Slip: the netmask is not looked at.
net_pick_next_hop_Gateway(ip) == Gateway

\* A zero netmask is the instance whose Subnet has every address.  Without a
\* gateway the call fails, as ProbeFails does before the next hop is known.
net_pick_next_hop(ip) == IF ip \in Subnet THEN ip ELSE Gateway

\* The caches arp_cache_update may leave: a known address keeps its place, a
\* new one takes a free place or that of the oldest entry.
arp_cache_update(ip, mac) ==
    LET with(kept) == [a \in kept \cup {ip} |-> IF a = ip THEN mac ELSE g_arp_cache[a]]
        known == DOMAIN g_arp_cache
    IN  IF ip \in known \/ Cardinality(known) < ArpCacheSize
        THEN {with(known)}
        ELSE {with(known \ {oldest}) : oldest \in known}

\* The station of the subnet that a packet to or from ip passes: external.
MacOf(ip) == IF ip \in Subnet \cup {Self} THEN Mac[ip] ELSE Mac[Gateway]

arp_cache_expire_stale ==
    /\ \E a \in DOMAIN g_arp_cache :
          g_arp_cache' = [b \in DOMAIN g_arp_cache \ {a} |-> g_arp_cache[b]]
    /\ UNCHANGED <<g_ping_state, g_ping_sequence, call, trace, ping, probes, air, frame>>

-----------------------------------------------------------------------------
(* The other stations, external.                                           *)

\* The station that answers a probe: the one its time to live ends at, or
\* its destination.
Station(dst, ttl) == IF ttl <= Len(Path[dst]) THEN Path[dst][ttl] ELSE dst

StationAnswers(p) ==
    /\ air' = air \cup {[type |-> IF Station(p.dst, p.ttl) = p.dst THEN "reply"
                                  ELSE "exceeded",
                         from |-> Station(p.dst, p.ttl), probe |-> p]}
    /\ UNCHANGED <<g_ping_state, g_ping_sequence, g_arp_cache, call, trace, ping,
                   probes, frame>>

-----------------------------------------------------------------------------
(* net_handle_icmp and net_handle_arp                                      *)

\* Slip: the sequence number is not compared.
Expected_AnySequence(m) ==
    /\ g_ping_state.waiting /\ ~g_ping_state.received
    /\ m.probe.dst = g_ping_state.expected
    /\ m.type = "exceeded" => g_ping_state.accept

\* A router sends the probe that it gave up back inside its message.
icmp_match_embedded_probe(p) ==
    p.dst = g_ping_state.expected /\ p.sequence = g_ping_state.sequence

\* A reply of the host that was asked, or a message of a router.
Expected(m) ==
    /\ g_ping_state.waiting /\ ~g_ping_state.received
    /\ \/ /\ m.type = "reply"
          /\ m.probe.sequence = g_ping_state.sequence
          /\ m.from = g_ping_state.expected
       \/ /\ m.type = "exceeded" /\ g_ping_state.accept
          /\ icmp_match_embedded_probe(m.probe)

\* net_handle_ipv4 has noted the sender's hardware address before.
HandleAnswer(m) ==
    /\ g_arp_cache' \in arp_cache_update(m.from, MacOf(m.from))
    /\ g_ping_state' = IF Expected(m)
                       THEN [g_ping_state EXCEPT !.received = TRUE, !.reply = m.from,
                                                 !.type = m.type]
                       ELSE g_ping_state
    /\ UNCHANGED <<g_ping_sequence, call, trace, ping, probes, air, frame>>

\* The answer goes back to where the request came from.
HandleEchoRequest(ip) ==
    /\ g_arp_cache' \in arp_cache_update(ip, MacOf(ip))
    /\ frame' = [ip |-> ip, mac |-> MacOf(ip)]
    /\ UNCHANGED <<g_ping_state, g_ping_sequence, call, trace, ping, probes, air>>

\* A request for Self is answered; its sender, like that of an answer, is
\* noted.
net_handle_arp(ip, opcode) ==
    /\ g_arp_cache' \in arp_cache_update(ip, Mac[ip])
    /\ frame' = IF opcode = "request" THEN [ip |-> ip, mac |-> Mac[ip]] ELSE frame
    /\ UNCHANGED <<g_ping_state, g_ping_sequence, call, trace, ping, probes, air>>

-----------------------------------------------------------------------------
(* net_icmp_probe_ipv4                                                     *)

NextSequence(s) == IF s = MaxSequence THEN 1 ELSE s + 1

PingGoesOn(answer) ==
    /\ ping' = (answer # {})
    /\ UNCHANGED trace

\* A line is printed; the destination or the last hop ends the loop.
TraceGoesOn(answer) ==
    /\ trace' = [trace EXCEPT
            !.lines = Append(@, answer),
            !.at = IF \E a \in answer : a.type = "reply" /\ a.from = trace.dst
                   THEN "reached"
                   ELSE IF trace.ttl = MaxHops THEN "incomplete" ELSE "sleep"]
    /\ UNCHANGED ping

\* Whoever made the call gets no answer, or one.
ProgramGoesOn(answer) ==
    IF call.by = "ping" THEN PingGoesOn(answer) ELSE TraceGoesOn(answer)

\* Probes and answers of other numbers.  What a probe of this one would still
\* have brought, MaxSequence probes ago, is lost by now.
Other(sequence) == {q \in probes : q.sequence # sequence}
OtherAir(sequence) == {m \in air : m.probe.sequence # sequence}

SendProbe(dst, ttl, sequence, mac) ==
    /\ probes' = Other(sequence) \cup
                    {[dst |-> dst, ttl |-> ttl, sequence |-> sequence]}
    /\ frame' = [ip |-> dst, mac |-> mac]

\* The number is taken and the answer awaited before the next hop is resolved.
net_icmp_probe_ipv4(by, dst, ttl, accept) ==
    LET hop == net_pick_next_hop(dst)
        sequence == g_ping_sequence
    IN  /\ call.at = "none" /\ dst # Self
        /\ g_ping_sequence' = NextSequence(sequence)
        /\ g_ping_state' = [NoProbe EXCEPT !.waiting = TRUE, !.sequence = sequence,
                                           !.expected = dst, !.accept = accept]
        /\ IF hop \in DOMAIN g_arp_cache
           THEN /\ SendProbe(dst, ttl, sequence, g_arp_cache[hop])
                /\ call' = [at |-> "wait", by |-> by, dst |-> dst, ttl |-> ttl]
           ELSE /\ probes' = Other(sequence)
                /\ call' = [at |-> "arp", by |-> by, dst |-> dst, ttl |-> ttl]
                /\ UNCHANGED frame
        /\ air' = OtherAir(sequence)
        /\ UNCHANGED g_arp_cache

\* arp_resolve, while it polls, finds the next hop.
ArpResolved ==
    LET hop == net_pick_next_hop(call.dst)
    IN  /\ call.at = "arp" /\ hop \in DOMAIN g_arp_cache
        /\ SendProbe(call.dst, call.ttl, g_ping_state.sequence, g_arp_cache[hop])
        /\ call' = [call EXCEPT !.at = "wait"]
        /\ UNCHANGED <<g_ping_state, g_ping_sequence, g_arp_cache, trace, ping, air>>

\* The call returns without an answer: no next hop, a frame that the driver
\* could not send, or the deadline.
ProbeFails ==
    /\ \/ call.at = "arp"
       \/ call.at = "wait" /\ ~g_ping_state.received
    /\ g_ping_state' = [g_ping_state EXCEPT !.waiting = FALSE]
    /\ ProgramGoesOn({})
    /\ call' = NoCall
    /\ UNCHANGED <<g_ping_sequence, g_arp_cache, probes, air, frame>>

ProbeAnswered ==
    /\ call.at = "wait" /\ g_ping_state.received
    /\ g_ping_state' = [g_ping_state EXCEPT !.waiting = FALSE]
    /\ ProgramGoesOn({[from |-> g_ping_state.reply, type |-> g_ping_state.type]})
    /\ call' = NoCall
    /\ UNCHANGED <<g_ping_sequence, g_arp_cache, probes, air, frame>>

-----------------------------------------------------------------------------
(* The programs.                                                           *)

net_ping_ipv4(dst) ==
    /\ net_icmp_probe_ipv4("ping", dst, PingTtl, FALSE)
    /\ UNCHANGED <<trace, ping>>

traceroute(dst) ==
    /\ trace.at # "sleep" /\ call.by # "trace"
    /\ trace' = [dst |-> dst, ttl |-> 0, lines |-> <<>>, at |-> "sleep"]
    /\ UNCHANGED <<g_ping_state, g_ping_sequence, g_arp_cache, call, ping, probes, air,
                   frame>>

\* The next hop, a sleep after an answer or at once after a star; other
\* programs may run in between either way.
net_trace_probe_ipv4 ==
    /\ trace.at = "sleep" /\ trace.dst # Self
    /\ net_icmp_probe_ipv4("trace", trace.dst, trace.ttl + 1, TRUE)
    /\ trace' = [trace EXCEPT !.ttl = @ + 1, !.at = "probe"]
    /\ UNCHANGED ping

\* A probe of the own address is answered without a frame.
ProbeSelf ==
    /\ call.at = "none"
    /\ \/ /\ ping' = TRUE
          /\ UNCHANGED trace
       \/ /\ trace.at = "sleep" /\ trace.dst = Self
          /\ trace' = [trace EXCEPT !.ttl = 1, !.at = "reached",
                                    !.lines = <<{[from |-> Self, type |-> "reply"]}>>]
          /\ UNCHANGED ping
    /\ UNCHANGED <<g_ping_state, g_ping_sequence, g_arp_cache, call, probes, air, frame>>

IcmpInit ==
    /\ g_ping_state = NoProbe
    /\ g_ping_sequence = 1
    /\ g_arp_cache = <<>>
    /\ call = NoCall
    /\ trace = NoTrace
    /\ ping = FALSE
    /\ probes = {}
    /\ air = {}
    /\ frame = NoFrame

IcmpNext ==
    \/ \E dst \in Targets : net_ping_ipv4(dst) \/ traceroute(dst)
    \/ net_trace_probe_ipv4
    \/ ProbeSelf
    \/ ArpResolved
    \/ ProbeFails
    \/ ProbeAnswered
    \/ \E p \in probes : StationAnswers(p)
    \/ \E m \in air : HandleAnswer(m)
    \/ \E ip \in Targets \ {Self} : HandleEchoRequest(ip)
    \/ \E ip \in Subnet, opcode \in {"request", "reply"} : net_handle_arp(ip, opcode)
    \/ arp_cache_expire_stale

-----------------------------------------------------------------------------
(* Properties.                                                             *)

\* Each line traceroute has printed is a star or names the station at that
\* distance, and it stops early only at its destination, although answers to
\* earlier hops, and to the pings in between, come in late or twice.
TraceTruthful ==
    /\ \A k \in DOMAIN trace.lines : \A a \in trace.lines[k] :
           a.from = Station(trace.dst, k)
    /\ trace.at = "reached" => Len(trace.lines) > Len(Path[trace.dst])

\* A ping that succeeded was answered by the host itself, and in answer to
\* this very request: not to an earlier one that had timed out, and not by a
\* router that gave the request up.
PingMeansAnswered ==
    [][(call.at = "wait" /\ call.by = "ping" /\ call' = NoCall /\ ping') =>
        \E m \in air : /\ m.type = "reply" /\ m.from = call.dst
                       /\ m.probe.sequence = g_ping_state.sequence
                       /\ m.probe \in probes]_icmp_vars

\* Every frame goes to the station that is next on the way to its address,
\* whether the address was resolved, cached from a passing frame or taken
\* from the request that it answers.
FramesReachNextHop == frame.mac = MacOf(frame.ip)

=============================================================================
