------------------------- MODULE NetServicesProofs --------------------------
(***************************************************************************)
(* Proofs about the services over IP: the configuration at boot, the       *)
(* resolver, ping and traceroute, for any servers, zones and paths and     *)
(* whatever the network loses, repeats and delays.                         *)
(***************************************************************************)
EXTENDS MCNetServices, WellFoundedInduction, TLAPS

-----------------------------------------------------------------------------
(* Dhcp.                                                                   *)

DhcpStates == {"IDLE", "WAIT_OFFER", "OFFER_READY", "WAIT_ACK", "BOUND"}

\* Messages come from servers, and an ACK from one that does not refuse.
MessagesSound ==
    /\ toServers \subseteq {Discover} \cup {Request(s) : s \in Servers}
    /\ \A m \in toClient :
          /\ m.server \in Servers
          /\ m.type = "ACK" => m.server \notin refusing
          /\ m.type = "NAK" => m.server \in refusing

\* What the phase of the boot says about the exchange.
PhaseSound ==
    /\ state \in DhcpStates
    /\ phase = "boot" => toServers = {} /\ toClient = {} /\ state = "IDLE"
    /\ phase \in {"arp", "done"} => state \in {"IDLE", "BOUND"}

\* What was offered came from the server that is asked.
OfferSound ==
    state \in {"OFFER_READY", "WAIT_ACK", "BOUND"} =>
        server \in Servers /\ offered = OfferedOptions(server)

\* Where nobody refuses, no server but one is ever asked.
OneServerAsked ==
    refusing = {} =>
        /\ state \in {"WAIT_OFFER", "OFFER_READY"} =>
              /\ \A s \in Servers : Request(s) \notin toServers
              /\ \A m \in toClient : m.type # "ACK"
        /\ state \in {"WAIT_ACK", "BOUND"} =>
              /\ \A s \in Servers : Request(s) \in toServers => s = server
              /\ \A m \in toClient : m.type = "ACK" => m.server = server

DhcpIInv == MessagesSound /\ PhaseSound /\ OfferSound /\ OneServerAsked /\ LeaseSound

LEMMA DhcpStarts == DhcpInit \/ DhcpConfigured => DhcpIInv
BY DEF DhcpInit, DhcpConfigured, DhcpIInv, MessagesSound, PhaseSound, OfferSound,
       OneServerAsked, LeaseSound, DhcpStates

LEMMA DhcpRests == DhcpIInv /\ UNCHANGED dhcp_vars => DhcpIInv'
BY DEF dhcp_vars, DhcpIInv, MessagesSound, PhaseSound, OfferSound,
       OneServerAsked, LeaseSound, DhcpStates

\* Messages are told apart by their types.
LEMMA RequestsDiffer ==
    /\ \A s : Request(s) # Discover
    /\ \A s, t : Request(s) = Request(t) => s = t
<1>1. \A s : Request(s).type = "REQUEST" /\ Request(s).server = s
  BY DEF Request
<1>2. Discover.type = "DISCOVER"
  BY DEF Discover
<1> QED BY <1>1, <1>2

\* A step that leaves the configuration alone, or the exchange unbound.
LEMMA LeaseStays ==
    ASSUME DhcpIInv, UNCHANGED <<g_net_config, server, refusing>>,
           state' = "BOUND" => state = "BOUND"
    PROVE  LeaseSound'
BY DEF DhcpIInv, LeaseSound, NetworkOf

\* The lease is that of the server whose ACK is handled, which nobody but the
\* one that was asked sends where nobody refuses.
LEMMA AckKeeps ==
    ASSUME DhcpIInv, NEW m \in toClient, m.type = "ACK", dhcp_handle_packet(m)
    PROVE  DhcpIInv'
<1> DEFINE s == m.server
<1>1. /\ state = "WAIT_ACK" /\ state' = "BOUND" /\ g_net_config' = dhcp_apply_ack(s)
      /\ toClient' \subseteq toClient
      /\ UNCHANGED <<server, offered, toServers, phase, refusing>>
  BY DEF dhcp_handle_packet, HandleAck
<1>2. s \in Servers \ refusing /\ server \in Servers /\ offered = OfferedOptions(server)
  BY <1>1 DEF DhcpIInv, MessagesSound, OfferSound
<1>3. MessagesSound'
  BY <1>1 DEF DhcpIInv, MessagesSound
<1>4. PhaseSound'
  BY <1>1 DEF DhcpIInv, PhaseSound, DhcpStates
<1>5. OfferSound'
  BY <1>1, <1>2 DEF OfferSound
<1>6. OneServerAsked'
  BY <1>1 DEF DhcpIInv, OneServerAsked
<1>7. LeaseSound'
  <2> DEFINE conf == dhcp_apply_ack(s)
  <2>1. s \in NoAckAddr \/ conf.ip = Address(s)
    BY DEF dhcp_apply_ack
  <2>2. ASSUME NEW o \in AckOpts[s]
        PROVE  conf.opts[o] = Value(s, "ack", o)
    <3>1. o \in Options
      BY <1>2, DhcpAssumption
    <3> QED BY <3>1 DEF dhcp_apply_ack
  <2>3. ASSUME refusing = {}
        PROVE  conf = NetworkOf(server)
    <3>1. s = server
      BY <1>1, <2>3 DEF DhcpIInv, OneServerAsked
    <3>2. \A o \in Options : Value(server, "offer", o) # Unset
      BY DEF Value, Unset
    <3>3. \A o \in Options : offered[o] = IF o \in OfferOpts[server] THEN Value(server, "offer", o)
                                          ELSE Unset
      BY <1>2 DEF OfferedOptions
    <3> DEFINE given(o) == IF o \in AckOpts[s] THEN Value(s, "ack", o)
                           ELSE IF offered[o] # Unset THEN offered[o]
                           ELSE Default(o)
               served(o) == IF o \in AckOpts[server] THEN Value(server, "ack", o)
                            ELSE IF o \in OfferOpts[server] THEN Value(server, "offer", o)
                            ELSE Default(o)
    <3>4. \A o \in Options : given(o) = served(o)
      BY <3>1, <3>2, <3>3, Zenon
    <3>5. conf = [configured |-> TRUE, ip |-> Address(server), opts |-> [o \in Options |-> given(o)]]
      BY <3>1, Zenon DEF dhcp_apply_ack
    <3>6. NetworkOf(server) =
             [configured |-> TRUE, ip |-> Address(server), opts |-> [o \in Options |-> served(o)]]
      BY Zenon DEF NetworkOf
    <3> HIDE DEF given, served
    <3>7. [o \in Options |-> given(o)] = [o \in Options |-> served(o)]
      BY <3>4
    <3> QED BY <3>5, <3>6, <3>7, Zenon
  <2> HIDE DEF conf
  <2>4. g_net_config' = conf /\ server' = server /\ refusing' = refusing
    BY <1>1 DEF conf
  <2>5. NetworkOf(server)' = NetworkOf(server)
    BY <1>1 DEF NetworkOf
  <2> QED BY <1>2, <2>1, <2>2, <2>3, <2>4, <2>5 DEF LeaseSound
<1> QED BY <1>3, <1>4, <1>5, <1>6, <1>7 DEF DhcpIInv

LEMMA OfferKeeps ==
    ASSUME DhcpIInv, NEW m \in toClient, m.type = "OFFER", dhcp_handle_packet(m)
    PROVE  DhcpIInv'
<1>1. /\ state = "WAIT_OFFER" /\ state' = "OFFER_READY"
      /\ server' = m.server /\ offered' = OfferedOptions(m.server)
      /\ toClient' \subseteq toClient
      /\ UNCHANGED <<g_net_config, toServers, phase, refusing>>
  BY DEF dhcp_handle_packet, HandleOffer
<1>2. MessagesSound' /\ m.server \in Servers
  BY <1>1 DEF DhcpIInv, MessagesSound
<1>3. PhaseSound'
  BY <1>1 DEF DhcpIInv, PhaseSound, DhcpStates
<1>4. OfferSound'
  BY <1>1, <1>2 DEF OfferSound
<1>5. OneServerAsked'
  BY <1>1 DEF DhcpIInv, OneServerAsked
<1>6. LeaseSound'
  BY <1>1 DEF LeaseSound
<1> QED BY <1>2, <1>3, <1>4, <1>5, <1>6 DEF DhcpIInv

\* A refusal starts the exchange over; it comes from a server that refuses.
LEMMA NakKeeps ==
    ASSUME DhcpIInv, NEW m \in toClient, m.type = "NAK", dhcp_handle_packet(m)
    PROVE  DhcpIInv'
<1>1. /\ state = "WAIT_ACK" /\ state' = "WAIT_OFFER" /\ toServers' = toServers \cup {Discover}
      /\ toClient' \subseteq toClient
      /\ UNCHANGED <<server, offered, g_net_config, phase, refusing>>
  BY DEF dhcp_handle_packet, HandleNak
<1>2. MessagesSound' /\ refusing # {}
  BY <1>1 DEF DhcpIInv, MessagesSound
<1>3. PhaseSound'
  BY <1>1 DEF DhcpIInv, PhaseSound, DhcpStates
<1>4. OfferSound'
  BY <1>1 DEF OfferSound
<1>5. OneServerAsked'
  BY <1>1, <1>2 DEF OneServerAsked
<1>6. LeaseSound'
  BY <1>1 DEF LeaseSound
<1> QED BY <1>2, <1>3, <1>4, <1>5, <1>6 DEF DhcpIInv

LEMMA PacketKeeps ==
    ASSUME DhcpIInv, NEW m \in toClient, dhcp_handle_packet(m)
    PROVE  DhcpIInv'
<1>1. m.type = "OFFER" \/ m.type = "ACK" \/ m.type = "NAK"
  BY DEF dhcp_handle_packet
<1> QED BY <1>1, OfferKeeps, AckKeeps, NakKeeps

LEMMA ServerKeeps ==
    ASSUME DhcpIInv, NEW s \in Servers, ServerOffers(s) \/ ServerDecides(s)
    PROVE  DhcpIInv'
<1>1. PICK m : /\ toClient' = toClient \cup {m}
               /\ m.server = s
               /\ \/ m.type = "OFFER" /\ Discover \in toServers
                  \/ /\ m.type = IF s \in refusing THEN "NAK" ELSE "ACK"
                     /\ Request(s) \in toServers
  <2> DEFINE offer == [type |-> "OFFER", server |-> s]
             answer == IF s \in refusing THEN "NAK" ELSE "ACK"
             decision == [type |-> answer, server |-> s]
  <2>1. offer.server = s /\ offer.type = "OFFER" /\ decision.server = s /\ decision.type = answer
    OBVIOUS
  <2>2. \/ toClient' = toClient \cup {offer} /\ Discover \in toServers
        \/ toClient' = toClient \cup {decision} /\ Request(s) \in toServers
    BY DEF ServerOffers, ServerDecides
  <2> HIDE DEF offer, decision
  <2> QED BY <2>1, <2>2
<1>2. UNCHANGED <<state, server, offered, g_net_config, phase, frames, toServers, refusing>>
  BY DEF ServerOffers, ServerDecides
<1>3. MessagesSound'
  BY <1>1, <1>2 DEF DhcpIInv, MessagesSound
<1>4. PhaseSound'
  BY <1>1, <1>2 DEF DhcpIInv, PhaseSound, DhcpStates
<1>5. OfferSound'
  BY <1>2 DEF DhcpIInv, OfferSound
<1>6. OneServerAsked'
  BY <1>1, <1>2 DEF DhcpIInv, OneServerAsked
<1>7. LeaseSound'
  BY <1>2, LeaseStays
<1> QED BY <1>3, <1>4, <1>5, <1>6, <1>7 DEF DhcpIInv

LEMMA LossKeeps ==
    ASSUME DhcpIInv, Lose
    PROVE  DhcpIInv'
<1>1. /\ toServers' \subseteq toServers /\ toClient' \subseteq toClient
      /\ UNCHANGED <<state, server, offered, g_net_config, phase, refusing>>
  BY DEF Lose
<1>2. MessagesSound'
  BY <1>1 DEF DhcpIInv, MessagesSound
<1>3. PhaseSound' /\ OfferSound'
  BY <1>1 DEF DhcpIInv, PhaseSound, OfferSound, DhcpStates
<1>4. OneServerAsked'
  BY <1>1 DEF DhcpIInv, OneServerAsked
<1>5. LeaseSound'
  BY <1>1, LeaseStays
<1> QED BY <1>2, <1>3, <1>4, <1>5 DEF DhcpIInv

LEMMA BootKeeps ==
    ASSUME DhcpIInv, Boot
    PROVE  DhcpIInv'
<1>1. ASSUME NEW ok \in BOOLEAN, net_configure_dhcp(ok)
      PROVE  DhcpIInv'
  <2>1. /\ phase = "boot" /\ state' = "WAIT_OFFER" /\ toServers' \in {{Discover}, toServers}
        /\ phase' \in {"dhcp", "failed"}
        /\ UNCHANGED <<g_net_config, toClient, refusing>>
    BY <1>1 DEF net_configure_dhcp
  <2>2. toServers = {} /\ toClient = {}
    BY <2>1 DEF DhcpIInv, PhaseSound
  <2>3. MessagesSound' /\ OneServerAsked'
    BY <2>1, <2>2, RequestsDiffer DEF MessagesSound, OneServerAsked
  <2> QED BY <2>1, <2>3 DEF DhcpIInv, PhaseSound, DhcpStates, OfferSound, LeaseSound
<1>2. CASE net_configure_static
  <2>1. state' = "IDLE" /\ phase' = "done" /\ UNCHANGED <<toServers, toClient, refusing>>
    BY <1>2 DEF net_configure_static
  <2>2. MessagesSound'
    BY <2>1 DEF DhcpIInv, MessagesSound
  <2> QED BY <2>1, <2>2 DEF DhcpIInv, PhaseSound, DhcpStates, OfferSound, OneServerAsked, LeaseSound
<1> QED BY <1>1, <1>2 DEF Boot

\* The server asked is the one whose offer was taken.
LEMMA RequestKeeps ==
    ASSUME DhcpIInv, LookOfferReady(TRUE)
    PROVE  DhcpIInv'
<1>1. /\ phase = "dhcp" /\ state = "OFFER_READY" /\ state' = "WAIT_ACK"
      /\ toServers' = toServers \cup {Request(server)}
      /\ UNCHANGED <<phase, server, offered, g_net_config, toClient, refusing>>
  BY DEF LookOfferReady
<1>2. server \in Servers /\ offered = OfferedOptions(server)
  BY <1>1 DEF DhcpIInv, OfferSound
<1>3. MessagesSound'
  BY <1>1, <1>2 DEF DhcpIInv, MessagesSound
<1>4. PhaseSound' /\ OfferSound'
  BY <1>1, <1>2 DEF PhaseSound, OfferSound, DhcpStates
<1>5. OneServerAsked'
  BY <1>1, RequestsDiffer DEF DhcpIInv, OneServerAsked
<1>6. LeaseSound'
  BY <1>1 DEF LeaseSound
<1> QED BY <1>3, <1>4, <1>5, <1>6 DEF DhcpIInv

LEMMA RetryKeeps ==
    ASSUME DhcpIInv, Retry
    PROVE  DhcpIInv'
<1>1. /\ phase = "dhcp"
      /\ \/ state = "WAIT_OFFER" /\ toServers' = toServers \cup {Discover}
         \/ state = "WAIT_ACK" /\ toServers' = toServers \cup {Request(server)}
      /\ UNCHANGED <<state, server, offered, g_net_config, phase, toClient, refusing>>
  BY DEF Retry
<1>2. MessagesSound'
  BY <1>1 DEF DhcpIInv, MessagesSound, OfferSound
<1>3. PhaseSound' /\ OfferSound'
  BY <1>1 DEF DhcpIInv, PhaseSound, OfferSound, DhcpStates
<1>4. OneServerAsked'
  BY <1>1, RequestsDiffer DEF DhcpIInv, OneServerAsked
<1>5. LeaseSound'
  BY <1>1 DEF LeaseSound
<1> QED BY <1>2, <1>3, <1>4, <1>5 DEF DhcpIInv

\* The other steps of the boot move its phase on.
LEMMA PhaseMovesOn ==
    ASSUME DhcpIInv, LookOfferReady(FALSE) \/ LookBound \/ LookAgain \/ GatewayResolved \/ Deadline
    PROVE  DhcpIInv'
<1>1. /\ UNCHANGED <<state, server, offered, g_net_config, toServers, toClient, refusing>>
      /\ phase' # "boot"
      /\ phase' \in {"arp", "done"} => state = "BOUND" \/ phase = "arp"
  BY DEF LookOfferReady, LookBound, LookAgain, GatewayResolved, Deadline
<1>2. MessagesSound' /\ OfferSound' /\ OneServerAsked'
  BY <1>1 DEF DhcpIInv, MessagesSound, OfferSound, OneServerAsked
<1>3. PhaseSound'
  BY <1>1 DEF DhcpIInv, PhaseSound, DhcpStates
<1>4. LeaseSound'
  BY <1>1, LeaseStays
<1> QED BY <1>2, <1>3, <1>4 DEF DhcpIInv

LEMMA DhcpKeeps == DhcpIInv /\ DhcpNext => DhcpIInv'
<1> SUFFICES ASSUME DhcpIInv, DhcpNext PROVE DhcpIInv'
  OBVIOUS
<1>1. ASSUME NEW ok \in BOOLEAN, LookOfferReady(ok)
      PROVE  LookOfferReady(TRUE) \/ LookOfferReady(FALSE)
  BY <1>1
<1> QED BY <1>1, PacketKeeps, ServerKeeps, LossKeeps, BootKeeps, RequestKeeps, RetryKeeps,
           PhaseMovesOn DEF DhcpNext, Looks

\* Once the boot is over, no message finds the exchange in a state in which
\* it would change the configuration.
LEMMA ConfiguredStays ==
    ASSUME DhcpIInv, DhcpNext, phase = "done"
    PROVE  g_net_config' = g_net_config
<1>1. state \in {"IDLE", "BOUND"}
  BY DEF DhcpIInv, PhaseSound
<1>2. ASSUME NEW m \in toClient, dhcp_handle_packet(m)
      PROVE  FALSE
  BY <1>1, <1>2 DEF dhcp_handle_packet, HandleOffer, HandleAck, HandleNak
<1> QED BY <1>2 DEF DhcpNext, Boot, net_configure_dhcp, net_configure_static, Looks,
                    LookOfferReady, LookBound, LookAgain, GatewayResolved, Retry, Deadline,
                    ServerOffers, ServerDecides, Lose

-----------------------------------------------------------------------------
(* Numbers that count round.                                               *)

\* Quotient and remainder are unique.
LEMMA ModUnique ==
    ASSUME NEW T \in Nat \ {0}, NEW x \in Int, NEW q \in Int, NEW r \in 0 .. T - 1,
           x = T * q + r
    PROVE  x % T = r
<1> DEFINE d == x \div T
           s == x % T
<1>1. d \in Int /\ s \in 0 .. T - 1 /\ x = T * d + s
  OBVIOUS
<1> HIDE DEF d, s
<1>2. T * (q - d) = s - r
  BY <1>1
<1>3. q - d >= 1 => T * (q - d) >= T
  BY <1>1
<1>4. d - q >= 1 => T * (d - q) >= T
  BY <1>1
<1>5. q = d
  BY <1>1, <1>2, <1>3, <1>4
<1> QED BY <1>1, <1>2, <1>5 DEF s

\* The next number, or the first one again.
LEMMA ModNext ==
    ASSUME NEW T \in Nat \ {0}, NEW k \in Nat
    PROVE  /\ k % T \in 0 .. T - 1
           /\ (k + 1) % T = IF k % T = T - 1 THEN 0 ELSE (k % T) + 1
<1> DEFINE d == k \div T
           s == k % T
<1>1. d \in Int /\ s \in 0 .. T - 1 /\ k = T * d + s
  OBVIOUS
<1> HIDE DEF d, s
<1>2. CASE s = T - 1
  <2>1. k + 1 = T * (d + 1) + 0
    BY <1>1, <1>2
  <2>2. (k + 1) % T = 0
    BY <1>1, <2>1, ModUnique
  <2> QED BY <1>1, <1>2, <2>2 DEF s
<1>3. CASE s # T - 1
  <2>1. k + 1 = T * d + (s + 1) /\ s + 1 \in 0 .. T - 1
    BY <1>1, <1>3
  <2>2. (k + 1) % T = s + 1
    BY <1>1, <2>1, ModUnique
  <2> QED BY <1>1, <1>3, <2>2 DEF s
<1> QED BY <1>2, <1>3

\* Two counts that show the same number are whole rounds apart.
LEMMA ModSame ==
    ASSUME NEW T \in Nat \ {0}, NEW k \in Nat, NEW j \in Nat, k % T = j % T
    PROVE  (j - k) % T = 0
<1>1. PICK d \in Int, e \in Int, s \in 0 .. T - 1 : k = T * d + s /\ j = T * e + s
  <2>1. k \div T \in Int /\ k % T \in 0 .. T - 1 /\ k = T * (k \div T) + (k % T)
    OBVIOUS
  <2>2. j \div T \in Int /\ j % T \in 0 .. T - 1 /\ j = T * (j \div T) + (j % T)
    OBVIOUS
  <2> QED BY <2>1, <2>2
<1>2. j - k = T * (e - d) + 0
  BY <1>1
<1> QED BY <1>2, ModUnique

-----------------------------------------------------------------------------
(* Dns.                                                                    *)

\* Transaction number and port have not come round together: 65535 and 16384
\* have no common factor, so that takes more than a thousand million queries.
NumbersLast ==
    \A k \in 1 .. MaxQueries - 1 :
        ~(k % MaxTxid = 0 /\ k % (MaxPort - MinPort + 1) = 0)

Addresses == {Zone[n] : n \in Names} \cup {ZeroIp}

CacheRecord == [valid : BOOLEAN, host : Names \cup {""}, ip : Addresses,
                expires : Nat, updated : Nat]

QueryRecord == [waiting : BOOLEAN, received : BOOLEAN, txid : Int, src_port : Int,
                ip : Addresses, ttl : Nat]

\* A valid entry tells the truth and was not given more than the longest life.
CacheSound ==
    /\ g_dns_cache \in [Slots -> CacheRecord]
    /\ \A i \in Slots :
          g_dns_cache[i].valid =>
              /\ g_dns_cache[i].host \in Names
              /\ g_dns_cache[i].ip = Zone[g_dns_cache[i].host]
              /\ g_dns_cache[i].expires <= g_dns_cache[i].updated + MaxTtl

\* The numbers are those of the next query.
CountersSound ==
    /\ tick \in Nat
    /\ queries \in 0 .. MaxQueries
    /\ g_dns_txid = 1 + (queries % MaxTxid)
    /\ g_dns_src_port = MinPort + (queries % (MaxPort - MinPort + 1))

\* The numbers of a query tell for which name it was.
SentSound ==
    /\ \A q \in sent :
          /\ q.name \in Names
          /\ \E k \in 0 .. queries - 1 :
                /\ q.txid = 1 + (k % MaxTxid)
                /\ q.port = MinPort + (k % (MaxPort - MinPort + 1))
    /\ \A q, r \in sent : q.txid = r.txid /\ q.port = r.port => q.name = r.name

\* The query waited for is that of the call, and so is the answer.
WaitSound ==
    /\ g_dns_state \in QueryRecord
    /\ pc = "wait" =>
          /\ name \in Names
          /\ \E q \in sent :
                q.txid = g_dns_state.txid /\ q.port = g_dns_state.src_port /\ q.name = name
          /\ g_dns_state.received => g_dns_state.ip = Zone[Lower[name]]

DnsIInv == CacheSound /\ CountersSound /\ SentSound /\ WaitSound /\ AnswersTrue

LEMMA DnsSizes ==
    /\ MaxTxid \in Nat \ {0} /\ MaxPort - MinPort + 1 \in Nat \ {0}
    /\ MinPort \in Nat /\ MaxPort \in Nat
    /\ MinTtl \in Nat \ {0} /\ MaxTtl \in Nat \ {0} /\ MinTtl <= MaxTtl
    /\ \A n \in Names : Lower[n] \in Names /\ Zone[Lower[n]] \in Addresses
BY DnsAssumption DEF Addresses

\* A positive set of slots has a lowest one.
LEMMA LowestIsIn ==
    ASSUME NEW S \in SUBSET Nat, S # {}
    PROVE  Lowest(S) \in S
<1> DEFINE LT == {ss \in Nat \X Nat : ss[1] < ss[2]}
<1>1. IsWellFoundedOn(LT, Nat)
  BY NatLessThanWellFounded, Zenon DEF OpToRel
<1> HIDE DEF LT
<1>2. PICK x \in S : \A y \in S : ~(<<y, x>> \in LT)
  BY <1>1, WFMin
<1>3. ASSUME NEW y \in S PROVE x <= y
  <2>1. <<y, x>> \in Nat \X Nat /\ <<y, x>>[1] = y /\ <<y, x>>[2] = x
    OBVIOUS
  <2>2. y < x => <<y, x>> \in LT
    BY <2>1, Zenon DEF LT
  <2> QED BY <1>2, <2>2
<1> QED BY <1>3 DEF Lowest

\* Assignments to the fields of an entry and of the query.
LEMMA ValidAssigned ==
    ASSUME NEW r \in CacheRecord, NEW v
    PROVE  [r EXCEPT !.valid = v] =
               [valid |-> v, host |-> r.host, ip |-> r.ip, expires |-> r.expires,
                updated |-> r.updated]
<1>1. r = [valid |-> r.valid, host |-> r.host, ip |-> r.ip, expires |-> r.expires,
           updated |-> r.updated]
  BY DEF CacheRecord
<1> QED BY <1>1

LEMMA WaitingAssigned ==
    ASSUME NEW r \in QueryRecord, NEW w
    PROVE  [r EXCEPT !.waiting = w] =
               [waiting |-> w, received |-> r.received, txid |-> r.txid,
                src_port |-> r.src_port, ip |-> r.ip, ttl |-> r.ttl]
<1>1. r = [waiting |-> r.waiting, received |-> r.received, txid |-> r.txid,
           src_port |-> r.src_port, ip |-> r.ip, ttl |-> r.ttl]
  BY DEF QueryRecord
<1> QED BY <1>1

LEMMA AnswerAssigned ==
    ASSUME NEW r \in QueryRecord, NEW a, NEW t
    PROVE  [r EXCEPT !.received = TRUE, !.ip = a, !.ttl = t] =
               [waiting |-> r.waiting, received |-> TRUE, txid |-> r.txid,
                src_port |-> r.src_port, ip |-> a, ttl |-> t]
<1>1. r = [waiting |-> r.waiting, received |-> r.received, txid |-> r.txid,
           src_port |-> r.src_port, ip |-> r.ip, ttl |-> r.ttl]
  BY DEF QueryRecord
<1> DEFINE w == r.waiting
           c == r.received
           x == r.txid
           p == r.src_port
           i == r.ip
           l == r.ttl
           v == TRUE
           r1 == [r EXCEPT !.received = v]
           r2 == [r1 EXCEPT !.ip = a]
           r3 == [r2 EXCEPT !.ttl = t]
<1>2. r = [waiting |-> w, received |-> c, txid |-> x, src_port |-> p, ip |-> i, ttl |-> l]
  BY <1>1
<1> HIDE DEF w, c, x, p, i, l, v
<1>3. r1 = [waiting |-> w, received |-> v, txid |-> x, src_port |-> p, ip |-> i, ttl |-> l]
  BY <1>2
<1> HIDE DEF r1
<1>4. r2 = [waiting |-> w, received |-> v, txid |-> x, src_port |-> p, ip |-> a, ttl |-> l]
  BY <1>3
<1> HIDE DEF r2
<1>5. r3 = [waiting |-> w, received |-> v, txid |-> x, src_port |-> p, ip |-> a, ttl |-> t]
  BY <1>4
<1> QED BY <1>5, Zenon DEF r1, r2, w, x, p, v

LEMMA ValidType ==
    ASSUME NEW r \in CacheRecord, NEW v \in BOOLEAN
    PROVE  [valid |-> v, host |-> r.host, ip |-> r.ip, expires |-> r.expires,
            updated |-> r.updated] \in CacheRecord
BY DEF CacheRecord

LEMMA DnsStarts == DnsInit => DnsIInv
<1> SUFFICES ASSUME DnsInit PROVE DnsIInv
  OBVIOUS
<1>1. Empty \in CacheRecord /\ Empty.valid = FALSE /\ NoQuery \in QueryRecord
  BY DnsSizes DEF Empty, CacheRecord, NoQuery, QueryRecord, Addresses
<1>2. CacheSound
  BY <1>1 DEF DnsInit, CacheSound
<1>3. CountersSound
  <2>1. 0 % MaxTxid = 0 /\ 0 % (MaxPort - MinPort + 1) = 0
    BY DnsSizes, ModUnique
  <2>2. tick = 0 /\ queries = 0 /\ g_dns_txid = 1 /\ g_dns_src_port = MinPort
    BY DEF DnsInit
  <2>3. MaxQueries \in Nat /\ MinPort \in Nat
    BY DnsAssumption
  <2> QED BY <2>1, <2>2, <2>3 DEF CountersSound
<1>4. SentSound /\ WaitSound
  BY <1>1 DEF DnsInit, SentSound, WaitSound
<1>5. AnswersTrue
  BY DEF DnsInit, AnswersTrue, Fail
<1> QED BY <1>2, <1>3, <1>4, <1>5 DEF DnsIInv

LEMMA DnsRests == DnsIInv /\ UNCHANGED dns_vars => DnsIInv'
<1> SUFFICES ASSUME DnsIInv, UNCHANGED dns_vars PROVE DnsIInv'
  OBVIOUS
<1> USE DEF dns_vars
<1>1. CacheSound' /\ CountersSound'
  BY DEF DnsIInv, CacheSound, CountersSound
<1>2. SentSound' /\ WaitSound' /\ AnswersTrue'
  BY DEF DnsIInv, SentSound, WaitSound, AnswersTrue
<1> QED BY <1>1, <1>2 DEF DnsIInv

\* Expiring keeps what is true, and leaves no entry past its time.
LEMMA ExpiryKeeps ==
    ASSUME DnsIInv, NEW cache, cache = dns_cache_expire_stale(g_dns_cache)
    PROVE  /\ cache \in [Slots -> CacheRecord]
           /\ \A i \in Slots :
                 /\ cache[i].valid =>
                       /\ cache[i].host \in Names
                       /\ cache[i].ip = Zone[cache[i].host]
                       /\ tick < cache[i].expires
                       /\ cache[i].expires <= cache[i].updated + MaxTtl
                 /\ cache[i].updated \in Nat /\ cache[i].expires \in Nat
<1> DEFINE fresh(i) == g_dns_cache[i].valid /\ tick < g_dns_cache[i].expires
           slot(i) == [g_dns_cache[i] EXCEPT !.valid = @ /\ tick < g_dns_cache[i].expires]
<1>1. cache = [i \in Slots |-> slot(i)]
  BY Zenon DEF dns_cache_expire_stale
<1>2. \A i \in Slots : g_dns_cache[i] \in CacheRecord
  BY DEF DnsIInv, CacheSound
<1>3. ASSUME NEW i \in Slots
      PROVE  slot(i) = [valid |-> fresh(i), host |-> g_dns_cache[i].host,
                        ip |-> g_dns_cache[i].ip, expires |-> g_dns_cache[i].expires,
                        updated |-> g_dns_cache[i].updated]
  BY <1>2, ValidAssigned, Zenon
<1>8. \A i \in Slots : /\ fresh(i) \in BOOLEAN
                       /\ fresh(i) => g_dns_cache[i].valid /\ tick < g_dns_cache[i].expires
  OBVIOUS
<1> HIDE DEF fresh
<1> HIDE DEF slot
<1>4. ASSUME NEW i \in Slots
      PROVE  /\ slot(i) \in CacheRecord
             /\ slot(i).valid => g_dns_cache[i].valid /\ tick < g_dns_cache[i].expires
             /\ slot(i).host = g_dns_cache[i].host /\ slot(i).ip = g_dns_cache[i].ip
             /\ slot(i).expires = g_dns_cache[i].expires
             /\ slot(i).updated = g_dns_cache[i].updated
  <2>1. slot(i).valid = fresh(i) /\ slot(i).host = g_dns_cache[i].host
        /\ slot(i).ip = g_dns_cache[i].ip /\ slot(i).expires = g_dns_cache[i].expires
        /\ slot(i).updated = g_dns_cache[i].updated
    BY <1>3
  <2>2. slot(i) \in CacheRecord
    BY <1>2, <1>3, <1>8, ValidType, Zenon
  <2> QED BY <1>8, <2>1, <2>2
<1>5. \A i \in Slots : slot(i).updated \in Nat /\ slot(i).expires \in Nat
  BY <1>4 DEF CacheRecord
<1>6. \A i \in Slots : cache[i] = slot(i)
  BY <1>1
<1>7. \A i \in Slots : g_dns_cache[i].valid =>
         /\ g_dns_cache[i].host \in Names
         /\ g_dns_cache[i].ip = Zone[g_dns_cache[i].host]
         /\ g_dns_cache[i].expires <= g_dns_cache[i].updated + MaxTtl
  BY DEF DnsIInv, CacheSound
<1> QED BY <1>1, <1>4, <1>5, <1>6, <1>7

\* A query that nothing has been heard of.
Asked(x, p, w) == [waiting |-> w, received |-> FALSE, txid |-> x, src_port |-> p,
                   ip |-> ZeroIp, ttl |-> MinTtl]

LEMMA AskedType ==
    ASSUME NEW x \in Int, NEW p \in Int, NEW w \in BOOLEAN
    PROVE  /\ Asked(x, p, w) \in QueryRecord
           /\ Asked(x, p, w).txid = x /\ Asked(x, p, w).src_port = p
           /\ Asked(x, p, w).received = FALSE
<1> DEFINE no == FALSE
<1>1. no \in BOOLEAN /\ ZeroIp \in Addresses /\ MinTtl \in Nat
  BY DnsSizes DEF Addresses
<1>2. Asked(x, p, w) = [waiting |-> w, received |-> no, txid |-> x, src_port |-> p,
                        ip |-> ZeroIp, ttl |-> MinTtl]
  BY DEF Asked
<1> HIDE DEF no
<1>3. [waiting |-> w, received |-> no, txid |-> x, src_port |-> p, ip |-> ZeroIp, ttl |-> MinTtl]
         \in QueryRecord
  BY <1>1 DEF QueryRecord
<1>4. Asked(x, p, w).txid = x /\ Asked(x, p, w).src_port = p /\ Asked(x, p, w).received = no
  BY <1>2
<1> QED BY <1>2, <1>3, <1>4 DEF no

LEMMA NewQuery ==
    ASSUME NEW x, NEW p
    PROVE  /\ [NoQuery EXCEPT !.txid = x, !.src_port = p] = Asked(x, p, FALSE)
           /\ [[NoQuery EXCEPT !.txid = x, !.src_port = p] EXCEPT !.waiting = TRUE] =
                 Asked(x, p, TRUE)
<1> DEFINE no == FALSE
           yes == TRUE
           zero == 0
           q1 == [NoQuery EXCEPT !.txid = x]
           q2 == [q1 EXCEPT !.src_port = p]
           q3 == [q2 EXCEPT !.waiting = yes]
<1>1. NoQuery = [waiting |-> no, received |-> no, txid |-> zero, src_port |-> zero,
                 ip |-> ZeroIp, ttl |-> MinTtl]
  BY DEF NoQuery
<1> HIDE DEF no, yes, zero
<1>2. q1 = [waiting |-> no, received |-> no, txid |-> x, src_port |-> zero,
            ip |-> ZeroIp, ttl |-> MinTtl]
  BY <1>1
<1> HIDE DEF q1
<1>3. q2 = [waiting |-> no, received |-> no, txid |-> x, src_port |-> p,
            ip |-> ZeroIp, ttl |-> MinTtl]
  BY <1>2
<1> HIDE DEF q2
<1>4. q3 = [waiting |-> yes, received |-> no, txid |-> x, src_port |-> p,
            ip |-> ZeroIp, ttl |-> MinTtl]
  BY <1>3
<1> QED BY <1>3, <1>4, Zenon DEF q1, q2, no, yes, Asked

\* No query that was sent has the numbers of the next one.
LEMMA NumbersFresh ==
    ASSUME NumbersLast, DnsIInv, queries < MaxQueries, NEW q \in sent
    PROVE  ~(q.txid = g_dns_txid /\ q.port = g_dns_src_port)
<1> DEFINE T == MaxTxid
           P == MaxPort - MinPort + 1
<1>1. T \in Nat \ {0} /\ P \in Nat \ {0} /\ MaxQueries \in Nat /\ MinPort \in Nat
  BY DnsSizes, DnsAssumption
<1>2. PICK k \in 0 .. queries - 1 : q.txid = 1 + (k % T) /\ q.port = MinPort + (k % P)
  BY DEF DnsIInv, SentSound
<1>3. g_dns_txid = 1 + (queries % T) /\ g_dns_src_port = MinPort + (queries % P)
      /\ queries \in Nat
  BY DEF DnsIInv, CountersSound
<1>4. \A j \in 1 .. MaxQueries - 1 : ~(j % T = 0 /\ j % P = 0)
  BY DEF NumbersLast
<1> HIDE DEF T, P
<1>5. k \in Nat /\ queries - k \in 1 .. MaxQueries - 1
  BY <1>1, <1>2, <1>3
<1>6. k % T \in Int /\ queries % T \in Int /\ k % P \in Int /\ queries % P \in Int
  BY <1>1, <1>3, <1>5
<1>7. ASSUME q.txid = g_dns_txid, q.port = g_dns_src_port PROVE FALSE
  <2>1. k % T = queries % T /\ k % P = queries % P
    BY <1>1, <1>2, <1>3, <1>6, <1>7
  <2>2. (queries - k) % T = 0 /\ (queries - k) % P = 0
    BY <1>1, <1>3, <1>5, <2>1, ModSame
  <2> QED BY <1>4, <1>5, <2>2
<1> QED BY <1>7

LEMMA QueryKeeps ==
    ASSUME NumbersLast, DnsIInv, NEW n \in Names, NEW ok \in BOOLEAN, SendQuery(n, ok)
    PROVE  DnsIInv'
<1> DEFINE cache == dns_cache_expire_stale(g_dns_cache)
           new == [txid |-> g_dns_txid, port |-> g_dns_src_port, name |-> n]
           T == MaxTxid
           P == MaxPort - MinPort + 1
<1>1. /\ pc = "idle" /\ queries < MaxQueries /\ g_dns_cache' = cache
      /\ g_dns_txid' = IF g_dns_txid = MaxTxid THEN 1 ELSE g_dns_txid + 1
      /\ g_dns_src_port' = IF g_dns_src_port = MaxPort THEN MinPort ELSE g_dns_src_port + 1
      /\ queries' = queries + 1 /\ tick' = tick
  BY DEF SendQuery
<1>2. \/ /\ g_dns_state' = Asked(g_dns_txid, g_dns_src_port, TRUE) /\ sent' = sent \cup {new}
         /\ pc' = "wait" /\ name' = n /\ result' = result
      \/ /\ g_dns_state' = Asked(g_dns_txid, g_dns_src_port, FALSE)
         /\ result' = Fail(n) /\ UNCHANGED <<sent, pc, name>>
  BY NewQuery, Zenon DEF SendQuery
<1>3. /\ T \in Nat \ {0} /\ P \in Nat \ {0} /\ MinPort \in Nat /\ MaxPort \in Nat
      /\ MaxQueries \in Nat /\ queries \in Nat /\ tick \in Nat
      /\ g_dns_txid = 1 + (queries % T) /\ g_dns_src_port = MinPort + (queries % P)
  BY DnsSizes, DnsAssumption DEF DnsIInv, CountersSound
<1>4. CacheSound'
  <2>1. cache = dns_cache_expire_stale(g_dns_cache)
    OBVIOUS
  <2> HIDE DEF cache
  <2> QED BY <1>1, <2>1, ExpiryKeeps DEF CacheSound
<1>5. CountersSound'
  <2>1. P = MaxPort - MinPort + 1 /\ T = MaxTxid
    OBVIOUS
  <2> HIDE DEF T, P
  <2>2. /\ queries % T \in 0 .. T - 1 /\ queries % P \in 0 .. P - 1
        /\ (queries + 1) % T = IF queries % T = T - 1 THEN 0 ELSE (queries % T) + 1
        /\ (queries + 1) % P = IF queries % P = P - 1 THEN 0 ELSE (queries % P) + 1
    BY <1>3, ModNext
  <2>3. g_dns_txid' = 1 + ((queries + 1) % T)
    BY <1>1, <1>3, <2>1, <2>2
  <2>4. g_dns_src_port' = MinPort + ((queries + 1) % P)
    BY <1>1, <1>3, <2>1, <2>2
  <2> QED BY <1>1, <1>3, <2>1, <2>3, <2>4 DEF CountersSound
<1>6. new.txid = g_dns_txid /\ new.port = g_dns_src_port /\ new.name = n
  OBVIOUS
<1> HIDE DEF new
<1>7. SentSound'
  <2>1. sent' = sent \/ sent' = sent \cup {new}
    BY <1>2
  <2>2. ASSUME NEW r \in sent'
        PROVE  /\ r.name \in Names
               /\ \E k \in 0 .. queries' - 1 : r.txid = 1 + (k % T) /\ r.port = MinPort + (k % P)
    <3>1. CASE r \in sent
      <4>1. PICK k \in 0 .. queries - 1 : r.txid = 1 + (k % T) /\ r.port = MinPort + (k % P)
        BY <3>1 DEF DnsIInv, SentSound
      <4>2. k \in 0 .. queries' - 1
        BY <1>1, <1>3
      <4> QED BY <3>1, <4>1, <4>2 DEF DnsIInv, SentSound
    <3>2. CASE r = new
      <4>1. queries \in 0 .. queries' - 1
        BY <1>1, <1>3
      <4> QED BY <1>3, <1>6, <3>2, <4>1
    <3> QED BY <2>1, <3>1, <3>2
  <2>3. ASSUME NEW r \in sent', NEW s \in sent', r.txid = s.txid, r.port = s.port
        PROVE  r.name = s.name
    <3>1. \A u \in sent : ~(u.txid = new.txid /\ u.port = new.port)
      BY <1>1, <1>6, NumbersFresh
    <3>2. CASE r \in sent /\ s \in sent
      BY <2>3, <3>2 DEF DnsIInv, SentSound
    <3>3. CASE r = new /\ s = new
      BY <3>3
    <3> QED BY <2>1, <2>3, <3>1, <3>2, <3>3
  <2> QED BY <2>2, <2>3 DEF SentSound
<1>8. WaitSound'
  <2>1. g_dns_txid \in Int /\ g_dns_src_port \in Int
    BY <1>3
  <2> DEFINE asked == Asked(g_dns_txid, g_dns_src_port, TRUE)
             q == Asked(g_dns_txid, g_dns_src_port, FALSE)
  <2>2. q \in QueryRecord
    BY <2>1, AskedType
  <2>3. asked \in QueryRecord /\ asked.txid = g_dns_txid /\ asked.src_port = g_dns_src_port
        /\ asked.received = FALSE
    BY <2>1, AskedType
  <2>4. \/ g_dns_state' = asked /\ sent' = sent \cup {new} /\ pc' = "wait" /\ name' = n
        \/ g_dns_state' = q /\ pc' = pc
    BY <1>2
  <2> HIDE DEF asked, q
  <2>5. g_dns_state' \in QueryRecord
    BY <2>2, <2>3, <2>4
  <2>6. CASE g_dns_state' = asked /\ sent' = sent \cup {new} /\ pc' = "wait" /\ name' = n
    <3>1. new \in sent' /\ new.txid = g_dns_state'.txid /\ new.port = g_dns_state'.src_port
          /\ new.name = name' /\ g_dns_state'.received = FALSE
      BY <1>6, <2>3, <2>6
    <3> QED BY <2>5, <2>6, <3>1 DEF WaitSound
  <2>7. CASE g_dns_state' = q /\ pc' = pc
    BY <1>1, <2>5, <2>7 DEF WaitSound
  <2> QED BY <2>4, <2>6, <2>7
<1>9. AnswersTrue'
  <2>1. result' = result \/ result' = Fail(n)
    BY <1>2
  <2>2. Fail(n).ok = FALSE
    BY DEF Fail
  <2> QED BY <2>1, <2>2 DEF DnsIInv, AnswersTrue
<1> QED BY <1>4, <1>5, <1>7, <1>8, <1>9 DEF DnsIInv

LEMMA SlotsAreNumbers == Slots \subseteq Nat
BY DnsAssumption DEF Slots

\* An answer out of the cache is that of an entry which is not past its time.
LEMMA HitKeeps ==
    ASSUME DnsIInv, NEW n \in Names, CacheHit(n)
    PROVE  DnsIInv'
<1> DEFINE cache == dns_cache_expire_stale(g_dns_cache)
           holding == Holding(cache, n)
           low == Lowest(holding)
           found == [ok |-> TRUE, name |-> n, ip |-> cache[low].ip, got |-> cache[low].updated,
                     at |-> tick]
<1>1. /\ holding # {} /\ g_dns_cache' = cache /\ result' = found
      /\ UNCHANGED <<g_dns_state, g_dns_txid, g_dns_src_port, tick, pc, name, sent, queries>>
  BY Zenon DEF CacheHit
<1>2. cache = dns_cache_expire_stale(g_dns_cache)
  OBVIOUS
<1> HIDE DEF cache
<1>3. low \in holding
  BY <1>1, SlotsAreNumbers, LowestIsIn DEF Holding
<1>4. low \in Slots /\ cache[low].valid /\ cache[low].host = Lower[n]
  BY <1>3 DEF Holding
<1> HIDE DEF low, holding
<1>5. /\ found.ip = cache[low].ip /\ found.got = cache[low].updated /\ found.at = tick
      /\ found.name = n
  OBVIOUS
<1> HIDE DEF found
<1>6. /\ cache[low].ip = Zone[Lower[n]] /\ tick < cache[low].updated + MaxTtl
      /\ cache[low].updated \in Nat
  <2>1. /\ cache[low].ip = Zone[cache[low].host] /\ tick < cache[low].expires
        /\ cache[low].expires <= cache[low].updated + MaxTtl
        /\ cache[low].updated \in Nat /\ cache[low].expires \in Nat
    BY <1>2, <1>4, ExpiryKeeps
  <2>2. tick \in Nat /\ MaxTtl \in Nat
    BY DnsSizes DEF DnsIInv, CountersSound
  <2> QED BY <1>4, <2>1, <2>2
<1>7. AnswersTrue'
  <2>1. tick \in Nat /\ MaxTtl \in Nat
    BY DnsSizes DEF DnsIInv, CountersSound
  <2>2. result'.ip = Zone[Lower[n]] /\ result'.name = n /\ result'.at - result'.got < MaxTtl
    BY <1>1, <1>5, <1>6, <2>1
  <2> QED BY <2>2 DEF AnswersTrue
<1>8. CacheSound'
  BY <1>1, <1>2, ExpiryKeeps DEF CacheSound
<1>9. CountersSound' /\ SentSound' /\ WaitSound'
  BY <1>1 DEF DnsIInv, CountersSound, SentSound, WaitSound
<1> QED BY <1>7, <1>8, <1>9 DEF DnsIInv

\* An answer that matches is to the query of the call.
LEMMA AnswerKeeps ==
    ASSUME DnsIInv, NEW m \in Answers, dns_handle_udp_packet(m)
    PROVE  DnsIInv'
<1> DEFINE st == g_dns_state
           ttl == dns_normalize_ttl(m.ttl)
           heard == [waiting |-> st.waiting, received |-> TRUE, txid |-> st.txid,
                     src_port |-> st.src_port, ip |-> m.ip, ttl |-> ttl]
<1>1. PICK q \in sent, t \in Ttls :
         m = [txid |-> q.txid, port |-> q.port, ip |-> Zone[Lower[q.name]], ttl |-> t]
  BY DEF Answers
<1>2. m.txid = q.txid /\ m.port = q.port /\ m.ip = Zone[Lower[q.name]] /\ m.ttl = t
  BY <1>1
<1>3. q.name \in Names /\ m.ip \in Addresses
  BY <1>2, DnsSizes DEF DnsIInv, SentSound
<1>4. ttl \in Nat
  BY <1>2, DnsAssumption DEF dns_normalize_ttl
<1>5. st \in QueryRecord
  BY DEF DnsIInv, WaitSound
<1>6. g_dns_state' = IF Matches(m) THEN heard ELSE st
  BY <1>5, AnswerAssigned, Zenon DEF dns_handle_udp_packet
<1>7. UNCHANGED <<g_dns_cache, g_dns_txid, g_dns_src_port, tick, pc, name, result, sent, queries>>
  BY DEF dns_handle_udp_packet
<1>8. heard \in QueryRecord /\ heard.txid = st.txid /\ heard.src_port = st.src_port
      /\ heard.ip = m.ip
  <2> DEFINE yes == TRUE
             w == st.waiting
             x == st.txid
             p == st.src_port
             h == [waiting |-> w, received |-> yes, txid |-> x,
                   src_port |-> p, ip |-> m.ip, ttl |-> ttl]
  <2>1. yes \in BOOLEAN /\ w \in BOOLEAN /\ x \in Int /\ p \in Int
    BY <1>5 DEF QueryRecord
  <2>2. heard = h
    OBVIOUS
  <2> HIDE DEF yes, w, x, p, ttl, heard
  <2>3. h \in QueryRecord /\ h.txid = x /\ h.src_port = p /\ h.ip = m.ip
    BY <1>3, <1>4, <2>1 DEF QueryRecord
  <2> HIDE DEF h
  <2> QED BY <2>2, <2>3 DEF x, p
<1> HIDE DEF heard, st, ttl
<1>9. WaitSound'
  <2>1. g_dns_state' \in QueryRecord
    BY <1>5, <1>6, <1>8
  <2>2. g_dns_state'.txid = st.txid /\ g_dns_state'.src_port = st.src_port
    BY <1>6, <1>8
  <2>3. ASSUME pc = "wait", g_dns_state'.received
        PROVE  g_dns_state'.ip = Zone[Lower[name]]
    <3>1. CASE Matches(m)
      <4>1. PICK r \in sent : r.txid = st.txid /\ r.port = st.src_port /\ r.name = name
        BY <2>3 DEF DnsIInv, WaitSound, st
      <4>2. q.txid = r.txid /\ q.port = r.port
        BY <1>2, <3>1, <4>1 DEF Matches, st
      <4>3. q.name = name
        BY <4>1, <4>2 DEF DnsIInv, SentSound
      <4> QED BY <1>2, <1>6, <1>8, <3>1, <4>3
    <3>2. CASE ~Matches(m)
      BY <1>6, <2>3, <3>2 DEF DnsIInv, WaitSound, st
    <3> QED BY <3>1, <3>2
  <2>4. pc = "wait" => /\ name \in Names
                       /\ \E r \in sent : r.txid = st.txid /\ r.port = st.src_port /\ r.name = name
    BY DEF DnsIInv, WaitSound, st
  <2> QED BY <1>7, <2>1, <2>2, <2>3, <2>4 DEF WaitSound
<1>10. CacheSound' /\ CountersSound'
  BY <1>7 DEF DnsIInv, CacheSound, CountersSound
<1>11. SentSound' /\ AnswersTrue'
  BY <1>7 DEF DnsIInv, SentSound, AnswersTrue
<1> QED BY <1>9, <1>10, <1>11 DEF DnsIInv

LEMMA EndedType ==
    ASSUME NEW r \in QueryRecord, NEW w \in BOOLEAN
    PROVE  [waiting |-> w, received |-> r.received, txid |-> r.txid, src_port |-> r.src_port,
            ip |-> r.ip, ttl |-> r.ttl] \in QueryRecord
BY DEF QueryRecord

\* A query that is over, whether it was answered or not.
LEMMA QueryEnds ==
    ASSUME DnsIInv, g_dns_state' = [g_dns_state EXCEPT !.waiting = FALSE], pc' = "idle"
    PROVE  WaitSound'
<1> DEFINE no == FALSE
           r == g_dns_state
<1>1. g_dns_state' = [r EXCEPT !.waiting = no]
  OBVIOUS
<1>2. r \in QueryRecord /\ no \in BOOLEAN
  BY DEF DnsIInv, WaitSound
<1> HIDE DEF no, r
<1>3. g_dns_state' = [waiting |-> no, received |-> r.received, txid |-> r.txid,
                      src_port |-> r.src_port, ip |-> r.ip, ttl |-> r.ttl]
  BY <1>1, <1>2, WaitingAssigned
<1>4. g_dns_state' \in QueryRecord
  BY <1>2, <1>3, EndedType
<1> QED BY <1>4 DEF WaitSound

\* What the cache learns is true, and lives no longer than the longest time.
LEMMA ReceivedKeeps ==
    ASSUME DnsIInv, LookReceived
    PROVE  DnsIInv'
<1> DEFINE a == g_dns_state.ip
           ttl == dns_normalize_ttl(g_dns_state.ttl)
           entry == [valid |-> TRUE, host |-> Lower[name], ip |-> a, expires |-> tick + ttl,
                     updated |-> tick]
           found == [ok |-> TRUE, name |-> name, ip |-> a, got |-> tick, at |-> tick]
           slot == SlotFor(name)
<1>1. /\ pc = "wait" /\ g_dns_state.received /\ result' = found
      /\ g_dns_cache' = IF a = ZeroIp THEN g_dns_cache ELSE [g_dns_cache EXCEPT ![slot] = entry]
      /\ UNCHANGED <<g_dns_txid, g_dns_src_port, tick, name, sent, queries>>
  BY DEF LookReceived, dns_cache_update
<1>2. WaitSound'
  BY QueryEnds DEF LookReceived
<1>3. name \in Names /\ a = Zone[Lower[name]] /\ a \in Addresses /\ Lower[name] \in Names
  BY <1>1, DnsSizes DEF DnsIInv, WaitSound
<1>4. tick \in Nat /\ ttl \in Nat /\ ttl <= MaxTtl /\ MaxTtl \in Nat \ {0}
  BY DnsSizes, DnsAssumption DEF DnsIInv, CountersSound, WaitSound, QueryRecord, dns_normalize_ttl
<1>5. found.ip = a /\ found.name = name /\ found.got = tick /\ found.at = tick
  OBVIOUS
<1>6. entry \in CacheRecord /\ entry.host = Lower[name] /\ entry.ip = a
      /\ entry.expires = tick + ttl /\ entry.updated = tick
  <2> DEFINE yes == TRUE
             h == Lower[name]
             e == [valid |-> yes, host |-> h, ip |-> a, expires |-> tick + ttl, updated |-> tick]
  <2>1. yes \in BOOLEAN /\ h \in Names /\ entry = e
    BY <1>3
  <2>2. tick + ttl \in Nat
    BY <1>4
  <2> HIDE DEF yes, h, a, ttl, entry
  <2>3. e \in CacheRecord /\ e.host = h /\ e.ip = a /\ e.expires = tick + ttl /\ e.updated = tick
    BY <1>3, <1>4, <2>1, <2>2 DEF CacheRecord
  <2> HIDE DEF e
  <2> QED BY <2>1, <2>3 DEF h
<1> HIDE DEF a, ttl, entry, found, slot
<1>7. AnswersTrue'
  BY <1>1, <1>3, <1>4, <1>5 DEF AnswersTrue
<1>8. CacheSound'
  <2>1. \A i \in Slots : g_dns_cache'[i] = g_dns_cache[i] \/ g_dns_cache'[i] = entry
    BY <1>1 DEF DnsIInv, CacheSound
  <2>2. g_dns_cache' \in [Slots -> CacheRecord]
    BY <1>1, <1>6 DEF DnsIInv, CacheSound
  <2>3. ASSUME NEW i \in Slots, g_dns_cache'[i].valid
        PROVE  /\ g_dns_cache'[i].host \in Names
               /\ g_dns_cache'[i].ip = Zone[g_dns_cache'[i].host]
               /\ g_dns_cache'[i].expires <= g_dns_cache'[i].updated + MaxTtl
    <3>1. CASE g_dns_cache'[i] = g_dns_cache[i]
      BY <2>3, <3>1 DEF DnsIInv, CacheSound
    <3>2. CASE g_dns_cache'[i] = entry
      BY <1>3, <1>4, <1>6, <3>2
    <3> QED BY <2>1, <3>1, <3>2
  <2> QED BY <2>2, <2>3 DEF CacheSound
<1>9. CountersSound' /\ SentSound'
  BY <1>1 DEF DnsIInv, CountersSound, SentSound
<1> QED BY <1>2, <1>7, <1>8, <1>9 DEF DnsIInv

LEMMA DnsKeeps ==
    ASSUME NumbersLast, DnsIInv, DnsNext
    PROVE  DnsIInv'
<1>1. ASSUME DnsDeadline PROVE DnsIInv'
  <2>1. WaitSound'
    BY <1>1, QueryEnds DEF DnsDeadline
  <2>2. UNCHANGED <<g_dns_cache, g_dns_txid, g_dns_src_port, tick, name, sent, queries>>
        /\ result' = Fail(name)
    BY <1>1 DEF DnsDeadline
  <2>3. AnswersTrue'
    BY <2>2 DEF AnswersTrue, Fail
  <2>4. CacheSound' /\ CountersSound' /\ SentSound'
    BY <2>2 DEF DnsIInv, CacheSound, CountersSound, SentSound
  <2> QED BY <2>1, <2>3, <2>4 DEF DnsIInv
<1>2. ASSUME net_get_stats PROVE DnsIInv'
  <2>1. /\ g_dns_cache' = dns_cache_expire_stale(g_dns_cache)
        /\ UNCHANGED <<g_dns_state, g_dns_txid, g_dns_src_port, tick, pc, name, result, sent,
                       queries>>
    BY <1>2 DEF net_get_stats
  <2>2. CacheSound'
    BY <2>1, ExpiryKeeps DEF CacheSound
  <2>3. CountersSound' /\ SentSound' /\ WaitSound' /\ AnswersTrue'
    BY <2>1 DEF DnsIInv, CountersSound, SentSound, WaitSound, AnswersTrue
  <2> QED BY <2>2, <2>3 DEF DnsIInv
<1>3. ASSUME Tick PROVE DnsIInv'
  <2>1. /\ tick' = tick + 1
        /\ UNCHANGED <<g_dns_cache, g_dns_state, g_dns_txid, g_dns_src_port, pc, name, result,
                       sent, queries>>
    BY <1>3 DEF Tick
  <2>2. CacheSound' /\ CountersSound'
    BY <2>1 DEF DnsIInv, CacheSound, CountersSound
  <2>3. SentSound' /\ WaitSound' /\ AnswersTrue'
    BY <2>1 DEF DnsIInv, SentSound, WaitSound, AnswersTrue
  <2> QED BY <2>2, <2>3 DEF DnsIInv
<1> QED BY <1>1, <1>2, <1>3, HitKeeps, QueryKeeps, AnswerKeeps, ReceivedKeeps DEF DnsNext

-----------------------------------------------------------------------------
(* Icmp.                                                                   *)

Stations == Targets \cup UNION {{Path[d][k] : k \in 1 .. Len(Path[d])} : d \in Targets}

AnswerKinds == {"reply", "exceeded"}

Lines == SUBSET [from : Stations, type : AnswerKinds]

\* A cached hardware address is that of the station on the way to the address.
ArpSound == \A a \in DOMAIN g_arp_cache : g_arp_cache[a] = MacOf(a)

\* An answer in flight is the true one to a probe that was sent.
AirSound ==
    \A m \in air :
        /\ m.probe \in probes
        /\ m.from = Station(m.probe.dst, m.probe.ttl)
        /\ m.type = IF m.from = m.probe.dst THEN "reply" ELSE "exceeded"

\* What the call under way waits for.
CallSound ==
    /\ call = NoCall \/ call.at \in {"arp", "wait"}
    /\ call.at \in {"arp", "wait"} =>
          /\ call.by \in {"ping", "trace"}
          /\ call.dst \in Targets \ {Self} /\ call.ttl \in Nat \ {0}
          /\ g_ping_state.expected = call.dst
          /\ g_ping_state.accept => call.by = "trace"
    /\ call.at = "arp" =>
          /\ ~g_ping_state.received
          /\ \A p \in probes : p.sequence # g_ping_state.sequence
    /\ call.at = "wait" =>
          \A p \in probes : p.sequence = g_ping_state.sequence =>
                                p.dst = call.dst /\ p.ttl = call.ttl

\* What it has received is an answer to its own probe.
ReceivedSound ==
    call.at = "wait" /\ g_ping_state.received =>
        \E m \in air : /\ m.type = g_ping_state.type /\ m.from = g_ping_state.reply
                       /\ m.probe.sequence = g_ping_state.sequence
                       /\ m.type = "exceeded" => g_ping_state.accept

\* Traceroute is between two hops, or in the call for the next one.
TraceSound ==
    /\ trace.lines \in Seq(Lines)
    /\ (trace.at = "probe") = (call.by = "trace")
    /\ trace.at = "probe" =>
          /\ call.at # "none"
          /\ call.dst = trace.dst /\ call.ttl = trace.ttl
          /\ trace.ttl = Len(trace.lines) + 1
    /\ trace.at = "sleep" => trace.dst \in Targets /\ trace.ttl = Len(trace.lines)

PingShape(r) ==
    r = [waiting |-> r.waiting, received |-> r.received, sequence |-> r.sequence,
         expected |-> r.expected, accept |-> r.accept, reply |-> r.reply, type |-> r.type]

CallShape(r) == r = [at |-> r.at, by |-> r.by, dst |-> r.dst, ttl |-> r.ttl]

TraceShape(r) == r = [dst |-> r.dst, ttl |-> r.ttl, lines |-> r.lines, at |-> r.at]

Shapes == PingShape(g_ping_state) /\ CallShape(call) /\ TraceShape(trace)

IcmpIInv ==
    /\ Shapes
    /\ ArpSound
    /\ AirSound
    /\ CallSound
    /\ ReceivedSound
    /\ TraceSound
    /\ TraceTruthful
    /\ FramesReachNextHop

\* The assignments to the probe, the call and the trace.
Heard(r, a, t) == [r EXCEPT !.received = TRUE, !.reply = a, !.type = t]
Ended(r) == [r EXCEPT !.waiting = FALSE]
Begun(q, d, c) == [NoProbe EXCEPT !.waiting = TRUE, !.sequence = q, !.expected = d, !.accept = c]
Sent(c) == [c EXCEPT !.at = "wait"]
Printed(t, line, at) == [t EXCEPT !.lines = Append(@, line), !.at = at]
Probing(t) == [t EXCEPT !.ttl = @ + 1, !.at = "probe"]

LEMMA HeardFields ==
    ASSUME NEW r, PingShape(r), NEW a, NEW t
    PROVE  /\ PingShape(Heard(r, a, t))
           /\ Heard(r, a, t).reply = a /\ Heard(r, a, t).type = t
           /\ Heard(r, a, t).sequence = r.sequence /\ Heard(r, a, t).expected = r.expected
           /\ Heard(r, a, t).accept = r.accept
<1> DEFINE w == r.waiting
           v == r.received
           q == r.sequence
           e == r.expected
           c == r.accept
           p == r.reply
           k == r.type
           yes == TRUE
           r1 == [r EXCEPT !.received = yes]
           r2 == [r1 EXCEPT !.reply = a]
           r3 == [r2 EXCEPT !.type = t]
<1>1. r = [waiting |-> w, received |-> v, sequence |-> q, expected |-> e, accept |-> c,
           reply |-> p, type |-> k]
  BY Zenon DEF PingShape
<1> HIDE DEF w, v, q, e, c, p, k, yes
<1>2. r1 = [waiting |-> w, received |-> yes, sequence |-> q, expected |-> e, accept |-> c,
            reply |-> p, type |-> k]
  BY <1>1
<1> HIDE DEF r1
<1>3. r2 = [waiting |-> w, received |-> yes, sequence |-> q, expected |-> e, accept |-> c,
            reply |-> a, type |-> k]
  BY <1>2
<1> HIDE DEF r2
<1>4. r3 = [waiting |-> w, received |-> yes, sequence |-> q, expected |-> e, accept |-> c,
            reply |-> a, type |-> t]
  BY <1>3
<1> HIDE DEF r3
<1>5. Heard(r, a, t) = r3
  BY Zenon DEF Heard, r1, r2, r3, yes
<1>6. r3.waiting = w /\ r3.received = yes /\ r3.sequence = q /\ r3.expected = e /\ r3.accept = c
      /\ r3.reply = a /\ r3.type = t
  BY <1>4
<1>7. PingShape(r3)
  BY <1>4, <1>6, Zenon DEF PingShape
<1> QED BY <1>5, <1>6, <1>7, Zenon DEF q, e, c

LEMMA EndedFields ==
    ASSUME NEW r, PingShape(r)
    PROVE  PingShape(Ended(r))
<1> DEFINE no == FALSE
<1>1. Ended(r) = [r EXCEPT !.waiting = no]
  BY Zenon DEF Ended
<1>2. r = [waiting |-> r.waiting, received |-> r.received, sequence |-> r.sequence,
           expected |-> r.expected, accept |-> r.accept, reply |-> r.reply, type |-> r.type]
  BY Zenon DEF PingShape
<1> HIDE DEF no
<1>3. Ended(r) = [waiting |-> no, received |-> r.received, sequence |-> r.sequence,
                  expected |-> r.expected, accept |-> r.accept, reply |-> r.reply,
                  type |-> r.type]
  BY <1>1, <1>2
<1> QED BY <1>3 DEF PingShape

LEMMA BegunFields ==
    ASSUME NEW q, NEW d, NEW c
    PROVE  /\ PingShape(Begun(q, d, c)) /\ ~Begun(q, d, c).received
           /\ Begun(q, d, c).sequence = q /\ Begun(q, d, c).expected = d
           /\ Begun(q, d, c).accept = c
<1> DEFINE no == FALSE
           yes == TRUE
           zero == 0
           none == "none"
           r1 == [NoProbe EXCEPT !.waiting = yes]
           r2 == [r1 EXCEPT !.sequence = q]
           r3 == [r2 EXCEPT !.expected = d]
           r4 == [r3 EXCEPT !.accept = c]
<1>1. NoProbe = [waiting |-> no, received |-> no, sequence |-> zero, expected |-> Self,
                 accept |-> no, reply |-> Self, type |-> none]
  BY Zenon DEF NoProbe
<1> HIDE DEF no, yes, zero, none
<1>2. r1 = [waiting |-> yes, received |-> no, sequence |-> zero, expected |-> Self,
            accept |-> no, reply |-> Self, type |-> none]
  BY <1>1
<1> HIDE DEF r1
<1>3. r2 = [waiting |-> yes, received |-> no, sequence |-> q, expected |-> Self,
            accept |-> no, reply |-> Self, type |-> none]
  BY <1>2
<1> HIDE DEF r2
<1>4. r3 = [waiting |-> yes, received |-> no, sequence |-> q, expected |-> d,
            accept |-> no, reply |-> Self, type |-> none]
  BY <1>3
<1> HIDE DEF r3
<1>5. r4 = [waiting |-> yes, received |-> no, sequence |-> q, expected |-> d,
            accept |-> c, reply |-> Self, type |-> none]
  BY <1>4
<1> HIDE DEF r4
<1>6. Begun(q, d, c) = r4
  BY Zenon DEF Begun, r1, r2, r3, r4, yes
<1>7. r4.waiting = yes /\ r4.received = no /\ r4.sequence = q /\ r4.expected = d /\ r4.accept = c
      /\ r4.reply = Self /\ r4.type = none
  BY <1>5
<1>8. PingShape(r4)
  BY <1>5, <1>7, Zenon DEF PingShape
<1> QED BY <1>6, <1>7, <1>8, Zenon DEF no

LEMMA SentFields ==
    ASSUME NEW c, CallShape(c)
    PROVE  /\ CallShape(Sent(c)) /\ Sent(c).at = "wait"
           /\ Sent(c).by = c.by /\ Sent(c).dst = c.dst /\ Sent(c).ttl = c.ttl
<1>1. c = [at |-> c.at, by |-> c.by, dst |-> c.dst, ttl |-> c.ttl]
  BY Zenon DEF CallShape
<1>2. Sent(c) = [at |-> "wait", by |-> c.by, dst |-> c.dst, ttl |-> c.ttl]
  BY <1>1 DEF Sent
<1> QED BY <1>2 DEF CallShape

LEMMA PrintedFields ==
    ASSUME NEW t, TraceShape(t), NEW line, NEW at
    PROVE  /\ TraceShape(Printed(t, line, at)) /\ Printed(t, line, at).at = at
           /\ Printed(t, line, at).lines = Append(t.lines, line)
           /\ Printed(t, line, at).dst = t.dst /\ Printed(t, line, at).ttl = t.ttl
<1> DEFINE more == Append(t.lines, line)
<1>1. t = [dst |-> t.dst, ttl |-> t.ttl, lines |-> t.lines, at |-> t.at]
  BY Zenon DEF TraceShape
<1>2. Printed(t, line, at) = [t EXCEPT !.lines = more, !.at = at]
  BY Zenon DEF Printed
<1> HIDE DEF more
<1>3. Printed(t, line, at) = [dst |-> t.dst, ttl |-> t.ttl, lines |-> more, at |-> at]
  BY <1>1, <1>2
<1>4. /\ TraceShape(Printed(t, line, at)) /\ Printed(t, line, at).at = at
      /\ Printed(t, line, at).lines = more
      /\ Printed(t, line, at).dst = t.dst /\ Printed(t, line, at).ttl = t.ttl
  BY <1>3 DEF TraceShape
<1> QED BY <1>4 DEF more

LEMMA ProbingFields ==
    ASSUME NEW t, TraceShape(t)
    PROVE  /\ TraceShape(Probing(t)) /\ Probing(t).at = "probe"
           /\ Probing(t).lines = t.lines /\ Probing(t).dst = t.dst
           /\ Probing(t).ttl = t.ttl + 1
<1>1. t = [dst |-> t.dst, ttl |-> t.ttl, lines |-> t.lines, at |-> t.at]
  BY Zenon DEF TraceShape
<1> DEFINE next == t.ttl + 1
           on == "probe"
<1>2. Probing(t) = [t EXCEPT !.ttl = next, !.at = on]
  BY Zenon DEF Probing
<1> HIDE DEF next, on
<1>3. Probing(t) = [dst |-> t.dst, ttl |-> next, lines |-> t.lines, at |-> on]
  BY <1>1, <1>2
<1>4. /\ TraceShape(Probing(t)) /\ Probing(t).at = on /\ Probing(t).lines = t.lines
      /\ Probing(t).dst = t.dst /\ Probing(t).ttl = next
  BY <1>3 DEF TraceShape
<1> QED BY <1>4 DEF next, on

LEMMA IcmpStarts == IcmpInit => IcmpIInv
<1> SUFFICES ASSUME IcmpInit PROVE IcmpIInv
  OBVIOUS
<1>1. /\ g_ping_state = NoProbe /\ call = NoCall /\ trace = NoTrace /\ air = {}
      /\ g_arp_cache = <<>> /\ frame = NoFrame
  BY DEF IcmpInit
<1>2. PingShape(NoProbe)
  BY DEF PingShape, NoProbe
<1>3. CallShape(NoCall) /\ NoCall.at = "none" /\ NoCall.by = "none"
  BY DEF CallShape, NoCall
<1>4. TraceShape(NoTrace) /\ NoTrace.at = "done" /\ NoTrace.lines = <<>>
  BY DEF TraceShape, NoTrace
<1>5. ArpSound
  BY <1>1 DEF ArpSound
<1>6. FramesReachNextHop
  BY <1>1 DEF FramesReachNextHop, NoFrame, MacOf
<1>7. AirSound /\ CallSound /\ ReceivedSound
  BY <1>1, <1>3 DEF AirSound, CallSound, ReceivedSound
<1>8. TraceSound /\ TraceTruthful
  BY <1>1, <1>3, <1>4 DEF TraceSound, TraceTruthful
<1> QED BY <1>1, <1>2, <1>3, <1>4, <1>5, <1>6, <1>7, <1>8 DEF IcmpIInv, Shapes

LEMMA IcmpRests == IcmpIInv /\ UNCHANGED icmp_vars => IcmpIInv'
<1> SUFFICES ASSUME IcmpIInv, UNCHANGED icmp_vars PROVE IcmpIInv'
  OBVIOUS
<1> USE DEF icmp_vars
<1>1. Shapes' /\ ArpSound' /\ FramesReachNextHop'
  BY DEF IcmpIInv, Shapes, ArpSound, FramesReachNextHop, MacOf
<1>2. AirSound' /\ ReceivedSound' /\ CallSound'
  BY DEF IcmpIInv, AirSound, ReceivedSound, CallSound, Station
<1>3. TraceSound' /\ TraceTruthful'
  BY DEF IcmpIInv, TraceSound, TraceTruthful, Station
<1> QED BY <1>1, <1>2, <1>3 DEF IcmpIInv

\* A frame's sender is noted under the address it has on the subnet.
LEMMA ArpUpdateKeeps ==
    ASSUME ArpSound, NEW ip, NEW mac, mac = MacOf(ip), g_arp_cache' \in arp_cache_update(ip, mac)
    PROVE  ArpSound'
<1>1. PICK kept \in SUBSET DOMAIN g_arp_cache :
         g_arp_cache' = [a \in kept \cup {ip} |-> IF a = ip THEN mac ELSE g_arp_cache[a]]
  BY DEF arp_cache_update
<1> QED BY <1>1 DEF ArpSound, MacOf

\* The next hop's cached address is right for the destination.
LEMMA NextHopSound ==
    ASSUME ArpSound, NEW dst, dst # Self, net_pick_next_hop(dst) \in DOMAIN g_arp_cache
    PROVE  g_arp_cache[net_pick_next_hop(dst)] = MacOf(dst)
BY IcmpAssumption DEF ArpSound, net_pick_next_hop, MacOf

\* Who answers a probe, and that only the destination sends a reply.
LEMMA StationFacts ==
    ASSUME NEW dst \in Targets, NEW ttl \in Nat \ {0}
    PROVE  /\ Station(dst, ttl) \in Stations
           /\ Station(dst, ttl) = dst => ttl > Len(Path[dst])
<1>1. Len(Path[dst]) \in Nat /\ \A k \in 1 .. Len(Path[dst]) : Path[dst][k] # dst
  BY IcmpAssumption
<1>2. CASE ttl <= Len(Path[dst])
  <2>1. ttl \in 1 .. Len(Path[dst])
    BY <1>1, <1>2
  <2> QED BY <1>1, <1>2, <2>1 DEF Station, Stations
<1>3. CASE ~(ttl <= Len(Path[dst]))
  BY <1>1, <1>3 DEF Station, Stations
<1> QED BY <1>2, <1>3

\* A new call: its number is on no probe and no answer but its own.
LEMMA ProbeStarts ==
    ASSUME IcmpIInv, NEW by \in {"ping", "trace"}, NEW dst \in Targets, NEW ttl \in Nat \ {0},
           NEW accept, accept => by = "trace", net_icmp_probe_ipv4(by, dst, ttl, accept)
    PROVE  /\ call.at = "none"
           /\ PingShape(g_ping_state)' /\ CallShape(call)'
           /\ ArpSound' /\ AirSound' /\ CallSound' /\ ReceivedSound' /\ FramesReachNextHop'
           /\ call'.at # "none" /\ call'.by = by /\ call'.dst = dst /\ call'.ttl = ttl
<1> DEFINE hop == net_pick_next_hop(dst)
           q == g_ping_sequence
           new == [dst |-> dst, ttl |-> ttl, sequence |-> q]
           waits == [at |-> "wait", by |-> by, dst |-> dst, ttl |-> ttl]
           resolves == [at |-> "arp", by |-> by, dst |-> dst, ttl |-> ttl]
<1>1. /\ call.at = "none" /\ dst # Self
      /\ air' = OtherAir(q) /\ UNCHANGED g_arp_cache
      /\ \/ /\ hop \in DOMAIN g_arp_cache
            /\ probes' = Other(q) \cup {new} /\ call' = waits
            /\ frame' = [ip |-> dst, mac |-> g_arp_cache[hop]]
         \/ probes' = Other(q) /\ call' = resolves /\ frame' = frame
  BY Zenon DEF net_icmp_probe_ipv4, SendProbe
<1>2. g_ping_state' = Begun(q, dst, accept)
  BY Zenon DEF net_icmp_probe_ipv4, Begun
<1>3. /\ PingShape(g_ping_state') /\ ~g_ping_state'.received
      /\ g_ping_state'.sequence = q /\ g_ping_state'.expected = dst /\ g_ping_state'.accept = accept
  <2> DEFINE r == Begun(q, dst, accept)
  <2>1. /\ PingShape(r) /\ ~r.received
        /\ r.sequence = q /\ r.expected = dst /\ r.accept = accept
    BY BegunFields
  <2> HIDE DEF r
  <2>2. g_ping_state' = r
    BY <1>2 DEF r
  <2> QED BY <2>1, <2>2, Zenon
<1>4. /\ waits.at = "wait" /\ waits.by = by /\ waits.dst = dst /\ waits.ttl = ttl
      /\ resolves.at = "arp" /\ resolves.by = by /\ resolves.dst = dst /\ resolves.ttl = ttl
      /\ CallShape(waits) /\ CallShape(resolves)
  BY DEF CallShape
<1>5. new.dst = dst /\ new.ttl = ttl /\ new.sequence = q
  OBVIOUS
<1> HIDE DEF waits, resolves, new
<1>6. ArpSound'
  BY <1>1 DEF IcmpIInv, ArpSound, MacOf
<1>7. FramesReachNextHop'
  <2>1. CASE hop \in DOMAIN g_arp_cache /\ frame' = [ip |-> dst, mac |-> g_arp_cache[hop]]
    <3>1. frame'.ip = dst /\ frame'.mac = g_arp_cache[hop]
      BY <2>1
    <3>2. g_arp_cache[hop] = MacOf(dst)
      BY <1>1, <2>1, NextHopSound DEF IcmpIInv
    <3> QED BY <3>1, <3>2 DEF FramesReachNextHop, MacOf
  <2>2. CASE frame' = frame
    BY <2>2 DEF IcmpIInv, FramesReachNextHop, MacOf
  <2> QED BY <1>1, <2>1, <2>2
<1>8. AirSound'
  <2>1. ASSUME NEW m \in air'
        PROVE  m \in air /\ m.probe \in probes'
    BY <1>1, <2>1 DEF IcmpIInv, AirSound, OtherAir, Other
  <2> QED BY <2>1 DEF IcmpIInv, AirSound, Station
<1>9. \A p \in probes' : p.sequence = q => p = new /\ call' = waits
  BY <1>1, <1>4, <1>5 DEF Other
<1>10. CallSound'
  BY <1>1, <1>3, <1>4, <1>5, <1>9 DEF CallSound
<1>11. ReceivedSound'
  BY <1>3 DEF ReceivedSound
<1> QED BY <1>1, <1>3, <1>4, <1>6, <1>7, <1>8, <1>10, <1>11

LEMMA PingKeeps ==
    ASSUME IcmpIInv, NEW dst \in Targets, net_ping_ipv4(dst)
    PROVE  IcmpIInv'
<1>1. net_icmp_probe_ipv4("ping", dst, PingTtl, FALSE) /\ UNCHANGED trace
  BY DEF net_ping_ipv4
<1>2. /\ call.at = "none" /\ PingShape(g_ping_state)' /\ CallShape(call)'
      /\ ArpSound' /\ AirSound' /\ CallSound' /\ ReceivedSound' /\ FramesReachNextHop'
      /\ call'.by = "ping"
  BY <1>1, ProbeStarts, IcmpAssumption
<1>3. TraceSound'
  BY <1>1, <1>2 DEF IcmpIInv, TraceSound
<1>4. TraceTruthful' /\ TraceShape(trace)'
  BY <1>1 DEF IcmpIInv, TraceTruthful, Shapes, Station
<1> QED BY <1>2, <1>3, <1>4 DEF IcmpIInv, Shapes

LEMMA TraceProbeKeeps ==
    ASSUME IcmpIInv, net_trace_probe_ipv4
    PROVE  IcmpIInv'
<1> DEFINE dst == trace.dst
           ttl == trace.ttl + 1
<1>1. trace.at = "sleep" /\ net_icmp_probe_ipv4("trace", dst, ttl, TRUE)
  BY DEF net_trace_probe_ipv4
<1>2. trace' = Probing(trace)
  BY Zenon DEF net_trace_probe_ipv4, Probing
<1>3. dst \in Targets /\ trace.ttl = Len(trace.lines) /\ ttl \in Nat \ {0}
      /\ trace.lines \in Seq(Lines)
  BY <1>1 DEF IcmpIInv, TraceSound
<1>4. /\ call.at = "none" /\ PingShape(g_ping_state)' /\ CallShape(call)'
      /\ ArpSound' /\ AirSound' /\ CallSound' /\ ReceivedSound' /\ FramesReachNextHop'
      /\ call'.at # "none" /\ call'.by = "trace" /\ call'.dst = dst /\ call'.ttl = ttl
  BY <1>1, <1>3, ProbeStarts
<1>5. /\ TraceShape(trace') /\ trace'.at = "probe" /\ trace'.lines = trace.lines
      /\ trace'.dst = dst /\ trace'.ttl = ttl
  BY <1>2, ProbingFields DEF IcmpIInv, Shapes
<1> HIDE DEF dst, ttl
<1>6. TraceSound'
  BY <1>3, <1>4, <1>5 DEF TraceSound, ttl
<1>7. TraceTruthful'
  BY <1>5 DEF IcmpIInv, TraceTruthful, Station, dst
<1> QED BY <1>4, <1>5, <1>6, <1>7 DEF IcmpIInv, Shapes

LEMMA TraceStarts ==
    ASSUME IcmpIInv, NEW dst \in Targets, traceroute(dst)
    PROVE  IcmpIInv'
<1> DEFINE new == [dst |-> dst, ttl |-> 0, lines |-> <<>>, at |-> "sleep"]
<1>1. /\ trace.at # "sleep" /\ call.by # "trace" /\ trace' = new
      /\ UNCHANGED <<g_ping_state, g_ping_sequence, g_arp_cache, call, ping, probes, air, frame>>
  BY DEF traceroute
<1>2. TraceShape(new) /\ new.dst = dst /\ new.ttl = 0 /\ new.lines = <<>> /\ new.at = "sleep"
  BY DEF TraceShape
<1> HIDE DEF new
<1>3. Shapes' /\ ArpSound' /\ FramesReachNextHop'
  BY <1>1, <1>2 DEF IcmpIInv, Shapes, ArpSound, FramesReachNextHop, MacOf
<1>4. AirSound' /\ ReceivedSound' /\ CallSound'
  BY <1>1 DEF IcmpIInv, AirSound, ReceivedSound, CallSound, Station
<1>5. TraceSound' /\ TraceTruthful'
  BY <1>1, <1>2 DEF TraceSound, TraceTruthful
<1> QED BY <1>3, <1>4, <1>5 DEF IcmpIInv

LEMMA SelfKeeps ==
    ASSUME IcmpIInv, ProbeSelf
    PROVE  IcmpIInv'
<1> DEFINE answer == [from |-> Self, type |-> "reply"]
           line == {answer}
           all == <<line>>
           new == [dst |-> trace.dst, ttl |-> 1, lines |-> all, at |-> "reached"]
<1>1. UNCHANGED <<g_ping_state, g_ping_sequence, g_arp_cache, call, probes, air, frame>>
      /\ call.at = "none"
  BY DEF ProbeSelf
<1>2. trace' = trace \/ (trace.at = "sleep" /\ trace.dst = Self /\ trace' = new)
  <2> DEFINE one == 1
             end == "reached"
             t1 == [trace EXCEPT !.ttl = one]
             t2 == [t1 EXCEPT !.at = end]
             t3 == [t2 EXCEPT !.lines = all]
  <2>1. trace = [dst |-> trace.dst, ttl |-> trace.ttl, lines |-> trace.lines, at |-> trace.at]
    BY Zenon DEF IcmpIInv, Shapes, TraceShape
  <2> HIDE DEF one, end, all
  <2>2. t1 = [dst |-> trace.dst, ttl |-> one, lines |-> trace.lines, at |-> trace.at]
    BY <2>1
  <2> HIDE DEF t1
  <2>3. t2 = [dst |-> trace.dst, ttl |-> one, lines |-> trace.lines, at |-> end]
    BY <2>2
  <2> HIDE DEF t2
  <2>4. t3 = [dst |-> trace.dst, ttl |-> one, lines |-> all, at |-> end]
    BY <2>3
  <2> HIDE DEF t3
  <2>5. t3 = new
    BY <2>4, Zenon DEF one, end
  <2>6. trace' = trace \/ (trace.at = "sleep" /\ trace.dst = Self /\ trace' = t3)
    BY Zenon DEF ProbeSelf, t1, t2, t3, one, end, all
  <2> QED BY <2>5, <2>6, Zenon
<1>3. TraceShape(new) /\ new.dst = trace.dst /\ new.lines = all /\ new.at = "reached"
  BY DEF TraceShape
<1>4. Len(all) = 1 /\ all[1] = line /\ DOMAIN all = {1}
  OBVIOUS
<1>5. answer.from = Self /\ answer.type = "reply"
  OBVIOUS
<1>6. ASSUME Self \in Targets
      PROVE  all \in Seq(Lines) /\ Len(Path[Self]) = 0 /\ Station(Self, 1) = Self
  <2>1. Path[Self] = <<>>
    BY <1>6, IcmpAssumption
  <2>2. Len(Path[Self]) = 0
    BY <2>1
  <2>3. answer \in [from : Stations, type : AnswerKinds]
    BY <1>6 DEF Stations, AnswerKinds
  <2>4. line \in Lines
    BY <2>3 DEF Lines
  <2> QED BY <2>2, <2>4 DEF Station
<1> HIDE DEF new, all, answer
<1>7. Shapes' /\ ArpSound' /\ FramesReachNextHop'
  BY <1>1, <1>2, <1>3 DEF IcmpIInv, Shapes, ArpSound, FramesReachNextHop, MacOf
<1>8. AirSound' /\ ReceivedSound' /\ CallSound'
  BY <1>1 DEF IcmpIInv, AirSound, ReceivedSound, CallSound, Station
<1>9. TraceSound' /\ TraceTruthful'
  <2>1. CASE trace' = trace
    BY <1>1, <2>1 DEF IcmpIInv, TraceSound, TraceTruthful, Station
  <2>2. CASE trace.at = "sleep" /\ trace.dst = Self /\ trace' = new
    <3>1. Self \in Targets /\ call.by # "trace"
      BY <2>2 DEF IcmpIInv, TraceSound
    <3>2. TraceSound'
      BY <1>1, <1>3, <1>6, <2>2, <3>1 DEF TraceSound
    <3>3. trace'.lines = all /\ trace'.dst = Self
      BY <1>3, <2>2
    <3>4. \A k \in DOMAIN all : \A a \in all[k] : a.from = Station(Self, k)
      BY <1>4, <1>5, <1>6, <3>1
    <3>5. Len(all) > Len(Path[Self])
      BY <1>4, <1>6, <3>1
    <3>6. TraceTruthful'
      BY <3>3, <3>4, <3>5 DEF TraceTruthful, Station
    <3> QED BY <3>2, <3>6
  <2> QED BY <1>2, <2>1, <2>2
<1> QED BY <1>7, <1>8, <1>9 DEF IcmpIInv

\* The probe goes out once the next hop is known; nothing has been answered.
LEMMA ResolvedKeeps ==
    ASSUME IcmpIInv, ArpResolved
    PROVE  IcmpIInv'
<1> DEFINE hop == net_pick_next_hop(call.dst)
           q == g_ping_state.sequence
           new == [dst |-> call.dst, ttl |-> call.ttl, sequence |-> q]
<1>1. /\ call.at = "arp" /\ hop \in DOMAIN g_arp_cache /\ call' = Sent(call)
      /\ probes' = Other(q) \cup {new}
      /\ frame' = [ip |-> call.dst, mac |-> g_arp_cache[hop]]
      /\ UNCHANGED <<g_ping_state, g_ping_sequence, g_arp_cache, trace, ping, air>>
  BY Zenon DEF ArpResolved, SendProbe, Sent
<1>2. /\ CallShape(call') /\ call'.at = "wait" /\ call'.by = call.by
      /\ call'.dst = call.dst /\ call'.ttl = call.ttl
  BY <1>1, SentFields DEF IcmpIInv, Shapes
<1>3. new.dst = call.dst /\ new.ttl = call.ttl /\ new.sequence = q
  OBVIOUS
<1>4. /\ call.dst \in Targets \ {Self} /\ call.by \in {"ping", "trace"} /\ call.ttl \in Nat \ {0}
      /\ ~g_ping_state.received /\ Other(q) = probes
      /\ g_ping_state.expected = call.dst /\ (g_ping_state.accept => call.by = "trace")
  BY <1>1 DEF IcmpIInv, CallSound, Other
<1> HIDE DEF new
<1>5. Shapes' /\ ArpSound'
  BY <1>1, <1>2 DEF IcmpIInv, Shapes, ArpSound, MacOf
<1>6. FramesReachNextHop'
  <2>1. frame'.ip = call.dst /\ frame'.mac = g_arp_cache[hop]
    BY <1>1
  <2>2. g_arp_cache[hop] = MacOf(call.dst)
    BY <1>1, <1>4, NextHopSound DEF IcmpIInv
  <2> QED BY <2>1, <2>2 DEF FramesReachNextHop, MacOf
<1>7. AirSound'
  BY <1>1, <1>4 DEF IcmpIInv, AirSound, Station
<1>8. CallSound'
  BY <1>1, <1>2, <1>3, <1>4 DEF CallSound, Other
<1>9. ReceivedSound'
  BY <1>1, <1>4 DEF ReceivedSound
<1>10. TraceSound' /\ TraceTruthful'
  BY <1>1, <1>2 DEF IcmpIInv, TraceSound, TraceTruthful, Station
<1> QED BY <1>5, <1>6, <1>7, <1>8, <1>9, <1>10 DEF IcmpIInv

\* An answer that the call under way has received comes from the station at
\* the distance it asked for, and is a reply only from its destination.
LEMMA ReceivedFacts ==
    ASSUME IcmpIInv, call.at = "wait", g_ping_state.received
    PROVE  /\ g_ping_state.reply = Station(call.dst, call.ttl)
           /\ g_ping_state.type \in AnswerKinds
           /\ g_ping_state.type = "reply" => g_ping_state.reply = call.dst
           /\ \E m \in air : /\ m.type = g_ping_state.type /\ m.from = g_ping_state.reply
                             /\ m.probe.sequence = g_ping_state.sequence
                             /\ m.type = "exceeded" => g_ping_state.accept
                             /\ m.probe \in probes
<1>1. PICK m \in air : /\ m.type = g_ping_state.type /\ m.from = g_ping_state.reply
                       /\ m.probe.sequence = g_ping_state.sequence
                       /\ m.type = "exceeded" => g_ping_state.accept
  BY DEF IcmpIInv, ReceivedSound
<1>2. /\ m.probe \in probes /\ m.from = Station(m.probe.dst, m.probe.ttl)
      /\ m.type = IF m.from = m.probe.dst THEN "reply" ELSE "exceeded"
  BY DEF IcmpIInv, AirSound
<1>3. m.probe.dst = call.dst /\ m.probe.ttl = call.ttl
  BY <1>1, <1>2 DEF IcmpIInv, CallSound
<1>4. g_ping_state.type \in AnswerKinds
  BY <1>1, <1>2 DEF AnswerKinds
<1> QED BY <1>1, <1>2, <1>3, <1>4

\* A call that is over leaves everything but the program as it was.
LEMMA CallEnds ==
    ASSUME IcmpIInv, call' = NoCall, g_ping_state' = Ended(g_ping_state),
           UNCHANGED <<g_ping_sequence, g_arp_cache, probes, air, frame>>
    PROVE  /\ PingShape(g_ping_state)' /\ CallShape(call)'
           /\ ArpSound' /\ AirSound' /\ CallSound' /\ ReceivedSound' /\ FramesReachNextHop'
           /\ call'.at = "none" /\ call'.by = "none"
<1>1. CallShape(NoCall) /\ NoCall.at = "none" /\ NoCall.by = "none"
  BY DEF CallShape, NoCall
<1>2. PingShape(g_ping_state')
  BY EndedFields DEF IcmpIInv, Shapes
<1>3. ArpSound' /\ FramesReachNextHop'
  BY DEF IcmpIInv, ArpSound, FramesReachNextHop, MacOf
<1>4. AirSound'
  BY DEF IcmpIInv, AirSound, Station
<1>5. CallSound' /\ ReceivedSound'
  BY <1>1 DEF CallSound, ReceivedSound
<1> QED BY <1>1, <1>2, <1>3, <1>4, <1>5

\* The line of this hop: a star, or the station at its distance.
LEMMA LinePrinted ==
    ASSUME IcmpIInv, NEW answer \in Lines, call.at # "none", call.by = "trace",
           call'.at = "none", call'.by = "none",
           \A a \in answer : /\ a.from = Station(call.dst, call.ttl)
                             /\ a.type = "reply" => a.from = call.dst,
           TraceGoesOn(answer)
    PROVE  TraceShape(trace)' /\ TraceSound' /\ TraceTruthful'
<1> DEFINE dst == trace.dst
           more == Append(trace.lines, answer)
           reached == \E a \in answer : a.type = "reply" /\ a.from = trace.dst
           at == IF reached THEN "reached" ELSE IF trace.ttl = MaxHops THEN "incomplete" ELSE "sleep"
<1>1. trace' = Printed(trace, answer, at)
  BY Zenon DEF TraceGoesOn, Printed
<1>2. /\ TraceShape(trace') /\ trace'.at = at /\ trace'.lines = more
      /\ trace'.dst = dst /\ trace'.ttl = trace.ttl
  <2> HIDE DEF at
  <2> QED BY <1>1, PrintedFields DEF IcmpIInv, Shapes
<1>3. /\ trace.lines \in Seq(Lines) /\ call.dst = dst /\ call.ttl = trace.ttl
      /\ trace.ttl = Len(trace.lines) + 1
  BY DEF IcmpIInv, TraceSound
<1>4. dst \in Targets /\ trace.ttl \in Nat \ {0}
  BY <1>3 DEF IcmpIInv, CallSound, NoCall
<1>5. /\ more \in Seq(Lines) /\ Len(more) = trace.ttl /\ more[trace.ttl] = answer
      /\ \A k \in 1 .. Len(trace.lines) : more[k] = trace.lines[k]
      /\ DOMAIN more = 1 .. trace.ttl /\ DOMAIN trace.lines = 1 .. Len(trace.lines)
      /\ Len(trace.lines) \in Nat
  BY <1>3
<1>6. at = "reached" \/ at = "incomplete" \/ at = "sleep"
  OBVIOUS
<1>7. at = "reached" => reached
  OBVIOUS
<1> HIDE DEF at, more
<1>8. TraceSound'
  BY <1>2, <1>4, <1>5, <1>6 DEF TraceSound
<1>9. ASSUME NEW k \in DOMAIN more, NEW a \in more[k]
      PROVE  a.from = Station(dst, k)
  <2>1. CASE k = trace.ttl
    BY <1>3, <1>5, <1>9, <2>1
  <2>2. CASE k # trace.ttl
    <3>1. k \in DOMAIN trace.lines /\ more[k] = trace.lines[k]
      BY <1>3, <1>5, <2>2
    <3> QED BY <1>9, <3>1 DEF IcmpIInv, TraceTruthful
  <2> QED BY <2>1, <2>2
<1>10. at = "reached" => Len(more) > Len(Path[dst])
  <2>1. reached => Station(dst, trace.ttl) = dst
    BY <1>3
  <2> QED BY <1>4, <1>5, <1>7, <2>1, StationFacts
<1>11. TraceTruthful'
  BY <1>2, <1>9, <1>10 DEF TraceTruthful, Station
<1> QED BY <1>2, <1>8, <1>11

LEMMA ProgramKeeps ==
    ASSUME IcmpIInv, NEW answer \in Lines, call.at # "none",
           call' = NoCall, g_ping_state' = Ended(g_ping_state),
           UNCHANGED <<g_ping_sequence, g_arp_cache, probes, air, frame>>,
           \A a \in answer : /\ a.from = Station(call.dst, call.ttl)
                             /\ a.type = "reply" => a.from = call.dst,
           ProgramGoesOn(answer)
    PROVE  IcmpIInv'
<1>1. /\ PingShape(g_ping_state)' /\ CallShape(call)'
      /\ ArpSound' /\ AirSound' /\ CallSound' /\ ReceivedSound' /\ FramesReachNextHop'
      /\ call'.at = "none" /\ call'.by = "none"
  BY CallEnds
<1>2. call.by \in {"ping", "trace"}
  BY DEF IcmpIInv, CallSound, NoCall
<1>3. CASE call.by = "ping"
  <2>1. trace' = trace
    BY <1>3 DEF ProgramGoesOn, PingGoesOn
  <2>2. TraceShape(trace)' /\ TraceSound' /\ TraceTruthful'
    BY <1>1, <1>3, <2>1 DEF IcmpIInv, Shapes, TraceSound, TraceTruthful, Station
  <2> QED BY <1>1, <2>2 DEF IcmpIInv, Shapes
<1>4. CASE call.by = "trace"
  <2>1. TraceGoesOn(answer)
    BY <1>4 DEF ProgramGoesOn
  <2>2. TraceShape(trace)' /\ TraceSound' /\ TraceTruthful'
    BY <1>1, <1>4, <2>1, LinePrinted
  <2> QED BY <1>1, <2>2 DEF IcmpIInv, Shapes
<1> QED BY <1>2, <1>3, <1>4

LEMMA FailureKeeps ==
    ASSUME IcmpIInv, ProbeFails
    PROVE  IcmpIInv'
<1>1. /\ call.at # "none" /\ call' = NoCall /\ g_ping_state' = Ended(g_ping_state)
      /\ UNCHANGED <<g_ping_sequence, g_arp_cache, probes, air, frame>>
      /\ ProgramGoesOn({})
  BY Zenon DEF ProbeFails, Ended
<1>2. {} \in Lines
  BY DEF Lines
<1> QED BY <1>1, <1>2, ProgramKeeps

LEMMA AnsweredKeeps ==
    ASSUME IcmpIInv, ProbeAnswered
    PROVE  IcmpIInv'
<1> DEFINE a == [from |-> g_ping_state.reply, type |-> g_ping_state.type]
<1>1. /\ call.at = "wait" /\ g_ping_state.received /\ call' = NoCall
      /\ g_ping_state' = Ended(g_ping_state)
      /\ UNCHANGED <<g_ping_sequence, g_arp_cache, probes, air, frame>>
      /\ ProgramGoesOn({a})
  BY Zenon DEF ProbeAnswered, Ended
<1>2. /\ g_ping_state.reply = Station(call.dst, call.ttl) /\ g_ping_state.type \in AnswerKinds
      /\ g_ping_state.type = "reply" => g_ping_state.reply = call.dst
  BY <1>1, ReceivedFacts
<1>3. Station(call.dst, call.ttl) \in Stations
  BY <1>1, StationFacts DEF IcmpIInv, CallSound
<1>4. a \in [from : Stations, type : AnswerKinds] /\ a.from = g_ping_state.reply
      /\ a.type = g_ping_state.type
  BY <1>2, <1>3
<1> HIDE DEF a
<1>5. {a} \in Lines
  BY <1>4 DEF Lines
<1>6. \A b \in {a} : /\ b.from = Station(call.dst, call.ttl)
                     /\ b.type = "reply" => b.from = call.dst
  BY <1>2, <1>4
<1> QED BY <1>1, <1>5, <1>6, ProgramKeeps

LEMMA StationKeeps ==
    ASSUME IcmpIInv, NEW p \in probes, StationAnswers(p)
    PROVE  IcmpIInv'
<1> DEFINE from == Station(p.dst, p.ttl)
           kind == IF from = p.dst THEN "reply" ELSE "exceeded"
           new == [type |-> kind, from |-> from, probe |-> p]
<1>1. /\ air' = air \cup {new}
      /\ UNCHANGED <<g_ping_state, g_ping_sequence, g_arp_cache, call, trace, ping, probes, frame>>
  BY DEF StationAnswers
<1>2. new.type = kind /\ new.from = from /\ new.probe = p
  OBVIOUS
<1> HIDE DEF new
<1>3. Shapes' /\ ArpSound' /\ FramesReachNextHop'
  BY <1>1 DEF IcmpIInv, Shapes, ArpSound, FramesReachNextHop, MacOf
<1>4. AirSound'
  BY <1>1, <1>2 DEF IcmpIInv, AirSound, Station
<1>5. ReceivedSound' /\ CallSound'
  BY <1>1 DEF IcmpIInv, ReceivedSound, CallSound
<1>6. TraceSound' /\ TraceTruthful'
  BY <1>1 DEF IcmpIInv, TraceSound, TraceTruthful, Station
<1> QED BY <1>3, <1>4, <1>5, <1>6 DEF IcmpIInv

\* An answer is taken only by the call whose number it carries.
LEMMA HandledKeeps ==
    ASSUME IcmpIInv, NEW m \in air, HandleAnswer(m)
    PROVE  IcmpIInv'
<1> DEFINE st == g_ping_state
           heard == Heard(st, m.from, m.type)
<1>1. /\ g_arp_cache' \in arp_cache_update(m.from, MacOf(m.from))
      /\ UNCHANGED <<g_ping_sequence, call, trace, ping, probes, air, frame>>
  BY DEF HandleAnswer
<1>2. g_ping_state' = IF Expected(m) THEN heard ELSE st
  BY Zenon DEF HandleAnswer, Heard
<1>3. PingShape(st)
  BY DEF IcmpIInv, Shapes
<1>4. /\ PingShape(heard) /\ heard.reply = m.from /\ heard.type = m.type
      /\ heard.sequence = st.sequence /\ heard.expected = st.expected /\ heard.accept = st.accept
  BY <1>3, HeardFields
<1> HIDE DEF heard
<1>5. Expected(m) => /\ m.probe.sequence = st.sequence
                     /\ m.type = "exceeded" => st.accept
  BY DEF Expected, icmp_match_embedded_probe
<1>6. m.probe \in probes
  BY DEF IcmpIInv, AirSound
<1>7. call.at = "arp" => ~Expected(m)
  BY <1>5, <1>6 DEF IcmpIInv, CallSound
<1> HIDE DEF st
<1>8. /\ PingShape(g_ping_state') /\ g_ping_state'.sequence = st.sequence
      /\ g_ping_state'.expected = st.expected
      /\ call.at = "arp" => g_ping_state' = st
  BY <1>2, <1>3, <1>4, <1>7
<1>9. g_ping_state'.accept = st.accept
  BY <1>2, <1>4
<1>10. Shapes'
  BY <1>1, <1>8 DEF IcmpIInv, Shapes
<1>11. ArpSound'
  BY <1>1, ArpUpdateKeeps DEF IcmpIInv
<1>12. AirSound' /\ FramesReachNextHop'
  BY <1>1 DEF IcmpIInv, AirSound, FramesReachNextHop, Station, MacOf
<1>13. CallSound'
  BY <1>1, <1>8, <1>9 DEF IcmpIInv, CallSound, st
<1>14. ReceivedSound'
  <2>1. CASE Expected(m)
    <3>1. /\ m.type = g_ping_state'.type /\ m.from = g_ping_state'.reply
          /\ m.probe.sequence = g_ping_state'.sequence
      BY <1>2, <1>4, <1>5, <2>1
    <3>2. m.type = "exceeded" => g_ping_state'.accept
      BY <1>5, <1>9, <2>1
    <3> QED BY <1>1, <3>1, <3>2 DEF ReceivedSound
  <2>2. CASE ~Expected(m)
    BY <1>1, <1>2, <2>2 DEF IcmpIInv, ReceivedSound, st
  <2> QED BY <2>1, <2>2
<1>15. TraceSound' /\ TraceTruthful'
  BY <1>1 DEF IcmpIInv, TraceSound, TraceTruthful, Station
<1> QED BY <1>10, <1>11, <1>12, <1>13, <1>14, <1>15 DEF IcmpIInv

\* Frames that are no answers touch the cache, and what is sent back goes to
\* where they came from.
LEMMA OthersKeep ==
    ASSUME IcmpIInv, ArpSound', FramesReachNextHop',
           UNCHANGED <<g_ping_state, g_ping_sequence, call, trace, ping, probes, air>>
    PROVE  IcmpIInv'
<1>1. Shapes'
  BY DEF IcmpIInv, Shapes
<1>2. AirSound' /\ ReceivedSound' /\ CallSound'
  BY DEF IcmpIInv, AirSound, ReceivedSound, CallSound, Station
<1>3. TraceSound' /\ TraceTruthful'
  BY DEF IcmpIInv, TraceSound, TraceTruthful, Station
<1> QED BY <1>1, <1>2, <1>3 DEF IcmpIInv

LEMMA IcmpKeeps == IcmpIInv /\ IcmpNext => IcmpIInv'
<1> SUFFICES ASSUME IcmpIInv, IcmpNext PROVE IcmpIInv'
  OBVIOUS
<1>1. ASSUME NEW ip \in Targets \ {Self}, HandleEchoRequest(ip) PROVE IcmpIInv'
  <2>1. /\ g_arp_cache' \in arp_cache_update(ip, MacOf(ip))
        /\ frame' = [ip |-> ip, mac |-> MacOf(ip)]
        /\ UNCHANGED <<g_ping_state, g_ping_sequence, call, trace, ping, probes, air>>
    BY <1>1 DEF HandleEchoRequest
  <2>2. ArpSound'
    BY <2>1, ArpUpdateKeeps DEF IcmpIInv
  <2>3. FramesReachNextHop'
    BY <2>1 DEF FramesReachNextHop, MacOf
  <2> QED BY <2>1, <2>2, <2>3, OthersKeep
<1>2. ASSUME NEW ip \in Subnet, NEW opcode \in {"request", "reply"}, net_handle_arp(ip, opcode)
      PROVE  IcmpIInv'
  <2>1. /\ g_arp_cache' \in arp_cache_update(ip, Mac[ip])
        /\ frame' = IF opcode = "request" THEN [ip |-> ip, mac |-> Mac[ip]] ELSE frame
        /\ UNCHANGED <<g_ping_state, g_ping_sequence, call, trace, ping, probes, air>>
    BY <1>2 DEF net_handle_arp
  <2>2. Mac[ip] = MacOf(ip)
    BY DEF MacOf
  <2>3. ArpSound'
    BY <2>1, <2>2, ArpUpdateKeeps DEF IcmpIInv
  <2>4. FramesReachNextHop'
    BY <2>1 DEF IcmpIInv, FramesReachNextHop, MacOf
  <2> QED BY <2>1, <2>3, <2>4, OthersKeep
<1>3. ASSUME arp_cache_expire_stale PROVE IcmpIInv'
  <2>1. /\ \E a \in DOMAIN g_arp_cache :
              g_arp_cache' = [b \in DOMAIN g_arp_cache \ {a} |-> g_arp_cache[b]]
        /\ UNCHANGED <<g_ping_state, g_ping_sequence, call, trace, ping, probes, air, frame>>
    BY <1>3 DEF arp_cache_expire_stale
  <2>2. ArpSound' /\ FramesReachNextHop'
    BY <2>1 DEF IcmpIInv, ArpSound, FramesReachNextHop, MacOf
  <2> QED BY <2>1, <2>2, OthersKeep
<1> QED BY <1>1, <1>2, <1>3, PingKeeps, TraceStarts, TraceProbeKeeps, SelfKeeps, ResolvedKeeps,
           FailureKeeps, AnsweredKeeps, StationKeeps, HandledKeeps DEF IcmpNext

\* A ping succeeds only when its call returns with an answer, and what it
\* accepts is a reply.
LEMMA PingAnswered ==
    ASSUME IcmpIInv, IcmpNext, call.at = "wait", call.by = "ping", call' = NoCall, ping'
    PROVE  \E m \in air : /\ m.type = "reply" /\ m.from = call.dst
                          /\ m.probe.sequence = g_ping_state.sequence
                          /\ m.probe \in probes
<1>1. NoCall.at = "none"
  BY DEF NoCall
<1>2. call' # call
  BY <1>1
<1>3. ProbeFails \/ ProbeAnswered
  <2>1. \A dst, ttl, by, accept : ~net_icmp_probe_ipv4(by, dst, ttl, accept)
    BY DEF net_icmp_probe_ipv4
  <2>2. ~ArpResolved
    BY DEF ArpResolved
  <2>3. ~net_trace_probe_ipv4 /\ \A dst \in Targets : ~net_ping_ipv4(dst)
    BY <2>1 DEF net_trace_probe_ipv4, net_ping_ipv4
  <2> QED BY <1>2, <2>2, <2>3 DEF IcmpNext, traceroute, ProbeSelf, StationAnswers, HandleAnswer,
                                  HandleEchoRequest, net_handle_arp, arp_cache_expire_stale
<1>4. ~ProbeFails
  BY DEF ProbeFails, ProgramGoesOn, PingGoesOn
<1>5. g_ping_state.received
  BY <1>3, <1>4, Zenon DEF ProbeAnswered
<1>6. PICK m \in air : /\ m.type = g_ping_state.type /\ m.from = g_ping_state.reply
                       /\ m.probe.sequence = g_ping_state.sequence
                       /\ m.type = "exceeded" => g_ping_state.accept
                       /\ m.probe \in probes
  BY <1>5, ReceivedFacts
<1>7. ~g_ping_state.accept
  BY DEF IcmpIInv, CallSound
<1>8. m.type = "reply" \/ m.type = "exceeded"
  BY DEF IcmpIInv, AirSound
<1>9. m.from = call.dst
  BY <1>5, <1>6, <1>7, <1>8, ReceivedFacts
<1> QED BY <1>6, <1>7, <1>8, <1>9

-----------------------------------------------------------------------------
(* Theorems.                                                               *)

\* The services do not touch each other's state.
LEMMA BootInvariant == Init /\ [][Next]_vars => []DhcpIInv
<1>1. Init => DhcpIInv
  BY DhcpStarts DEF Init
<1>2. DhcpIInv /\ [Next]_vars => DhcpIInv'
  BY DhcpKeeps, DhcpRests DEF Next, vars
<1> QED BY <1>1, <1>2, PTL

LEMMA ResolverInvariant ==
    ASSUME NumbersLast
    PROVE  Init /\ [][Next]_vars => []DnsIInv
<1>1. Init => DnsIInv
  BY DnsStarts DEF Init
<1>2. DnsIInv /\ [Next]_vars => DnsIInv'
  BY DnsKeeps, DnsRests DEF Next, vars
<1> QED BY <1>1, <1>2, PTL

LEMMA ProbesInvariant == Init /\ [][Next]_vars => []IcmpIInv
<1>1. Init => IcmpIInv
  BY IcmpStarts DEF Init
<1>2. IcmpIInv /\ [Next]_vars => IcmpIInv'
  BY IcmpKeeps, IcmpRests DEF Next, vars
<1> QED BY <1>1, <1>2, PTL

\* For any servers, whichever of them refuse and whatever messages are lost,
\* repeated and late: once the exchange is bound, the address, if the ACK has
\* one, and every option of the ACK are those of a server that does not
\* refuse, and where nobody refuses the configuration is made of the offer
\* and the ACK of the server asked (dhcp_handle_packet, dhcp_apply_ack).
THEOREM LeaseIsSound == Spec => []LeaseSound
<1>1. DhcpIInv => LeaseSound
  BY DEF DhcpIInv
<1>2. Spec => Init /\ [][Next]_vars
  BY DEF Spec
<1> QED BY <1>1, <1>2, BootInvariant, PTL

\* A message that arrives when the boot is over finds the exchange idle or
\* bound, and does not change the configuration, be it a lease or what
\* net_configure_static set when DHCP failed (dhcp_handle_packet).
THEOREM ConfigurationKept == Spec => ConfigurationStays
<1>1. DhcpIInv /\ [Next]_vars => [phase = "done" => g_net_config' = g_net_config]_dhcp_vars
  BY ConfiguredStays DEF Next, vars
<1>2. Spec => Init /\ [][Next]_vars
  BY DEF Spec
<1> QED BY <1>1, <1>2, BootInvariant, PTL DEF ConfigurationStays

\* For any names, zone, cache size and times to live, as long as transaction
\* number and port have not come round together: a caller gets the address of
\* the name it asked for, and none past the longest life of an entry
\* (net_dns_resolve_ipv4, dns_handle_udp_packet, dns_cache_update).
THEOREM AnswersAreTrue ==
    ASSUME NumbersLast
    PROVE  Spec => []AnswersTrue
<1>1. DnsIInv => AnswersTrue
  BY DEF DnsIInv
<1>2. Spec => Init /\ [][Next]_vars
  BY DEF Spec
<1> QED BY <1>1, <1>2, ResolverInvariant, PTL

\* For any paths, distances and cache sizes: what traceroute prints for a hop
\* is a star or the station at that distance, and it stops early only at its
\* destination (net_trace_probe_ipv4, net_handle_icmp).
THEOREM TraceIsTruthful == Spec => []TraceTruthful
<1>1. IcmpIInv => TraceTruthful
  BY DEF IcmpIInv
<1>2. Spec => Init /\ [][Next]_vars
  BY DEF Spec
<1> QED BY <1>1, <1>2, ProbesInvariant, PTL

\* Every frame is sent to the station that is next on the way to its address,
\* however the ARP cache came by that station (net_pick_next_hop, arp_resolve,
\* arp_cache_update).
THEOREM FramesRouted == Spec => []FramesReachNextHop
<1>1. IcmpIInv => FramesReachNextHop
  BY DEF IcmpIInv
<1>2. Spec => Init /\ [][Next]_vars
  BY DEF Spec
<1> QED BY <1>1, <1>2, ProbesInvariant, PTL

\* A ping that succeeds was answered by the host itself, in answer to this very
\* request (net_icmp_probe_ipv4, net_handle_icmp).
THEOREM PingIsAnswered == Spec => PingMeansAnswered
<1> DEFINE Answered ==
              (call.at = "wait" /\ call.by = "ping" /\ call' = NoCall /\ ping') =>
                  \E m \in air : /\ m.type = "reply" /\ m.from = call.dst
                                 /\ m.probe.sequence = g_ping_state.sequence
                                 /\ m.probe \in probes
<1>1. IcmpIInv /\ [Next]_vars => [Answered]_icmp_vars
  <2>1. ASSUME IcmpIInv, IcmpNext PROVE Answered
    BY <2>1, PingAnswered
  <2> HIDE DEF Answered
  <2> QED BY <2>1 DEF Next, vars
<1>2. Spec => Init /\ [][Next]_vars
  BY DEF Spec
<1> QED BY <1>1, <1>2, ProbesInvariant, PTL DEF PingMeansAnswered

=============================================================================
