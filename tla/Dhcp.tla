------------------------------- MODULE Dhcp -------------------------------
(***************************************************************************)
(* The network configuration at boot: net_configure_dhcp with its retries  *)
(* and its deadline, dhcp_handle_packet, and the static configuration that *)
(* kernel_main falls back to, against servers that answer over a network   *)
(* that loses, repeats and delays.                                         *)
(*                                                                         *)
(* One exchange has one transaction number, so messages carry none.  Ticks *)
(* are left out: a retry or the deadline may be due whenever the code      *)
(* compares the clock.  Afterwards the idle loop goes on polling, and late *)
(* messages still reach dhcp_handle_packet.                                *)
(***************************************************************************)
EXTENDS Integers, FiniteSets

CONSTANTS
    Servers,
    Refusals,     \* sets of servers that may be the ones to answer a request with NAK
    EmptyOffers,  \* servers whose offer has no address
    NoAckAddr,    \* servers whose ACK leaves out the address
    OfferOpts,    \* options each server puts into its offer
    AckOpts,      \* and into its ACK
    PollFrames    \* frames one net_poll handles (8)

Options == {"netmask", "gateway", "dns", "lease"}

ASSUME DhcpAssumption ==
    /\ Refusals \subseteq SUBSET Servers
    /\ EmptyOffers \subseteq Servers
    /\ NoAckAddr \subseteq Servers
    /\ OfferOpts \in [Servers -> SUBSET Options]
    /\ AckOpts \in [Servers -> SUBSET Options]
    /\ PollFrames \in Nat \ {0}

VARIABLES
    state,         \* g_dhcp.state
    server,        \* g_dhcp.server_ip
    offered,       \* g_dhcp.offered_*: the options that came with the offer
    g_net_config,
    phase,         \* where kernel_main is
    frames,        \* frames handled since the caller's last look
    toServers,     \* messages on the way
    toClient,
    refusing       \* the servers that refuse, fixed for a behaviour

dhcp_vars == <<state, server, offered, g_net_config, phase, frames, toServers,
               toClient, refusing>>

NoServer == "none"
Unset == <<>>

\* A server's value of an option in its offer or ACK, and its address.
Value(s, msg, o) == <<s, msg, o>>
Address(s) == <<s, "addr">>

\* The values that dhcp_apply_ack takes when no server gave any.
Default(o) == IF o = "netmask" THEN <<"class C">> ELSE Unset

NoOptions == [o \in Options |-> Unset]
Unconfigured ==
    [configured |-> FALSE, ip |-> Unset, opts |-> NoOptions]
Static ==
    [configured |-> TRUE, ip |-> <<"static">>, opts |-> [o \in Options |-> <<"static">>]]

Discover == [type |-> "DISCOVER"]
Request(s) == [type |-> "REQUEST", server |-> s]

-----------------------------------------------------------------------------
(* The servers and the network, external.                                  *)

ServerOffers(s) ==
    /\ Discover \in toServers
    /\ toClient' = toClient \cup {[type |-> "OFFER", server |-> s]}
    /\ UNCHANGED <<state, server, offered, g_net_config, phase, frames, toServers, refusing>>

ServerDecides(s) ==
    /\ Request(s) \in toServers
    /\ toClient' = toClient \cup
          {[type |-> IF s \in refusing THEN "NAK" ELSE "ACK", server |-> s]}
    /\ UNCHANGED <<state, server, offered, g_net_config, phase, frames, toServers, refusing>>

Lose ==
    /\ \/ \E m \in toServers : toServers' = toServers \ {m} /\ UNCHANGED toClient
       \/ \E m \in toClient : toClient' = toClient \ {m} /\ UNCHANGED toServers
    /\ UNCHANGED <<state, server, offered, g_net_config, phase, frames, refusing>>

-----------------------------------------------------------------------------
(* dhcp_handle_packet                                                      *)

OfferedOptions(s) ==
    [o \in Options |-> IF o \in OfferOpts[s] THEN Value(s, "offer", o) ELSE Unset]

\* Slip: an offer is taken over while another server is being asked.
HandleOffer_Late(s) ==
    /\ state \in {"WAIT_OFFER", "OFFER_READY", "WAIT_ACK"} /\ s \notin EmptyOffers
    /\ server' = s
    /\ offered' = OfferedOptions(s)
    /\ state' = IF state = "WAIT_OFFER" THEN "OFFER_READY" ELSE state
    /\ UNCHANGED <<g_net_config, toServers>>

HandleOffer(s) ==
    /\ state = "WAIT_OFFER" /\ s \notin EmptyOffers
    /\ server' = s
    /\ offered' = OfferedOptions(s)
    /\ state' = "OFFER_READY"
    /\ UNCHANGED <<g_net_config, toServers>>

\* Each option: from the ACK, or else from the offer, or else a default.
dhcp_apply_ack(s) ==
    [configured |-> TRUE,
     ip |-> Address(IF s \in NoAckAddr THEN server ELSE s),
     opts |-> [o \in Options |->
                 IF o \in AckOpts[s] THEN Value(s, "ack", o)
                 ELSE IF offered[o] # Unset THEN offered[o]
                 ELSE Default(o)]]

HandleAck(s) ==
    /\ state = "WAIT_ACK"
    /\ g_net_config' = dhcp_apply_ack(s)
    /\ state' = "BOUND"
    /\ UNCHANGED <<server, offered, toServers>>

HandleNak ==
    /\ state = "WAIT_ACK"
    /\ state' = "WAIT_OFFER"
    /\ toServers' = toServers \cup {Discover}
    /\ UNCHANGED <<server, offered, g_net_config>>

\* One frame of net_poll; a message may come again.
dhcp_handle_packet(m) ==
    /\ m \in toClient
    /\ IF phase = "dhcp"
       THEN frames < PollFrames /\ frames' = frames + 1
       ELSE UNCHANGED frames
    /\ \/ m.type = "OFFER" /\ HandleOffer(m.server)
       \/ m.type = "ACK" /\ HandleAck(m.server)
       \/ m.type = "NAK" /\ HandleNak
    /\ toClient' \in {toClient, toClient \ {m}}
    /\ UNCHANGED <<phase, refusing>>

-----------------------------------------------------------------------------
(* kernel_main and net_configure_dhcp                                      *)

DhcpInit ==
    /\ state = "IDLE"
    /\ server = NoServer
    /\ offered = NoOptions
    /\ g_net_config = Unconfigured
    /\ phase = "boot"
    /\ frames = 0
    /\ toServers = {}
    /\ toClient = {}
    /\ refusing \in Refusals

\* A boot that is over, with the static configuration.
DhcpConfigured ==
    /\ state = "IDLE"
    /\ server = NoServer
    /\ offered = NoOptions
    /\ g_net_config = Static
    /\ phase = "done"
    /\ frames = 0
    /\ toServers = {}
    /\ toClient = {}
    /\ refusing = {}

\* sent: dhcp_send_discover found a free transmit buffer
net_configure_dhcp(sent) ==
    /\ phase = "boot"
    /\ state' = "WAIT_OFFER"
    /\ server' = NoServer
    /\ offered' = NoOptions
    /\ IF sent THEN toServers' = {Discover} /\ phase' = "dhcp"
               ELSE UNCHANGED toServers /\ phase' = "failed"
    /\ UNCHANGED <<g_net_config, frames, toClient, refusing>>

\* The loop's look at the state after net_poll.
LookOfferReady(sent) ==
    /\ phase = "dhcp" /\ state = "OFFER_READY"
    /\ IF sent
       THEN /\ toServers' = toServers \cup {Request(server)}
            /\ state' = "WAIT_ACK"
            /\ UNCHANGED <<phase, refusing>>
       ELSE /\ phase' = "failed"
            /\ UNCHANGED <<toServers, state, refusing>>
    /\ frames' = 0
    /\ UNCHANGED <<server, offered, g_net_config, toClient, refusing>>

\* Bound: the gateway's address is resolved first, if there is a gateway.
LookBound ==
    /\ phase = "dhcp" /\ state = "BOUND"
    /\ phase' = IF g_net_config.opts["gateway"] # Unset THEN "arp" ELSE "done"
    /\ frames' = 0
    /\ UNCHANGED <<state, server, offered, g_net_config, toServers, toClient, refusing>>

\* Slip: only the discovery is repeated.
Retry_DiscoverOnly ==
    /\ phase = "dhcp" /\ state = "WAIT_OFFER"
    /\ toServers' = toServers \cup {Discover}
    /\ frames' = 0
    /\ UNCHANGED <<state, server, offered, g_net_config, phase, toClient, refusing>>

\* A second without progress: the last message is sent again.
Retry ==
    /\ phase = "dhcp"
    /\ \/ state = "WAIT_OFFER" /\ toServers' = toServers \cup {Discover}
       \/ state = "WAIT_ACK" /\ toServers' = toServers \cup {Request(server)}
    /\ frames' = 0
    /\ UNCHANGED <<state, server, offered, g_net_config, phase, toClient, refusing>>

\* A look that finds nothing to do.
LookAgain ==
    /\ phase = "dhcp" /\ frames > 0
    /\ state \in {"WAIT_OFFER", "WAIT_ACK"}
    /\ frames' = 0
    /\ UNCHANGED <<state, server, offered, g_net_config, phase, toServers, toClient, refusing>>

Deadline ==
    /\ phase = "dhcp" /\ frames = 0
    /\ phase' = "failed"
    /\ UNCHANGED <<state, server, offered, g_net_config, frames, toServers, toClient, refusing>>

\* Slip: the exchange is not forgotten.
net_configure_static_Keeps ==
    /\ phase = "failed"
    /\ g_net_config' = Static
    /\ phase' = "done"
    /\ UNCHANGED <<state, server, offered, frames, toServers, toClient, refusing>>

net_configure_static ==
    /\ phase = "failed"
    /\ g_net_config' = Static
    /\ state' = "IDLE"
    /\ server' = NoServer
    /\ offered' = NoOptions
    /\ phase' = "done"
    /\ UNCHANGED <<frames, toServers, toClient, refusing>>

\* arp_resolve of the gateway returns, with an answer or without.
GatewayResolved ==
    /\ phase = "arp"
    /\ phase' = "done"
    /\ UNCHANGED <<state, server, offered, g_net_config, frames, toServers, toClient, refusing>>

Boot == (\E sent \in BOOLEAN : net_configure_dhcp(sent)) \/ net_configure_static

Looks ==
    \/ \E sent \in BOOLEAN : LookOfferReady(sent)
    \/ LookBound
    \/ LookAgain
    \/ GatewayResolved

DhcpNext ==
    \/ Boot
    \/ Looks
    \/ Retry
    \/ Deadline
    \/ \E m \in toClient : dhcp_handle_packet(m)
    \/ \E s \in Servers : ServerOffers(s) \/ ServerDecides(s)
    \/ Lose

(***************************************************************************)
(* The task that boots keeps running and the clock makes retries due.  The *)
(* network may lose a message any number of times but not always, so a     *)
(* message that is repeated is answered.  Nothing is asked of Deadline.    *)
(***************************************************************************)
DhcpFairness ==
    /\ WF_dhcp_vars(Boot)
    /\ WF_dhcp_vars(Looks)
    /\ SF_dhcp_vars(Retry)
    /\ SF_dhcp_vars(\E s \in Servers \ EmptyOffers : ServerOffers(s))
    /\ SF_dhcp_vars(\E s \in Servers : ServerDecides(s))
    /\ SF_dhcp_vars(\E s \in Servers : dhcp_handle_packet([type |-> "OFFER", server |-> s]))
    /\ SF_dhcp_vars(\E s \in Servers : dhcp_handle_packet([type |-> "ACK", server |-> s]))

-----------------------------------------------------------------------------
(* Properties.                                                             *)

\* What the network of server s looks like to a client that it serves.
NetworkOf(s) ==
    [configured |-> TRUE, ip |-> Address(s),
     opts |-> [o \in Options |->
                 IF o \in AckOpts[s] THEN Value(s, "ack", o)
                 ELSE IF o \in OfferOpts[s] THEN Value(s, "offer", o)
                 ELSE Default(o)]]

\* Even when servers refuse and their offers, refusals and ACKs come in late
\* or twice, the address, if the ACK has it, and every option that an ACK
\* names are those of a server that agreed.  Among servers that refuse nobody
\* a lease is one server's: address, netmask, gateway, DNS server and lease
\* time all come from the one that was asked.
LeaseSound ==
    state = "BOUND" =>
        /\ \E s \in Servers \ refusing :
            /\ s \in NoAckAddr \/ g_net_config.ip = Address(s)
            /\ \A o \in AckOpts[s] : g_net_config.opts[o] = Value(s, "ack", o)
        /\ refusing = {} => g_net_config = NetworkOf(server)

\* Once the boot is over no late or repeated message changes the network
\* configuration: neither a lease nor the static fallback is overwritten.
ConfigurationStays ==
    [][phase = "done" => g_net_config' = g_net_config]_dhcp_vars

\* Although any message may be lost, the retries get the exchange to an end
\* without the deadline, where no server refuses for ever.
ExchangeEnds == (refusing = {} /\ phase = "dhcp") ~> (phase # "dhcp")

=============================================================================
