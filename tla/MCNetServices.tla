--------------------------- MODULE MCNetServices ---------------------------
(***************************************************************************)
(* An instance of the services over IP: the configuration at boot (Dhcp),  *)
(* the resolver (Dns), and the probes of ping and traceroute (Icmp).  What *)
(* they share is the configuration, of which the last two only need that   *)
(* there is one, and a call runs to its end before another starts; so a    *)
(* behaviour exercises one of them.                                        *)
(***************************************************************************)
EXTENDS Dhcp, Dns, Icmp

VARIABLE service

vars == <<service, dhcp_vars, dns_vars, icmp_vars>>

Init ==
    /\ service \in {"boot", "resolver", "probes"}
    /\ DnsInit
    /\ IcmpInit
    /\ IF service = "boot" THEN DhcpInit ELSE DhcpConfigured

Next ==
    \/ service = "boot" /\ DhcpNext /\ UNCHANGED <<service, dns_vars, icmp_vars>>
    \/ service = "resolver" /\ DnsNext /\ UNCHANGED <<service, dhcp_vars, icmp_vars>>
    \/ service = "probes" /\ IcmpNext /\ UNCHANGED <<service, dhcp_vars, dns_vars>>

Spec == Init /\ [][Next]_vars /\ DhcpFairness

-----------------------------------------------------------------------------
(* Servers: a gives everything in its offer, b leaves out the gateway, c   *)
(* has an offer without an address.                                        *)

MCServers == {"a", "b", "c"}

MCRefusals == {{}, {"a"}}

MCOfferOpts ==
    [s \in MCServers |-> IF s = "a" THEN Options ELSE {"dns"}]

MCAckOpts ==
    [s \in MCServers |-> CASE s = "a" -> {"lease"}
                           [] s = "b" -> {"netmask", "dns"}
                           [] OTHER -> {}]

(* Names: two spellings of one host, two more hosts, and a name that the   *)
(* server maps to 0.0.0.0.                                                 *)

MCNames == {"a", "A", "b", "d", "z"}
MCLower == [n \in MCNames |-> IF n = "A" THEN "a" ELSE n]
MCZone == [n \in MCNames |-> CASE n \in {"a", "A"} -> 1 [] n = "b" -> 2
                               [] n = "d" -> 3 [] OTHER -> 0]

(* Stations: a neighbour, and a host behind the gateway and one router,    *)
(* too far for a ping.                                                     *)

MCSubnet == {"gw", "near"}
MCPath == [d \in {"self", "near", "far"} |->
              IF d = "far" THEN <<"gw", "router">> ELSE <<>>]
MCMac == [h \in MCSubnet \cup {"self"} |-> <<"mac", h>>]
=============================================================================
