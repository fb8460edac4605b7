--------------------------------- MODULE Net ---------------------------------
(***************************************************************************)
(* kernel/net: icmp.c and udp.c send through ipv4.c, which asks arp.c for   *)
(* the next hop and hands the frame to eth.c, a stub that counts it.        *)
(* Nothing is received, so every ARP entry is a permanent one and arp_poll  *)
(* finds nothing to age. An address is <<net, host>>. The shell calls only  *)
(* ping; the rest is the interface later features are to use.               *)
(***************************************************************************)
EXTENDS Integers, Sequences, FiniteSets

CONSTANTS
    Addresses, LocalIp, Gateway,
    ARP_CACHE_MAX,
    UDP_MAX_SOCKETS, UDP_MAX_PAYLOAD, IPV4_MAX_PAYLOAD,
    Lengths,                    \* payload lengths callers use
    FirstEphemeral, LastPort,   \* 49152, 65535
    MaxCalls                    \* bound: calls counted in the statistics

ASSUME NetAssumption ==
    /\ <<>> \notin Addresses
    /\ ARP_CACHE_MAX \in Nat \ {0} /\ UDP_MAX_SOCKETS \in Nat
    /\ LastPort \in Nat /\ FirstEphemeral \in 1 .. LastPort

VARIABLES
    g_cache,            \* address per slot; <<>>: not valid
    g_ip,
    g_sockets,          \* local port per slot; 0: not used
    g_next_ephemeral,
    stats
netVars == <<g_cache, g_ip, g_sockets, g_next_ephemeral, stats>>

Empty == <<>>
Slots == 0 .. ARP_CACHE_MAX - 1
Sockets == 0 .. UDP_MAX_SOCKETS - 1
Ports == 1 .. LastPort
Counters == {"eth_tx", "arp_hits", "arp_misses", "arp_requests", "ip_sent", "ip_dropped",
             "icmp_sent", "icmp_dropped", "udp_tx", "udp_dropped", "bound_sockets"}

Lowest(S) == CHOOSE x \in S : \A y \in S : x <= y

\* arp_init leaves the local entry in slot 0.
NetInit ==
    /\ g_cache = [s \in Slots |-> IF s = 0 THEN LocalIp ELSE Empty]
    /\ g_ip = LocalIp
    /\ g_sockets = [s \in Sockets |-> 0]
    /\ g_next_ephemeral = FirstEphemeral
    /\ stats = [c \in Counters |-> 0]

-----------------------------------------------------------------------------
(* Counting: what one call adds to the statistics of the layers it reaches. *)

Count(events) ==
    /\ stats["icmp_sent"] + stats["udp_tx"] + stats["icmp_dropped"] + stats["udp_dropped"] < MaxCalls
    /\ stats' = [c \in Counters |-> IF c \in events THEN stats[c] + 1 ELSE stats[c]]

route_lookup(ip) == IF ip[1] = g_ip[1] THEN ip ELSE Gateway

\* Mutant: a packet whose next hop is not known is counted as sent.
SentUnresolved(ip, length) ==
    IF length = 0 \/ length > IPV4_MAX_PAYLOAD THEN {"ip_dropped"}
    ELSE IF \E s \in Slots : g_cache[s] = route_lookup(ip)
    THEN {"arp_hits", "eth_tx", "ip_sent"}
    ELSE {"arp_misses", "arp_requests", "eth_tx", "ip_sent"}

\* ipv4_send: dropped for its length; dropped, with a request, for want of the next
\* hop's address; or sent. A frame fits the Ethernet limit in every case.
ipv4_send(ip, length) ==
    IF length = 0 \/ length > IPV4_MAX_PAYLOAD THEN {"ip_dropped"}
    ELSE IF \E s \in Slots : g_cache[s] = route_lookup(ip)
    THEN {"arp_hits", "eth_tx", "ip_sent"}
    ELSE {"arp_misses", "arp_requests", "eth_tx", "ip_dropped"}

Through(events, protocol) ==
    events \cup {IF "ip_sent" \in events THEN protocol[1] ELSE protocol[2]}

icmp_ping(ip) ==
    /\ Count(Through(ipv4_send(ip, 8), <<"icmp_sent", "icmp_dropped">>))
    /\ UNCHANGED <<g_cache, g_ip, g_sockets, g_next_ephemeral>>

udp_send(socket, ip, length) ==
    /\ Count(IF g_sockets[socket] = 0 \/ length > UDP_MAX_PAYLOAD THEN {"udp_dropped"}
             ELSE Through(ipv4_send(ip, 8 + length), <<"udp_tx", "udp_dropped">>))
    /\ UNCHANGED <<g_cache, g_ip, g_sockets, g_next_ephemeral>>

-----------------------------------------------------------------------------
(* The two tables.                                                          *)

\* Mutant: a free slot is taken before the entry is looked for.
FreeSlotFirst(ip) ==
    LET known == {s \in Slots : g_cache[s] = ip}
        free == {s \in Slots : g_cache[s] = Empty}
    IN IF free # {} THEN Lowest(free) ELSE IF known # {} THEN Lowest(known) ELSE 0

\* A full cache gives up slot 0, where the local entry is.
find_slot(ip) ==
    LET known == {s \in Slots : g_cache[s] = ip}
        free == {s \in Slots : g_cache[s] = Empty}
    IN IF known # {} THEN Lowest(known) ELSE IF free # {} THEN Lowest(free) ELSE 0

arp_add_static(ip) ==
    /\ g_cache' = [g_cache EXCEPT ![find_slot(ip)] = ip]
    /\ UNCHANGED <<g_ip, g_sockets, g_next_ephemeral, stats>>

\* The routes follow; arp.c keeps its own copy of the address, and the cache.
ipv4_set_ip(ip) ==
    g_ip' = ip /\ UNCHANGED <<g_cache, g_sockets, g_next_ephemeral, stats>>

FreeSockets == {s \in Sockets : g_sockets[s] = 0}
Bindable(port) == FreeSockets # {} /\ \A s \in Sockets : g_sockets[s] # port

Binds(port) ==
    /\ g_sockets' = [g_sockets EXCEPT ![Lowest(FreeSockets)] = port]
    /\ stats' = [stats EXCEPT !["bound_sockets"] = @ + 1]
    /\ UNCHANGED <<g_cache, g_ip>>

udp_bind(port) == Bindable(port) /\ Binds(port) /\ UNCHANGED g_next_ephemeral

\* Mutant: the port that was tried first is bound, taken or not.
AutoBindNext ==
    /\ FreeSockets # {}
    /\ Binds(g_next_ephemeral)
    /\ g_next_ephemeral' = IF g_next_ephemeral = LastPort THEN FirstEphemeral ELSE g_next_ephemeral + 1

\* The search runs from g_next_ephemeral to the last port and does not start over.
udp_auto_bind ==
    \E port \in g_next_ephemeral .. LastPort :
        /\ Bindable(port) /\ \A p \in g_next_ephemeral .. port - 1 : ~Bindable(p)
        /\ Binds(port)
        /\ g_next_ephemeral' = IF port = LastPort THEN FirstEphemeral ELSE port + 1

\* bound_sockets is not counted down.
udp_unbind(socket) ==
    /\ g_sockets[socket] # 0
    /\ g_sockets' = [g_sockets EXCEPT ![socket] = 0]
    /\ UNCHANGED <<g_cache, g_ip, g_next_ephemeral, stats>>

NetNext ==
    \/ \E ip \in Addresses :
         \/ icmp_ping(ip) \/ arp_add_static(ip) \/ ipv4_set_ip(ip)
         \/ \E socket \in Sockets, length \in Lengths : udp_send(socket, ip, length)
    \/ stats["bound_sockets"] < MaxCalls /\ (udp_auto_bind \/ \E port \in Ports : udp_bind(port))
    \/ \E socket \in Sockets : udp_unbind(socket)

NetSpec == NetInit /\ [][NetNext]_netVars

-----------------------------------------------------------------------------
\* arp.c, udp.c: however slots are reused, evicted and freed, an address has one
\* entry, and a port one socket; find_slot and find_socket_index rely on it.
OneEntryEach ==
    /\ \A s, t \in Slots : g_cache[s] # Empty /\ g_cache[s] = g_cache[t] => s = t
    /\ \A s, t \in Sockets : g_sockets[s] # 0 /\ g_sockets[s] = g_sockets[t] => s = t

\* The counters of five files agree: each frame is a packet or an ARP request, each
\* packet a datagram or a ping, and whatever IPv4 drops is dropped above it.
FramesAccounted ==
    /\ stats["eth_tx"] = stats["ip_sent"] + stats["arp_requests"]
    /\ stats["ip_sent"] = stats["icmp_sent"] + stats["udp_tx"]
    /\ stats["ip_dropped"] <= stats["icmp_dropped"] + stats["udp_dropped"]
    /\ stats["arp_hits"] = stats["ip_sent"] /\ stats["arp_misses"] = stats["arp_requests"]
=============================================================================
