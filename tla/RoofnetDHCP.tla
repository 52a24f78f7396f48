----------------------------- MODULE RoofnetDHCP ----------------------------
(***************************************************************************)
(* DHCPServer and SnoopDHCPReplies (roofnet/dhcp).                         *)
(*                                                                         *)
(* In push() the requested address of a REQUEST is parsed into a variable  *)
(* of the inner block, so that the outer requested_ip is always zero: a    *)
(* request without ciaddr is always answered with the address the client   *)
(* has, or any.  No lease ever ends by itself.                             *)
(***************************************************************************)
EXTENDS Integers, Sequences, FiniteSets, Functions, SequencesExt

CONSTANTS Ethers,       \* hardware addresses
          FirstIp, EndIp,   \* START and END; END itself is not given out
          ZeroIp,
          MaxFreeList   \* bound: entries of _free_list

ASSUME RoofnetDHCPAssumption ==
    FirstIp \in Int /\ EndIp \in Int /\ ZeroIp \in Int /\ MaxFreeList \in Nat
    /\ ZeroIp \notin FirstIp .. EndIp

VARIABLES owners,       \* _leases
          ips,          \* _ips
          freeIps,      \* _free
          freeList,     \* _free_list
          reply,        \* what was sent last
          hostRoutes    \* routes that SnoopDHCPReplies has made

rdhcpVars == <<owners, ips, freeIps, freeList, reply, hostRoutes>>
rdhcpPool == [owners |-> owners, ips |-> ips, free |-> freeIps, list |-> freeList]

\* configure()
RDHCPInit ==
    /\ owners = <<>> /\ ips = <<>>
    /\ freeIps = FirstIp .. EndIp - 1
    /\ freeList = [i \in 1 .. EndIp - FirstIp |-> FirstIp + i - 1]
    /\ reply = [type |-> "none"] /\ hostRoutes = {}

-----------------------------------------------------------------------------
Extend(fn, k, v) == [x \in DOMAIN fn \cup {k} |-> IF x = k THEN v ELSE fn[x]]

rev_lookup(p, eth) == IF eth \in DOMAIN p.ips THEN p.ips[eth] ELSE ZeroIp

\* insert()
RDHCP_insert(p, eth, ip) ==
    [p EXCEPT !.free = @ \ {ip}, !.ips = Extend(@, eth, ip), !.owners = Extend(@, ip, eth)]

\* new_lease(), with the address of the lease or ZeroIp
RDHCP_new_lease(p, eth, ip) ==
    IF rev_lookup(p, eth) # ZeroIp \/ ip \notin p.free THEN p ELSE RDHCP_insert(p, eth, ip)

\* new_lease_any(): takes entries from the list until one is really free
RDHCP_new_lease_any(p, eth) ==
    LET good == {i \in 1 .. Len(p.list) : p.list[i] \in p.free}
        at   == CHOOSE i \in good : \A j \in good : i <= j
    IN  IF rev_lookup(p, eth) # ZeroIp THEN p
        ELSE IF good = {} THEN [p EXCEPT !.list = <<>>]
        ELSE RDHCP_new_lease([p EXCEPT !.list = SubSeq(@, at + 1, Len(@))], eth, p.list[at])

\* Mutant of remove(): the address is free but not listed.
RDHCP_remove_unlisted(p, eth) ==
    LET ip == rev_lookup(p, eth)
    IN  IF ip = ZeroIp THEN p
        ELSE [p EXCEPT !.free = @ \cup {ip}, !.owners = Restrict(@, DOMAIN @ \ {ip}),
                       !.ips = Restrict(@, DOMAIN @ \ {eth})]

\* remove()
RDHCP_remove(p, eth) ==
    LET ip == rev_lookup(p, eth)
    IN  IF ip = ZeroIp THEN p
        ELSE [p EXCEPT !.free = @ \cup {ip}, !.list = Append(@, ip),
                       !.owners = Restrict(@, DOMAIN @ \ {ip}),
                       !.ips = Restrict(@, DOMAIN @ \ {eth})]

Becomes(p) ==
    owners' = p.owners /\ ips' = p.ips /\ freeIps' = p.free /\ freeList' = p.list

\* make_offer_packet(), make_ack_packet(): nothing is sent without a lease
Answer(type, p, eth) ==
    reply' = IF rev_lookup(p, eth) = ZeroIp THEN [type |-> "none"]
             ELSE [type |-> type, eth |-> eth, ip |-> rev_lookup(p, eth)]

\* push() of a DISCOVER, with a wanted address or ZeroIp
RDHCP_discover(eth, want) ==
    LET p == IF want = ZeroIp THEN rdhcpPool ELSE RDHCP_new_lease(rdhcpPool, eth, want)
        q == RDHCP_new_lease_any(p, eth)
    IN  Becomes(q) /\ Answer("OFFER", q, eth) /\ UNCHANGED hostRoutes

\* push() of a REQUEST without ciaddr; of one with ciaddr and no server (RENEW);
\* of any other
RDHCP_request(eth, ciaddr, server) ==
    /\ IF ciaddr = ZeroIp
       THEN LET q == RDHCP_new_lease_any(rdhcpPool, eth) IN Becomes(q) /\ Answer("ACK", q, eth)
       ELSE /\ IF server THEN reply' = [type |-> "none"] ELSE Answer("ACK", rdhcpPool, eth)
            /\ UNCHANGED <<owners, ips, freeIps, freeList>>
    /\ UNCHANGED hostRoutes

\* push() of a RELEASE to this server
RDHCP_release(eth) ==
    /\ Len(freeList) < MaxFreeList
    /\ Becomes(RDHCP_remove(rdhcpPool, eth))
    /\ reply' = [type |-> "none"] /\ UNCHANGED hostRoutes

\* SnoopDHCPReplies::simple_action(): a host route for the address of any reply
SnoopDHCPReplies_simple_action ==
    /\ reply.type # "none"
    /\ hostRoutes' = hostRoutes \cup {reply.ip}
    /\ UNCHANGED <<owners, ips, freeIps, freeList, reply>>

RDHCPNext ==
    \/ \E eth \in Ethers : \/ \E want \in FirstIp .. EndIp \cup {ZeroIp} : RDHCP_discover(eth, want)
                           \/ \E ci \in {FirstIp, ZeroIp}, srv \in BOOLEAN : RDHCP_request(eth, ci, srv)
                           \/ RDHCP_release(eth)
    \/ SnoopDHCPReplies_simple_action

-----------------------------------------------------------------------------
\* The two maps of the server name the same leases, an address is free or
\* leased and never both, and every free address has an entry in the list that
\* new_lease_any() reads, although new_lease() takes addresses from its middle
\* and remove() appends: a client is refused only when all addresses are taken.
RDHCPSound ==
    /\ \A eth \in DOMAIN ips : ips[eth] \in DOMAIN owners /\ owners[ips[eth]] = eth
    /\ \A ip \in DOMAIN owners : owners[ip] \in DOMAIN ips /\ ips[owners[ip]] = ip
    /\ freeIps \cap DOMAIN owners = {} /\ freeIps \cup DOMAIN owners = FirstIp .. EndIp - 1
    /\ freeIps \subseteq ToSet(freeList)
=============================================================================
