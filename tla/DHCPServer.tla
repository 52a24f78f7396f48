----------------------------- MODULE DHCPServer -----------------------------
(***************************************************************************)
(* The DHCP server: DHCPClassifier in front of DHCPServerOffer,            *)
(* DHCPServerACKorNAK and DHCPServerRelease, which share a LeasePool.  The *)
(* message a handler pushes is left in `reply'.  In this module clients    *)
(* may send any message at any time.                                       *)
(***************************************************************************)
EXTENDS DHCPLeasePool

CONSTANT ServerIP       \* the lease table's _ip

ASSUME ServerAssumption == ServerIP \in Addr

VARIABLE reply          \* what the last handler pushed: a sequence of replies

serverVars == <<poolVars, reply>>

ServerInit == PoolInit /\ reply = <<>>

-----------------------------------------------------------------------------
\* The lease lasts 60 s; the option is always there.  An offer has it in the
\* order of the (little-endian) host, and the client reads 60 * 2^24 s.
Duration == 60
Offered  == 1006632960

\* make_offer_packet(): the server identifier is the address on offer
make_offer(m, a) ==
    [type |-> "OFFER", eth |-> m.eth, xid |-> m.xid, yiaddr |-> a,
     server |-> a, ltime |-> Offered]

make_ack(m, a) ==
    [type |-> "ACK", eth |-> m.eth, xid |-> m.xid, yiaddr |-> a,
     server |-> ServerIP, ltime |-> Duration]

\* make_nak_packet() looks for the request 14 bytes before it begins, so the
\* xid and the chaddr it copies are bytes of other fields
make_nak(m) ==
    [type |-> "NACK", eth |-> None, xid |-> None, yiaddr |-> None,
     server |-> ServerIP, ltime |-> None]

answer(Make(_, _), m, a) == reply' = IF a = None THEN <<>> ELSE <<Make(m, a)>>

\* DHCPServerOffer::push(): the address asked for, else any
offer(m) ==
    IF m.requested # None /\ new_lease_result(m.eth, m.requested) # None
      THEN /\ new_lease(m.eth, m.requested)
           /\ answer(make_offer, m, new_lease_result(m.eth, m.requested))
      ELSE /\ new_lease_any(m.eth)
           /\ answer(make_offer, m, new_lease_any_result(m.eth))

\* Mutant of the SELECTING branch: the address is acknowledged unseen.
selecting_unchecked(m) ==
    /\ reply' = <<make_ack(m, m.requested)>>
    /\ UNCHANGED poolVars

\* Mutant of the first branch: a request without options is not answered.
outside_of_the_spec_ignored(m) ==
    /\ reply' = <<>>
    /\ UNCHANGED poolVars

\* the branches of DHCPServerACKorNAK::push()
outside_of_the_spec(m) ==
    /\ new_lease_any(m.eth)
    /\ answer(make_ack, m, new_lease_any_result(m.eth))

selecting(m) ==
    /\ answer(make_ack, m, IF rev_lookup(m.eth) = m.requested THEN m.requested ELSE None)
    /\ UNCHANGED poolVars

init_reboot(m) ==
    /\ reply' = IF rev_lookup(m.eth) # m.requested THEN <<>>
                ELSE IF ends[m.requested] = "past"
                       THEN <<make_nak(m)>> ELSE <<make_ack(m, m.requested)>>
    /\ UNCHANGED poolVars

renew_or_rebind(m) ==
    IF rev_lookup(m.eth) = None
      THEN reply' = <<>> /\ UNCHANGED poolVars
      ELSE /\ extend(m.eth)
           /\ reply' = <<make_ack(m, rev_lookup(m.eth))>>

ack_or_nak(m) ==
    CASE m.ciaddr = None /\ m.requested = None                      -> outside_of_the_spec(m)
      [] m.ciaddr = None /\ m.requested # None /\ m.server # None   -> selecting(m)
      [] m.ciaddr = None /\ m.requested # None /\ m.server = None   -> init_reboot(m)
      [] m.ciaddr # None /\ m.requested = None /\ m.server = None   -> renew_or_rebind(m)
      [] OTHER                                                      -> reply' = <<>> /\ UNCHANGED poolVars

\* DHCPServerRelease::push()
release(m) ==
    /\ IF m.server = ServerIP THEN remove(m.eth) ELSE UNCHANGED poolVars
    /\ reply' = <<>>

\* DHCPClassifier::push() on the message type
serve(m) ==
    \/ m.type = "DISCOVER" /\ offer(m)
    \/ m.type = "REQUEST"  /\ ack_or_nak(m)
    \/ m.type = "RELEASE"  /\ release(m)

\* the clock passes the end of a lease
ServerTick == (\E a \in Pool : run_out(a)) /\ UNCHANGED reply

\* DHCPServerRelease::push() dereferences the server identifier of a release
\* unseen; every client sends one
Sendable == {m \in Request : m.type = "RELEASE" => m.server # None}

ServerNext == (\E m \in Sendable : serve(m)) \/ ServerTick

ServerSpec == ServerInit /\ [][ServerNext]_serverVars

-----------------------------------------------------------------------------
\* Whatever the clients send, the handlers use the pool as PoolNext allows:
\* one call per message, or two of which at most one takes effect.
UsesPool == PoolSpec

\* A request the server acknowledges leaves the address leased to the client
\* that sent it, and only to it, whichever branch answered.
AckedIsLeased ==
    \A i \in 1 .. Len(reply) :
        reply[i].type \in {"OFFER", "ACK"} =>
            /\ reply[i].yiaddr \in Pool
            /\ rev_lookup(reply[i].eth) = reply[i].yiaddr
            /\ leases[reply[i].yiaddr] = reply[i].eth
            /\ reply[i].yiaddr \notin free

\* "Sends out DHCP_ACK or DHCP_NAK accordingly" (dhcpserverack.hh): a reply
\* belongs to the transaction of the client it is sent to.
RepliesAreAddressed ==
    \A i \in 1 .. Len(reply) : reply[i].eth \in Eth /\ reply[i].xid \in Xid
=============================================================================
