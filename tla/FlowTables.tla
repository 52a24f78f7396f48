----------------------------- MODULE FlowTables -----------------------------
(***************************************************************************)
(* Two small tables.  RTPClassifier of unibo_qos takes a flow for RTP      *)
(* after several packets in a row, and gives it one of few numbers.        *)
(* LeaseHash of dhcp leases each client the address that its hardware      *)
(* address hashes to, in the maps of DHCPLeaseTable.                       *)
(***************************************************************************)
EXTENDS Integers, FiniteSets, FiniteSetsExt, FiniteMaps

CONSTANTS Ssrc,             \* SSRC_ANNO
          MAX, NRTP,        \* rows of the two tables
          TIMEOUT, TIMEOUTRTP,
          Sixth,            \* a flow with more packets than this is RTP: 6 in the code
          MaxNow,
          Mac, HashOf       \* clients, and the address of each

ASSUME FlowTablesAssumption == {MAX, NRTP, TIMEOUT, TIMEOUTRTP, Sixth, MaxNow} \subseteq Nat

VARIABLES rtp, hashed

tableVars == <<rtp, hashed>>

-----------------------------------------------------------------------------
\* FlowTable().  `row' and `earned' say what a flow sent: packets no further apart
\* than TIMEOUT, and whether they made it RTP.
FreeRow == [ssrc |-> 0, time |-> 0, flag |-> 0, count |-> 0]
RTPInit ==
    rtp = [table |-> [x \in 1 .. MAX |-> FreeRow], tabrtp |-> [x \in 1 .. NRTP |-> FreeRow], now |-> 0,
           row |-> [s \in Ssrc |-> 0], last |-> [s \in Ssrc |-> 0], earned |-> [s \in Ssrc |-> FALSE],
           out |-> [ssrc |-> 0, number |-> 0]]

Live(t, s) == {x \in DOMAIN t : t[x].flag # 0 /\ t[x].ssrc = s}
FreeRows(t) == {x \in DOMAIN t : t[x].flag = 0}
FirstOf(S) == CHOOSE x \in S : \A y \in S : x <= y

\* del_old_flow()
AgedRows(t, limit) == [x \in DOMAIN t |-> IF t[x].flag # 0 /\ rtp.now - t[x].time > limit THEN [t[x] EXCEPT !.flag = 0] ELSE t[x]]
\* Mutant: only the table of RTP flows is cleaned.
del_old_flow_rtp(r) == [r EXCEPT !.tabrtp = AgedRows(@, TIMEOUTRTP)]
del_old_flow(r) == [r EXCEPT !.table = AgedRows(@, TIMEOUT), !.tabrtp = AgedRows(@, TIMEOUTRTP)]

\* ins_flow_rtp(): a number for the flow, or 0
ins_flow_rtp(r, s) ==
    IF FreeRows(r.tabrtp) = {} THEN <<r, 0>>
    ELSE LET x == FirstOf(FreeRows(r.tabrtp))
         IN  <<[r EXCEPT !.tabrtp[x] = [ssrc |-> s, time |-> r.now, flag |-> 1, count |-> Sixth + 1]], x>>

\* ins_flow(): an RTP flow keeps its number; another one is counted, and gets one
\* when it has sent enough; a new one gets a row while there is one
ins_flow(r, s) ==
    IF Live(r.tabrtp, s) # {}
    THEN <<[r EXCEPT !.tabrtp[FirstOf(Live(r.tabrtp, s))].time = r.now], FirstOf(Live(r.tabrtp, s))>>
    ELSE IF Live(r.table, s) # {}
    THEN LET x == FirstOf(Live(r.table, s))
             n == IF r.table[x].count <= Sixth THEN r.table[x].count + 1 ELSE r.table[x].count
             t == [r EXCEPT !.table[x].count = n, !.table[x].time = r.now]
         IN  IF n > Sixth THEN ins_flow_rtp(t, s) ELSE <<t, 0>>
    ELSE IF FreeRows(r.table) = {} THEN <<r, 0>>
    ELSE <<[r EXCEPT !.table[FirstOf(FreeRows(r.table))] = [ssrc |-> s, time |-> r.now, flag |-> 1, count |-> 1]], 0>>

\* push(): a flow with a number leaves by port 0
RTP_push(s) ==
    LET gap == rtp.now - rtp.last[s]
        sent == IF gap > TIMEOUT THEN 1 ELSE IF rtp.row[s] > Sixth THEN rtp.row[s] ELSE rtp.row[s] + 1
        r == [rtp EXCEPT !.row[s] = sent, !.last[s] = rtp.now,
                         !.earned[s] = (sent > Sixth \/ (@ /\ gap <= TIMEOUTRTP))]
        f == ins_flow(del_old_flow(r), s)
    IN  rtp' = [f[1] EXCEPT !.out = [ssrc |-> s, number |-> f[2]]]
Second == rtp.now < MaxNow /\ rtp' = [rtp EXCEPT !.now = @ + 1]

-----------------------------------------------------------------------------
\* LeaseHash with the maps of DHCPLeaseTable; `asked' are the clients with a lease
HashInit == hashed = [ips |-> <<>>, leases |-> <<>>, asked |-> {}]
Hash_rev_lookup(e) == e \in DOMAIN hashed.ips /\ (e \in DOMAIN hashed.ips => hashed.ips[e] \in DOMAIN hashed.leases)
\* new_lease_any(), and new_lease(), which ignores the address
Hash_new_lease(e) ==
    hashed' = [ips |-> IF Hash_rev_lookup(e) THEN hashed.ips ELSE Put(hashed.ips, e, HashOf[e]),
               leases |-> IF Hash_rev_lookup(e) THEN hashed.leases ELSE Put(hashed.leases, HashOf[e], e),
               asked |-> hashed.asked \cup {e}]
\* DHCPLeaseTable::remove()
Hash_remove(e) ==
    hashed' = [ips |-> IF Hash_rev_lookup(e) THEN Drop(hashed.ips, {e}) ELSE hashed.ips,
               leases |-> IF Hash_rev_lookup(e) THEN Drop(hashed.leases, {hashed.ips[e]}) ELSE hashed.leases,
               asked |-> hashed.asked \ {e}]

FlowTablesInit == RTPInit /\ HashInit
RTPNext == (Second \/ \E s \in Ssrc : RTP_push(s)) /\ UNCHANGED hashed
HashNext == (\E e \in Mac : Hash_new_lease(e) \/ Hash_remove(e)) /\ UNCHANGED rtp
FlowTablesSpec == FlowTablesInit /\ [][RTPNext \/ HashNext]_tableVars

-----------------------------------------------------------------------------
FlowTablesTypeOK ==
    /\ rtp.now \in 0 .. MaxNow /\ rtp.out.number \in 0 .. NRTP
    /\ DOMAIN hashed.ips \subseteq Mac /\ DOMAIN hashed.leases \subseteq {HashOf[e] : e \in Mac}

\* A flow has one number and no other flow has the same, however rows time out and
\* are used again; only a flow that sent more than six packets in a row has one (six
\* would do, says the documentation: SixthIsRTP), and a packet leaves as RTP only with
\* the number of its own flow.
RTPSound ==
    /\ \A s \in Ssrc : /\ Cardinality(Live(rtp.tabrtp, s)) <= 1 /\ Cardinality(Live(rtp.table, s)) <= 1
                       /\ Live(rtp.tabrtp, s) # {} => rtp.earned[s]
    /\ rtp.out.number # 0 => rtp.tabrtp[rtp.out.number].ssrc = rtp.out.ssrc

\* "Flows are classified as RTP if 6 following packets containing the same SSRC field
\* are received before TIMEOUT seconds" (rtpclassifier.hh:24).
SixthIsRTP == rtp.out.ssrc \in Ssrc => (rtp.row[rtp.out.ssrc] >= Sixth => rtp.out.number # 0)

\* Each lease is of the address that its client hashes to; a client whose hash is
\* its own holds a lease from when it asks for one until it gives it back, whatever
\* the clients do whose addresses collide.
LeaseHashSound ==
    /\ \A a \in DOMAIN hashed.leases : HashOf[hashed.leases[a]] = a
    /\ \A e \in Mac : (\A f \in Mac \ {e} : HashOf[f] # HashOf[e])
          => (e \in hashed.asked <=> HashOf[e] \in DOMAIN hashed.leases)

\* Both tables, in whatever order packets and seconds, or requests and releases of
\* leases, come.
FlowTablesSound == RTPSound /\ LeaseHashSound
=============================================================================
