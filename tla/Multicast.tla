----------------------------- MODULE Multicast ------------------------------
(***************************************************************************)
(* Multicast in an IPv4 router (multicast): IGMP with IPMulticastTable for *)
(* the hosts, PIM with PIMForwardingTable for the routers downstream, and  *)
(* PIMControl, whose joins and prunes go to the routers upstream.          *)
(*                                                                         *)
(* An address of a source is a pair: the source, and whether its bytes are *)
(* swapped, which ntohl() does on the machines the package is built for.   *)
(* delsource() goes on with the iterator it has erased: when that was the  *)
(* last source of the list it runs past the end, which ends the process.   *)
(* The mode of a receiver that joined with IGMPv1 or v2, and PIMControl's  *)
(* source_connected, are never initialized.  A report has one record: the  *)
(* array of records is walked as if each had one source.  The queries that *)
(* answer a report, and PIM hellos of this router, change nothing here.    *)
(***************************************************************************)
EXTENDS Integers, Sequences, SequencesExt, FiniteMaps

CONSTANTS Channel,      \* group addresses
          Sender,       \* sources
          Receiver,     \* hosts
          Iface,        \* interfaces that PIM runs on
          MaxSources    \* sources of a record

ASSUME MulticastAssumption == MaxSources \in Nat

VARIABLES mc,           \* the router: groups, pim, upstream, connected, halted
          copies        \* where the last data packet was copied to

mcastVars == <<mc, copies>>

Modes == {"INCLUDE", "EXCLUDE", "NOT_SET"}
Wire(s) == <<s, FALSE>>
ntohl(a) == <<a[1], ~a[2]>>
Addresses == Sender \X BOOLEAN

\* IPMulticastTable::initialize(), PIMForwardingTable::configure()
MulticastInit ==
    /\ \E garbage \in BOOLEAN :
          mc = [groups |-> <<>>, pim |-> <<>>, connected |-> garbage, halted |-> FALSE,
                upstream |-> [c \in Channel \X Addresses |-> "none"]]
    /\ copies = {}

-----------------------------------------------------------------------------
\* PIMForwardingTable
addinterface(m, i) == IF i \in DOMAIN m.pim THEN m ELSE [m EXCEPT !.pim = Put(@, i, {})]

\* addgroup(): a second source of a group is taken for a double entry
pim_addgroup(m, i, g, a) ==
    IF i \notin DOMAIN m.pim \/ \E c \in m.pim[i] : c[1] = g THEN m
    ELSE [m EXCEPT !.pim[i] = @ \cup {<<g, ntohl(a)>>}]
delgroup(m, i, g, a) ==
    IF i \notin DOMAIN m.pim THEN m ELSE [m EXCEPT !.pim[i] = @ \ {<<g, ntohl(a)>>}]
\* true when nobody is found
getPIMreceivers(m, a, g) == \A i \in DOMAIN m.pim : <<g, a>> \notin m.pim[i]

\* PIMControl: `how' is join, or who has pruned
generatejoin(m, g, a, how) == [m EXCEPT !.upstream[<<g, ntohl(a)>>] = how]
join(m, g, a) == IF m.connected THEN m ELSE generatejoin(m, g, a, "join")
prune(m, g, a) == IF m.connected THEN m ELSE generatejoin(m, g, a, "pruned by hosts")
\* Mutant of the call of noPIMreceivers(): the address as it came.
noPIMreceivers_raw(m, g, a) == getPIMreceivers(m, ntohl(a), g)
noPIMreceivers(m, g, a) == getPIMreceivers(m, a, g)

\* IPMulticastTable
Member(m, r, g) == g \in DOMAIN m.groups /\ r \in DOMAIN m.groups[g]
addgroup(m, g) == IF g \in DOMAIN m.groups THEN m ELSE [m EXCEPT !.groups = Put(@, g, <<>>)]
joingroup(m, r, g, garbage) ==
    IF g \notin DOMAIN m.groups \/ Member(m, r, g) THEN m
    ELSE [m EXCEPT !.groups[g] = Put(@, r, [mode |-> garbage, sources |-> <<>>])]
leavegroup(m, r, g) ==
    IF ~Member(m, r, g) THEN m
    ELSE IF DOMAIN m.groups[g] = {r} THEN [m EXCEPT !.groups = Drop(@, {g})]
    ELSE [m EXCEPT !.groups[g] = Drop(@, {r})]
set_receiver_mode(m, r, g, mode) ==
    IF Member(m, r, g) THEN [m EXCEPT !.groups[g][r].mode = mode] ELSE m

\* addsource(), with the source swapped by IGMP
addsource(m, r, g, a) ==
    IF ~Member(m, r, g) \/ Contains(m.groups[g][r].sources, ntohl(a)) THEN m
    ELSE join([m EXCEPT !.groups[g][r].sources = Append(@, ntohl(a))], g, a)

\* what delsource() does when it has erased the source at position k
Erased(m, r, g, a, k) ==
    LET left == RemoveAt(m.groups[g][r].sources, k)
        gone == leavegroup(m, r, g)
    IN  IF m.groups[g][r].mode = "INCLUDE" /\ left = <<>>
        THEN IF noPIMreceivers(gone, g, ntohl(a)) THEN prune(gone, g, ntohl(a)) ELSE gone
        ELSE [m EXCEPT !.groups[g][r].sources = left, !.halted = k > Len(left)]
delsource(m, r, g, a) ==
    IF ~Member(m, r, g) \/ ~Contains(m.groups[g][r].sources, a) THEN m
    ELSE Erased(m, r, g, a, CHOOSE k \in DOMAIN m.groups[g][r].sources : m.groups[g][r].sources[k] = a)
\* true when nobody is found
getIGMPreceivers(m, a, g) ==
    g \in DOMAIN m.groups => \A r \in DOMAIN m.groups[g] : ~Contains(m.groups[g][r].sources, a)

-----------------------------------------------------------------------------
\* IGMP: the group records of a report, with the sources ss
addsources(m, r, g, ss) ==
    LET x[k \in 0 .. Len(ss)] == IF k = 0 THEN m ELSE addsource(x[k - 1], r, g, ntohl(Wire(ss[k])))
    IN  x[Len(ss)]
change_to_exclude_mode(m, r, g, ss, garbage) ==
    addsources(set_receiver_mode(joingroup(addgroup(m, g), r, g, garbage), r, g, "EXCLUDE"), r, g, ss)
allow_new_sources(m, r, g, ss, garbage) ==
    addsources(set_receiver_mode(joingroup(addgroup(m, g), r, g, garbage), r, g, "INCLUDE"), r, g, ss)
change_to_include_mode(m, r, g, ss, garbage) ==
    LET x == set_receiver_mode(joingroup(addgroup(m, g), r, g, garbage), r, g, "INCLUDE")
    IN  IF ss = <<>> THEN leavegroup(x, r, g) ELSE addsources(x, r, g, ss)
block_old_sources(m, r, g, ss) ==
    LET x[k \in 0 .. Len(ss)] ==
            IF k = 0 THEN m
            ELSE IF x[k - 1].halted THEN x[k - 1] ELSE delsource(x[k - 1], r, g, Wire(ss[k]))
    IN  x[Len(ss)]

Lists == {ss \in BoundedSeq(Sender, MaxSources) : IsInjective(ss)}

\* IGMP::simple_action()
IGMP_simple_action(r, g) ==
    /\ ~mc.halted
    /\ \/ \E garbage \in Modes : mc' = joingroup(addgroup(mc, g), r, g, garbage)
       \/ mc' = leavegroup(mc, r, g)
       \/ \E mode \in {"INCLUDE", "EXCLUDE"} : mc' = set_receiver_mode(mc, r, g, mode)
       \/ \E ss \in Lists :
             \/ mc' = change_to_include_mode(mc, r, g, ss, "NOT_SET")
             \/ mc' = change_to_exclude_mode(mc, r, g, ss, "NOT_SET")
             \/ mc' = allow_new_sources(mc, r, g, ss, "NOT_SET")
             \/ mc' = block_old_sources(mc, r, g, ss)
    /\ copies' = {}

\* PIM::push() of a hello, and of the join and the prune of one source
PIM_push(i) ==
    /\ ~mc.halted
    /\ \/ mc' = addinterface(mc, i)
       \/ \E g \in Channel, s \in Sender :
             LET a == Wire(s)
                 d == delgroup(mc, i, g, a)
             IN  \/ mc' = generatejoin(pim_addgroup(mc, i, g, a), g, ntohl(a), "join")
                 \/ mc' = IF getIGMPreceivers(d, a, g)
                          THEN generatejoin(d, g, ntohl(a), "pruned by routers") ELSE d
    /\ copies' = {}

\* IPMulticastTable::push() of a data packet, then PIMForwardingTable::push()
Multicast_push(g, s) ==
    /\ ~mc.halted
    /\ copies' = (IF g \in DOMAIN mc.groups THEN DOMAIN mc.groups[g] ELSE {})
                 \cup {i \in DOMAIN mc.pim : <<g, ntohl(Wire(s))>> \in mc.pim[i]}
    /\ UNCHANGED mc

MulticastNext ==
    \/ \E r \in Receiver, g \in Channel : IGMP_simple_action(r, g)
    \/ \E i \in Iface : PIM_push(i)
    \/ \E g \in Channel, s \in Sender : Multicast_push(g, s)

MulticastSpec == MulticastInit /\ [][MulticastNext]_mcastVars

-----------------------------------------------------------------------------
MulticastTypeOK ==
    /\ DOMAIN mc.groups \subseteq Channel /\ DOMAIN mc.pim \subseteq Iface
    /\ \A g \in DOMAIN mc.groups :
          /\ DOMAIN mc.groups[g] \in (SUBSET Receiver) \ {{}}
          /\ \A r \in DOMAIN mc.groups[g] : /\ mc.groups[g][r].mode \in Modes
                                            /\ IsInjective(mc.groups[g][r].sources)
    /\ copies \subseteq Receiver \cup Iface

\* Hosts and routers are asked for each other before a channel is pruned: a
\* channel that a router downstream has joined was joined upstream and not
\* pruned since by what a host said, and a source that a host has listed was
\* joined and not pruned by what a router said, in whatever order reports and
\* joins come and although both tables keep addresses in different byte order.
PruneSparesOthers ==
    \A g \in Channel, s \in Sender :
       LET state == mc.upstream[<<g, Wire(s)>>]
       IN  /\ ~getPIMreceivers(mc, ntohl(Wire(s)), g) => state \in {"join", "pruned by routers"}
           /\ ~getIGMPreceivers(mc, Wire(s), g) /\ ~mc.connected
                 => state \in {"join", "pruned by hosts"}

=============================================================================
