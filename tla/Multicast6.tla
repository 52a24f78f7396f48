----------------------------- MODULE Multicast6 -----------------------------
(***************************************************************************)
(* Multicast in an IPv6 router (multicast6): MLD with IP6MulticastTable,   *)
(* IP6PIM with IP6PIMForwardingTable, and IP6PIMControl.                   *)
(*                                                                         *)
(* A group of FF70::/12 has the address of its rendezvous point embedded,  *)
(* Rp[g]; what extract_rp() makes of another group is an address nobody    *)
(* has.  MLD switches on a char: where chars are signed no MLD message is  *)
(* recognized.  A query is compared with v1report, which may never have    *)
(* been set.  The mode of a receiver that joined with MLDv1 is never       *)
(* initialized.  noPIMreceivers() is true when there ARE such receivers.   *)
(***************************************************************************)
EXTENDS Multicast

CONSTANTS Group6,       \* group addresses
          Embedded,     \* those of FF70::/12
          Source6,      \* sources, rendezvous points among them
          Rp,           \* extract_rp(): [Group6 -> Source6 \cup {Nobody}]
          Nobody,
          Listener      \* the hosts on whose links a group is used: [Group6 -> SUBSET Receiver]

ASSUME EmbeddedAssumption == /\ Embedded \subseteq Group6 /\ Nobody \notin Source6
                             /\ Rp \in [Group6 -> Source6 \cup {Nobody}]
                             /\ \A g \in Group6 : Rp[g] \in Source6 <=> g \in Embedded

VARIABLES m6,           \* the router: groups, pim, upstream, charSigned, halted
          copies6       \* where the last data packet was copied to

mcast6Vars == <<m6, copies6>>

\* IP6PIMControl::initialize(), IP6PIMForwardingTable::configure()
Multicast6Init ==
    /\ \E signed \in BOOLEAN :
          m6 = [groups |-> <<>>, pim |-> <<>>, charSigned |-> signed, halted |-> FALSE,
                upstream |-> [c \in Group6 \X (Source6 \cup {Nobody}) |-> "none"]]
    /\ copies6 = {}

-----------------------------------------------------------------------------
\* IP6PIMForwardingTable: one source for a group of an interface
addinterface6(m, i) == IF i \in DOMAIN m.pim THEN m ELSE [m EXCEPT !.pim = Put(@, i, <<>>)]
pim_addgroup6(m, i, g, s) ==
    IF i \notin DOMAIN m.pim THEN m
    ELSE IF g \in DOMAIN m.pim[i] THEN m ELSE [m EXCEPT !.pim[i] = Put(@, g, s)]
delgroup6(m, i, g) == IF i \notin DOMAIN m.pim THEN m ELSE [m EXCEPT !.pim[i] = Drop(@, {g})]
getPIMreceivers6(m, s, g) == \E i \in DOMAIN m.pim : g \in DOMAIN m.pim[i] /\ m.pim[i][g] = s

\* IP6PIMControl
extract_rp(g) == Rp[g]
noPIMreceivers6(m, g) == getPIMreceivers6(m, extract_rp(g), g)
generatejoinprune(m, g, s, how) == [m EXCEPT !.upstream[<<g, s>>] = how]

\* IP6MulticastTable: a receiver has one source, or Nobody
Member6(m, r, g) == g \in DOMAIN m.groups /\ r \in DOMAIN m.groups[g]
addgroup6(m, g) == IF g \in DOMAIN m.groups THEN m ELSE [m EXCEPT !.groups = Put(@, g, <<>>)]
joingroup6(m, r, g, garbage) ==
    IF g \notin DOMAIN m.groups \/ Member6(m, r, g) THEN m
    ELSE [m EXCEPT !.groups[g] = Put(@, r, [mode |-> garbage, source |-> Nobody])]
\* Mutant of leavegroup6(): the group stays when its last receiver leaves.
leavegroup6_keeps(m, r, g) ==
    IF ~Member6(m, r, g) THEN m ELSE [m EXCEPT !.groups[g] = Drop(@, {r})]
leavegroup6(m, r, g) ==
    IF ~Member6(m, r, g) THEN m
    ELSE IF DOMAIN m.groups[g] = {r} THEN [m EXCEPT !.groups = Drop(@, {g})]
    ELSE [m EXCEPT !.groups[g] = Drop(@, {r})]
set_receiver_mode6(m, r, g, mode) ==
    IF Member6(m, r, g) THEN [m EXCEPT !.groups[g][r].mode = mode] ELSE m
addsource6(m, r, g, s) ==
    IF ~Member6(m, r, g) THEN m
    ELSE IF m.groups[g][r].source # Nobody THEN m
    ELSE LET x == [m EXCEPT !.groups[g][r].source = s]
         IN  IF noPIMreceivers6(x, g) THEN generatejoinprune(x, g, s, "join") ELSE x
delsource6(m, r, g, s) ==
    IF ~Member6(m, r, g) THEN m
    ELSE IF m.groups[g][r].source # s THEN m
    ELSE LET x == [m EXCEPT !.groups[g][r].source = Nobody]
             y == IF m.groups[g][r].mode = "INCLUDE" THEN leavegroup6(x, r, g) ELSE x
         IN  IF noPIMreceivers6(y, g) THEN generatejoinprune(y, g, s, "pruned by hosts") ELSE y
\* true when nobody is found
getMLDreceivers(m, g) ==
    g \in DOMAIN m.groups => \A r \in DOMAIN m.groups[g] : m.groups[g][r].source = Nobody

-----------------------------------------------------------------------------
\* MLD: group records with the sources ss
Sources6(m, r, g, ss) == FoldLeft(LAMBDA x, s : addsource6(x, r, g, s), m, ss)
change_to_exclude_mode6(m, r, g, ss) ==
    Sources6(set_receiver_mode6(joingroup6(m, r, g, "NOT_SET"), r, g, "EXCLUDE"), r, g,
             IF ss = <<>> /\ g \in Embedded THEN <<extract_rp(g)>> ELSE ss)
change_to_include_mode6(m, r, g, ss) ==
    LET x == set_receiver_mode6(joingroup6(m, r, g, "NOT_SET"), r, g, "INCLUDE")
    IN  IF ss = <<>> THEN leavegroup6(x, r, g) ELSE Sources6(x, r, g, ss)
allow_new_sources6(m, r, g, ss) ==
    Sources6(set_receiver_mode6(joingroup6(m, r, g, "NOT_SET"), r, g, "INCLUDE"), r, g, ss)
block_old_sources6(m, r, g, ss) == FoldLeft(LAMBDA x, s : delsource6(x, r, g, s), m, ss)

\* lists of different sources
Lists6 == {ss \in BoundedSeq(Source6, MaxSources) : IsInjective(ss)}

\* MLD::simple_action() of the MLDv1 report and done, and of an MLDv2 report
MLD_report(r, g, garbage) ==
    LET x == joingroup6(addgroup6(m6, g), r, g, garbage)
    IN  IF g \in Embedded THEN addsource6(x, r, g, extract_rp(g)) ELSE x
MLD_done(r, g) ==
    leavegroup6(IF g \in Embedded THEN delsource6(m6, r, g, extract_rp(g)) ELSE m6, r, g)
MLD_simple_action(r, g) ==
    /\ ~m6.halted /\ ~m6.charSigned
    /\ \/ \E broken \in BOOLEAN : m6' = [m6 EXCEPT !.halted = broken]
       \/ \E garbage \in Modes : m6' = MLD_report(r, g, garbage)
       \/ m6' = MLD_done(r, g)
       \/ \E ss \in Lists6 : \/ m6' = change_to_include_mode6(m6, r, g, ss)
                             \/ m6' = change_to_exclude_mode6(addgroup6(m6, g), r, g, ss)
                             \/ m6' = allow_new_sources6(m6, r, g, ss)
                             \/ m6' = block_old_sources6(m6, r, g, ss)
    /\ copies6' = {}

\* IP6PIM::push() of a hello, and of the join and the prune of one source
IP6PIM_push(i) ==
    /\ ~m6.halted
    /\ \/ m6' = addinterface6(m6, i)
       \/ \E g \in Group6, s \in Source6 :
             LET to == IF g \in Embedded THEN extract_rp(g) ELSE s
                 d  == delgroup6(m6, i, g)
             IN  \/ m6' = generatejoinprune(pim_addgroup6(m6, i, g, s), g, to, "join")
                 \/ m6' = IF g \in Embedded /\ ~getMLDreceivers(d, g) THEN d
                          ELSE generatejoinprune(d, g, to, "pruned by routers")
    /\ copies6' = {}

\* IP6MulticastTable::push() of a data packet, then IP6PIMForwardingTable::push()
Multicast6_push(g) ==
    /\ ~m6.halted
    /\ copies6' = (IF g \in DOMAIN m6.groups THEN DOMAIN m6.groups[g] ELSE {})
                  \cup {i \in DOMAIN m6.pim : g \in DOMAIN m6.pim[i]}
    /\ UNCHANGED m6

Multicast6Next ==
    \/ \E g \in Group6 : \E r \in Listener[g] : MLD_simple_action(r, g)
    \/ \E i \in Iface : IP6PIM_push(i)
    \/ \E g \in Group6 : Multicast6_push(g)

-----------------------------------------------------------------------------
Multicast6TypeOK ==
    /\ DOMAIN m6.groups \subseteq Group6 /\ DOMAIN m6.pim \subseteq Iface
    /\ \A g \in DOMAIN m6.groups :
          /\ DOMAIN m6.groups[g] \in SUBSET Receiver \ {{}}
          /\ \A r \in DOMAIN m6.groups[g] : /\ m6.groups[g][r].mode \in Modes
                                            /\ m6.groups[g][r].source \in Source6 \cup {Nobody}
    /\ \A i \in DOMAIN m6.pim : DOMAIN m6.pim[i] \subseteq Group6
    /\ copies6 \subseteq Receiver \cup Iface
=============================================================================
