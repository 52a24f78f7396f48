----------------------------- MODULE MCServices -----------------------------
(***************************************************************************)
(* Elements that keep their own state, one at a time: `focus' is what      *)
(* runs, the others stay as they were made.                                *)
(***************************************************************************)
EXTENDS NATPT, Multicast6, MapTRW, Tunnels, Netflow, TCPTrace, TCPCollector, AddrColors, SNMP, Queues, FlowTables, TLC

CONSTANTS rpGroup, ssmGroup, rp6, noRp, h1, h2, tc, ts, tm

VARIABLE focus

mcVars == <<focus, natVars, mcastVars, mcast6Vars, trwVars, tunVars, nfVars, traceVars, coll, colorVars, snmpVars, queueVars, tableVars>>

MCRp == (rpGroup :> rp6) @@ (ssmGroup :> noRp)
MCReceiver == {h1, h2}
MCListener == (rpGroup :> {h1, h2}) @@ (ssmGroup :> {h1})
MCHost == {tc, ts, tm}
MCSide == (tc :> 0) @@ (ts :> 1) @@ (tm :> 1)
MCTalks == {<<tc, ts>>, <<ts, tc>>, <<tm, tc>>}
MCMin == -1
MCSays == ("64" :> {"EPRT", "229", "NOOP"}) @@ ("46" :> {"PORT", "PASV", "227"})
MCLength == [EPRT |-> 3, EPSV |-> 1, NOOP |-> 1, PORT |-> 2, PASV |-> 1]
            @@ ("229" :> 2) @@ ("200" :> 1) @@ ("227" :> 3)
MCNewLength == [EPRT |-> 2, EPSV |-> 1, PORT |-> 3, PASV |-> 1]
               @@ ("229" :> 3) @@ ("200" :> 2) @@ ("227" :> 2)

MCKinds == {[prot |-> p, eth |-> p # "udp", hop |-> p = "udp"] : p \in {"tcp", "udp", "icmp"}}
MCExporter == {<<"a", 1>>, <<"a", 2>>}
MCLayouts == {[fields |-> {l}, fixed |-> l, var |-> IF l = 8 THEN 10 ELSE 0] : l \in {4, 8}}

MCRanges == {<<0, 1>>, <<1, 2>>, <<0, 2>>}
MCAnalysis == [aggregates |-> {1}, ranges |-> MCRanges, ticks |-> {1}, data |-> 3, acks |-> 2, kills |-> 1]
MCInstant == [aggregates |-> {1}, ranges |-> MCRanges, ticks |-> {0, 1}, data |-> 2, acks |-> 1, kills |-> 1]
MCPool == [aggregates |-> {1, 2}, ranges |-> {<<0, 1>>}, ticks |-> {1}, data |-> 3, acks |-> 1, kills |-> 2]
MCBack == [aggregates |-> {1}, ranges |-> MCRanges, ticks |-> {-1, 1}, data |-> 3, acks |-> 0, kills |-> 1]
MCWorlds == {MCAnalysis, MCInstant, MCPool, MCBack}

MCIntegral == {0, 128, -129, 2147483647, -2147483647}
MCObjectIds == {<<1, 3>>, <<1, 3, 127, 128>>, <<2, 39, 16383, 16384, 2097152, 268435456>>, <<1>>}
MCOids == {<<1>>, <<1, 0>>, <<1, 2>>, <<1, 2, 0>>, <<2, 1>>}
MCContexts == {<<>>, <<"a">>, <<"a", "b">>}

MCGoal == (1 :> 50) @@ (2 :> 0)
MCWeight == ("n1" :> 1) @@ ("n2" :> 2)
MCHash == ("m1" :> 1) @@ ("m2" :> 2) @@ ("m3" :> 2)

MCInit ==
    /\ focus \in {"NATPT", "Multicast", "Multicast6", "MapTRW", "PPTP", "GRE",
                  "Netflow", "Templates", "Flows", "Board", "Collector", "Colors", "ColorFile", "BER", "Names", "Variables", "Traps", "Priority", "MulticastQueues", "RTP",
                  "LeaseHash"}
    /\ NATPTInit /\ MulticastInit /\ Multicast6Init /\ TRWInit /\ TunnelsInit /\ NetflowInit /\ TraceInit
    /\ CollectorInit /\ ColorsInit /\ SNMPInit /\ QueuesInit /\ FlowTablesInit
    /\ focus # "NATPT" => whose = "64"
    /\ focus # "GRE" => gre.reads = "same"
    /\ focus # "Collector" => coll.world = MCAnalysis
    /\ focus # "Netflow" => exporter.version = 5 /\ exporter.debug = FALSE
    /\ exporter.version # 10 => exporter.big = FALSE
    /\ focus # "Multicast" => mc.connected = FALSE
    /\ focus # "Priority" => prio.samples = [c \in Paints |-> 0]
    /\ focus # "MulticastQueues" => mq.policy = "MMT" /\ mq.video = FALSE
    /\ focus # "Multicast6" => m6.charSigned = FALSE

MCNext ==
    /\ UNCHANGED focus
    /\ \/ focus = "NATPT" /\ NATPTNext
       \/ focus # "NATPT" /\ UNCHANGED natVars
    /\ \/ focus = "Multicast" /\ MulticastNext
       \/ focus # "Multicast" /\ UNCHANGED mcastVars
    /\ \/ focus = "Multicast6" /\ Multicast6Next
       \/ focus # "Multicast6" /\ UNCHANGED mcast6Vars
    /\ \/ focus = "MapTRW" /\ TRWNext
       \/ focus # "MapTRW" /\ UNCHANGED trwVars
    /\ \/ focus = "PPTP" /\ PPTPNext
       \/ focus = "GRE" /\ GRENext
       \/ focus \notin {"PPTP", "GRE"} /\ UNCHANGED tunVars
    /\ \/ focus = "Netflow" /\ NetflowNext
       \/ focus = "Templates" /\ TemplatesNext
       \/ focus \notin {"Netflow", "Templates"} /\ UNCHANGED nfVars
    /\ \/ focus = "Flows" /\ FlowsNext
       \/ focus = "Board" /\ BoardNext
       \/ focus \notin {"Flows", "Board"} /\ UNCHANGED traceVars
    /\ \/ focus = "Collector" /\ CollectorNext
       \/ focus # "Collector" /\ UNCHANGED coll
    /\ \/ focus = "Colors" /\ InferNext
       \/ focus = "ColorFile" /\ FileNext
       \/ focus \notin {"Colors", "ColorFile"} /\ UNCHANGED colorVars
    /\ \/ focus = "BER" /\ BERNext
       \/ focus = "Names" /\ NamesNext
       \/ focus = "Variables" /\ VariablesNext
       \/ focus = "Traps" /\ TrapsNext
       \/ focus \notin {"BER", "Names", "Variables", "Traps"} /\ UNCHANGED snmpVars
    /\ \/ focus = "Priority" /\ PrioNext
       \/ focus = "MulticastQueues" /\ MQNext
       \/ focus \notin {"Priority", "MulticastQueues"} /\ UNCHANGED queueVars
    /\ \/ focus = "RTP" /\ RTPNext
       \/ focus = "LeaseHash" /\ HashNext
       \/ focus \notin {"RTP", "LeaseHash"} /\ UNCHANGED tableVars

MCSpec == MCInit /\ [][MCNext]_mcVars

-----------------------------------------------------------------------------
\* The properties of the elements.  StreamsContiguous, PruneSparesOthers, TunnelsSound,
\* QueuesSound and FlowTablesSound are those of their modules; these are of the states in which an
\* element runs, the others are as they were made.

\* What the variables of all elements hold; no group without a receiver stays.
ServicesTypeOK ==
    /\ focus = "NATPT" => NATPTTypeOK
    /\ focus = "Multicast" => MulticastTypeOK
    /\ focus = "Multicast6" => Multicast6TypeOK
    /\ focus = "MapTRW" => TRWTypeOK
    /\ focus \in {"PPTP", "GRE"} => TunnelsTypeOK
    /\ focus \in {"Netflow", "Templates"} => NetflowTypeOK
    /\ focus \in {"Flows", "Board"} => TraceTypeOK
    /\ focus = "Collector" => CollectorTypeOK
    /\ focus \in {"Colors", "ColorFile"} => ColorsTypeOK
    /\ focus \in {"BER", "Names", "Variables", "Traps"} => SNMPTypeOK
    /\ focus \in {"Priority", "MulticastQueues"} => QueuesTypeOK
    /\ focus \in {"RTP", "LeaseHash"} => FlowTablesTypeOK

\* TRW: a client whose attempts are answered is never taken for a scanner.
PortScanSound == focus = "MapTRW" => AnsweredIsNeverDropped

\* What is measured is what happened.  NetflowExport reports every packet of a flow;
\* NetflowPrint reads each record with the template it was written with.
\* CalculateFlows counts each loss event once and, in a flow without reorderings and
\* retransmissions, marks as delivered what was acknowledged; TCPScoreboard has the
\* set of what it was told;
\* TCPMystery finds, in the packets TCPCollector kept, those that were delivered;
\* InferIPAddrColors gives the two ends of each packet different colors, also after
\* colors were joined, compacted, written to a file and read again.
MeasurementsSound ==
    /\ focus \in {"Netflow", "Templates"} => NetflowSound
    /\ focus \in {"Flows", "Board"} => TraceSound
    /\ focus = "Collector" => CollectorSound
    /\ focus \in {"Colors", "ColorFile"} => ColorsSound

\* SNMPTrapSource sends each trap that its ring took, once and in order, in BER that
\* says what was asked for unless a binding is longer than its length can say; names
\* and variables stand for their identifiers.
SNMPTrapsSound == focus \in {"BER", "Names", "Variables", "Traps"} => SNMPSound
=============================================================================
