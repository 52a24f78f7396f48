------------------------------ MODULE MCRoofnet -----------------------------
(***************************************************************************)
(* Elements of roofnet and bp that keep their own state, one at a time:    *)
(* `focus' is what runs, the others stay as they were made.                *)
(***************************************************************************)
EXTENDS Gateways, ETTStat, Flooding, RoofnetDHCP, BackPressure, SRTables

VARIABLE focus

mcVars == <<focus, gatewayVars, setGatewayVars, ettVars, floodVars, rdhcpVars, bpVars,
            bpFloodVars, tabVars>>

\* nodes in a row, as far apart as each other
MCEtt == << [n \in {2} |-> 1], [n \in {1, 3} |-> 1], [n \in {2} |-> 1] >>
MCDist == << [d \in {3} |-> 2], [d \in {3} |-> 1], [d \in {3} |-> 0] >>
MCPackets == << [from |-> 1, to |-> 3], [from |-> 1, to |-> 3], [from |-> 2, to |-> 3] >>
MCRadio == {{1, 2}, {2, 3}}
MCOrigin == <<1, 3>>
MCNumbers == <<1, 2, 3, 0>>
MCBPLink == {{1, 2}, {1, 3}, {2, 3}}
\* one end is late or not, the other one is neither late nor early
MCDraws == [n \in End |-> IF n = CHOOSE m \in End : TRUE THEN {0, 1} ELSE {0}]

MCInit ==
    /\ focus \in {"GatewaySelector", "SetGateway", "ETTStat", "Flooding", "DHCPServer", "DataQueues",
                  "BPMetricFlood", "SRData", "SRFlood", "SRQuery"}
    /\ GatewayInit /\ SetGatewayInit /\ ETTStatInit /\ FloodInit /\ RDHCPInit /\ BPInit /\ BPFloodInit /\ SRTablesInit
    /\ focus # "GatewaySelector" => ~is_gw
    /\ focus # "DataQueues" => dmax = 0
    /\ focus # "ETTStat" => \A n \in End : due[n] = 0

MCNext ==
    /\ UNCHANGED focus
    /\ \/ focus = "GatewaySelector" /\ (GatewayNext \/ SR2GatewayNext)
       \/ focus # "GatewaySelector" /\ UNCHANGED gatewayVars
    /\ \/ focus = "SetGateway" /\ (SetGatewayNext \/ SR1SetGateway_push)
       \/ focus # "SetGateway" /\ UNCHANGED setGatewayVars
    /\ \/ focus = "ETTStat" /\ ETTStatNext
       \/ focus # "ETTStat" /\ UNCHANGED ettVars
    /\ \/ focus = "Flooding" /\ FloodNext
       \/ focus # "Flooding" /\ UNCHANGED floodVars
    /\ \/ focus = "DHCPServer" /\ RDHCPNext
       \/ focus # "DHCPServer" /\ UNCHANGED rdhcpVars
    /\ \/ focus = "DataQueues" /\ BPNext
       \/ focus # "DataQueues" /\ UNCHANGED bpVars
    /\ \/ focus = "BPMetricFlood" /\ BPFloodNext
       \/ focus # "BPMetricFlood" /\ UNCHANGED bpFloodVars
    /\ \/ focus = "SRData" /\ SRDataNext
       \/ focus = "SRFlood" /\ SRFloodNext
       \/ focus = "SRQuery" /\ SRQueryNext
       \/ focus \notin {"SRData", "SRFlood", "SRQuery"} /\ UNCHANGED tabVars

MCSpec == MCInit /\ [][MCNext]_mcVars

-----------------------------------------------------------------------------
\* The properties of each element, of the states in which it runs; the others are
\* as they were made.

\* What the variables of all elements hold; _seen of GatewaySelector and _FQ of
\* DataQueues stay within MaxSeen and _capacity.
RoofnetTypeOK ==
    /\ focus = "GatewaySelector" => GatewayTypeOK
    /\ focus = "SetGateway" => SetGatewayTypeOK
    /\ focus = "ETTStat" => ETTTypeOK
    /\ focus = "Flooding" => FloodTypeOK
    /\ focus = "DataQueues" => BPTypeOK
    /\ focus = "BPMetricFlood" => BPFloodTypeOK
    /\ focus \in {"SRData", "SRFlood", "SRQuery"} => SRTablesTypeOK

\* GatewaySelector leaves no advertisement without a timer; SetGateway keeps a flow
\* with the gateway that its SYN-ACK came through.
GatewaysSound ==
    /\ focus = "GatewaySelector" => WaitingAdHasTimer
    /\ focus = "SetGateway" => AgreedKeepsGateway

\* ETTStat takes no more than one probe for lost that was not, whatever is reset or
\* written to its handlers in between.
ProbesSound == focus = "ETTStat" => LosslessMissesOne

\* CounterFlood and PFlood pass a broadcast on once, and to every node when none of
\* its copies is lost.
FloodSound == focus = "Flooding" => FloodOnce /\ FloodCovers

\* The maps, the free map and the list of the roofnet DHCPServer agree.
LeasesSound == focus = "DHCPServer" => RDHCPSound

\* DataQueues serves no packet of the next period and never leaves everyone waiting;
\* BPMetricFlood finds all paths.
BackPressureSound ==
    /\ focus = "DataQueues" => GuardedPull /\ SomebodySends
    /\ focus = "BPMetricFlood" => AllPathsAnswered

\* DupeFilter, FloodTracker and SRQueryForwarder keep out what was there before.
SRTablesSound == focus \in {"SRData", "SRFlood", "SRQuery"} => TablesSound
=============================================================================
