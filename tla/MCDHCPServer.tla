---------------------------- MODULE MCDHCPServer ----------------------------
(***************************************************************************)
(* The server with three clients that may send any message at any time;    *)
(* and one client and the server on a network that loses few packets, with *)
(* nobody who writes a handler.                                            *)
(***************************************************************************)
EXTENDS MCDHCP

CONSTANT e3

VARIABLE focus

mcVars == <<focus, dhcpVars>>

Three     == {e1, e2, e3}
Nobody    == [c \in Three |-> {}]
AnyClient == {m \in Sendable : m.xid = 0}

MCInit ==
    /\ focus \in {"server", "network"} /\ DHCPInit
    /\ \A c \in Three : my_ip[c] # None => focus = "network" /\ c = e1

MCNext ==
    /\ UNCHANGED focus
    /\ \/ focus = "server" /\ ((\E m \in AnyClient : serve(m)) \/ ServerTick) /\ UNCHANGED <<clientVars, netVars>>
       \/ focus = "network" /\ About(e1)

OnNetwork(A) == focus = "network" /\ UNCHANGED focus /\ A

(* Packets that are not lost are delivered and served.  A timer that stays *)
(* scheduled fires when its time comes, although Timer waits for answers   *)
(* that are on their way (strong fairness).  Nobody is obliged to write a  *)
(* handler, to restart or to lose a packet.                                *)
MCFair ==
    /\ MCInit /\ [][MCNext]_mcVars
    /\ WF_mcVars(OnNetwork(Receive(e1)))
    /\ WF_mcVars(OnNetwork(Serve(e1)))
    /\ \A t \in Timers : SF_mcVars(OnNetwork(Timer(e1, t)))

\* A client without a lease gets one, or gets it back: with finitely many
\* losses neither a lost packet of any kind nor an expiry leaves it searching
\* for ever, although a retransmitted request carries other options than the
\* first one and falls into another branch of the server.
GetsLease == focus = "network" => (cstate[e1] # "BOUND" ~> cstate[e1] = "BOUND")
=============================================================================
