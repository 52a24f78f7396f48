------------------------------ MODULE PPPLink -------------------------------
(***************************************************************************)
(* Two control-protocol elements that negotiate with each other over a     *)
(* PPTP tunnel (LCP with LCP, or IPCP with IPCP).  The GRE part of the     *)
(* tunnel passes on whatever arrives ("XXX check sequence and              *)
(* acknowledgement numbers" in pptpserver.cc): packets may be lost and     *)
(* overtake each other.                                                    *)
(***************************************************************************)
EXTENDS PPPControlProtocol, SequencesExt

CONSTANTS MaxLoss,      \* bound: packets the tunnel loses
          MaxOpen,      \* bound: times a remote side asks for the link
          MaxEarly,     \* bound: timers that fire while packets travel
          Window        \* a packet overtakes fewer than Window others

ASSUME LinkAssumption ==
    /\ \E a, b \in Node : a # b /\ Node = {a, b}
    /\ MaxLoss \in Nat
    /\ MaxOpen \in Nat
    /\ MaxEarly \in Nat
    /\ Window \in Nat \ {0}

VARIABLES chan,     \* chan[n]: packets on their way to n
          losses,   \* packets lost so far
          opens,    \* open requests so far
          early,    \* premature expirations so far
          acked     \* history: ids of the requests n has acknowledged

linkVars == <<chan, losses, opens, early, acked>>
allVars  == <<vars, linkVars>>

Peer(n) == CHOOSE m \in Node : m # n

LinkInit ==
    /\ Init
    /\ chan   = [n \in Node |-> <<>>]
    /\ losses = 0
    /\ opens  = 0
    /\ early  = 0
    /\ acked  = [n \in Node |-> {}]

\* what n pushed in this step goes to its peer, what it read is gone
Carry(n, rest) ==
    chan' = [chan EXCEPT ![n] = rest, ![Peer(n)] = @ \o out'[n]]

Record(n) ==
    acked' = [acked EXCEPT ![n] =
                 @ \cup {out'[n][i].id : i \in {j \in 1 .. Len(out'[n]) :
                                                out'[n][j].code = "CONFACK"}}]

\* the remote PPP implementation brings its side up (pppd's lowerup; Click's
\* elements only ever answer)
Open(n) ==
    /\ opens < MaxOpen
    /\ opens' = opens + 1
    /\ state[n] = "STOPPED"
    /\ Restart(n)
    /\ Carry(n, chan[n])
    /\ UNCHANGED <<losses, early, acked>>

Deliver(n) ==
    \E i \in 1 .. Len(chan[n]) :
        /\ i <= Window
        /\ simple_action(n, chan[n][i])
        /\ Carry(n, RemoveAt(chan[n], i))
        /\ Record(n)
        /\ UNCHANGED <<losses, opens, early>>

\* The timer (3 s) is meant to be longer than the round trip; MaxEarly times
\* it fires although something is still on its way.
Expire(n) ==
    /\ IF \A m \in Node : chan[m] = <<>>
         THEN UNCHANGED early
         ELSE early < MaxEarly /\ early' = early + 1
    /\ timeout(n)
    /\ Carry(n, chan[n])
    /\ UNCHANGED <<losses, opens, acked>>

Lose(n) ==
    /\ losses < MaxLoss
    /\ losses' = losses + 1
    /\ \E i \in 1 .. Len(chan[n]) : chan' = [chan EXCEPT ![n] = RemoveAt(@, i)]
    /\ UNCHANGED <<vars, opens, early, acked>>

LinkNext ==
    \E n \in Node : Open(n) \/ Deliver(n) \/ Expire(n) \/ Lose(n)

LinkSpec == LinkInit /\ [][LinkNext]_allVars

(* Packets that are not lost are delivered: Click's driver polls its       *)
(* sockets forever.  A timer that stays scheduled fires, in the order of   *)
(* expiry, however often the peer's timer fires in between (strong         *)
(* fairness, because Expire waits for the channels to drain).  Nobody is   *)
(* obliged to open the link or to lose a packet.                           *)
LinkFair ==
    /\ LinkSpec
    /\ \A n \in Node : WF_allVars(Deliver(n)) /\ SF_allVars(Expire(n))

-----------------------------------------------------------------------------
\* An element reports OPENED only if its peer has acknowledged the request it
\* has outstanding: losses, premature retransmissions, overtaking packets and
\* restarts on either side never leave it OPENED on the acknowledgement of an
\* older request.
OpenedIsAgreed ==
    \A n \in Node : state[n] = "OPENED" => reqid[n] \in acked[Peer(n)]

\* Once a side asked for the link, and with fewer losses than transmissions
\* (MaxLoss < MaxConfReqs), both sides end up OPENED and stay so: a lost
\* acknowledgement leaves the link half open only until the retransmitted
\* request makes the OPENED side start over.
Converges == (opens > 0) ~> [](\A n \in Node : state[n] = "OPENED")
=============================================================================
