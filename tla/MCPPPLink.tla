----------------------------- MODULE MCPPPLink ------------------------------
(***************************************************************************)
(* One element against a peer that may send anything; a link whose timers  *)
(* fire only when an answer can no longer come, and which is fair; and     *)
(* one, `slow', on which a timer may fire early and a packet overtake      *)
(* another.                                                                *)
(***************************************************************************)
EXTENDS PPPLink

VARIABLE peer

\* The request of any peer carries options that the element accepts, wants
\* changed or rejects; the elements themselves ask for good ones.
MCNode    == {"lac", "lns"}
MCOptions == {"good", "differs", "unknown"}
MCAddci   == [n \in MCNode |-> "good"]
MCReqci   == [n \in MCNode |-> [good    |-> "CONFACK",
                                differs |-> "CONFNAK",
                                unknown |-> "CONFREJ"]]
mcVars    == <<peer, allVars>>

SlowLink == INSTANCE PPPLink WITH MaxLoss <- 1, MaxEarly <- 1, Window <- 2

\* any peer may have acknowledged anything
MCInit ==
    /\ peer \in {"any", "timely", "slow"}
    /\ IF peer # "any" THEN LinkInit
       ELSE /\ Init /\ chan = [n \in Node |-> <<>>] /\ losses = 0 /\ opens = 0 /\ early = 0
            /\ acked = [n \in Node |-> Ids]

MCNext ==
    /\ UNCHANGED peer
    /\ \/ peer = "any" /\ Step("lac") /\ UNCHANGED linkVars
       \/ peer = "timely" /\ LinkNext
       \/ peer = "slow" /\ SlowLink!LinkNext

Timely(A) == peer = "timely" /\ UNCHANGED peer /\ A

MCFair ==
    /\ MCInit /\ [][MCNext]_mcVars
    /\ \A n \in Node : WF_mcVars(Timely(Deliver(n))) /\ SF_mcVars(Timely(Expire(n)))

\* Once a side of PPPControlProtocol asked for the link, and with fewer losses
\* than transmissions, both sides end up OPENED and stay so: a lost
\* acknowledgement leaves the link half open only until the retransmitted
\* request makes the OPENED side start over.
TimelyConverges == peer = "timely" => Converges

\* Nobody gives up on a timely link: the restart counter is reloaded before a
\* bounded number of losses can exhaust it.
TimelyNobodyGivesUp ==
    [][peer = "timely" => \A n \in Node : state'[n] = "STOPPED" => state[n] = "STOPPED"]_mcVars
=============================================================================
