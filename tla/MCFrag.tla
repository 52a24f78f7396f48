------------------------------- MODULE MCFrag -------------------------------
(***************************************************************************)
(* A packet of one fragment and one of two, a window of one fragment,      *)
(* frames for two, so that retransmissions take more than one frame, wrap  *)
(* around and put packets of different lengths behind one header.          *)
(* FragmentDupeFilter remembers two fragments, one less than are sent.     *)
(*                                                                         *)
(* Two networks: one that loses, duplicates and reorders, and a calm one   *)
(* that loses no more than is resent, no acknowledgement, and is fair.     *)
(***************************************************************************)
EXTENDS Frag

VARIABLE calm

MCNumFrags == [p \in PacketNums |-> 2 - (p % 2)]
mcVars == <<calm, fragVars>>

Calm == INSTANCE Frag WITH MaxLoss <- MaxRetries, MaxDup <- 0, LoseAcks <- FALSE

MCInit == calm \in BOOLEAN /\ FragInit

MCNext == UNCHANGED calm /\ ((~calm /\ FragNext) \/ (calm /\ Calm!FragNext))

Calmly(A) == calm /\ UNCHANGED calm /\ A

MCFair ==
    /\ MCInit /\ [][MCNext]_mcVars
    /\ SF_mcVars(Calmly(Calm!PullNew)) /\ SF_mcVars(Calmly(Calm!PullResend))
    /\ WF_mcVars(Calmly(Calm!PullNothing)) /\ WF_mcVars(Calmly(Calm!PullAckRequest))
    /\ WF_mcVars(Calmly(Calm!process_ack)) /\ WF_mcVars(Calmly(Calm!Receive))

\* With no more losses than retries, and none of acknowledgements, every packet
\* is delivered: the two pulls, the window and the retransmissions of
\* FragmentResender never wait for each other.
CalmDelivers == calm => Delivers
=============================================================================
