---------------------------- MODULE MCSRRouting -----------------------------
(***************************************************************************)
(* Two triangles, s a b and a b d: when a link breaks there is another way *)
(* from s to d.  All nodes run the same version of source routing.         *)
(***************************************************************************)
EXTENDS SRRouting, TLC

CONSTANTS s, a, b, d
VARIABLE version

Kite     == {s, a, b, d}
Sides    == {<<s, a>>, <<s, b>>, <<a, b>>, <<a, d>>, <<b, d>>}
FarLink  == {<<a, d>>}     \* of the best way, the link the source does not see
OneWay   == (s :> d)
KiteLinks == Both(Sides)
KiteMetric == [l \in KiteLinks |-> IF b \in {l[1], l[2]} THEN 2 ELSE 1]

mcVars == <<version, srVars>>

MCInit == version \in {1, 2} /\ SRInit
MCNext == UNCHANGED version /\ ((version = 1 /\ SRNext) \/ (version = 2 /\ SR2Next))

Either(A, A2) == UNCHANGED version /\ ((version = 1 /\ A) \/ (version = 2 /\ A2))

\* as SRFair
MCFair ==
    /\ MCInit /\ [][MCNext]_mcVars
    /\ \A x \in Source : /\ WF_mcVars(Either(Offer(x), SR2Offer(x)))
                         /\ WF_mcVars(Either(WaitOver(x), WaitOver(x)))
                         /\ WF_mcVars(Either(SwitchTime(x), SwitchTime(x)))
    /\ \A n \in Node : /\ WF_mcVars(Either(Receive(n), SR2MetricFlood_push(n)))
                       /\ WF_mcVars(Either(Hook(n), SR2MetricFlood_forward_query_hook(n)))
=============================================================================
