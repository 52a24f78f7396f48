------------------------------- MODULE MCDHCP -------------------------------
(***************************************************************************)
(* Two clients that compete for one address.  The first one has timers     *)
(* that may fire too early, and is restarted; the second one is operated   *)
(* by somebody who writes lease "false" and then release.                  *)
(***************************************************************************)
EXTENDS DHCP, TLC

CONSTANTS e1, e2

MCEth       == {e1, e2}
MCSlow      == {e1}
MCUnlimited == Unlimited
Disciplined == (e1 :> {"restart"}) @@ (e2 :> {"lease_false", "release_inactive"})
Documented  == (e1 :> {"release"}) @@ (e2 :> {})

\* what was pushed last is in the queues and is not looked at again
View == <<cstate, my_ip, server_ip, active, xid, timers, offers, best_offer,
          told, poolVars, netVars>>
=============================================================================
