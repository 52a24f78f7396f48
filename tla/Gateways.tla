------------------------------ MODULE Gateways -------------------------------
(***************************************************************************)
(* One node's GatewaySelector (roofnet/sr), which spreads and collects the *)
(* advertisements of gateways, and the SR1GatewayResponder beside it.      *)
(*                                                                         *)
(* `metric' is what the LinkTable says of the way from a gateway to this   *)
(* node (0: no route).  Seen::_when is never assigned, so that _to_send is *)
(* always past: the first of the timers passes on everything that waits.   *)
(* Seen::_forwarded is not initialized by the constructor; an entry made   *)
(* while the node is a gateway keeps whatever the memory held.             *)
(***************************************************************************)
EXTENDS Integers, Sequences, FiniteSets, Functions

CONSTANTS Gateway,      \* the other gateways
          AdSeqs,       \* sequence numbers of their advertisements
          AdMetrics,    \* metrics of routes, 0 among them
          Listed,       \* addresses an operator writes to ignore and allow
          MaxAds,       \* entries of _seen (100)
          MaxAdTimers   \* bound: timers that are scheduled

ASSUME GatewayAssumption ==
    /\ AdSeqs \subseteq Nat /\ AdMetrics \subseteq Nat /\ 0 \in AdMetrics
    /\ Listed \subseteq Gateway
    /\ MaxAds \in Nat \ {0} /\ MaxAdTimers \in Nat

VARIABLES is_gw,        \* _is_gw
          gateways,     \* _gateways: "unknown", "current", or "expired"
          ads,          \* _seen
          adTimers,     \* timers for forward_ad_hook()
          ignore, allow,
          metric,
          adOut         \* what the last step pushed

handlerVars == <<is_gw, ignore, allow>>
gatewayVars == <<handlerVars, gateways, ads, adTimers, metric, adOut>>

GatewayInit ==
    /\ is_gw \in BOOLEAN
    /\ gateways = [g \in Gateway |-> "unknown"]
    /\ ads = <<>> /\ adTimers = 0
    /\ ignore = {} /\ allow = {}
    /\ metric = [g \in Gateway |-> 0]
    /\ adOut = <<>>

-----------------------------------------------------------------------------
\* the advertisements that GatewaySelector::push() has an entry for
Ids(es) == {<<es[i].gw, es[i].seq>> : i \in 1 .. Len(es)}

\* an entry: `own' says that push() scheduled a timer for it
Ad(g, sq, waits, own) == [gw |-> g, seq |-> sq, waits |-> waits, own |-> own]

\* Mutant of push(): the table is cut when it has grown past its limit.
Room_late(es) == IF Len(es) > MaxAds THEN Tail(es) ELSE es

\* push() drops the oldest entry of a full table
Room(es) == IF Len(es) = MaxAds THEN Tail(es) ELSE es

\* the first copy of an advertisement
NewAd(e) ==
    /\ ads' = Append(Room(ads), e)
    /\ gateways' = [gateways EXCEPT ![e.gw] = "current"]

\* push() of an advertisement whose links do not touch this node; others, and
\* copies, leave everything as it is.
GatewaySelector_push(g, sq) ==
    /\ <<g, sq>> \notin Ids(ads)
    /\ \/ /\ is_gw
          /\ \E garbage \in BOOLEAN : NewAd(Ad(g, sq, garbage, FALSE))
          /\ UNCHANGED adTimers
       \/ /\ ~is_gw /\ adTimers < MaxAdTimers
          /\ NewAd(Ad(g, sq, TRUE, TRUE))
          /\ adTimers' = adTimers + 1
    /\ adOut' = <<>>
    /\ UNCHANGED <<handlerVars, metric>>

\* forward_ad(): _forwarded is set whether or not there is a route
forward_ad(e) == [e EXCEPT !.waits = FALSE]

\* the entries that forward_ad_hook() finds
Due == {i \in 1 .. Len(ads) : ads[i].waits}

\* those of them whose gateway has a route, in order
Sendable == SelectSeq([i \in 1 .. Len(ads) |-> i],
                      LAMBDA i : i \in Due /\ metric[ads[i].gw] # 0)

forward_ad_hook ==
    /\ adTimers > 0
    /\ adTimers' = adTimers - 1
    /\ ads' = [i \in 1 .. Len(ads) |-> IF i \in Due THEN forward_ad(ads[i]) ELSE ads[i]]
    /\ adOut' = [k \in 1 .. Len(Sendable) |->
                    [type |-> "AD", gw |-> ads[Sendable[k]].gw, seq |-> ads[Sendable[k]].seq]]
    /\ UNCHANGED <<handlerVars, gateways, metric>>

\* run_timer() of a gateway: start_ad(), an advertisement of its own
GatewaySelector_run_timer ==
    /\ is_gw
    /\ adOut' = <<[type |-> "OWN_AD"]>>
    /\ UNCHANGED <<handlerVars, gateways, ads, adTimers, metric>>

\* best_gateway(): which of several with the same metric depends on the
\* order of the hash table
Eligible ==
    {g \in Gateway : /\ gateways[g] = "current" /\ metric[g] # 0
                     /\ g \notin ignore /\ (allow = {} \/ g \in allow)}
best_gateway == {g \in Eligible : \A h \in Eligible : metric[g] <= metric[h]}

\* SR1GatewayResponder::run_timer(): a reply nobody asked for
SR1GatewayResponder_run_timer ==
    /\ ~is_gw
    /\ \E g \in best_gateway : adOut' = <<[type |-> "REPLY", gw |-> g]>>
    /\ UNCHANGED <<handlerVars, gateways, ads, adTimers, metric>>

\* GatewaySelector::write_param()
write_param ==
    /\ \/ is_gw' = ~is_gw /\ UNCHANGED <<ignore, allow>>
       \/ \E g \in Listed : /\ \/ ignore' = ignore \cup {g} \/ ignore' = ignore \ {g}
                            /\ UNCHANGED <<is_gw, allow>>
       \/ \E g \in Listed : /\ \/ allow' = allow \cup {g} \/ allow' = allow \ {g}
                            /\ UNCHANGED <<is_gw, ignore>>
       \/ ignore' = {} /\ UNCHANGED <<is_gw, allow>>
       \/ allow' = {} /\ UNCHANGED <<is_gw, ignore>>
    /\ adOut' = <<>>
    /\ UNCHANGED <<gateways, ads, adTimers, metric>>

\* ten periods without an advertisement
GatewayExpires(g) ==
    /\ gateways[g] = "current"
    /\ gateways' = [gateways EXCEPT ![g] = "expired"]
    /\ adOut' = <<>>
    /\ UNCHANGED <<handlerVars, ads, adTimers, metric>>

\* the LinkTable computes its routes again
RoutesChange ==
    /\ metric' \in [Gateway -> AdMetrics]
    /\ adOut' = <<>>
    /\ UNCHANGED <<handlerVars, gateways, ads, adTimers>>

GatewayNext ==
    \/ \E g \in Gateway, sq \in AdSeqs : GatewaySelector_push(g, sq)
    \/ \E g \in Gateway : GatewayExpires(g)
    \/ forward_ad_hook \/ GatewaySelector_run_timer \/ SR1GatewayResponder_run_timer
    \/ write_param \/ RoutesChange

-----------------------------------------------------------------------------
(* SR2GatewaySelector and SR2GatewayResponder of roofnet/sr2 take the same *)
(* steps: only how fields of headers are read and written differs.         *)

SR2GatewaySelector_push(g, sq) == GatewaySelector_push(g, sq)

\* forward_ad_hook() with forward_ad()
SR2GatewaySelector_forward_ad_hook == forward_ad_hook

\* run_timer() with start_ad(), send() and update_link()
SR2GatewaySelector_run_timer == GatewaySelector_run_timer
SR2GatewaySelector_write_param == write_param

\* SR2GatewaySelector::best_gateway(), whose answer the responder repeats
SR2GatewaySelector_best_gateway == best_gateway
SR2GatewayResponder_run_timer ==
    /\ ~is_gw
    /\ \E g \in SR2GatewaySelector_best_gateway : adOut' = <<[type |-> "REPLY", gw |-> g]>>
    /\ UNCHANGED <<handlerVars, gateways, ads, adTimers, metric>>

SR2GatewayNext ==
    \/ \E g \in Gateway, sq \in AdSeqs : SR2GatewaySelector_push(g, sq)
    \/ SR2GatewaySelector_forward_ad_hook \/ SR2GatewaySelector_run_timer
    \/ SR2GatewaySelector_write_param \/ SR2GatewayResponder_run_timer

-----------------------------------------------------------------------------
GatewayTypeOK ==
    /\ ads \in Seq([gw : Gateway, seq : AdSeqs, waits : BOOLEAN, own : BOOLEAN])
    /\ Len(ads) <= MaxAds
    /\ adTimers \in 0 .. MaxAdTimers

\* An advertisement that waits to be passed on has a timer that will come: the
\* timers of other entries, of entries that were dropped and of a time when
\* the node was a gateway never leave it behind.
WaitingAdHasTimer ==
    (\E i \in 1 .. Len(ads) : ads[i].waits /\ ads[i].own) => adTimers > 0

(***************************************************************************)
(* SR2SetGateway (roofnet/sr2): the gateway that the packets of a TCP flow *)
(* go to.  `best' is what SR2GatewaySelector::best_gateway() answers (no   *)
(* gateway among its values); it changes at any time.                      *)
(*                                                                         *)
(* FlowTableEntry() does not initialize _outstanding_syns: whether an      *)
(* entry of push_fwd() is_pending() depends on what the memory held.  An   *)
(* entry without a reply has the age of the epoch.                         *)
(***************************************************************************)

CONSTANTS FlowIds, Gws, NoGw

ASSUME SetGatewayAssumption == NoGw \notin Gws

VARIABLES flow_table,   \* _flow_table
          fixed_gw,     \* _gw
          best,
          agreed,       \* history: the gateway whose SYN-ACK opened a flow that is
                        \* not over
          sentTo        \* the gateway the last forward packet was marked with

setGatewayVars == <<flow_table, fixed_gw, best, agreed, sentTo>>

Without(fn, S) == Restrict(fn, DOMAIN fn \ S)
With(fn, f, v) == [x \in DOMAIN fn \cup {f} |-> IF x = f THEN v ELSE fn[x]]

FlowTableEntry(g, pends, fresh) ==
    [gw |-> g, is_pending |-> pends, young |-> fresh, fwd_alive |-> TRUE, rev_alive |-> TRUE]

\* configure() with SEL
SetGatewayInit ==
    /\ flow_table = <<>> /\ agreed = <<>>
    /\ fixed_gw = NoGw /\ best = NoGw /\ sentTo = NoGw

-----------------------------------------------------------------------------
TcpFlags == SUBSET {"SYN", "FIN", "RST"}

\* what saw_reply_packet() leaves of an entry
saw_reply_packet(e) == [e EXCEPT !.is_pending = FALSE, !.young = TRUE]

\* a packet out of push_fwd(): of a flow with an entry, or to the best gateway
push_fwd_match(f, flags) ==
    /\ f \in DOMAIN flow_table
    /\ IF "SYN" \in flags
       THEN flow_table[f].is_pending /\ UNCHANGED flow_table
       ELSE flow_table' = [flow_table EXCEPT ![f].fwd_alive = @ /\ flags = {},
                                             ![f].rev_alive = @ /\ "RST" \notin flags]
    /\ sentTo' = flow_table[f].gw

push_fwd_guess(f, flags) ==
    /\ f \in DOMAIN flow_table => "SYN" \in flags /\ ~flow_table[f].is_pending
    /\ best # NoGw
    /\ \E garbage \in BOOLEAN :
          flow_table' = With(flow_table, f, FlowTableEntry(best, garbage, FALSE))
    /\ sentTo' = best

\* what ends an agreement between the ends of a flow
Ends(f, flags) == agreed' = IF flags = {} THEN agreed ELSE Without(agreed, {f})

push_fwd(f, flags) ==
    /\ push_fwd_match(f, flags) \/ push_fwd_guess(f, flags)
    /\ Ends(f, flags)

\* the SYN-ACK of a flow
push_rev_synack(f, from) ==
    /\ f \in DOMAIN flow_table /\ flow_table[f].gw = from
    /\ flow_table' = [flow_table EXCEPT ![f] = saw_reply_packet(@)]
    /\ agreed' = IF flow_table[f].rev_alive THEN With(agreed, f, from) ELSE agreed

\* any other packet that comes in, which may end one direction or both
saw_flags(e, flags) == [e EXCEPT !.rev_alive = @ /\ flags \cap {"FIN", "RST"} = {},
                                 !.fwd_alive = @ /\ "RST" \notin flags]

push_rev(f, from, flags) ==
    /\ IF f \in DOMAIN flow_table
       THEN flow_table' = [flow_table EXCEPT ![f] = saw_flags(saw_reply_packet(@), flags)]
       ELSE flow_table' = With(flow_table, f, FlowTableEntry(from, FALSE, TRUE))
    /\ Ends(f, flags)

\* push() while no gateway is fixed
push_tcp ==
    /\ fixed_gw = NoGw
    /\ \E f \in FlowIds :
          \/ \E flags \in TcpFlags : push_fwd(f, flags)
          \/ /\ UNCHANGED sentTo
             /\ \E from \in Gws : \/ push_rev_synack(f, from)
                                  \/ \E flags \in TcpFlags : push_rev(f, from, flags)
    /\ UNCHANGED <<fixed_gw, best>>

\* push() of a packet that is not TCP, or while a gateway is fixed
push_other ==
    /\ sentTo' = IF fixed_gw # NoGw THEN fixed_gw ELSE best
    /\ UNCHANGED <<flow_table, fixed_gw, best, agreed>>

\* Mutant of cleanup(): age < timeout && (fwd || rev), as SetGateway has it.
Kept_parenthesised(e) == e.young /\ (e.fwd_alive \/ e.rev_alive)

\* the condition of cleanup(), in which && binds stronger
Kept(e) == (e.young /\ e.fwd_alive) \/ e.rev_alive

\* run_timer()
cleanup ==
    /\ flow_table' = Without(flow_table, {f \in DOMAIN flow_table : ~Kept(flow_table[f])})
    /\ UNCHANGED <<fixed_gw, best, agreed, sentTo>>

change_param ==
    /\ fixed_gw' \in Gws \cup {NoGw}
    /\ UNCHANGED <<flow_table, best, agreed, sentTo>>

\* best_gateway() begins to answer something else
BestChanges ==
    /\ best' \in Gws \cup {NoGw}
    /\ UNCHANGED <<flow_table, fixed_gw, agreed, sentTo>>

\* a minute without a reply
FlowAges(f) ==
    /\ f \in DOMAIN flow_table /\ flow_table[f].young
    /\ flow_table' = [flow_table EXCEPT ![f].young = FALSE]
    /\ UNCHANGED <<fixed_gw, best, agreed, sentTo>>

SetGatewayNext ==
    \/ push_tcp \/ push_other \/ cleanup \/ change_param \/ BestChanges
    \/ \E f \in FlowIds : FlowAges(f)

-----------------------------------------------------------------------------
(* SetGateway of roofnet/sr: its push_fwd() and push_rev() return before   *)
(* they look at the flow table, so that every packet goes to the best      *)
(* gateway of the moment, or to a fixed one, and the table stays empty.    *)

SR1SetGateway_push_fwd == sentTo' = best
SR1SetGateway_push ==
    /\ IF fixed_gw = NoGw THEN SR1SetGateway_push_fwd ELSE sentTo' = fixed_gw
    /\ UNCHANGED <<flow_table, fixed_gw, best, agreed>>

-----------------------------------------------------------------------------
SetGatewayTypeOK ==
    /\ DOMAIN flow_table \subseteq FlowIds /\ DOMAIN agreed \subseteq FlowIds
    /\ \A f \in DOMAIN flow_table : flow_table[f].gw \in Gws
    /\ fixed_gw \in Gws \cup {NoGw} /\ best \in Gws \cup {NoGw} /\ sentTo \in Gws \cup {NoGw}

\* A flow that a SYN-ACK opened keeps the gateway the SYN-ACK came through until
\* one of its packets has SYN, FIN or RST set: a better gateway, a silence of
\* any length, cleanup(), a fixed gateway that is written and taken back, and
\* packets of the flow through other gateways do not move it.
AgreedKeepsGateway ==
    \A f \in DOMAIN agreed : f \in DOMAIN flow_table /\ flow_table[f].gw = agreed[f]
=============================================================================
