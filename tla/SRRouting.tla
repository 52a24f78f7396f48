----------------------------- MODULE SRRouting ------------------------------
(***************************************************************************)
(* Source routing in roofnet/sr.  Each node runs                           *)
(*   SRQuerier         caches a path per destination, asks for one when it *)
(*                     has none,                                           *)
(*   MetricFlood       floods the question, each node adding the best path *)
(*                     it knows from the origin to itself,                 *)
(*   SRQueryResponder  answers with the path the question came along and   *)
(*                     passes answers back,                                *)
(*   SRForwarder       sends data along the path in its header,            *)
(* or the elements of roofnet/sr2 that correspond to them.                 *)
(* They share a LinkTable, an element of Click itself, which is modelled   *)
(* from its use here: the links that have a metric.  Metrics do not change *)
(* and are the same in both directions (a query overwrites the metric of   *)
(* the reverse link with the forward one: rev_m = get_link_fwd()).         *)
(*                                                                         *)
(* A queue per node holds what was sent to it.  Times: `fresh' says that   *)
(* _last_switch is less than TIME_BEFORE_SWITCH ago, `waiting' that        *)
(* _last_query is less than _query_wait (5 s) ago.                         *)
(***************************************************************************)
EXTENDS Integers, Sequences, FiniteSets, Functions

CONSTANTS Node,
          Target,       \* Target[s]: the node s sends its data to
          Radio,        \* the links of the network, in both directions
          Metric,       \* the metric of a link
          SeenMax,      \* entries of a _seen table (100)
          SeqMod,       \* sequence numbers are 0 .. SeqMod - 1 (2^32)
          Fragile,      \* bound: the links that may break
          MaxFault      \* bound: packets lost and links that break

Source == DOMAIN Target

ASSUME SRAssumption ==
    /\ IsFiniteSet(Node)
    /\ Target \in [Source -> Node] /\ \A s \in Source : s \in Node /\ Target[s] # s
    /\ Radio \subseteq Node \X Node
    /\ \A l \in Radio : <<l[2], l[1]>> \in Radio /\ l[1] # l[2]
    /\ Metric \in [Radio -> Nat \ {0}]
    /\ \A l \in Radio : Metric[<<l[2], l[1]>>] = Metric[l]
    /\ SeenMax \in Nat \ {0}
    /\ SeqMod \in Nat /\ SeqMod > SeenMax
    /\ Fragile \subseteq Radio /\ MaxFault \in Nat

VARIABLES up,           \* links that work
          table,        \* LinkTable: links with a metric
          route,        \* LinkTable: best route to the target after dijkstra(true)
          queried,      \* SRQuerier: _queries has an entry for the target
          cached,       \* DstInfo::_p; _best_metric is 0 iff it is empty
          fresh, waiting,
          seq,          \* MetricFlood::_seq
          seen,         \* MetricFlood::_seen
          answered,     \* SRQueryResponder::_seen
          chan,         \* packets on their way to a node
          faults

tables  == <<table, route>>
querier == <<queried, cached, fresh, waiting>>
floods  == <<seq, seen>>
net     == <<up, faults>>
srVars  == <<tables, querier, floods, answered, chan, net>>

-----------------------------------------------------------------------------
(* The LinkTable.                                                          *)

Links(p) == {<<p[i], p[i + 1]>> : i \in 1 .. Len(p) - 1}
Both(ls) == ls \cup {<<l[2], l[1]>> : l \in ls}

\* the loop-free paths of the network between two nodes, and their metrics
Paths ==
    UNION {{p \in [1 .. k -> Node] : IsInjective(p) /\ Links(p) \subseteq Radio}
              : k \in 2 .. Cardinality(Node)}
PathsBetween == [ends \in Node \X Node |-> {p \in Paths : <<p[1], p[Len(p)]>> = ends}]
RouteMetric  ==
    [p \in Paths |->
        LET sum[i \in 0 .. Len(p) - 1] ==
                IF i = 0 THEN 0 ELSE sum[i - 1] + Metric[<<p[i], p[i + 1]>>]
        IN  sum[Len(p) - 1]]

\* those over the links t
Routes(t, x, y) == {p \in PathsBetween[x, y] : Links(p) \subseteq t}

\* best_route() after dijkstra(): the empty path if there is none
BestRoute(t, x, y) ==
    LET rs == Routes(t, x, y)
    IN  IF rs = {} THEN <<>>
        ELSE CHOOSE p \in rs : \A q \in rs : RouteMetric[p] <= RouteMetric[q]

\* update_link() of the links of a packet in both directions
Learn(n, ls) == table[n] \cup Both(ls)

\* valid_route(): every link still has a metric
valid_route(t, p) == p # <<>> /\ Links(p) \subseteq t

\* dijkstra(true) at node n over the links t
dijkstra(n, t) ==
    route' = IF n \in Source THEN [route EXCEPT ![n] = BestRoute(t, n, Target[n])] ELSE route

-----------------------------------------------------------------------------
Neighbours(n) == {m \in Node : <<n, m>> \in up}

\* broadcast by n to whoever hears it
Broadcast(ch, n, pk) ==
    [m \in Node |-> IF m \in Neighbours(n) THEN Append(ch[m], pk) ELSE ch[m]]

\* sent by n to node m; without an entry in the ARP table the frame is
\* broadcast, and the others drop it
Unicast(ch, n, m, pk) ==
    IF m \in Neighbours(n) THEN [ch EXCEPT ![m] = Append(@, pk)] ELSE ch

\* A query and a reply list the links of a path with their metrics, a data
\* packet those that its hops so far have filled in (known).
Query(src, dst, sq, p) == [type |-> "QUERY", src |-> src, dst |-> dst, seq |-> sq, path |-> p]
Reply(sq, p, next)     == [type |-> "REPLY", seq |-> sq, path |-> p, next |-> next]
Data(p, next, known)   == [type |-> "DATA", path |-> p, next |-> next, known |-> known]

-----------------------------------------------------------------------------
SRInit ==
    /\ up = Radio
    /\ table = [n \in Node |-> {l \in Radio : n \in {l[1], l[2]}}]     \* from the probes
    /\ route   = [s \in Source |-> <<>>]
    /\ queried = [s \in Source |-> FALSE]
    /\ cached  = [s \in Source |-> <<>>]
    /\ fresh   = [s \in Source |-> FALSE]
    /\ waiting = [s \in Source |-> FALSE]
    /\ seq      = [s \in Source |-> 0]
    /\ seen     = [n \in Node |-> <<>>]
    /\ answered = [n \in Node |-> <<>>]
    /\ chan     = [n \in Node |-> <<>>]
    /\ faults = 0

\* Mutant of the size of the tables: one entry too many.
Remember_one_more(s, e) == Append(IF Len(s) > SeenMax THEN Tail(s) ELSE s, e)

\* a table of at most SeenMax entries, the oldest is dropped
Remember(s, e) == Append(IF Len(s) >= SeenMax THEN Tail(s) ELSE s, e)

Has(s, src, sq) == \E i \in 1 .. Len(s) : s[i].src = src /\ s[i].seq = sq

-----------------------------------------------------------------------------
(* SRQuerier, with SRForwarder::encap() and MetricFlood::start_flood(),    *)
(* which it pushes into.                                                   *)

\* start_flood(): the query starts with no links
start_flood(s, ch) ==
    /\ seq'  = [seq EXCEPT ![s] = (@ + 1) % SeqMod]
    /\ chan' = Broadcast(ch, s, Query(s, Target[s], seq'[s], <<s>>))
    /\ UNCHANGED <<seen, answered, tables>>

\* Mutant of push(): the cached path is kept as long as there is one.
Reconsider_never(s) == cached[s] = <<>>

\* the cached path is looked up again when there is none or when it is old
Reconsider(s) == cached[s] = <<>> \/ ~fresh[s]

\* do_query: the first packet, or no valid route
Ask(s, best) == ~queried[s] \/ (Reconsider(s) /\ best = <<>>)

push(s) ==
    LET best  == IF valid_route(table[s], route[s]) THEN route[s] ELSE <<>>
        path  == IF Reconsider(s) THEN best ELSE cached[s]
        ch    == IF path = <<>> THEN chan
                 ELSE Unicast(chan, s, path[2], Data(path, 2, {}))
    IN  /\ queried' = [queried EXCEPT ![s] = TRUE]
        /\ cached'  = [cached EXCEPT ![s] = path]
        /\ fresh'   = [fresh EXCEPT ![s] = Reconsider(s) \/ @]
        /\ IF Ask(s, best) /\ ~waiting[s]
             THEN start_flood(s, ch) /\ waiting' = [waiting EXCEPT ![s] = TRUE]
             ELSE chan' = ch /\ UNCHANGED <<waiting, floods, answered, tables>>
        /\ UNCHANGED net

-----------------------------------------------------------------------------
(* MetricFlood::forward_query(), from the timer of an entry of _seen.      *)

Pending(n) == {i \in 1 .. Len(seen[n]) : seen[n][i].pending}

forward_query(n, i) ==
    LET e == seen[n][i]
        p == BestRoute(table[n], e.src, n)
    IN  /\ seen' = [seen EXCEPT ![n][i].pending = FALSE]
        /\ chan' = IF p = <<>> THEN chan
                   ELSE Broadcast(chan, n, Query(e.src, e.dst, e.seq, p))
        /\ UNCHANGED <<tables, querier, seq, answered, net>>

\* forward_query_hook(): an entry whose time has come
Hook(n) == \E i \in Pending(n) : forward_query(n, i)

-----------------------------------------------------------------------------
(* Packets received by n; ch is the network without the packet.            *)

\* Mutant of start_reply(): last_path_response is set before it is compared.
start_reply_silent(n, q, t, ch) ==
    /\ answered' = [answered EXCEPT ![n] =
                       Remember(@, [src |-> q.src, seq |-> q.seq, path |-> BestRoute(t, q.src, n)])]
    /\ chan' = ch

\* SRQueryResponder::start_reply(), over the links t
start_reply(n, q, t, ch) ==
    LET best == BestRoute(t, q.src, n)
        same == {i \in 1 .. Len(answered[n]) :
                     answered[n][i].src = q.src /\ answered[n][i].seq = q.seq}
        last == IF same = {} THEN <<>> ELSE answered[n][CHOOSE i \in same : TRUE].path
        e    == [src |-> q.src, seq |-> q.seq, path |-> best]
    IN  /\ answered' = [answered EXCEPT ![n] =
               IF same = {} THEN Remember(@, e)
               ELSE [i \in 1 .. Len(@) |-> IF i \in same THEN e ELSE @[i]]]
        /\ chan' = IF best \in {last, <<>>} THEN ch
                   ELSE Unicast(ch, n, best[Len(best) - 1], Reply(q.seq, best, Len(best) - 1))

\* Mutant of process_flood(): a query that was seen before is not recognised.
Known_never(n, q) == FALSE

\* the loop over _seen in process_flood()
Known(n, q) == Has(seen[n], q.src, q.seq)

\* MetricFlood::process_flood(), whose output 1 goes to SRQueryResponder
process_flood(n, q, ch) ==
    LET t == Learn(n, Links(q.path))
        e == [src |-> q.src, dst |-> q.dst, seq |-> q.seq, pending |-> q.dst # n]
    IN  /\ table' = [table EXCEPT ![n] = t]
        /\ IF Known(n, q)
             THEN chan' = ch /\ UNCHANGED <<seen, answered>>
             ELSE /\ seen' = [seen EXCEPT ![n] = Remember(@, e)]
                  /\ IF q.dst = n THEN start_reply(n, q, t, ch)
                                  ELSE chan' = ch /\ UNCHANGED answered
        /\ UNCHANGED <<route, querier, seq>>

\* forward_reply(): set_next(next() - 1)
NextHop(r) == r.next - 1

\* Mutant of reply(): the paths are not computed again.
reply_no_dijkstra(n, r, ch) ==
    LET t == Learn(n, Links(r.path))
    IN  /\ table' = [table EXCEPT ![n] = t]
        /\ chan' = IF r.next = 1 THEN ch
                   ELSE Unicast(ch, n, r.path[NextHop(r)], [r EXCEPT !.next = NextHop(r)])
        /\ UNCHANGED <<route, querier, floods, answered>>

\* SRQueryResponder::push() of a reply: got_reply() or forward_reply()
reply(n, r, ch) ==
    LET t == Learn(n, Links(r.path))
    IN  /\ table' = [table EXCEPT ![n] = t]
        /\ dijkstra(n, t)
        /\ chan' = IF r.next = 1 THEN ch
                   ELSE Unicast(ch, n, r.path[NextHop(r)], [r EXCEPT !.next = NextHop(r)])
        /\ UNCHANGED <<querier, floods, answered>>

\* SRForwarder::push(): the hop fills in the link the packet came over
forward(n, d, ch) ==
    LET t    == Learn(n, d.known)
        hop  == <<d.path[d.next - 1], n>>
    IN  /\ table' = [table EXCEPT ![n] = t]
        /\ chan' = IF d.next = Len(d.path) THEN ch
                   ELSE Unicast(ch, n, d.path[d.next + 1],
                                Data(d.path, d.next + 1, d.known \cup ({hop} \cap t)))
        /\ UNCHANGED <<route, querier, floods, answered>>

Receive(n) ==
    /\ chan[n] # <<>>
    /\ LET pk == Head(chan[n])
           ch == [chan EXCEPT ![n] = Tail(@)]
       IN  CASE pk.type = "QUERY" -> process_flood(n, pk, ch)
             [] pk.type = "REPLY" -> reply(n, pk, ch)
             [] pk.type = "DATA"  -> forward(n, pk, ch)
    /\ UNCHANGED net

-----------------------------------------------------------------------------
(* The surroundings.                                                       *)

FloodOver ==
    \A n \in Node : /\ Pending(n) = {}
                    /\ \A i \in 1 .. Len(chan[n]) : chan[n][i].type = "DATA"

\* _query_wait has passed; a flood takes less
WaitOver(s) ==
    /\ waiting[s] /\ FloodOver
    /\ waiting' = [waiting EXCEPT ![s] = FALSE]
    /\ UNCHANGED <<tables, queried, cached, fresh, floods, answered, chan, net>>

\* TIME_BEFORE_SWITCH has passed
SwitchTime(s) ==
    /\ fresh[s]
    /\ fresh' = [fresh EXCEPT ![s] = FALSE]
    /\ UNCHANGED <<tables, queried, cached, waiting, floods, answered, chan, net>>

\* The timer of the LinkTable drops the links whose age is over, those that
\* are measured no longer.  A link may come back: a packet from a node that
\* still has it adds it again, and a reply adds it with age 0.
LinkTimer(n) ==
    /\ table' = [table EXCEPT ![n] = @ \cap up]
    /\ dijkstra(n, table'[n])
    /\ tables' # tables           \* otherwise nothing changes
    /\ UNCHANGED <<querier, floods, answered, chan, net>>

Break ==
    /\ faults < MaxFault
    /\ faults' = faults + 1
    /\ \E l \in Fragile \cap up : up' = up \ Both({l})
    /\ UNCHANGED <<tables, querier, floods, answered, chan>>

Lose(n) ==
    /\ faults < MaxFault /\ chan[n] # <<>>
    /\ faults' = faults + 1
    /\ chan' = [chan EXCEPT ![n] = Tail(@)]
    /\ UNCHANGED <<tables, querier, floods, answered, up>>

\* bound: a source offers its next packet when the last one has arrived
Idle(s) == \A n \in Node : \A i \in 1 .. Len(chan[n]) :
              chan[n][i].type = "DATA" => chan[n][i].path[1] # s

Offer(s) == Idle(s) /\ push(s)

SRNext ==
    \/ \E s \in Source : Offer(s) \/ WaitOver(s) \/ SwitchTime(s)
    \/ \E n \in Node : Receive(n) \/ LinkTimer(n) \/ Lose(n) \/ Hook(n)
    \/ Break

SRSpec == SRInit /\ [][SRNext]_srVars

(* The user keeps sending, what is not lost arrives, timers fire; links    *)
(* need not break and packets need not be lost.                            *)
SRFair ==
    /\ SRSpec
    /\ \A s \in Source : WF_srVars(Offer(s)) /\ WF_srVars(WaitOver(s)) /\ WF_srVars(SwitchTime(s))
    /\ \A n \in Node : WF_srVars(Receive(n)) /\ WF_srVars(Hook(n))

-----------------------------------------------------------------------------
(* The second version of source routing (roofnet/sr2): SR2Querier,         *)
(* SR2MetricFlood and SR2QueryResponder take the steps of the first, with  *)
(* headers whose fields are in network order.  SR2Forwarder does not: it   *)
(* has no LinkTable, neither learns links from a data packet nor fills in  *)
(* the link the packet came over.                                          *)

\* SR2Querier::push() with send_query()
SR2Querier_push(s) == push(s)

\* SR2MetricFlood: forward_query_hook() with forward_query(), process_flood()
SR2MetricFlood_forward_query(n, i) == forward_query(n, i)
SR2MetricFlood_forward_query_hook(n) == \E i \in Pending(n) : SR2MetricFlood_forward_query(n, i)
SR2MetricFlood_process_flood(n, q, ch) == process_flood(n, q, ch)

\* SR2QueryResponder::push(): forward_reply() and got_reply()
SR2QueryResponder_push(n, r, ch) == reply(n, r, ch)

\* SR2Forwarder::push()
SR2Forwarder_push(n, d, ch) ==
    /\ chan' = IF d.next = Len(d.path) THEN ch
               ELSE Unicast(ch, n, d.path[d.next + 1], Data(d.path, d.next + 1, {}))
    /\ UNCHANGED <<tables, querier, floods, answered>>

\* SR2MetricFlood::push() and what the Classifier gives to the others
SR2MetricFlood_push(n) ==
    /\ chan[n] # <<>>
    /\ LET pk == Head(chan[n])
           ch == [chan EXCEPT ![n] = Tail(@)]
       IN  CASE pk.type = "QUERY" -> SR2MetricFlood_process_flood(n, pk, ch)
             [] pk.type = "REPLY" -> SR2QueryResponder_push(n, pk, ch)
             [] pk.type = "DATA"  -> SR2Forwarder_push(n, pk, ch)
    /\ UNCHANGED net

SR2Offer(s) == Idle(s) /\ SR2Querier_push(s)

SR2Next ==
    \/ \E s \in Source : SR2Offer(s) \/ WaitOver(s) \/ SwitchTime(s)
    \/ \E n \in Node : SR2MetricFlood_push(n) \/ LinkTimer(n) \/ Lose(n)
                       \/ SR2MetricFlood_forward_query_hook(n)
    \/ Break

SR2Spec == SRInit /\ [][SR2Next]_srVars

-----------------------------------------------------------------------------
Items(n) == {chan[n][i] : i \in 1 .. Len(chan[n])}

\* Types, and the bound of MetricFlood's table: process_flood() makes room
\* before it adds a query.
SRTypeOK ==
    /\ \A n \in Node : table[n] \subseteq Radio /\ Len(seen[n]) <= SeenMax
    /\ \A s \in Source : cached[s] \in Paths \cup {<<>>} /\ seq[s] \in 0 .. SeqMod - 1
    /\ \A n \in Node : \A pk \in Items(n) : pk.type \in {"QUERY", "REPLY", "DATA"}

\* A flood does not multiply: because process_flood() recognises a query it
\* has in _seen, forward_query() passes it on at most once, so no neighbour
\* ever has two copies from the same node in its queue.
OneCopy ==
    \A n \in Node : \A i, j \in 1 .. Len(chan[n]) :
        /\ i # j
        /\ chan[n][i].type = "QUERY" /\ chan[n][j].type = "QUERY"
        /\ chan[n][i].src = chan[n][j].src /\ chan[n][i].seq = chan[n][j].seq
        => chan[n][i].path[Len(chan[n][i].path)] # chan[n][j].path[Len(chan[n][j].path)]

\* When a reply has come back to the node that asked, got_reply() leaves it
\* with a path to its target, whatever its table and the tables of the nodes
\* on the way contain.
ReplyMeansRoute ==
    [][\A s \in Source : \A pk \in Items(s) :
          pk.type = "REPLY" /\ pk.next = 1 /\ pk \notin Items(s)' /\ faults' = faults
              => route'[s] # <<>>]_srVars

\* The tables end up without the links that broke.  It is a condition of the
\* two properties below: queries and replies can bring a broken link back to
\* a node that has dropped it.
Forgotten == <>[](\A n \in Node : table[n] \subseteq up)

\* Data arrives again and again although a packet of any kind is lost, a link
\* of the path in use breaks and the path is cached for some time, provided
\* the nodes forget the broken link.
KeepsDelivering ==
    Forgotten => \A s \in Source :
        []<>(\E pk \in Items(Target[s]) :
                pk.type = "DATA" /\ pk.path[1] = s /\ pk.next = Len(pk.path))

\* Questions stop: a source that has a path asks no more, and the copies of
\* the last question die out.
FloodsEnd ==
    Forgotten => <>[](\A n \in Node : \A pk \in Items(n) : pk.type # "QUERY")
=============================================================================
