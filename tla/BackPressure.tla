---------------------------- MODULE BackPressure -----------------------------
(***************************************************************************)
(* Unicast back-pressure routing (bp): DataQueues, BPStat with BPData, and *)
(* BPForwarder on the nodes of a network whose link metrics do not change. *)
(* Every node keeps one queue per destination, tells its neighbors their   *)
(* lengths, and once per period picks the queue and the neighbor with the  *)
(* largest difference.                                                     *)
(*                                                                         *)
(* dist and ett stand for LinkTable, which belongs to Click.  The products *)
(* in get_best_neighbor() are 32 bits wide before they are stored in 64;   *)
(* the constants are small enough for them not to wrap here.  GapRate and  *)
(* the video queues are left out.                                          *)
(***************************************************************************)
EXTENDS Integers, Sequences, FiniteSets, SequencesExt, FiniteMaps

CONSTANTS Hop,          \* nodes
          Dist,         \* Dist[n][d]: metric of the best route from n to d
          Ett,          \* Ett[n]: the neighbors of n, with the metric of the link
          Packets,      \* Packets[p]: where packet p starts, where it goes
          QCapacity,    \* _capacity
          Infinite,     \* 999999
          Threshold,    \* _backlog_threshold
          DMaxes,       \* values of _dmax
          MaxAirLoss    \* bound: frames and probes that get lost

Packet == DOMAIN Packets
Dests == {Packets[p].to : p \in Packet}

\* metrics are symmetric, and the metric of a best route is that of its links
ASSUME BackPressureAssumption ==
    /\ IsFiniteSet(Hop) /\ 0 \notin Hop \cup Packet
    /\ \A p \in Packet : {Packets[p].from, Packets[p].to} \subseteq Hop /\ Packets[p].from # Packets[p].to
    /\ \A n \in Hop : \A m \in DOMAIN Ett[n] :
          m \in Hop /\ n \in DOMAIN Ett[m] /\ Ett[n][m] \in 1 .. Infinite /\ Ett[m][n] = Ett[n][m]
    /\ \A n \in Hop : \A d \in Dests : Dist[n][d] \in Nat
    /\ \A n \in Hop : \A d \in Dests \ {n} :
          \E m \in DOMAIN Ett[n] : Dist[n][d] = Ett[n][m] + Dist[m][d]
    /\ QCapacity \in Nat \ {0} /\ Infinite \in Nat \ {0} /\ Threshold \in Nat /\ DMaxes \subseteq Nat

VARIABLES dmax,         \* _dmax
          fq,           \* _FQ: the queue for each destination
          bpdata,       \* BPData: the neighbors n has heard, and what each last said about d
          pullq,        \* _pull_q, _pull_neig, _guard_packet and _lock_pull
          drops,        \* _drops of each queue
          unsent,       \* packets that have not entered the network
          visited,      \* history: nodes that queued a packet
          atPeriod,     \* history: the queued packets when the period began
          airLoss

bpVars == <<dmax, fq, bpdata, pullq, drops, unsent, visited, atPeriod, airLoss>>

NoInfo == [backlog |-> -1, distance |-> -1]
NoPull == [dst |-> 0, neig |-> 0, guard |-> 0, lock |-> FALSE]

\* DataQueues::configure()
BPInit ==
    /\ dmax \in DMaxes
    /\ fq = [n \in Hop |-> [d \in Dests |-> <<>>]]
    /\ bpdata = [n \in Hop |-> <<>>]
    /\ pullq = [n \in Hop |-> NoPull]
    /\ drops = [n \in Hop |-> [d \in Dests |-> 0]]
    /\ unsent = Packet /\ visited = [p \in Packet |-> {}]
    /\ atPeriod = [n \in Hop |-> {}] /\ airLoss = 0

-----------------------------------------------------------------------------
get_backlog(n, d) == Len(fq[n][d])

\* backlog_factor and distance_factor
Factor == [backlog  |-> IF QCapacity + 1 < Infinite THEN Infinite \div (QCapacity + 1) ELSE 1,
           distance |-> IF QCapacity + 1 > Infinite THEN (QCapacity + 1) \div Infinite ELSE 1]

\* the next node of the best route to d
Shortest(n, d) == CHOOSE m \in DOMAIN Ett[n] : Dist[n][d] = Ett[n][m] + Dist[m][d]

\* a neighbor with less to send that is nearer
Downhill(n, m, d) ==
    /\ get_backlog(n, d) > bpdata[n][m][d].backlog + Threshold
    /\ Dist[n][d] > bpdata[n][m][d].distance

\* bp_metric of get_best_neighbor()
bp_metric(n, m, d) ==
    LET i == bpdata[n][m][d]
    IN  IF i = NoInfo
        THEN IF m # Shortest(n, d) THEN 0 ELSE IF m = d THEN Infinite * Infinite ELSE 1
        ELSE IF ~Downhill(n, m, d) THEN 0
        ELSE ((get_backlog(n, d) - i.backlog) * Factor.backlog
                + (Dist[n][d] - i.distance) * Factor.distance) * (Infinite \div Ett[n][m])

\* next_pull_queue(): the destination and the neighbor of the largest metric, of
\* those that were heard
Candidates(n) ==
    {c \in Dests \X DOMAIN bpdata[n] :
        /\ get_backlog(n, c[1]) > 0 /\ Dist[n][c[1]] > 0 /\ bp_metric(n, c[2], c[1]) > 0}
get_best_neighbor(n) ==
    {c \in Candidates(n) : \A e \in Candidates(n) : bp_metric(n, e[2], e[1]) <= bp_metric(n, c[2], c[1])}

\* the packets do_periodically() drops from a queue that is longer than its drops
Dropped(n, d) ==
    IF Len(fq[n][d]) <= drops[n][d] THEN 0
    ELSE IF Len(fq[n][d]) < dmax THEN Len(fq[n][d]) ELSE dmax

\* do_periodically(): the choice is made first, then packets are dropped
do_periodically(n) ==
    LET q == [d \in Dests |-> SubSeq(fq[n][d], Dropped(n, d) + 1, Len(fq[n][d]))]
        D == [d \in Dests |-> drops[n][d] + Dropped(n, d)]
    IN  /\ \E c \in IF get_best_neighbor(n) = {} THEN {<<0, 0>>} ELSE get_best_neighbor(n) :
              pullq' = [pullq EXCEPT ![n] =
                 IF c[1] = 0 \/ q[c[1]] = <<>> THEN [dst |-> c[1], neig |-> c[2], guard |-> 0, lock |-> TRUE]
                 ELSE [dst |-> c[1], neig |-> c[2], guard |-> q[c[1]][Len(q[c[1]])], lock |-> FALSE]]
        /\ fq' = [fq EXCEPT ![n] = q]
        /\ drops' = [drops EXCEPT ![n] = [d \in Dests |->
              IF drops[n][d] <= QCapacity THEN D[d]
              ELSE D[d] - (IF drops[n][d] < dmax THEN drops[n][d] ELSE dmax)]]
        /\ atPeriod' = [atPeriod EXCEPT ![n] = UNION {{q[d][i] : i \in 1 .. Len(q[d])} : d \in Dests}]
        /\ UNCHANGED <<dmax, bpdata, unsent, visited, airLoss>>

\* push() on port 0: into the queue, or dropped when it is full
Enqueue(queues, n, p) ==
    LET d == Packets[p].to
    IN  IF Len(queues[n][d]) = QCapacity THEN queues ELSE [queues EXCEPT ![n][d] = Append(@, p)]

FullAt(n, p) == Len(fq[n][Packets[p].to]) = QCapacity

\* a packet enters the network at its source
BP_push(p) ==
    /\ p \in unsent /\ unsent' = unsent \ {p}
    /\ fq' = Enqueue(fq, Packets[p].from, p)
    /\ drops' = IF FullAt(Packets[p].from, p)
                THEN [drops EXCEPT ![Packets[p].from][Packets[p].to] = @ + 1] ELSE drops
    /\ visited' = [visited EXCEPT ![p] = {Packets[p].from}]
    /\ UNCHANGED <<dmax, bpdata, pullq, atPeriod, airLoss>>

\* Mutant of pull(): a queue that gave its guard packet is pulled on.
IsGuard_never(n, p) == FALSE

\* the packet that ends the turn of its queue
IsGuard(n, p) == p = pullq[n].guard

\* BPForwarder::push(): the destination consumes the packet, any other node
\* queues it
BPForwarder_push(queues, n, p) == IF n = Packets[p].to THEN queues ELSE Enqueue(queues, n, p)

\* pull(), and what the neighbor does with the frame unless it is lost
BP_pull(n, lost) ==
    LET u == pullq[n]
    IN  /\ u.dst # 0 /\ fq[n][u.dst] # <<>> /\ ~u.lock
        /\ LET p    == Head(fq[n][u.dst])
               rest == [fq EXCEPT ![n][u.dst] = Tail(@)]
           IN  /\ pullq' = [pullq EXCEPT ![n].lock = IsGuard(n, p)]
               /\ fq' = IF lost THEN rest ELSE BPForwarder_push(rest, u.neig, p)
               /\ drops' = IF ~lost /\ u.neig # Packets[p].to /\ FullAt(u.neig, p)
                           THEN [drops EXCEPT ![u.neig][Packets[p].to] = @ + 1] ELSE drops
               /\ visited' = [visited EXCEPT ![p] = IF lost THEN @ ELSE @ \cup {u.neig}]
        /\ lost => airLoss < MaxAirLoss
        /\ airLoss' = IF lost THEN airLoss + 1 ELSE airLoss
        /\ UNCHANGED <<dmax, bpdata, unsent, atPeriod>>

\* whether get_related_queue() has made a queue: the destination never has one
HasQueue(n, d) == n # d /\ \E p \in Packet : Packets[p].to = d /\ n \in visited[p]

\* BPData::get_table(): what was heard of n, now that it was
get_table(m, n) == IF n \in DOMAIN bpdata[m] THEN bpdata[m][n] ELSE [d \in Dests |-> NoInfo]

\* BPStat::send_probe() of n, and simple_action() of a neighbor that hears it
BPStat_probe(n, m) ==
    /\ m \in DOMAIN Ett[n]
    /\ bpdata' = [bpdata EXCEPT ![m] = Put(@, n, [d \in Dests |->
          IF HasQueue(n, d) THEN [backlog |-> get_backlog(n, d), distance |-> Dist[n][d]]
          ELSE get_table(m, n)[d]])]
    /\ UNCHANGED <<dmax, fq, pullq, drops, unsent, visited, atPeriod, airLoss>>

BPNext ==
    \/ \E p \in Packet : BP_push(p)
    \/ \E n \in Hop : do_periodically(n) \/ \E lost \in BOOLEAN : BP_pull(n, lost)
    \/ \E n, m \in Hop : BPStat_probe(n, m)

-----------------------------------------------------------------------------
BPTypeOK ==
    /\ \A n \in Hop : \A d \in Dests : fq[n][d] \in Seq(Packet) /\ Len(fq[n][d]) <= QCapacity
    /\ \A n \in Hop : DOMAIN bpdata[n] \subseteq DOMAIN Ett[n]
    /\ \A n \in Hop : pullq[n].dst \in Dests \cup {0} /\ pullq[n].guard \in Packet \cup {0}
    /\ \A n \in Hop : \A d \in Dests : drops[n][d] \in Nat

\* The guard packet ends the service of a queue for a period: while pull() may
\* take from a queue the guard is in it, and all that is before the guard was in
\* it when the period began, although packets keep arriving.
GuardedPull ==
    \A n \in Hop : pullq[n].dst # 0 /\ ~pullq[n].lock =>
        LET q == fq[n][pullq[n].dst]
        IN  \E i \in DOMAIN q : q[i] = pullq[n].guard /\ \A j \in 1 .. i : q[j] \in atPeriod[n]

\* Not everybody waits for somebody else: when the nodes have heard their neighbors,
\* what they know of each other is what is, and a queue holds more than
\* _backlog_threshold allows to stay behind on each unit of the way (without a
\* threshold: a packet), some node has a neighbor to send to.  Before it has heard
\* the next node of its way a node may wait for ever.
SomebodySends ==
    LET Exact == \A n \in Hop : \A m \in DOMAIN Ett[n] : m \in DOMAIN bpdata[n] /\ \A d \in Dests :
                    bpdata[n][m][d] \in {NoInfo, [backlog |-> get_backlog(m, d), distance |-> Dist[m][d]]}
    IN  Exact /\ (\E n \in Hop, d \in Dests : get_backlog(n, d) > Threshold * Dist[n][d])
        => \E n \in Hop : get_best_neighbor(n) # {}

(***************************************************************************)
(* How back-pressure routing (bp) finds its paths: BPQuerier, BPMetricFlood*)
(* and BPQueryResponder.  Unlike MetricFlood, BPMetricFlood passes on every*)
(* copy of a query that has come along another path without a circle, and  *)
(* the target answers each; an answer makes a queue at the nodes it passes.*)
(*                                                                         *)
(* One source asks for one target over links that do not break; LinkTable  *)
(* knows the links of the packets it was shown.                            *)
(***************************************************************************)

CONSTANTS BPNode, BPLink,       \* the network: pairs {n, m}
          BPSource, BPTarget,
          BPSeenMax,            \* entries of _seen (100)
          MaxQueries,           \* bound: queries of the source
          MaxBPLost             \* bound: packets that are lost

ASSUME BPFloodAssumption ==
    /\ IsFiniteSet(BPNode)
    /\ BPLink \subseteq SUBSET BPNode /\ \A l \in BPLink : Cardinality(l) = 2
    /\ {BPSource, BPTarget} \subseteq BPNode /\ BPSource # BPTarget
    /\ BPSeenMax \in Nat \ {0} /\ MaxQueries \in Nat /\ MaxBPLost \in Nat

VARIABLES bpAsked,      \* queries sent, so the _seq of the last one
          bpKnown,      \* _queries has an entry for the target
          bpWaiting,    \* _last_query in it is less than _query_wait ago
          bpRouted,     \* LinkTable of the source has a route since dijkstra(true)
          bpSeen,       \* BPMetricFlood::_seen of each node
          bpQueues,     \* nodes with a queue for the target
          bpAir,        \* packets under way
          bpAnswers,    \* history: the paths the source has had replies for, by query
          bpDropped,    \* history: queries of which a waiting entry left _seen
          bpLost        \* history: queries of which a packet was lost

bpFloodVars == <<bpAsked, bpKnown, bpWaiting, bpRouted, bpSeen, bpQueues, bpAir, bpAnswers, bpDropped,
                 bpLost>>

BPFloodInit ==
    /\ bpAsked = 0 /\ bpKnown = FALSE /\ bpWaiting = FALSE /\ bpRouted = FALSE
    /\ bpSeen = [n \in BPNode |-> <<>>] /\ bpQueues = {} /\ bpAir = {}
    /\ bpAnswers = [q \in 1 .. MaxQueries |-> {}] /\ bpDropped = {} /\ bpLost = {}

-----------------------------------------------------------------------------
\* the copies of a query that n sends to its neighbors; path ends with n
BPQuery(n, q, path) ==
    {[type |-> "QUERY", seq |-> q, path |-> path, to |-> m] : m \in {x \in BPNode : {n, x} \in BPLink}}

\* a reply on its way to the node at position next of the path
BPReply(q, path, next) == [type |-> "REPLY", seq |-> q, path |-> path, to |-> next]

\* send_query(), and start_flood() of BPMetricFlood
BP_send_query ==
    /\ bpAsked < MaxQueries
    /\ bpAsked' = bpAsked + 1 /\ bpKnown' = TRUE /\ bpWaiting' = TRUE
    /\ bpAir' = bpAir \cup BPQuery(BPSource, bpAsked + 1, <<BPSource>>)
    /\ UNCHANGED <<bpRouted, bpSeen, bpQueues, bpAnswers, bpDropped, bpLost>>

\* BPQuerier::push(): the packet is sent on in any case, and the question is
\* asked when the target is new or there is no route, and the last one was long ago
BPQuerier_push == (~bpKnown \/ ~bpRouted) /\ ~bpWaiting /\ BP_send_query

\* its write_param(): `query' asks in any case, `reset' forgets what was asked
BPQuerier_write_param ==
    \/ BP_send_query
    \/ /\ bpKnown' = FALSE /\ bpWaiting' = FALSE
       /\ UNCHANGED <<bpAsked, bpRouted, bpSeen, bpQueues, bpAir, bpAnswers, bpDropped, bpLost>>

\* _query_wait is over; the copies of the query may still be on their way
BPWaitOver ==
    /\ bpWaiting /\ bpWaiting' = FALSE
    /\ UNCHANGED <<bpAsked, bpKnown, bpRouted, bpSeen, bpQueues, bpAir, bpAnswers, bpDropped, bpLost>>

\* a path that already has this node in it
Refused(n, c) == n \in ToSet(c.path)

\* the entry that makes room in _seen, whether it waits or not
Oldest(n) == IF Len(bpSeen[n]) >= BPSeenMax THEN {bpSeen[n][1]} ELSE {}

\* start_reply(): over the path the query came along
BP_start_reply(c) == {BPReply(c.seq, Append(c.path, BPTarget), Len(c.path))}

\* process_flood(), and BPQueryResponder::push() of the same packet
BP_process_flood(c) ==
    LET n == c.to
        e == [seq |-> c.seq, path |-> Append(c.path, n), pending |-> n # BPTarget]
    IN  /\ c.type = "QUERY"
        /\ IF Refused(n, c)
           THEN bpAir' = bpAir \ {c} /\ UNCHANGED <<bpSeen, bpDropped>>
           ELSE /\ bpSeen' = [bpSeen EXCEPT ![n] =
                                 Append(IF Oldest(n) = {} THEN @ ELSE Tail(@), e)]
                /\ bpDropped' = bpDropped \cup {o.seq : o \in {x \in Oldest(n) : x.pending}}
                /\ bpAir' = (bpAir \ {c}) \cup (IF n = BPTarget THEN BP_start_reply(c) ELSE {})
        /\ UNCHANGED <<bpAsked, bpKnown, bpWaiting, bpRouted, bpQueues, bpAnswers, bpLost>>

\* write_param() of BPMetricFlood: `clear', after which the timers find nothing
BPMetricFlood_clear(n) ==
    /\ bpSeen' = [bpSeen EXCEPT ![n] = <<>>]
    /\ bpDropped' = bpDropped \cup {e.seq : e \in {x \in ToSet(bpSeen[n]) : x.pending}}
    /\ UNCHANGED <<bpAsked, bpKnown, bpWaiting, bpRouted, bpQueues, bpAir, bpAnswers, bpLost>>

\* forward_query_hook(): an entry whose time has come
BP_forward_query(n) ==
    \E i \in {j \in 1 .. Len(bpSeen[n]) : bpSeen[n][j].pending} :
        /\ bpSeen' = [bpSeen EXCEPT ![n][i].pending = FALSE]
        /\ bpAir' = bpAir \cup BPQuery(n, bpSeen[n][i].seq, bpSeen[n][i].path)
        /\ UNCHANGED <<bpAsked, bpKnown, bpWaiting, bpRouted, bpQueues, bpAnswers, bpDropped, bpLost>>

\* BPQueryResponder::push() of a reply: forward_reply() and add_queue()
BP_forward_reply(c) ==
    /\ c.type = "REPLY" /\ c.to > 1
    /\ bpAir' = (bpAir \ {c}) \cup {BPReply(c.seq, c.path, c.to - 1)}
    /\ bpQueues' = bpQueues \cup {c.path[c.to]}
    /\ UNCHANGED <<bpAsked, bpKnown, bpWaiting, bpRouted, bpSeen, bpAnswers, bpDropped, bpLost>>

\* ... or got_reply() of the node that asked
BP_got_reply(c) ==
    /\ c.type = "REPLY" /\ c.to = 1
    /\ bpAir' = bpAir \ {c} /\ bpRouted' = TRUE
    /\ bpAnswers' = [bpAnswers EXCEPT ![c.seq] = @ \cup {c.path}]
    /\ UNCHANGED <<bpAsked, bpKnown, bpWaiting, bpSeen, bpQueues, bpDropped, bpLost>>

BP_lose(c) ==
    /\ Cardinality(bpLost) < MaxBPLost /\ bpAir' = bpAir \ {c}
    /\ bpLost' = bpLost \cup {c.seq}
    /\ UNCHANGED <<bpAsked, bpKnown, bpWaiting, bpRouted, bpSeen, bpQueues, bpAnswers, bpDropped>>

BPFloodNext ==
    \/ BPQuerier_push \/ BPQuerier_write_param \/ BPWaitOver
    \/ \E c \in bpAir : BP_process_flood(c) \/ BP_forward_reply(c) \/ BP_got_reply(c) \/ BP_lose(c)
    \/ \E n \in BPNode : BP_forward_query(n) \/ BPMetricFlood_clear(n)

-----------------------------------------------------------------------------
BPFloodTypeOK ==
    /\ bpAsked \in 0 .. MaxQueries /\ bpQueues \subseteq BPNode
    /\ \A n \in BPNode : Len(bpSeen[n]) <= BPSeenMax
    /\ bpDropped \cup bpLost \subseteq 1 .. MaxQueries

\* the paths without a circle from the source to the target
LoopFree ==
    {p \in UNION {[1 .. k -> BPNode] : k \in 2 .. Cardinality(BPNode)} :
        /\ p[1] = BPSource /\ p[Len(p)] = BPTarget /\ IsInjective(p)
        /\ \A i \in 1 .. Len(p) - 1 : {p[i], p[i + 1]} \in BPLink}

Over(q) ==
    /\ \A c \in bpAir : c.seq # q
    /\ \A n \in BPNode : \A i \in 1 .. Len(bpSeen[n]) : bpSeen[n][i].seq = q => ~bpSeen[n][i].pending

\* `Backpressure needs to know all paths' (bpmetricflood.cc): when nothing is
\* left of a query, and no packet of it was lost and no waiting entry of it
\* dropped to make room or by `clear', the source has had a reply over each path without a
\* circle, in whatever order the copies went and however two queries overlap;
\* and the nodes between the ends of an answered path have a queue.
AllPathsAnswered ==
    /\ \A q \in 1 .. bpAsked : Over(q) /\ q \notin bpLost \cup bpDropped => bpAnswers[q] = LoopFree
    /\ \A q \in 1 .. bpAsked : \A p \in bpAnswers[q] :
          ToSet(p) \ {BPSource, BPTarget} \subseteq bpQueues
=============================================================================
