------------------------------ MODULE SRTables ------------------------------
(***************************************************************************)
(* The small tables of the source routing elements, in the order a packet  *)
(* meets them.  Data: SRDestCache, SetSourceRoute, the device with TXStat  *)
(* and LinkFailureDetection, then CheckSRHeader and DupeFilter.            *)
(* Broadcasts: LocalBroadcast, FloodTracker, and SRQueryForwarder for      *)
(* queries.  The elements of sr2 are the same but for their packets.       *)
(*                                                                         *)
(* The network repeats and reorders packets, late by less than half the    *)
(* window of DupeFilter.  SRForwarder::encap() gives each data packet the  *)
(* number 0; other senders number them, from Numbers.                      *)
(***************************************************************************)
EXTENDS Integers, Sequences, FiniteSets, FiniteMaps

CONSTANTS Visitor,      \* clients behind access points
          Ap,           \* access points, the ends of routes
          DupeWindow,       \* _window of DupeFilter
          Numbers,      \* data numbers that are sent, in order
          LinkThreshold,    \* of LinkFailureDetection
          SeenRoom,         \* entries of _seen of FloodTracker and SRQueryForwarder
          MaxFloods,    \* broadcasts and queries
          MaxEntered    \* times a query is entered

ASSUME SRTablesAssumption ==
    /\ DupeWindow \in Nat \ {0} /\ LinkThreshold \in Nat \ {0} /\ SeenRoom \in Nat \ {0}
    /\ Numbers \in Seq(Nat) /\ MaxFloods \in Nat /\ MaxEntered \in Nat

VARIABLES send,         \* cache, routes, out (data that waits to be sent), next (index of Numbers)
          device,       \* TXStat: sent, failed; LinkFailureDetection: failures, notified, calls
          rx,           \* air; DupeFilter: sequences, old (silent for 30 s); indexes of the packets that
                        \* passed since it was reset, in this order, and of those that passed twice
          floods,       \* LocalBroadcast: seq; air; FloodTracker: seen, counted; forgot
          query         \* SRQueryForwarder: seen, timers; entered, forwarded: how often a query was

tabVars == <<send, device, rx, floods, query>>

\* configure() of all
SRTablesInit ==
    /\ send = [cache |-> <<>>, routes |-> {}, out |-> <<>>, next |-> 1]
    /\ device = [sent |-> 0, failed |-> 0, failures |-> 0, notified |-> FALSE, calls |-> 0]
    /\ rx = [air |-> {}, sequences |-> <<>>, old |-> FALSE, passed |-> <<>>, twice |-> {}]
    /\ floods = [seq |-> 0, air |-> {}, seen |-> <<>>, counted |-> 0, forgot |-> 0]
    /\ query = [seen |-> <<>>, timers |-> [n \in 1 .. MaxFloods |-> 0],
                entered |-> [n \in 1 .. MaxFloods |-> 0], forwarded |-> [n \in 1 .. MaxFloods |-> 0]]

-----------------------------------------------------------------------------
\* how many packets that were sent later a packet may come after
Late == (DupeWindow + 1) \div 2

\* SRDestCache::push(1, p): a client was heard at an access point
SRDestCache_learn(c, ap) ==
    /\ send' = [send EXCEPT !.cache = Put(@, c, ap)] /\ UNCHANGED <<device, rx, floods, query>>
\* static_set_route(), static_clear()
set_route(ap) ==
    /\ send' = [send EXCEPT !.routes = @ \cup {ap}] /\ UNCHANGED <<device, rx, floods, query>>
clear_routes ==
    /\ send.routes # {}
    /\ send' = [send EXCEPT !.routes = {}] /\ UNCHANGED <<device, rx, floods, query>>

\* SRDestCache::push(0, p), SetSourceRoute::simple_action()
SRDestCache_push(c) ==
    LET known == c \in DOMAIN send.cache /\ send.cache[c] \in send.routes
    IN  /\ send.out = <<>> /\ send.next <= Len(Numbers)
        /\ send' = [send EXCEPT !.next = @ + 1,
                       !.out = IF known THEN <<[number |-> Numbers[send.next], ap |-> send.cache[c],
                                                index |-> send.next]>>
                               ELSE <<>>]
        /\ UNCHANGED <<device, rx, floods, query>>

\* LinkFailureDetection::simple_action()
LinkFailureDetection_count(d, success) ==
    IF success THEN [d EXCEPT !.failures = 0, !.notified = FALSE]
    ELSE LET n == d.failures + 1
         IN  [d EXCEPT !.failures = n, !.notified = @ \/ n % LinkThreshold = 0,
                       !.calls = IF n % LinkThreshold = 0 THEN @ + 1 ELSE @]
\* the device reports to both elements what became of a packet; one that failed
\* may have been received, when only its acknowledgements were lost
Transmit(success, received) ==
    /\ send.out # <<>> /\ (success => received)
    /\ device' = [LinkFailureDetection_count(device, success) EXCEPT
                    !.sent = @ + 1, !.failed = IF success THEN @ ELSE @ + 1]
    /\ send' = [send EXCEPT !.out = <<>>]
    /\ rx' = IF received THEN [rx EXCEPT !.air = @ \cup {Head(send.out)}] ELSE rx
    /\ UNCHANGED <<floods, query>>

\* CheckSRHeader::simple_action(): version, length, checksum and next hop
Good(damaged, version) == version = "sr2" \/ ~damaged
\* Mutant of DupeFilter_window(): one number less is kept.
DupeFilter_window_less(s) == IF Len(s) >= DupeWindow THEN Tail(s) ELSE s
\* DupeFilter::simple_action(): what is kept of the numbers
DupeFilter_window(s) == IF Len(s) > DupeWindow THEN Tail(s) ELSE s
DupeFilter_simple_action(m, again, damaged, version) ==
    LET reset == m.number = 0 \/ rx.old
        s == IF reset THEN <<>> ELSE rx.sequences
        passed == IF reset THEN <<>> ELSE rx.passed
        dupe == m.number \in {s[i] : i \in DOMAIN s}
    IN  /\ m \in rx.air
        /\ \A k \in 1 .. Len(rx.passed) : rx.passed[k] < m.index + Late   \* not later than that
        /\ rx' = IF ~Good(damaged, version) THEN [rx EXCEPT !.air = @ \ {m}]
                 ELSE [rx EXCEPT !.air = IF again THEN @ ELSE @ \ {m},
                                 !.sequences = IF dupe THEN s ELSE DupeFilter_window(Append(s, m.number)),
                                 !.old = FALSE,
                                 !.passed = IF dupe THEN passed ELSE Append(passed, m.index),
                                 !.twice = IF ~dupe /\ \E k \in 1 .. Len(passed) : passed[k] = m.index
                                           THEN @ \cup {m.index} ELSE @]
        /\ UNCHANGED <<send, device, floods, query>>
\* more than 30 seconds without a packet on the path
PathIdle ==
    /\ rx.sequences # <<>> /\ ~rx.old
    /\ rx' = [rx EXCEPT !.old = TRUE] /\ UNCHANGED <<send, device, floods, query>>

-----------------------------------------------------------------------------
\* LocalBroadcast::push(1, p)
LocalBroadcast_push ==
    /\ floods.seq < MaxFloods
    /\ floods' = [floods EXCEPT !.seq = @ + 1, !.air = @ \cup {floods.seq + 1}]
    /\ UNCHANGED <<send, device, rx, query>>
Remembered(s, x) == IF Len(s) = SeenRoom THEN Append(Tail(s), x) ELSE Append(s, x)
\* FloodTracker::simple_action()
FloodTracker_simple_action(n, again) ==
    LET known == \E i \in DOMAIN floods.seen : floods.seen[i] = n
    IN  /\ n \in floods.air /\ floods.counted < MaxFloods + MaxEntered
        /\ floods' = [floods EXCEPT !.air = IF again THEN @ ELSE @ \ {n},
                         !.seen = IF known THEN @ ELSE Remembered(@, n),
                         !.counted = IF known THEN @ ELSE @ + 1,
                         !.forgot = IF ~known /\ Len(floods.seen) = SeenRoom THEN @ + 1 ELSE @]
        /\ UNCHANGED <<send, device, rx, query>>

\* SRQueryForwarder::push(), process_query(): n is the query, `mine' when this node
\* is its target or on its path
process_query(n, mine) ==
    LET known == \E i \in DOMAIN query.seen : query.seen[i].seq = n
    IN  /\ query.entered[n] < MaxEntered
        /\ query' = IF mine \/ known THEN query
                    ELSE [query EXCEPT !.seen = Remembered(@, [seq |-> n, due |-> FALSE, sent |-> FALSE]),
                                       !.timers[n] = @ + 1, !.entered[n] = @ + 1]
        /\ UNCHANGED <<send, device, rx, floods>>
\* forward_query_hook(): what it passes on
Forwards(e) == e.due /\ ~e.sent
\* forward_query_hook(), forward_query(): the timer of n; at `exact'ly its time n is
\* not due, but is when another timer runs.  Without a route to the source of a
\* query it is given up.
forward_query_hook(n, exact, route) ==
    LET Due(when) == [i \in DOMAIN query.seen |->
                        IF query.seen[i].seq = n /\ when THEN [query.seen[i] EXCEPT !.due = TRUE]
                        ELSE query.seen[i]]
        now == Due(~exact)
        F == {now[i].seq : i \in {j \in DOMAIN now : Forwards(now[j])}}
    IN  /\ query.timers[n] > 0
        /\ query' = [query EXCEPT !.timers[n] = @ - 1,
                        !.seen = [i \in DOMAIN now |-> IF now[i].seq \in F THEN [now[i] EXCEPT !.sent = TRUE]
                                                       ELSE Due(TRUE)[i]],
                        !.forwarded = [m \in DOMAIN @ |-> IF m \in F /\ route THEN @[m] + 1 ELSE @[m]]]
        /\ UNCHANGED <<send, device, rx, floods>>
\* write_param(): H_CLEAR
clear_queries ==
    /\ query.seen # <<>>
    /\ query' = [query EXCEPT !.seen = <<>>] /\ UNCHANGED <<send, device, rx, floods>>

-----------------------------------------------------------------------------
\* sr2: the same tables; SR2CheckHeader does not look at the checksum, and
\* SR2QueryForwarder drops a query without a neighbor that sr takes for a bug
SR2DestCache_push(c) == SRDestCache_push(c)
SR2SetSourceRoute_simple_action(ap) == set_route(ap)
SR2CheckHeader_simple_action(m, again, damaged) == DupeFilter_simple_action(m, again, damaged, "sr2")
SR2LocalBroadcast_push == LocalBroadcast_push
SR2QueryForwarder_push(n, mine) == process_query(n, mine)
SR2QueryForwarder_forward_query(n, exact, route) == forward_query_hook(n, exact, route)

SRDataNext ==
    \/ \E c \in Visitor : SRDestCache_push(c) \/ SR2DestCache_push(c) \/ \E ap \in Ap : SRDestCache_learn(c, ap)
    \/ \E ap \in Ap : set_route(ap) \/ SR2SetSourceRoute_simple_action(ap)
    \/ clear_routes \/ PathIdle
    \/ \E success, received \in BOOLEAN : Transmit(success, received)
    \/ \E m \in rx.air, again, damaged \in BOOLEAN :
          \/ DupeFilter_simple_action(m, again, damaged, "sr")
          \/ SR2CheckHeader_simple_action(m, again, damaged)
SRFloodNext ==
    \/ LocalBroadcast_push \/ SR2LocalBroadcast_push
    \/ \E n \in floods.air, again \in BOOLEAN : FloodTracker_simple_action(n, again)
SRQueryNext ==
    \/ \E n \in 1 .. MaxFloods, b \in BOOLEAN :
          \/ process_query(n, b) \/ SR2QueryForwarder_push(n, b)
          \/ \E route \in BOOLEAN :
                forward_query_hook(n, b, route) \/ SR2QueryForwarder_forward_query(n, b, route)
    \/ clear_queries

SRTablesTypeOK ==
    /\ send.routes \subseteq Ap /\ Len(rx.sequences) <= DupeWindow
    /\ device.failed \in 0 .. device.sent /\ device.calls <= device.failed
    /\ Len(floods.seen) <= SeenRoom /\ Len(query.seen) <= SeenRoom

\* What the tables are for, whatever is repeated, reordered and forgotten: DupeFilter
\* passes no packet twice without a number 0 or a silence of 30 seconds between; a
\* broadcast is counted twice only after its entry had to make room; and a query
\* is passed on at most once for each time it was entered.
TablesSound ==
    /\ rx.twice = {}
    /\ floods.counted <= floods.seq + floods.forgot
    /\ \A n \in 1 .. MaxFloods : query.forwarded[n] <= query.entered[n]
=============================================================================
