------------------------------ MODULE TCPTrace ------------------------------
(***************************************************************************)
(* What CalculateFlows makes of the packets of a TCP connection that pass  *)
(* a point of the network: retransmissions, reorderings and loss events    *)
(* while the packets come, delivered packets and the causes of             *)
(* acknowledgements when the flow is finished.  TCPScoreboard is here too. *)
(*                                                                         *)
(* One host sends data, the other acknowledges.  Sequence numbers are far  *)
(* from where they wrap; they are relative to the first that was seen,     *)
(* init.  Packets are known by their place in the list of their stream,    *)
(* 0 is none.  A tick is 100 ms.                                           *)
(***************************************************************************)
EXTENDS Integers, Sequences, SequencesExt, FiniteSets

CONSTANTS Segments,     \* segments the sender has
          SegLength,    \* their length
          RexmitLength, \* lengths of retransmissions
          MaxRexmit, MaxAcks, MaxTime,
          Windows,      \* receive windows
          Units         \* sequence numbers a scoreboard is tested with

ASSUME TraceAssumption == Segments \in Nat /\ SegLength \in Nat \ {0} /\ MaxTime \in Nat

VARIABLES ends,         \* the hosts: nxt, rexmits, near (sent, not at the point yet), got, told (the acknowledgements it sent), time
          trace,        \* StreamInfo of both directions
          board         \* a TCPScoreboard, and the numbers that were added to it

traceVars == <<ends, trace, board>>

GreatestOf(S) == CHOOSE n \in S \cup {0} : \A m \in S : n >= m
LeastOf(S) == IF S = {} THEN 0 ELSE CHOOSE n \in S : \A m \in S : n <= m

\* StreamInfo::StreamInfo(), ConnInfo::ConnInfo()
NewConn ==
    [pkts |-> <<>>, acks |-> <<>>, init |-> -1, max_seq |-> 0, max_ack |-> 0, max_live_seq |-> 0,
     loss |-> [type |-> "NO_LOSS"], event_id |-> 0, loss_events |-> 0, false_loss_events |-> 0,
     latency |-> <<>>, hint |-> 0, end_rcv_window |-> 0, finished |-> FALSE, clean |-> FALSE]
TraceInit ==
    /\ ends = [nxt |-> 0, sent |-> 0, rexmits |-> 0, near |-> {}, got |-> {}, told |-> {},
               time |-> 0, ended |-> FALSE]
    /\ trace = NewConn
    /\ board = [sb |-> [cumack |-> 0, sack |-> <<>>], added |-> {}]

-----------------------------------------------------------------------------
\* output_loss(): a loss event is counted when the next one begins, when it is
\* acknowledged, or when the flow ends
output_loss(t) ==
    IF t.loss.type = "NO_LOSS" THEN t
    ELSE [t EXCEPT !.loss_events = IF t.loss.type = "LOSS" THEN @ + 1 ELSE @,
                   !.false_loss_events = IF t.loss.type = "FALSE_LOSS" THEN @ + 1 ELSE @,
                   !.loss = [type |-> "NO_LOSS"]]

\* register_loss_event(): its first packet was sent again
register_loss_event(t, startk, endk) ==
    LET o == output_loss(t)
        s == t.pkts[startk]
        e == t.pkts[endk]
    IN  [o EXCEPT
           !.event_id = @ + 1, !.pkts[endk].event = t.event_id + 1,
           !.loss = [type |-> IF t.max_ack > e.seq THEN "FALSE_LOSS" ELSE "LOSS",
                     seq |-> IF e.seq < s.seq THEN e.seq ELSE s.seq, end_time |-> e.ts],
           !.max_live_seq = e.end]

\* rtt(): of one direction, the other has no data; 10000 seconds when not known
rtt(t) == IF t.latency = <<>> THEN 100000 ELSE IF t.latency[1] = 0 THEN 1 ELSE t.latency[1]

\* categorize(), the search: packets before np (place n) from the last one on
NewBefore(P, n, x) == "NEW" \in P[x].flags /\ P[x].end <= P[n].seq
SameStart(P, n, x) == ~NewBefore(P, n, x) /\ P[x].seq = P[n].seq
SameData(P, n, x) == SameStart(P, n, x) /\ P[x].end = P[n].end
Overlaps(P, n, x) ==
    /\ ~NewBefore(P, n, x) /\ P[x].seq # P[n].seq
    /\ \/ P[x].seq <= P[n].seq /\ P[n].seq < P[x].end
       \/ P[x].seq < P[n].end /\ P[n].end <= P[x].end
IsDuplicate(P, n, x) == SameData(P, n, x) /\ P[x].id = P[n].id
IsKeepalive(t, n, x) ==
    SameStart(t.pkts, n, x) /\ t.pkts[n].end = t.max_seq /\ t.pkts[n].seq + 1 = t.pkts[n].end
\* where it ends
SearchEnd(t, n) ==
    GreatestOf({x \in 1 .. n - 1 : NewBefore(t.pkts, n, x) \/ SameData(t.pkts, n, x) \/ IsKeepalive(t, n, x)})
\* a retransmission of what was lost before the point is told by its time
HiddenRexmit(t, n, x) ==
    LET dt == t.pkts[n].ts - t.pkts[x].ts
    IN  IF n - x >= 3 THEN 10 * dt >= 4 * rtt(t) ELSE 100 * dt >= 85 * rtt(t)
\* the transmission that np repeats, or 0
Repeated(t, n) ==
    LET P == t.pkts
        x == SearchEnd(t, n)
        between == x + 1 .. n - 1
        same == GreatestOf({y \in between : SameStart(P, n, y)})
        partial == LeastOf({y \in between : Overlaps(P, n, y)})
    IN  IF x # 0 /\ SameData(P, n, x) THEN x
        ELSE IF partial # 0 THEN partial
        ELSE IF same # 0 THEN same
        ELSE IF x # 0 /\ NewBefore(P, n, x) /\ HiddenRexmit(t, n, x)
        THEN LeastOf({y \in x .. n - 1 : y = n - 1 \/ P[y].end > P[n].seq})
        ELSE 0

\* categorize()
categorize(t, n) ==
    LET P == t.pkts
        np == P[n]
        x == SearchEnd(t, n)
        r == Repeated(t, n)
        flag(F) == [t EXCEPT !.pkts[n].flags = @ \cup F]
        nonordered(u) == [u EXCEPT !.pkts = [y \in DOMAIN @ |->
                            IF y > x THEN [@[y] EXCEPT !.flags = @ \cup {"NONORDERED"}] ELSE @[y]]]
    IN  IF np.end > t.max_seq
        THEN flag(IF np.seq < t.max_seq THEN {"NEW", "REXMIT"} ELSE {"NEW"})
        ELSE IF x # 0 /\ IsDuplicate(P, n, x) THEN flag({"REXMIT", "DUPLICATE"})
        ELSE IF x # 0 /\ IsKeepalive(t, n, x) THEN flag({"REXMIT", "KEEPALIVE"})
        ELSE IF r = 0 THEN nonordered(flag({"REORDER"}))
        ELSE LET f == {"REXMIT"} \cup IF SameData(P, n, r) /\ r = x THEN {"FULL_REXMIT"} ELSE {}
             IN  nonordered(IF P[r].event = np.event
                            THEN register_loss_event(flag(f \cup {"EVENT_REXMIT"}), r, n)
                            ELSE flag(f))

\* update_counters(), and post_update_state() of a packet with data: did it fill
\* the window, or probe it
Above(a, b) == IF a > b THEN a ELSE b
update_counters(t, n) ==
    LET np == t.pkts[n]
        f == IF np.end = t.end_rcv_window THEN {"FILLS_RCV_WINDOW"}
             ELSE IF np.seq = t.end_rcv_window /\ n > 1 THEN {"WINDOW_PROBE"} ELSE {}
    IN  [t EXCEPT !.max_seq = Above(@, np.end), !.max_live_seq = Above(@, np.end), !.pkts[n].flags = @ \cup f]

\* find_acked_pkt(): right of `hint' nothing that starts before ack; left of the
\* result only what ends before it
find_acked_pkt(t, ack, ts) ==
    LET P == t.pkts
        right == IF t.hint = 0 THEN 0
                 ELSE LeastOf({k \in t.hint .. Len(P) : P[k].seq >= ack /\ "NONORDERED" \notin P[k].flags})
        start == IF right = 0 THEN Len(P) ELSE right - 1
        reach == {k \in 1 .. start : \A j \in k .. start :
                     P[j].end >= ack \/ P[j].flags \cap {"REORDER", "REXMIT"} # {}}
        cand == {k \in reach : P[k].end >= ack /\ P[k].seq < ack}
        good(k) == (IF t.latency = <<>> \/ ts - P[k].ts >= t.latency[1] THEN 1 ELSE 0)
                   + (IF P[k].end = ack THEN 1 ELSE 0)
        exact == {k \in reach : /\ P[k].end = ack /\ "NEW" \in P[k].flags
                                /\ \A j \in cand : j > k => good(j) = 0}
    IN  IF exact # {} THEN GreatestOf(exact)
        ELSE GreatestOf({k \in cand : \A j \in cand : good(j) <= good(k)})

\* post_update_state() of an acknowledgement
AckOrder(t, a, n) ==
    IF a > t.max_ack THEN [t EXCEPT !.max_ack = a]
    ELSE IF a = t.max_ack THEN t
    ELSE LET back == GreatestOf({j \in 1 .. n - 1 : t.acks[j].ack <= a})
         IN  [t EXCEPT !.acks = [j \in DOMAIN @ |->
                IF j = n THEN [@[j] EXCEPT !.flags = @ \cup {"ACK_NONORDERED"}]
                ELSE IF j > back THEN [@[j] EXCEPT !.flags = @ \cup {"ACK_NONORDERED", "ACK_REORDER"}]
                ELSE @[j]]]
AckLatency(t, a, n) ==
    LET k == find_acked_pkt(t, a, t.acks[n].ts)
        lat == t.acks[n].ts - t.pkts[k].ts
    IN  IF (n > 1 /\ t.acks[n - 1].ack = a) \/ k = 0 THEN t
        ELSE [t EXCEPT !.hint = k, !.latency = IF @ = <<>> \/ lat < @[1] THEN <<lat>> ELSE @]
AckLoss(t, a, n) ==
    IF t.loss.type = "NO_LOSS" \/ (t.loss.type # "NO_LOSS" /\ a <= t.loss.seq) THEN t
    ELSE output_loss(IF t.latency # <<>> /\ 10 * (t.acks[n].ts - t.loss.end_time) < 6 * t.latency[1]
                     THEN [t EXCEPT !.loss.type = "FALSE_LOSS"] ELSE t)
post_update_state(t, n) ==
    LET a == t.acks[n].ack IN AckLoss(AckLatency(AckOrder(t, a, n), a, n), a, n)

\* create_pkt(): numbers count from the first one that is seen.  Times only grow
\* here, so the packets that are older than the last of their stream, which it
\* ignores, do not come.
Begun(t, seq) ==
    IF t.init # -1 THEN t
    ELSE [t EXCEPT !.init = seq, !.max_seq = seq, !.max_ack = seq, !.max_live_seq = seq, !.end_rcv_window = seq]
create_pkt(m, t) == [seq |-> m.seq, end |-> m.end, id |-> m.id, ts |-> ends.time, event |-> t.event_id,
                     flags |-> {}, delivered |-> FALSE, caused |-> 0]

\* handle_packet(), of the stream with data and of the one with acknowledgements
handle_data(t0, m) ==
    LET t == Begun(t0, m.seq)
        n == Len(t.pkts) + 1
    IN  update_counters(categorize([t EXCEPT !.pkts = Append(@, create_pkt(m, t)), !.clean = FALSE], n), n)
handle_ack(t0, m) ==
    LET t == Begun(t0, m.ack)
        n == Len(t.acks) + 1
    IN  post_update_state([t EXCEPT !.acks = Append(@, [ack |-> m.ack, ts |-> ends.time, flags |-> {}]),
                                    !.end_rcv_window = m.ack + m.window, !.clean = FALSE], n)

-----------------------------------------------------------------------------
\* TCPScoreboard::add()
Absorb(cum, sack) ==
    FoldLeft(LAMBDA b, s : IF b.cumack >= s[1] THEN [b EXCEPT !.cumack = Above(@, s[2])]
                           ELSE [b EXCEPT !.sack = Append(@, s)],
             [cumack |-> cum, sack |-> <<>>], sack)
add(b, seq, end) ==
    LET i == LeastOf({j \in DOMAIN b.sack : seq <= b.sack[j][2]})
    IN  IF seq >= end \/ end <= b.cumack THEN b
        ELSE IF seq <= b.cumack THEN Absorb(end, b.sack)
        ELSE IF b.sack = <<>> \/ (b.sack # <<>> /\ seq > b.sack[Len(b.sack)][2])
        THEN [b EXCEPT !.sack = Append(@, <<seq, end>>)]
        ELSE IF end < b.sack[i][1]
        THEN [b EXCEPT !.sack = SubSeq(@, 1, i - 1) \o <<<<seq, end>>>> \o SubSeq(@, i, Len(@))]
        ELSE [b EXCEPT !.sack[i] = <<IF seq <= @[1] THEN seq ELSE @[1], Above(end, @[2])>>]

\* TCPScoreboard::contains()
contains(b, seq, end) ==
    LET walk == FoldLeft(LAMBDA w, s : IF w.done THEN w
                            ELSE IF w.seq < s[1] THEN [w EXCEPT !.done = TRUE]
                            ELSE IF end <= s[2] THEN [w EXCEPT !.done = TRUE, !.found = TRUE]
                            ELSE [w EXCEPT !.seq = IF @ <= s[2] THEN s[2] ELSE @],
                         [seq |-> Above(seq, b.cumack), done |-> FALSE, found |-> FALSE], b.sack)
    IN  seq # end /\ (end <= b.cumack \/ walk.found)

-----------------------------------------------------------------------------
\* mark_delivered(): f.time passes what the acknowledgement is too early for, and
\* comes back after duplicates; what is between f.cum and f.time and not beyond
\* the acknowledgement was delivered, unless a later packet with the same data was
MinLatency(t) == IF t.latency = <<>> THEN 0 ELSE t.latency[1]
TimeHint(t, f, j) ==
    LET P == f.pkts
        ahead == IF f.time = 0 THEN 0
                 ELSE LeastOf({k \in f.time .. Len(P) : 10 * (t.acks[j].ts - P[k].ts) < 8 * MinLatency(t)})
        back == GreatestOf({k \in 1 .. ahead : k = 1 \/ P[k - 1].seq <= f.last \/ k = f.cum})
    IN  IF f.ndup = 0 \/ ahead = 0 \/ back = f.cum THEN ahead ELSE back
\* the acknowledgement jumped in a reordered section: what is before was delivered too
Jumps(t, j, P, k, jump) ==
    LET prev == t.acks[j - 1].ack
    IN  /\ jump # <<>> /\ "NONORDERED" \in P[k].flags /\ P[k].end <= jump[1] /\ P[k].seq > prev
        /\ ~(/\ k > 1 /\ j > 2 /\ P[k - 1].seq <= prev /\ P[k].end >= t.acks[j].ack
             /\ t.acks[j - 2].ack # prev
             /\ (j = Len(t.acks) \/ t.acks[j + 1].ack # t.acks[j].ack))
Within(p, ack) == p.end <= ack
MarkOne(t, j, w, k) ==
    LET P == w.pkts
        covered == \E kk \in k + 1 .. w.hint - 1 :
                      P[kk].delivered /\ P[kk].seq <= P[k].seq /\ P[kk].end >= P[k].end
        marked == Within(P[k], t.acks[j].ack) /\ ~covered
        jumps == marked /\ j > 1 /\ Jumps(t, j, P, k, w.jump)
    IN  [pkts |-> IF marked THEN [P EXCEPT ![k].delivered = TRUE] ELSE P,
         hint |-> IF jumps THEN k ELSE w.hint,
         jump |-> IF w.jump = <<>> \/ P[k].seq <= t.acks[j - 1].ack THEN <<>>
                  ELSE IF jumps THEN <<P[k].seq>> ELSE w.jump]
mark_delivered(t, f, j) ==
    LET time == TimeHint(t, f, j)
        n == Len(f.pkts)
        start == IF time = 0 THEN n ELSE time - 1
        low == IF f.cum \in 1 .. start THEN f.cum + 1 ELSE 1
        w == FoldLeft(LAMBDA v, k : MarkOne(t, j, v, k),
                      [pkts |-> f.pkts, hint |-> IF time = 0 THEN n + 1 ELSE time,
                       jump |-> IF j > 1 /\ t.acks[j - 1].ack # t.acks[j].ack THEN <<t.acks[j].ack>> ELSE <<>>],
                      [i \in 1 .. start - low + 1 |-> start + 1 - i])
        P == IF time # 0 /\ time = f.cum THEN f.pkts ELSE w.pkts
        cum == IF f.cum = 0 THEN 1 ELSE f.cum
    IN  [f EXCEPT !.pkts = P, !.time = time,
                  !.cum = LeastOf({k \in cum .. n : k = time \/ P[k].end >= t.acks[j].ack})]

\* find_ack_cause2(): the packet that acknowledgement j of t answers, g.cum is
\* where to look, g.max the last one that was acknowledged
Skipped(t, g, j, k) ==
    \/ ~(g.pkts[k].delivered \/ "WINDOW_PROBE" \in g.pkts[k].flags)
    \/ g.pkts[k].caused # 0
    \/ t.acks[j].ack > g.max /\ (g.pkts[k].end < t.acks[j].ack \/ g.pkts[k].seq > t.acks[j].ack)
DupAcks(t, j) == Cardinality({i \in j .. Len(t.acks) : \A h \in j .. i : t.acks[h].ack = t.acks[j].ack})
DupAcksExpected(t, g, j, k) ==
    FoldLeft(LAMBDA e, kk : IF g.pkts[kk].delivered /\ e.sb.cumack = t.acks[j].ack /\ e.n <= DupAcks(t, j)
                            THEN [sb |-> add(e.sb, g.pkts[kk].seq, g.pkts[kk].end), n |-> e.n + 1] ELSE e,
             [sb |-> [cumack |-> t.acks[j].ack, sack |-> <<>>], n |-> 0],
             [i \in 1 .. Len(g.pkts) - k - 1 |-> k + 1 + i]).n
After(g, k) == IF k = 0 \/ k = Len(g.pkts) THEN 0 ELSE k + 1
FirstCause(t, g, j) ==
    LET k == IF g.cum = 0 THEN 0 ELSE LeastOf({i \in g.cum .. Len(g.pkts) : ~Skipped(t, g, j, i)})
        n == After(g, k)
    IN  IF k # 0 /\ n # 0 /\ g.pkts[k].end = t.acks[j].ack /\ ~g.pkts[n].delivered
           /\ DupAcksExpected(t, g, j, k) > DupAcks(t, j)
        THEN n ELSE k
\* a higher acknowledgement is not for a packet beyond it; a packet that begins
\* at the acknowledgement is behind a hole
BeyondHole(t, g, j, first) ==
    LET P == g.pkts
        a == t.acks[j].ack
        k == IF first # 0 /\ j > 1 /\ a > t.acks[j - 1].ack /\ P[first].end > a THEN After(g, first) ELSE first
        later == LeastOf({i \in j + 1 .. Len(t.acks) : t.acks[i].ack # a})
        c == IF k # 0 /\ P[k].seq = a /\ "WINDOW_PROBE" \notin P[k].flags
             THEN IF later # 0 /\ t.acks[later].ack = P[k].end THEN 0 ELSE After(g, k)
             ELSE k
    IN  IF c = 0 THEN 0
        ELSE LeastOf({i \in c .. Len(P) : (P[i].delivered \/ "WINDOW_PROBE" \in P[i].flags) /\ P[i].caused = 0})
\* a later packet answers better than k0 when it took half the time or less
Sooner(t, g, j, k0, later) ==
    LET P == g.pkts
        ack == t.acks[j]
    IN  IF /\ k0 # 0 /\ ack.ts - P[k0].ts >= 2 * MinLatency(t) /\ later # 0
           /\ 2 * (ack.ts - P[later].ts) <= ack.ts - P[k0].ts /\ P[later].end <= P[k0].end
        THEN later ELSE k0
\* packet k is the cause, unless the acknowledgement came too soon
Answers(t, g, j, cum, k) ==
    LET P == g.pkts
        ack == t.acks[j]
        max == IF "ACK_REORDER" \in ack.flags THEN g.max ELSE Above(g.max, P[k].end)
        restart == "EVENT_REXMIT" \in P[k].flags /\ "ACK_NONORDERED" \notin ack.flags
        passed == {P[i].end : i \in {i \in cum .. k - 1 : P[i].delivered}} \cup {max}
    IN  IF k = 0 \/ (k # 0 /\ 10 * (ack.ts - P[k].ts) < 8 * MinLatency(t))
        THEN [g EXCEPT !.cum = cum, !.found = 0]
        ELSE IF restart THEN [g EXCEPT !.cum = k, !.max = GreatestOf(passed), !.found = k]
        ELSE [g EXCEPT !.cum = cum, !.max = max, !.found = k]
RECURSIVE find_ack_cause2(_, _, _)
find_ack_cause2(t, g, j) ==
    LET first == FirstCause(t, g, j)
        cum == IF first = 0 \/ "ACK_NONORDERED" \notin t.acks[j].flags THEN first ELSE g.cum
        k0 == BeyondHole(t, g, j, first)
        later == find_ack_cause2(t, [g EXCEPT !.cum = After(g, k0), !.max = Above(@, g.pkts[k0].end)], j).found
    IN  Answers(t, g, j, cum, Sooner(t, g, j, k0, later))

\* StreamInfo::unfinish(), StreamInfo::finish(), ConnInfo::finish()
unfinish(P) == [k \in DOMAIN P |-> [P[k] EXCEPT !.delivered = FALSE, !.caused = 0]]
Delivered(t) ==
    FoldLeft(LAMBDA f, j :
               IF f.stop THEN f
               ELSE IF t.acks[j].ack = f.last THEN [f EXCEPT !.ndup = @ + 1]
               ELSE IF t.acks[j].ack < f.last THEN f
               ELSE LET m == mark_delivered(t, f, j)
                    IN  IF m.cum = 0 THEN [m EXCEPT !.stop = TRUE]
                        ELSE [m EXCEPT !.last = t.acks[j].ack, !.ndup = 0],
             [pkts |-> t.pkts, cum |-> 0, time |-> IF t.pkts = <<>> THEN 0 ELSE 1, last |-> t.init, ndup |-> 0,
              stop |-> FALSE],
             [j \in DOMAIN t.acks |-> j]).pkts
Caused(c, j) == IF c.found = 0 THEN c ELSE [c EXCEPT !.pkts[c.found].caused = j]
Causes(t) ==
    FoldLeft(LAMBDA g, j : Caused(find_ack_cause2(t, g, j), j),
             [pkts |-> t.pkts, cum |-> IF t.pkts = <<>> THEN 0 ELSE 1, max |-> t.init, found |-> 0],
             [j \in DOMAIN t.acks |-> j]).pkts
finish_streams(t) == LET u == [t EXCEPT !.pkts = Delivered(t)] IN [u EXCEPT !.pkts = Causes(u)]
finish(t) ==
    IF t.finished /\ t.clean THEN t
    ELSE [finish_streams(IF t.finished THEN [t EXCEPT !.pkts = unfinish(@)] ELSE t)
            EXCEPT !.finished = TRUE, !.clean = TRUE]

-----------------------------------------------------------------------------
\* the sender: new data, or data again from some segment on
Sent(seq, l) == [seq |-> seq, end |-> seq + l, id |-> ends.sent + 1]
SendNew ==
    /\ ends.nxt < Segments * SegLength
    /\ ends' = [ends EXCEPT !.nxt = @ + SegLength, !.sent = @ + 1, !.near = @ \cup {Sent(ends.nxt, SegLength)}]
SendAgain == \E i \in 0 .. Segments - 1, l \in RexmitLength :
    /\ ends.rexmits < MaxRexmit /\ i * SegLength + l <= ends.nxt
    /\ ends' = [ends EXCEPT !.rexmits = @ + 1, !.sent = @ + 1, !.near = @ \cup {Sent(i * SegLength, l)}]

\* simple_action(), with a packet of the sender: of those that are near in any
\* order, and beyond the point it arrives or not
Expected(got) == LeastOf({n \in 1 .. Segments * SegLength + 1 : n - 1 \notin got}) - 1
Observe == \E m \in ends.near, arrives \in BOOLEAN :
    LET got == IF arrives THEN ends.got \cup (m.seq .. m.end - 1) ELSE ends.got
    IN  /\ trace' = handle_data(trace, m)
        /\ ends' = [ends EXCEPT !.near = @ \ {m}, !.got = got,
                                !.told = IF arrives THEN @ \cup {Expected(got)} ELSE @]
LoseNear == \E m \in ends.near : ends' = [ends EXCEPT !.near = @ \ {m}] /\ UNCHANGED trace

\* simple_action(), with an acknowledgement: the receiver sent it for one of the
\* packets it got, late or twice
ObserveAck == \E a \in ends.told, w \in Windows :
    /\ Len(trace.acks) < MaxAcks
    /\ trace' = handle_ack(trace, [ack |-> a, window |-> w])
    /\ UNCHANGED ends

\* write_handler() with H_SAVE, save(): the flow is finished and goes on
save == trace.pkts # <<>> /\ ~trace.finished /\ trace' = finish(trace) /\ UNCHANGED ends

\* aggregate_notify(), or H_CLEAR: kill() finishes the flow and outputs its last
\* loss event; the next packet begins a new one in the middle of the connection
kill(t) == output_loss(finish(t))
DeleteFlow ==
    /\ trace.pkts # <<>> /\ ~ends.ended
    /\ kill(trace) # NewConn
    /\ trace' = NewConn /\ ends' = [ends EXCEPT !.ended = TRUE]

Wait == ends.time < MaxTime /\ ends' = [ends EXCEPT !.time = @ + 1] /\ UNCHANGED trace

FlowsNext ==
    /\ UNCHANGED board
    /\ \/ (SendNew \/ SendAgain) /\ UNCHANGED trace
       \/ Observe \/ LoseNear \/ ObserveAck \/ save \/ DeleteFlow \/ Wait

\* a scoreboard and what it was told
BoardNext == \E s, e \in 0 .. Units :
    /\ board' = [sb |-> add(board.sb, s, e), added |-> board.added \cup (s .. e - 1)]
    /\ UNCHANGED <<ends, trace>>

-----------------------------------------------------------------------------
TraceTypeOK ==
    /\ trace.init \in -1 .. Segments * SegLength
    /\ \A k \in DOMAIN trace.pkts : trace.pkts[k].caused \in 0 .. Len(trace.acks)
    /\ trace.hint \in 0 .. Len(trace.pkts)

\* Every loss event is counted once, or is the one that waits (register_loss_event(),
\* output_loss()).
EventsCounted ==
    trace.event_id = trace.loss_events + trace.false_loss_events + (IF trace.loss.type = "NO_LOSS" THEN 0 ELSE 1)

\* In a flow that the point saw from its beginning, in order and once, and acknowledged at the ends of
\* packets, finish() marks as delivered what was acknowledged (mark_delivered() has the latency of every
\* acknowledgement above 0.8 of the smallest one).
AckedIsDelivered ==
    \A P \in {finish(trace).pkts} :
        /\ ~ends.ended
        /\ \A k \in DOMAIN P : P[k].flags \cap {"REORDER", "REXMIT", "NONORDERED"} = {}
        /\ \A j \in DOMAIN trace.acks : \E k \in DOMAIN P : P[k].end = trace.acks[j].ack
        => \A k \in DOMAIN P : P[k].delivered <=> P[k].end <= trace.max_ack

\* A scoreboard knows what it was told: add() and contains() of blocks that grow
\* into one another agree with the set of sequence numbers.
ScoreboardSound ==
    /\ 0 .. board.sb.cumack - 1 \subseteq board.added /\ board.sb.cumack \notin board.added
    /\ \A s, e \in 0 .. Units : s <= e => (contains(board.sb, s, e) <=> (s # e /\ s .. e - 1 \subseteq board.added))

\* What CalculateFlows and TCPScoreboard say of a connection is true of it.
TraceSound == EventsCounted /\ AckedIsDelivered /\ ScoreboardSound

=============================================================================
