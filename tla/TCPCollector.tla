---------------------------- MODULE TCPCollector ----------------------------
(***************************************************************************)
(* TCPCollector, which keeps a record of every packet of the connections   *)
(* that pass a point of the network, and TCPMystery, which finds out from  *)
(* the records which packets were delivered and which acknowledgement each *)
(* one caused, when a connection is killed and written to a file.          *)
(*                                                                         *)
(* Host 1 sends data, host 2 acknowledges it; both are external.  What     *)
(* passes the point is lost, repeated and reordered before and behind it.  *)
(* Sequence numbers count octets, a SYN or a FIN is one of them, and are   *)
(* far from where they wrap.  A TCPScoreboard is the set of octets that it *)
(* contains, see ScoreboardSound of TCPTrace; it begins with all octets    *)
(* below 0.  All packets carry an acknowledgement, and IP_ID is true.      *)
(* Left out: what is only written to the file (the MTU, whether there      *)
(* were two SYNs), and room for attachments of other elements.             *)
(***************************************************************************)
EXTENDS Integers, Sequences, FiniteSets, SequencesExt, FiniteMaps

CONSTANTS Worlds,       \* what connections and packets there are, see CollectorInit
          PktBank,      \* records that are allocated at a time, 1024 in the code
          RcvWindow     \* window that host 2 advertises

ASSUME CollectorAssumption == PktBank \in Nat \ {0} /\ RcvWindow \in Nat

VARIABLE coll

-----------------------------------------------------------------------------
\* Stream(), with the packets and not the pointers to the first and last one;
\* `init' is empty until a sequence number was seen
NewStream == [init |-> <<>>, max_seq |-> 0, max_ack |-> 0, end_rcv_window |-> 0, total_packets |-> 0,
              ack_packets |-> 0, filled |-> FALSE, confused |-> FALSE, pkts |-> <<>>]
\* Conn(); `got' and `heard' are the octets and the packets that host 2 has, and
\* `acks' the acknowledgements on their way to the point
NewRecord == [stream |-> <<NewStream, NewStream>>, got |-> {}, heard |-> {}, acks |-> {}]

\* a world bounds what passes the point: ranges of octets, how the time of a packet
\* differs from the time of the one before, numbers of packets and of connections
CollectorInit == \E w \in Worlds :
    coll = [world |-> w, conns |-> <<>>, free |-> <<>>, banks |-> 0, now |-> 1, seen |-> 0, acked |-> 0, kills |-> 0,
            report |-> <<>>]

\* new_pkt(): the last record of a new bank is the first that is used
Bank(c) == IF c.free # <<>> THEN c
           ELSE [c EXCEPT !.banks = @ + 1, !.free = [i \in 1 .. PktBank |-> (c.banks + 1) * PktBank + 1 - i]]
Records(s) == [k \in DOMAIN s.pkts |-> s.pkts[k].rec]
free_pkt_list(c, s) == [c EXCEPT !.free = Records(s) \o @]

-----------------------------------------------------------------------------
\* process_options(): the blocks of a SACK in order, without overlaps
SortedBlocks(b) == SortSeq(b, LAMBDA x, y : x[1] < y[1])
Compressed(b) ==
    FoldLeft(LAMBDA done, x : IF done # <<>> /\ x[1] <= Last(done)[2]
                              THEN [done EXCEPT ![Len(done)][2] = IF @ <= x[2] THEN x[2] ELSE @]
                              ELSE Append(done, x),
             <<>>, SortedBlocks(b))
Relative(b, init) == [i \in DOMAIN b |-> <<b[i][1] - init, b[i][2] - init>>]

\* process_data(), of packet p in stream s with the other stream o
process_data(s, o, p, rec) ==
    [rec |-> rec, seq |-> p.seq - s.init[1], end |-> p.seq - s.init[1] + p.len, ack |-> p.ack - o.init[1],
     sack |-> Compressed(Relative(p.blocks, o.init[1])), told |-> Relative(p.blocks, o.init[1]),
     ts |-> p.ts, ip_id |-> p.ip_id, heard |-> p.heard, flags |-> {}]
Counted_data(s, k, win) ==
    [s EXCEPT !.total_packets = @ + 1, !.ack_packets = IF k.seq = k.end THEN @ + 1 ELSE @,
              !.end_rcv_window = k.ack + win]

\* process_ack(): k has no predecessor yet, so that no earlier packet is marked as
\* reordered, and none is taken for a window probe
process_ack(o, k) ==
    [k EXCEPT !.flags = (IF k.ack < o.max_ack THEN {"ACK_NONORDERED"} ELSE {})
                        \cup (IF k.end = o.end_rcv_window THEN {"FILLS_RCV_WINDOW"} ELSE {})]

\* attach_packet(): where the search for an earlier packet with the same data ends
Older(P, k, i) == "NEW" \in P[i].flags /\ P[i].end <= k.seq
SamePacket(P, k, i) == P[i].seq # P[i].end /\ P[i].seq = k.seq /\ P[i].end = k.end /\ k.ip_id = P[i].ip_id
ShareData(P, k, i) ==
    /\ P[i].seq # P[i].end
    /\ \/ P[i].seq = k.seq
       \/ P[i].seq <= k.seq /\ k.seq < P[i].end
       \/ P[i].seq < k.end /\ k.end <= P[i].end
attach_packet(s, k) ==
    LET P == s.pkts
        ends == {i \in DOMAIN P : Older(P, k, i) \/ SamePacket(P, k, i) \/ ShareData(P, k, i)}
        x == IF ends = {} THEN 0 ELSE Max(ends)
        found == x # 0 /\ (x # 0 => ~Older(P, k, x))
        all == Append(P, [k EXCEPT !.flags = @ \cup (IF found THEN {"DUPDATA"} ELSE {})])
    IN  IF k.seq = k.end THEN Append(P, k)
        ELSE IF k.end > s.max_seq
        THEN Append(P, [k EXCEPT !.flags = @ \cup {"NEW"} \cup (IF k.seq < s.max_seq THEN {"DUPDATA"} ELSE {})])
        ELSE IF found /\ SamePacket(P, k, x)
        THEN Append(P, [k EXCEPT !.flags = @ \cup {"DUPDATA", "DUPLICATE"}])
        ELSE [i \in DOMAIN all |-> IF i > x THEN [all[i] EXCEPT !.flags = @ \cup {"NONORDERED"}] ELSE all[i]]

\* handle_packet() of Conn: d is the direction of p; a packet from before the last
\* one is only noted
Begin(c, p, d) ==
    [c EXCEPT ![d].init = IF @ = <<>> THEN <<p.seq>> ELSE @, ![3 - d].init = IF @ = <<>> THEN <<p.ack>> ELSE @]
Confused(s, p) == s.pkts # <<>> /\ (s.pkts # <<>> => p.ts < Last(s.pkts).ts)
Attached(st, p, d, rec) ==
    LET data == process_data(st[d], st[3 - d], p, rec)
        k == process_ack(st[3 - d], data)
    IN  [st EXCEPT ![d] = [Counted_data(@, k, p.win) EXCEPT
                             !.pkts = attach_packet(st[d], k),
                             !.filled = @ \/ "FILLS_RCV_WINDOW" \in k.flags,
                             !.max_seq = IF k.end > @ THEN k.end ELSE @],
                   ![3 - d].max_ack = IF k.ack > @ THEN k.ack ELSE @]
handle_packet(c, a, p, d) ==
    LET st == Begin(c.conns[a].stream, p, d)
        b == Bank(c)
    IN  IF Confused(st[d], p) THEN [c EXCEPT !.conns[a].stream = [st EXCEPT ![d].confused = TRUE]]
        ELSE [b EXCEPT !.free = Tail(@), !.conns[a].stream = Attached(st, p, d, b.free[1])]
\* simple_action(), with new_conn()
Collect(c, a, p, d) ==
    handle_packet([c EXCEPT !.conns = IF a \in DOMAIN @ THEN @ ELSE Put(@, a, NewRecord)], a, p, d)

-----------------------------------------------------------------------------
\* TCPMystery
max_ack(k) == IF k.sack # <<>> THEN Last(k.sack)[2] ELSE k.ack
FirstFrom(S, none) == IF S = {} THEN none ELSE Min(S)

\* find_true_caused_acks(): for each packet of D the acknowledgement in A that it is
\* taken to have caused, or 0; w.ack only goes forward.  The flags of A are
\* compared with TH_SYN and TH_FIN, which are NONORDERED and NEW
CausedStep(D, A, w, k) ==
    LET after == FirstFrom({j \in w.ack .. Len(A) : A[j].ts >= D[k].ts}, Len(A) + 1)
        j == FirstFrom({i \in after .. Len(A) : max_ack(A[i]) >= D[k].end}, Len(A) + 1)
        repeated == "NONORDERED" \in D[k].flags
                    /\ \E i \in k + 1 .. Len(D) : D[i].ts < A[j].ts /\ D[i].end = D[k].end
        answers == /\ max_ack(A[j]) = D[k].end
                   /\ A[j].seq = A[j].end \/ A[j].flags \cap {"NEW", "NONORDERED"} # {}
                   /\ \/ j <= 2
                      \/ max_ack(A[j - 1]) # max_ack(A[j - 2])
                      \/ A[j - 1].seq # A[j - 1].end
    IN  IF "NEW" \notin D[k].flags \/ w.ack > Len(A) THEN w
        ELSE IF j > Len(A) THEN [w EXCEPT !.ack = j]
        ELSE [ack |-> j, caused |-> IF ~repeated /\ answers THEN [w.caused EXCEPT ![k] = j] ELSE w.caused]
find_true_caused_acks(D, A) ==
    FoldLeft(LAMBDA w, k : CausedStep(D, A, w, k), [ack |-> 1, caused |-> [k \in DOMAIN D |-> 0]],
             [k \in DOMAIN D |-> k]).caused

\* calculate_semirtt()
calculate_semirtt(D, A) ==
    LET caused == find_true_caused_acks(D, A)
        times == {<<k, A[caused[k]].ts - D[k].ts>> : k \in {i \in DOMAIN D : caused[i] # 0}}
    IN  [n |-> Cardinality(times), sum |-> MapThenSumSet(LAMBDA t : t[2], times),
         min |-> FirstFrom({t[2] : t \in times}, 0), max |-> IF times = {} THEN 0 ELSE Max({t[2] : t \in times})]

\* the octets of a scoreboard that was told of acknowledgement a, and whether they
\* contain packet k
Octets(k) == k.seq .. k.end - 1
Covered(a) == (0 .. a.ack - 1) \cup UNION {b[1] .. b[2] - 1 : b \in Range(a.sack)}
seq_contained(k, S) == k.seq # k.end /\ \A o \in Octets(k) : o >= 0 => o \in S

\* find_delivered(): backwards from the last packet up to the time of each
\* acknowledgement that says something new
DeliveredStep(D, sb, last, w, k) ==
    IF w.done \/ D[k].seq = D[k].end THEN w
    ELSE IF "NEW" \in D[k].flags /\ D[k].end <= last THEN [w EXCEPT !.done = TRUE]
    ELSE IF seq_contained(D[k], sb) /\ ~seq_contained(D[k], w.acked)
    THEN [w EXCEPT !.found = @ \cup {k}, !.acked = @ \cup Octets(D[k])]
    ELSE w
AckStep(D, f, a) ==
    IF a.ack = f.last /\ a.sack = <<>> THEN f
    ELSE LET time == Max({f.time} \cup {i \in f.time .. Len(D) : D[i].ts <= a.ts})
             w == FoldLeft(LAMBDA v, k : DeliveredStep(D, Covered(a), f.last, v, k),
                           [done |-> FALSE, found |-> {}, acked |-> {}], [i \in 1 .. time |-> time + 1 - i])
         IN  [time |-> time, last |-> a.ack, found |-> f.found \cup w.found]
find_delivered(D, A) ==
    IF D = <<>> THEN {} ELSE FoldLeft(LAMBDA f, a : AckStep(D, f, a), [time |-> 1, last |-> 0, found |-> {}], A).found

-----------------------------------------------------------------------------
\* kill_conn(), which writes the connection to the file with what TCPMystery makes
\* of its packets, and frees their records
kill_conn(c, conn) ==
    LET D == conn.stream[1].pkts
        A == conn.stream[2].pkts
    IN  [free_pkt_list(free_pkt_list(c, conn.stream[1]), conn.stream[2]) EXCEPT !.kills = @ + 1,
            !.report = <<[data |-> D, acks |-> A, delivered |-> find_delivered(D, A),
                          caused |-> find_true_caused_acks(D, A), semirtt |-> calculate_semirtt(D, A)]>>]
\* aggregate_notify()
CollectorDelete(a) ==
    /\ a \in DOMAIN coll.conns
    /\ coll' = kill_conn([coll EXCEPT !.conns = Drop(@, {a})], coll.conns[a])
\* the handler `clear'
CollectorClear ==
    /\ coll.conns # <<>>
    /\ coll' = FoldLeft(LAMBDA c, a : kill_conn(c, coll.conns[a]), [coll EXCEPT !.conns = <<>>],
                        SetToSeq(DOMAIN coll.conns))

-----------------------------------------------------------------------------
\* The hosts.  A packet with octets r of connection a passes the point, with the
\* identification of packet `copy' if it is a copy that the network made
Running(a) == coll.kills < coll.world.kills /\ a \in coll.world.aggregates
HostSends(a, r, copy, dt) ==
    LET p == [seq |-> r[1], len |-> r[2] - r[1], ack |-> 0, blocks |-> <<>>, win |-> 0, ts |-> coll.now + dt,
              ip_id |-> IF copy # 0 THEN copy ELSE coll.seen + 1, heard |-> {}]
    IN  /\ Running(a) /\ coll.seen < coll.world.data
        /\ copy # 0 => \E c \in DOMAIN coll.conns : c = a /\ \E k \in Range(coll.conns[c].stream[1].pkts) :
              k.ip_id = copy /\ Octets(k) = (r[1] - coll.conns[c].stream[1].init[1]) .. (r[2] - coll.conns[c].stream[1].init[1] - 1)
        /\ coll' = [Collect(coll, a, p, 1) EXCEPT !.seen = @ + 1, !.now = coll.now + dt]

\* host 2 gets packet i, and answers or not, with SACK or not: the block of this
\* packet first, also when it had its octets already
Runs(got, from) == {<<s, e>> \in (from .. Max(got) + 1) \X (from .. Max(got) + 1) :
                       s < e /\ s .. e - 1 \subseteq got /\ s - 1 \notin got /\ e \notin got}
HostHears(a, i, answers, sackok) ==
    LET conn == coll.conns[a]
        base == conn.stream[1].init[1]
        o == {x + base : x \in Octets(conn.stream[1].pkts[i])}
        got == conn.got \cup o
        cum == Min((0 .. Max(got) + 1) \ got)
        here == {b \in Runs(got, cum) : o \subseteq b[1] .. b[2] - 1}
        again == IF o \subseteq conn.got THEN {<<Min(o), Max(o) + 1>>} ELSE {}
        blocks == IF sackok THEN SetToSeq(again) \o SetToSeq(here) \o SetToSeq(Runs(got, cum) \ here) ELSE <<>>
        ack == [ack |-> cum, blocks |-> blocks, heard |-> conn.heard \cup {i}]
    IN  /\ Running(a)
        /\ i \notin conn.heard /\ conn.stream[1].pkts[i].seq # conn.stream[1].pkts[i].end
        /\ answers => coll.acked < coll.world.acks
        /\ sackok => answers
        /\ coll' = [coll EXCEPT !.conns[a].got = got, !.conns[a].heard = @ \cup {i}, !.acked = IF answers THEN @ + 1 ELSE @,
                                !.conns[a].acks = IF answers THEN @ \cup {ack} ELSE @]
\* an acknowledgement passes the point
AckPasses(a, m, dt) ==
    LET p == [seq |-> 0, len |-> 0, ack |-> m.ack, blocks |-> m.blocks, win |-> RcvWindow, ts |-> coll.now + dt,
              ip_id |-> 0, heard |-> m.heard]
    IN  /\ Running(a)
        /\ coll' = [Collect([coll EXCEPT !.conns[a].acks = @ \ {m}], a, p, 2) EXCEPT !.now = coll.now + dt]

CollectorNext ==
    \/ CollectorClear
    \/ \E a \in coll.world.aggregates : \E dt \in coll.world.ticks :
          \E r \in coll.world.ranges : \E copy \in 0 .. coll.seen : HostSends(a, r, copy, dt)
    \/ \E a \in DOMAIN coll.conns :
          \/ CollectorDelete(a)
          \/ \E i \in DOMAIN coll.conns[a].stream[1].pkts, answers, sackok \in BOOLEAN : HostHears(a, i, answers, sackok)
          \/ \E m \in coll.conns[a].acks, dt \in coll.world.ticks : AckPasses(a, m, dt)

-----------------------------------------------------------------------------
CollectorTypeOK ==
    /\ coll.kills \in Nat /\ Len(coll.report) <= 1
    /\ \A a \in DOMAIN coll.conns : \A d \in 1 .. 2 :
         coll.conns[a].stream[d].total_packets = Len(coll.conns[a].stream[d].pkts)

\* Each record is free or of one packet of one connection (new_pkt(),
\* free_pkt_list()), through any sequence of connections.
RecordsSound ==
    LET all == FoldLeft(LAMBDA r, a : r \o Records(coll.conns[a].stream[1]) \o Records(coll.conns[a].stream[2]),
                        coll.free, SetToSeq(DOMAIN coll.conns))
    IN  Len(all) = coll.banks * PktBank /\ Range(all) = 1 .. coll.banks * PktBank

\* Packets with data are new, out of order or copies; data that is called a repetition
\* passed before, or begins before what was seen first; and a new packet is out
\* of order only if data from before its end came after it (attach_packet()).
CategoriesSound(D) ==
    \A k \in DOMAIN D : D[k].seq # D[k].end =>
        /\ D[k].flags \cap {"NEW", "NONORDERED", "DUPLICATE"} # {}
        /\ "NEW" \in D[k].flags <=> \A i \in 1 .. k - 1 : D[i].end < D[k].end
        /\ "DUPDATA" \in D[k].flags => D[k].seq < 0 \/ \E i \in 1 .. k - 1 : Octets(D[i]) \cap Octets(D[k]) # {}
        /\ {"NEW", "NONORDERED"} \subseteq D[k].flags =>
              \E i \in k + 1 .. Len(D) : "NEW" \notin D[i].flags /\ D[i].seq < D[k].end

\* process_options() makes of SACK blocks in any order, which may overlap, disjoint
\* ones in order that cover the same octets.
BlocksSound(A) ==
    \A j \in DOMAIN A : LET b == A[j].sack IN
        /\ \A i \in 1 .. Len(b) - 1 : b[i][2] < b[i + 1][1]
        /\ UNION {x[1] .. x[2] - 1 : x \in Range(b)} = UNION {x[1] .. x[2] - 1 : x \in Range(A[j].told)}

\* Whatever was lost, repeated and reordered, also acknowledgements: what the hosts
\* acknowledged, from the first octet that was seen, is in a packet that find_delivered() calls delivered, and what such
\* a packet holds was received.
DeliveredSound(r) ==
    /\ \A j \in DOMAIN r.acks : \A o \in Covered(r.acks[j]) : o >= 0 => \E k \in r.delivered : o \in Octets(r.data[k])
    /\ \A k \in r.delivered : \A o \in Octets(r.data[k]) : o >= 0 =>
          \E j \in DOMAIN r.acks : \E i \in r.acks[j].heard : o \in Octets(r.data[i])

\* The acknowledgement that a packet is said to have caused was sent after the packet
\* had arrived, if its last octet was sent once.  (When it was sent again, without
\* other packets in between, find_true_caused_acks() does not notice: attach_packet()
\* calls only the packets after the first one NONORDERED.)
CausedSound(r) ==
    \A k \in DOMAIN r.data : r.caused[k] # 0 =>
        \/ k \in r.acks[r.caused[k]].heard
        \/ \E i \in DOMAIN r.data \ {k} : r.data[k].end - 1 \in Octets(r.data[i])

\* What TCPCollector keeps and TCPMystery finds.
CollectorSound ==
    /\ RecordsSound
    /\ coll.report # <<>> => LET r == coll.report[1] IN
          CategoriesSound(r.data) /\ BlocksSound(r.acks) /\ DeliveredSound(r) /\ CausedSound(r)
=============================================================================
