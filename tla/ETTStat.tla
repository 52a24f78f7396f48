------------------------------- MODULE ETTStat ------------------------------
(***************************************************************************)
(* ETTStat with ETTMetric and TXCountMetric (roofnet/sr) at both ends of a *)
(* link: each end sends probes of its types in turn, counts those it hears *)
(* and tells the other end what it heard.                                  *)
(*                                                                         *)
(* A step is the next timer of an end that expires; time passes until then *)
(* in the units of _period and _tau.  LinkTable belongs to Click: the      *)
(* metrics handed to it for the way to the neighbor are kept instead.      *)
(***************************************************************************)
EXTENDS Integers, Sequences, FiniteSets

CONSTANTS End,          \* the two ends of the link
          NumTypes,     \* types of probes; type 1 is the small one of ETTMetric
          LongPeriod, LongTau,      \* PERIOD and TAU
          Periods, Taus,            \* values written to the handlers
          JitterPart,   \* a slot is off by a part of so many at most: 10 in the code
          Draws,        \* bound: what an end draws of that, [End -> SUBSET {-1, 0, 1}]
          Slack,        \* what is kept beyond _tau: 1 s, and what rounding to seconds adds
          MaxQuiet,     \* bound: time that is counted
          MaxLostProbes \* bound: losses, resets and other disturbances

Types == 1 .. NumTypes

ASSUME ETTStatAssumption ==
    /\ \E a, b \in End : a # b /\ End = {a, b}
    /\ {NumTypes, LongPeriod, LongTau, JitterPart} \subseteq Nat \ {0}
    /\ Periods \cup Taus \subseteq Nat \ {0}
    /\ \A n \in End : Draws[n] \subseteq {-1, 0, 1}
    /\ Slack \in Nat /\ MaxQuiet \in Nat /\ MaxLostProbes \in Nat

VARIABLES ett,          \* the element of each end
          due,          \* time until its timer expires
          lossless,     \* time since a probe was lost, or a type left out
          steady,       \* time since anything was disturbed
          disturbances

ettVars == <<ett, due, lossless, steady, disturbances>>

Capped(t) == IF t < MaxQuiet THEN t ELSE MaxQuiet
OtherEnd(n) == CHOOSE m \in End : m # n

\* probe_list_t
NoProbes == [probes |-> <<>>, types |-> <<>>, fwd |-> [t \in Types |-> 0],
             sent |-> 0, num |-> 1, period |-> LongPeriod, tau |-> LongTau, last_rx |-> 0]

\* ETTStat::ETTStat() and reset() of initialize(); _ads_rs is 1 .. ads
NewETTStat ==
    [period |-> LongPeriod, tau |-> LongTau, ads |-> NumTypes, start |-> 0, sent |-> 0, next |-> 1,
     neighbor |-> FALSE, list |-> NoProbes, etx |-> 9999, ett |-> 0, aborted |-> FALSE]

\* initialize(): add_jitter() makes the first probe late, or it is due at once
ETTStatInit ==
    /\ ett = [n \in End |-> NewETTStat]
    /\ due \in {d \in [End -> {0, LongPeriod \div JitterPart}] : \A n \in End : d[n] > 0 => 1 \in Draws[n]}
    /\ lossless = 0 /\ steady = 0 /\ disturbances = 0

-----------------------------------------------------------------------------
\* probes of a type within _tau
Heard(l, t) ==
    Cardinality({i \in 1 .. Len(l.probes) : l.probes[i].type = t /\ l.probes[i].age <= l.tau})

Least(S) == CHOOSE x \in S : \A y \in S : x <= y

\* Mutant of rev_rate(): the probes expected do not depend on how many the
\* sender has sent.
num_expected_all(e) ==
    LET n == Least({e.list.tau, e.start}) \div e.list.period
    IN  IF n = 0 THEN 1 ELSE n

\* rev_rate(): the probes of one type that should have been heard
num_expected(e) ==
    LET n == Least({Least({e.list.tau, e.start}) \div e.list.period, e.list.sent \div e.list.num})
    IN  IF n = 0 THEN 1 ELSE n

rev_rate(e, t) == Least({100, (100 * Heard(e.list, t)) \div num_expected(e)})

Known(ts, t) == \E i \in DOMAIN ts : ts[i] = t

fwd_rate(e, t) ==
    IF e.list.last_rx > e.list.tau \/ ~Known(e.list.types, t) THEN 0 ELSE e.list.fwd[t]

\* TXCountMetric::update_link(): the first of the types counts
TXCountMetric_update_link(ts, fwd, rev) ==
    IF ts = <<>> \/ fwd[ts[1]] = 0 \/ rev[ts[1]] = 0 THEN 9999
    ELSE 1000000 \div (fwd[ts[1]] * rev[ts[1]])

\* ett_metric(), with transmissions (percent) for microseconds
ett_metric(ack, data) == IF ack = 0 \/ data = 0 THEN 0 ELSE 1000000 \div (ack * data)

\* ETTMetric::update_link(): the forward metric, or what it was
ETTMetric_update_link(was, ts, fwd, rev) ==
    LET ackF == IF Known(ts, 1) THEN fwd[1] ELSE 0
        ackR == IF Known(ts, 1) THEN rev[1] ELSE 0
        M    == {IF ackR < 30 \/ fwd[t] < 30 THEN 999999 ELSE ett_metric(ackR, fwd[t])
                   : t \in {ts[i] : i \in DOMAIN ts} \ {1}}
    IN  IF (ackF = 0 /\ ackR = 0) \/ M = {} THEN was ELSE Least(M)

\* ETTStat::update_link()
Stat_update_link(e, ts, fwd, rev) ==
    [e EXCEPT !.etx = TXCountMetric_update_link(ts, fwd, rev),
              !.ett = ETTMetric_update_link(@, ts, fwd, rev)]

\* the probe of send_probe(), with the entry for the neighbor
Probe(e) ==
    [type |-> e.next, period |-> e.period, tau |-> e.tau, sent |-> Capped(e.sent + 1), num |-> e.ads,
     types |-> e.list.types,
     fwd |-> [t \in Types |-> fwd_rate(e, t)], rev |-> [t \in Types |-> rev_rate(e, t)]]

\* what send_probe() does to its own end
send_probe(e) ==
    LET s == [e EXCEPT !.next = (@ % e.ads) + 1, !.sent = Capped(@ + 1)]
    IN  IF e.neighbor THEN Stat_update_link(s, e.list.types, Probe(e).fwd, Probe(e).rev) ELSE s

\* the trailing loop of simple_action() that pops old probes from the front
Keep(l) ==
    LET n     == Len(l.probes)
        stops == {i \in 1 .. n + 1 : i > n \/ l.probes[i].age <= l.tau + Slack}
    IN  SubSeq(l.probes, Least(stops), n)

\* the list after simple_action() has counted probe p
CountProbe(e, p) ==
    LET l     == IF e.neighbor THEN e.list ELSE [NoProbes EXCEPT !.period = p.period, !.tau = p.tau]
        clear == l.period # p.period \/ l.tau # p.tau \/ p.sent < l.sent
        new   == Append(IF clear THEN <<>> ELSE l.probes, [type |-> p.type, age |-> 0])
        l2    == [l EXCEPT !.probes = new, !.period = p.period, !.tau = p.tau, !.sent = p.sent,
                           !.num = p.num, !.last_rx = 0,
                           !.types = IF Known(@, p.type) THEN @ ELSE Append(@, p.type)]
    IN  [e EXCEPT !.neighbor = TRUE, !.list = [l2 EXCEPT !.probes = Keep(l2)]]

\* simple_action(): the entry the probe has for this end.  As reverse rate of
\* the link it takes what it hears of the sender itself.
simple_action(e, p) ==
    LET c == CountProbe(e, p)
        d == [c EXCEPT !.list.fwd = [t \in Types |-> IF Known(p.types, t) /\ Known(c.list.types, t)
                                                     THEN p.rev[t] ELSE @[t]]]
    IN  IF p.types = <<>> THEN c
        ELSE Stat_update_link(d, p.types, p.fwd, [t \in Types |-> rev_rate(c, t)])

\* an end after some time
Aged(q, time) == [i \in 1 .. Len(q) |-> [q[i] EXCEPT !.age = Capped(@ + time)]]
Older(e, time) ==
    [e EXCEPT !.start = Capped(@ + time), !.list.last_rx = Capped(@ + time), !.list.probes = Aged(@, time)]

\* what is counted of the time that passes, and of losses
Passed(time, lost, unheard) ==
    /\ lost => disturbances < MaxLostProbes
    /\ disturbances' = IF lost THEN disturbances + 1 ELSE disturbances
    /\ lossless' = IF unheard THEN 0 ELSE Capped(lossless + time)
    /\ steady' = IF unheard THEN 0 ELSE Capped(steady + time)

\* run_timer(): the next slot of end e; add_jitter() moves it either way
Slot(e) == e.period \div e.ads
Jitters(n, e) == {s * (Slot(e) \div JitterPart) : s \in Draws[n]}

\* the timer of n is the next to expire
Expires(n) ==
    /\ ~ett[n].aborted
    /\ ett[OtherEnd(n)].aborted \/ due[n] <= due[OtherEnd(n)]
Rest(n, m) == IF due[m] < due[n] THEN 0 ELSE due[m] - due[n]

\* run_timer() of n, and what becomes of its probe
Stat_run_timer(n, lost) ==
    LET m    == OtherEnd(n)
        from == Older(ett[n], due[n])
        to   == Older(ett[m], due[n])
    IN  /\ Expires(n) /\ from.next <= from.ads
        /\ \E j \in Jitters(n, from) : due' = [x \in End |-> IF x = n THEN Slot(from) + j ELSE Rest(n, m)]
        /\ ett' = [x \in End |-> IF x = n THEN send_probe(from)
                                 ELSE IF lost \/ to.aborted THEN to
                                 ELSE simple_action(to, Probe(from))]
        /\ Passed(due[n], lost, lost \/ to.aborted)

\* send_probe() after `probes' has made the list shorter than the position in it:
\* the index of Vector fails an assertion
Stat_abort(n) ==
    LET m == OtherEnd(n)
    IN  /\ Expires(n) /\ ett[n].next > ett[n].ads
        /\ due' = [x \in End |-> IF x = n THEN 0 ELSE Rest(n, m)]
        /\ ett' = [x \in End |-> IF x = n THEN [Older(ett[n], due[n]) EXCEPT !.aborted = TRUE]
                                 ELSE Older(ett[m], due[n])]
        /\ Passed(due[n], FALSE, TRUE)

Disturb(n, e, unlike) ==
    /\ disturbances < MaxLostProbes /\ ~ett[n].aborted
    /\ disturbances' = disturbances + 1
    /\ ett' = [ett EXCEPT ![n] = e]
    /\ steady' = 0 /\ lossless' = IF unlike THEN 0 ELSE lossless
    /\ UNCHANGED due

\* reset() keeps what was configured and _ads_rs_index, and the tables of others
\* their metrics
Stat_reset(e) ==
    [e EXCEPT !.start = 0, !.sent = 0, !.neighbor = FALSE, !.list = NoProbes]

\* write_param(): `reset'; `tau', which without a break is taken for the period as
\* well, and `period', both of which are then refused as a list of probes; `probes'
Stat_write_param(n) ==
    \/ Disturb(n, Stat_reset(ett[n]), FALSE)
    \/ \E m \in Taus : Disturb(n, Stat_reset([ett[n] EXCEPT !.tau = m, !.period = m]), FALSE)
    \/ \E m \in Periods : Disturb(n, Stat_reset([ett[n] EXCEPT !.period = m]), FALSE)
    \/ \E k \in Types : Disturb(n, [ett[n] EXCEPT !.ads = k], TRUE)

\* take_state(): all but what is configured, and the position in the list of types
Stat_take_state(n) ==
    Disturb(n, [ett[n] EXCEPT !.next = 1, !.period = LongPeriod, !.tau = LongTau, !.ads = NumTypes], TRUE)

ETTStatNext ==
    \E n \in End : \/ \E lost \in BOOLEAN : Stat_run_timer(n, lost)
                   \/ Stat_abort(n) \/ Stat_write_param(n) \/ Stat_take_state(n)

-----------------------------------------------------------------------------
(* SR2ETTStat of roofnet/sr2 takes the same steps: it gives its sequence   *)
(* numbers, which only LinkTable compares, in network order, and counts    *)
(* the delay of run_timer() from the time it runs at.                      *)

SR2ETTStat_send_probe(e) == send_probe(e)
SR2ETTStat_simple_action(e, p) == simple_action(e, p)
SR2ETTStat_run_timer(n, lost) == Stat_run_timer(n, lost)
SR2ETTStat_write_param(n) == Stat_write_param(n)
SR2ETTStat_take_state(n) == Stat_take_state(n)

-----------------------------------------------------------------------------
ETTTypeOK ==
    /\ \A n \in End : /\ ett[n].next \in Types /\ ett[n].neighbor \in BOOLEAN
                      /\ ett[n].list.fwd \in [Types -> 0 .. 100]
                      /\ ett[n].etx \in Nat /\ ett[n].ett \in Nat
                      /\ \A i \in 1 .. Len(ett[n].list.probes) : ett[n].list.probes[i].type \in Types
    /\ due \in [End -> Nat] /\ lossless \in 0 .. MaxQuiet /\ steady \in 0 .. MaxQuiet

\* percent, when one of the probes expected within _tau is missing
AllButOne(e) == LET N == e.tau \div e.period IN (100 * (N - 1)) \div N
Sent(e) == 1 .. e.ads
KnowsSent(e, o) == {e.list.types[i] : i \in DOMAIN e.list.types} = Sent(o)

\* Where _tau is JitterPart + 1 periods at most, as with the defaults (10 of them),
\* jitter hides one probe and no more: while none is lost for the time the ends
\* average over, of the probes that an end expects of each type the other one sends
\* it has counted all but one, although either end may have been reset or given another
\* period, averaging time or list of types in between.  And when nothing was
\* disturbed for that time and a period, both ends know what the other hears, and
\* both metrics are those of such a link.
LosslessMissesOne ==
    LET Longest == CHOOSE t \in {LongTau} \cup Taus : \A u \in {LongTau} \cup Taus : u <= t
    IN  \A n \in End :
          LET e == ett[n]
              o == ett[OtherEnd(n)]
              worst == Least({AllButOne(e), AllButOne(o)})
          IN  /\ lossless > Longest /\ ~e.aborted =>
                   \A t \in 1 .. e.list.num : Known(e.list.types, t) =>
                      num_expected(e) - Heard(e.list, t) <= 1
              /\ steady >= Longest + LongPeriod /\ ~e.aborted /\ ~o.aborted =>
                   /\ \A t \in Sent(e) \cap Sent(o) : fwd_rate(e, t) >= AllButOne(e)
                   /\ worst > 0 /\ KnowsSent(e, o) /\ KnowsSent(o, e) =>
                         /\ e.etx * worst * worst <= 1000000
                         /\ NumTypes \in Sent(e) \cap Sent(o) => e.ett * worst * worst <= 1000000
=============================================================================
