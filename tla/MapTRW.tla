------------------------------- MODULE MapTRW -------------------------------
(***************************************************************************)
(* Scan detection (security: MapTRW): a host that tries to reach others    *)
(* and is not answered is counted up, one that is answered is counted      *)
(* down, and at block_count its new attempts are dropped.                  *)
(*                                                                         *)
(* All hosts are on the LAN and share one set of the table of addresses;   *)
(* rc5 is a permutation and no two connections share a record of the       *)
(* connection table.  Two hosts use one port.  A kind of packet is what    *)
(* block_policy() and valid_ack() make of it.  Minutes are kept in a byte  *)
(* (ClockMod values) and counts in a signed one (-CountMod .. CountMod-1). *)
(* Clients only try one thing at a time, and hosts answer within a minute. *)
(***************************************************************************)
EXTENDS Integers, FiniteSets, Sequences, FiniteMaps

CONSTANTS Host,         \* addresses
          Client,       \* hosts that only talk to hosts that answer
          Talks,        \* who sends packets to whom
          Side,         \* the port of MapTRW behind which a host is: [Host -> {0, 1}]
          ip_table_assoc, ip_table_block_count, ip_table_max_count, ip_table_min_count,
          ip_table_incr_age, ip_table_decr_age, con_table_maxage,
          ClockMod, CountMod,
          MaxArps,      \* ARP requests, and replies no client waits for, in a behaviour
          MaxMinutes    \* minutes after the byte has wrapped

\* the check of configure()
ASSUME TRWAssumption ==
    /\ ip_table_block_count \in 1 .. ip_table_max_count /\ ip_table_max_count < CountMod
    /\ -CountMod < ip_table_min_count /\ ip_table_min_count < 0
    /\ MaxMinutes \in 1 .. ClockMod - 1
    /\ {ip_table_incr_age, ip_table_decr_age, con_table_maxage} \subseteq 1 .. (ClockMod \div 2 - 1)

VARIABLES ip_table,     \* records of addresses: tag, count, timestamp
          con_table,    \* <<from, to, protocol>> -> flags and timestamp
          arp_map,      \* the port a host was seen on, -1 when it was not
          last_time,    \* minutes, as the byte that is compared
          waits,        \* whom a client tries to reach: [Client -> SUBSET (Host \X {"ip", "arp"})]
          met,          \* hosts that have sent data to a client
          refused,      \* the hosts whose last packet was dropped
          arps

trwVars == <<ip_table, con_table, arp_map, last_time, waits, met, refused, arps>>

Invalid == -CountMod
Byte(n) == ((n + CountMod) % (2 * CountMod)) - CountMod
NoTag == "none"

\* configure(); the time is the one of the first packet, here the last before it wraps
TRWInit ==
    /\ ip_table = [i \in 1 .. ip_table_assoc |-> [tag |-> NoTag, count |-> Invalid, timestamp |-> 0]]
    /\ con_table = <<>>
    /\ arp_map = [h \in Host |-> -1]
    /\ last_time = ClockMod - 1 /\ waits = [c \in Client |-> {}] /\ met = {} /\ refused = {} /\ arps = 0

-----------------------------------------------------------------------------
\* find_ip(): the aging of one record; a positive count ages by decr_age but
\* its timestamp moves by incr_age
RECURSIVE Aged(_)
Aged(r) ==
    LET age == last_time - r.timestamp
        later == (r.timestamp + ip_table_incr_age) % ClockMod
    IN  IF r.count < 0 /\ age > ip_table_incr_age
        THEN Aged([r EXCEPT !.timestamp = later, !.count = @ + 1])
        ELSE IF r.count > 0 /\ age > ip_table_decr_age
        THEN Aged([r EXCEPT !.timestamp = later, !.count = @ - 1])
        ELSE r

\* find_ip(): the record of h, a free one, or the one with the least count
Slot(t, h) ==
    LET mine == {i \in DOMAIN t : t[i].tag = h}
        free == {i \in DOMAIN t : t[i].count = Invalid}
        least == {i \in DOMAIN t : \A j \in DOMAIN t : t[i].count <= t[j].count}
        S == IF mine # {} THEN mine ELSE IF free # {} THEN free ELSE least
    IN  CHOOSE i \in S : \A j \in S : i <= j
find_ip(t, h) ==
    LET fresh == [tag |-> h, count |-> 0, timestamp |-> last_time]
    IN  [t EXCEPT ![Slot(t, h)] = IF @.tag # h \/ @.count = Invalid THEN fresh ELSE Aged(@)]
SetCount(t, i, n) == [t EXCEPT ![i] = [@ EXCEPT !.count = Byte(n), !.timestamp = last_time]]
Least(n) == IF n < ip_table_min_count THEN ip_table_min_count ELSE n
Most(n) == IF n > ip_table_max_count THEN ip_table_max_count ELSE n

\* find_con(): a record that was idle is cleared
find_con(c, k) ==
    Put(c, k, [status |-> IF k \notin DOMAIN c \/ last_time - c[k].timestamp >= con_table_maxage THEN {}
                          ELSE c[k].status,
               timestamp |-> last_time])

\* what is kept of the connections: a record without flags is as good as none
Settled(c) == Drop(c, {k \in DOMAIN c : c[k].status = {}})

\* passive_update_map_ip(), passive_update_map_arp()
passive_update_map(s) == arp_map' = [arp_map EXCEPT ![s] = Side[s]]
supress_broadcast(s, d) == arp_map'[d] = Side[s]

-----------------------------------------------------------------------------
\* what push() does to the records of the addresses, at i for s and at k for d,
\* and of the connection, and whether it drops.  The lookup of d may have evicted
\* the record that was made for s, so that i = k.
Add(c, k, f) == [c EXCEPT ![k].status = @ \cup f]
Established(c, s, d) == Add(Add(c, <<s, d, "ip">>, {1}), <<d, s, "ip">>, {2})
Verdict(t, i, k, c, s, d, kind) ==
    LET there == c[<<s, d, "ip">>].status
        back  == c[<<d, s, "ip">>].status
        blocked == t[i].count >= ip_table_block_count
        same == [t |-> t, c |-> c, drop |-> FALSE]
        up == SetCount(t, i, Most(Byte(t[i].count + 1)))
    IN  IF 1 \in there
        THEN IF blocked /\ kind = "syn" THEN [same EXCEPT !.drop = TRUE]
             ELSE [same EXCEPT !.c[<<d, s, "ip">>].status = IF 2 \in @ THEN @ ELSE {}]
        ELSE IF 1 \in back
        THEN IF kind = "rst" THEN same
             ELSE [same EXCEPT !.t = IF 2 \in back THEN t ELSE SetCount(t, k, Least(Byte(t[k].count - 2))),
                               !.c = Established(c, s, d)]
        ELSE IF 4 \in back THEN same
        ELSE IF ~blocked THEN [t |-> up, c |-> Established(c, s, d), drop |-> FALSE]
        ELSE IF 4 \in there THEN [same EXCEPT !.drop = TRUE]
        ELSE [t |-> up, c |-> Add(c, <<s, d, "ip">>, {4}), drop |-> TRUE]

\* Mutant of Push(): the answer is taken off the count of the host that answers.
Push_answerer(s, d, kind) ==
    LET t0 == find_ip(ip_table, s)
        t == find_ip(t0, d)
        c == find_con(find_con(con_table, <<s, d, "ip">>), <<d, s, "ip">>)
        v == Verdict(t, Slot(t0, s), Slot(t0, s), c, s, d, kind)
    IN  /\ passive_update_map(s)
        /\ IF supress_broadcast(s, d)
           THEN UNCHANGED <<ip_table, con_table>> /\ refused' = {}
           ELSE ip_table' = v.t /\ con_table' = Settled(v.c) /\ refused' = IF v.drop THEN {s} ELSE {}
Push(s, d, kind) ==
    LET t0 == find_ip(ip_table, s)
        t == find_ip(t0, d)
        c == find_con(find_con(con_table, <<s, d, "ip">>), <<d, s, "ip">>)
        v == Verdict(t, Slot(t0, s), Slot(t, d), c, s, d, kind)
    IN  /\ passive_update_map(s)
        /\ IF supress_broadcast(s, d)
           THEN UNCHANGED <<ip_table, con_table>> /\ refused' = {}
           ELSE ip_table' = v.t /\ con_table' = Settled(v.c) /\ refused' = IF v.drop THEN {s} ELSE {}

\* push() of an IP packet: a client tries to reach d, or goes on when d has
\* answered; another host sends what it likes
TRW_push(s, d, kind) ==
    /\ s \in Client => waits[s] = {} /\ (kind = "syn" \/ (kind = "data" /\ d \in met))
    /\ Push(s, d, kind)
    /\ waits' = [c \in Client |-> IF c = s THEN {<<d, "ip">>}
                                  ELSE IF c = d /\ kind = "data" THEN waits[c] \ {<<s, "ip">>}
                                  ELSE waits[c]]
    /\ met' = IF d \in Client /\ kind = "data" THEN met \cup {s} ELSE met
    /\ UNCHANGED <<last_time, arps>>

\* handle_arp() of a request and of a reply; `from' is who has asked
arp_request(s, d) ==
    LET t == find_ip(ip_table, s)
        c == find_con(con_table, <<s, d, "arp">>)
        status == c[<<s, d, "arp">>].status
        Counted(f) == /\ ip_table' = [t EXCEPT ![Slot(t, s)].count = Byte(@ + 1)]
                      /\ con_table' = Add(c, <<s, d, "arp">>, {f})
    IN  /\ arps < MaxArps /\ arps' = arps + 1
        /\ s \in Client => waits[s] = {}
        /\ passive_update_map(s)
        /\ IF supress_broadcast(s, d) THEN UNCHANGED <<ip_table, con_table>> /\ refused' = {}
           ELSE IF 1 \in status THEN ip_table' = t /\ con_table' = Settled(c) /\ refused' = {}
           ELSE IF t[Slot(t, s)].count < ip_table_block_count THEN Counted(1) /\ refused' = {}
           ELSE /\ refused' = {s}
                /\ IF 4 \in status THEN ip_table' = t /\ con_table' = Settled(c) ELSE Counted(4)
        /\ waits' = [w \in Client |-> IF w = s THEN {<<d, "arp">>} ELSE waits[w]]
        /\ UNCHANGED <<last_time, met>>
arp_reply(s, from) ==
    LET k == <<from, s, "arp">>
        t == find_ip(ip_table, from)
        c == find_con(con_table, k)
        seen == 2 \in c[k].status
        asked == from \in Client /\ <<s, "arp">> \in waits[from]
    IN  /\ s \notin Client
        /\ IF asked THEN UNCHANGED arps ELSE arps < MaxArps /\ arps' = arps + 1
        /\ passive_update_map(s)
        /\ ip_table' = IF seen THEN t ELSE [t EXCEPT ![Slot(t, from)].count = Byte(@ - 1)]
        /\ con_table' = Add(c, k, {2})
        /\ refused' = {}
        /\ waits' = [w \in Client |-> IF w = from THEN waits[w] \ {<<s, "arp">>} ELSE waits[w]]
        /\ UNCHANGED <<last_time, met>>

\* push() sets last_time from the timestamp of the packet
Minute ==
    /\ \A c \in Client : waits[c] = {}
    /\ (last_time + 1) % ClockMod < MaxMinutes
    /\ last_time' = (last_time + 1) % ClockMod
    /\ UNCHANGED <<ip_table, con_table, arp_map, waits, met, refused, arps>>

TRWNext ==
    \/ \E <<s, d>> \in Talks : \/ \E kind \in {"syn", "data", "rst"} : TRW_push(s, d, kind)
                              \/ arp_request(s, d) \/ arp_reply(s, d)
    \/ Minute

-----------------------------------------------------------------------------
TRWTypeOK ==
    /\ \A i \in DOMAIN ip_table : ip_table[i].count \in Invalid .. ip_table_max_count + MaxArps
    /\ \A i, j \in DOMAIN ip_table : ip_table[i].tag = ip_table[j].tag => i = j \/ ip_table[i].tag = NoTag
    /\ last_time \in 0 .. ClockMod - 1

\* A client whose attempts are answered is never taken for a scanner: none of its
\* packets is dropped, although counts age in a byte that wraps, records of
\* connections are cleared in the middle of a conversation, and scanners send it
\* packets of their own; this where the table has room for all addresses, and for
\* one reply at most that nobody has asked for (MaxArps = 1).  With several it fails:
\* handle_arp() takes them off the count, which ages back to zero, and does not
\* count the answers that follow.
AnsweredIsNeverDropped == ip_table_assoc >= Cardinality(Host) => refused \cap Client = {}
=============================================================================
