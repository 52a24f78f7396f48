------------------------------ MODULE Netflow -------------------------------
(***************************************************************************)
(* NetFlow and IPFIX: NetflowExport counts flows and reports them, and     *)
(* NetflowPrint reads reports with the templates of a NetflowTemplateCache.*)
(*                                                                         *)
(* AggregateIPFlows is external: it announces an aggregate, passes each of *)
(* its packets on, and ends it.  The reports of NetflowExport travel by    *)
(* UDP (lost, reordered); exporters of other makers keep their order, and  *)
(* announce, use, withdraw and replace templates.  A template is its       *)
(* fields with their lengths; `var' is the length of a field that has no   *)
(* fixed one.  What a record holds is known by the template that wrote it. *)
(***************************************************************************)
EXTENDS Integers, Sequences, FiniteSets, FiniteSetsExt, FiniteMaps

CONSTANTS Agg,          \* aggregates, from 1
          FlowKinds,    \* kinds of flows: protocol, Ethernet header, next hop annotation
          Exporter,     \* other exporters, <<address, source id>>
          Layouts,      \* their templates: fixed and variable length
          TemplateIds,  \* template ids they use
          FirstId,      \* _template_id of NetflowExport
          IdMod,        \* 2^16: template ids wrap here
          MaxPackets,   \* packets of an aggregate
          MaxReports,   \* reports on their way when the next is sent
          MaxSent       \* packets of another exporter

ASSUME NetflowAssumption == Agg \subseteq Nat \ {0} /\ IdMod \in Nat \ {0} /\ FirstId \in Nat

VARIABLES exporter,     \* version, debug, big (endian), flows, sequence, arrived, reported, ended, failed
          announced,    \* templates an exporter uses at present, and what it has sent
          nfWire,       \* reports of NetflowExport on their way; in order, those of others
          cache,        \* _template_cache
          reader        \* records that were read; stuck

nfVars == <<exporter, announced, nfWire, cache, reader>>

-----------------------------------------------------------------------------
\* configure(), initialize()
NetflowInit ==
    /\ exporter \in [version : {5, 9, 10}, debug : BOOLEAN, big : BOOLEAN, flows : {<<>>}, sequence : {0},
                     arrived : {[a \in Agg |-> 0]}, reported : {[a \in Agg |-> 0]}, ended : {{}}, failed : {FALSE}]
    /\ announced = [e \in Exporter |-> [templates |-> <<>>, sent |-> 0]]
    /\ nfWire = [own |-> {}, others |-> [e \in Exporter |-> <<>>]]
    /\ cache = <<>>
    /\ reader = [records |-> {}, stuck |-> "no"]

\* Flow::Flow(): fields with their lengths; for IPFIX the ports twice
FlowFields(kind, version) ==
    {<<"protocol", 1>>, <<"tos", 1>>, <<"src", 4>>, <<"dst", 4>>}
    \cup (IF kind.eth THEN {<<"src mac", 6>>, <<"dst mac", 6>>} ELSE {})
    \cup (IF kind.hop THEN {<<"next hop", 4>>} ELSE {})
    \cup (IF kind.prot \in {"tcp", "udp"}
          THEN {<<"sport", 2>>, <<"dport", 2>>}
               \cup (IF version = 10 THEN {<<kind.prot \o "sport", 2>>, <<kind.prot \o "dport", 2>>} ELSE {})
          ELSE {})
    \cup (IF kind.prot = "tcp" THEN {<<"flags", 1>>} ELSE {})
\* send(): and the times and counters
SentFields(kind, version) ==
    FlowFields(kind, version) \cup {<<"start", 4>>, <<"end", 4>>, <<"packets", 8>>, <<"bytes", 8>>}
FieldsLength(F) == MapThenSumSet(LAMBDA f : f[2], F)
RoundUp(n) == ((n + 3) \div 4) * 4

\* NetflowData::parse(): addresses by their type, integers by their length
Parsed(f) == \/ f[1] \in {"src mac", "dst mac"} /\ f[2] = 6
             \/ f[2] \in {1, 2, 4, 8}

\* send() as asserted: each field was parsed, and ends before the end of the packet
Asserted(F) == /\ \A f \in F : Parsed(f)
               /\ FieldsLength(F) < RoundUp(4 + FieldsLength(F)) - 4

TemplateOf(F) == [fields |-> F, fixed |-> FieldsLength(F), var |-> 0]

\* send(): what it does to the flow, and the packet with template and data sets
Report(x, a) ==
    [x EXCEPT !.reported[a] = @ + x.flows[a].packets, !.flows[a].packets = 0,
              !.failed = @ \/ (x.version # 5 /\ ~Asserted(SentFields(x.flows[a].kind, x.version)))]
\* h->length is 16 bits of htonl(): 0 unless the build is big endian
Message(x, a) ==
    [version |-> x.version, id |-> (FirstId + a) % IdMod, agg |-> a, packets |-> x.flows[a].packets,
     sequence |-> x.flows[a].sequence, template |-> TemplateOf(SentFields(x.flows[a].kind, x.version)),
     lengthRight |-> x.big]

\* handle_packet() by simple_action()
Counted(x, a) == IF a \in DOMAIN x.flows THEN [x EXCEPT !.flows[a].packets = @ + 1] ELSE x
Deleted(x, a) == [x EXCEPT !.flows = Drop(@, {a})]

\* aggregate_notify(NEW_AGG), then simple_action() of the same packet; with DEBUG
\* the flow is reported and deleted at once
NewAgg(a, kind) ==
    LET x == [exporter EXCEPT !.flows = Put(@, a, [kind |-> kind, packets |-> 1, sequence |-> exporter.sequence]),
                              !.sequence = @ + 1, !.arrived[a] = 1]
    IN  /\ exporter.arrived[a] = 0 /\ ~exporter.failed
        /\ exporter' = IF x.debug THEN Counted(Deleted(Report(x, a), a), a) ELSE Counted(x, a)
        /\ nfWire' = IF x.debug THEN [nfWire EXCEPT !.own = @ \cup {Message(x, a)}] ELSE nfWire
        /\ UNCHANGED <<announced, cache, reader>>
\* simple_action()
AggPacket(a) ==
    /\ exporter.arrived[a] \in 1 .. MaxPackets - 1 /\ a \notin exporter.ended /\ ~exporter.failed
    /\ exporter' = Counted([exporter EXCEPT !.arrived[a] = @ + 1], a)
    /\ UNCHANGED <<announced, nfWire, cache, reader>>
\* aggregate_notify(DELETE_AGG)
DeleteAgg(a) ==
    /\ a \in DOMAIN exporter.flows /\ ~exporter.failed /\ Cardinality(nfWire.own) <= MaxReports
    /\ exporter' = [Deleted(Report(exporter, a), a) EXCEPT !.ended = @ \cup {a}]
    /\ nfWire' = [nfWire EXCEPT !.own = @ \cup {Message(exporter, a)}]
    /\ UNCHANGED <<announced, cache, reader>>
\* run_timer() with INTERVAL
Netflow_run_timer ==
    /\ DOMAIN exporter.flows # {} /\ ~exporter.failed /\ Cardinality(nfWire.own) <= MaxReports
    /\ exporter' = FoldSet(LAMBDA a, x : Report(x, a), exporter, DOMAIN exporter.flows)
    /\ nfWire' = [nfWire EXCEPT !.own = @ \cup {Message(exporter, a) : a \in DOMAIN exporter.flows}]
    /\ UNCHANGED <<announced, cache, reader>>

-----------------------------------------------------------------------------
\* other exporters: a packet with one set
Publish(e, m) ==
    /\ announced[e].sent < MaxSent
    /\ nfWire' = [nfWire EXCEPT !.others[e] = Append(@, m)]
    /\ UNCHANGED <<exporter, cache, reader>>
Announce(e, id, layout) ==
    /\ Publish(e, [set |-> "template", id |-> id, template |-> layout])
    /\ announced' = [announced EXCEPT ![e].templates = Put(@, id, layout), ![e].sent = @ + 1]
Withdraw(e, id) ==
    /\ id \in DOMAIN announced[e].templates
    /\ Publish(e, [set |-> "withdraw", id |-> id])
    /\ announced' = [announced EXCEPT ![e].templates = Drop(@, {id}), ![e].sent = @ + 1]
WithdrawAll(e) ==
    /\ DOMAIN announced[e].templates # {}
    /\ Publish(e, [set |-> "withdraw all", id |-> 2])
    /\ announced' = [announced EXCEPT ![e].templates = <<>>, ![e].sent = @ + 1]
Data(e, id, n) ==
    /\ id \in DOMAIN announced[e].templates
    /\ Publish(e, [set |-> "data", id |-> id, template |-> announced[e].templates[id], n |-> n])
    /\ announced' = [announced EXCEPT ![e].sent = @ + 1]

-----------------------------------------------------------------------------
Empty == [fields |-> {}, fixed |-> 0, var |-> 0]
\* Mutant of CacheKey(): the source id is left out.
CacheKey_address(e, id) == <<e[1], 0, id>>
\* Netflow_Template_Key, insert(), findp()
CacheKey(e, id) == <<e[1], e[2], id>>
insert(c, e, id, t) == Put(c, CacheKey(e, id), t)

\* remove(): of one template; of those of a source, in a loop that goes on from an
\* element that is freed, so that only the first of them is sure to go
remove(c, e, id) == Drop(c, {CacheKey(e, id)})
OfSource(c, e) == {k \in DOMAIN c : k[1] = e[1] /\ k[2] = CacheKey(e, 0)[2]}
remove_all(c, e) ==
    IF OfSource(c, e) = {} THEN {c}
    ELSE {Drop(c, S) : S \in SUBSET OfSource(c, e) \ {{}}}

\* NetflowTemplatePacket(): a template set; what is withdrawn is entered again, empty
TemplateSet(e, m) ==
    CASE m.set = "template" -> {insert(cache, e, m.id, m.template)}
      [] m.set = "withdraw" -> {insert(remove(cache, e, m.id), e, m.id, Empty)}
      [] m.set = "withdraw all" -> {insert(c, e, m.id, Empty) : c \in remove_all(cache, e)}

\* a data set of n records written with template w, read with template t.  The
\* length that is left counts the header of the set, too; the length of a
\* variable field stays in the length of the records that follow, so that the
\* second may be longer than what is left, which wraps
RecordLength(t) == t.fixed + (IF t.var > 0 THEN 1 + t.var ELSE 0)
SetLength(w, n) == 4 + n * RecordLength(w)
Overruns(t, w, n) ==
    /\ t.var > 0 /\ SetLength(w, n) >= 2 * RecordLength(t)
    /\ SetLength(w, n) - RecordLength(t) < RecordLength(t) + 1 + t.var
Stuck(t, w, n) == IF RecordLength(t) = 0 THEN "loop" ELSE IF Overruns(t, w, n) THEN "overrun" ELSE "no"
RecordsRead(t, w, n) == IF t.var > 0 THEN n ELSE SetLength(w, n) \div RecordLength(t)

\* simple_action() of NetflowPrint: a packet of another exporter
NetflowPrint_other(e) ==
    LET m == Head(nfWire.others[e])
        key == CacheKey(e, m.id)
    IN  /\ nfWire.others[e] # <<>> /\ reader.stuck = "no"
        /\ nfWire' = [nfWire EXCEPT !.others[e] = Tail(@)]
        /\ IF m.set # "data" THEN cache' \in TemplateSet(e, m) /\ UNCHANGED reader
           ELSE /\ reader' = IF key \notin DOMAIN cache THEN reader
                             ELSE LET t == cache[key]
                                      s == Stuck(t, m.template, m.n)
                                  IN  [records |-> IF s = "no"
                                                   THEN reader.records \cup
                                                        {[as |-> t, wrote |-> m.template, n |-> m.n,
                                                          read |-> RecordsRead(t, m.template, m.n)]}
                                                   ELSE reader.records,
                                       stuck |-> s]
                /\ UNCHANGED cache
        /\ UNCHANGED <<exporter, announced>>

\* netflow_packet(): IPFIX packets that say they are shorter than a header are none
Accepted(m) == m.version = 10 => m.lengthRight
\* a report of NetflowExport, which holds its template before its data
NetflowPrint_own(m) ==
    LET e == <<"exporter", 0>>
    IN  /\ m \in nfWire.own /\ reader.stuck = "no"
        /\ nfWire' = [nfWire EXCEPT !.own = @ \ {m}]
        /\ IF m.version = 5 \/ ~Accepted(m) THEN UNCHANGED <<cache, reader>>
           ELSE /\ cache' = insert(cache, e, m.id, m.template)
                /\ reader' = [reader EXCEPT !.records = @ \cup
                                {[as |-> cache'[CacheKey(e, m.id)], wrote |-> m.template, n |-> 1,
                                  read |-> RecordsRead(m.template, m.template, 1)]}]
        /\ UNCHANGED <<exporter, announced>>
LoseReport(m) ==
    /\ nfWire' = [nfWire EXCEPT !.own = @ \ {m}] /\ UNCHANGED <<exporter, announced, cache, reader>>

-----------------------------------------------------------------------------
NetflowNext ==
    \/ \E a \in Agg : AggPacket(a) \/ DeleteAgg(a) \/ \E kind \in FlowKinds : NewAgg(a, kind)
    \/ Netflow_run_timer
    \/ \E m \in nfWire.own : NetflowPrint_own(m) \/ LoseReport(m)
TemplatesNext ==
    \E e \in Exporter :
       \/ NetflowPrint_other(e) \/ WithdrawAll(e)
       \/ \E id \in TemplateIds :
             Withdraw(e, id) \/ (\E layout \in Layouts : Announce(e, id, layout)) \/ \E n \in 1 .. 2 : Data(e, id, n)

NetflowTypeOK ==
    /\ exporter.version \in {5, 9, 10} /\ DOMAIN exporter.flows \subseteq Agg /\ exporter.failed \in BOOLEAN
    /\ reader.stuck \in {"no", "loop", "overrun"}

\* What is reported of a flow, however often the timer runs in between, adds up to
\* its packets, of which the first is counted twice; no assertion of send() fails.
\* Each record is read with the template it was written with, whatever exporters
\* announce and withdraw under the same ids, and no data set is read with an
\* empty template; as many records are read as were written when a record is
\* longer than the header and the padding of a set.
NetflowSound ==
    /\ ~exporter.failed
    /\ ~exporter.debug => \A a \in DOMAIN exporter.flows :
          exporter.reported[a] + exporter.flows[a].packets = exporter.arrived[a] + 1
    /\ \A r \in reader.records : r.as = r.wrote /\ (RecordLength(r.wrote) > 7 => r.read = r.n)
    /\ reader.stuck # "loop"
=============================================================================
