-------------------------------- MODULE SNMP --------------------------------
(***************************************************************************)
(* SNMP traps: SNMPBEREncoder, which writes nested sequences whose lengths *)
(* it does not know before their end; SNMPOidTree with the names of        *)
(* SNMPOidInfo and the variables of SNMPVariableInfo; SNMPTrapSource,      *)
(* whose handler puts traps into a ring that a task empties.               *)
(***************************************************************************)
EXTENDS Integers, Sequences, SequencesExt, FiniteSets

CONSTANTS Integral,     \* integers that are encoded
          StringLengths,
          ObjectIds,    \* object identifiers that are encoded
          MaxValues, MaxPushes,
          Oids,         \* object identifiers that are defined
          Names, WellKnown, Contexts,
          MaxDefined,
          NODES_PER_GROUP,
          TrapStrings,  \* lengths of the strings in a trap
          QSIZE, MaxTraps

ASSUME SNMPAssumption == MaxTraps \in Nat /\ QSIZE \in Nat \ {0} /\ NODES_PER_GROUP \in Nat \ {0}

VARIABLES ber,          \* an SNMPBEREncoder, and what it was told
          oidinfo,      \* SNMPOidInfo, SNMPVariableInfo
          traps         \* SNMPTrapSource and its task

snmpVars == <<ber, oidinfo, traps>>

INTEGER == 2
OCTET_STRING == 4
NULL == 5
OID == 6
SEQUENCE == 48
IPADDRESS == 64
TIMETICKS == 67
V1_TRAP == 164
JUNK == -1              \* a byte that was not written

-----------------------------------------------------------------------------
\* SNMPBEREncoder.  Bytes are numbers.
NewEncoder == [sa |-> <<>>, start |-> <<>>, len_len |-> <<>>]
calculate_len_len(n) == IF n <= 127 THEN 1 ELSE IF n <= 255 THEN 2 ELSE 3
\* encode_len_by_len_len(), encode_len()
LengthBytes(n, k) == CASE k = 1 -> <<n>> [] k = 2 -> <<129, n>> [] k = 3 -> <<130, n \div 256, n % 256>>
Encoded(b, tag, bytes) ==
    [b EXCEPT !.sa = @ \o <<tag>> \o LengthBytes(Len(bytes), calculate_len_len(Len(bytes))) \o bytes]

push_sequence(b, tag) ==
    [sa |-> b.sa \o <<tag, JUNK>>, start |-> Append(b.start, Len(b.sa)), len_len |-> Append(b.len_len, 1)]
push_long_sequence(b, tag) ==
    [sa |-> b.sa \o <<tag, JUNK, JUNK, JUNK>>, start |-> Append(b.start, Len(b.sa)), len_len |-> Append(b.len_len, 3)]

\* pop_sequence(): the length is written; where it needs more room than it was
\* given the bytes move, from the byte before the first to the one before the last
Innermost(s) == s[Len(s)]
SequenceLength(b) == Len(b.sa) - (Innermost(b.start) + 1 + Innermost(b.len_len))
Grows(b) == calculate_len_len(SequenceLength(b)) > Innermost(b.len_len)
pop_sequence(b) ==
    LET start == Innermost(b.start)
        expect == Innermost(b.len_len)
        n == SequenceLength(b)
        k == IF Grows(b) THEN calculate_len_len(n) ELSE expect
        moved(p) == IF k > expect /\ p \in start + k .. start + k + n - 1 THEN b.sa[p - k + expect + 1]
                    ELSE IF p < Len(b.sa) THEN b.sa[p + 1] ELSE JUNK
    IN  [sa |-> [i \in 1 .. Len(b.sa) + k - expect |->
                   IF i - 1 \in start + 1 .. start + k THEN LengthBytes(n, k)[i - 1 - start] ELSE moved(i - 1)],
         start |-> Front(b.start), len_len |-> Front(b.len_len)]
abort_sequence(b) ==
    [sa |-> SubSeq(b.sa, 1, Innermost(b.start)), start |-> Front(b.start), len_len |-> Front(b.len_len)]

\* encode_snmp_oid(): seven bits a byte, all but the last marked; nothing is
\* written for what is not an object identifier
Groups(c) == CHOOSE k \in 1 .. 5 : (k = 5 \/ c < 128 ^ k) /\ (k > 1 => c >= 128 ^ (k - 1))
Component(c) == LET k == Groups(c)
                IN  [i \in 1 .. k |-> ((c \div 128 ^ (k - i)) % 128) + (IF i < k THEN 128 ELSE 0)]
encode_snmp_oid(b, oid) ==
    IF ~(Len(oid) >= 2 /\ (Len(oid) >= 2 => oid[1] <= 2 /\ oid[2] < 40)) THEN b
    ELSE Encoded(b, OID, <<oid[1] * 40 + oid[2]>>
                         \o FoldLeft(LAMBDA s, c : s \o Component(c), <<>>, SubSeq(oid, 3, Len(oid))))
encode_octet_string(b, tag, s) == Encoded(b, tag, s)
encode_null(b) == [b EXCEPT !.sa = @ \o <<NULL, 0>>]

\* Mutant of IntegerBytes(): the highest bit is not kept for the sign.
IntegerBytes_unsigned(y) == CHOOSE k \in 1 .. 4 : (k = 4 \/ y < 256 ^ k) /\ (k > 1 => y >= 256 ^ (k - 1))
IntegerBytes(y) == CHOOSE k \in 1 .. 4 : y \div 256 ^ (k - 1) <= 127 /\ (k > 1 => y \div 256 ^ (k - 2) > 127)
\* encode_integer()
encode_integer(b, tag, x) ==
    LET y == IF x < 0 THEN -x - 1 ELSE x
        k == IntegerBytes(y)
        byte(i) == (y \div 256 ^ (k - i)) % 256
    IN  Encoded(b, tag, [i \in 1 .. k |-> IF x < 0 THEN 255 - byte(i) ELSE byte(i)])

\* BER, to compare with: the values of the bytes from place i to place j
DecodedInteger(s) == FoldLeft(LAMBDA x, y : x * 256 + y, IF s[1] > 127 THEN s[1] - 256 ELSE s[1], Tail(s))
DecodedOid(s) ==
    FoldLeft(LAMBDA d, y : IF y >= 128 THEN [d EXCEPT !.c = @ * 128 + y - 128]
                           ELSE [oid |-> Append(d.oid, d.c * 128 + y), c |-> 0],
             [oid |-> <<s[1] \div 40, s[1] % 40>>, c |-> 0], Tail(s)).oid
RECURSIVE Decoded(_, _, _)
Decoded(s, i, j) ==
    IF i > j THEN <<>>
    ELSE LET k == IF s[i + 1] <= 127 THEN 1 ELSE s[i + 1] - 127
             n == IF k = 1 THEN s[i + 1] ELSE IF k = 2 THEN s[i + 2] ELSE s[i + 2] * 256 + s[i + 3]
             from == i + 1 + k
             content == SubSeq(s, from, from + n - 1)
             val == IF s[i] \in {SEQUENCE, V1_TRAP} THEN Decoded(s, from, from + n - 1)
                    ELSE IF s[i] = OID THEN DecodedOid(content)
                    ELSE IF s[i] \in {INTEGER, TIMETICKS} THEN <<DecodedInteger(content)>>
                    ELSE content
         IN  <<[tag |-> s[i], val |-> val]>> \o Decoded(s, from + n, j)

-----------------------------------------------------------------------------
\* SNMPOidTree.  Nodes by their number, 0 is none, node 1 is the root.
NewTree == [nodes |-> <<>>, wild |-> FALSE]
\* alloc_node(): the second group of nodes is stored in the array that is deleted
alloc_node(t, suffix, parent, sibling) ==
    LET n == Len(t.nodes) + 1
        m == Append(t.nodes, [suffix |-> suffix, parent |-> parent, sibling |-> 0, child |-> 0, data |-> -1])
        p == IF parent # 0 /\ (parent # 0 => m[parent].child = 0) THEN [m EXCEPT ![parent].child = n] ELSE m
    IN  IF Len(t.nodes) >= NODES_PER_GROUP THEN [t EXCEPT !.wild = TRUE]
        ELSE [t EXCEPT !.nodes = IF sibling # 0 THEN [p EXCEPT ![sibling].sibling = n] ELSE p]

\* among n and its siblings: the one with this suffix, or 0; the last one
RECURSIVE Sibling(_, _, _), LastSibling(_, _)
Sibling(t, n, suffix) ==
    IF n = 0 \/ (n # 0 /\ t.nodes[n].suffix = suffix) THEN n ELSE Sibling(t, t.nodes[n].sibling, suffix)
LastSibling(t, n) == IF t.nodes[n].sibling = 0 THEN n ELSE LastSibling(t, t.nodes[n].sibling)

\* find_node() and find_prefix(): the nodes along oid as far as there are any
RECURSIVE PathOf(_, _, _)
PathOf(t, oid, path) ==
    LET pos == Len(path)
        first == IF pos = 0 THEN 1 ELSE t.nodes[path[pos]].child
        n == Sibling(t, first, oid[pos + 1])
    IN  IF pos = Len(oid) \/ (pos < Len(oid) /\ n = 0) THEN path ELSE PathOf(t, oid, Append(path, n))
Path(t, oid) == IF t.nodes = <<>> \/ oid = <<>> THEN <<>> ELSE PathOf(t, oid, <<>>)
FindOidNode(t, oid) == IF oid # <<>> /\ Len(Path(t, oid)) = Len(oid) THEN Innermost(Path(t, oid)) ELSE 0
find_prefix(t, oid) ==
    LET p == Path(t, oid) IN [len |-> Len(p), data |-> IF p = <<>> THEN -1 ELSE t.nodes[Innermost(p)].data]

\* force_node(): the nodes that lack, the first of them next to a sibling
RECURSIVE force_node(_, _)
force_node(t, oid) ==
    LET p == Path(t, oid)
        pos == Len(p)
        first == IF pos = 0 THEN 1 ELSE t.nodes[p[pos]].child
        parent == IF pos = 0 THEN 0 ELSE p[pos]
    IN  IF t.wild \/ pos = Len(oid) THEN t
        ELSE IF t.nodes = <<>> THEN force_node(alloc_node(t, oid[1], 0, 0), oid)
        ELSE force_node(alloc_node(t, oid[pos + 1], parent, IF first = 0 THEN 0 ELSE LastSibling(t, first)), oid)

RECURSIVE extract_oid(_, _)
extract_oid(t, n) == IF n = 0 THEN <<>> ELSE Append(extract_oid(t, t.nodes[n].parent), t.nodes[n].suffix)

\* SNMPOidInfo::query(): the identifier in the innermost context that has it
OidEntries(o, name, context) == {i \in DOMAIN o.entries : o.entries[i].name = name /\ o.entries[i].context = context}
RECURSIVE OidQuery(_, _, _)
OidQuery(o, name, context) ==
    LET found == OidEntries(o, name, context)
    IN  IF found # {} THEN extract_oid(o.names, o.entries[CHOOSE i \in found : \A j \in found : i <= j].node)
        ELSE IF context = <<>> THEN <<>> ELSE OidQuery(o, name, Front(context))

\* SNMPOidInfo::add_info(): no name twice in a context with different values
AddName == \E name \in Names, context \in Contexts, oid \in Oids :
    LET t == force_node(oidinfo.names, oid)
        old == OidEntries(oidinfo, name, context)
        conflict == \E i \in old : extract_oid(oidinfo.names, oidinfo.entries[i].node) # oid
    IN  /\ oidinfo.defined < MaxDefined /\ ~oidinfo.names.wild
        /\ oidinfo' = [oidinfo EXCEPT
              !.defined = @ + 1,
              !.names = IF name \in WellKnown \/ conflict THEN @ ELSE t,
              !.entries = IF name \in WellKnown \/ conflict \/ t.wild THEN @
                          ELSE Append(@, [name |-> name, context |-> context, node |-> FindOidNode(t, oid), oid |-> oid])]

\* SNMPVariableInfo::add_info() with set_variable_handler(): `full' when the
\* element is initialized, not when it is configured
AddVariable == \E oid \in Oids, tag \in {INTEGER, OID}, handler \in {"h1", "h2"}, full \in BOOLEAN :
    LET t == force_node(oidinfo.vartree, oid)
        n == FindOidNode(t, oid)
        v == t.nodes[n].data
        new == Len(oidinfo.vars) + 1
        had == [tag |-> tag, node |-> n, oid |-> oid, handler |-> IF full THEN handler ELSE "none"]
    IN  /\ oidinfo.defined < MaxDefined /\ ~oidinfo.vartree.wild
        /\ oidinfo' = [oidinfo EXCEPT
              !.defined = @ + 1,
              !.vartree = IF t.wild \/ (~t.wild /\ v >= 0) THEN t ELSE [t EXCEPT !.nodes[n].data = new],
              !.vars = IF t.wild THEN @
                       ELSE IF v < 0 THEN Append(@, had)
                       ELSE IF full /\ @[v].tag = tag /\ @[v].handler = "none" THEN [@ EXCEPT ![v].handler = handler]
                       ELSE @]

\* SNMPVariableInfo::query(): the instance 0 of a variable
VarQuery(o, oid) ==
    LET f == find_prefix(o.vartree, oid)
    IN  IF f.data < 0 \/ f.len < Len(oid) - 1 \/ oid[Len(oid)] # 0 THEN -1 ELSE f.data

-----------------------------------------------------------------------------
\* SNMPVariableInfo::encode_binding(): a handler's value that is no good leaves
\* nothing behind
binding(b, v) ==
    LET s == encode_snmp_oid(push_sequence(b, SEQUENCE), Append(v.oid, 0))
    IN  CASE v.tag = INTEGER -> encode_integer(s, INTEGER, v.val[1])
          [] v.tag = OCTET_STRING -> encode_octet_string(s, OCTET_STRING, v.val)
          [] v.tag = NULL -> encode_null(s)
          [] v.tag = OID -> encode_snmp_oid(s, v.val)
encode_binding(b, v) ==
    IF v.good THEN pop_sequence(binding(b, v)) ELSE abort_sequence(push_sequence(b, SEQUENCE))

\* a binding that needs more than the one byte for its length
Outgrows(v) == v.good /\ Grows(binding(NewEncoder, v))

\* generate_trap(), the message
Community == <<112, 117>>
Enterprise == <<1, 3, 6>>
Agent == <<18, 26, 4, 9>>
TrapMessage(type, vars, ticks) ==
    LET b1 == encode_octet_string(encode_integer(push_long_sequence(NewEncoder, SEQUENCE), INTEGER, 0),
                                  OCTET_STRING, Community)
        b2 == encode_octet_string(encode_snmp_oid(push_long_sequence(b1, V1_TRAP), Enterprise), IPADDRESS, Agent)
        b3 == encode_integer(encode_integer(b2, INTEGER, IF type <= 0 THEN -type ELSE 6),
                             INTEGER, IF type <= 0 THEN 0 ELSE type)
        b4 == push_long_sequence(encode_integer(b3, TIMETICKS, ticks), SEQUENCE)
    IN  pop_sequence(pop_sequence(pop_sequence(FoldLeft(encode_binding, b4, vars)))).sa

\* what the message says
Binding(v) == [tag |-> SEQUENCE, val |-> <<[tag |-> OID, val |-> Append(v.oid, 0)], [tag |-> v.tag, val |-> v.val]>>]
Says1(type, vars, ticks) ==
    <<[tag |-> SEQUENCE, val |->
        <<[tag |-> INTEGER, val |-> <<0>>], [tag |-> OCTET_STRING, val |-> Community],
          [tag |-> V1_TRAP, val |->
             <<[tag |-> OID, val |-> Enterprise], [tag |-> IPADDRESS, val |-> Agent],
               [tag |-> INTEGER, val |-> <<IF type > 0 THEN 6 ELSE -type>>],
               [tag |-> INTEGER, val |-> <<IF type > 0 THEN type ELSE 0>>],
               [tag |-> TIMETICKS, val |-> <<ticks>>],
               [tag |-> SEQUENCE, val |-> LET g == SelectSeq(vars, LAMBDA v : v.good)
                                          IN  [i \in DOMAIN g |-> Binding(g[i])]]>>]>>]>>

\* the traps that are asked for: without variables, or with a number and strings
StringVariable(i, n) == [oid |-> <<1, i>>, tag |-> OCTET_STRING, val |-> [k \in 1 .. n |-> k], good |-> TRUE]
Traps ==
    {[type |-> -2, vars |-> <<>>]} \cup
    {[type |-> 1, vars |-> <<[oid |-> <<1, 3, 128>>, tag |-> INTEGER, val |-> <<-129>>, good |-> TRUE],
                             StringVariable(4, n), StringVariable(5, n)>>] : n \in TrapStrings}

next_i(i) == IF i # QSIZE THEN i + 1 ELSE 0
\* generate_trap(): the handler looks for room, publishes the packet, and makes
\* the task run; the task may run in between
Generate == \E t \in Traps, good \in BOOLEAN :
    LET vars == [i \in DOMAIN t.vars |-> [t.vars[i] EXCEPT !.good = (good \/ i > 1)]]
        full == next_i(traps.tail) = traps.head
    IN  /\ traps.pc = "idle" /\ traps.active /\ traps.made < MaxTraps
        /\ traps' = [traps EXCEPT !.made = @ + 1, !.drops = IF full THEN @ + 1 ELSE @,
                        !.pc = IF full THEN "idle" ELSE "publish",
                        !.queue[traps.tail] = IF full THEN @
                            ELSE [sa |-> TrapMessage(t.type, vars, traps.made),
                                  says |-> Says1(t.type, vars, traps.made),
                                  outgrew |-> \E i \in DOMAIN vars : Outgrows(vars[i])]]
PublishTrap == traps.pc = "publish" /\ traps' = [traps EXCEPT !.pc = "reschedule", !.tail = next_i(@)]
Reschedule == traps.pc = "reschedule" /\ traps' = [traps EXCEPT !.pc = "idle", !.scheduled = TRUE]
SetTrapActive == traps.pc = "idle" /\ traps' = [traps EXCEPT !.active = ~@]

\* run_task(): the ring is emptied, packet by packet
FireTask == traps.scheduled /\ ~traps.running /\ traps' = [traps EXCEPT !.scheduled = FALSE, !.running = TRUE]
run_task ==
    /\ traps.running
    /\ traps' = IF traps.head = traps.tail THEN [traps EXCEPT !.running = FALSE]
                ELSE [traps EXCEPT !.head = next_i(@), !.sent = Append(@, traps.queue[traps.head])]

-----------------------------------------------------------------------------
\* an encoder is told something; `told' is a list of values for every sequence
\* that is open, the outermost first
Told(v) == [ber.told EXCEPT ![Len(ber.told)] = Append(@, v)]
EncodeValue ==
    /\ ber.values < MaxValues
    /\ \/ \E x \in Integral : ber' = [ber EXCEPT !.enc = encode_integer(@, INTEGER, x), !.values = @ + 1,
                                                 !.told = Told([tag |-> INTEGER, val |-> <<x>>])]
       \/ \E n \in StringLengths :
            LET s == [i \in 1 .. n |-> i % 256]
            IN  ber' = [ber EXCEPT !.enc = encode_octet_string(@, OCTET_STRING, s), !.values = @ + 1,
                                   !.told = Told([tag |-> OCTET_STRING, val |-> s])]
       \/ \E oid \in ObjectIds :
            ber' = [ber EXCEPT !.enc = encode_snmp_oid(@, oid), !.values = @ + 1,
                               !.told = IF Len(oid) < 2 THEN @ ELSE Told([tag |-> OID, val |-> oid])]
       \/ ber' = [ber EXCEPT !.enc = encode_null(@), !.values = @ + 1, !.told = Told([tag |-> NULL, val |-> <<>>])]
BeginSequence == \E long \in BOOLEAN :
    /\ ber.pushes < MaxPushes
    /\ ber' = [ber EXCEPT !.enc = IF long THEN push_long_sequence(@, SEQUENCE) ELSE push_sequence(@, SEQUENCE),
                          !.pushes = @ + 1, !.told = Append(@, <<>>)]
EndSequence ==
    /\ ber.enc.start # <<>>
    /\ LET inner == Innermost(ber.told)
           outer == Front(ber.told)
       IN  ber' = [ber EXCEPT !.enc = pop_sequence(@), !.grown = @ \/ Grows(ber.enc),
                      !.told = [outer EXCEPT ![Len(outer)] = Append(@, [tag |-> SEQUENCE, val |-> inner])]]
AbortSequence ==
    /\ ber.enc.start # <<>>
    /\ ber' = [ber EXCEPT !.enc = abort_sequence(@), !.told = Front(@)]

SNMPInit ==
    /\ ber = [enc |-> NewEncoder, told |-> <<<<>>>>, values |-> 0, pushes |-> 0, grown |-> FALSE]
    /\ oidinfo = [names |-> NewTree, entries |-> <<>>, vartree |-> NewTree, vars |-> <<>>, defined |-> 0]
    /\ traps = [queue |-> [i \in 0 .. QSIZE |-> [sa |-> <<>>, says |-> <<>>, outgrew |-> FALSE]], head |-> 0, tail |-> 0, drops |-> 0,
                pc |-> "idle", scheduled |-> FALSE, running |-> FALSE, active |-> TRUE, made |-> 0, sent |-> <<>>]
BERNext == (EncodeValue \/ BeginSequence \/ EndSequence \/ AbortSequence) /\ UNCHANGED <<oidinfo, traps>>
NamesNext == AddName /\ UNCHANGED <<ber, traps>>
VariablesNext == AddVariable /\ UNCHANGED <<ber, traps>>
TrapsNext ==
    /\ Generate \/ PublishTrap \/ Reschedule \/ SetTrapActive \/ FireTask \/ run_task
    /\ UNCHANGED <<ber, oidinfo>>
SNMPSpec == SNMPInit /\ [][BERNext \/ NamesNext \/ VariablesNext \/ TrapsNext]_snmpVars

-----------------------------------------------------------------------------
SNMPTypeOK ==
    /\ Len(ber.enc.start) = Len(ber.enc.len_len) /\ Len(ber.told) = Len(ber.enc.start) + 1
    /\ Len(oidinfo.names.nodes) <= NODES_PER_GROUP /\ Len(oidinfo.vartree.nodes) <= NODES_PER_GROUP
    /\ traps.head \in 0 .. QSIZE /\ traps.tail \in 0 .. QSIZE /\ traps.drops \in 0 .. MaxTraps

\* The bytes of finished sequences are BER for what the encoder was told, unless a
\* sequence outgrew the one byte that push_sequence() keeps for its length.
BERSound ==
    ber.enc.start = <<>> /\ ~ber.grown => Decoded(ber.enc.sa, 1, Len(ber.enc.sa)) = ber.told[1]

\* A name stands for the object identifier it was given in the innermost context
\* around the one that asks; the nodes of the tree keep to their identifiers.
NamesSound ==
    \A i \in DOMAIN oidinfo.entries :
        LET e == oidinfo.entries[i]
        IN  /\ e.name \notin WellKnown
            /\ extract_oid(oidinfo.names, e.node) = e.oid
            /\ OidQuery(oidinfo, e.name, e.context) = e.oid
            /\ \A c \in Contexts :
                  /\ IsPrefix(e.context, c)
                  /\ ~\E d \in Contexts : /\ IsPrefix(d, c) /\ Len(d) > Len(e.context)
                                          /\ OidEntries(oidinfo, e.name, d) # {}
                  => OidQuery(oidinfo, e.name, c) = e.oid

\* A variable that was defined is found by its instance 0, and nothing else is.
VariablesSound ==
    \A oid \in Oids :
        LET q == VarQuery(oidinfo, Append(oid, 0))
            known == {v \in DOMAIN oidinfo.vars : oidinfo.vars[v].oid = oid}
        IN  /\ Cardinality(known) <= 1
            /\ (\A v \in DOMAIN oidinfo.vars : oidinfo.vars[v].oid # Append(oid, 0)) /\ ~oidinfo.vartree.wild
               => IF known = {} THEN q = -1 ELSE q \in known

\* Traps leave in the order in which the ring took them, each one says what the
\* handler was told, unless a binding outgrew the byte for its length, and none waits
\* while the task sleeps.
RingSound ==
    LET n == (traps.tail + QSIZE + 1 - traps.head) % (QSIZE + 1)
        waiting == [i \in 1 .. n |-> traps.queue[(traps.head + i - 1) % (QSIZE + 1)]]
        all == traps.sent \o waiting
        took == traps.made - traps.drops - (IF traps.pc = "publish" THEN 1 ELSE 0)
    IN  /\ Len(all) = took
        /\ \A i \in DOMAIN all : ~all[i].outgrew => Decoded(all[i].sa, 1, Len(all[i].sa)) = all[i].says
        /\ \A i, j \in DOMAIN all : i < j => all[i].says # all[j].says
        /\ n > 0 /\ ~traps.running => traps.scheduled \/ traps.pc = "reschedule"


\* The encoder, the names and variables, and the ring of the trap source work.
SNMPSound == BERSound /\ NamesSound /\ VariablesSound /\ RingSound

=============================================================================
