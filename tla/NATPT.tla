------------------------------- MODULE NATPT --------------------------------
(***************************************************************************)
(* An FTP control connection through NAT-PT (ip6_natpt): FTPPortMapper6    *)
(* rewrites commands and replies, so that their length changes, and        *)
(* TCPAddressTranslator corrects sequence and acknowledgement numbers.     *)
(*                                                                         *)
(* "64" is the direction from the IPv6 host, "46" the one from the IPv4    *)
(* host.  The hosts are external: they take turns, each retransmits what   *)
(* it said last until it is acknowledged, and packets are lost behind the  *)
(* translator.  Numbers count octets from the start of the connection; a   *)
(* length is that of the command or reply in units that tell lengths       *)
(* apart.  What a mapping points to is deleted but the map keeps it; who   *)
(* uses it then ends the process (halted), as does an EPRT that does not   *)
(* parse, which is pushed and rewritten all the same.                      *)
(***************************************************************************)
EXTENDS Integers, Sequences, FiniteMaps

CONSTANTS Says,         \* what a host says in one direction: [Dirs -> SUBSET names]
          Length,       \* its length: [names -> Nat]
          NewLength,    \* its length when it was rewritten: [names -> Nat]
          MaxTurns      \* commands and replies of a connection

Dirs == {"64", "46"}
Back == [d \in Dirs |-> IF d = "64" THEN "46" ELSE "64"]
Nothing == "nothing"
Commands == {"EPRT", "EPSV", "200", "229", "PORT", "PASV", "227"}

ASSUME NATPTAssumption ==
    /\ MaxTurns \in Nat
    /\ \A d \in Dirs : \A c \in Says[d] :
          c # Nothing /\ Length[c] \in Nat \ {0} /\ (c \in Commands => NewLength[c] \in Nat \ {0})

VARIABLES nat,          \* map, the mappings m, tracked, epsv_found, halted
          host,         \* of the host that sends in d: said, next, total
          wire,         \* the packet behind the translator in each direction, with whether its
                        \* sender had received all, and how much that is in the other one's text
          whose,        \* whose turn it is
          turns

natVars == <<nat, host, wire, whose, turns>>

\* Mapping6::Mapping6(), whose _used is not initialized
Mapping6(garbage) == [trigger |-> 0, delta |-> 0, old_delta |-> 0, zero |-> garbage, over |-> FALSE]

\* the constructors and configure() of both elements
NATPTInit ==
    /\ nat = [map |-> "none", m |-> [d \in Dirs |-> Mapping6(FALSE)], tracked |-> FALSE,
              epsv_found |-> TRUE, halted |-> FALSE]
    /\ host = [d \in Dirs |-> [said |-> Nothing, next |-> 0, total |-> 0, got |-> 0]]
    /\ wire = [d \in Dirs |-> <<>>]
    /\ whose \in Dirs /\ turns = 0

-----------------------------------------------------------------------------
\* TCPAddressTranslator
\* Mutant of update_seqno_delta(): a retransmission is counted again.
update_seqno_delta_again(m, trigger, d) ==
    [m EXCEPT !.old_delta = m.delta, !.trigger = trigger, !.delta = @ + d, !.zero = TRUE]
update_seqno_delta(m, trigger, d) ==
    IF trigger <= m.trigger /\ (m.trigger # 0 \/ m.delta # 0 \/ m.old_delta # 0) THEN m
    ELSE [m EXCEPT !.old_delta = m.delta, !.trigger = trigger, !.delta = @ + d, !.zero = TRUE]
delta_for(m, seqno) == IF seqno >= m.trigger THEN m.delta ELSE m.old_delta

apply_create(n, garbage) ==
    IF n.map # "none" THEN n
    ELSE [n EXCEPT !.map = "live", !.m = [d \in Dirs |-> Mapping6(garbage)]]

\* Mapping6::apply()
apply_seq(n, d, seq) == seq + delta_for(n.m[d], seq)
apply_ack(n, d, ack) ==
    ack - (IF d = "46" /\ n.m["64"].zero THEN n.m["64"].delta ELSE delta_for(n.m[Back[d]], ack))
apply_flags(n, d, flags) ==
    LET over(e) == IF "RST" \in flags THEN TRUE
                   ELSE IF e = d /\ "FIN" \in flags THEN TRUE
                   ELSE IF e = d /\ "SYN" \in flags THEN FALSE ELSE n.m[e].over
    IN  [n EXCEPT !.m = [e \in Dirs |-> [n.m[e] EXCEPT !.over = over(e)]]]
session_over(n) == \A d \in Dirs : n.m[d].over
add_to_free_tracked_tail(n, flags) ==
    IF ~n.tracked /\ flags \cap {"FIN", "RST"} # {} /\ session_over(n)
    THEN [n EXCEPT !.tracked = TRUE] ELSE n

\* translate_ipv6to4(), translate_ipv4to6()
translate(n, d, flags) == add_to_free_tracked_tail(apply_flags(n, d, flags), flags)

-----------------------------------------------------------------------------
\* FTPPortMapper6: what is rewritten
command_found(n, d, c) ==
    c \in IF d = "64" THEN {"EPRT", "EPSV", "200"} \cup (IF n.epsv_found THEN {} ELSE {"229"})
          ELSE {"PORT", "PASV", "227", "200"}
NewLen(n, d, c) == IF command_found(n, d, c) THEN NewLength[c] ELSE Length[c]

\* translate_ipv6_ipv4() and translate_ipv4_ipv6() of c at seq
Rewritten(n, d, c, seq, garbage) ==
    IF ~command_found(n, d, c) THEN apply_create(n, garbage)
    ELSE LET x == apply_create(n, garbage)
         IN  [x EXCEPT !.m[d] = update_seqno_delta(@, seq + Length[c], NewLength[c] - Length[c]),
                       !.epsv_found = @ /\ c # "PASV"]

\* both elements: what comes out of them
Pass(d, c, seq, ack) ==
    \E garbage \in BOOLEAN :
       LET n == Rewritten(nat, d, c, seq, garbage)
       IN  /\ nat' = IF nat.map = "freed" THEN [nat EXCEPT !.halted = TRUE] ELSE translate(n, d, {})
           /\ wire' = [wire EXCEPT ![d] = <<[seq |-> apply_seq(n, d, seq), ack |-> apply_ack(n, d, ack),
                                          len |-> NewLen(nat, d, c),
                                            all |-> ack = host[Back[d]].total, due |-> host[Back[d]].next]>>]

\* a 229 answers an EPSV that was a PASV
Say(d, c) ==
    /\ ~nat.halted /\ whose = d /\ turns < MaxTurns /\ host[d].said = Nothing /\ c \in Says[d]
    /\ ~nat.m[d].over /\ (c = "229" => ~nat.epsv_found)
    /\ host' = [host EXCEPT ![d].said = c, ![d].next = @ + Length[c], ![d].total = @ + NewLen(nat, d, c)]
    /\ turns' = turns + 1
    /\ Pass(d, c, host[d].next, host[d].got)
    /\ UNCHANGED whose
Retransmit(d) ==
    /\ ~nat.halted /\ host[d].said # Nothing /\ wire[d] = <<>>
    /\ Pass(d, host[d].said, host[d].next - Length[host[d].said], host[d].got)
    /\ UNCHANGED <<host, whose, turns>>
\* the packet is acknowledged by what the other host says next
Arrive(d) ==
    /\ wire[d] # <<>>
    /\ wire' = [wire EXCEPT ![d] = <<>>]
    /\ host' = [host EXCEPT ![Back[d]].got = IF wire[d][1].seq = @ THEN @ + wire[d][1].len ELSE @,
                            ![Back[d]].said = IF wire[d][1].ack = host[Back[d]].next THEN Nothing ELSE @]
    /\ whose' = IF wire[d][1].seq = host[Back[d]].got THEN Back[d] ELSE whose
    /\ UNCHANGED <<nat, turns>>
Lose(d) ==
    /\ wire[d] # <<>>
    /\ wire' = [wire EXCEPT ![d] = <<>>] /\ UNCHANGED <<nat, host, whose, turns>>
\* the packets that begin, end or reset the connection, and one that does not parse
Control(d, flags) ==
    /\ ~nat.halted /\ ("SYN" \in flags => turns = 0)
    /\ \E garbage \in BOOLEAN :
          nat' = IF nat.map = "freed" THEN [nat EXCEPT !.halted = TRUE]
                 ELSE translate(apply_create(nat, garbage), d, flags)
    /\ UNCHANGED <<host, wire, whose, turns>>
Malformed ==
    /\ ~nat.halted
    /\ nat' = [nat EXCEPT !.halted = TRUE] /\ UNCHANGED <<host, wire, whose, turns>>

\* clean_map6(): _used is no time, so that any mapping may seem unused
tcp_gc_hook ==
    /\ nat.map = "live" /\ ~nat.tracked
    /\ nat' = [nat EXCEPT !.map = "freed"] /\ UNCHANGED <<host, wire, whose, turns>>
\* clean_map6_free_tracked()
tcp_done_gc_hook ==
    /\ nat.map = "live" /\ nat.tracked
    /\ nat' = IF session_over(nat) THEN [nat EXCEPT !.map = "freed", !.tracked = FALSE]
              ELSE [nat EXCEPT !.tracked = FALSE]
    /\ UNCHANGED <<host, wire, whose, turns>>

NATPTNext ==
    \/ \E d \in Dirs : \/ \E c \in Says[d] : Say(d, c)
                       \/ Retransmit(d) \/ Arrive(d) \/ Lose(d)
                       \/ \E flags \in {{"SYN"}, {"FIN"}, {"RST"}} : Control(d, flags)
    \/ Malformed \/ tcp_gc_hook \/ tcp_done_gc_hook

NATPTSpec == NATPTInit /\ [][NATPTNext]_natVars

-----------------------------------------------------------------------------
NATPTTypeOK ==
    /\ nat.map \in {"none", "live", "freed"} /\ nat.tracked \in BOOLEAN /\ nat.halted \in BOOLEAN
    /\ turns \in 0 .. MaxTurns
    /\ nat.tracked => nat.map = "live"

\* Neither host sees that the other one's text was rewritten: a packet comes out
\* of the translator at the octet where the receiver expects it, first sent or
\* sent again; and what the IPv6 host is told is acknowledged is all it has said,
\* when the IPv4 host has all of it, whether texts became longer or shorter.  The
\* same of the IPv4 host as long as its texts became longer only: delta_for() then
\* compares a number of the new text with one of the old.
StreamsContiguous ==
    ~nat.halted => \A d \in Dirs : wire[d] # <<>> =>
       LET p == wire[d][1]
           grown == nat.m["46"].delta >= 0 /\ nat.m["46"].old_delta >= 0
       IN  /\ p.seq + p.len = host[d].total
           /\ p.all /\ (d = "64" => grown) => p.ack = p.due
=============================================================================
