------------------------------ MODULE Flooding ------------------------------
(***************************************************************************)
(* CounterFlood and PFlood (roofnet/sr) on the nodes of a network: a node  *)
(* passes a broadcast on once, some time after it first heard it, unless   *)
(* it has heard it too often by then.                                      *)
(*                                                                         *)
(* PFlood never assigns _to_send: its first timer passes on everything     *)
(* that waits.  It is modelled with P 99, from which on click_random(0,99) *)
(* <= _p always holds.  CounterFlood's `now > _to_send' is strict, so that *)
(* a timer which runs at the very time of _to_send does not pass its own   *)
(* packet on; `exact' records that this has happened.                      *)
(***************************************************************************)
EXTENDS Integers, Sequences, FiniteSets

CONSTANTS Station,      \* the nodes
          Radio,        \* the pairs {n, m} that hear each other
          Origin,       \* the node that starts each broadcast
          Counts,       \* values of COUNT
          History,      \* _history
          MaxLostCopies, MaxOrphans   \* bounds

Flood == DOMAIN Origin

ASSUME FloodingAssumption ==
    /\ Radio \subseteq {{n, m} : n, m \in Station} /\ IsFiniteSet(Flood)
    /\ \A s \in Flood : Origin[s] \in Station
    /\ Counts \subseteq Nat
    /\ History \in Nat /\ MaxLostCopies \in Nat /\ MaxOrphans \in Nat

VARIABLES scheme,       \* the element of all nodes, and COUNT
          packets,      \* _packets of each node
          orphans,      \* timers whose entry was cleared
          air,          \* copies under way: broadcast, sender, receiver
          txCount, upCount,          \* history: transmissions, packets of output 1
          lostCopies, exact, wiped   \* history: what the network and the operator did

floodVars == <<scheme, packets, orphans, air, txCount, upCount, lostCopies, exact, wiped>>

FloodInit ==
    /\ scheme = <<"none", 0>>
    /\ packets = [n \in Station |-> <<>>] /\ orphans = [n \in Station |-> 0]
    /\ air = {} /\ lostCopies = 0 /\ exact = FALSE /\ wiped = FALSE
    /\ txCount = [n \in Station |-> [s \in Flood |-> 0]] /\ upCount = txCount

-----------------------------------------------------------------------------
\* configure()
Flood_configure ==
    /\ scheme[1] = "none"
    /\ scheme' \in {<<"PFlood", 0>>} \cup {<<"CounterFlood", k>> : k \in Counts}
    /\ UNCHANGED <<packets, orphans, air, txCount, upCount, lostCopies, exact, wiped>>

Twice(k) == IF k < 2 THEN k + 1 ELSE 2
Index(n, s) == {i \in 1 .. Len(packets[n]) : packets[n][i].seq = s}

\* class Broadcast
Broadcast(s, done) == [seq |-> s, num_rx |-> 0, forwarded |-> done, timer |-> ~done]

\* Mutant of trim_packets(): the table never holds all of its history.
trim_packets_early(ps) ==
    IF Len(ps) < History THEN ps ELSE SubSeq(ps, Len(ps) - History + 2, Len(ps))

trim_packets(ps) ==
    IF Len(ps) <= History THEN ps ELSE SubSeq(ps, Len(ps) - History + 1, Len(ps))

\* the copies of the broadcasts S that n transmits
Copies(n, S) == {c \in S \X {n} \X Station : {n, c[3]} \in Radio /\ c[3] # n}

\* forward()
forward(n, S) ==
    /\ air' = air \cup Copies(n, S)
    /\ txCount' = [txCount EXCEPT ![n] = [s \in Flood |-> IF s \in S THEN Twice(@[s]) ELSE @[s]]]

\* push() on port 1
Flood_push_own(s) ==
    LET n == Origin[s]
    IN  /\ scheme[1] # "none" /\ txCount[n][s] = 0 /\ Index(n, s) = {} /\ upCount[n][s] = 0
        /\ packets' = [packets EXCEPT ![n] = trim_packets(Append(@, Broadcast(s, TRUE)))]
        /\ forward(n, {s})
        /\ UNCHANGED <<scheme, orphans, upCount, lostCopies, exact, wiped>>

Heard_again(n, s) == [i \in 1 .. Len(packets[n]) |->
    IF i \in Index(n, s) THEN [packets[n][i] EXCEPT !.num_rx = Twice(@)] ELSE packets[n][i]]

\* push() on port 0
Flood_push(c) ==
    LET s == c[1]
        n == c[3]
    IN  /\ IF Index(n, s) # {}
           THEN packets' = [packets EXCEPT ![n] = Heard_again(n, s)] /\ UNCHANGED upCount
           ELSE /\ packets' = [packets EXCEPT ![n] =
                     trim_packets(Append(@, [Broadcast(s, FALSE) EXCEPT !.num_rx = 1]))]
                /\ upCount' = [upCount EXCEPT ![n][s] = Twice(@)]
        /\ air' = air \ {c}
        /\ UNCHANGED <<scheme, orphans, txCount, lostCopies, exact, wiped>>

\* whether the threshold lets a packet be passed on
Wanted(e) == ~e.forwarded /\ (scheme[2] = 0 \/ e.num_rx < scheme[2])

\* the entries that forward_hook() marks as forwarded
Marked(n, due) == due

\* entry i when the entries `done' are marked and the timers of `own' have run
Runs(e, i, done, own) == [e EXCEPT !.forwarded = @ \/ i \in done, !.timer = @ /\ i \notin own]

\* a run of forward_hook() for the timer of entry `own' (or of none), in which
\* the time of the entries `due' has come
Hook(n, own, due) ==
    /\ forward(n, {packets[n][i].seq : i \in {j \in due : Wanted(packets[n][j])}})
    /\ packets' = [packets EXCEPT ![n] =
          [i \in 1 .. Len(@) |-> Runs(@[i], i, Marked(n, due), own)]]
    /\ exact' = (exact \/ ~(own \subseteq due))
    /\ UNCHANGED <<scheme, upCount, lostCopies, wiped>>

CounterFlood_forward_hook(n, own) ==
    scheme[1] = "CounterFlood" /\ \E due \in SUBSET (1 .. Len(packets[n])) : Hook(n, own, due)

PFlood_forward_hook(n, own) ==
    scheme[1] = "PFlood" /\ Hook(n, own, 1 .. Len(packets[n]))

Flood_hook(n, own) == CounterFlood_forward_hook(n, own) \/ PFlood_forward_hook(n, own)

Flood_timer(n) ==
    \/ \E i \in 1 .. Len(packets[n]) :
          packets[n][i].timer /\ Flood_hook(n, {i}) /\ UNCHANGED orphans
    \/ orphans[n] > 0 /\ orphans' = [orphans EXCEPT ![n] = @ - 1] /\ Flood_hook(n, {})

\* write_param() `clear': the timers of the entries stay
Flood_clear(n) ==
    /\ Cardinality({i \in 1 .. Len(packets[n]) : packets[n][i].timer}) + orphans[n] <= MaxOrphans
    /\ ~wiped /\ wiped' = TRUE
    /\ orphans' = [orphans EXCEPT ![n] = @ + Cardinality({i \in 1 .. Len(packets[n]) :
                                                             packets[n][i].timer})]
    /\ packets' = [packets EXCEPT ![n] = <<>>]
    /\ UNCHANGED <<scheme, air, txCount, upCount, lostCopies, exact>>

\* a copy is lost
Flood_lose(c) ==
    /\ lostCopies < MaxLostCopies /\ lostCopies' = lostCopies + 1
    /\ air' = air \ {c}
    /\ UNCHANGED <<scheme, packets, orphans, txCount, upCount, exact, wiped>>

FloodNext ==
    \/ Flood_configure
    \/ \E s \in Flood : Flood_push_own(s)
    \/ \E c \in air : Flood_push(c) \/ Flood_lose(c)
    \/ \E n \in Station : Flood_timer(n) \/ Flood_clear(n)

-----------------------------------------------------------------------------
FloodTypeOK ==
    /\ scheme \in {<<"none", 0>>, <<"PFlood", 0>>} \cup ({"CounterFlood"} \X Counts)
    /\ \A n \in Station : Len(packets[n]) <= History /\ orphans[n] \in 0 .. MaxOrphans

\* With no more broadcasts about than a table remembers, and unless a table is
\* cleared, every node transmits a broadcast at most once and hands it up at
\* most once, whatever copies are lost and whenever its timers run.
FloodOnce ==
    Cardinality(Flood) <= History /\ ~wiped =>
       \A n \in Station, s \in Flood : txCount[n][s] <= 1 /\ upCount[n][s] <= 1

\* no station is out of the reach of others
Connected ==
    \A S \in (SUBSET Station) \ {{}} :
       (\A n \in S, m \in Station : {n, m} \in Radio => m \in S) => S = Station

\* With COUNT 0 (`Count of 0 indicates always forward') or PFlood, a broadcast of
\* which no copy was lost has reached every node of a connected network when nothing
\* is left to be done, unless a table was cleared or is too short for the broadcasts
\* that are about, or a timer ran at the exact time of its packet.
FloodCovers ==
    (/\ Connected /\ Cardinality(Flood) <= History
     /\ scheme[2] = 0 /\ lostCopies = 0 /\ ~wiped /\ ~exact /\ air = {}
     /\ \A n \in Station : \A i \in 1 .. Len(packets[n]) : ~packets[n][i].timer)
    => \A s \in Flood : txCount[Origin[s]][s] > 0 =>
          \A n \in Station \ {Origin[s]} : upCount[n][s] = 1
=============================================================================
