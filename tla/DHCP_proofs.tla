----------------------------- MODULE DHCP_proofs ----------------------------
(***************************************************************************)
(* The client against any server: its types, that a timer of it is always  *)
(* running and the offer it repeats is there, and that choose_offer takes  *)
(* the longest lease, for every number of addresses, transaction ids,      *)
(* lease times and offers.  The loop of choose_offer is followed by an     *)
(* invariant (Best) over its turns: after k of them the three variables    *)
(* hold the best of the first k offers.                                    *)
(*                                                                         *)
(* Clients and server together: a client that reports an active lease has  *)
(* it, for every number of clients and addresses, with queues of every     *)
(* capacity, every loss, delay and restart.  The invariant (DHCPInv)       *)
(* follows a lease through the network: what an acknowledgement on its way *)
(* promises is kept, because the server takes an address back only for a   *)
(* release, and a client that sends one has drawn a new transaction id, so *)
(* that it ignores every answer to what it asked before.                   *)
(***************************************************************************)
EXTENDS DHCP, DHCPServer_proofs, SequenceTheorems

-----------------------------------------------------------------------------
(* The client against any server.                                          *)

Choice == [overall : Option(Granting), mine : Option(Granting), ltime : LTime \cup {0}]

\* An offer of a conforming server is a message with all its fields.
LEMMA GrantingFields ==
    ASSUME NEW p \in Granting
    PROVE  /\ p \in Reply /\ p # None
           /\ p.xid \in Xid /\ p.yiaddr \in Addr /\ p.server \in Addr
           /\ p.ltime \in LTime /\ p.ltime \in Nat /\ p.ltime # None
<1>1. /\ p.xid \in Xid /\ p.yiaddr \in Addr /\ p.server \in Addr /\ p.ltime \in LTime
  BY CommonAssumption DEF Granting
<1>2. p \in Reply
  BY CommonAssumption DEF Granting, Reply, Option
<1> QED
  BY <1>1, <1>2, CommonAssumption, NoneAssumption

\* One turn of the loop of choose_offer keeps its three variables well typed.
LEMMA ConsiderType ==
    ASSUME NEW acc \in Choice, NEW p \in Granting, NEW ip \in Option(Addr)
    PROVE  Consider(acc, p, ip) \in Choice
BY NoneAssumption DEF Consider, Choice, Granting, Option

\* The loop of choose_offer is what Scan says: it starts with nothing and considers each
\* offer once, in order.
LEMMA ScanLoop ==
    ASSUME NEW s \in Seq(Granting), NEW ip \in Option(Addr)
    PROVE  /\ Scan(s, ip) \in [0 .. Len(s) -> Choice]
           /\ Scan(s, ip)[0] = [overall |-> None, mine |-> None, ltime |-> 0]
           /\ \A k \in 1 .. Len(s) : Scan(s, ip)[k] = Consider(Scan(s, ip)[k - 1], s[k], ip)
<1> DEFINE none == [overall |-> None, mine |-> None, ltime |-> 0]
           g == [x \in Choice \X (1 .. Len(s)) |-> Consider(x[1], s[x[2]], ip)]
           F(f) == [k \in 0 .. Len(s) |-> IF k = 0 THEN none ELSE Consider(f[k - 1], s[k], ip)]
<1>1. Len(s) \in Nat /\ \A k \in 1 .. Len(s) : s[k] \in Granting
  OBVIOUS
<1>2. none \in Choice
  BY DEF Choice, Option
<1>3. g \in [Choice \X (1 .. Len(s)) -> Choice]
  BY <1>1, ConsiderType
<1>4. PICK f : Run(Choice, none, Len(s), g, f)
  <2> HIDE DEF none, g
  <2> QED
    BY <1>1, <1>2, <1>3, LoopExists
<1>5. ASSUME NEW k \in 1 .. Len(s) PROVE f[k] = Consider(f[k - 1], s[k], ip)
  <2>1. f[k - 1] \in Choice
    BY <1>1, <1>4 DEF Run
  <2>2. <<f[k - 1], k>> \in Choice \X (1 .. Len(s))
    BY <2>1
  <2> QED
    BY <1>4, <2>2 DEF Run
<1>6. f = F(f)
  BY <1>1, <1>4, <1>5 DEF Run
<1>7. Scan(s, ip) = CHOOSE h : h = F(h)
  BY DEF Scan
<1>8. Scan(s, ip) = F(Scan(s, ip))
  <2> HIDE DEF F
  <2> QED
    BY <1>6, <1>7
<1> DEFINE h == Scan(s, ip)
<1>9. /\ h = [k \in 0 .. Len(s) |-> h[k]]
      /\ h[0] = none
      /\ \A k \in 1 .. Len(s) : h[k] = Consider(h[k - 1], s[k], ip)
  BY <1>1, <1>8
<1>10. 0 .. Len(s) \subseteq {k \in 0 .. Len(s) : h[k] \in Choice}
  <2> HIDE DEF h, none
  <2> DEFINE In == {k \in 0 .. Len(s) : h[k] \in Choice}
  <2>1. 0 \in In
    BY <1>1, <1>2, <1>9
  <2>2. ASSUME NEW k \in 1 .. Len(s), k - 1 \in In PROVE k \in In
    <3>1. h[k - 1] \in Choice /\ s[k] \in Granting
      BY <1>1, <2>2
    <3>2. Consider(h[k - 1], s[k], ip) \in Choice
      BY <3>1, ConsiderType
    <3> QED
      BY <1>1, <1>9, <3>2
  <2> HIDE DEF In
  <2> QED
    BY <1>1, <2>1, <2>2, UpTo DEF In
<1> QED
  BY <1>9, <1>10

-----------------------------------------------------------------------------
\* the offers among the first k for the address the client had
Mine(s, ip, k) == {j \in 1 .. k : ip # None /\ s[j].yiaddr = ip}

\* of the offers whose numbers are in C, s[j] has the longest lease, and is the
\* latest of those
Longest(s, C, j) ==
    /\ j \in C
    /\ \A i \in C : \/ s[i].ltime < s[j].ltime
                    \/ s[i].ltime = s[j].ltime /\ j <= i

\* What the loop of choose_offer() keeps: the time to beat belongs to the best
\* offer for the address the client had, once there is one, and to the best
\* offer of all before.
Best(s, ip, k, acc) ==
    \/ /\ k = 0
       /\ acc.overall = None /\ acc.mine = None
    \/ /\ k > 0 /\ Mine(s, ip, k) # {}
       /\ acc.overall # None
       /\ \E j \in 1 .. k : /\ Longest(s, Mine(s, ip, k), j)
                           /\ acc.mine = s[j] /\ acc.ltime = s[j].ltime
    \/ /\ k > 0 /\ Mine(s, ip, k) = {}
       /\ acc.mine = None
       /\ \E j \in 1 .. k : /\ Longest(s, 1 .. k, j)
                           /\ acc.overall = s[j] /\ acc.ltime = s[j].ltime

\* If a turn starts with the best of the offers before it, it ends with the best of
\* those and its own.
LEMMA ConsiderKeepsBest ==
    ASSUME NEW s \in Seq(Granting), NEW ip \in Option(Addr), NEW k \in 1 .. Len(s),
           NEW acc \in Choice, Best(s, ip, k - 1, acc)
    PROVE  Best(s, ip, k, Consider(acc, s[k], ip))
<1> DEFINE p == s[k]
           new == Consider(acc, p, ip)
<1>1. /\ Len(s) \in Nat /\ k \in Nat /\ k > 0
      /\ \A j \in 1 .. k : s[j] \in Granting /\ s[j].ltime \in Nat /\ s[j] # None
      /\ p \in Granting /\ p.ltime \in Nat /\ p.ltime # None /\ p # None
      /\ \A j \in 1 .. k : s[j].yiaddr \in Addr
  <2>1. Len(s) \in Nat /\ k \in Nat /\ k > 0 /\ \A j \in 1 .. k : s[j] \in Granting
    OBVIOUS
  <2> QED
    BY <2>1, GrantingFields
<1>2. acc.ltime \in Nat
  <2>1. acc.ltime \in LTime \cup {0}
    BY DEF Choice
  <2>2. LTime \cup {0} \subseteq Nat
    BY CommonAssumption
  <2> QED
    BY <2>1, <2>2, Zenon
<1>3. /\ Mine(s, ip, k - 1) \subseteq Mine(s, ip, k)
      /\ Mine(s, ip, k) \subseteq Mine(s, ip, k - 1) \cup {k}
      /\ k \in Mine(s, ip, k) <=> ip # None /\ p.yiaddr = ip
  BY <1>1 DEF Mine
<1>4. /\ 1 .. k = (1 .. k - 1) \cup {k}
      /\ Mine(s, ip, k - 1) \subseteq 1 .. k - 1
  BY <1>1 DEF Mine
<1>5. CASE k - 1 = 0
  <2>1. acc.overall = None /\ acc.mine = None /\ k = 1
    BY <1>1, <1>5 DEF Best
  <2>2. new.overall = p /\ new.ltime = p.ltime
    BY <1>1, <2>1 DEF Consider
  <2>3. new.mine = IF ip # None /\ p.yiaddr = ip THEN p ELSE None
    BY <1>1, <2>1 DEF Consider
  <2> HIDE DEF new
  <2>4. Longest(s, {1}, 1) /\ 1 .. k = {1}
    BY <2>1, <1>1 DEF Longest
  <2>5. Mine(s, ip, k) = IF ip # None /\ p.yiaddr = ip THEN {1} ELSE {}
    BY <2>1 DEF Mine
  <2> QED
    BY <1>1, <2>1, <2>2, <2>3, <2>4, <2>5 DEF Best, new
<1>6. CASE k - 1 > 0 /\ Mine(s, ip, k - 1) # {}
  <2>1. PICK j \in 1 .. k - 1 : /\ Longest(s, Mine(s, ip, k - 1), j)
                               /\ acc.mine = s[j] /\ acc.ltime = s[j].ltime
                               /\ acc.overall # None
    BY <1>1, <1>6 DEF Best
  <2>2. new.overall # None /\ acc.mine # None
    BY <1>1, <2>1 DEF Consider
  <2>3. CASE ip # None /\ p.yiaddr = ip /\ p.ltime > acc.ltime
    <3>1. new.mine = p /\ new.ltime = p.ltime
      BY <1>1, <2>1, <2>2, <2>3 DEF Consider
    <3>2. Longest(s, Mine(s, ip, k), k)
      BY <1>1, <1>2, <1>3, <1>4, <2>1, <2>3, SMTT(30) DEF Longest
    <3> HIDE DEF new
    <3> QED
      BY <1>1, <1>3, <1>6, <2>2, <3>1, <3>2 DEF Best, new
  <2>4. CASE ~(ip # None /\ p.yiaddr = ip /\ p.ltime > acc.ltime)
    <3>1. new.mine = acc.mine /\ new.ltime = acc.ltime
      BY <1>1, <2>1, <2>2, <2>4 DEF Consider
    <3>2. Longest(s, Mine(s, ip, k), j)
      BY <1>1, <1>2, <1>3, <1>4, <2>1, <2>4 DEF Longest
    <3> HIDE DEF new
    <3> QED
      BY <1>1, <1>3, <1>6, <2>1, <2>2, <3>1, <3>2 DEF Best, new
  <2> QED
    BY <2>3, <2>4
<1>7. CASE k - 1 > 0 /\ Mine(s, ip, k - 1) = {}
  <2>1. PICK j \in 1 .. k - 1 : /\ Longest(s, 1 .. k - 1, j)
                               /\ acc.overall = s[j] /\ acc.ltime = s[j].ltime
                               /\ acc.mine = None
    BY <1>1, <1>7 DEF Best
  <2>2. acc.overall # None
    BY <1>1, <2>1
  <2>3. CASE ip # None /\ p.yiaddr = ip
    <3>1. new.mine = p /\ new.ltime = p.ltime /\ new.overall # None
      BY <1>1, <2>1, <2>2, <2>3 DEF Consider
    <3>2. Mine(s, ip, k) = {k}
      BY <1>3, <1>7, <2>3
    <3>3. Longest(s, Mine(s, ip, k), k)
      BY <1>1, <3>2 DEF Longest
    <3> HIDE DEF new
    <3> QED
      BY <1>1, <3>1, <3>2, <3>3 DEF Best, new
  <2>4. CASE ~(ip # None /\ p.yiaddr = ip) /\ p.ltime > acc.ltime
    <3>1. new.mine = None /\ new.ltime = p.ltime /\ new.overall = p
      BY <1>1, <2>1, <2>2, <2>4 DEF Consider
    <3>2. Longest(s, 1 .. k, k)
      BY <1>1, <1>2, <1>4, <2>1, <2>4, SMTT(30) DEF Longest
    <3>3. Mine(s, ip, k) = {}
      BY <1>3, <1>7, <2>4
    <3> HIDE DEF new
    <3> QED
      BY <1>1, <3>1, <3>2, <3>3 DEF Best, new
  <2>5. CASE ~(ip # None /\ p.yiaddr = ip) /\ ~(p.ltime > acc.ltime)
    <3>1. new.mine = None /\ new.ltime = acc.ltime /\ new.overall = acc.overall
      BY <1>1, <2>1, <2>2, <2>5 DEF Consider
    <3>2. Longest(s, 1 .. k, j)
      BY <1>1, <1>2, <1>4, <2>1, <2>5, SMTT(30) DEF Longest
    <3>3. Mine(s, ip, k) = {}
      BY <1>3, <1>7, <2>5
    <3> HIDE DEF new
    <3> QED
      BY <1>1, <2>1, <3>1, <3>2, <3>3 DEF Best, new
  <2> QED
    BY <2>3, <2>4, <2>5
<1> QED
  BY <1>1, <1>5, <1>6, <1>7

\* choose_offer() finds an offer if there is one: the longest among those for
\* the address the client had, or among all.
LEMMA ChooseOffer ==
    ASSUME NEW s \in Seq(Granting), NEW ip \in Option(Addr), s # <<>>
    PROVE  \E j \in 1 .. Len(s) :
               /\ choose_offer(s, ip) = s[j]
               /\ Longest(s, IF Mine(s, ip, Len(s)) # {} THEN Mine(s, ip, Len(s)) ELSE 1 .. Len(s), j)
<1> DEFINE scan == Scan(s, ip)
           Good == {k \in 0 .. Len(s) : Best(s, ip, k, scan[k])}
<1>1. Len(s) \in Nat /\ Len(s) > 0
  OBVIOUS
<1>2. /\ scan \in [0 .. Len(s) -> Choice]
      /\ scan[0] = [overall |-> None, mine |-> None, ltime |-> 0]
      /\ \A k \in 1 .. Len(s) : scan[k] = Consider(scan[k - 1], s[k], ip)
  BY ScanLoop
<1> HIDE DEF scan
<1>3. 0 \in Good
  BY <1>1, <1>2 DEF Best
<1>4. ASSUME NEW k \in 1 .. Len(s), k - 1 \in Good
      PROVE  k \in Good
  <2>1. Best(s, ip, k - 1, scan[k - 1]) /\ scan[k - 1] \in Choice
    BY <1>1, <1>2, <1>4
  <2>2. Best(s, ip, k, Consider(scan[k - 1], s[k], ip))
    BY <2>1, ConsiderKeepsBest
  <2> QED
    BY <1>1, <1>2, <2>2
<1> HIDE DEF Good
<1>5. 0 .. Len(s) \subseteq Good
  BY <1>1, <1>3, <1>4, UpTo
<1>6. Best(s, ip, Len(s), scan[Len(s)])
  BY <1>1, <1>5 DEF Good
<1>7. choose_offer(s, ip) =
          IF scan[Len(s)].mine # None THEN scan[Len(s)].mine ELSE scan[Len(s)].overall
  BY DEF choose_offer, scan
<1>8. \A j \in 1 .. Len(s) : s[j] # None
  BY GrantingFields
<1> QED
  BY <1>1, <1>6, <1>7, <1>8 DEF Best

-----------------------------------------------------------------------------
(* The invariant.  RetriesSound is inductive once the offers are known to  *)
(* be whole messages: run_timer() leaves RESEND_REQUEST scheduled when     *)
(* choose_offer() finds nothing, which it then never does.                 *)

ClientInv ==
    /\ ClientTypeOK
    /\ offers     \in [Eth -> Seq(Granting)]
    /\ best_offer \in [Eth -> Option(Granting)]
    /\ RetriesSound

\* An offer that grants something is a reply.
LEMMA GrantingIsReply == Seq(Granting) \subseteq Seq(Reply) /\ Option(Granting) \subseteq Option(Reply)
BY GrantingFields DEF Option

\* A client starts within the invariant.
LEMMA ClientStart == ClientInit => ClientInv
<1> SUFFICES ASSUME ClientInit PROVE ClientInv
  OBVIOUS
<1>1. ClientTypeOK
  BY CommonAssumption, ClientAssumption DEF ClientInit, ClientTypeOK, CStates, Timers, LeaseTimers, Option, NoLease
<1>2. offers \in [Eth -> Seq(Granting)] /\ best_offer \in [Eth -> Option(Granting)]
  BY DEF ClientInit, Option
<1>3. RetriesSound
  BY DEF ClientInit, RetriesSound, ResendHasOffer, KeepsTrying
<1> QED
  BY <1>1, <1>2, <1>3 DEF ClientInv

\* enter_init_state() and no change but to the lease
LEMMA EnterInitKeeps ==
    ASSUME ClientInv, NEW c \in Eth, enter_init_state(c), Send(c, <<>>),
           active' \in [Eth -> BOOLEAN], UNCHANGED <<my_ip, server_ip, told, xid>>, SameOffers
    PROVE  ClientInv'
<1> USE DEF ClientInv
<1>1. cstate' \in [Eth -> CStates] /\ timers' \in [Eth -> SUBSET Timers]
  BY DEF enter_init_state, Become, SetTimers, ClientTypeOK, CStates, Timers
<1>2. sent' \in [Eth -> Seq(Request)]
  BY DEF Send, ClientTypeOK
<1>3. ClientTypeOK'
  BY <1>1, <1>2 DEF SameOffers, ClientTypeOK
<1>4. ResendHasOffer'
  BY DEF enter_init_state, SetTimers, SameOffers, RetriesSound, ResendHasOffer, ClientTypeOK
<1>5. KeepsTrying'
  BY DEF enter_init_state, SetTimers, Become, RetriesSound, KeepsTrying, ClientTypeOK
<1> QED
  BY <1>3, <1>4, <1>5 DEF SameOffers, RetriesSound

\* Every reply, whether it is for this client or not, keeps the invariant.
LEMMA PushKeeps ==
    ASSUME ClientInv, NEW c \in Eth, NEW m \in Conforming, push(c, m)
    PROVE  ClientInv'
<1> USE DEF ClientInv
<1>1. CASE ignore(c)
  <2>1. ClientTypeOK'
    BY <1>1 DEF ignore, Send, SameLease, SameOffers, ClientTypeOK
  <2> QED
    BY <1>1, <2>1 DEF ignore, SameOffers, RetriesSound, ResendHasOffer, KeepsTrying
<1>2. CASE m.type = "OFFER" /\ recv_offer(c, m)
  <2>1. m \in Granting
    BY <1>2 DEF Conforming, Granting, Refusing
  <2>2. /\ offers' \in [Eth -> Seq(Granting)]
        /\ offers'[c] # <<>> /\ \A d \in Eth \ {c} : offers'[d] = offers[d]
    BY <1>2, <2>1 DEF recv_offer
  <2>3. ClientTypeOK'
    <3>1. timers' \in [Eth -> SUBSET Timers] /\ sent' \in [Eth -> Seq(Request)]
      BY <1>2 DEF recv_offer, Send, SetTimers, ClientTypeOK, Timers
    <3> QED
      BY <1>2, <2>2, <3>1, GrantingIsReply DEF recv_offer, SameLease, ClientTypeOK
  <2>4. ResendHasOffer'
    BY <1>2, <2>2 DEF recv_offer, SetTimers, RetriesSound, ResendHasOffer, ClientTypeOK
  <2>5. KeepsTrying'
    BY <1>2 DEF recv_offer, SetTimers, RetriesSound, KeepsTrying, ClientTypeOK
  <2> QED
    BY <1>2, <2>2, <2>3, <2>4, <2>5 DEF recv_offer, RetriesSound
<1>3. CASE m.type = "ACK" /\ recv_ack(c, m)
  <2>1. m \in Granting
    BY <1>3 DEF Conforming, Granting, Refusing
  <2>2. m.ltime # None /\ m.yiaddr \in Addr /\ m.server \in Addr
    BY <2>1, GrantingFields
  <2>3. timers' = [timers EXCEPT ![c] = (timers[c] \ {"TIMEOUT", "RESEND_REQUEST"}) \cup LeaseTimers]
    BY <1>3, <2>2 DEF recv_ack, SetTimers
  <2>4. best_offer' \in [Eth -> Option(Granting)] /\ offers' \in [Eth -> Seq(Granting)]
    BY <1>3 DEF recv_ack, Option
  <2>5. /\ my_ip' \in [Eth -> Option(Addr)] /\ server_ip' \in [Eth -> Option(Addr)]
        /\ active' \in [Eth -> BOOLEAN]
    BY <1>3, <2>2 DEF recv_ack, ClientTypeOK, Option
  <2>6. told' \in [Eth -> [ip : Option(Addr), server : Option(Addr)]]
    <3> DEFINE new == IF m.ltime = 0 THEN NoLease ELSE [ip |-> m.yiaddr, server |-> m.server]
    <3>1. new \in [ip : Option(Addr), server : Option(Addr)]
      BY <2>2 DEF NoLease, Option
    <3>2. told' = [told EXCEPT ![c] = new]
      BY <1>3 DEF recv_ack
    <3> HIDE DEF new
    <3> QED
      BY <3>1, <3>2 DEF ClientTypeOK
  <2>7. /\ cstate' \in [Eth -> CStates] /\ xid' \in [Eth -> Xid]
        /\ timers' \in [Eth -> SUBSET Timers] /\ sent' \in [Eth -> Seq(Request)]
    BY <1>3, <2>3 DEF recv_ack, Become, Send, ClientTypeOK, CStates, Timers, LeaseTimers
  <2>8. ClientTypeOK'
    BY <2>4, <2>5, <2>6, <2>7, GrantingIsReply DEF ClientTypeOK
  <2>9. ResendHasOffer'
    BY <1>3, <2>3 DEF recv_ack, RetriesSound, ResendHasOffer, ClientTypeOK, LeaseTimers
  <2>10. KeepsTrying'
    BY <1>3, <2>3 DEF recv_ack, Become, RetriesSound, KeepsTrying, ClientTypeOK, LeaseTimers
  <2> QED
    BY <2>4, <2>8, <2>9, <2>10 DEF RetriesSound
<1>4. CASE m.type = "NACK" /\ recv_nack(c, m)
  <2>1. CASE cstate[c] = "BOUND"
    <3>1. ignore(c)
      BY <1>4, <2>1 DEF recv_nack, ignore
    <3> QED
      BY <1>1, <3>1
  <2>2. CASE cstate[c] # "BOUND"
    BY <1>4, <2>2, EnterInitKeeps DEF recv_nack, SameLease, ClientTypeOK
  <2> QED
    BY <2>1, <2>2
<1> QED
  BY <1>1, <1>2, <1>3, <1>4 DEF push, Conforming, Granting, Refusing

\* The end of the wait for offers keeps the invariant: the request is for a real offer.
LEMMA SelectKeeps ==
    ASSUME ClientInv, NEW c \in Eth, run_SELECT(c)
    PROVE  /\ ClientInv'
           /\ LongestLease(c)
           /\ \A d \in Eth \ {c} : best_offer'[d] = best_offer[d]
<1> USE DEF ClientInv
<1> DEFINE s  == offers[c]
           ip == my_ip[c]
           o  == choose_offer(s, ip)
           C  == IF Mine(s, ip, Len(s)) # {} THEN Mine(s, ip, Len(s)) ELSE 1 .. Len(s)
<1>1. s \in Seq(Granting) /\ ip \in Option(Addr) /\ s # <<>>
  BY DEF run_SELECT, ClientTypeOK, RetriesSound, ResendHasOffer
<1>2. PICK j \in 1 .. Len(s) : o = s[j] /\ Longest(s, C, j)
  BY <1>1, ChooseOffer
<1>3. o \in Granting
  BY <1>1, <1>2
<1>4. o # None /\ o.xid \in Xid /\ o.yiaddr \in Addr /\ o.server \in Addr
  BY <1>3, GrantingFields
<1>5. /\ best_offer' = [best_offer EXCEPT ![c] = o]
      /\ timers' = [timers EXCEPT ![c] = (timers[c] \ {"SELECT"}) \cup {"RESEND_REQUEST"}]
      /\ cstate' = [cstate EXCEPT ![c] = "REQUESTING"]
      /\ sent' = [sent EXCEPT ![c] = <<make_request(c, o)>>]
      /\ offers' = [offers EXCEPT ![c] = <<>>]
      /\ UNCHANGED <<xid, my_ip, server_ip, active, told>>
  BY <1>4 DEF run_SELECT, SetTimers, Become, Send, Fired, SameLease
<1> HIDE DEF o
<1>6. make_request(c, o) \in Request
  BY <1>4 DEF make_request, bootrequest, Request, Option
<1>7. best_offer' \in [Eth -> Option(Granting)] /\ offers' \in [Eth -> Seq(Granting)]
  BY <1>3, <1>5 DEF Option
<1>8. /\ timers' \in [Eth -> SUBSET Timers] /\ cstate' \in [Eth -> CStates]
      /\ sent' \in [Eth -> Seq(Request)]
  BY <1>5, <1>6 DEF ClientTypeOK, Timers, CStates
<1>9. ClientTypeOK'
  BY <1>5, <1>7, <1>8, GrantingIsReply DEF ClientTypeOK
<1>10. ResendHasOffer'
  BY <1>4, <1>5 DEF RetriesSound, ResendHasOffer, ClientTypeOK
<1>11. KeepsTrying'
  BY <1>5 DEF RetriesSound, KeepsTrying, ClientTypeOK
<1>12. LongestLease(c)
  <2>1. \A k \in 1 .. Len(s) : s[k].ltime # None
    BY <1>1, GrantingFields
  <2>2. Candidates(c) = C
    BY <2>1 DEF Candidates, Mine
  <2>3. best_offer'[c] = s[j]
    BY <1>2, <1>5 DEF o
  <2> QED
    BY <1>2, <2>2, <2>3 DEF LongestLease, Longest
<1> QED
  BY <1>5, <1>7, <1>9, <1>10, <1>11, <1>12 DEF RetriesSound

\* A step that sends a request and changes the transaction, the lease or the
\* timers of renewal, and neither the offers nor what RESEND_REQUEST needs.
LEMMA RequestKeeps ==
    ASSUME ClientInv, NEW c \in Eth, NEW r \in Request, NEW x \in Xid, NEW ts \in SUBSET Timers,
           NEW st \in CStates, sent' = [sent EXCEPT ![c] = <<r>>], xid' = [xid EXCEPT ![c] = x],
           timers' = [timers EXCEPT ![c] = ts], cstate' = [cstate EXCEPT ![c] = st],
           "RESEND_REQUEST" \in ts => "RESEND_REQUEST" \in timers[c],
           "SELECT" \in ts => "SELECT" \in timers[c],
           st \in {"INIT", "SELECTING"} => "RESEND_DISCOVER" \in ts \/ "SELECT" \in ts,
           st = "REQUESTING" => "RESEND_REQUEST" \in ts,
           st \in {"REBOOTING", "BOUND"} => "LEASE_EXPIRED" \in ts,
           my_ip' \in [Eth -> Option(Addr)], server_ip' \in [Eth -> Option(Addr)],
           active' \in [Eth -> BOOLEAN], UNCHANGED told, SameOffers
    PROVE  ClientInv'
<1> USE DEF ClientInv
<1>1. /\ sent' \in [Eth -> Seq(Request)] /\ xid' \in [Eth -> Xid]
      /\ timers' \in [Eth -> SUBSET Timers] /\ cstate' \in [Eth -> CStates]
  BY DEF ClientTypeOK
<1>2. ClientTypeOK'
  BY <1>1 DEF ClientTypeOK, SameOffers
<1>3. ResendHasOffer'
  BY DEF RetriesSound, ResendHasOffer, ClientTypeOK, SameOffers
<1>4. KeepsTrying'
  BY DEF RetriesSound, KeepsTrying, ClientTypeOK
<1> QED
  BY <1>2, <1>3, <1>4 DEF RetriesSound, SameOffers

\* A DISCOVER that is sent again keeps the invariant.
LEMMA DiscoverKeeps ==
    ASSUME ClientInv, NEW c \in Eth, run_RESEND_DISCOVER(c)
    PROVE  ClientInv'
<1>1. PICK x \in Xid : NewXid(c, x) /\ Send(c, <<make_discovery(c, x)>>)
  BY DEF run_RESEND_DISCOVER
<1>2. make_discovery(c, x) \in Request
  BY DEF make_discovery, bootrequest, Request, Option, ClientInv, ClientTypeOK
<1>3. timers' = [timers EXCEPT ![c] = timers[c]] /\ timers[c] \in SUBSET Timers
  BY DEF run_RESEND_DISCOVER, ClientInv, ClientTypeOK
<1> DEFINE st == IF cstate[c] = "INIT" THEN "SELECTING" ELSE cstate[c]
<1>4. /\ st \in CStates /\ cstate' = [cstate EXCEPT ![c] = st]
      /\ st \in {"INIT", "SELECTING"} => "RESEND_DISCOVER" \in timers[c]
      /\ st = "REQUESTING" => "RESEND_REQUEST" \in timers[c]
      /\ st \in {"REBOOTING", "BOUND"} => "LEASE_EXPIRED" \in timers[c]
  BY DEF run_RESEND_DISCOVER, Become, CStates, ClientInv, ClientTypeOK, RetriesSound, KeepsTrying
<1> HIDE DEF st
<1> QED
  BY <1>1, <1>2, <1>3, <1>4, RequestKeeps
     DEF run_RESEND_DISCOVER, SameLease, ClientInv, ClientTypeOK, Send, NewXid

\* A request sent again keeps the invariant: the offer it repeats is there.
LEMMA ResendKeeps ==
    ASSUME ClientInv, NEW c \in Eth, run_RESEND_REQUEST(c)
    PROVE  ClientInv'
<1> DEFINE o == best_offer[c]
<1>1. o \in Granting
  BY DEF run_RESEND_REQUEST, ClientInv, RetriesSound, ResendHasOffer, Option
<1>2. o.xid \in Xid /\ o.yiaddr \in Addr /\ o.server \in Addr
  BY <1>1, GrantingFields
<1>3. make_request(c, o) \in Request
  BY <1>2 DEF make_request, bootrequest, Request, Option
<1>4. /\ timers' = [timers EXCEPT ![c] = timers[c]] /\ timers[c] \in SUBSET Timers
      /\ cstate' = [cstate EXCEPT ![c] = cstate[c]] /\ cstate[c] \in CStates
      /\ xid' = [xid EXCEPT ![c] = xid[c]] /\ xid[c] \in Xid
  BY DEF run_RESEND_REQUEST, ClientInv, ClientTypeOK
<1>5. /\ cstate[c] \in {"INIT", "SELECTING"} => "RESEND_DISCOVER" \in timers[c] \/ "SELECT" \in timers[c]
      /\ cstate[c] = "REQUESTING" => "RESEND_REQUEST" \in timers[c]
      /\ cstate[c] \in {"REBOOTING", "BOUND"} => "LEASE_EXPIRED" \in timers[c]
      /\ my_ip' \in [Eth -> Option(Addr)] /\ server_ip' \in [Eth -> Option(Addr)]
      /\ active' \in [Eth -> BOOLEAN] /\ UNCHANGED told
  BY DEF run_RESEND_REQUEST, SameLease, ClientInv, ClientTypeOK, RetriesSound, KeepsTrying
<1> QED
  <2> DEFINE r  == make_request(c, o)
             ts == timers[c]
             st == cstate[c]
             x  == xid[c]
  <2>1. sent' = [sent EXCEPT ![c] = <<r>>] /\ SameOffers
    BY DEF run_RESEND_REQUEST, Send
  <2>2. /\ timers' = [timers EXCEPT ![c] = ts] /\ ts \in SUBSET Timers
        /\ cstate' = [cstate EXCEPT ![c] = st] /\ st \in CStates
        /\ xid' = [xid EXCEPT ![c] = x] /\ x \in Xid
    BY <1>4
  <2>3. /\ st \in {"INIT", "SELECTING"} => "RESEND_DISCOVER" \in ts \/ "SELECT" \in ts
        /\ st = "REQUESTING" => "RESEND_REQUEST" \in ts
        /\ st \in {"REBOOTING", "BOUND"} => "LEASE_EXPIRED" \in ts
        /\ "RESEND_REQUEST" \in ts => "RESEND_REQUEST" \in timers[c]
        /\ "SELECT" \in ts => "SELECT" \in timers[c]
    BY <1>5
  <2> HIDE DEF r, ts, st, x
  <2> QED
    BY <1>3, <1>5, <2>1, <2>2, <2>3, RequestKeeps DEF r

\* The renew and rebind timers keep the invariant.
LEMMA RenewKeeps ==
    ASSUME ClientInv, NEW c \in Eth, NEW t \in {"RENEW", "REBIND"}, run_RENEW_or_REBIND(c, t)
    PROVE  ClientInv'
<1>1. PICK x \in Xid : NewXid(c, x) /\ Send(c, <<make_request_with_ciaddr(c, x)>>)
  BY DEF run_RENEW_or_REBIND
<1>2. make_request_with_ciaddr(c, x) \in Request
  BY DEF make_request_with_ciaddr, bootrequest, Request, Option, ClientInv, ClientTypeOK
<1>3. PICK ts \in {timers[c], timers[c] \ {t}} : timers' = [timers EXCEPT ![c] = ts]
  BY DEF run_RENEW_or_REBIND, SetTimers, Fired
<1>4. /\ cstate' = [cstate EXCEPT ![c] = cstate[c]] /\ cstate[c] \in CStates
      /\ ts \in SUBSET Timers
  BY DEF run_RENEW_or_REBIND, ClientInv, ClientTypeOK
<1> QED
  BY <1>1, <1>2, <1>3, <1>4, RequestKeeps
     DEF run_RENEW_or_REBIND, SameLease, Send, NewXid, ClientInv, ClientTypeOK, RetriesSound, KeepsTrying

\* A lease written by the boot script keeps the invariant.
LEMMA WriteLeaseTrueKeeps ==
    ASSUME ClientInv, NEW c \in Eth, NEW l \in [ip : Addr, server : ServerId], NEW lasts \in BOOLEAN,
           write_lease_true(c, l, lasts)
    PROVE  ClientInv'
<1>1. PICK x \in Xid : NewXid(c, x) /\ Send(c, <<bootrequest(c, "REQUEST", x, l.ip, None, None)>>)
  BY DEF write_lease_true
<1>2. bootrequest(c, "REQUEST", x, l.ip, None, None) \in Request
  BY DEF bootrequest, Request, Option
<1> DEFINE ts == (timers[c] \ {"RESEND_DISCOVER"}) \cup {"LEASE_EXPIRED"}
<1>3. /\ ts \in SUBSET Timers /\ timers' = [timers EXCEPT ![c] = ts]
      /\ "LEASE_EXPIRED" \in ts
      /\ "RESEND_REQUEST" \in ts => "RESEND_REQUEST" \in timers[c]
      /\ "SELECT" \in ts => "SELECT" \in timers[c]
  BY DEF write_lease_true, SetTimers, Timers, LeaseTimers, ClientInv, ClientTypeOK
<1>4. /\ my_ip' \in [Eth -> Option(Addr)] /\ server_ip' \in [Eth -> Option(Addr)]
      /\ active' \in [Eth -> BOOLEAN]
  BY CommonAssumption DEF write_lease_true, ClientInv, ClientTypeOK, Option
<1>5. cstate' = [cstate EXCEPT ![c] = "REBOOTING"] /\ "REBOOTING" \in CStates
  BY DEF write_lease_true, Become, CStates
<1> HIDE DEF ts
<1> QED
  BY <1>1, <1>2, <1>3, <1>4, <1>5, RequestKeeps DEF write_lease_true, Send, NewXid

\* A release keeps the invariant.
LEMMA ReleaseKeeps ==
    ASSUME ClientInv, NEW c \in Eth, write_release(c)
    PROVE  ClientInv'
<1>1. PICK x \in Xid : NewXid(c, x) /\ Send(c, <<make_release(c, x)>>)
  BY DEF write_release
<1>2. make_release(c, x) \in Request
  BY DEF make_release, bootrequest, Request, Option, ClientInv, ClientTypeOK
<1>3. /\ timers' = [timers EXCEPT ![c] = timers[c]] /\ timers[c] \in SUBSET Timers
      /\ cstate' = [cstate EXCEPT ![c] = cstate[c]] /\ cstate[c] \in CStates
  BY DEF write_release, ClientInv, ClientTypeOK
<1>4. /\ cstate[c] \in {"INIT", "SELECTING"} => "RESEND_DISCOVER" \in timers[c] \/ "SELECT" \in timers[c]
      /\ cstate[c] = "REQUESTING" => "RESEND_REQUEST" \in timers[c]
      /\ cstate[c] \in {"REBOOTING", "BOUND"} => "LEASE_EXPIRED" \in timers[c]
      /\ my_ip' \in [Eth -> Option(Addr)] /\ server_ip' \in [Eth -> Option(Addr)]
      /\ active' \in [Eth -> BOOLEAN] /\ UNCHANGED told
  BY DEF write_release, SameLease, ClientInv, ClientTypeOK, RetriesSound, KeepsTrying
<1> QED
  <2> DEFINE r  == make_release(c, x)
             ts == timers[c]
             st == cstate[c]
  <2>1. sent' = [sent EXCEPT ![c] = <<r>>] /\ xid' = [xid EXCEPT ![c] = x] /\ SameOffers
    BY <1>1 DEF write_release, Send, NewXid
  <2>2. /\ timers' = [timers EXCEPT ![c] = ts] /\ ts \in SUBSET Timers
        /\ cstate' = [cstate EXCEPT ![c] = st] /\ st \in CStates
    BY <1>3
  <2>3. /\ st \in {"INIT", "SELECTING"} => "RESEND_DISCOVER" \in ts \/ "SELECT" \in ts
        /\ st = "REQUESTING" => "RESEND_REQUEST" \in ts
        /\ st \in {"REBOOTING", "BOUND"} => "LEASE_EXPIRED" \in ts
        /\ "RESEND_REQUEST" \in ts => "RESEND_REQUEST" \in timers[c]
        /\ "SELECT" \in ts => "SELECT" \in timers[c]
    BY <1>4
  <2> HIDE DEF r, ts, st
  <2> QED
    BY <1>2, <1>4, <2>1, <2>2, <2>3, RequestKeeps DEF r

-----------------------------------------------------------------------------
\* what ChoosesLongest says of a step
ChosenWell == \A c \in Eth : best_offer'[c] # best_offer[c] =>
                  best_offer'[c] = None \/ LongestLease(c)

\* Every step keeps the invariant, and chooses the longest lease if it chooses.
LEMMA ClientStep ==
    ASSUME ClientInv, [ClientNext]_clientVars
    PROVE  ClientInv' /\ ChosenWell
<1>1. CASE UNCHANGED clientVars
  <2>1. ClientTypeOK'
    BY <1>1 DEF clientVars, ClientInv, ClientTypeOK
  <2> QED
    BY <1>1, <2>1 DEF clientVars, ClientInv, RetriesSound, ResendHasOffer, KeepsTrying, ChosenWell
<1> SUFFICES ASSUME ClientNext PROVE ClientInv' /\ ChosenWell
  BY <1>1
<1>2. PICK c \in Eth :
        \/ \E m \in Conforming : push(c, m)
        \/ \E t \in Timers : run_timer(c, t)
        \/ write_lease_false(c)
        \/ \E ip \in Addr, server \in ServerId, lasts \in BOOLEAN :
               write_lease_true(c, [ip |-> ip, server |-> server], lasts)
        \/ write_release(c)
  BY DEF ClientNext
<1>3. CASE \E m \in Conforming : push(c, m)
  <2>1. PICK m \in Conforming : push(c, m)
    BY <1>3
  <2>2. UNCHANGED best_offer \/ best_offer' = [best_offer EXCEPT ![c] = None]
    BY <2>1 DEF push, ignore, recv_offer, recv_ack, recv_nack, SameOffers, Conforming, Granting, Refusing
  <2>3. ChosenWell
    BY <2>2 DEF ChosenWell, ClientInv
  <2> QED
    BY <2>1, <2>3, PushKeeps
<1>4. CASE \E t \in Timers : run_timer(c, t)
  <2>1. PICK t \in Timers : run_timer(c, t)
    BY <1>4
  <2>2. CASE run_TIMEOUT(c)
    <3>1. ClientTypeOK'
      BY <2>2 DEF run_TIMEOUT, ignore, Send, SameLease, SameOffers, ClientInv, ClientTypeOK
    <3> QED
      BY <2>2, <3>1 DEF run_TIMEOUT, ignore, SameOffers, ClientInv, RetriesSound, ResendHasOffer,
                        KeepsTrying, ChosenWell
  <2>3. CASE run_SELECT(c)
    BY <2>3, SelectKeeps DEF ChosenWell
  <2>4. CASE run_RESEND_DISCOVER(c)
    BY <2>4, DiscoverKeeps DEF run_RESEND_DISCOVER, SameOffers, ChosenWell
  <2>5. CASE run_RESEND_REQUEST(c)
    BY <2>5, ResendKeeps DEF run_RESEND_REQUEST, SameOffers, ChosenWell
  <2>6. CASE t \in {"RENEW", "REBIND"} /\ run_RENEW_or_REBIND(c, t)
    BY <2>6, RenewKeeps DEF run_RENEW_or_REBIND, SameOffers, ChosenWell
  <2>7. CASE run_LEASE_EXPIRED(c)
    <3>1. active' \in [Eth -> BOOLEAN]
      BY <2>7 DEF run_LEASE_EXPIRED, ClientInv, ClientTypeOK
    <3> QED
      BY <2>7, <3>1, EnterInitKeeps DEF run_LEASE_EXPIRED, SameOffers, ChosenWell
  <2> QED
    BY <2>1, <2>2, <2>3, <2>4, <2>5, <2>6, <2>7 DEF run_timer
<1>5. CASE write_lease_false(c)
  <2>1. active' \in [Eth -> BOOLEAN]
    BY <1>5 DEF write_lease_false, ClientInv, ClientTypeOK
  <2> QED
    BY <1>5, <2>1, EnterInitKeeps DEF write_lease_false, SameOffers, ChosenWell
<1>6. CASE \E ip \in Addr, server \in ServerId, lasts \in BOOLEAN :
               write_lease_true(c, [ip |-> ip, server |-> server], lasts)
  <2>1. PICK l \in [ip : Addr, server : ServerId], lasts \in BOOLEAN : write_lease_true(c, l, lasts)
    BY <1>6
  <2> QED
    BY <2>1, WriteLeaseTrueKeeps DEF write_lease_true, SameOffers, ChosenWell
<1>7. CASE write_release(c)
  BY <1>7, ReleaseKeeps DEF write_release, SameOffers, ChosenWell
<1> QED
  BY <1>2, <1>3, <1>4, <1>5, <1>6, <1>7

\* The invariant holds in every reachable state.
THEOREM ClientInvariance == ClientSpec => []ClientInv
<1>1. ClientInv /\ [ClientNext]_clientVars => ClientInv'
  BY ClientStep
<1> QED
  BY <1>1, ClientStart, PTL DEF ClientSpec

\* Every request a client sends is whole, whatever the replies, expirations and
\* handler writes before.
THEOREM ClientTypeCorrect == ClientSpec => []ClientTypeOK
<1>1. ClientInv => ClientTypeOK
  BY DEF ClientInv
<1> QED
  BY <1>1, ClientInvariance, PTL

\* RESEND_REQUEST never fires without an offer, SELECT never without one to
\* choose, and no client is left without a timer that moves it on.
THEOREM ClientRetriesSound == ClientSpec => []RetriesSound
<1>1. ClientInv => RetriesSound
  BY DEF ClientInv
<1> QED
  BY <1>1, ClientInvariance, PTL

\* choose_offer() takes the longest lease for the address the client had, or
\* the longest of all, however many offers there are.
THEOREM ClientChoosesLongest == ClientSpec => ChoosesLongest
<1>1. ClientInv /\ [ClientNext]_clientVars => [ChosenWell]_clientVars
  BY ClientStep
<1>2. [][ChosenWell]_clientVars <=> ChoosesLongest
  BY PTL DEF ChosenWell, ChoosesLongest
<1> QED
  BY <1>1, <1>2, ClientInvariance, PTL DEF ClientSpec

-----------------------------------------------------------------------------
(* Clients and server together.                                            *)

\* Nobody releases a lease that is in use, and nobody whose lease is restored after
\* a restart releases it at all: LEASE_CALL is not told of a release.
CarefulOperators ==
    \A c \in Eth : "release" \notin Operators[c] /\ ~({"restart", "release_inactive"} \subseteq Operators[c])

Holds(c, a) == a \in Pool /\ leases[a] = c

\* An acknowledgement that the client would take
Current(c, m) == m.type = "ACK" /\ m.eth = c /\ m.xid = xid[c]

\* What is on its way: an acknowledgement is of an address that is leased to
\* the client, unless the client gave the lease back after it asked.
RepliesFit(c) ==
    \A i \in 1 .. Len(toClient[c]) :
        LET m == toClient[c][i]
        IN  /\ m.type \in {"OFFER", "ACK", "NACK"}
            /\ m.type = "ACK" /\ m.eth = c /\ ("release_inactive" \notin Operators[c] \/ m.xid = xid[c])
                 => Holds(c, m.yiaddr)

RequestsFit(c) ==
    \A i \in 1 .. Len(toServer[c]) :
        /\ toServer[c][i].eth = c
        /\ toServer[c][i].type = "RELEASE" => "release_inactive" \in Operators[c]

\* While a release is on its way, the client has no lease, and no answer to
\* what it asked before will give it one.
ReleasesFit(c) ==
    \A i \in 1 .. Len(toServer[c]) : toServer[c][i].type = "RELEASE" =>
        /\ ~active[c]
        /\ \A j \in 1 .. i - 1 : toServer[c][j].xid # xid[c]
        /\ \A j \in 1 .. Len(toClient[c]) : ~Current(c, toClient[c][j])

ClientFits(c) ==
    /\ active[c] => Holds(c, my_ip[c])
    /\ "RENEW" \in timers[c] \/ "REBIND" \in timers[c] => my_ip[c] # None
    /\ told[c] # NoLease => told[c].ip # None /\ ("restart" \in Operators[c] => Holds(c, told[c].ip))

\* A queue is a sequence.
Queue(q) == \E S : q \in Seq(S)

LeaseTracked(c) ==
    /\ Queue(toServer[c]) /\ Queue(toClient[c])
    /\ RepliesFit(c) /\ RequestsFit(c) /\ ReleasesFit(c) /\ ClientFits(c)

\* The variables of the clients are functions of the clients.
Shape ==
    /\ DOMAIN my_ip = Eth /\ DOMAIN active = Eth /\ DOMAIN xid = Eth /\ DOMAIN timers = Eth
    /\ DOMAIN told = Eth /\ DOMAIN sent = Eth /\ DOMAIN toServer = Eth /\ DOMAIN toClient = Eth

DHCPInv == PoolInv /\ FreeIsListed /\ Shape /\ \A c \in Eth : LeaseTracked(c)

-----------------------------------------------------------------------------
(* Queues.                                                                 *)

\* q2 is q with r at the end
Added(q, q2, r) ==
    /\ Len(q2) = Len(q) + 1 /\ q2[Len(q) + 1] = r
    /\ \A i \in 1 .. Len(q) : q2[i] = q[i]

\* A queue is as long as its capacity at most.
LEMMA QueueLength ==
    ASSUME NEW q, Queue(q)
    PROVE  Len(q) \in Nat
  BY DEF Queue

\* When the first packet is taken the others move forward by one.
LEMMA QueueTail ==
    ASSUME NEW q, Queue(q), q # <<>>
    PROVE  /\ Queue(Tail(q)) /\ Head(q) = q[1] /\ Len(q) >= 1 /\ Len(Tail(q)) = Len(q) - 1
           /\ \A i \in 1 .. Len(q) - 1 : Tail(q)[i] = q[i + 1]
<1>1. PICK S : q \in Seq(S)
  BY DEF Queue
<1>2. Tail(q) \in Seq(S)
  BY <1>1
<1> QED
  BY <1>1, <1>2 DEF Queue

\* An answer of one packet goes to the end of the queue.
LEMMA JoinOne ==
    ASSUME NEW T, NEW q \in Seq(T), NEW s \in Seq(T), Len(s) = 1
    PROVE  /\ q \o s \in Seq(T) /\ Len(q \o s) = Len(q) + 1 /\ (q \o s)[Len(q) + 1] = s[1]
           /\ \A i \in 1 .. Len(q) : (q \o s)[i] = q[i]
<1> DEFINE u == q \o s
           l == Len(q)
<1>1. u \in Seq(T) /\ Len(u) = l + 1 /\ l \in Nat
  BY ConcatProperties, SMTT(30)
<1>2. \A i \in 1 .. l + 1 : u[i] = IF i <= l THEN q[i] ELSE s[i - l]
  BY ConcatProperties, SMTT(30)
<1> HIDE DEF u, l
<1>3. u[l + 1] = s[(l + 1) - l] /\ (l + 1) - l = 1
  BY <1>1, <1>2
<1>4. u[l + 1] = s[1]
  BY <1>3
<1>5. \A i \in 1 .. l : u[i] = q[i]
  BY <1>1, <1>2
<1> QED
  BY <1>1, <1>4, <1>5 DEF u, l

\* A queue takes a message or drops it.
LEMMA QueueAdds ==
    ASSUME NEW q, Queue(q), NEW r
    PROVE  /\ Queue(Enqueue(q, <<r>>)) /\ Enqueue(q, <<>>) = q
           /\ Enqueue(q, <<r>>) = q \/ Added(q, Enqueue(q, <<r>>), r)
<1>1. PICK S : q \in Seq(S)
  BY DEF Queue
<1> DEFINE T == S \cup {r}
           one == <<r>>
           q2 == q \o one
<1>2. q \in Seq(T)
  BY <1>1
<1>3. one \in Seq(T) /\ Len(one) = 1 /\ one[1] = r
  OBVIOUS
<1>4. q \o <<>> = q
  BY <1>2
<1> HIDE DEF T, one
<1>5. q2 \in Seq(T) /\ Len(q2) = Len(q) + 1 /\ q2[Len(q) + 1] = r /\ \A i \in 1 .. Len(q) : q2[i] = q[i]
  <2> HIDE DEF q2
  <2> QED
    BY <1>2, <1>3, JoinOne DEF q2
<1>6. Enqueue(q, one) = q \/ Enqueue(q, one) = q2
  BY DEF Enqueue
<1>7. Queue(q) /\ Queue(q2)
  BY <1>5 DEF Queue
<1>8. Enqueue(q, <<>>) = q
  BY <1>4 DEF Enqueue
<1>9. Added(q, q2, r)
  BY <1>5 DEF Added
<1>10. Queue(Enqueue(q, one)) /\ (Enqueue(q, one) = q \/ Added(q, Enqueue(q, one), r))
  BY <1>6, <1>7, <1>9
<1> QED
  BY <1>8, <1>10 DEF one

-----------------------------------------------------------------------------
(* The server.                                                             *)

\* Steps that leave the pool alone keep its invariant.
LEMMA PoolUnchanged ==
    ASSUME PoolInv, FreeIsListed, UNCHANGED poolVars
    PROVE  PoolInv' /\ FreeIsListed'
  BY DEF poolVars, PoolInv, PoolTypeOK, MapsAgree, FreeOrLeased, FreeIsListed

\* the address new_lease() is asked for may be anything
LEMMA AnyNewLease ==
    ASSUME PoolInv, FreeIsListed, NEW e \in Eth, NEW a, new_lease(e, a)
    PROVE  PoolInv' /\ FreeIsListed'
<1>1. CASE a \in Addr
  BY <1>1, NewLeaseKeeps
<1>2. CASE a \notin Addr
  <2>1. a \notin free
    BY <1>2, PoolAssumption DEF PoolInv, PoolTypeOK
  <2>2. UNCHANGED poolVars
    BY <2>1 DEF new_lease, poolVars
  <2> QED
    BY <2>2, PoolUnchanged
<1> QED
  BY <1>1, <1>2

\* the calls of the pool that a message makes
LEMMA ServeCalls ==
    ASSUME NEW m, serve(m)
    PROVE  \/ \E a : new_lease(m.eth, a)
           \/ new_lease_any(m.eth)
           \/ extend(m.eth)
           \/ UNCHANGED poolVars
           \/ m.type = "RELEASE" /\ remove(m.eth)
<1>1. CASE m.type = "DISCOVER" /\ offer(m)
  <2>1. new_lease(m.eth, m.requested) \/ new_lease_any(m.eth)
    BY <1>1 DEF offer
  <2> QED
    BY <2>1
<1>2. CASE m.type = "REQUEST" /\ ack_or_nak(m)
  <2>1. outside_of_the_spec(m) \/ renew_or_rebind(m) \/ UNCHANGED poolVars
    BY <1>2 DEF ack_or_nak, selecting, init_reboot
  <2> QED
    BY <2>1 DEF outside_of_the_spec, renew_or_rebind
<1>3. CASE m.type = "RELEASE" /\ release(m)
  BY <1>3 DEF release
<1> QED
  BY <1>1, <1>2, <1>3 DEF serve

\* The server that serves a packet keeps the invariant of its pool.
LEMMA ServeKeepsPool ==
    ASSUME PoolInv, FreeIsListed, NEW m, m.eth \in Eth, serve(m)
    PROVE  PoolInv' /\ FreeIsListed'
<1>1. ASSUME NEW a, new_lease(m.eth, a) PROVE PoolInv' /\ FreeIsListed'
  BY <1>1, AnyNewLease
<1>2. CASE new_lease_any(m.eth)
  BY <1>2, NewLeaseAnyKeeps
<1>3. CASE extend(m.eth)
  <2>1. ends' \in [Pool -> {"running", "past", "extended"}]
    BY <1>3 DEF extend, PoolInv, PoolTypeOK
  <2> QED
    BY <1>3, <2>1, EndsKeeps DEF extend
<1>4. CASE remove(m.eth)
  BY <1>4, RemoveKeeps
<1>5. CASE UNCHANGED poolVars
  BY <1>5, PoolUnchanged
<1> QED
  BY <1>1, <1>2, <1>3, <1>4, <1>5, ServeCalls

\* Only a release of the client takes its lease away.
LEMMA ServeKeepsLeases ==
    ASSUME PoolInv, NEW m, m.eth \in Eth, serve(m), NEW d \in Eth, NEW a, Holds(d, a),
           ~(m.type = "RELEASE" /\ d = m.eth)
    PROVE  Holds(d, a)'
<1>1. a \in Pool /\ leases[a] = d /\ d # None
  BY CommonAssumption DEF Holds
<1>2. a \notin free
  BY <1>1 DEF PoolInv, FreeOrLeased
<1>3. ASSUME NEW b \in free, insert(m.eth, b) PROVE leases'[a] = d
  <2>1. leases' = [leases EXCEPT ![b] = m.eth] /\ a # b
    BY <1>2, <1>3 DEF insert
  <2> QED
    BY <1>1, <2>1 DEF PoolInv, PoolTypeOK
<1>4. ASSUME NEW b, new_lease(m.eth, b) PROVE leases'[a] = d
  <2>1. (b \in free /\ insert(m.eth, b)) \/ leases' = leases
    BY <1>4 DEF new_lease
  <2> QED
    BY <1>1, <1>3, <2>1
<1>5. CASE new_lease_any(m.eth)
  <2>1. leases' = leases \/ (FreeEntries # {} /\ insert(m.eth, free_list[FirstFree]))
    BY <1>5 DEF new_lease_any, poolVars
  <2>2. FreeEntries # {} => free_list[FirstFree] \in free
    BY FirstFreeIsFirst DEF PoolInv
  <2> QED
    BY <1>1, <1>3, <2>1, <2>2 DEF Holds
<1>6. CASE extend(m.eth) \/ UNCHANGED poolVars
  BY <1>1, <1>6 DEF extend, poolVars, Holds
<1>7. CASE m.type = "RELEASE" /\ remove(m.eth)
  <2>1. d # m.eth
    BY <1>7
  <2>2. leases' = leases \/ leases' = [leases EXCEPT ![ips[m.eth]] = None]
    BY <1>7 DEF remove, poolVars
  <2>3. ips[m.eth] # a
    BY <1>1, <2>1 DEF PoolInv, MapsAgree
  <2> QED
    BY <1>1, <2>2, <2>3 DEF PoolInv, PoolTypeOK, Holds
<1> QED
  BY <1>1, <1>4, <1>5, <1>6, <1>7, ServeCalls DEF Holds

\* What the server answers.
LEMMA ServeReplies ==
    ASSUME PoolInv, FreeIsListed, NEW m, m.eth \in Eth, serve(m)
    PROVE  \/ reply' = <<>>
           \/ \E r : /\ reply' = <<r>> /\ r.type \in {"OFFER", "ACK", "NACK"}
                     /\ r.type = "ACK" => /\ m.type = "REQUEST" /\ r.xid = m.xid
                                          /\ Holds(r.eth, r.yiaddr)'
<1>1. PoolInv'
  BY ServeKeepsPool
<1>2. AckedIsLeased'
  BY <1>1, OfferAcks, RequestAcks, Silent DEF serve, release
<1>3. ASSUME NEW r, reply' = <<r>>, r.type = "ACK" PROVE Holds(r.eth, r.yiaddr)'
  <2>1. Len(reply') = 1 /\ reply'[1] = r
    BY <1>3
  <2> QED
    BY <1>2, <1>3, <2>1 DEF AckedIsLeased, Holds
<1>4. CASE m.type = "DISCOVER" /\ offer(m)
  <2>1. \A a : make_offer(m, a).type = "OFFER"
    BY DEF make_offer
  <2>2. reply' = <<>> \/ \E a : reply' = <<make_offer(m, a)>>
    BY <1>4 DEF offer, answer
  <2> QED
    BY <2>1, <2>2
<1>5. CASE m.type = "REQUEST" /\ ack_or_nak(m)
  <2>1. \A a : make_ack(m, a).type = "ACK" /\ make_ack(m, a).xid = m.xid
    BY DEF make_ack
  <2>2. make_nak(m).type = "NACK"
    BY DEF make_nak
  <2>3. reply' = <<>> \/ reply' = <<make_nak(m)>> \/ \E a : reply' = <<make_ack(m, a)>>
    BY <1>5 DEF ack_or_nak, outside_of_the_spec, selecting, init_reboot, renew_or_rebind, answer
  <2> QED
    BY <1>3, <1>5, <2>1, <2>2, <2>3
<1>6. CASE m.type = "RELEASE" /\ release(m)
  BY <1>6 DEF release
<1> QED
  BY <1>4, <1>5, <1>6 DEF serve


-----------------------------------------------------------------------------
(* What a step does to the queues of a client.                             *)

\* A client for which nothing changes but that others get leases
LEMMA OtherKeeps ==
    ASSUME NEW d \in Eth, LeaseTracked(d),
           toServer'[d] = toServer[d], toClient'[d] = toClient[d], xid'[d] = xid[d],
           active'[d] = active[d], my_ip'[d] = my_ip[d], told'[d] = told[d], timers'[d] = timers[d],
           \A a : Holds(d, a) => Holds(d, a)'
    PROVE  LeaseTracked(d)'
<1>1. Queue(toServer[d])' /\ Queue(toClient[d])'
  BY DEF LeaseTracked
<1>2. RepliesFit(d)'
  BY DEF LeaseTracked, RepliesFit
<1>3. RequestsFit(d)' /\ ReleasesFit(d)'
  BY DEF LeaseTracked, RequestsFit, ReleasesFit, Current
<1>4. ClientFits(d)'
  BY DEF LeaseTracked, ClientFits
<1> QED
  BY <1>1, <1>2, <1>3, <1>4 DEF LeaseTracked

\* an id that nothing on its way has
FreshId(c, x) ==
    /\ \A i \in 1 .. Len(toServer[c]) : toServer[c][i].xid # x
    /\ \A i \in 1 .. Len(toClient[c]) : toClient[c][i].xid # x

\* The client asks something, with a new id or for an offer it has.
LEMMA SendKeeps ==
    ASSUME NEW c \in Eth, LeaseTracked(c), NEW r, r.eth = c,
           toServer'[c] = toServer[c] \/ (Queue(toServer'[c]) /\ Added(toServer[c], toServer'[c], r)),
           toClient'[c] = toClient[c], leases' = leases,
           xid'[c] = xid[c] \/ FreshId(c, xid'[c]) \/ "release_inactive" \notin Operators[c],
           r.type = "RELEASE" => /\ "release_inactive" \in Operators[c] /\ ~active'[c]
                                 /\ FreshId(c, xid'[c]),
           active'[c] => active[c] \/ "release_inactive" \notin Operators[c],
           ClientFits(c)'
    PROVE  LeaseTracked(c)'
<1> DEFINE q == toServer[c]
           q2 == toServer'[c]
           p == toClient[c]
           n == Len(q)
<1>1. Queue(q) /\ Queue(q2) /\ Queue(p) /\ n \in Nat
  BY QueueLength DEF LeaseTracked
<1>2. ASSUME NEW i \in 1 .. Len(q2)
      PROVE  \/ i \in 1 .. n /\ q2[i] = q[i]
             \/ i = n + 1 /\ q2[i] = r
  BY <1>1 DEF Added
<1>6. \A i \in 1 .. Len(q2) : \A j \in 1 .. i - 1 : j \in 1 .. n /\ q2[j] = q[j]
  BY <1>1, SMTT(30) DEF Added
<1>3. RepliesFit(c)'
  <2> SUFFICES ASSUME NEW i \in 1 .. Len(p)
               PROVE  /\ p[i].type \in {"OFFER", "ACK", "NACK"}
                      /\ p[i].type = "ACK" /\ p[i].eth = c
                           /\ ("release_inactive" \notin Operators[c] \/ p[i].xid = xid'[c])
                           => Holds(c, p[i].yiaddr)'
    BY DEF RepliesFit
  <2>1. p[i].xid = xid'[c] => p[i].xid = xid[c] \/ "release_inactive" \notin Operators[c]
    BY DEF FreshId
  <2> QED
    BY <2>1 DEF LeaseTracked, RepliesFit, Holds
<1>4. RequestsFit(c)'
  <2> SUFFICES ASSUME NEW i \in 1 .. Len(q2)
               PROVE  /\ q2[i].eth = c
                      /\ q2[i].type = "RELEASE" => "release_inactive" \in Operators[c]
    BY DEF RequestsFit
  <2> QED
    BY <1>2 DEF LeaseTracked, RequestsFit
<1>5. ReleasesFit(c)'
  <2> SUFFICES ASSUME NEW i \in 1 .. Len(q2), q2[i].type = "RELEASE"
               PROVE  /\ ~active'[c]
                      /\ \A j \in 1 .. i - 1 : q2[j].xid # xid'[c]
                      /\ \A j \in 1 .. Len(p) : ~Current(c, p[j])'
    BY DEF ReleasesFit
  <2>1. CASE i \in 1 .. n /\ q2[i] = q[i]
    <3>1. /\ ~active[c] /\ \A j \in 1 .. i - 1 : q[j].xid # xid[c]
          /\ \A j \in 1 .. Len(p) : ~Current(c, p[j])
      BY <2>1 DEF LeaseTracked, ReleasesFit
    <3>2. "release_inactive" \in Operators[c]
      BY <2>1 DEF LeaseTracked, RequestsFit
    <3>3. \A j \in 1 .. i - 1 : q[j].xid # xid'[c]
      BY <1>1, <2>1, <3>1, <3>2 DEF FreshId
    <3>4. \A j \in 1 .. Len(p) : ~Current(c, p[j])'
      BY <3>1, <3>2 DEF Current, FreshId
    <3> QED
      BY <1>6, <3>1, <3>2, <3>3, <3>4
  <2>2. CASE i = n + 1 /\ q2[i] = r
    <3>1. FreshId(c, xid'[c]) /\ ~active'[c]
      BY <2>2
    <3>2. \A j \in 1 .. i - 1 : q2[j].xid # xid'[c]
      BY <1>6, <3>1 DEF FreshId
    <3> QED
      BY <3>1, <3>2 DEF FreshId, Current
  <2> QED
    BY <1>2, <2>1, <2>2
<1> QED
  BY <1>1, <1>3, <1>4, <1>5 DEF LeaseTracked

\* The first reply arrives or is lost.
LEMMA ReplyGoes ==
    ASSUME NEW c \in Eth, LeaseTracked(c), toClient[c] # <<>>,
           toClient'[c] = Tail(toClient[c]), toServer'[c] = toServer[c],
           leases' = leases, xid'[c] = xid[c],
           active'[c] => active[c] \/ \A i \in 1 .. Len(toServer[c]) : toServer[c][i].type # "RELEASE",
           ClientFits(c)'
    PROVE  LeaseTracked(c)'
<1> DEFINE p == toClient[c]
           p2 == toClient'[c]
<1>1. Queue(p) /\ Queue(toServer[c])
  BY DEF LeaseTracked
<1>2. Queue(p2) /\ Len(p) \in Nat /\ Len(p2) = Len(p) - 1
  BY <1>1, QueueTail, QueueLength
<1>3. \A i \in 1 .. Len(p2) : i + 1 \in 1 .. Len(p) /\ p2[i] = p[i + 1]
  BY <1>1, <1>2, QueueTail
<1> HIDE DEF p2
<1>4. RepliesFit(c)'
  BY <1>3 DEF LeaseTracked, RepliesFit, p2, Holds
<1>5. RequestsFit(c)'
  BY DEF LeaseTracked, RequestsFit
<1>6. ReleasesFit(c)'
  BY <1>3 DEF LeaseTracked, ReleasesFit, Current, p2
<1> QED
  BY <1>1, <1>2, <1>4, <1>5, <1>6 DEF LeaseTracked, p2

\* The first request arrives or is lost.
LEMMA RequestGoes ==
    ASSUME NEW c \in Eth, LeaseTracked(c), toServer[c] # <<>>, toServer'[c] = Tail(toServer[c]),
           xid'[c] = xid[c], active'[c] = active[c]
    PROVE  /\ Queue(toServer[c])' /\ RequestsFit(c)'
           /\ (\A j \in 1 .. Len(toClient'[c]) :
                  \/ \E k \in 1 .. Len(toClient[c]) : toClient'[c][j] = toClient[c][k]
                  \/ Current(c, toClient'[c][j]) => toServer[c][1].xid = xid[c])
              => ReleasesFit(c)'
<1> DEFINE q == toServer[c]
           q2 == toServer'[c]
<1>1. Queue(q)
  BY DEF LeaseTracked
<1>2. Queue(q2) /\ Len(q) \in Nat /\ Len(q2) = Len(q) - 1
  BY <1>1, QueueTail, QueueLength
<1>3. \A i \in 1 .. Len(q2) : i + 1 \in 1 .. Len(q) /\ q2[i] = q[i + 1]
  BY <1>1, <1>2, QueueTail
<1> HIDE DEF q2
<1>4. RequestsFit(c)'
  BY <1>3 DEF LeaseTracked, RequestsFit, q2
<1>5. ASSUME \A j \in 1 .. Len(toClient'[c]) :
                  \/ \E k \in 1 .. Len(toClient[c]) : toClient'[c][j] = toClient[c][k]
                  \/ Current(c, toClient'[c][j]) => toServer[c][1].xid = xid[c]
      PROVE  ReleasesFit(c)'
  <2> SUFFICES ASSUME NEW i \in 1 .. Len(q2), q2[i].type = "RELEASE"
               PROVE  /\ ~active'[c]
                      /\ \A j \in 1 .. i - 1 : q2[j].xid # xid'[c]
                      /\ \A j \in 1 .. Len(toClient'[c]) : ~Current(c, toClient[c][j])'
    BY DEF ReleasesFit, q2
  <2>1. i + 1 \in 1 .. Len(q) /\ q[i + 1].type = "RELEASE"
    BY <1>3
  <2>2. /\ ~active[c] /\ \A j \in 1 .. i : q[j].xid # xid[c]
        /\ \A j \in 1 .. Len(toClient[c]) : ~Current(c, toClient[c][j])
    <3> DEFINE k == i + 1
    <3>1. k \in 1 .. Len(q) /\ q[k].type = "RELEASE" /\ k - 1 = i
      BY <1>2, <2>1
    <3> HIDE DEF k
    <3>2. \A m \in 1 .. Len(q) : q[m].type = "RELEASE" =>
             /\ ~active[c] /\ \A j \in 1 .. m - 1 : q[j].xid # xid[c]
             /\ \A j \in 1 .. Len(toClient[c]) : ~Current(c, toClient[c][j])
      BY DEF LeaseTracked, ReleasesFit
    <3>3. /\ ~active[c] /\ \A j \in 1 .. k - 1 : q[j].xid # xid[c]
          /\ \A j \in 1 .. Len(toClient[c]) : ~Current(c, toClient[c][j])
      BY <3>1, <3>2
    <3> QED
      BY <3>1, <3>3
  <2>3. \A j \in 1 .. i - 1 : j \in 1 .. Len(q2) /\ j + 1 \in 1 .. i
    BY <1>2
  <2>4. \A j \in 1 .. i - 1 : q2[j].xid # xid'[c]
    BY <1>3, <2>2, <2>3
  <2>5. q[1].xid # xid[c]
    BY <1>2, <2>2
  <2>6. \A j \in 1 .. Len(toClient'[c]) : ~Current(c, toClient'[c][j])
    BY <1>5, <2>2, <2>5
  <2> QED
    BY <2>2, <2>4, <2>6 DEF Current
<1> QED
  BY <1>2, <1>4, <1>5 DEF q2


-----------------------------------------------------------------------------
(* What a client does.                                                     *)

\* the other clients stay as they are
Only(c) ==
    \A d \in Eth \ {c} : /\ my_ip'[d] = my_ip[d] /\ active'[d] = active[d] /\ xid'[d] = xid[d]
                         /\ timers'[d] = timers[d] /\ told'[d] = told[d]

\* what the client asks has a new id, unless it asks for an offer
Asks(c, r) ==
    /\ sent'[c] = <<r>> /\ r.eth = c
    /\ \/ xid'[c] = xid[c] /\ r.type # "RELEASE"
       \/ r.xid = xid'[c] /\ (r.type = "REQUEST" => r.ciaddr # None)
    /\ r.type = "RELEASE" => "release_inactive" \in Operators[c] /\ ~active'[c]

Acts(c) ==
    /\ DOMAIN my_ip' = Eth /\ DOMAIN active' = Eth /\ DOMAIN xid' = Eth /\ DOMAIN timers' = Eth
    /\ DOMAIN told' = Eth /\ DOMAIN sent' = Eth
    /\ Only(c)
    /\ (sent'[c] = <<>> /\ xid'[c] = xid[c]) \/ \E r : Asks(c, r)
    /\ active'[c] => active[c] \/ "release_inactive" \notin Operators[c]

\* A transaction id that is drawn is used by no packet under way.
LEMMA FreshIds ==
    ASSUME NEW c \in Eth, FreshXid(c), NEW r, sent'[c] = <<r>>, r.type = "REQUEST" => r.ciaddr # None
    PROVE  FreshId(c, r.xid)
<1>1. Len(sent'[c]) = 1 /\ sent'[c][1] = r
  OBVIOUS
<1>2. r.xid \notin XidsInUse(c)
  BY <1>1 DEF FreshXid
<1> QED
  BY <1>2 DEF XidsInUse, FreshId, Items

\* A step of one client leaves the others as they were.
LEMMA OneActs ==
    ASSUME DHCPInv, NEW c \in Eth, Only(c), Shape', PoolInv', FreeIsListed', LeaseTracked(c)',
           \A d \in Eth \ {c} : /\ toServer'[d] = toServer[d] /\ toClient'[d] = toClient[d]
                                /\ \A a : Holds(d, a) => Holds(d, a)'
    PROVE  DHCPInv'
<1>1. ASSUME NEW d \in Eth \ {c} PROVE LeaseTracked(d)'
  <2>1. LeaseTracked(d)
    BY DEF DHCPInv
  <2> QED
    BY <2>1, OtherKeeps DEF Only
<1> QED
  BY <1>1 DEF DHCPInv

\* A step of one client, whose packets fit, keeps the invariant of the network.
LEMMA ActsKeep ==
    ASSUME DHCPInv, NEW c \in Eth, Acts(c), ClientFits(c)', ClientSends(c)
    PROVE  DHCPInv'
<1>1. /\ FreshXid(c) /\ UNCHANGED poolVars /\ toClient' = toClient /\ leases' = leases
      /\ toServer' = [toServer EXCEPT ![c] = Enqueue(@, sent'[c])]
  BY DEF ClientSends, serverVars, poolVars
<1>2. Shape' /\ toServer'[c] = Enqueue(toServer[c], sent'[c]) /\ \A d \in Eth \ {c} : toServer'[d] = toServer[d]
  BY <1>1 DEF DHCPInv, Shape, Acts
<1>3. PoolInv' /\ FreeIsListed'
  BY <1>1, PoolUnchanged DEF DHCPInv
<1>4. LeaseTracked(c) /\ Queue(toServer[c])
  BY DEF DHCPInv, LeaseTracked
<1>5. LeaseTracked(c)'
  <2>1. CASE sent'[c] = <<>> /\ xid'[c] = xid[c]
    <3> DEFINE r == [eth |-> c, type |-> "REQUEST"]
    <3>1. r.eth = c /\ r.type # "RELEASE"
      OBVIOUS
    <3>2. toServer'[c] = toServer[c]
      BY <1>2, <1>4, <2>1, QueueAdds
    <3> HIDE DEF r
    <3>3. active'[c] => active[c] \/ "release_inactive" \notin Operators[c]
      BY DEF Acts
    <3> QED
      BY <1>1, <1>4, <2>1, <3>1, <3>2, <3>3, SendKeeps
  <2>2. ASSUME NEW r, Asks(c, r) PROVE LeaseTracked(c)'
    <3>1. toServer'[c] = toServer[c] \/ (Queue(toServer'[c]) /\ Added(toServer[c], toServer'[c], r))
      BY <1>2, <1>4, <2>2, QueueAdds DEF Asks
    <3>2. r.xid = xid'[c] /\ (r.type = "REQUEST" => r.ciaddr # None) => FreshId(c, xid'[c])
      BY <1>1, <2>2, FreshIds DEF Asks
    <3>3. r.eth = c /\ (xid'[c] = xid[c] \/ FreshId(c, xid'[c]))
      BY <2>2, <3>2 DEF Asks
    <3>4. r.type = "RELEASE" => /\ "release_inactive" \in Operators[c] /\ ~active'[c]
                                /\ FreshId(c, xid'[c])
      BY <2>2, <3>2 DEF Asks
    <3>5. active'[c] => active[c] \/ "release_inactive" \notin Operators[c]
      BY DEF Acts
    <3> QED
      BY <1>1, <1>4, <3>1, <3>3, <3>4, <3>5, SendKeeps
  <2> QED
    BY <2>1, <2>2 DEF Acts
<1>6. \A d \in Eth \ {c} : /\ toServer'[d] = toServer[d] /\ toClient'[d] = toClient[d]
                           /\ \A a : Holds(d, a) => Holds(d, a)'
  BY <1>1, <1>2 DEF Holds
<1>7. Only(c)
  BY DEF Acts
<1> QED
  BY <1>2, <1>3, <1>5, <1>6, <1>7, OneActs


\* What is left alone needs no more facts than these.
LEMMA ActsFits ==
    ASSUME DHCPInv, NEW c \in Eth, SameLease, UNCHANGED leases,
           "RENEW" \in timers'[c] \/ "REBIND" \in timers'[c] =>
               "RENEW" \in timers[c] \/ "REBIND" \in timers[c]
    PROVE  ClientFits(c)'
  BY DEF DHCPInv, LeaseTracked, ClientFits, SameLease, Holds

\* Each timer is such a step.
LEMMA TimerActs ==
    ASSUME DHCPInv, NEW c \in Eth, NEW t, run_timer(c, t), UNCHANGED leases
    PROVE  Acts(c) /\ ClientFits(c)'
<1>1. CASE run_TIMEOUT(c)
  <2>1. UNCHANGED <<xid, timers>> /\ SameLease /\ sent' = [sent EXCEPT ![c] = <<>>]
    BY <1>1 DEF run_TIMEOUT, ignore, Send
  <2>2. Acts(c)
    BY <2>1 DEF Acts, Only, SameLease, DHCPInv, Shape
  <2> QED
    BY <2>1, <2>2, ActsFits
<1>2. CASE run_SELECT(c)
  <2> DEFINE o == choose_offer(offers[c], my_ip[c])
             r == make_request(c, o)
  <2>1. UNCHANGED xid /\ SameLease
    BY <1>2 DEF run_SELECT
  <2>2. /\ sent' = [sent EXCEPT ![c] = <<>>] \/ sent' = [sent EXCEPT ![c] = <<r>>]
        /\ \/ timers' = [timers EXCEPT ![c] = timers[c] \ {"SELECT"}]
           \/ timers' = [timers EXCEPT ![c] = (timers[c] \ {"SELECT"}) \cup {"RESEND_REQUEST"}]
    BY <1>2 DEF run_SELECT, Send, SetTimers, Fired
  <2>3. r.eth = c /\ r.type = "REQUEST"
    BY DEF make_request, bootrequest
  <2> HIDE DEF r
  <2>4. sent'[c] = <<>> \/ Asks(c, r)
    BY <2>1, <2>2, <2>3 DEF Asks, DHCPInv, Shape
  <2>5. DOMAIN sent' = Eth /\ DOMAIN timers' = Eth /\ \A d \in Eth \ {c} : timers'[d] = timers[d]
    BY <2>2 DEF DHCPInv, Shape
  <2>6. Acts(c)
    BY <2>1, <2>4, <2>5 DEF Acts, Only, SameLease, DHCPInv, Shape
  <2>7. "RENEW" \in timers'[c] \/ "REBIND" \in timers'[c] => "RENEW" \in timers[c] \/ "REBIND" \in timers[c]
    BY <2>2 DEF DHCPInv, Shape
  <2> QED
    BY <2>1, <2>6, <2>7, ActsFits
<1>3. CASE run_RESEND_DISCOVER(c)
  <2>1. PICK x : xid' = [xid EXCEPT ![c] = x] /\ sent' = [sent EXCEPT ![c] = <<make_discovery(c, x)>>]
    BY <1>3 DEF run_RESEND_DISCOVER, NewXid, Send
  <2> DEFINE r == make_discovery(c, x)
  <2>2. r.eth = c /\ r.type = "DISCOVER" /\ r.xid = x
    BY DEF make_discovery, bootrequest
  <2> HIDE DEF r
  <2>3. sent' = [sent EXCEPT ![c] = <<r>>]
    BY <2>1 DEF r
  <2>4. Asks(c, r)
    BY <2>1, <2>2, <2>3 DEF Asks, DHCPInv, Shape
  <2>5. UNCHANGED timers /\ SameLease
    BY <1>3 DEF run_RESEND_DISCOVER
  <2>6. Acts(c)
    BY <2>1, <2>3, <2>4, <2>5 DEF Acts, Only, SameLease, DHCPInv, Shape
  <2> QED
    BY <2>5, <2>6, ActsFits
<1>4. CASE run_RESEND_REQUEST(c)
  <2> DEFINE r == make_request(c, best_offer[c])
  <2>1. UNCHANGED <<timers, xid>> /\ SameLease /\ sent' = [sent EXCEPT ![c] = <<r>>]
    BY <1>4 DEF run_RESEND_REQUEST, Send
  <2>2. r.eth = c /\ r.type = "REQUEST"
    BY DEF make_request, bootrequest
  <2> HIDE DEF r
  <2>3. Asks(c, r)
    BY <2>1, <2>2 DEF Asks, DHCPInv, Shape
  <2>4. Acts(c)
    BY <2>1, <2>3 DEF Acts, Only, SameLease, DHCPInv, Shape
  <2> QED
    BY <2>1, <2>4, ActsFits
<1>5. CASE t \in {"RENEW", "REBIND"} /\ run_RENEW_or_REBIND(c, t)
  <2>1. PICK x : /\ xid' = [xid EXCEPT ![c] = x]
                 /\ sent' = [sent EXCEPT ![c] = <<make_request_with_ciaddr(c, x)>>]
    BY <1>5 DEF run_RENEW_or_REBIND, NewXid, Send
  <2> DEFINE r == make_request_with_ciaddr(c, x)
  <2>2. r.eth = c /\ r.type = "REQUEST" /\ r.xid = x /\ r.ciaddr = my_ip[c]
    BY DEF make_request_with_ciaddr, bootrequest
  <2>3. my_ip[c] # None
    BY <1>5 DEF run_RENEW_or_REBIND, DHCPInv, LeaseTracked, ClientFits
  <2> HIDE DEF r
  <2>4. sent' = [sent EXCEPT ![c] = <<r>>]
    BY <2>1 DEF r
  <2>5. Asks(c, r)
    BY <2>1, <2>2, <2>3, <2>4 DEF Asks, DHCPInv, Shape
  <2>6. SameLease /\ (timers' = [timers EXCEPT ![c] = timers[c]] \/ timers' = [timers EXCEPT ![c] = timers[c] \ {t}])
    BY <1>5 DEF run_RENEW_or_REBIND, SetTimers, Fired
  <2>7. Acts(c)
    BY <2>1, <2>4, <2>5, <2>6 DEF Acts, Only, SameLease, DHCPInv, Shape
  <2>8. timers'[c] \subseteq timers[c]
    BY <2>6 DEF DHCPInv, Shape
  <2> QED
    BY <2>6, <2>7, <2>8, ActsFits
<1>6. CASE run_LEASE_EXPIRED(c)
  <2>1. /\ active' = [active EXCEPT ![c] = FALSE]
        /\ UNCHANGED <<my_ip, told, xid>> /\ sent' = [sent EXCEPT ![c] = <<>>]
        /\ timers' = [timers EXCEPT ![c] = {"TIMEOUT", "RESEND_DISCOVER"}]
    BY <1>6 DEF run_LEASE_EXPIRED, enter_init_state, SetTimers, Send
  <2>2. Acts(c)
    BY <2>1 DEF Acts, Only, DHCPInv, Shape
  <2>3. active'[c] = FALSE /\ "RENEW" \notin timers'[c] /\ "REBIND" \notin timers'[c]
    BY <2>1 DEF DHCPInv, Shape
  <2>4. ClientFits(c)'
    BY <2>1, <2>3 DEF DHCPInv, LeaseTracked, ClientFits, Holds
  <2> QED
    BY <2>2, <2>4
<1> QED
  BY <1>1, <1>2, <1>3, <1>4, <1>5, <1>6 DEF run_timer

\* Each handler write of a careful operator is such a step.
LEMMA WritesAct ==
    ASSUME DHCPInv, CarefulOperators, NEW c \in Eth, Release(c) \/ LeaseFalse(c) \/ RestoreLease(c)
    PROVE  Acts(c) /\ ClientFits(c)'
<1>1. UNCHANGED leases
  BY DEF Release, LeaseFalse, RestoreLease, ClientSends, serverVars, poolVars
<1>2. CASE Release(c)
  <2>1. "release_inactive" \in Operators[c] /\ ~active[c]
    BY <1>2 DEF Release, CarefulOperators
  <2>2. PICK x : xid' = [xid EXCEPT ![c] = x] /\ sent' = [sent EXCEPT ![c] = <<make_release(c, x)>>]
    BY <1>2 DEF Release, write_release, NewXid, Send
  <2> DEFINE r == make_release(c, x)
  <2>3. r.eth = c /\ r.type = "RELEASE" /\ r.xid = x
    BY DEF make_release, bootrequest
  <2> HIDE DEF r
  <2>4. sent' = [sent EXCEPT ![c] = <<r>>]
    BY <2>2 DEF r
  <2>5. UNCHANGED timers /\ SameLease
    BY <1>2 DEF Release, write_release
  <2>6. Asks(c, r)
    BY <2>1, <2>2, <2>3, <2>4, <2>5 DEF Asks, SameLease, DHCPInv, Shape
  <2>7. Acts(c)
    BY <2>2, <2>4, <2>5, <2>6 DEF Acts, Only, SameLease, DHCPInv, Shape
  <2> QED
    BY <1>1, <2>5, <2>7, ActsFits
<1>3. CASE LeaseFalse(c)
  <2>1. /\ active' = [active EXCEPT ![c] = FALSE]
        /\ UNCHANGED <<my_ip, told, xid>> /\ sent' = [sent EXCEPT ![c] = <<>>]
        /\ timers' = [timers EXCEPT ![c] = {"TIMEOUT", "RESEND_DISCOVER"}]
    BY <1>3 DEF LeaseFalse, write_lease_false, enter_init_state, SetTimers, Send
  <2>2. Acts(c)
    BY <2>1 DEF Acts, Only, DHCPInv, Shape
  <2>3. active'[c] = FALSE /\ "RENEW" \notin timers'[c] /\ "REBIND" \notin timers'[c]
    BY <2>1 DEF DHCPInv, Shape
  <2>4. ClientFits(c)'
    BY <1>1, <2>1, <2>3 DEF DHCPInv, LeaseTracked, ClientFits, Holds
  <2> QED
    BY <2>2, <2>4
<1>4. CASE RestoreLease(c)
  <2>1. "restart" \in Operators[c] /\ "release_inactive" \notin Operators[c] /\ told[c] # NoLease
    BY <1>4 DEF RestoreLease, CarefulOperators
  <2>2. told[c].ip # None /\ Holds(c, told[c].ip)
    BY <2>1 DEF DHCPInv, LeaseTracked, ClientFits
  <2> DEFINE a == told[c].ip
  <2>3. PICK x : /\ xid' = [xid EXCEPT ![c] = x]
                 /\ sent' = [sent EXCEPT ![c] = <<bootrequest(c, "REQUEST", x, a, None, None)>>]
    BY <1>4 DEF RestoreLease, write_lease_true, NewXid, Send
  <2>4. /\ my_ip' = [my_ip EXCEPT ![c] = a] /\ active' = [active EXCEPT ![c] = TRUE] /\ told' = told
        /\ timers' = [timers EXCEPT ![c] = (timers[c] \ {"RESEND_DISCOVER"}) \cup {"LEASE_EXPIRED"}]
    BY <1>4 DEF RestoreLease, write_lease_true, SetTimers
  <2> DEFINE r == bootrequest(c, "REQUEST", x, a, None, None)
  <2>5. r.eth = c /\ r.type = "REQUEST" /\ r.xid = x /\ r.ciaddr # None
    BY <2>2 DEF bootrequest
  <2> HIDE DEF r, a
  <2>6. sent' = [sent EXCEPT ![c] = <<r>>]
    BY <2>3 DEF r
  <2>7. Asks(c, r)
    BY <2>3, <2>5, <2>6 DEF Asks, DHCPInv, Shape
  <2>8. Acts(c)
    BY <2>1, <2>3, <2>4, <2>6, <2>7 DEF Acts, Only, DHCPInv, Shape
  <2>9. my_ip'[c] = a /\ a # None /\ a \in Pool /\ leases'[a] = c
    BY <1>1, <2>2, <2>4 DEF a, Holds, DHCPInv, Shape
  <2>10. ClientFits(c)'
    <3>1. told'[c] # NoLease => told'[c].ip # None /\ ("restart" \in Operators[c] => Holds(c, told[c].ip)')
      BY <1>1, <2>4 DEF DHCPInv, LeaseTracked, ClientFits, Holds
    <3>2. Holds(c, my_ip[c])' /\ my_ip'[c] # None
      BY <2>9 DEF Holds
    <3> QED
      BY <3>1, <3>2 DEF ClientFits
  <2> QED
    BY <2>8, <2>10
<1> QED
  BY <1>2, <1>3, <1>4


\* A reply arrives: an acknowledgement that the client takes is of an address
\* that is leased to it, and no release is on its way.
LEMMA ReceiveKeeps ==
    ASSUME DHCPInv, NEW c \in Eth, Receive(c)
    PROVE  DHCPInv'
<1> DEFINE m == Head(toClient[c])
<1>1. /\ toClient[c] # <<>> /\ push(c, m) /\ toClient' = [toClient EXCEPT ![c] = Tail(toClient[c])]
      /\ UNCHANGED poolVars /\ leases' = leases /\ toServer' = toServer
  BY DEF Receive, serverVars, poolVars
<1>2. LeaseTracked(c) /\ Shape
  BY DEF DHCPInv
<1>3. m = toClient[c][1] /\ 1 \in 1 .. Len(toClient[c])
  <2>1. Queue(toClient[c])
    BY <1>2 DEF LeaseTracked
  <2> QED
    BY <1>1, <2>1, QueueTail, QueueLength
<1>4. m.type \in {"OFFER", "ACK", "NACK"}
  BY <1>2, <1>3 DEF LeaseTracked, RepliesFit
<1>5. toClient'[c] = Tail(toClient[c]) /\ DOMAIN toClient' = Eth /\ \A d \in Eth \ {c} : toClient'[d] = toClient[d]
  BY <1>1, <1>2 DEF Shape
<1>6. /\ DOMAIN my_ip' = Eth /\ DOMAIN active' = Eth /\ DOMAIN xid' = Eth /\ DOMAIN timers' = Eth
      /\ DOMAIN told' = Eth /\ DOMAIN sent' = Eth
      /\ Only(c) /\ xid'[c] = xid[c]
      /\ active'[c] => active[c] \/ \A i \in 1 .. Len(toServer[c]) : toServer[c][i].type # "RELEASE"
      /\ ClientFits(c)'
  <2>1. CASE /\ UNCHANGED <<my_ip, active, told, xid>>
             /\ sent' = [sent EXCEPT ![c] = <<>>]
             /\ \/ timers' = timers
                \/ timers' = [timers EXCEPT ![c] = {"TIMEOUT", "RESEND_DISCOVER"}]
                \/ timers' = [timers EXCEPT ![c] = (timers[c] \ {"RESEND_DISCOVER"}) \cup {"SELECT"}]
    <3>1. DOMAIN timers' = Eth /\ \A d \in Eth \ {c} : timers'[d] = timers[d]
      BY <1>2, <2>1 DEF Shape
    <3>2. "RENEW" \in timers'[c] \/ "REBIND" \in timers'[c] => "RENEW" \in timers[c] \/ "REBIND" \in timers[c]
      BY <1>2, <2>1 DEF Shape
    <3>3. ClientFits(c)'
      BY <1>1, <1>2, <2>1, <3>2 DEF LeaseTracked, ClientFits, Holds
    <3>4. DOMAIN sent' = Eth
      BY <1>2, <2>1 DEF Shape
    <3> QED
      BY <1>2, <2>1, <3>1, <3>3, <3>4 DEF Shape, Only
  <2>2. CASE Current(c, m) /\ recv_ack(c, m)
    <3> DEFINE a == m.yiaddr
               t == IF m.ltime = 0 THEN NoLease ELSE [ip |-> a, server |-> m.server]
               on == m.ltime # 0
    <3>1. Holds(c, a)
      BY <1>2, <1>3, <2>2 DEF LeaseTracked, RepliesFit, Current
    <3>2. a # None
      BY <3>1, CommonAssumption, PoolAssumption DEF Holds
    <3>3. /\ my_ip' = [my_ip EXCEPT ![c] = a] /\ told' = [told EXCEPT ![c] = t] /\ xid' = xid
          /\ active' = [active EXCEPT ![c] = on] /\ sent' = [sent EXCEPT ![c] = <<>>]
      BY <2>2 DEF recv_ack, Send
    <3>4. t = NoLease \/ t.ip = a
      OBVIOUS
    <3>5. PICK ts : timers' = [timers EXCEPT ![c] = ts]
      BY <2>2 DEF recv_ack, SetTimers
    <3>6. \A i \in 1 .. Len(toServer[c]) : toServer[c][i].type # "RELEASE"
      BY <1>2, <1>3, <2>2 DEF LeaseTracked, ReleasesFit
    <3> HIDE DEF a, t, on
    <3>7. my_ip'[c] = a /\ told'[c] = t /\ a \in Pool /\ leases'[a] = c
      BY <1>1, <1>2, <3>1, <3>3 DEF Shape, Holds
    <3>8. ClientFits(c)'
      BY <3>2, <3>4, <3>7 DEF ClientFits, Holds
    <3> QED
      BY <1>2, <3>3, <3>5, <3>6, <3>8 DEF Shape, Only
  <2>3. CASE m.eth # c \/ m.xid # xid[c]
    <3>1. ignore(c)
      BY <1>1, <2>3 DEF push
    <3> QED
      BY <2>1, <3>1 DEF ignore, SameLease, Send
  <2>4. CASE m.eth = c /\ m.xid = xid[c]
    <3>1. CASE m.type = "OFFER"
      <4>1. recv_offer(c, m)
        BY <1>1, <2>4, <3>1 DEF push
      <4> QED
        BY <2>1, <4>1 DEF recv_offer, SameLease, Send, SetTimers
    <3>2. CASE m.type = "ACK"
      <4>1. recv_ack(c, m)
        BY <1>1, <2>4, <3>2 DEF push
      <4> QED
        BY <2>2, <2>4, <3>2, <4>1 DEF Current
    <3>3. CASE m.type = "NACK"
      <4>1. recv_nack(c, m)
        BY <1>1, <2>4, <3>3 DEF push
      <4> QED
        BY <2>1, <4>1 DEF recv_nack, SameLease, Send, SetTimers, enter_init_state
    <3> QED
      BY <1>4, <3>1, <3>2, <3>3
  <2> QED
    BY <2>3, <2>4
<1>7. LeaseTracked(c)'
  BY <1>1, <1>2, <1>5, <1>6, ReplyGoes
<1>8. PoolInv' /\ FreeIsListed'
  BY <1>1, PoolUnchanged DEF DHCPInv
<1>9. Shape'
  BY <1>1, <1>2, <1>5, <1>6 DEF Shape
<1>10. \A d \in Eth \ {c} : /\ toServer'[d] = toServer[d] /\ toClient'[d] = toClient[d]
                            /\ \A a : Holds(d, a) => Holds(d, a)'
  BY <1>1, <1>5 DEF Holds
<1> QED
  BY <1>6, <1>7, <1>8, <1>9, <1>10, OneActs

\* A packet that is lost takes a promise with it and makes none.
LEMMA LoseKeeps ==
    ASSUME DHCPInv, NEW c \in Eth, Lose(c)
    PROVE  DHCPInv'
<1>1. UNCHANGED <<my_ip, active, xid, timers, told, sent, poolVars, leases>>
  BY DEF Lose, clientVars, serverVars, poolVars
<1>2. LeaseTracked(c) /\ Shape /\ ClientFits(c)
  BY DEF DHCPInv, LeaseTracked
<1>3. ClientFits(c)' /\ Only(c)
  BY <1>1, <1>2 DEF ClientFits, Holds, Only
<1>4. PoolInv' /\ FreeIsListed'
  BY <1>1, PoolUnchanged DEF DHCPInv
<1>5. CASE toServer[c] # <<>> /\ toServer' = [toServer EXCEPT ![c] = Tail(@)] /\ UNCHANGED toClient
  <2>1. toServer'[c] = Tail(toServer[c]) /\ DOMAIN toServer' = Eth /\ \A d \in Eth \ {c} : toServer'[d] = toServer[d]
    BY <1>2, <1>5 DEF Shape
  <2>2. xid'[c] = xid[c] /\ active'[c] = active[c] /\ toClient'[c] = toClient[c]
    BY <1>1, <1>5
  <2>3. Queue(toServer[c])' /\ RequestsFit(c)' /\ ReleasesFit(c)'
    BY <1>2, <1>5, <2>1, <2>2, RequestGoes
  <2>4. RepliesFit(c)' /\ Queue(toClient[c])'
    BY <1>1, <1>2, <2>2 DEF LeaseTracked, RepliesFit, Holds
  <2>5. LeaseTracked(c)'
    BY <1>3, <2>3, <2>4 DEF LeaseTracked
  <2>6. Shape'
    BY <1>1, <1>2, <1>5, <2>1 DEF Shape
  <2>7. \A d \in Eth \ {c} : /\ toServer'[d] = toServer[d] /\ toClient'[d] = toClient[d]
                             /\ \A a : Holds(d, a) => Holds(d, a)'
    BY <1>1, <1>5, <2>1 DEF Holds
  <2> QED
    BY <1>3, <1>4, <2>5, <2>6, <2>7, OneActs
<1>6. CASE toClient[c] # <<>> /\ toClient' = [toClient EXCEPT ![c] = Tail(@)] /\ UNCHANGED toServer
  <2>1. toClient'[c] = Tail(toClient[c]) /\ DOMAIN toClient' = Eth /\ \A d \in Eth \ {c} : toClient'[d] = toClient[d]
    BY <1>2, <1>6 DEF Shape
  <2>2. xid'[c] = xid[c] /\ active'[c] = active[c] /\ toServer'[c] = toServer[c] /\ leases' = leases
    BY <1>1, <1>6
  <2>3. LeaseTracked(c)'
    BY <1>2, <1>3, <1>6, <2>1, <2>2, ReplyGoes
  <2>4. Shape'
    BY <1>1, <1>2, <1>6, <2>1 DEF Shape
  <2>5. \A d \in Eth \ {c} : /\ toServer'[d] = toServer[d] /\ toClient'[d] = toClient[d]
                             /\ \A a : Holds(d, a) => Holds(d, a)'
    BY <1>1, <1>6, <2>1 DEF Holds
  <2> QED
    BY <1>3, <1>4, <2>3, <2>4, <2>5, OneActs
<1> QED
  BY <1>5, <1>6 DEF Lose

\* A restarted client never releases, so that its ids need not be new.
LEMMA RestartKeeps ==
    ASSUME DHCPInv, CarefulOperators, NEW c \in Eth, Restart(c)
    PROVE  DHCPInv'
<1>1. PICK ip \in Configured :
         my_ip' = [my_ip EXCEPT ![c] = ip] /\ active' = [active EXCEPT ![c] = FALSE]
         /\ xid' = [xid EXCEPT ![c] = 0] /\ timers' = [timers EXCEPT ![c] = {"TIMEOUT", "RESEND_DISCOVER"}]
         /\ told' = told /\ sent' = [sent EXCEPT ![c] = <<>>]
         /\ UNCHANGED poolVars /\ leases' = leases /\ UNCHANGED <<toServer, toClient>>
  BY DEF Restart, Send, serverVars, poolVars
<1>2. "release_inactive" \notin Operators[c]
  BY DEF Restart, CarefulOperators
<1>3. LeaseTracked(c) /\ Shape
  BY DEF DHCPInv
<1>4. Only(c) /\ Shape'
  BY <1>1, <1>3 DEF Only, Shape
<1>5. ~active'[c] /\ "RENEW" \notin timers'[c] /\ "REBIND" \notin timers'[c]
  BY <1>1, <1>3 DEF Shape
<1>6. ClientFits(c)'
  BY <1>1, <1>3, <1>5 DEF LeaseTracked, ClientFits, Holds
<1> DEFINE r == [eth |-> c, type |-> "REQUEST"]
<1>7. r.eth = c /\ r.type # "RELEASE"
  OBVIOUS
<1> HIDE DEF r
<1>8. LeaseTracked(c)'
  BY <1>1, <1>2, <1>3, <1>6, <1>7, SendKeeps
<1>9. PoolInv' /\ FreeIsListed'
  BY <1>1, PoolUnchanged DEF DHCPInv
<1>10. \A d \in Eth \ {c} : /\ toServer'[d] = toServer[d] /\ toClient'[d] = toClient[d]
                            /\ \A a : Holds(d, a) => Holds(d, a)'
  BY <1>1 DEF Holds
<1> QED
  BY <1>4, <1>8, <1>9, <1>10, OneActs


-----------------------------------------------------------------------------
(* The server answers.                                                     *)
LEMMA ServeKeeps ==
    ASSUME DHCPInv, CarefulOperators, NEW c \in Eth, Serve(c)
    PROVE  DHCPInv'
<1> DEFINE m == Head(toServer[c])
           p == toClient[c]
           p2 == toClient'[c]
<1>1. /\ toServer[c] # <<>> /\ serve(m) /\ toServer' = [toServer EXCEPT ![c] = Tail(toServer[c])]
      /\ toClient' = [toClient EXCEPT ![c] = Enqueue(toClient[c], reply')]
      /\ UNCHANGED <<my_ip, active, xid, timers, told, sent>>
  BY DEF Serve, clientVars
<1>2. PoolInv /\ FreeIsListed /\ Shape /\ LeaseTracked(c) /\ Queue(p) /\ Queue(toServer[c])
  BY DEF DHCPInv, LeaseTracked
<1>3. m = toServer[c][1] /\ 1 \in 1 .. Len(toServer[c])
  BY <1>1, <1>2, QueueTail, QueueLength
<1>4. m.eth = c
  BY <1>2, <1>3 DEF LeaseTracked, RequestsFit
<1>5. PoolInv' /\ FreeIsListed'
  BY <1>1, <1>2, <1>4, ServeKeepsPool
<1>6. ASSUME NEW d \in Eth, NEW a, Holds(d, a), ~(m.type = "RELEASE" /\ d = c)
      PROVE  Holds(d, a)'
  BY <1>1, <1>2, <1>4, <1>6, ServeKeepsLeases
<1>7. /\ toServer'[c] = Tail(toServer[c]) /\ DOMAIN toServer' = Eth /\ DOMAIN toClient' = Eth
      /\ p2 = Enqueue(p, reply')
      /\ \A d \in Eth \ {c} : toServer'[d] = toServer[d] /\ toClient'[d] = toClient[d]
  BY <1>1, <1>2 DEF Shape
<1>8. \/ p2 = p
      \/ \E r : /\ Queue(p2) /\ Added(p, p2, r) /\ r.type \in {"OFFER", "ACK", "NACK"}
                /\ r.type = "ACK" => m.type = "REQUEST" /\ r.xid = m.xid /\ Holds(r.eth, r.yiaddr)'
  <2>1. CASE reply' = <<>>
    BY <1>2, <1>7, <2>1, QueueAdds
  <2>2. ASSUME NEW r, reply' = <<r>>, r.type \in {"OFFER", "ACK", "NACK"},
               r.type = "ACK" => m.type = "REQUEST" /\ r.xid = m.xid /\ Holds(r.eth, r.yiaddr)'
        PROVE  p2 = p \/ (Queue(p2) /\ Added(p, p2, r))
    BY <1>2, <1>7, <2>2, QueueAdds
  <2>3. \/ reply' = <<>>
        \/ \E r : /\ reply' = <<r>> /\ r.type \in {"OFFER", "ACK", "NACK"}
                  /\ r.type = "ACK" => m.type = "REQUEST" /\ r.xid = m.xid /\ Holds(r.eth, r.yiaddr)'
    BY <1>1, <1>2, <1>4, ServeReplies
  <2> QED
    BY <2>1, <2>2, <2>3
<1> HIDE DEF p2
\* each reply is one that was on its way or the new one
<1>9. /\ Queue(p2)
      /\ \A i \in 1 .. Len(p2) :
            \/ \E k \in 1 .. Len(p) : p2[i] = p[k]
            \/ /\ p2[i].type \in {"OFFER", "ACK", "NACK"}
               /\ p2[i].type = "ACK" =>
                     /\ m.type = "REQUEST" /\ p2[i].xid = m.xid
                     /\ p2[i].yiaddr \in Pool /\ leases'[p2[i].yiaddr] = p2[i].eth
  <2>1. CASE p2 = p
    BY <1>2, <2>1
  <2>2. ASSUME NEW r, Queue(p2), Added(p, p2, r), r.type \in {"OFFER", "ACK", "NACK"},
               r.type = "ACK" => m.type = "REQUEST" /\ r.xid = m.xid /\ Holds(r.eth, r.yiaddr)',
               NEW i \in 1 .. Len(p2)
        PROVE  (\E k \in 1 .. Len(p) : p2[i] = p[k]) \/ p2[i] = r
    <3>1. Len(p) \in Nat
      BY <1>2, QueueLength
    <3> QED
      BY <2>2, <3>1 DEF Added
  <2> QED
    BY <1>8, <2>1, <2>2 DEF Holds
<1>10. m.type = "RELEASE" => /\ ~active[c] /\ "restart" \notin Operators[c] /\ "release_inactive" \in Operators[c]
                             /\ \A k \in 1 .. Len(p) : ~Current(c, p[k])
  <2>1. m.type = "RELEASE" => "release_inactive" \in Operators[c]
    BY <1>2, <1>3 DEF LeaseTracked, RequestsFit
  <2>2. m.type = "RELEASE" => ~active[c] /\ \A k \in 1 .. Len(p) : ~Current(c, p[k])
    BY <1>2, <1>3 DEF LeaseTracked, ReleasesFit
  <2> QED
    BY <2>1, <2>2 DEF CarefulOperators
<1>11. RepliesFit(c)'
  <2> SUFFICES ASSUME NEW i \in 1 .. Len(p2)
               PROVE  /\ p2[i].type \in {"OFFER", "ACK", "NACK"}
                      /\ p2[i].type = "ACK" /\ p2[i].eth = c
                           /\ ("release_inactive" \notin Operators[c] \/ p2[i].xid = xid[c])
                           => p2[i].yiaddr \in Pool /\ leases'[p2[i].yiaddr] = c
    BY <1>1 DEF RepliesFit, Holds, p2
  <2>1. ASSUME NEW k \in 1 .. Len(p), p2[i] = p[k]
        PROVE  /\ p2[i].type \in {"OFFER", "ACK", "NACK"}
               /\ p2[i].type = "ACK" /\ p2[i].eth = c
                    /\ ("release_inactive" \notin Operators[c] \/ p2[i].xid = xid[c])
                    => p2[i].yiaddr \in Pool /\ leases'[p2[i].yiaddr] = c
    <3> DEFINE y == p[k].yiaddr
    <3>1. /\ p[k].type \in {"OFFER", "ACK", "NACK"}
          /\ p[k].type = "ACK" /\ p[k].eth = c /\ ("release_inactive" \notin Operators[c] \/ p[k].xid = xid[c])
               => Holds(c, y)
      BY <1>2 DEF LeaseTracked, RepliesFit
    <3>2. p[k].type = "ACK" /\ p[k].eth = c /\ ("release_inactive" \notin Operators[c] \/ p[k].xid = xid[c])
            => m.type # "RELEASE"
      BY <1>10 DEF Current
    <3>3. \A a : Holds(c, a) /\ m.type # "RELEASE" => a \in Pool /\ leases'[a] = c
      BY <1>6 DEF Holds
    <3> HIDE DEF y
    <3>4. Holds(c, y) /\ m.type # "RELEASE" => y \in Pool /\ leases'[y] = c
      BY <3>3
    <3> QED
      BY <2>1, <3>1, <3>2, <3>4 DEF y
  <2> QED
    BY <1>9, <2>1
<1>12. Queue(toServer[c])' /\ RequestsFit(c)' /\ ReleasesFit(c)'
  <2>1. xid'[c] = xid[c] /\ active'[c] = active[c]
    BY <1>1
  <2>2. \A j \in 1 .. Len(p2) : \/ \E k \in 1 .. Len(p) : p2[j] = p[k]
                                \/ Current(c, p2[j]) => toServer[c][1].xid = xid[c]
    BY <1>3, <1>9 DEF Current
  <2> QED
    BY <1>1, <1>2, <1>7, <2>1, <2>2, RequestGoes DEF p2
<1>13. ClientFits(c)'
  <2>1. \A a : Holds(c, a) /\ m.type # "RELEASE" => a \in Pool /\ leases'[a] = c
    BY <1>6 DEF Holds
  <2>2. active[c] => my_ip[c] \in Pool /\ leases'[my_ip[c]] = c
    BY <1>2, <1>10, <2>1 DEF LeaseTracked, ClientFits
  <2>3. told[c] # NoLease /\ "restart" \in Operators[c] => told[c].ip \in Pool /\ leases'[told[c].ip] = c
    BY <1>2, <1>10, <2>1 DEF LeaseTracked, ClientFits
  <2> QED
    BY <1>1, <1>2, <2>2, <2>3 DEF LeaseTracked, ClientFits, Holds
<1>14. LeaseTracked(c)'
  BY <1>9, <1>11, <1>12, <1>13 DEF LeaseTracked, p2
<1>15. Only(c) /\ Shape'
  BY <1>1, <1>2, <1>7 DEF Only, Shape
<1>16. \A d \in Eth \ {c} : /\ toServer'[d] = toServer[d] /\ toClient'[d] = toClient[d]
                            /\ \A a : Holds(d, a) => Holds(d, a)'
  BY <1>6, <1>7
<1> QED
  BY <1>5, <1>14, <1>15, <1>16, OneActs

\* A lease whose time runs out on the server stays in its maps.
LEMMA ExpireKeeps ==
    ASSUME DHCPInv, ServerTick, UNCHANGED <<clientVars, netVars>>
    PROVE  DHCPInv'
<1>1. PICK a \in Pool : run_out(a)
  BY DEF ServerTick
<1>2. UNCHANGED <<ips, leases, free, free_list>> /\ ends' \in [Pool -> {"running", "past", "extended"}]
  BY <1>1 DEF run_out, DHCPInv, PoolInv, PoolTypeOK
<1>3. PoolInv' /\ FreeIsListed'
  BY <1>2, EndsKeeps DEF DHCPInv
<1>4. Shape'
  BY DEF DHCPInv, Shape, clientVars, netVars
<1>5. ASSUME NEW d \in Eth PROVE LeaseTracked(d)'
  <2>1. LeaseTracked(d) /\ \A b : Holds(d, b) => Holds(d, b)'
    BY <1>2 DEF DHCPInv, Holds
  <2> QED
    BY <2>1, OtherKeeps DEF clientVars, netVars
<1> QED
  BY <1>3, <1>4, <1>5 DEF DHCPInv

\* The network starts within the invariant.
LEMMA DHCPStart == DHCPInit => DHCPInv
<1> SUFFICES ASSUME DHCPInit PROVE DHCPInv
  OBVIOUS
<1>1. PoolInv /\ FreeIsListed
  BY PoolStart DEF DHCPInit, ServerInit
<1>2. Shape
  BY DEF DHCPInit, ClientInit, Shape
<1>3. ASSUME NEW c \in Eth PROVE LeaseTracked(c)
  <2>1. /\ active[c] = FALSE /\ timers[c] = {"TIMEOUT", "RESEND_DISCOVER"} /\ told[c] = NoLease
        /\ toServer[c] = <<>> /\ toClient[c] = <<>>
    BY DEF DHCPInit, ClientInit
  <2>2. <<>> \in Seq({}) /\ Len(<<>>) = 0
    OBVIOUS
  <2> QED
    BY <2>1, <2>2 DEF LeaseTracked, Queue, RepliesFit, RequestsFit, ReleasesFit, ClientFits
<1> QED
  BY <1>1, <1>2, <1>3 DEF DHCPInv

\* Every step of the network keeps the invariant.
LEMMA DHCPStep ==
    ASSUME DHCPInv, CarefulOperators, [DHCPNext]_dhcpVars
    PROVE  DHCPInv'
<1>1. CASE UNCHANGED dhcpVars
  <2>1. UNCHANGED poolVars /\ UNCHANGED <<clientVars, netVars>> /\ leases' = leases
    BY <1>1 DEF dhcpVars, serverVars, poolVars
  <2>2. PoolInv' /\ FreeIsListed'
    BY <2>1, PoolUnchanged DEF DHCPInv
  <2>3. Shape'
    BY <2>1 DEF DHCPInv, Shape, clientVars, netVars
  <2>4. ASSUME NEW d \in Eth PROVE LeaseTracked(d)'
    <3>1. LeaseTracked(d) /\ \A b : Holds(d, b) => Holds(d, b)'
      BY <2>1 DEF DHCPInv, Holds
    <3> QED
      BY <2>1, <3>1, OtherKeeps DEF clientVars, netVars
  <2> QED
    BY <2>2, <2>3, <2>4 DEF DHCPInv
<1>2. ASSUME NEW c \in Eth, NEW t, Timer(c, t) PROVE DHCPInv'
  <2>1. run_timer(c, t) /\ ClientSends(c)
    BY <1>2 DEF Timer
  <2>2. UNCHANGED leases
    BY <2>1 DEF ClientSends, serverVars, poolVars
  <2>3. Acts(c) /\ ClientFits(c)'
    BY <2>1, <2>2, TimerActs
  <2> QED
    BY <2>1, <2>3, ActsKeep
<1>3. ASSUME NEW c \in Eth, Release(c) \/ LeaseFalse(c) \/ RestoreLease(c) PROVE DHCPInv'
  <2>1. ClientSends(c)
    BY <1>3 DEF Release, LeaseFalse, RestoreLease
  <2>2. Acts(c) /\ ClientFits(c)'
    BY <1>3, WritesAct
  <2> QED
    BY <2>1, <2>2, ActsKeep
<1>4. CASE Expire
  BY <1>4, ExpireKeeps DEF Expire
<1> QED
  BY <1>1, <1>2, <1>3, <1>4, ReceiveKeeps, ServeKeeps, LoseKeeps, RestartKeeps DEF DHCPNext, About

\* A client that reports an active lease has it, and nobody else does, as long as
\* the operators are careful: whatever is lost or late, whichever timer fires too
\* early, however often clients are restarted with their old lease and whatever
\* the server's clock does.
THEOREM ActiveAlwaysLeased ==
    ASSUME CarefulOperators
    PROVE  DHCPSpec => []ActiveIsLeased
<1>1. DHCPInit => DHCPInv
  BY DHCPStart
<1>2. DHCPInv /\ [DHCPNext]_dhcpVars => DHCPInv'
  BY DHCPStep
<1>3. DHCPInv => ActiveIsLeased
  BY DEF DHCPInv, LeaseTracked, ClientFits, Holds, ActiveIsLeased
<1> QED
  BY <1>1, <1>2, <1>3, PTL DEF DHCPSpec

\* No two clients report an active lease of one address, which they may when an
\* operator releases a lease in use (NoSharedAddress is violated then).
THEOREM CarefulNeverShare ==
    ASSUME CarefulOperators
    PROVE  DHCPSpec => []NoSharedAddress
<1>1. DHCPInit => DHCPInv
  BY DHCPStart
<1>2. DHCPInv /\ [DHCPNext]_dhcpVars => DHCPInv'
  BY DHCPStep
<1>3. DHCPInv => NoSharedAddress
  BY DEF DHCPInv, LeaseTracked, ClientFits, Holds, NoSharedAddress
<1> QED
  BY <1>1, <1>2, <1>3, PTL DEF DHCPSpec
=============================================================================
