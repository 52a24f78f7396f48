-------------------------- MODULE Services_proofs ---------------------------
(***************************************************************************)
(* The elements that keep their own state, each by itself, for every value *)
(* of the constants of its module:                                         *)
(*                                                                         *)
(*   Multicast    a channel is pruned upstream only when nobody else wants *)
(*                it (Sparing: what the routers upstream were told of each *)
(*                source, for every router and host that wants it)         *)
(*   NATPT        both ends of a translated stream see it contiguous       *)
(*                (Contiguous: where the last text of each direction was   *)
(*                put, and by how much each mapping moves numbers)         *)
(*   Tunnels      PPTPServer uses no call it has deleted (PPTPInv), and a  *)
(*                GRE packet passes in order, although numbers wrap        *)
(*                (GREInv: how far the sender may be ahead)                *)
(*   FlowTables   RTPClassifier tells streams apart, and LeaseHash keeps   *)
(*                clients apart (RTPInv, HashInv)                          *)
(*   Queues       PriorityQueue counts its packets and starves no queue    *)
(*                (PrioInv: how many turns ago a queue was passed), and    *)
(*                DataQueuesMulticast serves no packet of the next period  *)
(*                (MQInv: the guard is behind packets of this period)      *)
(*                                                                         *)
(* Loops of the code are recursive functions of the number of rounds; they *)
(* are followed with LoopExists and UpTo of the module Lemmas.             *)
(***************************************************************************)
EXTENDS Multicast, NATPT, Tunnels, FlowTables, Queues, FiniteSetTheorems, SequenceTheorems, Lemmas

-----------------------------------------------------------------------------
(* Multicast: hosts and routers, and what is asked for upstream.           *)

\* Associations of some of the keys K with values of W
PartialOf(K, W) == UNION {[D -> W] : D \in SUBSET K}

LEMMA PartialFacts ==
    ASSUME NEW K, NEW W, NEW C \in PartialOf(K, W)
    PROVE  DOMAIN C \subseteq K /\ \A x \in DOMAIN C : C[x] \in W
BY DEF PartialOf

\* P is C with v at k, in an association of keys K with values of W.
WithAt(P, C, k, v, K, W) ==
    /\ P \in PartialOf(K, W) /\ DOMAIN P = DOMAIN C \cup {k} /\ P[k] = v
    /\ \A x \in DOMAIN C : x # k => P[x] = C[x]
\* P is C without the keys in S.
Without(P, C, S, K, W) ==
    P \in PartialOf(K, W) /\ DOMAIN P = DOMAIN C \ S /\ \A x \in DOMAIN P : P[x] = C[x]

LEMMA PartialPut ==
    ASSUME NEW K, NEW W, NEW C \in PartialOf(K, W), NEW k \in K, NEW v \in W, NEW P, P = Put(C, k, v)
    PROVE  WithAt(P, C, k, v, K, W)
<1>1. PICK D \in SUBSET K : C \in [D -> W]
  BY DEF PartialOf
<1>2. P = [x \in D \cup {k} |-> IF x = k THEN v ELSE C[x]]
  BY <1>1 DEF Put
<1>3. P \in [D \cup {k} -> W] /\ D \cup {k} \in SUBSET K
  BY <1>1, <1>2
<1> QED
  BY <1>1, <1>2, <1>3 DEF PartialOf, WithAt

LEMMA PartialDrop ==
    ASSUME NEW K, NEW W, NEW C \in PartialOf(K, W), NEW S, NEW P, P = Drop(C, S)
    PROVE  Without(P, C, S, K, W)
<1>1. PICK D \in SUBSET K : C \in [D -> W]
  BY DEF PartialOf
<1>2. P = [x \in D \ S |-> C[x]]
  BY <1>1 DEF Drop, Restrict
<1>3. P \in [D \ S -> W] /\ D \ S \in SUBSET K
  BY <1>1, <1>2
<1> QED
  BY <1>1, <1>2, <1>3 DEF PartialOf, Without

LEMMA PartialExcept ==
    ASSUME NEW K, NEW W, NEW C \in PartialOf(K, W), NEW k \in DOMAIN C, NEW v \in W, NEW P, P = [C EXCEPT ![k] = v]
    PROVE  WithAt(P, C, k, v, K, W)
<1>1. PICK D \in SUBSET K : C \in [D -> W]
  BY DEF PartialOf
<1>2. P \in [D -> W]
  BY <1>1
<1>3. P \in PartialOf(K, W)
  BY <1>1, <1>2 DEF PartialOf
<1>4. DOMAIN P = DOMAIN C \cup {k} /\ P[k] = v /\ \A x \in DOMAIN C : x # k => P[x] = C[x]
  OBVIOUS
<1> QED
  BY <1>3, <1>4 DEF WithAt

Rec == [mode : Modes, sources : Seq(Addresses)]
Members == PartialOf(Receiver, Rec)
Asked == {"none", "join", "pruned by hosts", "pruned by routers"}
Router == [groups : PartialOf(Channel, Members), pim : PartialOf(Iface, SUBSET (Channel \X Addresses)),
           connected : BOOLEAN, halted : BOOLEAN, upstream : [Channel \X Addresses -> Asked]]

\* What a router upstream was told of a source is what hosts and routers want.
Spared(m, g, s) ==
    LET state == m.upstream[<<g, Wire(s)>>]
    IN  /\ ~getPIMreceivers(m, ntohl(Wire(s)), g) => state \in {"join", "pruned by routers"}
        /\ ~getIGMPreceivers(m, Wire(s), g) /\ ~m.connected => state \in {"join", "pruned by hosts"}
TidyGroups(G) ==
    \A g \in DOMAIN G : DOMAIN G[g] # {} /\ \A r \in DOMAIN G[g] : IsInjective(G[g][r].sources)
Tidy(m) == TidyGroups(m.groups)
\* Every source that a host has listed in G is listed in H.
ListedIn(G, H) ==
    \A g \in DOMAIN G : \A r \in DOMAIN G[g] : \A s \in Sender :
        Contains(G[g][r].sources, Wire(s)) =>
            g \in DOMAIN H /\ \E q \in DOMAIN H[g] : Contains(H[g][q].sources, Wire(s))
Sparing == {m \in Router : Tidy(m) /\ \A g \in Channel, s \in Sender : Spared(m, g, s)}

\* x is m but for its groups.
Regrouped(x, m) ==
    x \in Sparing /\ x.pim = m.pim /\ x.upstream = m.upstream /\ x.connected = m.connected

MulticastInv == mc \in Sparing /\ copies \subseteq Receiver \cup Iface

\* What is asked upstream depends on nothing else, and fewer hosts ask for less.
LEMMA FewerListed ==
    ASSUME NEW m \in Sparing, NEW x \in Router, Tidy(x),
           x.pim = m.pim, x.upstream = m.upstream, x.connected = m.connected,
           \A g \in Channel, s \in Sender : getIGMPreceivers(m, Wire(s), g) => getIGMPreceivers(x, Wire(s), g)
    PROVE  x \in Sparing
<1>1. \A g \in Channel, s \in Sender : Spared(m, g, s)
  BY DEF Sparing
<1>2. \A g \in Channel, s \in Sender : getPIMreceivers(x, ntohl(Wire(s)), g) = getPIMreceivers(m, ntohl(Wire(s)), g)
  BY DEF getPIMreceivers
<1>3. \A g \in Channel, s \in Sender : Spared(x, g, s)
  BY <1>1, <1>2 DEF Spared
<1> QED
  BY <1>3 DEF Sparing

\* The groups of a router are replaced.
LEMMA OtherGroups ==
    ASSUME NEW m \in Sparing, NEW G \in PartialOf(Channel, Members), NEW x, x = [m EXCEPT !.groups = G],
           TidyGroups(G), ListedIn(G, m.groups)
    PROVE  Regrouped(x, m)
<1>1. m \in Router
  BY DEF Sparing
<1>2. x \in Router /\ x.groups = G /\ x.pim = m.pim /\ x.upstream = m.upstream /\ x.connected = m.connected
  BY <1>1 DEF Router
<1>3. Tidy(x)
  BY <1>2 DEF Tidy
<1>4. \A g \in Channel, s \in Sender : getIGMPreceivers(m, Wire(s), g) => getIGMPreceivers(x, Wire(s), g)
  BY <1>2 DEF getIGMPreceivers, ListedIn
<1>5. x \in Sparing
  BY <1>2, <1>3, <1>4, FewerListed
<1> QED
  BY <1>2, <1>5 DEF Regrouped

LEMMA GroupFacts ==
    ASSUME NEW m \in Sparing
    PROVE  /\ m \in Router /\ m.groups \in PartialOf(Channel, Members) /\ DOMAIN m.groups \subseteq Channel
           /\ \A g \in DOMAIN m.groups :
                 /\ m.groups[g] \in PartialOf(Receiver, Rec) /\ m.groups[g] \in Members /\ DOMAIN m.groups[g] \subseteq Receiver
                 /\ DOMAIN m.groups[g] # {}
                 /\ \A r \in DOMAIN m.groups[g] : m.groups[g][r] \in Rec /\ IsInjective(m.groups[g][r].sources)
<1>1. m \in Router /\ Tidy(m)
  BY DEF Sparing
<1>2. m.groups \in PartialOf(Channel, Members)
  BY <1>1 DEF Router
<1>3. DOMAIN m.groups \subseteq Channel /\ \A g \in DOMAIN m.groups : m.groups[g] \in Members
  BY <1>2, PartialFacts
<1>4. ASSUME NEW g \in DOMAIN m.groups
      PROVE  /\ m.groups[g] \in PartialOf(Receiver, Rec) /\ DOMAIN m.groups[g] \subseteq Receiver
             /\ \A r \in DOMAIN m.groups[g] : m.groups[g][r] \in Rec
  <2>1. PICK C \in PartialOf(Receiver, Rec) : C = m.groups[g]
    BY <1>3 DEF Members
  <2>2. DOMAIN C \subseteq Receiver /\ \A r \in DOMAIN C : C[r] \in Rec
    BY <2>1, PartialFacts
  <2> QED
    BY <2>1, <2>2
<1> QED
  BY <1>1, <1>2, <1>3, <1>4 DEF Tidy, TidyGroups

\* A receiver joins, in any mode.
LEMMA JoinSpares ==
    ASSUME NEW m \in Sparing, NEW r \in Receiver, NEW g \in Channel, NEW garbage \in Modes,
           NEW x, x = joingroup(addgroup(m, g), r, g, garbage)
    PROVE  x \in Sparing
<1>0. m.groups \in PartialOf(Channel, Members) /\ m \in Router
  BY GroupFacts
<1>1. PICK e : e = [mode |-> garbage, sources |-> <<>>]
  OBVIOUS
<1>2. e \in Rec /\ e.sources = <<>> /\ IsInjective(e.sources)
  BY <1>1 DEF Rec, IsInjective
<1>3. PICK A : A = addgroup(m, g)
  OBVIOUS
<1>4. PICK M \in PartialOf(Receiver, Rec) :
         /\ A.groups[g] = M /\ M = (IF g \in DOMAIN m.groups THEN m.groups[g] ELSE <<>>)
         /\ A \in Router /\ A.groups \in PartialOf(Channel, Members) /\ DOMAIN A.groups = DOMAIN m.groups \cup {g}
         /\ (\A h \in DOMAIN m.groups : h # g => A.groups[h] = m.groups[h])
         /\ \E B \in PartialOf(Channel, Members) : A = [m EXCEPT !.groups = B]
  <2>1. CASE g \in DOMAIN m.groups
    <3>1. A = m
      BY <1>3, <2>1 DEF addgroup
    <3>2. m.groups[g] \in PartialOf(Receiver, Rec)
      BY <2>1, GroupFacts
    <3>3. m = [m EXCEPT !.groups = m.groups]
      BY <1>0 DEF Router
    <3> QED
      BY <1>0, <2>1, <3>1, <3>2, <3>3
  <2>2. CASE g \notin DOMAIN m.groups
    <3>1. PICK M : M = <<>>
      OBVIOUS
    <3>2. M \in PartialOf(Receiver, Rec) /\ M \in Members
      <4>1. M \in [{} -> Rec]
        BY <3>1
      <4> QED
        BY <4>1 DEF PartialOf, Members
    <3>3. PICK B : B = Put(m.groups, g, M)
      OBVIOUS
    <3>4. /\ B \in PartialOf(Channel, Members) /\ DOMAIN B = DOMAIN m.groups \cup {g} /\ B[g] = M
          /\ \A h \in DOMAIN m.groups : h # g => B[h] = m.groups[h]
      <4>1. PICK H : H = m.groups
        OBVIOUS
      <4>2. H \in PartialOf(Channel, Members)
        BY <1>0, <4>1
      <4>3. B = Put(H, g, M)
        BY <3>3, <4>1
      <4>4. WithAt(B, H, g, M, Channel, Members)
        BY <3>2, <4>2, <4>3, PartialPut
      <4> QED
        BY <4>1, <4>4 DEF WithAt
    <3>5. A = [m EXCEPT !.groups = B]
      BY <1>3, <2>2, <3>1, <3>3 DEF addgroup
    <3>6. A \in Router /\ A.groups = B
      BY <1>0, <3>4, <3>5 DEF Router
    <3> QED
      BY <2>2, <3>1, <3>2, <3>4, <3>5, <3>6
  <2> QED
    BY <2>1, <2>2
<1>5. CASE r \in DOMAIN M
  <2>1. x = A
    BY <1>3, <1>4, <1>5 DEF joingroup, Member
  <2>2. g \in DOMAIN m.groups
    <3> SUFFICES ASSUME g \notin DOMAIN m.groups PROVE FALSE
      OBVIOUS
    <3>1. M = <<>>
      BY <1>4
    <3> QED
      BY <1>5, <3>1
  <2>3. A = m
    BY <1>3, <2>2 DEF addgroup
  <2> QED
    BY <2>1, <2>3
<1>6. CASE r \notin DOMAIN M
  <2>1. PICK N : N = Put(M, r, e)
    OBVIOUS
  <2>2. /\ N \in PartialOf(Receiver, Rec) /\ DOMAIN N = DOMAIN M \cup {r} /\ N[r] = e
        /\ \A q \in DOMAIN M : q # r => N[q] = M[q]
    <3>1. WithAt(N, M, r, e, Receiver, Rec)
      BY <1>2, <1>4, <2>1, PartialPut
    <3> QED
      BY <3>1 DEF WithAt
  <2>3. N \in Members
    BY <2>2 DEF Members
  <2>4. PICK G : G = [A.groups EXCEPT ![g] = N]
    OBVIOUS
  <2>5. /\ G \in PartialOf(Channel, Members) /\ DOMAIN G = DOMAIN A.groups /\ G[g] = N
        /\ \A h \in DOMAIN A.groups : h # g => G[h] = A.groups[h]
    <3>1. PICK H : H = A.groups
      OBVIOUS
    <3>2. H \in PartialOf(Channel, Members) /\ g \in DOMAIN H
      BY <1>4, <3>1
    <3>3. G = [H EXCEPT ![g] = N]
      BY <2>4, <3>1
    <3>4. WithAt(G, H, g, N, Channel, Members)
      BY <2>3, <3>2, <3>3, PartialExcept
    <3> QED
      BY <3>1, <3>2, <3>4 DEF WithAt
  <2>6. x = [m EXCEPT !.groups = G]
    <3>1. x = [A EXCEPT !.groups[g] = Put(@, r, [mode |-> garbage, sources |-> <<>>])]
      BY <1>3, <1>4, <1>6 DEF joingroup, Member
    <3>2. x = [A EXCEPT !.groups = G]
      BY <1>1, <1>4, <2>1, <2>4, <3>1
    <3>3. PICK B : A = [m EXCEPT !.groups = B]
      BY <1>4
    <3> QED
      BY <3>2, <3>3
  <2>7. ASSUME NEW h \in DOMAIN G PROVE DOMAIN G[h] # {} /\ \A q \in DOMAIN G[h] : IsInjective(G[h][q].sources)
    <3>1. CASE h = g
      <4>1. ASSUME NEW q \in DOMAIN N PROVE IsInjective(N[q].sources)
        <5>1. CASE q = r
          BY <1>2, <2>2, <5>1
        <5>2. CASE q # r
          <6>1. q \in DOMAIN M /\ N[q] = M[q]
            BY <2>2, <4>1, <5>2
          <6>2. g \in DOMAIN m.groups
            <7> SUFFICES ASSUME g \notin DOMAIN m.groups PROVE FALSE
              OBVIOUS
            <7>1. M = <<>>
              BY <1>4
            <7> QED
              BY <6>1, <7>1
          <6>3. M = m.groups[g]
            BY <1>4, <6>2
          <6> QED
            BY <6>1, <6>2, <6>3, GroupFacts
        <5> QED
          BY <5>1, <5>2
      <4> QED
        BY <2>2, <2>5, <3>1, <4>1
    <3>2. CASE h # g
      <4>1. h \in DOMAIN m.groups /\ G[h] = m.groups[h]
        BY <1>4, <2>5, <2>7, <3>2
      <4> QED
        BY <4>1, GroupFacts
    <3> QED
      BY <3>1, <3>2
  <2>8. ASSUME NEW h \in DOMAIN G, NEW q \in DOMAIN G[h], NEW s \in Sender, Contains(G[h][q].sources, Wire(s))
        PROVE  h \in DOMAIN m.groups /\ \E p \in DOMAIN m.groups[h] : Contains(m.groups[h][p].sources, Wire(s))
    <3>1. CASE h = g
      <4>1. q # r
        <5> SUFFICES ASSUME q = r PROVE FALSE
          OBVIOUS
        <5>1. Contains(<<>>, Wire(s))
          BY <1>2, <2>2, <2>5, <2>8, <3>1
        <5> QED
          BY <5>1 DEF Contains
      <4>2. q \in DOMAIN M /\ G[h][q] = M[q]
        BY <2>2, <2>5, <2>8, <3>1, <4>1
      <4>3. g \in DOMAIN m.groups
        <5> SUFFICES ASSUME g \notin DOMAIN m.groups PROVE FALSE
          OBVIOUS
        <5>1. M = <<>>
          BY <1>4
        <5> QED
          BY <4>2, <5>1
      <4> QED
        BY <1>4, <2>8, <3>1, <4>2, <4>3
    <3>2. CASE h # g
      <4>1. h \in DOMAIN m.groups /\ G[h] = m.groups[h]
        BY <1>4, <2>5, <2>8, <3>2
      <4> QED
        BY <2>8, <4>1
    <3> QED
      BY <3>1, <3>2
  <2>9. TidyGroups(G) /\ ListedIn(G, m.groups)
    BY <2>7, <2>8 DEF TidyGroups, ListedIn
  <2>10. Regrouped(x, m)
    BY <2>5, <2>6, <2>9, OtherGroups
  <2> QED
    BY <2>10 DEF Regrouped
<1> QED
  BY <1>5, <1>6

\* The record of a receiver is replaced by one with fewer sources.
LEMMA OtherRecord ==
    ASSUME NEW m \in Sparing, NEW g \in DOMAIN m.groups, NEW r \in DOMAIN m.groups[g], NEW e \in Rec,
           IsInjective(e.sources),
           \A s \in Sender : Contains(e.sources, Wire(s)) => Contains(m.groups[g][r].sources, Wire(s)),
           NEW x, x = [m EXCEPT !.groups[g][r] = e]
    PROVE  x \in Sparing
<1>1. PICK M : M = [m.groups[g] EXCEPT ![r] = e]
  OBVIOUS
<1>2. M \in PartialOf(Receiver, Rec) /\ DOMAIN M = DOMAIN m.groups[g] /\ M[r] = e /\ \A q \in DOMAIN M : q # r => M[q] = m.groups[g][q]
  <2>1. PICK C : C = m.groups[g]
    OBVIOUS
  <2>2. C \in PartialOf(Receiver, Rec) /\ r \in DOMAIN C
    BY <2>1, GroupFacts
  <2>3. M = [C EXCEPT ![r] = e]
    BY <1>1, <2>1
  <2>4. WithAt(M, C, r, e, Receiver, Rec)
    BY <2>2, <2>3, PartialExcept
  <2> QED
    BY <2>1, <2>2, <2>4 DEF WithAt
<1>3. PICK G : G = [m.groups EXCEPT ![g] = M]
  OBVIOUS
<1>4. /\ G \in PartialOf(Channel, Members) /\ DOMAIN G = DOMAIN m.groups /\ G[g] = M
      /\ \A h \in DOMAIN m.groups : h # g => G[h] = m.groups[h]
  <2>1. PICK H : H = m.groups
    OBVIOUS
  <2>2. H \in PartialOf(Channel, Members) /\ M \in Members /\ g \in DOMAIN H
    BY <1>2, <2>1, GroupFacts DEF Members
  <2>3. G = [H EXCEPT ![g] = M]
    BY <1>3, <2>1
  <2>4. WithAt(G, H, g, M, Channel, Members)
    BY <2>2, <2>3, PartialExcept
  <2> QED
    BY <2>1, <2>2, <2>4 DEF WithAt
<1>5. x = [m EXCEPT !.groups = G]
  BY <1>1, <1>3
<1>6. ASSUME NEW h \in DOMAIN G PROVE DOMAIN G[h] # {} /\ \A q \in DOMAIN G[h] : IsInjective(G[h][q].sources)
  <2>1. CASE h = g
    BY <1>2, <1>4, <2>1, GroupFacts
  <2>2. CASE h # g
    BY <1>4, <1>6, <2>2, GroupFacts
  <2> QED
    BY <2>1, <2>2
<1>7. ASSUME NEW h \in DOMAIN G, NEW q \in DOMAIN G[h], NEW s \in Sender, Contains(G[h][q].sources, Wire(s))
      PROVE  h \in DOMAIN m.groups /\ \E p \in DOMAIN m.groups[h] : Contains(m.groups[h][p].sources, Wire(s))
  <2>1. CASE h = g
    <3>1. CASE q = r
      BY <1>2, <1>4, <1>7, <2>1, <3>1
    <3>2. CASE q # r
      BY <1>2, <1>4, <1>7, <2>1, <3>2
    <3> QED
      BY <3>1, <3>2
  <2>2. CASE h # g
    BY <1>4, <1>7, <2>2
  <2> QED
    BY <2>1, <2>2
<1>8. TidyGroups(G) /\ ListedIn(G, m.groups)
  BY <1>6, <1>7 DEF TidyGroups, ListedIn
<1>9. Regrouped(x, m)
  BY <1>4, <1>5, <1>8, OtherGroups
<1> QED
  BY <1>9 DEF Regrouped

\* A receiver leaves.
LEMMA LeaveSpares ==
    ASSUME NEW m \in Sparing, NEW r, NEW g, NEW x, x = leavegroup(m, r, g)
    PROVE  Regrouped(x, m)
<1>0. m.groups \in PartialOf(Channel, Members)
  BY GroupFacts
<1>1. CASE ~Member(m, r, g)
  BY <1>1 DEF leavegroup, Regrouped
<1>2. CASE Member(m, r, g) /\ DOMAIN m.groups[g] = {r}
  <2>1. PICK G : G = Drop(m.groups, {g})
    OBVIOUS
  <2>2. G \in PartialOf(Channel, Members) /\ DOMAIN G = DOMAIN m.groups \ {g} /\ \A h \in DOMAIN G : G[h] = m.groups[h]
    <3>1. PICK H : H = m.groups
      OBVIOUS
    <3>2. Without(G, H, {g}, Channel, Members)
      <4>1. H \in PartialOf(Channel, Members) /\ G = Drop(H, {g})
        BY <1>0, <2>1, <3>1
      <4> QED
        BY <4>1, PartialDrop
    <3> QED
      BY <3>1, <3>2 DEF Without
  <2>3. x = [m EXCEPT !.groups = G]
    BY <1>2, <2>1 DEF leavegroup
  <2>4. \A h \in DOMAIN G : DOMAIN G[h] # {} /\ \A q \in DOMAIN G[h] : IsInjective(G[h][q].sources)
    BY <2>2, GroupFacts
  <2>5. \A h \in DOMAIN G : \A q \in DOMAIN G[h] : \A s \in Sender :
           Contains(G[h][q].sources, Wire(s)) =>
               h \in DOMAIN m.groups /\ \E p \in DOMAIN m.groups[h] : Contains(m.groups[h][p].sources, Wire(s))
    BY <2>2
  <2>6. TidyGroups(G) /\ ListedIn(G, m.groups)
    BY <2>4, <2>5 DEF TidyGroups, ListedIn
  <2> QED
    BY <2>2, <2>3, <2>6, OtherGroups
<1>3. CASE Member(m, r, g) /\ DOMAIN m.groups[g] # {r}
  <2>0. g \in DOMAIN m.groups /\ r \in DOMAIN m.groups[g]
    BY <1>3 DEF Member
  <2>1. PICK M : M = Drop(m.groups[g], {r})
    OBVIOUS
  <2>2. M \in PartialOf(Receiver, Rec) /\ DOMAIN M = DOMAIN m.groups[g] \ {r} /\ \A q \in DOMAIN M : M[q] = m.groups[g][q]
    <3>1. PICK C \in PartialOf(Receiver, Rec) : C = m.groups[g]
      BY <2>0, GroupFacts
    <3>2. Without(M, C, {r}, Receiver, Rec)
      <4>1. M = Drop(C, {r})
        BY <2>1, <3>1
      <4> QED
        BY <3>1, <4>1, PartialDrop
    <3> QED
      BY <3>1, <3>2 DEF Without
  <2>3. PICK G : G = [m.groups EXCEPT ![g] = M]
    OBVIOUS
  <2>4. /\ G \in PartialOf(Channel, Members) /\ DOMAIN G = DOMAIN m.groups /\ G[g] = M
        /\ \A h \in DOMAIN m.groups : h # g => G[h] = m.groups[h]
    <3>1. PICK H : H = m.groups
      OBVIOUS
    <3>2. H \in PartialOf(Channel, Members) /\ M \in Members /\ g \in DOMAIN H
      BY <1>0, <2>0, <2>2, <3>1 DEF Members
    <3>3. G = [H EXCEPT ![g] = M]
      BY <2>3, <3>1
    <3>4. WithAt(G, H, g, M, Channel, Members)
      BY <3>2, <3>3, PartialExcept
    <3> QED
      BY <3>1, <3>2, <3>4 DEF WithAt
  <2>5. x = [m EXCEPT !.groups = G]
    BY <1>3, <2>1, <2>3 DEF leavegroup
  <2>6. DOMAIN M # {}
    BY <1>3, <2>0, <2>2
  <2>7. ASSUME NEW h \in DOMAIN G PROVE DOMAIN G[h] # {} /\ \A q \in DOMAIN G[h] : IsInjective(G[h][q].sources)
    <3>1. CASE h = g
      <4>1. \A q \in DOMAIN m.groups[g] : IsInjective(m.groups[g][q].sources)
        BY <2>0, GroupFacts
      <4> QED
        BY <2>2, <2>4, <2>6, <3>1, <4>1
    <3>2. CASE h # g
      BY <2>4, <2>7, <3>2, GroupFacts
    <3> QED
      BY <3>1, <3>2
  <2>8. \A h \in DOMAIN G : \A q \in DOMAIN G[h] : \A s \in Sender :
           Contains(G[h][q].sources, Wire(s)) =>
               h \in DOMAIN m.groups /\ \E p \in DOMAIN m.groups[h] : Contains(m.groups[h][p].sources, Wire(s))
    BY <2>2, <2>4
  <2>9. TidyGroups(G) /\ ListedIn(G, m.groups)
    BY <2>7, <2>8 DEF TidyGroups, ListedIn
  <2> QED
    BY <2>4, <2>5, <2>9, OtherGroups
<1> QED
  BY <1>1, <1>2, <1>3


\* The two byte orders of an address.
LEMMA Swaps ==
    ASSUME NEW s \in Sender
    PROVE  /\ Wire(s) \in Addresses /\ ntohl(Wire(s)) \in Addresses
           /\ ntohl(ntohl(Wire(s))) = Wire(s) /\ ntohl(Wire(s)) # Wire(s)
           /\ \A t \in Sender : (Wire(t) = Wire(s)) = (t = s) /\ (ntohl(Wire(t)) = ntohl(Wire(s))) = (t = s)
BY DEF Wire, ntohl, Addresses

\* The parts of a router.
LEMMA RouterFacts ==
    ASSUME NEW m \in Sparing
    PROVE  /\ m \in Router /\ Tidy(m) /\ m.connected \in BOOLEAN /\ m.upstream \in [Channel \X Addresses -> Asked]
           /\ \A h \in Channel, t \in Sender : Spared(m, h, t)
BY DEF Sparing, Router

\* In y, nobody has joined another source than s of g that nobody had joined in m.
NoOther(m, y, g, s) ==
    \A h \in Channel, t \in Sender : <<h, t>> # <<g, s>> =>
        /\ getPIMreceivers(m, ntohl(Wire(t)), h) => getPIMreceivers(y, ntohl(Wire(t)), h)
        /\ getIGMPreceivers(m, Wire(t), h) => getIGMPreceivers(y, Wire(t), h)
\* Who wants s of g in y is content with how a router upstream is asked for it.
Content(y, g, s, how) ==
    /\ ~getPIMreceivers(y, ntohl(Wire(s)), g) => how \in {"join", "pruned by routers"}
    /\ ~getIGMPreceivers(y, Wire(s), g) /\ ~y.connected => how \in {"join", "pruned by hosts"}

\* Nobody else is disturbed when a router is asked for one source of a group.
LEMMA AskedForOne ==
    ASSUME NEW m \in Sparing, NEW y \in Router, Tidy(y), y.connected = m.connected, y.upstream = m.upstream,
           NEW g \in Channel, NEW s \in Sender, NEW how \in Asked, NEW x,
           x = generatejoin(y, g, ntohl(Wire(s)), how),
           NoOther(m, y, g, s), Content(y, g, s, how)
    PROVE  x \in Sparing
<1>1. /\ m.upstream \in [Channel \X Addresses -> Asked]
      /\ \A h \in Channel, t \in Sender : Spared(m, h, t)
  BY RouterFacts
<1>2. PICK U : U = [m.upstream EXCEPT ![<<g, Wire(s)>>] = how]
  OBVIOUS
<1>3. <<g, Wire(s)>> \in Channel \X Addresses
  BY Swaps
<1>4. U \in [Channel \X Addresses -> Asked]
  BY <1>1, <1>2, <1>3
<1>5. x = [y EXCEPT !.upstream = U]
  BY <1>2, Swaps DEF generatejoin
<1>6. /\ x \in Router /\ x.upstream = U /\ x.connected = m.connected /\ x.groups = y.groups /\ x.pim = y.pim
  BY <1>4, <1>5 DEF Router
<1>7. Tidy(x)
  BY <1>6 DEF Tidy
<1>8. ASSUME NEW h \in Channel, NEW t \in Sender PROVE Spared(x, h, t)
  <2>1. getPIMreceivers(x, ntohl(Wire(t)), h) = getPIMreceivers(y, ntohl(Wire(t)), h)
    BY <1>6 DEF getPIMreceivers
  <2>2. getIGMPreceivers(x, Wire(t), h) = getIGMPreceivers(y, Wire(t), h)
    BY <1>6 DEF getIGMPreceivers
  <2>3. CASE <<h, t>> = <<g, s>>
    <3>1. x.upstream[<<h, Wire(t)>>] = how
      BY <1>1, <1>2, <1>3, <1>6, <2>3
    <3> QED
      BY <1>6, <2>1, <2>2, <2>3, <3>1 DEF Spared, Content
  <2>4. CASE <<h, t>> # <<g, s>>
    <3>1. Wire(t) \in Addresses /\ <<h, Wire(t)>> # <<g, Wire(s)>>
      BY <2>4, Swaps
    <3>2. x.upstream[<<h, Wire(t)>>] = m.upstream[<<h, Wire(t)>>]
      BY <1>1, <1>2, <1>6, <3>1
    <3>3. Spared(m, h, t)
      BY <1>1
    <3> QED
      BY <1>6, <2>1, <2>2, <2>4, <3>2, <3>3 DEF Spared, NoOther
  <2> QED
    BY <2>3, <2>4
<1> QED
  BY <1>6, <1>7, <1>8 DEF Sparing

\* A router that stops says nothing.
LEMMA HaltSpares ==
    ASSUME NEW m \in Sparing, NEW b \in BOOLEAN, NEW x, x = [m EXCEPT !.halted = b]
    PROVE  x \in Sparing
<1>1. m \in Router /\ Tidy(m)
  BY RouterFacts
<1>2. x \in Router /\ x.groups = m.groups /\ x.pim = m.pim /\ x.upstream = m.upstream /\ x.connected = m.connected
  BY <1>1 DEF Router
<1>3. Tidy(x)
  BY <1>1, <1>2 DEF Tidy
<1>4. \A g \in Channel, s \in Sender : getIGMPreceivers(m, Wire(s), g) => getIGMPreceivers(x, Wire(s), g)
  BY <1>2 DEF getIGMPreceivers
<1> QED
  BY <1>2, <1>3, <1>4, FewerListed

LEMMA ModeSpares ==
    ASSUME NEW m \in Sparing, NEW r, NEW g, NEW mode \in Modes, NEW x, x = set_receiver_mode(m, r, g, mode)
    PROVE  x \in Sparing
<1>1. CASE ~Member(m, r, g)
  BY <1>1 DEF set_receiver_mode
<1>2. CASE Member(m, r, g)
  <2>1. g \in DOMAIN m.groups /\ r \in DOMAIN m.groups[g]
    BY <1>2 DEF Member
  <2>2. PICK d : d = m.groups[g][r]
    OBVIOUS
  <2>3. d \in Rec /\ IsInjective(d.sources)
    BY <2>1, <2>2, GroupFacts
  <2>4. PICK e : e = [d EXCEPT !.mode = mode]
    OBVIOUS
  <2>5. e \in Rec /\ e.sources = d.sources
    BY <2>3, <2>4 DEF Rec
  <2>6. x = [m EXCEPT !.groups[g][r] = e]
    BY <1>2, <2>2, <2>4 DEF set_receiver_mode
  <2>7. \A s \in Sender : Contains(e.sources, Wire(s)) => Contains(m.groups[g][r].sources, Wire(s))
    BY <2>2, <2>5
  <2>8. IsInjective(e.sources)
    BY <2>3, <2>5
  <2> QED
    BY <2>1, <2>5, <2>6, <2>7, <2>8, OtherRecord
<1> QED
  BY <1>1, <1>2


\* What is appended to a list, or taken from it.
LEMMA AppendFacts ==
    ASSUME NEW S, NEW ss \in Seq(S), NEW a \in S, NEW l, l = Append(ss, a)
    PROVE  /\ l \in Seq(S) /\ (IsInjective(ss) /\ ~Contains(ss, a) => IsInjective(l))
           /\ \A x : Contains(l, x) => x = a \/ Contains(ss, x)
<1>1. l \in Seq(S) /\ Len(l) = Len(ss) + 1 /\ l[Len(ss) + 1] = a /\ \A k \in 1 .. Len(ss) : l[k] = ss[k]
  OBVIOUS
<1>2. \A k \in 1 .. Len(l) : k = Len(ss) + 1 \/ k \in 1 .. Len(ss)
  BY <1>1
<1>3. DOMAIN l = 1 .. Len(l) /\ DOMAIN ss = 1 .. Len(ss)
  BY <1>1
<1> QED
  BY <1>1, <1>2, <1>3 DEF IsInjective, Contains

LEMMA RemovedAt ==
    ASSUME NEW S, NEW ss \in Seq(S), NEW k \in DOMAIN ss, NEW l, l = RemoveAt(ss, k)
    PROVE  /\ l \in Seq(S) /\ (IsInjective(ss) => IsInjective(l))
           /\ \A x : Contains(l, x) => Contains(ss, x)
<1>1. Len(ss) \in Nat /\ k \in 1 .. Len(ss)
  OBVIOUS
<1>2. PICK a : a = SubSeq(ss, 1, k - 1)
  OBVIOUS
<1>3. PICK b : b = SubSeq(ss, k + 1, Len(ss))
  OBVIOUS
<1>4. a \in Seq(S) /\ Len(a) = k - 1 /\ \A j \in 1 .. k - 1 : a[j] = ss[j]
  BY <1>1, <1>2
<1>5. b \in Seq(S) /\ Len(b) = Len(ss) - k /\ \A j \in 1 .. Len(ss) - k : b[j] = ss[k + j]
  <2>1. b \in Seq(S)
    BY <1>1, <1>3
  <2>2. Len(b) = Len(ss) - k
    BY <1>1, <1>3
  <2>3. \A j \in 1 .. Len(ss) - k : b[j] = ss[k + j]
    BY <1>1, <1>3
  <2> QED
    BY <2>1, <2>2, <2>3
<1>6. l = a \o b
  BY <1>2, <1>3 DEF RemoveAt
<1>7. l \in Seq(S) /\ Len(l) = Len(ss) - 1
  BY <1>1, <1>4, <1>5, <1>6
<1>8. \A j \in 1 .. Len(l) : l[j] = (IF j < k THEN ss[j] ELSE ss[j + 1])
  <2> SUFFICES ASSUME NEW j \in 1 .. Len(l) PROVE l[j] = (IF j < k THEN ss[j] ELSE ss[j + 1])
    OBVIOUS
  <2>1. CASE j < k
    <3>1. j \in 1 .. Len(a)
      BY <1>1, <1>4, <2>1
    <3>2. l[j] = a[j]
      BY <1>4, <1>5, <1>6, <3>1
    <3> QED
      BY <1>1, <1>4, <2>1, <3>1, <3>2
  <2>2. CASE ~(j < k)
    <3>1. j - Len(a) \in 1 .. Len(ss) - k /\ j \in 1 .. Len(a) + Len(b) /\ j > Len(a)
      BY <1>1, <1>4, <1>5, <1>7, <2>2
    <3>2. l[j] = b[j - Len(a)]
      <4>1. j \in 1 .. Len(a) + Len(b) /\ ~(j <= Len(a))
        BY <1>1, <1>4, <3>1
      <4>2. a \in Seq(S) /\ b \in Seq(S)
        BY <1>4, <1>5
      <4>3. \A i \in 1 .. Len(a) + Len(b) : (a \o b)[i] = IF i <= Len(a) THEN a[i] ELSE b[i - Len(a)]
        BY <4>2, ConcatProperties
      <4> QED
        BY <1>6, <4>1, <4>3
    <3>3. k + (j - Len(a)) = j + 1
      BY <1>1, <1>4
    <3>4. b[j - Len(a)] = ss[k + (j - Len(a))]
      BY <1>5, <3>1
    <3> QED
      BY <2>2, <3>2, <3>3, <3>4
  <2> QED
    BY <2>1, <2>2
<1>9. DOMAIN l = 1 .. Len(l) /\ DOMAIN ss = 1 .. Len(ss)
  BY <1>7
<1>10. IsInjective(ss) => IsInjective(l)
  <2> SUFFICES ASSUME IsInjective(ss), NEW i \in 1 .. Len(l), NEW j \in 1 .. Len(l), l[i] = l[j] PROVE i = j
    BY <1>9 DEF IsInjective
  <2>1. i + 1 \in 1 .. Len(ss) /\ j + 1 \in 1 .. Len(ss) /\ i \in 1 .. Len(ss) /\ j \in 1 .. Len(ss)
    BY <1>1, <1>7
  <2>2. \A x, y \in 1 .. Len(ss) : ss[x] = ss[y] => x = y
    BY <1>9 DEF IsInjective
  <2>3. l[i] = (IF i < k THEN ss[i] ELSE ss[i + 1]) /\ l[j] = (IF j < k THEN ss[j] ELSE ss[j + 1])
    BY <1>8
  <2>4. CASE i < k /\ j < k
    BY <2>1, <2>2, <2>3, <2>4
  <2>5. CASE ~(i < k) /\ ~(j < k)
    <3>1. i + 1 = j + 1
      BY <2>1, <2>2, <2>3, <2>5
    <3> QED
      BY <3>1
  <2>6. CASE i < k /\ ~(j < k)
    <3>1. i = j + 1
      BY <2>1, <2>2, <2>3, <2>6
    <3> QED
      BY <1>1, <2>6, <3>1
  <2>7. CASE ~(i < k) /\ j < k
    <3>1. i + 1 = j
      BY <2>1, <2>2, <2>3, <2>7
    <3> QED
      BY <1>1, <2>7, <3>1
  <2> QED
    BY <2>4, <2>5, <2>6, <2>7
<1>11. \A x : Contains(l, x) => Contains(ss, x)
  <2> SUFFICES ASSUME NEW i \in 1 .. Len(l) PROVE \E j \in 1 .. Len(ss) : ss[j] = l[i]
    BY DEF Contains
  <2>1. i + 1 \in 1 .. Len(ss) /\ i \in 1 .. Len(ss)
    BY <1>1, <1>7
  <2> QED
    BY <1>8, <2>1
<1> QED
  BY <1>7, <1>10, <1>11


\* A receiver lists another source, which is joined.
LEMMA AddSpares ==
    ASSUME NEW m \in Sparing, NEW r, NEW g \in Channel, NEW s \in Sender,
           NEW x, x = addsource(m, r, g, ntohl(Wire(s)))
    PROVE  x \in Sparing
<1>1. CASE ~Member(m, r, g) \/ Contains(m.groups[g][r].sources, Wire(s))
  <2>1. x = m
    BY <1>1, Swaps DEF addsource
  <2> QED
    BY <2>1
<1>2. CASE Member(m, r, g) /\ ~Contains(m.groups[g][r].sources, Wire(s))
  <2>1. g \in DOMAIN m.groups /\ r \in DOMAIN m.groups[g]
    BY <1>2 DEF Member
  <2>2. PICK d : d = m.groups[g][r]
    OBVIOUS
  <2>3. d \in Rec /\ IsInjective(d.sources) /\ d.sources \in Seq(Addresses)
    <3>1. d \in Rec /\ IsInjective(d.sources)
      BY <2>1, <2>2, GroupFacts
    <3> QED
      BY <3>1 DEF Rec
  <2>4. PICK l : l = Append(d.sources, Wire(s))
    OBVIOUS
  <2>5. l \in Seq(Addresses) /\ IsInjective(l) /\ \A t \in Sender : Contains(l, Wire(t)) => t = s \/ Contains(d.sources, Wire(t))
    <3>1. PICK ss \in Seq(Addresses) : ss = d.sources
      BY <2>3
    <3>2. PICK a \in Addresses : a = Wire(s)
      BY Swaps
    <3>3. l = Append(ss, a) /\ IsInjective(ss) /\ ~Contains(ss, a)
      BY <1>2, <2>2, <2>3, <2>4, <3>1, <3>2
    <3>4. /\ l \in Seq(Addresses) /\ IsInjective(l)
          /\ \A y : Contains(l, y) => y = a \/ Contains(ss, y)
      BY <3>3, AppendFacts
    <3>5. \A t \in Sender : Contains(l, Wire(t)) => t = s \/ Contains(ss, Wire(t))
      BY <3>2, <3>4, Swaps
    <3> QED
      BY <3>1, <3>4, <3>5
  <2>6. PICK e : e = [d EXCEPT !.sources = l]
    OBVIOUS
  <2>7. e \in Rec /\ e.sources = l
    BY <2>3, <2>5, <2>6 DEF Rec
  <2>8. PICK C \in PartialOf(Receiver, Rec) : C = m.groups[g]
    BY <2>1, GroupFacts
  <2>9. PICK M : M = [C EXCEPT ![r] = e]
    OBVIOUS
  <2>10. WithAt(M, C, r, e, Receiver, Rec)
    <3>1. r \in DOMAIN C
      BY <2>1, <2>8
    <3> QED
      BY <2>7, <2>9, <3>1, PartialExcept
  <2>11. PICK H \in PartialOf(Channel, Members) : H = m.groups
    BY GroupFacts
  <2>12. PICK G : G = [H EXCEPT ![g] = M]
    OBVIOUS
  <2>13. WithAt(G, H, g, M, Channel, Members)
    <3>1. g \in DOMAIN H /\ M \in Members
      BY <2>1, <2>10, <2>11 DEF WithAt, Members
    <3> QED
      BY <2>12, <3>1, PartialExcept
  <2>14. PICK y : y = [m EXCEPT !.groups = G]
    OBVIOUS
  <2>15. m \in Router /\ Tidy(m) /\ m.upstream \in [Channel \X Addresses -> Asked] /\ \A h \in Channel, t \in Sender : Spared(m, h, t)
    BY RouterFacts
  <2>16. /\ y \in Router /\ y.groups = G /\ y.pim = m.pim /\ y.connected = m.connected /\ y.upstream = m.upstream
    BY <2>13, <2>14, <2>15 DEF Router, WithAt
  <2>17. Tidy(y)
    <3>1. ASSUME NEW h \in DOMAIN G PROVE DOMAIN G[h] # {} /\ \A q \in DOMAIN G[h] : IsInjective(G[h][q].sources)
      <4>1. CASE h = g
        <5>1. G[h] = M /\ DOMAIN M = DOMAIN m.groups[g] /\ M[r] = e /\ \A q \in DOMAIN M : q # r => M[q] = m.groups[g][q]
          BY <2>1, <2>8, <2>10, <2>13, <4>1 DEF WithAt
        <5>2. \A q \in DOMAIN m.groups[g] : IsInjective(m.groups[g][q].sources)
          BY <2>1, GroupFacts
        <5> QED
          BY <2>1, <2>5, <2>7, <5>1, <5>2
      <4>2. CASE h # g
        <5>1. h \in DOMAIN m.groups /\ G[h] = m.groups[h]
          BY <2>11, <2>13, <3>1, <4>2 DEF WithAt
        <5> QED
          BY <5>1, GroupFacts
      <4> QED
        BY <4>1, <4>2
    <3> QED
      BY <2>16, <3>1 DEF Tidy, TidyGroups
  <2>18. ASSUME NEW h \in Channel, NEW t \in Sender, <<h, t>> # <<g, s>>, getIGMPreceivers(m, Wire(t), h)
         PROVE  getIGMPreceivers(y, Wire(t), h)
    <3> SUFFICES ASSUME h \in DOMAIN G, NEW q \in DOMAIN G[h] PROVE ~Contains(G[h][q].sources, Wire(t))
      BY <2>16 DEF getIGMPreceivers
    <3>1. CASE h = g
      <4>1. G[h] = M /\ DOMAIN M = DOMAIN m.groups[g] /\ M[r] = e /\ \A p \in DOMAIN M : p # r => M[p] = m.groups[g][p]
        BY <2>1, <2>8, <2>10, <2>13, <3>1 DEF WithAt
      <4>2. \A p \in DOMAIN m.groups[g] : ~Contains(m.groups[g][p].sources, Wire(t))
        BY <2>1, <2>18, <3>1 DEF getIGMPreceivers
      <4>3. CASE q = r
        BY <2>1, <2>2, <2>5, <2>7, <2>18, <3>1, <4>1, <4>2, <4>3
      <4>4. CASE q # r
        BY <4>1, <4>2, <4>4
      <4> QED
        BY <4>3, <4>4
    <3>2. CASE h # g
      <4>1. h \in DOMAIN m.groups /\ G[h] = m.groups[h]
        BY <2>11, <2>13, <3>2 DEF WithAt
      <4> QED
        BY <2>18, <4>1 DEF getIGMPreceivers
    <3> QED
      BY <3>1, <3>2
  <2>19. \A h \in Channel, t \in Sender : getPIMreceivers(y, ntohl(Wire(t)), h) = getPIMreceivers(m, ntohl(Wire(t)), h)
    BY <2>16 DEF getPIMreceivers
  <2>20. NoOther(m, y, g, s)
    BY <2>18, <2>19 DEF NoOther
  <2>21. x = join(y, g, ntohl(Wire(s)))
    <3>1. x = join([m EXCEPT !.groups[g][r].sources = Append(@, Wire(s))], g, ntohl(Wire(s)))
      BY <1>2, Swaps DEF addsource
    <3>2. y = [m EXCEPT !.groups[g][r].sources = Append(@, Wire(s))]
      BY <2>2, <2>4, <2>6, <2>8, <2>9, <2>11, <2>12, <2>14
    <3> QED
      BY <3>1, <3>2
  <2>22. CASE m.connected
    <3>1. x = y
      BY <2>16, <2>21, <2>22 DEF join
    <3>2. ASSUME NEW h \in Channel, NEW t \in Sender PROVE Spared(y, h, t)
      <4>1. Spared(m, h, t)
        BY <2>15
      <4> QED
        BY <2>16, <2>19, <2>22, <4>1 DEF Spared
    <3> QED
      BY <2>16, <2>17, <3>1, <3>2 DEF Sparing
  <2>23. CASE ~m.connected
    <3>1. x = generatejoin(y, g, ntohl(Wire(s)), "join")
      BY <2>16, <2>21, <2>23 DEF join
    <3>2. "join" \in Asked /\ Content(y, g, s, "join")
      BY DEF Asked, Content
    <3> QED
      BY <2>16, <2>17, <2>20, <3>1, <3>2, AskedForOne
  <2> QED
    BY <2>22, <2>23
<1> QED
  BY <1>1, <1>2

\* A receiver takes a source off its list; the last one is pruned.
LEMMA DelSpares ==
    ASSUME NEW m \in Sparing, NEW r, NEW g \in Channel, NEW s \in Sender,
           NEW x, x = delsource(m, r, g, Wire(s))
    PROVE  x \in Sparing
<1>1. CASE ~Member(m, r, g) \/ ~Contains(m.groups[g][r].sources, Wire(s))
  <2>1. x = m
    BY <1>1 DEF delsource
  <2> QED
    BY <2>1
<1>2. CASE Member(m, r, g) /\ Contains(m.groups[g][r].sources, Wire(s))
  <2>1. g \in DOMAIN m.groups /\ r \in DOMAIN m.groups[g]
    BY <1>2 DEF Member
  <2>2. PICK d : d = m.groups[g][r]
    OBVIOUS
  <2>3. d \in Rec /\ IsInjective(d.sources)
    BY <2>1, <2>2, GroupFacts
  <2>4. PICK ss \in Seq(Addresses) : ss = d.sources
    BY <2>3 DEF Rec
  <2>5. PICK k : k = CHOOSE j \in DOMAIN m.groups[g][r].sources : m.groups[g][r].sources[j] = Wire(s)
    OBVIOUS
  <2>6. k \in DOMAIN ss
    <3>1. \E j \in DOMAIN ss : ss[j] = Wire(s)
      BY <1>2, <2>2, <2>4 DEF Contains
    <3>2. k = CHOOSE j \in DOMAIN ss : ss[j] = Wire(s)
      BY <2>2, <2>4, <2>5
    <3> QED
      BY <3>1, <3>2
  <2>7. PICK left : left = RemoveAt(ss, k)
    OBVIOUS
  <2>8. left \in Seq(Addresses) /\ IsInjective(left) /\ \A y : Contains(left, y) => Contains(ss, y)
    <3>1. /\ left \in Seq(Addresses) /\ (IsInjective(ss) => IsInjective(left))
          /\ \A y : Contains(left, y) => Contains(ss, y)
      BY <2>6, <2>7, RemovedAt
    <3> QED
      BY <2>3, <2>4, <3>1
  <2>9. PICK gone : gone = leavegroup(m, r, g)
    OBVIOUS
  <2>10. Regrouped(gone, m)
    BY <2>9, LeaveSpares
  <2>11. x = Erased(m, r, g, Wire(s), k)
    BY <1>2, <2>5 DEF delsource
  <2>12. CASE m.groups[g][r].mode = "INCLUDE" /\ left = <<>> /\ noPIMreceivers(gone, g, ntohl(Wire(s)))
    <3>1. x = prune(gone, g, ntohl(Wire(s)))
      BY <2>2, <2>4, <2>7, <2>9, <2>11, <2>12 DEF Erased
    <3>2. gone \in Sparing /\ gone \in Router /\ Tidy(gone)
      BY <2>10, RouterFacts DEF Regrouped
    <3>3. CASE gone.connected
      BY <3>1, <3>2, <3>3 DEF prune
    <3>4. CASE ~gone.connected
      <4>1. x = generatejoin(gone, g, ntohl(Wire(s)), "pruned by hosts")
        BY <3>1, <3>4 DEF prune
      <4>2. "pruned by hosts" \in Asked
        BY DEF Asked
      <4>3. NoOther(gone, gone, g, s)
        BY DEF NoOther
      <4>4. Content(gone, g, s, "pruned by hosts")
        BY <2>12 DEF Content, noPIMreceivers
      <4> QED
        BY <3>2, <4>1, <4>2, <4>3, <4>4, AskedForOne
    <3> QED
      BY <3>3, <3>4
  <2>13. CASE m.groups[g][r].mode = "INCLUDE" /\ left = <<>> /\ ~noPIMreceivers(gone, g, ntohl(Wire(s)))
    <3>1. x = gone
      BY <2>2, <2>4, <2>7, <2>9, <2>11, <2>13 DEF Erased
    <3> QED
      BY <2>10, <3>1 DEF Regrouped
  <2>14. CASE ~(m.groups[g][r].mode = "INCLUDE" /\ left = <<>>)
    <3>1. PICK b \in BOOLEAN : b = (k > Len(left))
      <4>1. k \in Nat /\ Len(left) \in Nat
        BY <2>6, <2>8
      <4>2. (k > Len(left)) = TRUE \/ (k > Len(left)) = FALSE
        BY <4>1
      <4> QED
        BY <4>2
    <3>2. x = [m EXCEPT !.groups[g][r].sources = left, !.halted = b]
      BY <2>2, <2>4, <2>7, <2>11, <2>14, <3>1 DEF Erased
    <3>3. PICK e : e = [d EXCEPT !.sources = left]
      OBVIOUS
    <3>4. e \in Rec /\ e.sources = left
      BY <2>3, <2>8, <3>3 DEF Rec
    <3>5. PICK y : y = [m EXCEPT !.groups[g][r] = e]
      OBVIOUS
    <3>6. y \in Sparing
      <4>1. IsInjective(e.sources)
        BY <2>8, <3>4
      <4>2. \A t \in Sender : Contains(e.sources, Wire(t)) => Contains(m.groups[g][r].sources, Wire(t))
        BY <2>2, <2>4, <2>8, <3>4
      <4> QED
        BY <2>1, <3>4, <3>5, <4>1, <4>2, OtherRecord
    <3>7. x = [y EXCEPT !.halted = b]
      BY <2>2, <3>2, <3>3, <3>5
    <3> QED
      BY <3>6, <3>7, HaltSpares
  <2> QED
    BY <2>12, <2>13, <2>14
<1> QED
  BY <1>1, <1>2


\* The rounds of addsources() and of block_old_sources().
LEMMA AddsSpare ==
    ASSUME NEW m \in Sparing, NEW r, NEW g \in Channel, NEW ss \in Seq(Sender),
           NEW x, x = addsources(m, r, g, ss)
    PROVE  x \in Sparing
<1> DEFINE n == Len(ss)
           step == [y \in Sparing \X (1 .. n) |-> addsource(y[1], r, g, ntohl(Wire(ss[y[2]])))]
           F(h) == [k \in 0 .. n |-> IF k = 0 THEN m ELSE addsource(h[k - 1], r, g, ntohl(Wire(ss[k])))]
<1>1. n \in Nat
  OBVIOUS
<1>2. ASSUME NEW y \in Sparing, NEW k \in 1 .. n
      PROVE  addsource(y, r, g, ntohl(Wire(ss[k]))) \in Sparing
  <2>1. PICK s \in Sender : s = ss[k]
    OBVIOUS
  <2>2. PICK z : z = addsource(y, r, g, ntohl(Wire(s)))
    OBVIOUS
  <2>3. z \in Sparing
    BY <2>2, AddSpares
  <2> QED
    BY <2>1, <2>2, <2>3
<1>3. step \in [Sparing \X (1 .. n) -> Sparing]
  BY <1>2
<1>4. PICK h : Run(Sparing, m, n, step, h)
  <2> HIDE DEF step, n
  <2> QED
    BY <1>1, <1>3, LoopExists
<1>5. ASSUME NEW k \in 1 .. n PROVE h[k] = addsource(h[k - 1], r, g, ntohl(Wire(ss[k])))
  <2>1. h[k - 1] \in Sparing
    BY <1>1, <1>4 DEF Run
  <2>2. <<h[k - 1], k>> \in Sparing \X (1 .. n)
    BY <2>1
  <2>3. h[k] = step[<<h[k - 1], k>>]
    BY <1>4 DEF Run
  <2> QED
    BY <2>2, <2>3
<1>6. h = F(h)
  <2> HIDE DEF step
  <2> QED
    BY <1>1, <1>4, <1>5 DEF Run
<1>7. x = (CHOOSE f : f = F(f))[n]
  BY DEF addsources
<1> DEFINE loop == CHOOSE f : f = F(f)
<1>8. loop = F(loop)
  <2> HIDE DEF F
  <2> QED
    BY <1>6
<1> HIDE DEF loop
<1>9. loop[0] = m /\ \A k \in 1 .. n : loop[k] = addsource(loop[k - 1], r, g, ntohl(Wire(ss[k])))
  BY <1>1, <1>8
<1> DEFINE In == {k \in 0 .. n : loop[k] \in Sparing}
<1>10. 0 \in In
  BY <1>1, <1>9
<1>11. ASSUME NEW k \in 1 .. n, k - 1 \in In PROVE k \in In
  BY <1>2, <1>9, <1>11
<1> HIDE DEF In
<1>12. 0 .. n \subseteq In
  <2> HIDE DEF n
  <2> QED
    BY <1>1, <1>10, <1>11, UpTo
<1> QED
  BY <1>1, <1>7, <1>12 DEF In, loop

LEMMA BlocksSpare ==
    ASSUME NEW m \in Sparing, NEW r, NEW g \in Channel, NEW ss \in Seq(Sender),
           NEW x, x = block_old_sources(m, r, g, ss)
    PROVE  x \in Sparing
<1> DEFINE n == Len(ss)
           Block(y, k) == IF y.halted THEN y ELSE delsource(y, r, g, Wire(ss[k]))
           step == [y \in Sparing \X (1 .. n) |-> Block(y[1], y[2])]
           F(h) == [k \in 0 .. n |-> IF k = 0 THEN m
                                     ELSE IF h[k - 1].halted THEN h[k - 1] ELSE delsource(h[k - 1], r, g, Wire(ss[k]))]
<1>1. n \in Nat
  OBVIOUS
<1>2. ASSUME NEW y \in Sparing, NEW k \in 1 .. n
      PROVE  Block(y, k) \in Sparing
  <2>1. PICK s \in Sender : s = ss[k]
    OBVIOUS
  <2>2. PICK z : z = delsource(y, r, g, Wire(s))
    OBVIOUS
  <2>3. z \in Sparing
    BY <2>2, DelSpares
  <2> QED
    BY <2>1, <2>2, <2>3
<1>3. step \in [Sparing \X (1 .. n) -> Sparing]
  BY <1>2
<1>4. PICK h : Run(Sparing, m, n, step, h)
  <2> HIDE DEF step, n
  <2> QED
    BY <1>1, <1>3, LoopExists
<1>5. ASSUME NEW k \in 1 .. n PROVE h[k] = Block(h[k - 1], k)
  <2>1. h[k - 1] \in Sparing
    BY <1>1, <1>4 DEF Run
  <2>2. <<h[k - 1], k>> \in Sparing \X (1 .. n)
    BY <2>1
  <2>3. h[k] = step[<<h[k - 1], k>>]
    BY <1>4 DEF Run
  <2> QED
    BY <2>2, <2>3
<1>6. h = F(h)
  <2> HIDE DEF step
  <2> QED
    BY <1>1, <1>4, <1>5 DEF Run
<1>7. x = (CHOOSE f : f = F(f))[n]
  BY DEF block_old_sources
<1> DEFINE loop == CHOOSE f : f = F(f)
<1>8. loop = F(loop)
  <2> HIDE DEF F
  <2> QED
    BY <1>6
<1> HIDE DEF loop
<1>9. loop[0] = m /\ \A k \in 1 .. n : loop[k] = Block(loop[k - 1], k)
  BY <1>1, <1>8
<1> DEFINE In == {k \in 0 .. n : loop[k] \in Sparing}
<1>10. 0 \in In
  BY <1>1, <1>9
<1> HIDE DEF Block
<1>11. ASSUME NEW k \in 1 .. n, k - 1 \in In PROVE k \in In
  BY <1>2, <1>9, <1>11
<1> HIDE DEF In
<1>12. 0 .. n \subseteq In
  <2> HIDE DEF n
  <2> QED
    BY <1>1, <1>10, <1>11, UpTo
<1> QED
  BY <1>1, <1>7, <1>12 DEF In, loop

\* A report of a host.
LEMMA ReportSpares ==
    ASSUME mc \in Sparing, NEW r \in Receiver, NEW g \in Channel, IGMP_simple_action(r, g)
    PROVE  mc' \in Sparing /\ copies' = {}
<1>0. copies' = {}
  BY DEF IGMP_simple_action
<1>1. ASSUME NEW m \in Sparing, NEW garbage \in Modes PROVE joingroup(addgroup(m, g), r, g, garbage) \in Sparing
  <2>1. PICK x : x = joingroup(addgroup(m, g), r, g, garbage)
    OBVIOUS
  <2>2. x \in Sparing
    BY <2>1, JoinSpares
  <2> QED
    BY <2>1, <2>2
<1>2. ASSUME NEW m \in Sparing, NEW mode \in Modes PROVE set_receiver_mode(m, r, g, mode) \in Sparing
  <2>1. PICK x : x = set_receiver_mode(m, r, g, mode)
    OBVIOUS
  <2>2. x \in Sparing
    BY <2>1, ModeSpares
  <2> QED
    BY <2>1, <2>2
<1>3. ASSUME NEW m \in Sparing PROVE leavegroup(m, r, g) \in Sparing
  <2>1. PICK x : x = leavegroup(m, r, g)
    OBVIOUS
  <2>2. Regrouped(x, m)
    BY <2>1, LeaveSpares
  <2> QED
    BY <2>1, <2>2 DEF Regrouped
<1>4. ASSUME NEW m \in Sparing, NEW ss \in Seq(Sender) PROVE addsources(m, r, g, ss) \in Sparing
  <2>1. PICK x : x = addsources(m, r, g, ss)
    OBVIOUS
  <2>2. x \in Sparing
    BY <2>1, AddsSpare
  <2> QED
    BY <2>1, <2>2
<1>5. ASSUME NEW m \in Sparing, NEW ss \in Seq(Sender) PROVE block_old_sources(m, r, g, ss) \in Sparing
  <2>1. PICK x : x = block_old_sources(m, r, g, ss)
    OBVIOUS
  <2>2. x \in Sparing
    BY <2>1, BlocksSpare
  <2> QED
    BY <2>1, <2>2
<1>6. "NOT_SET" \in Modes /\ "INCLUDE" \in Modes /\ "EXCLUDE" \in Modes
  BY DEF Modes
<1>7. Lists \subseteq Seq(Sender)
  BY DEF Lists, BoundedSeq, SeqOf
<1>8. CASE \E garbage \in Modes : mc' = joingroup(addgroup(mc, g), r, g, garbage)
  BY <1>0, <1>1, <1>8
<1>9. CASE mc' = leavegroup(mc, r, g)
  BY <1>0, <1>3, <1>9
<1>10. CASE \E mode \in {"INCLUDE", "EXCLUDE"} : mc' = set_receiver_mode(mc, r, g, mode)
  BY <1>0, <1>2, <1>6, <1>10
<1>11. ASSUME NEW ss \in Lists, mc' = change_to_include_mode(mc, r, g, ss, "NOT_SET") PROVE mc' \in Sparing
  <2>1. PICK y : y = joingroup(addgroup(mc, g), r, g, "NOT_SET")
    OBVIOUS
  <2>2. y \in Sparing
    BY <1>1, <1>6, <2>1
  <2>3. PICK z : z = set_receiver_mode(y, r, g, "INCLUDE")
    OBVIOUS
  <2>4. z \in Sparing
    BY <1>2, <1>6, <2>2, <2>3
  <2>5. mc' = IF ss = <<>> THEN leavegroup(z, r, g) ELSE addsources(z, r, g, ss)
    BY <1>11, <2>1, <2>3 DEF change_to_include_mode
  <2> QED
    BY <1>3, <1>4, <1>7, <2>4, <2>5
<1>12. ASSUME NEW ss \in Lists, mc' = change_to_exclude_mode(mc, r, g, ss, "NOT_SET") PROVE mc' \in Sparing
  <2>1. PICK y : y = joingroup(addgroup(mc, g), r, g, "NOT_SET")
    OBVIOUS
  <2>2. y \in Sparing
    BY <1>1, <1>6, <2>1
  <2>3. PICK z : z = set_receiver_mode(y, r, g, "EXCLUDE")
    OBVIOUS
  <2>4. z \in Sparing
    BY <1>2, <1>6, <2>2, <2>3
  <2>5. mc' = addsources(z, r, g, ss)
    BY <1>12, <2>1, <2>3 DEF change_to_exclude_mode
  <2> QED
    BY <1>4, <1>7, <2>4, <2>5
<1>13. ASSUME NEW ss \in Lists, mc' = allow_new_sources(mc, r, g, ss, "NOT_SET") PROVE mc' \in Sparing
  <2>1. PICK y : y = joingroup(addgroup(mc, g), r, g, "NOT_SET")
    OBVIOUS
  <2>2. y \in Sparing
    BY <1>1, <1>6, <2>1
  <2>3. PICK z : z = set_receiver_mode(y, r, g, "INCLUDE")
    OBVIOUS
  <2>4. z \in Sparing
    BY <1>2, <1>6, <2>2, <2>3
  <2>5. mc' = addsources(z, r, g, ss)
    BY <1>13, <2>1, <2>3 DEF allow_new_sources
  <2> QED
    BY <1>4, <1>7, <2>4, <2>5
<1>14. ASSUME NEW ss \in Lists, mc' = block_old_sources(mc, r, g, ss) PROVE mc' \in Sparing
  BY <1>5, <1>7, <1>14
<1> QED
  BY <1>0, <1>8, <1>9, <1>10, <1>11, <1>12, <1>13, <1>14 DEF IGMP_simple_action


\* The tables of the interfaces are replaced, and one source is asked for upstream.
LEMMA PimFacts ==
    ASSUME NEW m \in Sparing
    PROVE  /\ m \in Router /\ m.pim \in PartialOf(Iface, SUBSET (Channel \X Addresses)) /\ DOMAIN m.pim \subseteq Iface
           /\ \A i \in DOMAIN m.pim : m.pim[i] \in SUBSET (Channel \X Addresses)
<1>1. m \in Router
  BY RouterFacts
<1>2. m.pim \in PartialOf(Iface, SUBSET (Channel \X Addresses))
  BY <1>1 DEF Router
<1> QED
  BY <1>1, <1>2, PartialFacts

LEMMA HelloSpares ==
    ASSUME NEW m \in Sparing, NEW i \in Iface, NEW x, x = addinterface(m, i)
    PROVE  x \in Sparing
<1>1. CASE i \in DOMAIN m.pim
  BY <1>1 DEF addinterface
<1>2. CASE i \notin DOMAIN m.pim
  <2>1. PICK T : T = SUBSET (Channel \X Addresses)
    OBVIOUS
  <2>2. PICK C \in PartialOf(Iface, T) : C = m.pim
    BY <2>1, PimFacts
  <2>3. PICK v \in T : v = {}
    BY <2>1
  <2>4. PICK P : P = Put(C, i, v)
    OBVIOUS
  <2>5. WithAt(P, C, i, v, Iface, T)
    BY <2>4, PartialPut
  <2>6. x = [m EXCEPT !.pim = P]
    BY <1>2, <2>2, <2>3, <2>4 DEF addinterface
  <2>7. m \in Router /\ Tidy(m) /\ \A h \in Channel, t \in Sender : Spared(m, h, t)
    BY RouterFacts
  <2>8. P \in PartialOf(Iface, SUBSET (Channel \X Addresses))
    BY <2>1, <2>5 DEF WithAt
  <2>9. x \in Router /\ x.groups = m.groups /\ x.pim = P /\ x.upstream = m.upstream /\ x.connected = m.connected
    BY <2>6, <2>7, <2>8 DEF Router
  <2>10. Tidy(x)
    BY <2>7, <2>9 DEF Tidy
  <2>11. ASSUME NEW h \in Channel, NEW t \in Sender PROVE Spared(x, h, t)
    <3>1. getPIMreceivers(m, ntohl(Wire(t)), h) => getPIMreceivers(x, ntohl(Wire(t)), h)
      BY <1>2, <2>2, <2>3, <2>5, <2>9 DEF getPIMreceivers, WithAt
    <3>2. getIGMPreceivers(m, Wire(t), h) = getIGMPreceivers(x, Wire(t), h)
      BY <2>9 DEF getIGMPreceivers
    <3>3. Spared(m, h, t)
      BY <2>7
    <3> QED
      BY <2>9, <3>1, <3>2, <3>3 DEF Spared
  <2> QED
    BY <2>9, <2>10, <2>11 DEF Sparing
<1> QED
  BY <1>1, <1>2

\* y is m but for the table v of an interface i.
Retabled(y, m, i, v) ==
    /\ y \in Router /\ Tidy(y) /\ y.groups = m.groups /\ y.upstream = m.upstream /\ y.connected = m.connected
    /\ DOMAIN y.pim = DOMAIN m.pim /\ y.pim[i] = v /\ \A j \in DOMAIN m.pim : j # i => y.pim[j] = m.pim[j]

LEMMA OtherTable ==
    ASSUME NEW m \in Sparing, NEW i \in DOMAIN m.pim, NEW v \in SUBSET (Channel \X Addresses),
           NEW y, y = [m EXCEPT !.pim[i] = v]
    PROVE  Retabled(y, m, i, v)
<1>1. PICK T : T = SUBSET (Channel \X Addresses)
  OBVIOUS
<1>2. PICK C \in PartialOf(Iface, T) : C = m.pim
  BY <1>1, PimFacts
<1>3. PICK P : P = [C EXCEPT ![i] = v]
  OBVIOUS
<1>4. WithAt(P, C, i, v, Iface, T)
  <2>1. i \in DOMAIN C /\ v \in T
    BY <1>1, <1>2
  <2> QED
    BY <1>3, <2>1, PartialExcept
<1>5. P \in PartialOf(Iface, SUBSET (Channel \X Addresses))
  BY <1>1, <1>4 DEF WithAt
<1>6. y = [m EXCEPT !.pim = P]
  BY <1>2, <1>3
<1>7. m \in Router /\ Tidy(m)
  BY RouterFacts
<1>8. y \in Router /\ y.groups = m.groups /\ y.pim = P /\ y.upstream = m.upstream /\ y.connected = m.connected
  BY <1>5, <1>6, <1>7 DEF Router
<1>9. Tidy(y)
  BY <1>7, <1>8 DEF Tidy
<1> QED
  BY <1>2, <1>4, <1>8, <1>9 DEF WithAt, Retabled

\* A router downstream joins a source.
LEMMA RouterJoins ==
    ASSUME NEW m \in Sparing, NEW i \in Iface, NEW g \in Channel, NEW s \in Sender,
           NEW x, x = generatejoin(pim_addgroup(m, i, g, Wire(s)), g, ntohl(Wire(s)), "join")
    PROVE  x \in Sparing
<1>1. PICK y : y = pim_addgroup(m, i, g, Wire(s))
  OBVIOUS
<1>2. x = generatejoin(y, g, ntohl(Wire(s)), "join")
  BY <1>1
<1>3. "join" \in Asked /\ Content(y, g, s, "join")
  BY DEF Asked, Content
<1>4. m \in Router /\ Tidy(m)
  BY RouterFacts
<1>5. CASE y = m
  <2>1. NoOther(m, m, g, s)
    BY DEF NoOther
  <2> QED
    BY <1>2, <1>3, <1>4, <1>5, <2>1, AskedForOne
<1>6. CASE y # m
  <2>1. i \in DOMAIN m.pim /\ y = [m EXCEPT !.pim[i] = m.pim[i] \cup {<<g, ntohl(Wire(s))>>}]
    BY <1>1, <1>6 DEF pim_addgroup
  <2>2. PICK v : v = m.pim[i] \cup {<<g, ntohl(Wire(s))>>}
    OBVIOUS
  <2>3. v \in SUBSET (Channel \X Addresses)
    <3>1. m.pim[i] \in SUBSET (Channel \X Addresses)
      BY <2>1, PimFacts
    <3>2. <<g, ntohl(Wire(s))>> \in Channel \X Addresses
      BY Swaps
    <3> QED
      BY <2>2, <3>1, <3>2
  <2>4. y = [m EXCEPT !.pim[i] = v]
    BY <2>1, <2>2
  <2>5. /\ y \in Router /\ Tidy(y) /\ y.groups = m.groups /\ y.upstream = m.upstream /\ y.connected = m.connected
        /\ DOMAIN y.pim = DOMAIN m.pim /\ y.pim[i] = v /\ \A j \in DOMAIN m.pim : j # i => y.pim[j] = m.pim[j]
    <3>1. Retabled(y, m, i, v)
      BY <2>1, <2>3, <2>4, OtherTable
    <3> QED
      BY <3>1 DEF Retabled
  <2>6. ASSUME NEW h \in Channel, NEW t \in Sender, <<h, t>> # <<g, s>>, getPIMreceivers(m, ntohl(Wire(t)), h)
        PROVE  getPIMreceivers(y, ntohl(Wire(t)), h)
    <3>1. <<h, ntohl(Wire(t))>> # <<g, ntohl(Wire(s))>>
      BY <2>6, Swaps
    <3>2. \A j \in DOMAIN m.pim : <<h, ntohl(Wire(t))>> \notin m.pim[j]
      BY <2>6 DEF getPIMreceivers
    <3>3. \A j \in DOMAIN y.pim : <<h, ntohl(Wire(t))>> \notin y.pim[j]
      BY <2>2, <2>5, <3>1, <3>2
    <3> QED
      BY <3>3 DEF getPIMreceivers
  <2>7. \A h \in Channel, t \in Sender : getIGMPreceivers(m, Wire(t), h) = getIGMPreceivers(y, Wire(t), h)
    BY <2>5 DEF getIGMPreceivers
  <2>8. NoOther(m, y, g, s)
    BY <2>6, <2>7 DEF NoOther
  <2> QED
    BY <1>2, <1>3, <2>5, <2>8, AskedForOne
<1> QED
  BY <1>5, <1>6

\* A router downstream prunes a source.
LEMMA RouterPrunes ==
    ASSUME NEW m \in Sparing, NEW i \in Iface, NEW g \in Channel, NEW s \in Sender,
           NEW y, y = delgroup(m, i, g, Wire(s)),
           NEW x, x = IF getIGMPreceivers(y, Wire(s), g)
                      THEN generatejoin(y, g, ntohl(Wire(s)), "pruned by routers") ELSE y
    PROVE  x \in Sparing
<1>1. /\ y \in Router /\ Tidy(y) /\ y.groups = m.groups /\ y.upstream = m.upstream /\ y.connected = m.connected
      /\ \A a, h : getPIMreceivers(m, a, h) => getPIMreceivers(y, a, h)
  <2>1. CASE i \notin DOMAIN m.pim
    <3>1. y = m
      BY <2>1 DEF delgroup
    <3> QED
      BY <3>1, RouterFacts
  <2>2. CASE i \in DOMAIN m.pim
    <3>1. PICK v : v = m.pim[i] \ {<<g, ntohl(Wire(s))>>}
      OBVIOUS
    <3>2. v \in SUBSET (Channel \X Addresses)
      <4>1. m.pim[i] \in SUBSET (Channel \X Addresses)
        BY <2>2, PimFacts
      <4> QED
        BY <3>1, <4>1
    <3>3. y = [m EXCEPT !.pim[i] = v]
      BY <2>2, <3>1 DEF delgroup
    <3>4. /\ y \in Router /\ Tidy(y) /\ y.groups = m.groups /\ y.upstream = m.upstream /\ y.connected = m.connected
          /\ DOMAIN y.pim = DOMAIN m.pim /\ y.pim[i] = v /\ \A j \in DOMAIN m.pim : j # i => y.pim[j] = m.pim[j]
      <4>1. Retabled(y, m, i, v)
        BY <2>2, <3>2, <3>3, OtherTable
      <4> QED
        BY <4>1 DEF Retabled
    <3>5. \A j \in DOMAIN m.pim : y.pim[j] \subseteq m.pim[j]
      BY <3>1, <3>4
    <3>6. \A a, h : getPIMreceivers(m, a, h) => getPIMreceivers(y, a, h)
      BY <3>4, <3>5 DEF getPIMreceivers
    <3> QED
      BY <3>4, <3>6
  <2> QED
    BY <2>1, <2>2
<1>2. \A h \in Channel, t \in Sender : getIGMPreceivers(m, Wire(t), h) = getIGMPreceivers(y, Wire(t), h)
  BY <1>1 DEF getIGMPreceivers
<1>3. NoOther(m, y, g, s)
  BY <1>1, <1>2 DEF NoOther
<1>4. CASE getIGMPreceivers(y, Wire(s), g)
  <2>1. x = generatejoin(y, g, ntohl(Wire(s)), "pruned by routers")
    BY <1>4
  <2>2. "pruned by routers" \in Asked /\ Content(y, g, s, "pruned by routers")
    BY <1>4 DEF Asked, Content
  <2> QED
    BY <1>1, <1>3, <2>1, <2>2, AskedForOne
<1>5. CASE ~getIGMPreceivers(y, Wire(s), g)
  <2>1. x = y
    BY <1>5
  <2>2. \A h \in Channel, t \in Sender : Spared(y, h, t)
    <3>1. \A h \in Channel, t \in Sender : Spared(m, h, t)
      BY RouterFacts
    <3> QED
      BY <1>1, <1>2, <3>1 DEF Spared
  <2> QED
    BY <1>1, <2>1, <2>2 DEF Sparing
<1> QED
  BY <1>4, <1>5

\* A message of a router downstream.
LEMMA MessageSpares ==
    ASSUME mc \in Sparing, NEW i \in Iface, PIM_push(i)
    PROVE  mc' \in Sparing /\ copies' = {}
<1>0. copies' = {}
  BY DEF PIM_push
<1>1. CASE mc' = addinterface(mc, i)
  BY <1>0, <1>1, HelloSpares
<1>2. ASSUME NEW g \in Channel, NEW s \in Sender,
             mc' = generatejoin(pim_addgroup(mc, i, g, Wire(s)), g, ntohl(Wire(s)), "join")
      PROVE  mc' \in Sparing
  <2>1. PICK x : x = generatejoin(pim_addgroup(mc, i, g, Wire(s)), g, ntohl(Wire(s)), "join")
    OBVIOUS
  <2>2. x \in Sparing
    BY <2>1, RouterJoins
  <2> QED
    BY <1>2, <2>1, <2>2
<1>3. ASSUME NEW g \in Channel, NEW s \in Sender, NEW y, y = delgroup(mc, i, g, Wire(s)),
             mc' = IF getIGMPreceivers(y, Wire(s), g)
                   THEN generatejoin(y, g, ntohl(Wire(s)), "pruned by routers") ELSE y
      PROVE  mc' \in Sparing
  <2>1. PICK x : x = IF getIGMPreceivers(y, Wire(s), g)
                     THEN generatejoin(y, g, ntohl(Wire(s)), "pruned by routers") ELSE y
    OBVIOUS
  <2>2. x \in Sparing
    BY <1>3, <2>1, RouterPrunes
  <2> QED
    BY <1>3, <2>1, <2>2
<1> QED
  BY <1>0, <1>1, <1>2, <1>3 DEF PIM_push

\* A data packet is copied to receivers and interfaces.
LEMMA CopiesFit ==
    ASSUME mc \in Sparing, NEW g \in Channel, NEW s \in Sender, Multicast_push(g, s)
    PROVE  mc' \in Sparing /\ copies' \subseteq Receiver \cup Iface
<1>1. mc' = mc
  BY DEF Multicast_push
<1>2. DOMAIN mc.pim \subseteq Iface
  BY PimFacts
<1>3. g \in DOMAIN mc.groups => DOMAIN mc.groups[g] \subseteq Receiver
  BY GroupFacts
<1> QED
  BY <1>1, <1>2, <1>3 DEF Multicast_push

\* Nobody has joined anything in the beginning.
LEMMA MulticastStarts ==
    ASSUME MulticastInit
    PROVE  MulticastInv
<1>1. PICK garbage \in BOOLEAN :
         mc = [groups |-> <<>>, pim |-> <<>>, connected |-> garbage, halted |-> FALSE,
               upstream |-> [c \in Channel \X Addresses |-> "none"]]
  BY DEF MulticastInit
<1>2. PICK G : G = <<>>
  OBVIOUS
<1>3. DOMAIN G = {}
  BY <1>2
<1>4. \A K, W : G \in PartialOf(K, W)
  <2> SUFFICES ASSUME NEW K, NEW W PROVE G \in PartialOf(K, W)
    OBVIOUS
  <2>1. G \in [{} -> W]
    BY <1>2
  <2> QED
    BY <2>1 DEF PartialOf
<1>5. PICK U : U = [c \in Channel \X Addresses |-> "none"]
  OBVIOUS
<1>6. U \in [Channel \X Addresses -> Asked]
  BY <1>5 DEF Asked
<1>7. mc = [groups |-> G, pim |-> G, connected |-> garbage, halted |-> FALSE, upstream |-> U]
  BY <1>1, <1>2, <1>5
<1>8. mc \in Router
  BY <1>4, <1>6, <1>7 DEF Router
<1>9. Tidy(mc)
  BY <1>3, <1>7 DEF Tidy, TidyGroups
<1>10. \A h \in Channel, t \in Sender : Spared(mc, h, t)
  BY <1>3, <1>7 DEF Spared, getPIMreceivers, getIGMPreceivers
<1>11. mc \in Sparing
  BY <1>8, <1>9, <1>10 DEF Sparing
<1>12. copies = {}
  BY DEF MulticastInit
<1> QED
  BY <1>11, <1>12 DEF MulticastInv

LEMMA MulticastInvStep ==
    ASSUME MulticastInv, [MulticastNext]_mcastVars
    PROVE  MulticastInv'
<1>1. mc \in Sparing /\ copies \subseteq Receiver \cup Iface
  BY DEF MulticastInv
<1>2. ASSUME NEW r \in Receiver, NEW g \in Channel, IGMP_simple_action(r, g)
      PROVE  mc' \in Sparing /\ copies' \subseteq Receiver \cup Iface
  BY <1>1, <1>2, ReportSpares
<1>3. ASSUME NEW i \in Iface, PIM_push(i)
      PROVE  mc' \in Sparing /\ copies' \subseteq Receiver \cup Iface
  BY <1>1, <1>3, MessageSpares
<1>4. ASSUME NEW g \in Channel, NEW s \in Sender, Multicast_push(g, s)
      PROVE  mc' \in Sparing /\ copies' \subseteq Receiver \cup Iface
  BY <1>1, <1>4, CopiesFit
<1>5. ASSUME UNCHANGED mcastVars
      PROVE  mc' \in Sparing /\ copies' \subseteq Receiver \cup Iface
  BY <1>1, <1>5 DEF mcastVars
<1>6. mc' \in Sparing /\ copies' \subseteq Receiver \cup Iface
  BY <1>2, <1>3, <1>4, <1>5 DEF MulticastNext
<1> QED
  BY <1>6 DEF MulticastInv

LEMMA MulticastInvSuffices ==
    ASSUME MulticastInv
    PROVE  MulticastTypeOK /\ PruneSparesOthers
<1>1. mc \in Sparing /\ copies \subseteq Receiver \cup Iface
  BY DEF MulticastInv
<1>2. DOMAIN mc.pim \subseteq Iface
  BY <1>1, PimFacts
<1>3. /\ DOMAIN mc.groups \subseteq Channel
      /\ \A g \in DOMAIN mc.groups :
            /\ DOMAIN mc.groups[g] \subseteq Receiver /\ DOMAIN mc.groups[g] # {}
            /\ \A r \in DOMAIN mc.groups[g] : mc.groups[g][r] \in Rec /\ IsInjective(mc.groups[g][r].sources)
  BY <1>1, GroupFacts
<1>4. \A e \in Rec : e.mode \in Modes
  BY DEF Rec
<1>5. MulticastTypeOK
  BY <1>1, <1>2, <1>3, <1>4 DEF MulticastTypeOK
<1>6. \A g \in Channel, s \in Sender : Spared(mc, g, s)
  BY <1>1, RouterFacts
<1>7. PruneSparesOthers
  BY <1>6 DEF PruneSparesOthers, Spared
<1> QED
  BY <1>5, <1>7

\* IPMulticastTable, PIMForwardingTable and PIMControl: what is pruned upstream is
\* wanted by nobody else, for any hosts, interfaces, groups and sources.
THEOREM ChannelsAreSpared == MulticastSpec => [](MulticastTypeOK /\ PruneSparesOthers)
<1>1. MulticastInit => MulticastInv
  BY MulticastStarts
<1>2. MulticastInv /\ [MulticastNext]_mcastVars => MulticastInv'
  BY MulticastInvStep
<1>3. MulticastInv => MulticastTypeOK /\ PruneSparesOthers
  BY MulticastInvSuffices
<1> QED
  BY <1>1, <1>2, <1>3, PTL DEF MulticastSpec

-----------------------------------------------------------------------------
(* NATPT: the two ends of a stream.                                        *)

Mapping == [trigger : Int, delta : Int, old_delta : Int, zero : BOOLEAN, over : BOOLEAN]
Translator == [map : {"none", "live", "freed"}, m : [Dirs -> Mapping], tracked : BOOLEAN,
               epsv_found : BOOLEAN, halted : BOOLEAN]
Texts == Says["64"] \cup Says["46"] \cup {Nothing}
Ends == [said : Texts, next : Nat, total : Int, got : Int]
Segment == [seq : Int, ack : Int, len : Int, all : BOOLEAN, due : Int]

NATPTTypes ==
    /\ nat \in Translator /\ (nat.tracked => nat.map = "live")
    /\ host \in [Dirs -> Ends] /\ \A d \in Dirs : host[d].said \in Says[d] \cup {Nothing}
    /\ wire \in [Dirs -> Seq(Segment)]
    /\ turns \in 0 .. MaxTurns

\* The mapping of a direction is of the last rewritten text of its host.
OfLastText(n, h, d) ==
    LET m == n.m[d]
        c == h[d].said
    IN  /\ m.delta = h[d].total - h[d].next /\ m.trigger <= h[d].next
        /\ ~m.zero => m.delta = 0 /\ m.old_delta = 0
        /\ n.map = "none" => c = Nothing /\ h[d].total = h[d].next
        /\ c # Nothing =>
              /\ h[d].next >= Length[c] /\ (c = "229" => ~n.epsv_found)
              /\ command_found(n, d, c) => /\ m.trigger = h[d].next
                                           /\ m.old_delta = m.delta - (NewLength[c] - Length[c])
              /\ ~command_found(n, d, c) => m.trigger <= h[d].next - Length[c]

\* The acknowledgement of `total' octets of what the IPv4 host said is taken for one of
\* all it said.
Translates(n, total) == total >= n.m["46"].trigger \/ n.m["46"].old_delta = n.m["46"].delta

\* What the IPv6 host has of it: all, or all but the last text.
Received(n, h) ==
    LET c == h["46"].said
        total == h["46"].total
    IN  /\ c = Nothing => Translates(n, total) /\ h["64"].got = total
        /\ c # Nothing => /\ h["64"].got = total \/ h["64"].got = total - NewLen(n, "46", c)
                          /\ ~command_found(n, "46", c) => Translates(n, total - Length[c])

\* Packets behind the translator
InPlace(h, w, d) == w[d] # <<>> => w[d][1].seq + w[d][1].len = h[d].total
From46(n, h, w) ==
    w["46"] # <<>> => LET p == w["46"][1]
                      IN  /\ p.len > 0 /\ (p.all => p.ack = p.due)
                          /\ h["46"].said # Nothing => p.len = NewLen(n, "46", h["46"].said)
Grown(n) == n.m["46"].delta >= 0 /\ n.m["46"].old_delta >= 0
From64(n, h, w) ==
    w["64"] # <<>> => LET p == w["64"][1]
                          c == h["46"].said
                      IN  /\ p.ack = h["46"].next => Translates(n, h["46"].total) /\ h["64"].got = h["46"].total
                          /\ c = Nothing => p.ack = h["46"].next
                          /\ p.all => p.ack = p.due \/ (~Grown(n) /\ c # Nothing /\ p.due = h["46"].next)

Contiguous(n, h, w) ==
    /\ OfLastText(n, h, "64") /\ OfLastText(n, h, "46") /\ Received(n, h)
    /\ InPlace(h, w, "64") /\ InPlace(h, w, "46") /\ From46(n, h, w) /\ From64(n, h, w)

NATPTInv == NATPTTypes /\ (~nat.halted => Contiguous(nat, host, wire))

\* What is assumed of a text that a host says
LEMMA TextFacts ==
    ASSUME NEW d \in Dirs, NEW c \in Says[d], NEW n
    PROVE  /\ c # Nothing /\ c \in Texts /\ Length[c] \in Nat /\ Length[c] > 0
           /\ NewLen(n, d, c) \in Nat /\ NewLen(n, d, c) > 0
           /\ command_found(n, d, c) => NewLength[c] \in Nat /\ NewLength[c] > 0 /\ NewLen(n, d, c) = NewLength[c]
           /\ ~command_found(n, d, c) => NewLen(n, d, c) = Length[c]
<1>1. c # Nothing /\ Length[c] \in Nat \ {0} /\ (c \in Commands => NewLength[c] \in Nat \ {0})
  BY NATPTAssumption
<1>2. command_found(n, d, c) => c \in Commands
  BY DEF command_found, Commands
<1>3. d = "64" \/ d = "46"
  BY DEF Dirs
<1> QED
  BY <1>1, <1>2, <1>3 DEF NewLen, Texts

\* A text that was not seen before changes a mapping, one that was does not.
UpdatedBy(u, m, trigger, k) ==
    /\ u \in Mapping
    /\ trigger > m.trigger => u.trigger = trigger /\ u.old_delta = m.delta /\ u.delta = m.delta + k /\ u.zero
    /\ trigger = m.trigger /\ trigger # 0 => u = m
LEMMA UpdateFacts ==
    ASSUME NEW m \in Mapping, NEW trigger \in Int, NEW k \in Int, NEW u, u = update_seqno_delta(m, trigger, k)
    PROVE  UpdatedBy(u, m, trigger, k)
<1>0. m.trigger \in Int /\ m.delta \in Int /\ m.old_delta \in Int
  BY DEF Mapping
<1>1. CASE trigger <= m.trigger /\ (m.trigger # 0 \/ m.delta # 0 \/ m.old_delta # 0)
  <2>1. u = m /\ ~(trigger > m.trigger)
    BY <1>0, <1>1 DEF update_seqno_delta
  <2> QED
    BY <2>1 DEF UpdatedBy
<1>2. CASE ~(trigger <= m.trigger /\ (m.trigger # 0 \/ m.delta # 0 \/ m.old_delta # 0))
  <2>1. PICK e \in Int : e = m.delta + k
    BY <1>0
  <2>2. u = [m EXCEPT !.old_delta = m.delta, !.trigger = trigger, !.delta = e, !.zero = TRUE]
    BY <1>2, <2>1 DEF update_seqno_delta
  <2>3. u \in Mapping /\ u.trigger = trigger /\ u.old_delta = m.delta /\ u.delta = e /\ u.zero
    BY <1>0, <2>2 DEF Mapping
  <2>4. ~(trigger = m.trigger /\ trigger # 0)
    BY <1>0, <1>2
  <2> QED
    BY <2>1, <2>3, <2>4 DEF UpdatedBy
<1> QED
  BY <1>1, <1>2

\* The first packet of a connection makes a mapping.
CreatedFrom(x, n) ==
    /\ x \in Translator /\ x.map = (IF n.map = "none" THEN "live" ELSE n.map)
    /\ x.tracked = n.tracked /\ x.epsv_found = n.epsv_found /\ x.halted = n.halted
    /\ n.map # "none" => x = n
    /\ n.map = "none" => \A d \in Dirs : x.m[d].trigger = 0 /\ x.m[d].delta = 0 /\ x.m[d].old_delta = 0
LEMMA CreateFacts ==
    ASSUME NEW n \in Translator, NEW garbage \in BOOLEAN, NEW x, x = apply_create(n, garbage)
    PROVE  CreatedFrom(x, n)
<1>1. CASE n.map # "none"
  BY <1>1 DEF apply_create, CreatedFrom
<1>2. CASE n.map = "none"
  <2>1. PICK m : m = [d \in Dirs |-> Mapping6(garbage)]
    OBVIOUS
  <2>2. m \in [Dirs -> Mapping] /\ \A d \in Dirs : m[d].trigger = 0 /\ m[d].delta = 0 /\ m[d].old_delta = 0
    BY <2>1 DEF Mapping6, Mapping
  <2>3. x = [n EXCEPT !.map = "live", !.m = m]
    BY <1>2, <2>1 DEF apply_create
  <2> QED
    BY <1>2, <2>2, <2>3 DEF Translator, CreatedFrom
<1> QED
  BY <1>1, <1>2

\* The flags of a packet change no numbers.
SameNumbers(x, n) ==
    /\ (x.map = "none" => n.map = "none") /\ (x.epsv_found => n.epsv_found) /\ x.halted = n.halted
    /\ \A d \in Dirs : /\ x.m[d].trigger = n.m[d].trigger /\ x.m[d].delta = n.m[d].delta
                       /\ x.m[d].old_delta = n.m[d].old_delta /\ x.m[d].zero = n.m[d].zero
LEMMA FlagsFacts ==
    ASSUME NEW n \in Translator, NEW d \in Dirs, NEW flags, NEW x, x = translate(n, d, flags)
    PROVE  x \in Translator /\ SameNumbers(x, n) /\ x.map = n.map
<1> DEFINE O(e) == IF "RST" \in flags THEN TRUE
                   ELSE IF e = d /\ "FIN" \in flags THEN TRUE
                   ELSE IF e = d /\ "SYN" \in flags THEN FALSE ELSE n.m[e].over
           F(e) == [n.m[e] EXCEPT !.over = O(e)]
<1>1. PICK m : m = [e \in Dirs |-> F(e)]
  OBVIOUS
<1>2. ASSUME NEW e \in Dirs
      PROVE  /\ F(e) \in Mapping /\ F(e).trigger = n.m[e].trigger /\ F(e).delta = n.m[e].delta
             /\ F(e).old_delta = n.m[e].old_delta /\ F(e).zero = n.m[e].zero
  <2>1. n.m[e] \in Mapping /\ n.m[e].over \in BOOLEAN
    BY DEF Translator, Mapping
  <2>2. O(e) \in BOOLEAN
    BY <2>1
  <2> HIDE DEF O
  <2> QED
    BY <2>1, <2>2 DEF Mapping
<1>3. PICK y : y = apply_flags(n, d, flags)
  OBVIOUS
<1>4. y = [n EXCEPT !.m = m]
  BY <1>1, <1>3 DEF apply_flags
<1> HIDE DEF O, F
<1>5. m \in [Dirs -> Mapping] /\ \A e \in Dirs : m[e] = F(e)
  BY <1>1, <1>2
<1>6. /\ y \in Translator /\ y.map = n.map /\ y.epsv_found = n.epsv_found /\ y.halted = n.halted
      /\ y.m = m /\ y.tracked = n.tracked
  BY <1>4, <1>5 DEF Translator
<1>7. x = y \/ x = [y EXCEPT !.tracked = TRUE]
  BY <1>3 DEF translate, add_to_free_tracked_tail
<1>8. x \in Translator /\ x.map = y.map /\ x.epsv_found = y.epsv_found /\ x.halted = y.halted /\ x.m = y.m
  BY <1>6, <1>7 DEF Translator
<1> QED
  BY <1>2, <1>5, <1>6, <1>8 DEF SameNumbers

\* What is rewritten is so whatever was rewritten since.
LEMMA FoundStays ==
    ASSUME NEW n, NEW x, NEW d, NEW c, n.epsv_found => x.epsv_found, c = "229" => ~x.epsv_found
    PROVE  command_found(n, d, c) = command_found(x, d, c) /\ NewLen(n, d, c) = NewLen(x, d, c)
<1>1. command_found(n, d, c) = command_found(x, d, c)
  BY DEF command_found
<1> QED
  BY <1>1 DEF NewLen

LEMMA SameIsContiguous ==
    ASSUME NEW n, NEW x, NEW h, NEW w, SameNumbers(x, n), Contiguous(n, h, w)
    PROVE  Contiguous(x, h, w)
<1>1. "64" \in Dirs /\ "46" \in Dirs
  BY DEF Dirs
<1>2. /\ \A d \in Dirs : /\ x.m[d].trigger = n.m[d].trigger /\ x.m[d].delta = n.m[d].delta
                         /\ x.m[d].old_delta = n.m[d].old_delta /\ x.m[d].zero = n.m[d].zero
      /\ (x.map = "none" => n.map = "none") /\ (x.epsv_found => n.epsv_found)
  BY DEF SameNumbers
<1>3. ASSUME NEW d \in Dirs, OfLastText(n, h, d)
      PROVE  /\ OfLastText(x, h, d) /\ command_found(x, d, h[d].said) = command_found(n, d, h[d].said)
             /\ NewLen(x, d, h[d].said) = NewLen(n, d, h[d].said)
  <2>1. h[d].said = "229" => ~n.epsv_found
    BY <1>3 DEF OfLastText, Nothing
  <2>2. /\ command_found(x, d, h[d].said) = command_found(n, d, h[d].said)
        /\ NewLen(x, d, h[d].said) = NewLen(n, d, h[d].said)
    BY <1>2, <2>1, FoundStays
  <2> QED
    BY <1>2, <1>3, <2>2 DEF OfLastText
<1>4. \A total : Translates(x, total) = Translates(n, total)
  BY <1>1, <1>2 DEF Translates
<1>5. Received(x, h) /\ From46(x, h, w)
  BY <1>1, <1>3, <1>4 DEF Received, From46, Contiguous
<1>6. From64(x, h, w)
  <2>1. Grown(x) = Grown(n)
    BY <1>1, <1>2 DEF Grown
  <2> QED
    BY <1>4, <2>1 DEF From64, Contiguous
<1> QED
  BY <1>1, <1>3, <1>5, <1>6 DEF Contiguous

LEMMA NATPTInvInit == NATPTInit => NATPTInv
<1> SUFFICES ASSUME NATPTInit PROVE NATPTInv
  OBVIOUS
<1> DEFINE z == [trigger |-> 0, delta |-> 0, old_delta |-> 0, zero |-> FALSE, over |-> FALSE]
           e == [said |-> Nothing, next |-> 0, total |-> 0, got |-> 0]
           M == [d \in Dirs |-> z]
           n == [map |-> "none", m |-> M, tracked |-> FALSE, epsv_found |-> TRUE, halted |-> FALSE]
<1>1. nat = n /\ host = [d \in Dirs |-> e] /\ wire = [d \in Dirs |-> <<>>] /\ turns = 0
  BY DEF NATPTInit, Mapping6
<1>2. z \in Mapping /\ e \in Ends
  BY DEF Mapping, Ends, Texts
<1>3. z.trigger = 0 /\ z.delta = 0 /\ z.old_delta = 0 /\ e.said = Nothing /\ e.next = 0 /\ e.total = 0 /\ e.got = 0
  OBVIOUS
<1> HIDE DEF z, e
<1>4. M \in [Dirs -> Mapping] /\ \A d \in Dirs : M[d] = z
  BY <1>2
<1> HIDE DEF M
<1>5. n \in Translator /\ n.m = M /\ n.map = "none" /\ ~n.tracked
  BY <1>4 DEF Translator
<1> HIDE DEF n
<1>6. \A d \in Dirs : wire[d] = <<>> /\ host[d] = e
  BY <1>1
<1>7. wire \in [Dirs -> Seq(Segment)]
  <2>1. <<>> \in Seq(Segment)
    OBVIOUS
  <2> QED
    BY <1>1, <2>1
<1>8. NATPTTypes
  BY <1>1, <1>2, <1>3, <1>5, <1>6, <1>7, NATPTAssumption DEF NATPTTypes
<1>9. "64" \in Dirs /\ "46" \in Dirs
  BY DEF Dirs
<1>10. Contiguous(nat, host, wire)
  <2>1. OfLastText(nat, host, "64") /\ OfLastText(nat, host, "46")
    BY <1>1, <1>3, <1>4, <1>5, <1>6, <1>9 DEF OfLastText
  <2>2. Received(nat, host)
    BY <1>1, <1>3, <1>4, <1>5, <1>6, <1>9 DEF Received, Translates
  <2> QED
    BY <1>6, <1>9, <2>1, <2>2 DEF Contiguous, InPlace, From46, From64
<1> QED
  BY <1>8, <1>10 DEF NATPTInv

\* What a mapping does not have yet, it has after the first packet.
LEMMA CreatedIsContiguous ==
    ASSUME NEW n, NEW x, NEW h, NEW w, CreatedFrom(x, n), h \in [Dirs -> Ends], Contiguous(n, h, w)
    PROVE  Contiguous(x, h, w)
<1>1. CASE n.map # "none"
  BY <1>1 DEF CreatedFrom
<1>2. CASE n.map = "none"
  <2>0. "64" \in Dirs /\ "46" \in Dirs
    BY DEF Dirs
  <2>1. \A d \in Dirs : /\ x.m[d].trigger = 0 /\ x.m[d].delta = 0 /\ x.m[d].old_delta = 0
                        /\ h[d].next \in Nat /\ h[d].total \in Int
    BY <1>2 DEF CreatedFrom, Ends
  <2>2. \A d \in Dirs : OfLastText(n, h, d) => h[d].said = Nothing /\ h[d].total = h[d].next
    BY <1>2 DEF OfLastText
  <2>3. OfLastText(x, h, "64") /\ OfLastText(x, h, "46")
    BY <2>0, <2>1, <2>2 DEF Contiguous, OfLastText
  <2>4. \A total : Translates(x, total)
    BY <2>0, <2>1 DEF Translates
  <2>5. h["46"].said = Nothing
    BY <2>0, <2>2 DEF Contiguous
  <2>6. Received(x, h)
    BY <2>4, <2>5 DEF Contiguous, Received
  <2>7. From46(x, h, w) /\ From64(x, h, w)
    BY <2>4, <2>5 DEF Contiguous, From46, From64
  <2> QED
    BY <2>3, <2>6, <2>7 DEF Contiguous
<1> QED
  BY <1>1, <1>2

\* What a packet leaves when no mapping was deleted: x is made by its first element,
\* n is rewritten.
Passed(x, n, p, d, c, seq, ack) ==
    /\ CreatedFrom(x, nat) /\ x.map = "live"
    /\ n \in Translator /\ n.map = x.map /\ n.halted = x.halted
    /\ n.m[Back[d]] = x.m[Back[d]] /\ (n.epsv_found => nat.epsv_found)
    /\ command_found(nat, d, c) => UpdatedBy(n.m[d], x.m[d], seq + Length[c], NewLength[c] - Length[c])
    /\ ~command_found(nat, d, c) => n.m[d] = x.m[d]
    /\ nat' \in Translator /\ SameNumbers(nat', n) /\ nat'.map = n.map
    /\ p \in Segment /\ wire' = [wire EXCEPT ![d] = <<p>>]
    /\ p.seq = seq + delta_for(n.m[d], seq) /\ p.ack = apply_ack(n, d, ack) /\ p.len = NewLen(nat, d, c)
    /\ p.all = (ack = host[Back[d]].total) /\ p.due = host[Back[d]].next

LEMMA PassFacts ==
    ASSUME NATPTTypes, NEW d \in Dirs, NEW c \in Says[d], NEW seq \in Int, NEW ack \in Int,
           Pass(d, c, seq, ack), nat.map # "freed"
    PROVE  \E x, n, p : Passed(x, n, p, d, c, seq, ack)
<1>0. nat \in Translator /\ host \in [Dirs -> Ends] /\ Back[d] \in Dirs /\ d # Back[d]
  BY DEF NATPTTypes, Back, Dirs
<1>1. PICK garbage \in BOOLEAN :
         LET n == Rewritten(nat, d, c, seq, garbage)
         IN  /\ nat' = IF nat.map = "freed" THEN [nat EXCEPT !.halted = TRUE] ELSE translate(n, d, {})
             /\ wire' = [wire EXCEPT ![d] = <<[seq |-> apply_seq(n, d, seq), ack |-> apply_ack(n, d, ack),
                                          len |-> NewLen(nat, d, c),
                                            all |-> ack = host[Back[d]].total, due |-> host[Back[d]].next]>>]
  BY DEF Pass
<1>2. PICK n : n = Rewritten(nat, d, c, seq, garbage)
  OBVIOUS
<1>3. PICK x : x = apply_create(nat, garbage)
  OBVIOUS
<1>4. PICK p : p = [seq |-> apply_seq(n, d, seq), ack |-> apply_ack(n, d, ack), len |-> NewLen(nat, d, c),
                    all |-> ack = host[Back[d]].total, due |-> host[Back[d]].next]
  OBVIOUS
<1>5. nat' = translate(n, d, {}) /\ wire' = [wire EXCEPT ![d] = <<p>>]
  BY <1>1, <1>2, <1>4
<1>6. CreatedFrom(x, nat)
  BY <1>0, <1>3, CreateFacts
<1>7. x \in Translator /\ x.map = "live"
  BY <1>0, <1>6 DEF CreatedFrom, Translator
<1>8. /\ n \in Translator /\ n.map = x.map /\ n.halted = x.halted /\ n.m[Back[d]] = x.m[Back[d]]
      /\ n.epsv_found => nat.epsv_found
      /\ command_found(nat, d, c) => UpdatedBy(n.m[d], x.m[d], seq + Length[c], NewLength[c] - Length[c])
      /\ ~command_found(nat, d, c) => n.m[d] = x.m[d]
  <2>1. CASE ~command_found(nat, d, c)
    <3>1. n = x
      BY <1>2, <1>3, <2>1 DEF Rewritten
    <3> QED
      BY <1>6, <1>7, <2>1, <3>1 DEF CreatedFrom
  <2>2. CASE command_found(nat, d, c)
    <3>1. PICK m : m = x.m[d]
      OBVIOUS
    <3>2. PICK k \in Int, l \in Int : k = seq + Length[c] /\ l = NewLength[c] - Length[c]
      BY <2>2, TextFacts
    <3>3. PICK u : u = update_seqno_delta(m, k, l)
      OBVIOUS
    <3>4. m \in Mapping
      BY <1>7, <3>1 DEF Translator
    <3>5. UpdatedBy(u, m, k, l)
      BY <3>2, <3>3, <3>4, UpdateFacts
    <3>6. u \in Mapping
      BY <3>5 DEF UpdatedBy
    <3>7. PICK b \in BOOLEAN : b = (x.epsv_found /\ c # "PASV")
      BY <1>7 DEF Translator
    <3>8. PICK mm : mm = [x.m EXCEPT ![d] = u]
      OBVIOUS
    <3>9. mm \in [Dirs -> Mapping] /\ mm[d] = u /\ mm[Back[d]] = x.m[Back[d]]
      BY <1>0, <1>7, <3>6, <3>8 DEF Translator
    <3>10. n = [x EXCEPT !.m = mm, !.epsv_found = b]
      <4>1. n = [x EXCEPT !.m[d] = update_seqno_delta(@, seq + Length[c], NewLength[c] - Length[c]),
                          !.epsv_found = @ /\ c # "PASV"]
        BY <1>2, <1>3, <2>2 DEF Rewritten
      <4> QED
        BY <3>1, <3>2, <3>3, <3>7, <3>8, <4>1
    <3>11. n \in Translator /\ n.map = x.map /\ n.halted = x.halted /\ n.m = mm /\ n.epsv_found = b
      BY <1>7, <3>7, <3>9, <3>10 DEF Translator
    <3> QED
      BY <1>6, <2>2, <3>1, <3>2, <3>5, <3>7, <3>9, <3>11 DEF CreatedFrom
  <2> QED
    BY <2>1, <2>2
<1>9. nat' \in Translator /\ SameNumbers(nat', n) /\ nat'.map = n.map
  BY <1>5, <1>8, FlagsFacts
<1>10. /\ n.m["64"] \in Mapping /\ n.m["46"] \in Mapping /\ n.m[d] \in Mapping /\ n.m[Back[d]] \in Mapping
       /\ host[Back[d]].total \in Int /\ host[Back[d]].next \in Nat
  BY <1>0, <1>8 DEF Translator, Dirs, Ends
<1>11. apply_seq(n, d, seq) = seq + delta_for(n.m[d], seq) /\ apply_seq(n, d, seq) \in Int
  BY <1>10 DEF apply_seq, delta_for, Mapping
<1>12. apply_ack(n, d, ack) \in Int
  BY <1>10 DEF apply_ack, delta_for, Mapping
<1>13. NewLen(nat, d, c) \in Int
  BY TextFacts
<1>14. /\ p \in Segment /\ p.seq = seq + delta_for(n.m[d], seq) /\ p.ack = apply_ack(n, d, ack)
       /\ p.len = NewLen(nat, d, c) /\ p.all = (ack = host[Back[d]].total) /\ p.due = host[Back[d]].next
  <2>1. PICK a \in BOOLEAN : a = (ack = host[Back[d]].total)
    OBVIOUS
  <2> QED
    BY <1>4, <1>10, <1>11, <1>12, <1>13, <2>1 DEF Segment
<1>15. Passed(x, n, p, d, c, seq, ack)
  BY <1>5, <1>6, <1>7, <1>8, <1>9, <1>14 DEF Passed
<1> QED
  BY <1>15

\* How the translator acknowledges to the IPv4 host
LEMMA AckOf64 ==
    ASSUME NEW n \in Translator, NEW h \in [Dirs -> Ends], h["46"].said \in Says["46"] \cup {Nothing},
           OfLastText(n, h, "46"), Received(n, h), NEW a, a = apply_ack(n, "64", h["64"].got)
    PROVE  /\ a = h["46"].next => Translates(n, h["46"].total) /\ h["64"].got = h["46"].total
           /\ h["46"].said = Nothing => a = h["46"].next
           /\ h["64"].got = h["46"].total => a = h["46"].next \/ (~Grown(n) /\ h["46"].said # Nothing)
<1>0. "64" \in Dirs /\ "46" \in Dirs /\ Back["64"] = "46"
  BY DEF Dirs, Back
<1>1. PICK t \in Int, D \in Int, O \in Int : t = n.m["46"].trigger /\ D = n.m["46"].delta /\ O = n.m["46"].old_delta
  BY <1>0 DEF Translator, Mapping
<1>2. PICK nx \in Nat, tot \in Int, got \in Int : nx = h["46"].next /\ tot = h["46"].total /\ got = h["64"].got
  BY <1>0 DEF Ends
<1>3. PICK c : c = h["46"].said
  OBVIOUS
<1>4. a = got - (IF got >= t THEN D ELSE O)
  BY <1>0, <1>1, <1>2 DEF apply_ack, delta_for
<1>5. D = tot - nx /\ t <= nx
  BY <1>1, <1>2 DEF OfLastText
<1>6. \A total : Translates(n, total) = (total >= t \/ O = D)
  BY <1>1 DEF Translates
<1>7. Grown(n) = (D >= 0 /\ O >= 0)
  BY <1>1 DEF Grown
<1>8. CASE c = Nothing
  <2>1. got = tot /\ (tot >= t \/ O = D)
    BY <1>2, <1>3, <1>6, <1>8 DEF Received
  <2>2. a = nx
    BY <1>4, <1>5, <2>1
  <2> QED
    BY <1>2, <1>3, <1>6, <2>1, <2>2
<1>9. CASE c # Nothing
  <2>1. PICK L \in Nat, N \in Nat : L = Length[c] /\ N = NewLen(n, "46", c) /\ L > 0 /\ N > 0
    BY <1>0, <1>3, <1>9, TextFacts
  <2>2. got = tot \/ got = tot - N
    BY <1>2, <1>3, <1>9, <2>1 DEF Received
  <2>3. CASE got = tot
    <3>1. a = nx => tot >= t \/ O = D
      BY <1>4, <1>5, <2>3
    <3>2. a = nx \/ ~(D >= 0 /\ O >= 0)
      BY <1>4, <1>5, <2>3
    <3> QED
      BY <1>2, <1>3, <1>6, <1>7, <1>9, <2>3, <3>1, <3>2
  <2>4. CASE got = tot - N
    <3>1. a # nx
      <4>1. CASE command_found(n, "46", c)
        <5>1. N = NewLength[c] /\ O = D - (NewLength[c] - L)
          BY <1>0, <1>1, <1>3, <1>9, <2>1, <4>1, TextFacts DEF OfLastText
        <5> QED
          BY <1>4, <1>5, <2>1, <2>4, <5>1
      <4>2. CASE ~command_found(n, "46", c)
        <5>1. N = L
          BY <2>1, <4>2 DEF NewLen
        <5>2. tot - L >= t \/ O = D
          BY <1>2, <1>3, <1>6, <1>9, <2>1, <4>2 DEF Received
        <5> QED
          BY <1>4, <1>5, <2>1, <2>4, <5>1, <5>2
      <4> QED
        BY <4>1, <4>2
    <3>2. got # tot
      BY <2>1, <2>4
    <3> QED
      BY <1>2, <1>3, <1>9, <3>1, <3>2
  <2> QED
    BY <2>2, <2>3, <2>4
<1> QED
  BY <1>8, <1>9

\* How the translator acknowledges to the IPv6 host
LEMMA AckOf46 ==
    ASSUME NEW n \in Translator, NEW h \in [Dirs -> Ends], OfLastText(n, h, "64"), NEW got \in Int,
           NEW a, a = apply_ack(n, "46", got), got = h["64"].total
    PROVE  a = h["64"].next
<1>0. "64" \in Dirs /\ "46" \in Dirs /\ Back["46"] = "64"
  BY DEF Dirs, Back
<1>1. PICK t \in Int, D \in Int, O \in Int, z \in BOOLEAN :
        t = n.m["64"].trigger /\ D = n.m["64"].delta /\ O = n.m["64"].old_delta /\ z = n.m["64"].zero
  BY <1>0 DEF Translator, Mapping
<1>2. PICK nx \in Nat, tot \in Int : nx = h["64"].next /\ tot = h["64"].total
  BY <1>0 DEF Ends
<1>3. a = got - (IF z THEN D ELSE IF got >= t THEN D ELSE O)
  BY <1>0, <1>1 DEF apply_ack, delta_for
<1>4. D = tot - nx /\ (~z => D = 0 /\ O = 0)
  BY <1>1, <1>2 DEF OfLastText
<1>5. a = got - D
  BY <1>3, <1>4
<1> QED
  BY <1>2, <1>4, <1>5

\* A text that is said again: its mapping stays, and its number is where it was.
LEMMA Again ==
    ASSUME NATPTTypes, Contiguous(nat, host, wire), NEW d \in Dirs, host[d].said # Nothing, nat.map # "freed",
           NEW x, NEW n, NEW p, Passed(x, n, p, d, host[d].said, host[d].next - Length[host[d].said], host[d].got)
    PROVE  SameNumbers(n, nat) /\ SameNumbers(nat', nat) /\ p.seq + p.len = host[d].total
<1>0. nat \in Translator /\ host \in [Dirs -> Ends] /\ Back[d] \in Dirs /\ \A e \in Dirs : e = d \/ e = Back[d]
  BY DEF NATPTTypes, Back, Dirs
<1>1. PICK c \in Says[d] : c = host[d].said
  BY DEF NATPTTypes
<1>2. PICK L \in Nat, N \in Nat : L = Length[c] /\ N = NewLen(nat, d, c) /\ L > 0
  BY TextFacts
<1>3. OfLastText(nat, host, d) /\ nat.map # "none"
  BY <1>1, TextFacts DEF Contiguous, Dirs, OfLastText
<1>4. x = nat
  BY <1>3 DEF Passed, CreatedFrom
<1>5. PICK nx \in Nat, tot \in Int : nx = host[d].next /\ tot = host[d].total
  BY <1>0 DEF Ends
<1>6. PICK t \in Int, D \in Int, O \in Int : t = nat.m[d].trigger /\ D = nat.m[d].delta /\ O = nat.m[d].old_delta
  BY <1>0 DEF Translator, Mapping
<1>7. D = tot - nx /\ t <= nx /\ nx >= L /\ (c = "229" => ~nat.epsv_found)
  BY <1>1, <1>2, <1>3, <1>5, <1>6, TextFacts DEF OfLastText
<1>8. p.seq = (nx - L) + delta_for(n.m[d], nx - L) /\ p.len = N
  BY <1>1, <1>2, <1>5 DEF Passed
<1>9. n.m[d] = nat.m[d] /\ p.seq + p.len = tot
  <2>1. CASE command_found(nat, d, c)
    <3>1. t = nx /\ O = D - (NewLength[c] - L) /\ N = NewLength[c]
      BY <1>1, <1>2, <1>3, <1>5, <1>6, <2>1, TextFacts DEF OfLastText
    <3>2. UpdatedBy(n.m[d], nat.m[d], (nx - L) + L, NewLength[c] - L)
      BY <1>1, <1>2, <1>4, <1>5, <2>1 DEF Passed
    <3>3. (nx - L) + L = nat.m[d].trigger /\ (nx - L) + L # 0
      BY <1>2, <1>6, <1>7, <3>1
    <3>4. n.m[d] = nat.m[d]
      BY <3>2, <3>3 DEF UpdatedBy
    <3>5. delta_for(n.m[d], nx - L) = O
      <4>1. ~(nx - L >= t)
        BY <1>2, <3>1
      <4> QED
        BY <1>6, <3>4, <4>1 DEF delta_for
    <3> QED
      BY <1>2, <1>7, <1>8, <3>1, <3>4, <3>5
  <2>2. CASE ~command_found(nat, d, c)
    <3>1. t <= nx - L /\ N = L
      BY <1>1, <1>2, <1>3, <1>5, <1>6, <2>2, TextFacts DEF OfLastText
    <3>2. n.m[d] = nat.m[d]
      BY <1>1, <1>4, <2>2 DEF Passed
    <3>3. delta_for(n.m[d], nx - L) = D
      BY <1>2, <1>6, <3>1, <3>2 DEF delta_for
    <3> QED
      BY <1>2, <1>7, <1>8, <3>1, <3>2, <3>3
  <2> QED
    BY <2>1, <2>2
<1>10. n.m[Back[d]] = nat.m[Back[d]] /\ n.map = nat.map /\ n.halted = nat.halted
  BY <1>4 DEF Passed
<1> QED
  BY <1>0, <1>9, <1>5, <1>10 DEF Passed, SameNumbers

LEMMA WireTyped ==
    ASSUME wire \in [Dirs -> Seq(Segment)], NEW d \in Dirs, NEW p \in Segment, NEW w, w = [wire EXCEPT ![d] = <<p>>]
    PROVE  w \in [Dirs -> Seq(Segment)] /\ w[d] # <<>> /\ w[d][1] = p /\ \A e \in Dirs : e # d => w[e] = wire[e]
<1>0. <<p>> \in Seq(Segment)
  OBVIOUS
<1>1. PICK q \in Seq(Segment) : q = <<p>>
  BY <1>0
<1>2. q # <<>> /\ q[1] = p
  BY <1>1
<1> QED
  BY <1>1, <1>2

\* A packet through a mapping that was deleted ends the process.
LEMMA Halts ==
    ASSUME NATPTTypes, NEW d \in Dirs, NEW c \in Says[d], NEW seq \in Int, NEW ack \in Int,
           Pass(d, c, seq, ack), nat.map = "freed"
    PROVE  /\ nat' \in Translator /\ nat'.halted /\ (nat'.tracked => nat'.map = "live")
           /\ wire' \in [Dirs -> Seq(Segment)]
<1>1. nat' = [nat EXCEPT !.halted = TRUE] /\ nat \in Translator /\ (nat.tracked => nat.map = "live")
  BY DEF Pass, NATPTTypes
<1>0. PICK garbage \in BOOLEAN :
         \E n, p :
            /\ n = Rewritten(nat, d, c, seq, garbage)
            /\ p = [seq |-> apply_seq(n, d, seq), ack |-> apply_ack(n, d, ack), len |-> NewLen(nat, d, c),
                    all |-> ack = host[Back[d]].total, due |-> host[Back[d]].next]
            /\ wire' = [wire EXCEPT ![d] = <<p>>]
  BY DEF Pass
<1>2. PICK n, p :
         /\ n = Rewritten(nat, d, c, seq, garbage)
         /\ p = [seq |-> apply_seq(n, d, seq), ack |-> apply_ack(n, d, ack), len |-> NewLen(nat, d, c),
                 all |-> ack = host[Back[d]].total, due |-> host[Back[d]].next]
         /\ wire' = [wire EXCEPT ![d] = <<p>>]
  BY <1>0
<1>3. nat.map # "none"
  OBVIOUS
<1>4. apply_create(nat, garbage) = nat
  BY DEF apply_create
<1>5. n.m \in [Dirs -> Mapping]
  <2>1. CASE ~command_found(nat, d, c)
    BY <1>1, <1>2, <1>4, <2>1 DEF Rewritten, Translator
  <2>2. CASE command_found(nat, d, c)
    <3>1. PICK m : m = nat.m[d]
      OBVIOUS
    <3>2. PICK k \in Int, l \in Int : k = seq + Length[c] /\ l = NewLength[c] - Length[c]
      BY <2>2, TextFacts
    <3>3. PICK u : u = update_seqno_delta(m, k, l)
      OBVIOUS
    <3>4. m \in Mapping
      BY <1>1, <3>1 DEF Translator
    <3>5. UpdatedBy(u, m, k, l)
      BY <3>2, <3>3, <3>4, UpdateFacts
    <3>6. u \in Mapping
      BY <3>5 DEF UpdatedBy
    <3>7. n = [nat EXCEPT !.m[d] = update_seqno_delta(@, seq + Length[c], NewLength[c] - Length[c]),
                          !.epsv_found = @ /\ c # "PASV"]
      BY <1>2, <1>4, <2>2 DEF Rewritten
    <3>8. n.m = [nat.m EXCEPT ![d] = u]
      BY <1>1, <3>1, <3>2, <3>3, <3>7 DEF Translator
    <3> QED
      BY <1>1, <3>6, <3>8 DEF Translator
  <2> QED
    BY <2>1, <2>2
<1>6. /\ n.m["64"] \in Mapping /\ n.m["46"] \in Mapping /\ n.m[d] \in Mapping /\ n.m[Back[d]] \in Mapping
      /\ host[Back[d]].total \in Int /\ host[Back[d]].next \in Nat
  BY <1>5 DEF NATPTTypes, Dirs, Ends, Back
<1>7. apply_seq(n, d, seq) \in Int /\ apply_ack(n, d, ack) \in Int /\ NewLen(nat, d, c) \in Int
  BY <1>6, TextFacts DEF apply_seq, apply_ack, delta_for, Mapping
<1>8. p \in Segment
  <2>1. PICK a \in BOOLEAN : a = (ack = host[Back[d]].total)
    OBVIOUS
  <2> QED
    BY <1>2, <1>6, <1>7, <2>1 DEF Segment
<1>9. wire' \in [Dirs -> Seq(Segment)]
  BY <1>2, <1>8, WireTyped DEF NATPTTypes
<1> QED
  BY <1>1, <1>9 DEF Translator

\* A text is said again.
LEMMA NATPTInvRetransmit ==
    ASSUME NATPTInv, NEW d \in Dirs, Retransmit(d)
    PROVE  NATPTInv'
<1>0. /\ NATPTTypes /\ nat \in Translator /\ host \in [Dirs -> Ends] /\ wire \in [Dirs -> Seq(Segment)]
      /\ Contiguous(nat, host, wire) /\ ~nat.halted /\ host[d].said # Nothing
      /\ UNCHANGED <<host, whose, turns>>
  BY DEF NATPTInv, NATPTTypes, Retransmit
<1>1. PICK c \in Says[d] : c = host[d].said
  BY <1>0 DEF NATPTTypes
<1>2. PICK seq \in Int, ack \in Int : seq = host[d].next - Length[c] /\ ack = host[d].got
  <2>1. host[d].next \in Nat /\ host[d].got \in Int
    BY <1>0 DEF Ends
  <2>2. Length[c] \in Nat
    BY TextFacts
  <2>3. host[d].next - Length[c] \in Int
    BY <2>1, <2>2
  <2> QED
    BY <2>1, <2>3
<1>3. Pass(d, c, seq, ack)
  BY <1>1, <1>2 DEF Retransmit
<1>4. CASE nat.map = "freed"
  BY <1>0, <1>3, <1>4, Halts DEF NATPTInv, NATPTTypes
<1>5. CASE nat.map # "freed"
  <2>1. PICK x, n, p : Passed(x, n, p, d, c, seq, ack)
    BY <1>0, <1>3, <1>5, PassFacts
  <2>2. SameNumbers(n, nat) /\ SameNumbers(nat', nat) /\ p.seq + p.len = host[d].total
    BY <1>0, <1>1, <1>2, <1>5, <2>1, Again
  <2>3. /\ wire' \in [Dirs -> Seq(Segment)] /\ wire'[d] # <<>> /\ wire'[d][1] = p
        /\ \A e \in Dirs : e # d => wire'[e] = wire[e]
    BY <1>0, <2>1, WireTyped DEF Passed
  <2>4. NATPTTypes'
    BY <1>0, <2>1, <2>3 DEF Passed, NATPTTypes
  <2>5. Contiguous(n, host, wire)
    BY <1>0, <2>2, SameIsContiguous
  <2>6. /\ n \in Translator /\ p.ack = apply_ack(n, d, ack) /\ p.len = NewLen(nat, d, c)
        /\ p.all = (ack = host[Back[d]].total) /\ p.due = host[Back[d]].next
    BY <2>1 DEF Passed
  <2>7. CASE d = "46"
    <3>0. "64" \in Dirs /\ "46" \in Dirs /\ Back["46"] = "64"
      BY DEF Dirs, Back
    <3>1. p.all => p.ack = p.due
      <4>1. p.ack = apply_ack(n, "46", ack) /\ OfLastText(n, host, "64")
        BY <2>5, <2>6, <2>7 DEF Contiguous
      <4>2. ack = host["64"].total => p.ack = host["64"].next
        BY <1>0, <2>6, <4>1, AckOf46
      <4> QED
        BY <2>6, <2>7, <3>0, <4>2
    <3>2. p.len > 0 /\ p.len = NewLen(n, "46", c)
      BY <2>6, <2>7, TextFacts DEF NewLen, command_found
    <3>3. Contiguous(n, host, wire')
      BY <1>1, <2>2, <2>3, <2>5, <2>7, <3>0, <3>1, <3>2 DEF Contiguous, InPlace, From46, From64
    <3>4. SameNumbers(nat', n)
      BY <2>1 DEF Passed
    <3>5. Contiguous(nat', host, wire')
      BY <3>3, <3>4, SameIsContiguous
    <3> QED
      BY <1>0, <2>4, <3>5 DEF NATPTInv
  <2>8. CASE d = "64"
    <3>0. "64" \in Dirs /\ "46" \in Dirs /\ Back["64"] = "46"
      BY DEF Dirs, Back
    <3>1. From64(n, host, wire')
      <4>1. OfLastText(n, host, "46") /\ Received(n, host) /\ host["46"].said \in Says["46"] \cup {Nothing}
        BY <1>0, <2>5, <3>0 DEF Contiguous, NATPTTypes
      <4>2. p.ack = apply_ack(n, "64", host["64"].got)
        BY <1>2, <2>6, <2>8
      <4>3. /\ p.ack = host["46"].next => Translates(n, host["46"].total) /\ host["64"].got = host["46"].total
            /\ host["46"].said = Nothing => p.ack = host["46"].next
            /\ host["64"].got = host["46"].total => p.ack = host["46"].next \/ (~Grown(n) /\ host["46"].said # Nothing)
        BY <1>0, <2>6, <4>1, <4>2, AckOf64
      <4> QED
        BY <1>2, <2>3, <2>6, <2>8, <3>0, <4>3 DEF From64
    <3>2. Contiguous(n, host, wire')
      BY <2>2, <2>3, <2>5, <2>8, <3>0, <3>1 DEF Contiguous, InPlace, From46
    <3>3. SameNumbers(nat', n)
      BY <2>1 DEF Passed
    <3>4. Contiguous(nat', host, wire')
      BY <3>2, <3>3, SameIsContiguous
    <3> QED
      BY <1>0, <2>4, <3>4 DEF NATPTInv
  <2> QED
    BY <2>7, <2>8 DEF Dirs
<1> QED
  BY <1>4, <1>5

\* What a host says first, and what is left as it was
SaidNow(d, c) ==
    /\ host' \in [Dirs -> Ends] /\ host'[Back[d]] = host[Back[d]]
    /\ host'[d].said = c /\ host'[d].next = host[d].next + Length[c]
    /\ host'[d].total = host[d].total + NewLen(nat, d, c) /\ host'[d].got = host[d].got
LEMMA SaysNow ==
    ASSUME NATPTTypes, NEW d \in Dirs, NEW c \in Says[d], Say(d, c)
    PROVE  SaidNow(d, c)
<1>1. host \in [Dirs -> Ends] /\ Back[d] \in Dirs /\ Back[d] # d /\ host[d].next \in Nat /\ host[d].total \in Int
  BY DEF NATPTTypes, Ends, Back, Dirs
<1>2. PICK a \in Nat, b \in Int : a = host[d].next + Length[c] /\ b = host[d].total + NewLen(nat, d, c)
  BY <1>1, TextFacts
<1>3. PICK e : e = [host[d] EXCEPT !.said = c, !.next = a, !.total = b]
  OBVIOUS
<1>4. e \in Ends /\ e.said = c /\ e.next = a /\ e.total = b /\ e.got = host[d].got
  <2>1. c \in Texts /\ host[d] \in Ends
    BY <1>1, TextFacts
  <2> QED
    BY <1>2, <1>3, <2>1 DEF Ends
<1>5. host' = [host EXCEPT ![d] = e]
  BY <1>2, <1>3 DEF Say
<1> QED
  BY <1>1, <1>2, <1>4, <1>5 DEF SaidNow

LEMMA SaidNumbers ==
    ASSUME NATPTTypes, Contiguous(nat, host, wire), NEW d \in Dirs, NEW c \in Says[d], host[d].said = Nothing,
           c = "229" => ~nat.epsv_found, SaidNow(d, c),
           NEW x, NEW n, NEW p, Passed(x, n, p, d, c, host[d].next, host[d].got)
    PROVE  /\ OfLastText(n, host', d) /\ OfLastText(n, host', Back[d]) /\ p.seq + p.len = host'[d].total
           /\ Contiguous(x, host, wire)
<1>0. /\ nat \in Translator /\ host \in [Dirs -> Ends] /\ Back[d] \in Dirs /\ Back[d] # d
      /\ \A e \in Dirs : e = d \/ e = Back[d]
  BY DEF NATPTTypes, Back, Dirs
<1>1. /\ CreatedFrom(x, nat) /\ x \in Translator /\ x.epsv_found = nat.epsv_found /\ x.map = "live"
      /\ n.epsv_found => nat.epsv_found
  BY DEF Passed, CreatedFrom
<1>2. Contiguous(x, host, wire)
  BY <1>0, <1>1, CreatedIsContiguous
<1>3. OfLastText(x, host, d) /\ OfLastText(x, host, Back[d])
  BY <1>0, <1>2 DEF Contiguous, Dirs, Back
<1>4. PICK L \in Nat, N \in Nat : L = Length[c] /\ N = NewLen(nat, d, c) /\ L > 0 /\ N > 0
  BY TextFacts
<1>5. PICK nx \in Nat, tot \in Int : nx = host[d].next /\ tot = host[d].total
  BY <1>0 DEF Ends
<1>6. PICK t \in Int, D \in Int, O \in Int, z \in BOOLEAN :
        t = x.m[d].trigger /\ D = x.m[d].delta /\ O = x.m[d].old_delta /\ z = x.m[d].zero
  BY <1>0, <1>1 DEF Translator, Mapping
<1>7. D = tot - nx /\ t <= nx /\ (~z => D = 0 /\ O = 0)
  BY <1>3, <1>5, <1>6 DEF OfLastText
<1>8. host'[d].said = c /\ host'[d].next = nx + L /\ host'[d].total = tot + N
  BY <1>4, <1>5 DEF SaidNow
<1>9. p.seq = nx + delta_for(n.m[d], nx) /\ p.len = N
  BY <1>4, <1>5 DEF Passed
<1>10. command_found(n, d, c) = command_found(nat, d, c)
  BY <1>1, FoundStays
<1>11. n.map = "live" /\ (c = "229" => ~n.epsv_found)
  BY <1>1 DEF Passed
<1>12. OfLastText(n, host', d) /\ p.seq + p.len = tot + N
  <2>1. CASE command_found(nat, d, c)
    <3>1. PICK k \in Int : k = NewLength[c] - L /\ N = NewLength[c]
      BY <1>4, <2>1, TextFacts
    <3>2. UpdatedBy(n.m[d], x.m[d], nx + L, k)
      BY <1>4, <1>5, <2>1, <3>1 DEF Passed
    <3>3. nx + L > x.m[d].trigger
      BY <1>4, <1>6, <1>7
    <3>4. n.m[d].trigger = nx + L /\ n.m[d].old_delta = D /\ n.m[d].delta = D + k /\ n.m[d].zero
      BY <1>6, <3>2, <3>3 DEF UpdatedBy
    <3>5. delta_for(n.m[d], nx) = D
      <4>1. ~(nx >= nx + L)
        BY <1>4
      <4> QED
        BY <3>4, <4>1 DEF delta_for
    <3>6. p.seq + p.len = tot + N
      BY <1>7, <1>9, <3>5
    <3>7. /\ n.m[d].delta = (tot + N) - (nx + L) /\ n.m[d].trigger <= nx + L /\ nx + L >= L
          /\ n.m[d].old_delta = n.m[d].delta - (NewLength[c] - L)
      BY <1>7, <3>1, <3>4
    <3> QED
      BY <1>4, <1>8, <1>10, <1>11, <2>1, <3>4, <3>6, <3>7 DEF OfLastText
  <2>2. CASE ~command_found(nat, d, c)
    <3>1. n.m[d] = x.m[d] /\ N = L
      BY <1>4, <2>2, TextFacts DEF Passed
    <3>2. delta_for(n.m[d], nx) = D
      BY <1>6, <1>7, <3>1 DEF delta_for
    <3>3. p.seq + p.len = tot + N
      BY <1>7, <1>9, <3>2
    <3>4. /\ n.m[d].delta = (tot + N) - (nx + L) /\ n.m[d].trigger <= nx + L /\ nx + L >= L
          /\ n.m[d].trigger <= (nx + L) - L /\ (~n.m[d].zero => n.m[d].delta = 0 /\ n.m[d].old_delta = 0)
      <4>1. D = (tot + N) - (nx + L) /\ t <= nx + L /\ nx + L >= L /\ t <= (nx + L) - L
        BY <1>7, <3>1
      <4>2. n.m[d].delta = D /\ n.m[d].trigger = t
        BY <1>6, <3>1
      <4>3. ~n.m[d].zero => n.m[d].delta = 0 /\ n.m[d].old_delta = 0
        BY <1>6, <1>7, <3>1, Zenon
      <4> QED
        BY <4>1, <4>2, <4>3
    <3> QED
      BY <1>4, <1>8, <1>10, <1>11, <2>2, <3>3, <3>4 DEF OfLastText
  <2> QED
    BY <2>1, <2>2
<1>13. OfLastText(n, host', Back[d])
  <2>1. PICK b : b = Back[d]
    OBVIOUS
  <2>2. n.m[b] = x.m[b] /\ host'[b] = host[b] /\ OfLastText(x, host, b)
    BY <1>3, <2>1 DEF Passed, SaidNow
  <2>3. host[b].said = "229" => ~x.epsv_found
    BY <2>2 DEF OfLastText, Nothing
  <2>4. command_found(n, b, host[b].said) = command_found(x, b, host[b].said)
    BY <1>1, <2>3, FoundStays
  <2>5. OfLastText(n, host', b)
    BY <1>1, <1>11, <2>2, <2>4 DEF OfLastText
  <2> QED
    BY <2>1, <2>5
<1> QED
  BY <1>2, <1>8, <1>12, <1>13

\* A host says something.
LEMMA NATPTInvSay ==
    ASSUME NATPTInv, NEW d \in Dirs, NEW c \in Says[d], Say(d, c)
    PROVE  NATPTInv'
<1>0. /\ NATPTTypes /\ nat \in Translator /\ host \in [Dirs -> Ends] /\ wire \in [Dirs -> Seq(Segment)]
      /\ Contiguous(nat, host, wire) /\ ~nat.halted /\ host[d].said = Nothing
      /\ (c = "229" => ~nat.epsv_found)
  BY DEF NATPTInv, NATPTTypes, Say
<1>1. SaidNow(d, c)
  BY <1>0, SaysNow
<1>2. PICK seq \in Int, ack \in Int : seq = host[d].next /\ ack = host[d].got
  BY <1>0 DEF Ends
<1>3. Pass(d, c, seq, ack)
  BY <1>2 DEF Say
<1>4. /\ host' \in [Dirs -> Ends] /\ (\A e \in Dirs : host'[e].said \in Says[e] \cup {Nothing})
      /\ turns' \in 0 .. MaxTurns
  <2>1. \A e \in Dirs : e = d \/ e = Back[d]
    BY DEF Dirs, Back
  <2>2. turns \in 0 .. MaxTurns /\ turns < MaxTurns /\ turns' = turns + 1
    BY <1>0 DEF Say, NATPTTypes
  <2>3. turns' \in 0 .. MaxTurns
    BY <2>2, NATPTAssumption
  <2> QED
    BY <1>0, <1>1, <2>1, <2>3 DEF SaidNow, NATPTTypes
<1>5. CASE nat.map = "freed"
  BY <1>0, <1>3, <1>4, <1>5, Halts DEF NATPTInv, NATPTTypes
<1>6. CASE nat.map # "freed"
  <2>1. PICK x, n, p : Passed(x, n, p, d, c, seq, ack)
    BY <1>0, <1>3, <1>6, PassFacts
  <2>2. /\ OfLastText(n, host', d) /\ OfLastText(n, host', Back[d]) /\ p.seq + p.len = host'[d].total
        /\ Contiguous(x, host, wire)
    BY <1>0, <1>1, <1>2, <2>1, SaidNumbers
  <2>3. /\ wire' \in [Dirs -> Seq(Segment)] /\ wire'[d] # <<>> /\ wire'[d][1] = p
        /\ \A e \in Dirs : e # d => wire'[e] = wire[e]
    BY <1>0, <2>1, WireTyped DEF Passed
  <2>4. NATPTTypes'
    BY <1>4, <2>1, <2>3 DEF Passed, NATPTTypes
  <2>5. /\ n \in Translator /\ p.ack = apply_ack(n, d, ack) /\ p.len = NewLen(nat, d, c)
        /\ p.all = (ack = host[Back[d]].total) /\ p.due = host[Back[d]].next
        /\ n.m[Back[d]] = x.m[Back[d]] /\ SameNumbers(nat', n)
    BY <2>1 DEF Passed
  <2>6. "64" \in Dirs /\ "46" \in Dirs /\ Back["64"] = "46" /\ Back["46"] = "64"
    BY DEF Dirs, Back
  <2>7. SUFFICES Contiguous(n, host', wire')
    <3>1. ASSUME Contiguous(n, host', wire') PROVE NATPTInv'
      <4>1. Contiguous(nat', host', wire')
        BY <2>5, <3>1, SameIsContiguous
      <4> QED
        BY <2>4, <4>1 DEF NATPTInv
    <3> QED
      BY <3>1
  <2>8. CASE d = "46"
    <3>0. PICK tot \in Int, nx \in Nat, L \in Nat, N \in Nat :
             /\ tot = host["46"].total /\ nx = host["46"].next /\ L = Length[c] /\ N = NewLen(nat, "46", c)
             /\ L > 0 /\ N > 0
      <4>1. host["46"].total \in Int /\ host["46"].next \in Nat
        BY <1>0, <2>6 DEF Ends
      <4>2. c \in Says["46"]
        BY <2>8
      <4> QED
        BY <2>6, <4>1, <4>2, TextFacts
    <3>1. /\ host'["64"] = host["64"] /\ host'["46"].said = c /\ host'["46"].next = nx + L
          /\ host'["46"].total = tot + N
      BY <1>1, <2>6, <2>8, <3>0 DEF SaidNow
    <3>2. host["46"].said = Nothing /\ c # Nothing
      BY <1>0, <2>8, TextFacts
    <3>3. NewLen(n, "46", c) = N /\ (command_found(n, "46", c) = command_found(nat, "46", c))
      BY <3>0 DEF NewLen, command_found
    <3>4. Received(n, host')
      <4>1. Translates(x, tot) /\ host["64"].got = tot
        BY <2>2, <3>0, <3>2 DEF Contiguous, Received
      <4>2. host["64"].got = (tot + N) - N
        BY <3>0, <4>1
      <4>3. ~command_found(n, "46", c) => N = L /\ n.m["46"] = x.m["46"] /\ (tot + N) - L = tot
        <5> SUFFICES ASSUME ~command_found(n, "46", c) PROVE N = L /\ n.m["46"] = x.m["46"] /\ (tot + N) - L = tot
          OBVIOUS
        <5>1. N = L
          BY <3>0, <3>3 DEF NewLen
        <5>2. n.m["46"] = x.m["46"]
          BY <2>1, <2>8, <3>3 DEF Passed
        <5> QED
          BY <3>0, <5>1, <5>2
      <4> QED
        BY <3>0, <3>1, <3>2, <3>3, <4>1, <4>2, <4>3 DEF Received, Translates
    <3>5. From46(n, host', wire')
      <4>1. p.all => p.ack = p.due
        <5>1. p.ack = apply_ack(n, "46", ack) /\ OfLastText(n, host', "64")
          BY <2>2, <2>5, <2>6, <2>8
        <5>2. host' \in [Dirs -> Ends]
          BY <1>4
        <5>3. ack = host'["64"].total => p.ack = host'["64"].next
          BY <2>5, <5>1, <5>2, AckOf46
        <5>4. p.all = (ack = host["64"].total) /\ p.due = host["64"].next
          BY <2>5, <2>6, <2>8
        <5> QED
          BY <3>1, <5>3, <5>4, Zenon
      <4> QED
        BY <2>3, <2>5, <2>8, <3>0, <3>1, <3>2, <3>3, <4>1 DEF From46
    <3>6. From64(n, host', wire')
      <4>1. wire'["64"] = wire["64"] /\ From64(x, host, wire)
        BY <2>2, <2>3, <2>6, <2>8 DEF Contiguous
      <4>2. wire["64"] # <<>> => wire["64"][1].ack = nx /\ (wire["64"][1].all => wire["64"][1].ack = wire["64"][1].due)
        BY <3>0, <3>2, <4>1 DEF From64
      <4>3. nx # nx + L
        BY <3>0
      <4> QED
        BY <3>1, <3>2, <4>1, <4>2, <4>3 DEF From64
    <3> QED
      BY <2>2, <2>3, <2>6, <2>8, <3>1, <3>4, <3>5, <3>6 DEF Contiguous, InPlace
  <2>9. CASE d = "64"
    <3>1. host'["46"] = host["46"] /\ host'["64"].got = host["64"].got /\ n.m["46"] = x.m["46"]
      BY <1>1, <2>5, <2>6, <2>9 DEF SaidNow
    <3>2. \A e : NewLen(n, "46", e) = NewLen(x, "46", e) /\ command_found(n, "46", e) = command_found(x, "46", e)
      BY DEF NewLen, command_found
    <3>3. Received(n, host')
      BY <2>2, <3>1, <3>2 DEF Contiguous, Received, Translates
    <3>4. From46(n, host', wire')
      BY <2>2, <2>3, <2>6, <2>9, <3>1, <3>2 DEF Contiguous, From46
    <3>5. From64(n, host', wire')
      <4>1. OfLastText(n, host', "46") /\ host'["46"].said \in Says["46"] \cup {Nothing} /\ host' \in [Dirs -> Ends]
        BY <1>4, <2>2, <2>6, <2>9
      <4>2. p.ack = apply_ack(n, "64", host'["64"].got)
        BY <1>2, <2>5, <2>9, <3>1
      <4>3. /\ p.ack = host'["46"].next => Translates(n, host'["46"].total) /\ host'["64"].got = host'["46"].total
            /\ host'["46"].said = Nothing => p.ack = host'["46"].next
            /\ host'["64"].got = host'["46"].total
                 => p.ack = host'["46"].next \/ (~Grown(n) /\ host'["46"].said # Nothing)
        BY <2>5, <3>3, <4>1, <4>2, AckOf64
      <4>4. p.all = (host["64"].got = host["46"].total) /\ p.due = host["46"].next
        BY <1>2, <2>5, <2>6, <2>9
      <4>5. p.all => p.ack = p.due \/ (~Grown(n) /\ host'["46"].said # Nothing /\ p.due = host'["46"].next)
        BY <3>1, <4>3, <4>4, Zenon
      <4>6. wire'["64"][1] = p
        BY <2>3, <2>9
      <4> QED
        BY <4>3, <4>5, <4>6, Zenon DEF From64
    <3> QED
      BY <2>2, <2>3, <2>6, <2>9, <3>1, <3>3, <3>4, <3>5 DEF Contiguous, InPlace
  <2> QED
    BY <2>8, <2>9 DEF Dirs
<1> QED
  BY <1>5, <1>6

\* A packet arrives behind the translator.
LEMMA NATPTInvArrive ==
    ASSUME NATPTInv, NEW d \in Dirs, Arrive(d)
    PROVE  NATPTInv'
<1>0. /\ NATPTTypes /\ host \in [Dirs -> Ends] /\ wire \in [Dirs -> Seq(Segment)]
      /\ (~nat.halted => Contiguous(nat, host, wire)) /\ UNCHANGED <<nat, turns>> /\ wire[d] # <<>>
  BY DEF NATPTInv, NATPTTypes, Arrive
<1>1. PICK b \in Dirs : b = Back[d] /\ b # d /\ \A e \in Dirs : e = b \/ e = d
  BY DEF Back, Dirs
<1>2. PICK p \in Segment : p = wire[d][1]
  <2>1. wire[d] \in Seq(Segment) /\ Len(wire[d]) > 0
    BY <1>0
  <2> QED
    BY <2>1
<1>3. PICK g \in Int, s \in Says[b] \cup {Nothing} :
        /\ g = IF p.seq = host[b].got THEN host[b].got + p.len ELSE host[b].got
        /\ s = IF p.ack = host[b].next THEN Nothing ELSE host[b].said
  <2>1. host[b].got \in Int /\ p.len \in Int /\ host[b].said \in Says[b] \cup {Nothing}
    BY <1>0, <1>2 DEF Ends, Segment, NATPTTypes
  <2> QED
    BY <2>1
<1>4. PICK e : e = [host[b] EXCEPT !.got = g, !.said = s]
  OBVIOUS
<1>5. e \in Ends /\ e.got = g /\ e.said = s /\ e.next = host[b].next /\ e.total = host[b].total
  <2>1. s \in Texts /\ host[b] \in Ends
    BY <1>0, <1>1 DEF Texts, Dirs
  <2> QED
    BY <1>4, <2>1 DEF Ends
<1>6. host' = [host EXCEPT ![b] = e]
  <2>1. host' = [host EXCEPT ![b].got = IF p.seq = @ THEN @ + p.len ELSE @,
                             ![b].said = IF p.ack = host[b].next THEN Nothing ELSE @]
    BY <1>1, <1>2 DEF Arrive
  <2> QED
    BY <1>3, <1>4, <2>1
<1>7. host' \in [Dirs -> Ends] /\ host'[b] = e /\ host'[d] = host[d]
  BY <1>0, <1>1, <1>5, <1>6
<1>8. wire' \in [Dirs -> Seq(Segment)] /\ wire'[d] = <<>> /\ wire'[b] = wire[b]
  <2>1. wire' = [wire EXCEPT ![d] = <<>>] /\ <<>> \in Seq(Segment)
    BY DEF Arrive
  <2> QED
    BY <1>0, <1>1, <2>1
<1>9. NATPTTypes'
  <2>1. \A x \in Dirs : host'[x].said \in Says[x] \cup {Nothing}
    BY <1>0, <1>1, <1>3, <1>5, <1>7 DEF NATPTTypes
  <2> QED
    BY <1>0, <1>7, <1>8, <2>1 DEF NATPTTypes
<1>10. ASSUME ~nat.halted PROVE Contiguous(nat, host', wire')
  <2>0. Contiguous(nat, host, wire) /\ "64" \in Dirs /\ "46" \in Dirs /\ Back["64"] = "46" /\ Back["46"] = "64"
    BY <1>0, <1>10 DEF Dirs, Back
  <2>1. s = Nothing \/ s = host[b].said
    BY <1>3
  <2>2. OfLastText(nat, host', d) /\ OfLastText(nat, host', b)
    <3>1. OfLastText(nat, host, d) /\ OfLastText(nat, host, b)
      BY <1>1, <2>0 DEF Contiguous, Dirs
    <3>2. OfLastText(nat, host', b)
      BY <1>5, <1>7, <2>1, <3>1 DEF OfLastText
    <3> QED
      BY <1>7, <3>1, <3>2 DEF OfLastText
  <2>3. CASE d = "64"
    <3>0. b = "46"
      BY <1>1, <2>0, <2>3
    <3>1. p.ack = host["46"].next => Translates(nat, host["46"].total) /\ host["64"].got = host["46"].total
      BY <1>0, <1>2, <2>0, <2>3 DEF Contiguous, From64
    <3>2. Received(nat, host')
      <4>1. CASE s = Nothing
        <5>1. Translates(nat, host["46"].total) /\ host["64"].got = host["46"].total
          <6>1. CASE p.ack = host["46"].next
            BY <3>1, <6>1
          <6>2. CASE p.ack # host["46"].next
            BY <1>3, <2>0, <3>0, <4>1, <6>2 DEF Contiguous, Received
          <6> QED
            BY <6>1, <6>2
        <5> QED
          BY <1>5, <1>7, <2>3, <3>0, <4>1, <5>1 DEF Received
      <4>2. CASE s = host["46"].said
        BY <1>5, <1>7, <2>0, <2>3, <3>0, <4>2 DEF Contiguous, Received
      <4> QED
        BY <2>1, <3>0, <4>1, <4>2
    <3>3. From46(nat, host', wire')
      BY <1>5, <1>7, <1>8, <2>0, <2>1, <3>0 DEF Contiguous, From46
    <3> QED
      BY <1>5, <1>7, <1>8, <2>0, <2>2, <2>3, <3>0, <3>2, <3>3 DEF Contiguous, InPlace, From64
  <2>4. CASE d = "46"
    <3>0. b = "64"
      BY <1>1, <2>0, <2>4
    <3>1. PICK tot \in Int, got \in Int, c \in Texts : tot = host["46"].total /\ got = host["64"].got /\ c = host["46"].said
      BY <1>0, <2>0 DEF Ends
    <3>2. PICK seq \in Int, len \in Int : seq = p.seq /\ len = p.len /\ seq + len = tot /\ len > 0
      BY <1>0, <1>2, <2>0, <2>4, <3>1 DEF Contiguous, InPlace, From46, Segment
    <3>3. g = IF seq = got THEN got + len ELSE got
      BY <1>3, <3>0, <3>1, <3>2
    <3>4. got = tot => g = tot
      BY <3>2, <3>3
    <3>5. Received(nat, host')
      <4>1. c = Nothing => g = tot /\ Translates(nat, tot)
        BY <2>0, <3>1, <3>4 DEF Contiguous, Received
      <4>2. c # Nothing => g = tot \/ g = tot - NewLen(nat, "46", c)
        <5> SUFFICES ASSUME c # Nothing PROVE g = tot \/ g = tot - NewLen(nat, "46", c)
          OBVIOUS
        <5>1. len = NewLen(nat, "46", c) /\ (got = tot \/ got = tot - NewLen(nat, "46", c))
          BY <1>0, <1>2, <2>0, <2>4, <3>1, <3>2 DEF Contiguous, From46, Received
        <5> QED
          BY <3>2, <3>3, <3>4, <5>1
      <4>3. c # Nothing /\ ~command_found(nat, "46", c) => Translates(nat, tot - Length[c])
        BY <2>0, <3>1 DEF Contiguous, Received
      <4> QED
        BY <1>5, <1>7, <2>4, <3>0, <3>1, <4>1, <4>2, <4>3 DEF Received
    <3>6. From64(nat, host', wire')
      BY <1>5, <1>7, <1>8, <2>0, <2>4, <3>0, <3>1, <3>4 DEF Contiguous, From64
    <3> QED
      BY <1>5, <1>7, <1>8, <2>0, <2>2, <2>4, <3>0, <3>5, <3>6 DEF Contiguous, InPlace, From46
  <2> QED
    BY <2>3, <2>4 DEF Dirs
<1> QED
  BY <1>0, <1>9, <1>10 DEF NATPTInv

\* A packet is lost.
LEMMA NATPTInvLose ==
    ASSUME NATPTInv, NEW d \in Dirs, Lose(d)
    PROVE  NATPTInv'
<1>1. wire' = [wire EXCEPT ![d] = <<>>] /\ wire \in [Dirs -> Seq(Segment)] /\ <<>> \in Seq(Segment) /\ UNCHANGED <<nat, host, turns>>
  BY DEF Lose, NATPTInv, NATPTTypes
<1>2. wire' \in [Dirs -> Seq(Segment)] /\ wire'[d] = <<>> /\ \A e \in Dirs : e # d => wire'[e] = wire[e]
  BY <1>1
<1>3. NATPTTypes'
  BY <1>1, <1>2 DEF NATPTInv, NATPTTypes
<1>4. ASSUME Contiguous(nat, host, wire) PROVE Contiguous(nat, host, wire')
  <2>1. "64" \in Dirs /\ "46" \in Dirs
    BY DEF Dirs
  <2>2. InPlace(host, wire', "64") /\ InPlace(host, wire', "46")
    BY <1>2, <1>4, <2>1 DEF Contiguous, InPlace
  <2>3. From46(nat, host, wire') /\ From64(nat, host, wire')
    BY <1>2, <1>4, <2>1 DEF Contiguous, From46, From64
  <2> QED
    BY <1>4, <2>2, <2>3 DEF Contiguous
<1> QED
  BY <1>1, <1>3, <1>4 DEF NATPTInv

\* Packets without text, timers, and one that ends the process
LEMMA NATPTInvOther ==
    ASSUME NATPTInv, \/ \E d \in Dirs : \E flags \in {{"SYN"}, {"FIN"}, {"RST"}} : Control(d, flags)
                     \/ Malformed \/ tcp_gc_hook \/ tcp_done_gc_hook
    PROVE  NATPTInv'
<1>0. /\ NATPTTypes /\ nat \in Translator /\ host \in [Dirs -> Ends] /\ wire \in [Dirs -> Seq(Segment)]
      /\ (nat.tracked => nat.map = "live") /\ (~nat.halted => Contiguous(nat, host, wire))
  BY DEF NATPTInv, NATPTTypes
<1>1. ASSUME NEW x, nat' = x, x \in Translator, x.tracked => x.map = "live", UNCHANGED <<host, wire, turns>>,
             ~x.halted => ~nat.halted /\ Contiguous(x, host, wire)
      PROVE  NATPTInv'
  BY <1>0, <1>1 DEF NATPTInv, NATPTTypes
<1>2. CASE \E d \in Dirs : \E flags \in {{"SYN"}, {"FIN"}, {"RST"}} : Control(d, flags)
  <2>1. PICK d \in Dirs, flags \in {{"SYN"}, {"FIN"}, {"RST"}} : Control(d, flags)
    BY <1>2
  <2>2. CASE nat.map = "freed"
    <3>1. PICK x : x = [nat EXCEPT !.halted = TRUE]
      OBVIOUS
    <3>2. nat' = x /\ UNCHANGED <<host, wire, turns>>
      BY <2>1, <2>2, <3>1 DEF Control
    <3>3. x \in Translator /\ x.halted /\ x.tracked = nat.tracked /\ x.map = nat.map
      BY <1>0, <3>1 DEF Translator
    <3> QED
      BY <1>0, <1>1, <3>2, <3>3
  <2>3. CASE nat.map # "freed"
    <3>1. PICK garbage \in BOOLEAN : nat' = translate(apply_create(nat, garbage), d, flags)
      BY <2>1, <2>3 DEF Control
    <3>2. PICK y, x : y = apply_create(nat, garbage) /\ x = translate(y, d, flags)
      OBVIOUS
    <3>3. CreatedFrom(y, nat)
      BY <1>0, <3>2, CreateFacts
    <3>4. y \in Translator /\ y.map = "live" /\ y.halted = nat.halted
      BY <1>0, <2>3, <3>3 DEF CreatedFrom, Translator
    <3>5. x \in Translator /\ SameNumbers(x, y) /\ x.map = y.map
      BY <3>2, <3>4, FlagsFacts
    <3>6. ~nat.halted /\ UNCHANGED <<host, wire, turns>>
      BY <2>1 DEF Control
    <3>7. Contiguous(y, host, wire)
      BY <1>0, <3>3, <3>6, CreatedIsContiguous
    <3>8. Contiguous(x, host, wire)
      BY <3>5, <3>7, SameIsContiguous
    <3>9. nat' = x
      BY <3>1, <3>2
    <3> QED
      BY <1>1, <3>4, <3>5, <3>6, <3>8, <3>9
  <2> QED
    BY <2>2, <2>3
<1>3. CASE Malformed
  <2>1. PICK x : x = [nat EXCEPT !.halted = TRUE]
    OBVIOUS
  <2>2. nat' = x /\ UNCHANGED <<host, wire, turns>>
    BY <1>3, <2>1 DEF Malformed
  <2>3. x \in Translator /\ x.halted /\ x.tracked = nat.tracked /\ x.map = nat.map
    BY <1>0, <2>1 DEF Translator
  <2> QED
    BY <1>0, <1>1, <2>2, <2>3
<1>4. CASE tcp_gc_hook
  <2>1. PICK x : x = [nat EXCEPT !.map = "freed"]
    OBVIOUS
  <2>2. nat' = x /\ ~nat.tracked /\ UNCHANGED <<host, wire, turns>>
    BY <1>4, <2>1 DEF tcp_gc_hook
  <2>3. /\ x \in Translator /\ x.halted = nat.halted /\ x.tracked = nat.tracked /\ x.map = "freed"
        /\ x.m = nat.m /\ x.epsv_found = nat.epsv_found
    BY <1>0, <2>1 DEF Translator
  <2>4. SameNumbers(x, nat)
    BY <2>3 DEF SameNumbers
  <2>5. ~nat.halted => Contiguous(x, host, wire)
    BY <1>0, <2>4, SameIsContiguous
  <2> QED
    BY <1>1, <2>2, <2>3, <2>5
<1>5. CASE tcp_done_gc_hook
  <2>1. PICK x : x = IF session_over(nat) THEN [nat EXCEPT !.map = "freed", !.tracked = FALSE]
                     ELSE [nat EXCEPT !.tracked = FALSE]
    OBVIOUS
  <2>2. nat' = x /\ nat.map = "live" /\ UNCHANGED <<host, wire, turns>>
    BY <1>5, <2>1 DEF tcp_done_gc_hook
  <2>3. /\ x \in Translator /\ x.halted = nat.halted /\ x.tracked = FALSE /\ x.map \in {"freed", nat.map}
        /\ x.m = nat.m /\ x.epsv_found = nat.epsv_found
    <3>1. CASE session_over(nat)
      BY <1>0, <2>1, <3>1 DEF Translator
    <3>2. CASE ~session_over(nat)
      BY <1>0, <2>1, <3>2 DEF Translator
    <3> QED
      BY <3>1, <3>2
  <2>4. SameNumbers(x, nat)
    BY <2>2, <2>3 DEF SameNumbers
  <2>5. ~nat.halted => Contiguous(x, host, wire)
    BY <1>0, <2>4, SameIsContiguous
  <2> QED
    BY <1>1, <2>2, <2>3, <2>5
<1> QED
  BY <1>2, <1>3, <1>4, <1>5

\* Both hosts see one contiguous stream, and acknowledgements of what was said, although
\* texts in it are rewritten, lost and said again: for all texts of any lengths.
THEOREM StreamsAreContiguous == NATPTSpec => [](NATPTTypeOK /\ StreamsContiguous)
<1>1. NATPTInit => NATPTInv
  BY NATPTInvInit
<1>2. NATPTInv /\ [NATPTNext]_natVars => NATPTInv'
  <2> SUFFICES ASSUME NATPTInv, [NATPTNext]_natVars PROVE NATPTInv'
    OBVIOUS
  <2>1. CASE NATPTNext
    BY <2>1, NATPTInvSay, NATPTInvRetransmit, NATPTInvArrive, NATPTInvLose, NATPTInvOther DEF NATPTNext
  <2>2. CASE UNCHANGED natVars
    BY <2>2 DEF natVars, NATPTInv, NATPTTypes
  <2> QED
    BY <2>1, <2>2
<1>3. NATPTInv => NATPTTypeOK /\ StreamsContiguous
  <2> SUFFICES ASSUME NATPTInv PROVE NATPTTypeOK /\ StreamsContiguous
    OBVIOUS
  <2>1. NATPTTypeOK
    BY DEF NATPTInv, NATPTTypes, NATPTTypeOK, Translator
  <2>2. StreamsContiguous
    <3> SUFFICES ASSUME ~nat.halted, NEW d \in Dirs, wire[d] # <<>>
                 PROVE  /\ wire[d][1].seq + wire[d][1].len = host[d].total
                        /\ wire[d][1].all /\ (d = "64" => Grown(nat)) => wire[d][1].ack = wire[d][1].due
      BY DEF StreamsContiguous, Grown
    <3>1. Contiguous(nat, host, wire) /\ (d = "64" \/ d = "46")
      BY DEF NATPTInv, Dirs
    <3>2. CASE d = "64"
      BY <3>1, <3>2 DEF Contiguous, InPlace, From64
    <3>3. CASE d = "46"
      BY <3>1, <3>3 DEF Contiguous, InPlace, From46
    <3> QED
      BY <3>1, <3>2, <3>3
  <2> QED
    BY <2>1, <2>2
<1> QED
  BY <1>1, <1>2, <1>3, PTL DEF NATPTSpec

-----------------------------------------------------------------------------
(* Tunnels: calls, and numbered packets.                                   *)

\* A number has one quotient and one remainder.
LEMMA OneRemainder ==
    ASSUME NEW n \in Nat, n > 0, NEW a \in Int, NEW q \in Int, NEW r \in 0 .. n - 1, a = q * n + r
    PROVE  a % n = r
<1>1. a % n \in 0 .. n - 1 /\ a \div n \in Int /\ a = n * (a \div n) + (a % n)
  OBVIOUS
<1> DEFINE p == a \div n
           s == a % n
<1>2. p \in Int /\ s \in 0 .. n - 1 /\ n * p + s = q * n + r
  BY <1>1
<1> HIDE DEF p, s
<1>3. p = q
  <2>1. n * (p - q) = r - s
    BY <1>2
  <2>2. CASE p - q >= 1
    <3>1. n * (p - q) >= n
      BY <1>2, <2>2
    <3> QED
      BY <1>2, <2>1, <3>1
  <2>3. CASE p - q <= -1
    <3>1. n * (p - q) <= -n
      BY <1>2, <2>3
    <3> QED
      BY <1>2, <2>1, <3>1
  <2> QED
    BY <1>2, <2>2, <2>3
<1> QED
  BY <1>2, <1>3 DEF s

\* The difference of two remainders is that of the numbers, up to a multiple.
LEMMA RemainderDiff ==
    ASSUME NEW n \in Nat, n > 0, NEW a \in Int, NEW b \in Int
    PROVE  ((a % n) - (b % n)) % n = (a - b) % n
<1>1. PICK p \in Int : a = p * n + (a % n)
  OBVIOUS
<1>2. PICK q \in Int : b = q * n + (b % n)
  OBVIOUS
<1>3. PICK k \in Int : a - b = k * n + ((a - b) % n)
  OBVIOUS
<1>4. a % n \in Int /\ b % n \in Int /\ (a - b) % n \in 0 .. n - 1
  OBVIOUS
<1> DEFINE x == a % n
           y == b % n
           z == (a - b) % n
<1>5. x - y = (k - p + q) * n + z
  BY <1>1, <1>2, <1>3, <1>4
<1>6. x \in Int /\ y \in Int /\ z \in 0 .. n - 1 /\ x - y \in Int /\ k - p + q \in Int
  BY <1>4
<1> HIDE DEF x, y, z
<1>7. (x - y) % n = z
  BY <1>5, <1>6, OneRemainder
<1> QED
  BY <1>7 DEF x, y, z

LEMMA RemainderNext ==
    ASSUME NEW n \in Nat, n > 0, NEW a \in Int
    PROVE  ((a % n) + 1) % n = (a + 1) % n
<1>1. PICK p \in Int : a = p * n + (a % n)
  OBVIOUS
<1>2. PICK k \in Int : a + 1 = k * n + ((a + 1) % n)
  OBVIOUS
<1>3. a % n \in Int /\ (a + 1) % n \in 0 .. n - 1
  OBVIOUS
<1> DEFINE x == a % n
           z == (a + 1) % n
<1>4. x + 1 = (k - p) * n + z
  BY <1>1, <1>2, <1>3
<1>5. x + 1 \in Int /\ z \in 0 .. n - 1 /\ k - p \in Int
  BY <1>3
<1> HIDE DEF x, z
<1>6. (x + 1) % n = z
  BY <1>4, <1>5, OneRemainder
<1> QED
  BY <1>6 DEF x, z

\* A packet that is late by less than half of the numbers is not ahead.
LEMMA LateIsBehind ==
    ASSUME NEW n \in Nat, n > 3, NEW d \in Int, d <= 0, -d < n \div 2
    PROVE  d % n \notin 1 .. n \div 2 - 1
<1>1. n \div 2 \in Nat /\ 2 * (n \div 2) <= n
  OBVIOUS
<1>2. CASE d = 0
  <2>1. d = 0 * n + 0 /\ 0 \in 0 .. n - 1
    BY <1>2
  <2>2. d % n = 0
    BY <2>1, OneRemainder
  <2> QED
    BY <2>2
<1>3. CASE d < 0
  <2>1. d = (-1) * n + (n + d) /\ n + d \in 0 .. n - 1
    BY <1>1, <1>3
  <2>2. d % n = n + d
    BY <2>1, OneRemainder
  <2> QED
    BY <1>1, <2>2
<1> QED
  BY <1>2, <1>3

-----------------------------------------------------------------------------
\* The number of the last packet that CheckGREHeader accepted, 0 when there is none
LastAccepted == IF gre.accepted = <<>> THEN 0 ELSE gre.accepted[Len(gre.accepted)]

GRERecord == [sent : Nat, last : Int, wire : SUBSET [number : Nat, seq : Int], seq : Int,
              accepted : Seq(Nat), reads : {"same", "next"}]

\* A packet that is on its way is late by less than half of the numbers.  Its sequence number, and
\* that which was accepted last, are those of the packets but for the wrapping; in a
\* build that reads the word behind the number, every packet is the first.
GREInv ==
    /\ gre \in GRERecord
    /\ \A m \in gre.wire : m.number \in 1 .. gre.sent /\ gre.sent - m.number < NumberMod \div 2
    /\ LastAccepted <= gre.sent
    /\ gre.reads = "same" => /\ gre.last = gre.sent % NumberMod
                             /\ gre.seq = LastAccepted % NumberMod
                             /\ \A m \in gre.wire : m.seq = m.number % NumberMod
    /\ gre.reads = "next" => /\ \A m \in gre.wire : m.seq = 1
                             /\ gre.seq = (IF gre.accepted = <<>> THEN 0 ELSE 1)
    /\ GREInOrder

LEMMA GREInvInit == GREInit => GREInv
<1> SUFFICES ASSUME GREInit PROVE GREInv
  OBVIOUS
<1>1. /\ gre.sent = 0 /\ gre.last = 0 /\ gre.wire = {} /\ gre.seq = 0 /\ gre.accepted = <<>>
      /\ gre \in GRERecord
  <2>1. PICK r \in {"same", "next"} :
          gre = [sent |-> 0, last |-> 0, wire |-> {}, seq |-> 0, accepted |-> <<>>, reads |-> r]
    BY Zenon DEF GREInit
  <2>2. {} \in SUBSET [number : Nat, seq : Int] /\ <<>> \in Seq(Nat)
    OBVIOUS
  <2> QED
    BY <2>1, <2>2 DEF GRERecord
<1>2. 0 % NumberMod = 0
  <2>1. 0 = 0 * NumberMod + 0 /\ 0 \in 0 .. NumberMod - 1 /\ NumberMod \in Nat /\ NumberMod > 0
    BY TunnelAssumption
  <2> QED
    BY <2>1, OneRemainder
<1> QED
  BY <1>1, <1>2 DEF GREInv, LastAccepted, GREInOrder

\* A packet is sent.
LEMMA GREInvSent == GREInv /\ GREEncap_simple_action => GREInv'
<1> SUFFICES ASSUME GREInv, GREEncap_simple_action PROVE GREInv'
  OBVIOUS
<1>1. NumberMod \in Nat /\ NumberMod > 3
  BY TunnelAssumption
<1>2. NumberMod \div 2 \in Nat /\ NumberMod \div 2 > 0
  BY <1>1
<1> DEFINE n == ((IF gre.reads = "same" THEN gre.last ELSE 0) + 1) % NumberMod
           new == [number |-> gre.sent + 1, seq |-> n]
           W == {m \in gre.wire : gre.sent + 1 - m.number < NumberMod \div 2} \cup {new}
<1>3. gre' = [gre EXCEPT !.sent = @ + 1, !.last = n, !.wire = W]
  BY DEF GREEncap_simple_action
<1>4. gre \in GRERecord /\ gre.sent \in Nat /\ gre.last \in Int
  BY DEF GREInv, GRERecord
<1>5. n \in Int
  BY <1>1, <1>4
<1>6. gre.reads = "same" => n = (gre.sent + 1) % NumberMod
  <2> SUFFICES ASSUME gre.reads = "same" PROVE n = (gre.sent + 1) % NumberMod
    OBVIOUS
  <2>1. gre.last = gre.sent % NumberMod
    BY DEF GREInv
  <2>2. ((gre.sent % NumberMod) + 1) % NumberMod = (gre.sent + 1) % NumberMod
    <3>1. gre.sent \in Int /\ NumberMod > 0
      BY <1>1, <1>4
    <3> QED
      BY <1>1, <3>1, RemainderNext, Zenon
  <2> QED
    BY <2>1, <2>2
<1>7. gre.reads = "next" => n = 1
  <2>1. 1 % NumberMod = 1
    <3>1. 1 = 0 * NumberMod + 1 /\ 1 \in 0 .. NumberMod - 1
      BY <1>1
    <3> QED
      BY <1>1, <3>1, OneRemainder
  <2> QED
    BY <2>1
<1> HIDE DEF n
<1>8. W \subseteq [number : Nat, seq : Int]
  BY <1>4, <1>5 DEF GRERecord
<1>9. \A m \in W : m = new \/ (m \in gre.wire /\ gre.sent + 1 - m.number < NumberMod \div 2)
  OBVIOUS
<1>10. new.number = gre.sent + 1 /\ new.seq = n
  OBVIOUS
<1> HIDE DEF W, new
<1>11. /\ gre'.sent = gre.sent + 1 /\ gre'.last = n /\ gre'.wire = W /\ gre'.seq = gre.seq
       /\ gre'.accepted = gre.accepted /\ gre'.reads = gre.reads /\ gre' \in GRERecord
  <2>1. W \in SUBSET [number : Nat, seq : Int] /\ gre.sent + 1 \in Nat
    BY <1>4, <1>8
  <2> QED
    BY <1>3, <1>4, <1>5, <2>1 DEF GRERecord
<1>12. \A m \in W : m.number \in 1 .. gre.sent + 1 /\ gre.sent + 1 - m.number < NumberMod \div 2
  <2> TAKE m \in W
  <2>1. m.number \in Nat
    BY <1>8
  <2> QED
    BY <1>2, <1>4, <1>9, <1>10, <2>1 DEF GREInv
<1>13. gre.reads = "same" => \A m \in W : m.seq = m.number % NumberMod
  BY <1>6, <1>9, <1>10 DEF GREInv
<1>14. gre.reads = "next" => \A m \in W : m.seq = 1
  BY <1>7, <1>9, <1>10 DEF GREInv
<1>15. LastAccepted' = LastAccepted /\ LastAccepted \in Nat /\ LastAccepted <= gre.sent
  BY <1>4, <1>11 DEF LastAccepted, GREInv, GRERecord
<1>16. GREInOrder'
  BY <1>11 DEF GREInv, GREInOrder
<1> QED
  BY <1>4, <1>6, <1>11, <1>12, <1>13, <1>14, <1>15, <1>16 DEF GREInv

\* A packet that is accepted was sent after the last one that was.
LEMMA AheadIsLater ==
    ASSUME GREInv, NEW m \in gre.wire, Ahead(m.seq)
    PROVE  m.number > LastAccepted /\ (gre.reads = "next" => gre.accepted = <<>>)
<1>1. NumberMod \in Nat /\ NumberMod > 3
  BY TunnelAssumption
<1>2. NumberMod \div 2 \in Nat /\ NumberMod \div 2 > 0
  BY <1>1
<1>3. /\ m.number \in Nat /\ gre.sent \in Nat /\ LastAccepted \in Nat /\ LastAccepted <= gre.sent
      /\ gre.sent - m.number < NumberMod \div 2
  BY DEF GREInv, GRERecord, LastAccepted
<1>4. (m.seq - gre.seq) % NumberMod \in 1 .. NumberMod \div 2 - 1
  BY DEF Ahead
<1>5. CASE gre.reads = "same"
  <2>1. m.seq = m.number % NumberMod /\ gre.seq = LastAccepted % NumberMod
    BY <1>5 DEF GREInv
  <2>2. (m.number - LastAccepted) % NumberMod \in 1 .. NumberMod \div 2 - 1
    <3>1. ((m.number % NumberMod) - (LastAccepted % NumberMod)) % NumberMod = (m.number - LastAccepted) % NumberMod
      <4>1. m.number \in Int /\ LastAccepted \in Int /\ NumberMod > 0
        BY <1>1, <1>3
      <4> QED
        BY <1>1, <4>1, RemainderDiff, Zenon
    <3> QED
      BY <1>4, <2>1, <3>1
  <2>3. SUFFICES ASSUME m.number <= LastAccepted PROVE FALSE
    BY <1>3, <1>5
  <2> DEFINE d == m.number - LastAccepted
  <2>4. d \in Int /\ d <= 0 /\ -d < NumberMod \div 2
    BY <1>2, <1>3, <2>3
  <2> HIDE DEF d
  <2>5. d % NumberMod \notin 1 .. NumberMod \div 2 - 1
    BY <1>1, <2>4, LateIsBehind
  <2> QED
    BY <2>2, <2>5 DEF d
<1>6. CASE gre.reads = "next"
  <2>1. m.seq = 1 /\ gre.seq = (IF gre.accepted = <<>> THEN 0 ELSE 1)
    BY <1>6 DEF GREInv
  <2>2. 0 % NumberMod = 0
    <3>1. 0 = 0 * NumberMod + 0 /\ 0 \in 0 .. NumberMod - 1
      BY <1>1
    <3> QED
      BY <1>1, <3>1, OneRemainder
  <2>3. gre.accepted = <<>>
    BY <1>4, <2>1, <2>2
  <2>4. LastAccepted = 0
    BY <2>3 DEF LastAccepted
  <2>5. m.number # 0
    BY DEF GREInv, GRERecord
  <2> QED
    BY <1>3, <2>3, <2>4, <2>5
<1> QED
  BY <1>5, <1>6 DEF GREInv, GRERecord

\* A packet arrives.
LEMMA GREInvArrived ==
    ASSUME GREInv, NEW m \in gre.wire, NEW again \in BOOLEAN, CheckGREHeader_simple_action(m, again)
    PROVE  GREInv'
<1> DEFINE W == IF again THEN gre.wire ELSE gre.wire \ {m}
<1>1. /\ gre \in GRERecord /\ m.number \in Nat /\ m.seq \in Int /\ gre.accepted \in Seq(Nat) /\ gre.seq \in Int
      /\ gre.sent \in Nat /\ m.number <= gre.sent
  BY DEF GREInv, GRERecord
<1>2. W \subseteq gre.wire
  OBVIOUS
<1>3. gre' = [gre EXCEPT !.wire = W, !.seq = IF Ahead(m.seq) THEN m.seq ELSE @,
                         !.accepted = IF Ahead(m.seq) THEN Append(@, m.number) ELSE @]
  BY DEF CheckGREHeader_simple_action
<1> HIDE DEF W
<1>4. /\ gre'.sent = gre.sent /\ gre'.last = gre.last /\ gre'.wire = W /\ gre'.reads = gre.reads
      /\ gre'.seq = (IF Ahead(m.seq) THEN m.seq ELSE gre.seq)
      /\ gre'.accepted = (IF Ahead(m.seq) THEN Append(gre.accepted, m.number) ELSE gre.accepted)
      /\ gre' \in GRERecord
  <2> DEFINE q == IF Ahead(m.seq) THEN m.seq ELSE gre.seq
             s == IF Ahead(m.seq) THEN Append(gre.accepted, m.number) ELSE gre.accepted
  <2>1. W \in SUBSET [number : Nat, seq : Int]
    BY <1>1, <1>2 DEF GRERecord
  <2>2. q \in Int /\ s \in Seq(Nat)
    BY <1>1
  <2>3. gre' = [gre EXCEPT !.wire = W, !.seq = q, !.accepted = s]
    BY <1>3
  <2> HIDE DEF q, s
  <2>4. /\ gre'.sent = gre.sent /\ gre'.last = gre.last /\ gre'.wire = W /\ gre'.reads = gre.reads
        /\ gre'.seq = q /\ gre'.accepted = s /\ gre' \in GRERecord
    BY <1>1, <2>1, <2>2, <2>3 DEF GRERecord
  <2> QED
    BY <2>4 DEF q, s
<1>5. /\ \A w \in W : w.number \in 1 .. gre.sent /\ gre.sent - w.number < NumberMod \div 2
      /\ gre.reads = "same" => \A w \in W : w.seq = w.number % NumberMod
      /\ gre.reads = "next" => \A w \in W : w.seq = 1
  BY <1>2 DEF GREInv
<1>6. CASE ~Ahead(m.seq)
  <2>1. gre'.seq = gre.seq /\ gre'.accepted = gre.accepted
    BY <1>4, <1>6
  <2>2. LastAccepted' = LastAccepted
    BY <2>1 DEF LastAccepted
  <2>3. GREInOrder'
    BY <2>1 DEF GREInv, GREInOrder
  <2> QED
    BY <1>4, <1>5, <2>1, <2>2, <2>3 DEF GREInv
<1>7. CASE Ahead(m.seq)
  <2>1. m.number > LastAccepted /\ (gre.reads = "next" => gre.accepted = <<>>)
    BY <1>7, AheadIsLater
  <2>2. gre'.seq = m.seq /\ gre'.accepted = Append(gre.accepted, m.number)
    BY <1>4, <1>7
  <2>3. LastAccepted' = m.number /\ gre'.accepted # <<>>
    BY <1>1, <2>2 DEF LastAccepted
  <2>4. GREInOrder'
    <3> SUFFICES ASSUME NEW i \in 1 .. Len(gre'.accepted) - 1
                 PROVE  gre'.accepted[i] < gre'.accepted[i + 1]
      BY DEF GREInOrder
    <3>1. Len(gre.accepted) \in Nat /\ i \in 1 .. Len(gre.accepted) /\ gre'.accepted[i] = gre.accepted[i]
      BY <1>1, <2>2
    <3>2. CASE i = Len(gre.accepted)
      BY <1>1, <2>1, <2>2, <3>1, <3>2 DEF LastAccepted
    <3>3. CASE i # Len(gre.accepted)
      <4>1. i \in 1 .. Len(gre.accepted) - 1 /\ i + 1 \in 1 .. Len(gre.accepted)
        BY <3>1, <3>3
      <4>2. gre'.accepted[i + 1] = gre.accepted[i + 1]
        BY <1>1, <2>2, <4>1
      <4> QED
        BY <3>1, <4>1, <4>2 DEF GREInv, GREInOrder
    <3> QED
      BY <3>2, <3>3
  <2>5. gre.reads = "same" => gre'.seq = LastAccepted' % NumberMod
    BY <2>2, <2>3 DEF GREInv
  <2>6. gre.reads = "next" => gre'.seq = 1
    BY <2>2 DEF GREInv
  <2> QED
    BY <1>1, <1>4, <1>5, <2>3, <2>4, <2>5, <2>6 DEF GREInv
<1> QED
  BY <1>6, <1>7

Connection == [peer : Peer, pptp : Fds \cup {0}, gre : Fds \cup {0}, input : 0 .. Inputs,
               seq_recv : Nat, ack_sent : Nat, timer : BOOLEAN]
Frame == [peer : Peer, call : Fds, seq : Nat, short : BOOLEAN]
Tables == UNION {[D -> Connection] : D \in SUBSET Fds}
Server == [connections : Tables, inputs : [1 .. Inputs -> Fds \cup {0}], halted : BOOLEAN]

\* CallsSound of a state s of the server; a call has no call of its own
CallsOf(s) ==
    LET C == s.connections
    IN  /\ \A f \in DOMAIN C :
             IF IS_GRE(C[f])
             THEN /\ C[f].gre = 0 /\ C[f].input \in 1 .. Inputs
                  /\ C[f].pptp \in DOMAIN C /\ C[C[f].pptp].gre = f /\ s.inputs[C[f].input] = f
             ELSE /\ C[f].input = 0
                  /\ C[f].gre # 0 => C[f].gre \in DOMAIN C /\ C[C[f].gre].pptp = f
        /\ \A i \in 1 .. Inputs : s.inputs[i] # 0 =>
             s.inputs[i] \in DOMAIN C /\ C[s.inputs[i]].input = i

\* The sockets of calls only hold packets.
PPTPInv ==
    /\ pptp \in Server /\ CallsOf(pptp)
    /\ sock \in [Fds -> Seq(Frame)]
    /\ \A f \in Fds : sock[f] # <<>> => f \in DOMAIN pptp.connections /\ IS_GRE(pptp.connections[f])
    /\ peers \in [told : [Peer -> SUBSET Fds], sent : Nat, air : SUBSET Frame]

LEMMA FdsPositive == Fds \subseteq Nat /\ 0 \notin Fds
BY TunnelAssumption

\* The tables of connections: a connection is added or changed, and some are dropped.
LEMMA TablePut ==
    ASSUME NEW C \in Tables, NEW f \in Fds, NEW c \in Connection
    PROVE  /\ Put(C, f, c) \in Tables /\ DOMAIN Put(C, f, c) = DOMAIN C \cup {f}
           /\ \A x \in DOMAIN C \cup {f} : Put(C, f, c)[x] = IF x = f THEN c ELSE C[x]
<1>1. PICK D \in SUBSET Fds : C \in [D -> Connection]
  BY DEF Tables
<1>2. Put(C, f, c) = [x \in D \cup {f} |-> IF x = f THEN c ELSE C[x]]
  BY <1>1 DEF Put
<1>3. Put(C, f, c) \in [D \cup {f} -> Connection] /\ D \cup {f} \in SUBSET Fds
  BY <1>1, <1>2
<1> QED
  BY <1>1, <1>2, <1>3 DEF Tables

LEMMA TableDrop ==
    ASSUME NEW C \in Tables, NEW S
    PROVE  /\ Drop(C, S) \in Tables /\ DOMAIN Drop(C, S) = DOMAIN C \ S
           /\ \A x \in DOMAIN C \ S : Drop(C, S)[x] = C[x]
<1>1. PICK D \in SUBSET Fds : C \in [D -> Connection]
  BY DEF Tables
<1>2. Drop(C, S) = [x \in D \ S |-> C[x]]
  BY <1>1 DEF Drop, Restrict
<1>3. Drop(C, S) \in [D \ S -> Connection] /\ D \ S \in SUBSET Fds
  BY <1>1, <1>2
<1> QED
  BY <1>1, <1>2, <1>3 DEF Tables

LEMMA TableFacts ==
    ASSUME NEW C \in Tables
    PROVE  DOMAIN C \subseteq Fds /\ \A x \in DOMAIN C : C[x] \in Connection
BY DEF Tables

\* One connection is changed.
LEMMA TableExcept ==
    ASSUME NEW C \in Tables, NEW f \in DOMAIN C, NEW c \in Connection
    PROVE  /\ [C EXCEPT ![f] = c] \in Tables /\ DOMAIN [C EXCEPT ![f] = c] = DOMAIN C
           /\ [C EXCEPT ![f] = c][f] = c
           /\ \A x \in DOMAIN C : x # f => [C EXCEPT ![f] = c][x] = C[x]
<1>1. PICK D \in SUBSET Fds : C \in [D -> Connection]
  BY DEF Tables
<1>2. [C EXCEPT ![f] = c] \in [D -> Connection]
  BY <1>1
<1> QED
  BY <1>1, <1>2 DEF Tables

\* cleanup_connection() of a call: its control connection still points at it.
LEMMA CleanupGre ==
    ASSUME NEW s \in Server, CallsOf(s), NEW g \in DOMAIN s.connections, IS_GRE(s.connections[g]),
           NEW t, t = cleanup_gre(s, g)
    PROVE  /\ t \in Server /\ t.halted = s.halted
           /\ DOMAIN t.connections = DOMAIN s.connections \ {g}
           /\ \A x \in DOMAIN t.connections : t.connections[x] = s.connections[x]
           /\ t.inputs[s.connections[g].input] = 0
           /\ \A i \in 1 .. Inputs : i # s.connections[g].input => t.inputs[i] = s.inputs[i]
<1>1. s.connections \in Tables /\ s.inputs \in [1 .. Inputs -> Fds \cup {0}]
  BY DEF Server
<1>2. s.connections[g].input \in 1 .. Inputs
  BY DEF CallsOf
<1>3. /\ Drop(s.connections, {g}) \in Tables /\ DOMAIN Drop(s.connections, {g}) = DOMAIN s.connections \ {g}
      /\ \A x \in DOMAIN s.connections \ {g} : Drop(s.connections, {g})[x] = s.connections[x]
  BY <1>1, TableDrop
<1> DEFINE I == [s.inputs EXCEPT ![s.connections[g].input] = 0]
           C == Drop(s.connections, {g})
<1>4. I \in [1 .. Inputs -> Fds \cup {0}]
  BY <1>1
<1>5. t = [s EXCEPT !.connections = C, !.inputs = I]
  <2>1. t = [s EXCEPT !.connections = Drop(@, {g}), !.inputs[s.connections[g].input] = 0]
    BY DEF cleanup_gre
  <2> QED
    BY <2>1 DEF Server
<1>6. C \in Tables
  BY <1>3
<1> HIDE DEF I, C
<1>7. t \in Server /\ t.connections = C /\ t.inputs = I /\ t.halted = s.halted
  BY <1>4, <1>5, <1>6 DEF Server
<1>8. PICK k : k = s.connections[g].input
  OBVIOUS
<1>9. I = [s.inputs EXCEPT ![k] = 0] /\ k \in 1 .. Inputs
  BY <1>2, <1>8 DEF I
<1>10. I[k] = 0 /\ \A i \in 1 .. Inputs : i # k => I[i] = s.inputs[i]
  BY <1>1, <1>9
<1> QED
  BY <1>3, <1>7, <1>8, <1>10 DEF C

\* What the call of a control connection is
LEMMA CallOf ==
    ASSUME NEW s \in Server, CallsOf(s), NEW f \in DOMAIN s.connections, ~IS_GRE(s.connections[f]),
           NEW g, g = s.connections[f].gre, g # 0
    PROVE  /\ g \in DOMAIN s.connections /\ g # f /\ IS_GRE(s.connections[g]) /\ s.connections[g].pptp = f
           /\ s.connections[g].input \in 1 .. Inputs /\ s.inputs[s.connections[g].input] = g
           /\ s.connections[g].gre = 0
<1>1. f \in Fds
  BY TableFacts DEF Server
<1> QED
  BY <1>1, FdsPositive DEF CallsOf, IS_GRE

\* No other connection points at the call of a control connection.
LEMMA OnlyOne ==
    ASSUME NEW s \in Server, CallsOf(s), NEW f \in DOMAIN s.connections, ~IS_GRE(s.connections[f]),
           NEW g, g = s.connections[f].gre, g # 0
    PROVE  /\ \A x \in DOMAIN s.connections : x # f => s.connections[x].gre # g
           /\ \A x \in DOMAIN s.connections : s.connections[x].pptp = f => x = g
           /\ \A i \in 1 .. Inputs : i # s.connections[g].input => s.inputs[i] # g
<1>1. f \in Fds /\ \A x \in DOMAIN s.connections : x \in Fds
  BY TableFacts DEF Server
<1>2. 0 \notin Fds
  BY FdsPositive
<1>3. g \in DOMAIN s.connections /\ IS_GRE(s.connections[g]) /\ s.connections[g].pptp = f
  BY CallOf
<1>4. ASSUME NEW x \in DOMAIN s.connections, s.connections[x].gre = g PROVE x = f
  BY <1>1, <1>2, <1>3, <1>4 DEF CallsOf, IS_GRE
<1>5. ASSUME NEW x \in DOMAIN s.connections, s.connections[x].pptp = f PROVE x = g
  BY <1>1, <1>2, <1>5 DEF CallsOf, IS_GRE
<1>6. ASSUME NEW i \in 1 .. Inputs, s.inputs[i] = g PROVE i = s.connections[g].input
  BY <1>6, <1>1, <1>2, <1>3 DEF CallsOf
<1> QED
  BY <1>4, <1>5, <1>6

\* CALL_CLR_RQST of a control connection
LEMMA ClearSound ==
    ASSUME NEW s \in Server, CallsOf(s), NEW f \in DOMAIN s.connections, ~IS_GRE(s.connections[f]),
           NEW t, t = call_clr_rqst(s, f)
    PROVE  /\ t \in Server /\ CallsOf(t) /\ t.halted = s.halted
           /\ f \in DOMAIN t.connections /\ t.connections[f].gre = 0 /\ ~IS_GRE(t.connections[f])
           /\ DOMAIN t.connections = DOMAIN s.connections \ {s.connections[f].gre}
           /\ \A x \in DOMAIN t.connections : t.connections[x].pptp = s.connections[x].pptp
<1> PICK g : g = s.connections[f].gre
  OBVIOUS
<1>0. /\ s.connections \in Tables /\ f \in Fds /\ 0 \notin Fds /\ DOMAIN s.connections \subseteq Fds
      /\ s.connections[f] \in Connection
  BY TableFacts, FdsPositive DEF Server
<1>1. CASE g = 0
  <2>1. t = s
    BY <1>1 DEF call_clr_rqst
  <2>2. 0 \notin DOMAIN s.connections
    BY <1>0
  <2> QED
    BY <1>1, <2>1, <2>2
<1>2. CASE g # 0
  <2>1. /\ g \in DOMAIN s.connections /\ g # f /\ IS_GRE(s.connections[g]) /\ s.connections[g].pptp = f
        /\ s.connections[g].input \in 1 .. Inputs /\ s.inputs[s.connections[g].input] = g
        /\ s.connections[g].gre = 0
    BY <1>2, CallOf
  <2>2. /\ \A x \in DOMAIN s.connections : x # f => s.connections[x].gre # g
        /\ \A x \in DOMAIN s.connections : s.connections[x].pptp = f => x = g
        /\ \A i \in 1 .. Inputs : i # s.connections[g].input => s.inputs[i] # g
    BY <1>2, OnlyOne
  <2>3. PICK u : u = cleanup_gre(s, g)
    OBVIOUS
  <2>4. /\ u \in Server /\ u.halted = s.halted
        /\ DOMAIN u.connections = DOMAIN s.connections \ {g}
        /\ \A x \in DOMAIN u.connections : u.connections[x] = s.connections[x]
        /\ u.inputs[s.connections[g].input] = 0
        /\ \A i \in 1 .. Inputs : i # s.connections[g].input => u.inputs[i] = s.inputs[i]
    <3>1. g \in DOMAIN s.connections /\ IS_GRE(s.connections[g])
      BY <2>1
    <3> QED
      BY <2>3, <3>1, CleanupGre
  <2>5. t = [u EXCEPT !.connections[f].gre = 0]
    BY <1>2, <2>3 DEF call_clr_rqst
  <2>6. u.connections \in Tables /\ f \in DOMAIN u.connections /\ u.connections[f] = s.connections[f]
    BY <1>0, <2>1, <2>4 DEF Server
  <2>7. PICK c : c = [u.connections[f] EXCEPT !.gre = 0]
    OBVIOUS
  <2>8. c \in Connection /\ c.gre = 0 /\ c.pptp = s.connections[f].pptp /\ c.input = s.connections[f].input
    BY <1>0, <2>6, <2>7 DEF Connection
  <2>9. PICK C : C = [u.connections EXCEPT ![f] = c]
    OBVIOUS
  <2>10. /\ C \in Tables /\ DOMAIN C = DOMAIN s.connections \ {g} /\ C[f] = c
         /\ \A x \in DOMAIN C : x # f => C[x] = s.connections[x]
    BY <2>4, <2>6, <2>8, <2>9, TableExcept
  <2>11. t = [u EXCEPT !.connections = C]
    BY <2>4, <2>5, <2>7, <2>9 DEF Server
  <2>12. t \in Server /\ t.connections = C /\ t.inputs = u.inputs /\ t.halted = u.halted
    BY <2>4, <2>10, <2>11 DEF Server
  <2>13. /\ t.inputs \in [1 .. Inputs -> Fds \cup {0}] /\ t.inputs[s.connections[g].input] = 0
         /\ \A i \in 1 .. Inputs : i # s.connections[g].input => t.inputs[i] = s.inputs[i]
    BY <2>4, <2>12 DEF Server
  <2>14. ASSUME NEW x \in DOMAIN C
         PROVE  IF IS_GRE(C[x])
                THEN /\ C[x].gre = 0 /\ C[x].input \in 1 .. Inputs
                     /\ C[x].pptp \in DOMAIN C /\ C[C[x].pptp].gre = x /\ t.inputs[C[x].input] = x
                ELSE /\ C[x].input = 0
                     /\ C[x].gre # 0 => C[x].gre \in DOMAIN C /\ C[C[x].gre].pptp = x
    <3>1. x \in DOMAIN s.connections /\ x # g
      BY <2>10
    <3>2. CASE x = f
      <4>1. C[x] = c /\ c.gre = 0 /\ c.pptp = s.connections[f].pptp /\ c.input = s.connections[f].input
        BY <2>8, <2>10, <3>2
      <4>2. s.connections[f].input = 0 /\ ~IS_GRE(c)
        BY <4>1 DEF CallsOf, IS_GRE
      <4> QED
        BY <4>1, <4>2
    <3>3. CASE x # f
      <4>1. C[x] = s.connections[x]
        BY <2>10, <3>3
      <4>2. s.connections[x].gre # g /\ s.connections[x].pptp # f
        BY <2>2, <3>1, <3>3
      <4>3. CASE IS_GRE(s.connections[x])
        <5>1. /\ s.connections[x].gre = 0 /\ s.connections[x].input \in 1 .. Inputs
              /\ s.connections[x].pptp \in DOMAIN s.connections
              /\ s.connections[s.connections[x].pptp].gre = x
              /\ s.inputs[s.connections[x].input] = x
          BY <3>1, <4>3 DEF CallsOf
        <5>2. s.connections[x].pptp # g
          BY <1>0, <2>1, <3>1, <5>1
        <5>3. s.connections[x].input # s.connections[g].input
          BY <2>1, <3>1, <5>1
        <5> QED
          BY <2>10, <2>13, <4>1, <4>2, <4>3, <5>1, <5>2, <5>3
      <4>4. CASE ~IS_GRE(s.connections[x])
        <5>1. s.connections[x].input = 0 /\ (s.connections[x].gre # 0 => /\ s.connections[x].gre \in DOMAIN s.connections
                                          /\ s.connections[s.connections[x].gre].pptp = x)
          BY <3>1, <4>4 DEF CallsOf
        <5>2. s.connections[x].gre # f
          BY <1>0, <3>1, <4>4, <5>1 DEF IS_GRE
        <5> QED
          BY <2>10, <4>1, <4>2, <4>4, <5>1, <5>2
      <4> QED
        BY <4>3, <4>4
    <3> QED
      BY <3>2, <3>3
  <2>15. ASSUME NEW i \in 1 .. Inputs, t.inputs[i] # 0
         PROVE  t.inputs[i] \in DOMAIN C /\ C[t.inputs[i]].input = i
    <3>1. i # s.connections[g].input /\ t.inputs[i] = s.inputs[i] /\ s.inputs[i] # g
      BY <2>2, <2>13, <2>15
    <3>2. s.inputs[i] \in DOMAIN s.connections /\ s.connections[s.inputs[i]].input = i
      BY <2>15, <3>1 DEF CallsOf
    <3> QED
      BY <2>8, <2>10, <3>1, <3>2
  <2>16. CallsOf(t)
    BY <2>12, <2>14, <2>15 DEF CallsOf
  <2>17. \A x \in DOMAIN t.connections : t.connections[x].pptp = s.connections[x].pptp
    BY <2>8, <2>10, <2>12
  <2>18. ~IS_GRE(t.connections[f])
    BY <2>8, <2>10, <2>12 DEF IS_GRE
  <2> QED
    BY <2>4, <2>6, <2>8, <2>10, <2>12, <2>16, <2>17, <2>18
<1> QED
  BY <1>1, <1>2

\* cleanup_connection() of a control connection, and of its call
LEMMA EndSound ==
    ASSUME NEW s \in Server, CallsOf(s), NEW f \in DOMAIN s.connections, ~IS_GRE(s.connections[f]),
           NEW t, t = cleanup_connection(s, f)
    PROVE  /\ t \in Server /\ CallsOf(t) /\ t.halted = s.halted
           /\ DOMAIN t.connections = DOMAIN s.connections \ {f, s.connections[f].gre}
           /\ \A x \in DOMAIN t.connections : t.connections[x] = s.connections[x]
<1> PICK g : g = s.connections[f].gre
  OBVIOUS
<1>0. /\ s.connections \in Tables /\ f \in Fds /\ 0 \notin Fds /\ DOMAIN s.connections \subseteq Fds
      /\ s.inputs \in [1 .. Inputs -> Fds \cup {0}]
  BY TableFacts, FdsPositive DEF Server
<1>1. PICK u : u = IF g = 0 THEN s ELSE cleanup_gre(s, g)
  OBVIOUS
<1>2. t = [u EXCEPT !.connections = Drop(@, {f})]
  BY <1>1 DEF cleanup_connection
<1>3. /\ u \in Server /\ u.halted = s.halted
      /\ DOMAIN u.connections = DOMAIN s.connections \ {g}
      /\ \A x \in DOMAIN u.connections : u.connections[x] = s.connections[x]
      /\ \A i \in 1 .. Inputs : u.inputs[i] # 0 => u.inputs[i] = s.inputs[i] /\ s.inputs[i] # g
      /\ \A i \in 1 .. Inputs : s.inputs[i] # g => u.inputs[i] = s.inputs[i]
  <2>1. CASE g = 0
    BY <1>0, <1>1, <2>1
  <2>2. CASE g # 0
    <3>1. /\ g \in DOMAIN s.connections /\ IS_GRE(s.connections[g])
          /\ s.connections[g].input \in 1 .. Inputs /\ s.inputs[s.connections[g].input] = g
      BY <2>2, CallOf
    <3>2. \A i \in 1 .. Inputs : i # s.connections[g].input => s.inputs[i] # g
      BY <2>2, OnlyOne
    <3>3. /\ u \in Server /\ u.halted = s.halted
          /\ DOMAIN u.connections = DOMAIN s.connections \ {g}
          /\ \A x \in DOMAIN u.connections : u.connections[x] = s.connections[x]
          /\ u.inputs[s.connections[g].input] = 0
          /\ \A i \in 1 .. Inputs : i # s.connections[g].input => u.inputs[i] = s.inputs[i]
      <4>1. u = cleanup_gre(s, g)
        BY <1>1, <2>2
      <4>2. g \in DOMAIN s.connections /\ IS_GRE(s.connections[g])
        BY <3>1
      <4> QED
        BY <4>1, <4>2, CleanupGre
    <3> QED
      BY <1>0, <3>1, <3>2, <3>3
  <2> QED
    BY <2>1, <2>2
<1>4. PICK C : C = Drop(u.connections, {f})
  OBVIOUS
<1>5. /\ C \in Tables /\ DOMAIN C = DOMAIN s.connections \ {f, g}
      /\ \A x \in DOMAIN C : C[x] = s.connections[x]
  <2>1. u.connections \in Tables
    BY <1>3 DEF Server
  <2>2. /\ C \in Tables /\ DOMAIN C = DOMAIN u.connections \ {f}
        /\ \A x \in DOMAIN u.connections \ {f} : C[x] = u.connections[x]
    BY <1>4, <2>1, TableDrop
  <2> QED
    BY <1>3, <2>2
<1>6. t = [u EXCEPT !.connections = C]
  BY <1>2, <1>4
<1>7. t \in Server /\ t.connections = C /\ t.inputs = u.inputs /\ t.halted = u.halted
  BY <1>3, <1>5, <1>6 DEF Server
<1>8. ASSUME NEW x \in DOMAIN C
      PROVE  IF IS_GRE(C[x])
             THEN /\ C[x].gre = 0 /\ C[x].input \in 1 .. Inputs
                  /\ C[x].pptp \in DOMAIN C /\ C[C[x].pptp].gre = x /\ t.inputs[C[x].input] = x
             ELSE /\ C[x].input = 0
                  /\ C[x].gre # 0 => C[x].gre \in DOMAIN C /\ C[C[x].gre].pptp = x
  <2>1. x \in DOMAIN s.connections /\ x # f /\ x # g /\ C[x] = s.connections[x] /\ x \in Fds
    BY <1>0, <1>5
  <2>2. CASE IS_GRE(s.connections[x])
    <3>1. /\ s.connections[x].gre = 0 /\ s.connections[x].input \in 1 .. Inputs
          /\ s.connections[x].pptp \in DOMAIN s.connections
          /\ s.connections[s.connections[x].pptp].gre = x
          /\ s.inputs[s.connections[x].input] = x
      BY <2>1, <2>2 DEF CallsOf
    <3>2. s.connections[x].pptp # f
      BY <2>1, <3>1
    <3>3. s.connections[x].pptp # g
      <4>1. CASE g = 0
        BY <1>0, <3>1, <4>1
      <4>2. CASE g # 0
        <5>1. s.connections[g].gre = 0
          BY <4>2, CallOf
        <5> QED
          BY <1>0, <2>1, <3>1, <5>1
      <4> QED
        BY <4>1, <4>2
    <3>4. t.inputs[C[x].input] = x
      BY <1>3, <1>7, <2>1, <3>1
    <3> QED
      BY <1>5, <2>1, <2>2, <3>1, <3>2, <3>3, <3>4
  <2>3. CASE ~IS_GRE(s.connections[x])
    <3>1. s.connections[x].input = 0 /\ (s.connections[x].gre # 0 => /\ s.connections[x].gre \in DOMAIN s.connections
                                      /\ s.connections[s.connections[x].gre].pptp = x)
      BY <2>1, <2>3 DEF CallsOf
    <3>2. s.connections[x].gre # 0 => s.connections[x].gre # f
      BY <1>0, <2>1, <3>1 DEF IS_GRE
    <3>3. s.connections[x].gre # 0 => s.connections[x].gre # g
      <4>1. CASE g = 0
        BY <4>1
      <4>2. CASE g # 0
        BY <2>1, <4>2, OnlyOne
      <4> QED
        BY <4>1, <4>2
    <3> QED
      BY <1>5, <2>1, <2>3, <3>1, <3>2, <3>3
  <2> QED
    BY <2>2, <2>3
<1>9. ASSUME NEW i \in 1 .. Inputs, t.inputs[i] # 0
      PROVE  t.inputs[i] \in DOMAIN C /\ C[t.inputs[i]].input = i
  <2>1. t.inputs[i] = s.inputs[i] /\ s.inputs[i] # g
    BY <1>3, <1>7, <1>9
  <2>2. s.inputs[i] \in DOMAIN s.connections /\ s.connections[s.inputs[i]].input = i
    BY <1>9, <2>1 DEF CallsOf
  <2>3. s.inputs[i] # f
    <3>1. s.connections[f].input = 0
      BY DEF CallsOf
    <3> QED
      BY <2>2, <3>1
  <2> QED
    BY <1>5, <2>1, <2>2, <2>3
<1>10. CallsOf(t)
  BY <1>7, <1>8, <1>9 DEF CallsOf
<1> QED
  BY <1>3, <1>5, <1>7, <1>10


\* A set of descriptors or of inputs has a lowest member.
LEMMA LowestIn ==
    ASSUME NEW S, S \subseteq Nat, S # {}
    PROVE  Lowest(S) \in S
<1>1. \E n \in S : \A m \in S : n <= m
  BY LeastNat
<1> QED
  BY <1>1 DEF Lowest

\* initialize_gre() for a control connection without a call
LEMMA CallSound ==
    ASSUME NEW s \in Server, CallsOf(s), NEW f \in DOMAIN s.connections, ~IS_GRE(s.connections[f]),
           s.connections[f].gre = 0, NEW fails, NEW t, t = initialize_gre(s, f, fails)
    PROVE  /\ t \in Server /\ CallsOf(t) /\ t.halted = s.halted
           /\ DOMAIN s.connections \subseteq DOMAIN t.connections
           /\ \A x \in DOMAIN s.connections : t.connections[x].pptp = s.connections[x].pptp
<1>0. /\ s.connections \in Tables /\ f \in Fds /\ 0 \notin Fds /\ Fds \subseteq Nat
      /\ DOMAIN s.connections \subseteq Fds
      /\ s.connections[f] \in Connection /\ s.inputs \in [1 .. Inputs -> Fds \cup {0}]
  BY TableFacts, FdsPositive DEF Server
<1> DEFINE fail == FreeInputs(s) = {} \/ FreeFds(s) = {} \/ fails
<1>1. CASE fail
  <2>1. t = [s EXCEPT !.connections[f].gre = 0]
    BY <1>1 DEF initialize_gre
  <2>2. [s.connections[f] EXCEPT !.gre = 0] = s.connections[f]
    BY <1>0 DEF Connection
  <2>3. [s.connections EXCEPT ![f].gre = 0] = s.connections
    <3>1. PICK D \in SUBSET Fds : s.connections \in [D -> Connection]
      BY <1>0 DEF Tables
    <3> QED
      BY <2>2, <3>1
  <2>4. t = s
    BY <2>1, <2>3 DEF Server
  <2> QED
    BY <2>4
<1>2. CASE ~fail
  <2>1. PICK g : g = Lowest(FreeFds(s))
    OBVIOUS
  <2>2. PICK i : i = Lowest(FreeInputs(s))
    OBVIOUS
  <2>3. g \in Fds /\ g \notin DOMAIN s.connections /\ g # f /\ g # 0
    <3>1. FreeFds(s) \subseteq Fds /\ FreeFds(s) # {} /\ FreeFds(s) \subseteq Nat
      BY <1>0, <1>2 DEF FreeFds
    <3> QED
      BY <1>0, <2>1, <3>1, LowestIn DEF FreeFds
  <2>4. i \in 1 .. Inputs /\ s.inputs[i] = 0
    <3>1. FreeInputs(s) # {} /\ FreeInputs(s) \subseteq Nat
      BY <1>2, TunnelAssumption DEF FreeInputs
    <3> QED
      BY <2>2, <3>1, LowestIn DEF FreeInputs
  <2>5. PICK c : c = [s.connections[f] EXCEPT !.gre = g]
    OBVIOUS
  <2>6. PICK call : call = [ControlConnection(s.connections[f].peer) EXCEPT !.pptp = f, !.input = i]
    OBVIOUS
  <2>7. /\ c \in Connection /\ c.gre = g /\ c.pptp = s.connections[f].pptp /\ c.input = s.connections[f].input
    BY <1>0, <2>3, <2>5 DEF Connection
  <2>8. /\ call \in Connection /\ call.pptp = f /\ call.gre = 0 /\ call.input = i
    <3>1. call = [peer |-> s.connections[f].peer, pptp |-> f, gre |-> 0, input |-> i, seq_recv |-> 0,
                  ack_sent |-> 0, timer |-> FALSE]
      BY <2>6 DEF ControlConnection
    <3>2. s.connections[f].peer \in Peer /\ i \in 0 .. Inputs /\ 0 \in Nat
      BY <1>0, <2>4, TunnelAssumption DEF Connection
    <3> QED
      BY <1>0, <3>1, <3>2 DEF Connection
  <2>9. PICK B : B = [s.connections EXCEPT ![f] = c]
    OBVIOUS
  <2>10. PICK C : C = Put(B, g, call)
    OBVIOUS
  <2>11. PICK I : I = [s.inputs EXCEPT ![i] = g]
    OBVIOUS
  <2>12. t = [s EXCEPT !.connections = C, !.inputs = I]
    <3>1. t = [s EXCEPT !.connections = Put([@ EXCEPT ![f].gre = g], g, call), !.inputs[i] = g]
      BY <1>2, <2>1, <2>2, <2>6 DEF initialize_gre
    <3>2. [s.connections EXCEPT ![f].gre = g] = B
      BY <2>5, <2>9
    <3> QED
      BY <2>10, <2>11, <3>1, <3>2 DEF Server
  <2>13. /\ B \in Tables /\ DOMAIN B = DOMAIN s.connections /\ B[f] = c
         /\ \A x \in DOMAIN B : x # f => B[x] = s.connections[x]
    BY <1>0, <2>7, <2>9, TableExcept
  <2>14. /\ C \in Tables /\ DOMAIN C = DOMAIN s.connections \cup {g} /\ C[f] = c /\ C[g] = call
         /\ \A x \in DOMAIN s.connections : x # f => C[x] = s.connections[x]
    <3>1. /\ C \in Tables /\ DOMAIN C = DOMAIN B \cup {g}
          /\ \A x \in DOMAIN B \cup {g} : C[x] = IF x = g THEN call ELSE B[x]
      BY <2>3, <2>8, <2>10, <2>13, TablePut
    <3> QED
      BY <2>3, <2>13, <3>1
  <2>15. /\ I \in [1 .. Inputs -> Fds \cup {0}] /\ I[i] = g
         /\ \A j \in 1 .. Inputs : j # i => I[j] = s.inputs[j]
    BY <1>0, <2>3, <2>4, <2>11
  <2>16. t \in Server /\ t.connections = C /\ t.inputs = I /\ t.halted = s.halted
    BY <2>12, <2>14, <2>15 DEF Server
  <2>17. ~IS_GRE(c) /\ IS_GRE(call) /\ c.input = 0
    <3>1. s.connections[f].input = 0
      BY DEF CallsOf
    <3> QED
      BY <1>0, <2>7, <2>8, <3>1 DEF IS_GRE
  <2>18. ASSUME NEW x \in DOMAIN C
         PROVE  IF IS_GRE(C[x])
                THEN /\ C[x].gre = 0 /\ C[x].input \in 1 .. Inputs
                     /\ C[x].pptp \in DOMAIN C /\ C[C[x].pptp].gre = x /\ I[C[x].input] = x
                ELSE /\ C[x].input = 0
                     /\ C[x].gre # 0 => C[x].gre \in DOMAIN C /\ C[C[x].gre].pptp = x
    <3>1. CASE x = f
      BY <2>7, <2>8, <2>14, <2>17, <3>1
    <3>2. CASE x = g
      BY <2>4, <2>7, <2>8, <2>14, <2>15, <2>17, <3>2
    <3>3. CASE x # f /\ x # g
      <4>1. x \in DOMAIN s.connections /\ C[x] = s.connections[x]
        BY <2>14, <3>3
      <4>2. CASE IS_GRE(s.connections[x])
        <5>1. /\ s.connections[x].gre = 0 /\ s.connections[x].input \in 1 .. Inputs
              /\ s.connections[x].pptp \in DOMAIN s.connections
              /\ s.connections[s.connections[x].pptp].gre = x
              /\ s.inputs[s.connections[x].input] = x
          BY <4>1, <4>2 DEF CallsOf
        <5>2. s.connections[x].pptp # f /\ x # 0
          BY <1>0, <4>1, <5>1
        <5>3. s.connections[x].input # i
          BY <2>4, <5>1, <5>2
        <5> QED
          BY <2>14, <2>15, <4>1, <4>2, <5>1, <5>2, <5>3
      <4>3. CASE ~IS_GRE(s.connections[x])
        <5>1. s.connections[x].input = 0 /\ (s.connections[x].gre # 0 =>
                /\ s.connections[x].gre \in DOMAIN s.connections
                /\ s.connections[s.connections[x].gre].pptp = x)
          BY <4>1, <4>3 DEF CallsOf
        <5>2. s.connections[x].gre # 0 => s.connections[x].gre # f
          BY <1>0, <4>1, <5>1 DEF IS_GRE
        <5> QED
          BY <2>14, <4>1, <4>3, <5>1, <5>2
      <4> QED
        BY <4>2, <4>3
    <3> QED
      BY <3>1, <3>2, <3>3
  <2>19. ASSUME NEW j \in 1 .. Inputs, I[j] # 0
         PROVE  I[j] \in DOMAIN C /\ C[I[j]].input = j
    <3>1. CASE j = i
      BY <2>8, <2>14, <2>15, <3>1
    <3>2. CASE j # i
      <4>1. I[j] = s.inputs[j]
        BY <2>15, <3>2
      <4>2. s.inputs[j] \in DOMAIN s.connections /\ s.connections[s.inputs[j]].input = j
        BY <2>19, <4>1 DEF CallsOf
      <4> QED
        BY <2>7, <2>14, <4>1, <4>2
    <3> QED
      BY <3>1, <3>2
  <2>20. CallsOf(t)
    BY <2>16, <2>18, <2>19 DEF CallsOf
  <2>21. \A x \in DOMAIN s.connections : t.connections[x].pptp = s.connections[x].pptp
    BY <2>7, <2>14, <2>16
  <2> QED
    BY <2>14, <2>16, <2>20, <2>21
<1> QED
  BY <1>1, <1>2

\* A message on a control connection
LEMMA HandledSound ==
    ASSUME NEW s \in Server, CallsOf(s), NEW f \in DOMAIN s.connections, ~IS_GRE(s.connections[f]),
           NEW type \in Types, NEW fails, NEW t, t = Handled(s, f, type, fails).s
    PROVE  /\ t \in Server /\ CallsOf(t) /\ t.halted = s.halted
           /\ f \in DOMAIN t.connections /\ ~IS_GRE(t.connections[f])
           /\ \A x \in DOMAIN t.connections \cap DOMAIN s.connections :
                 type # "OUT_CALL_RQST" \/ x # s.connections[f].gre
                    => t.connections[x].pptp = s.connections[x].pptp
<1>1. CASE type = "OUT_CALL_RQST"
  <2>1. PICK u : u = call_clr_rqst(s, f)
    OBVIOUS
  <2>2. /\ u \in Server /\ CallsOf(u) /\ u.halted = s.halted
        /\ f \in DOMAIN u.connections /\ u.connections[f].gre = 0 /\ ~IS_GRE(u.connections[f])
        /\ DOMAIN u.connections = DOMAIN s.connections \ {s.connections[f].gre}
        /\ \A x \in DOMAIN u.connections : u.connections[x].pptp = s.connections[x].pptp
    BY <2>1, ClearSound
  <2>3. t = initialize_gre(u, f, fails)
    BY <1>1, <2>1 DEF Handled
  <2>4. u \in Server /\ CallsOf(u) /\ f \in DOMAIN u.connections /\ u.connections[f].gre = 0 /\ ~IS_GRE(u.connections[f])
    BY <2>2
  <2>5. /\ t \in Server /\ CallsOf(t) /\ t.halted = u.halted
        /\ DOMAIN u.connections \subseteq DOMAIN t.connections
        /\ \A x \in DOMAIN u.connections : t.connections[x].pptp = u.connections[x].pptp
    BY <2>3, <2>4, CallSound
  <2>6. ~IS_GRE(t.connections[f])
    BY <2>2, <2>5 DEF IS_GRE
  <2> QED
    BY <1>1, <2>2, <2>5, <2>6
<1>2. CASE type = "CALL_CLR_RQST"
  <2>1. t = call_clr_rqst(s, f)
    BY <1>2 DEF Handled
  <2> QED
    BY <2>1, ClearSound
<1>3. CASE type \notin {"OUT_CALL_RQST", "CALL_CLR_RQST"}
  <2>1. t = s
    BY <1>3 DEF Handled, Types
  <2> QED
    BY <2>1
<1> QED
  BY <1>1, <1>2, <1>3

LEMMA PPTPInvInit == PPTPInit => PPTPInv
<1> SUFFICES ASSUME PPTPInit PROVE PPTPInv
  OBVIOUS
<1>1. DOMAIN <<>> = {}
  OBVIOUS
<1>2. <<>> \in Tables
  <2>1. <<>> = [x \in {} |-> {}]
    OBVIOUS
  <2>2. [x \in {} |-> {}] \in [{} -> Connection]
    OBVIOUS
  <2> QED
    BY <2>1, <2>2, Zenon DEF Tables
<1>3. [i \in 1 .. Inputs |-> 0] \in [1 .. Inputs -> Fds \cup {0}]
  OBVIOUS
<1>4. pptp = [connections |-> <<>>, inputs |-> [i \in 1 .. Inputs |-> 0], halted |-> FALSE]
  BY DEF PPTPInit
<1>5. pptp \in Server
  BY <1>2, <1>3, <1>4, Zenon DEF Server
<1>6. DOMAIN pptp.connections = {} /\ \A i \in 1 .. Inputs : pptp.inputs[i] = 0
  BY <1>1, <1>4
<1>7. CallsOf(pptp)
  BY <1>6 DEF CallsOf
<1>8. sock = [f \in Fds |-> <<>>] /\ sock \in [Fds -> Seq(Frame)]
  <2>1. <<>> \in Seq(Frame)
    OBVIOUS
  <2> QED
    BY <2>1 DEF PPTPInit
<1>9. peers \in [told : [Peer -> SUBSET Fds], sent : Nat, air : SUBSET Frame]
  <2>1. peers = [told |-> [p \in Peer |-> {}], sent |-> 0, air |-> {}]
    BY DEF PPTPInit
  <2>2. [p \in Peer |-> {}] \in [Peer -> SUBSET Fds] /\ {} \in SUBSET Frame /\ 0 \in Nat
    OBVIOUS
  <2> QED
    BY <2>1, <2>2
<1> QED
  BY <1>5, <1>7, <1>8, <1>9 DEF PPTPInv

\* A peer connects.
LEMMA PPTPInvConnect ==
    ASSUME PPTPInv, NEW p \in Peer, initialize_pptp(p)
    PROVE  PPTPInv'
<1>0. /\ pptp \in Server /\ CallsOf(pptp) /\ pptp.connections \in Tables /\ pptp.halted \in BOOLEAN
      /\ pptp.inputs \in [1 .. Inputs -> Fds \cup {0}] /\ 0 \notin Fds /\ Fds \subseteq Nat
      /\ DOMAIN pptp.connections \subseteq Fds
  BY TableFacts, FdsPositive DEF PPTPInv, Server
<1>1. PICK g : g = Lowest(FreeFds(pptp))
  OBVIOUS
<1>2. g \in Fds /\ g \notin DOMAIN pptp.connections
  <2>1. FreeFds(pptp) # {} /\ FreeFds(pptp) \subseteq Nat
    BY <1>0 DEF initialize_pptp, FreeFds
  <2> QED
    BY <1>1, <2>1, LowestIn DEF FreeFds
<1>3. PICK c : c = ControlConnection(p)
  OBVIOUS
<1>4. c \in Connection /\ c.pptp = 0 /\ c.gre = 0 /\ c.input = 0
  <2>1. 0 \in 0 .. Inputs
    BY TunnelAssumption
  <2> QED
    BY <1>3, <2>1 DEF ControlConnection, Connection
<1>5. PICK C : C = Put(pptp.connections, g, c)
  OBVIOUS
<1>6. /\ C \in Tables /\ DOMAIN C = DOMAIN pptp.connections \cup {g}
      /\ C[g] = c /\ \A x \in DOMAIN pptp.connections : C[x] = pptp.connections[x]
  <2>1. /\ C \in Tables /\ DOMAIN C = DOMAIN pptp.connections \cup {g}
        /\ \A x \in DOMAIN pptp.connections \cup {g} : C[x] = IF x = g THEN c ELSE pptp.connections[x]
    <3>1. PICK B : B = pptp.connections
      OBVIOUS
    <3>2. B \in Tables /\ g \in Fds /\ c \in Connection
      BY <1>0, <1>2, <1>4, <3>1
    <3>3. /\ Put(B, g, c) \in Tables /\ DOMAIN Put(B, g, c) = DOMAIN B \cup {g}
          /\ \A x \in DOMAIN B \cup {g} : Put(B, g, c)[x] = IF x = g THEN c ELSE B[x]
      BY <3>2, TablePut
    <3> QED
      BY <1>5, <3>1, <3>3
  <2> QED
    BY <1>2, <2>1
<1>7. pptp' = [pptp EXCEPT !.connections = C]
  BY <1>1, <1>3, <1>5 DEF initialize_pptp
<1>8. pptp' \in Server /\ pptp'.connections = C /\ pptp'.inputs = pptp.inputs
  BY <1>0, <1>6, <1>7 DEF Server
<1>9. CallsOf(pptp')
  <2>1. ASSUME NEW x \in DOMAIN C
        PROVE  IF IS_GRE(C[x])
               THEN /\ C[x].gre = 0 /\ C[x].input \in 1 .. Inputs
                    /\ C[x].pptp \in DOMAIN C /\ C[C[x].pptp].gre = x /\ pptp.inputs[C[x].input] = x
               ELSE /\ C[x].input = 0
                    /\ C[x].gre # 0 => C[x].gre \in DOMAIN C /\ C[C[x].gre].pptp = x
    <3>1. CASE x = g
      BY <1>4, <1>6, <3>1 DEF IS_GRE
    <3>2. CASE x # g
      <4>1. x \in DOMAIN pptp.connections /\ C[x] = pptp.connections[x]
        BY <1>6, <3>2
      <4> QED
        BY <1>0, <1>6, <4>1 DEF CallsOf
    <3> QED
      BY <3>1, <3>2
  <2>2. \A i \in 1 .. Inputs : pptp.inputs[i] # 0 =>
          pptp.inputs[i] \in DOMAIN C /\ C[pptp.inputs[i]].input = i
    BY <1>0, <1>6 DEF CallsOf
  <2> QED
    BY <1>8, <2>1, <2>2 DEF CallsOf
<1>10. \A f \in Fds : sock[f] # <<>> => f \in DOMAIN C /\ IS_GRE(C[f])
  BY <1>2, <1>6 DEF PPTPInv
<1>11. sock' = sock /\ peers' = peers
  BY DEF initialize_pptp
<1> QED
  BY <1>8, <1>9, <1>10, <1>11 DEF PPTPInv

\* A peer sends a packet, and a packet arrives.
LEMMA PPTPInvSends ==
    ASSUME PPTPInv, NEW p \in Peer, NEW call \in Fds, NEW short \in BOOLEAN, PeerSends(p, call, short)
    PROVE  PPTPInv'
<1> DEFINE m == [peer |-> p, call |-> call, seq |-> peers.sent, short |-> short]
<1>1. peers \in [told : [Peer -> SUBSET Fds], sent : Nat, air : SUBSET Frame]
  BY DEF PPTPInv
<1>2. m \in Frame
  BY <1>1 DEF Frame
<1>3. peers' = [peers EXCEPT !.sent = @ + 1, !.air = @ \cup {m}]
  BY DEF PeerSends
<1> HIDE DEF m
<1>4. peers.sent + 1 \in Nat /\ peers.air \cup {m} \in SUBSET Frame
  BY <1>1, <1>2
<1>5. peers' \in [told : [Peer -> SUBSET Fds], sent : Nat, air : SUBSET Frame]
  BY <1>1, <1>3, <1>4
<1>6. pptp' = pptp /\ sock' = sock
  BY DEF PeerSends
<1> QED
  BY <1>5, <1>6 DEF PPTPInv

LEMMA PPTPInvArrives ==
    ASSUME PPTPInv, NEW m \in peers.air, Arrives(m)
    PROVE  PPTPInv'
<1>1. /\ peers \in [told : [Peer -> SUBSET Fds], sent : Nat, air : SUBSET Frame]
      /\ sock \in [Fds -> Seq(Frame)] /\ m \in Frame
  BY DEF PPTPInv
<1>2. peers' = [peers EXCEPT !.air = @ \ {m}] /\ pptp' = pptp
  BY DEF Arrives
<1>3. peers' \in [told : [Peer -> SUBSET Fds], sent : Nat, air : SUBSET Frame]
  <2>1. peers.air \ {m} \in SUBSET Frame
    BY <1>1
  <2> QED
    BY <1>1, <1>2, <2>1
<1>4. sock' = [f \in Fds |-> IF /\ f \in DOMAIN pptp.connections
                                /\ IS_GRE(pptp.connections[f]) /\ pptp.connections[f].peer = m.peer
                             THEN Append(sock[f], m) ELSE sock[f]]
  BY DEF Arrives
<1>5. \A f \in Fds : sock[f] \in Seq(Frame) /\ Append(sock[f], m) \in Seq(Frame)
  BY <1>1
<1>6. sock' \in [Fds -> Seq(Frame)]
  BY <1>4, <1>5
<1>7. \A f \in Fds : sock'[f] # <<>> => f \in DOMAIN pptp.connections /\ IS_GRE(pptp.connections[f])
  BY <1>4 DEF PPTPInv
<1> QED
  BY <1>2, <1>3, <1>6, <1>7 DEF PPTPInv

\* The sockets after a step: only calls that stay keep what they hold.
LEMMA SocketsFit ==
    ASSUME PPTPInv, NEW t \in Server, NEW closed, NEW S,
           S = Held(t, closed),
           \A x \in DOMAIN t.connections \cap DOMAIN pptp.connections :
              x \in closed \/ t.connections[x].pptp = pptp.connections[x].pptp
    PROVE  /\ S \in [Fds -> Seq(Frame)]
           /\ \A f \in Fds : S[f] # <<>> => f \in DOMAIN t.connections /\ IS_GRE(t.connections[f])
<1>1. S = [f \in Fds |-> IF f \in DOMAIN t.connections \ closed THEN sock[f] ELSE <<>>]
  BY DEF Held
<1>2. \A f \in Fds : sock[f] \in Seq(Frame) /\ <<>> \in Seq(Frame)
  BY DEF PPTPInv
<1>3. S \in [Fds -> Seq(Frame)]
  BY <1>1, <1>2
<1>4. ASSUME NEW f \in Fds, S[f] # <<>> PROVE f \in DOMAIN t.connections /\ IS_GRE(t.connections[f])
  <2>1. f \in DOMAIN t.connections /\ f \notin closed /\ sock[f] # <<>>
    BY <1>1, <1>4
  <2>2. f \in DOMAIN pptp.connections /\ IS_GRE(pptp.connections[f])
    BY <2>1 DEF PPTPInv
  <2> QED
    BY <2>1, <2>2 DEF IS_GRE
<1> QED
  BY <1>3, <1>4

\* A message on a control connection
LEMMA PPTPInvHandle ==
    ASSUME PPTPInv, NEW f \in DOMAIN pptp.connections, NEW type \in Types, NEW fails \in BOOLEAN,
           handle_pptp(f, type, fails)
    PROVE  PPTPInv'
<1>0. pptp \in Server /\ CallsOf(pptp) /\ ~IS_GRE(pptp.connections[f])
  BY DEF PPTPInv, handle_pptp
<1>1. PICK h : h = Handled(pptp, f, type, fails)
  OBVIOUS
<1>2. PICK t : t = h.s
  OBVIOUS
<1>3. /\ t \in Server /\ CallsOf(t)
      /\ f \in DOMAIN t.connections /\ ~IS_GRE(t.connections[f])
      /\ \A x \in DOMAIN t.connections \cap DOMAIN pptp.connections :
            type # "OUT_CALL_RQST" \/ x # pptp.connections[f].gre
               => t.connections[x].pptp = pptp.connections[x].pptp
  BY <1>0, <1>1, <1>2, HandledSound
<1>4. PICK u : u = IF h.ends \/ fails THEN cleanup_connection(t, f) ELSE t
  OBVIOUS
<1>5. /\ u \in Server /\ CallsOf(u)
      /\ DOMAIN u.connections \subseteq DOMAIN t.connections
      /\ \A x \in DOMAIN u.connections : u.connections[x] = t.connections[x]
  <2>1. CASE h.ends \/ fails
    <3>1. u = cleanup_connection(t, f)
      BY <1>4, <2>1
    <3>2. t \in Server /\ CallsOf(t) /\ f \in DOMAIN t.connections /\ ~IS_GRE(t.connections[f])
      BY <1>3
    <3>3. /\ u \in Server /\ CallsOf(u)
          /\ DOMAIN u.connections = DOMAIN t.connections \ {f, t.connections[f].gre}
          /\ \A x \in DOMAIN u.connections : u.connections[x] = t.connections[x]
      BY <3>1, <3>2, EndSound
    <3> QED
      BY <3>3
  <2>2. CASE ~(h.ends \/ fails)
    BY <1>3, <1>4, <2>2
  <2> QED
    BY <2>1, <2>2
<1>6. PICK closed : closed = IF type = "OUT_CALL_RQST" THEN {pptp.connections[f].gre} ELSE {}
  OBVIOUS
<1>7. pptp' = u /\ sock' = Held(u, closed)
  BY <1>1, <1>2, <1>4, <1>6 DEF handle_pptp
<1>8. \A x \in DOMAIN u.connections \cap DOMAIN pptp.connections :
         x \in closed \/ u.connections[x].pptp = pptp.connections[x].pptp
  BY <1>3, <1>5, <1>6
<1>9. /\ sock' \in [Fds -> Seq(Frame)]
      /\ \A x \in Fds : sock'[x] # <<>> => x \in DOMAIN u.connections /\ IS_GRE(u.connections[x])
  BY <1>5, <1>7, <1>8, SocketsFit
<1>10. peers' \in [told : [Peer -> SUBSET Fds], sent : Nat, air : SUBSET Frame]
  <2>1. peers \in [told : [Peer -> SUBSET Fds], sent : Nat, air : SUBSET Frame]
    BY DEF PPTPInv
  <2>2. f \in Fds /\ pptp.connections[f].peer \in Peer
    BY <1>0, TableFacts DEF Server, Connection
  <2>3. PICK p \in Peer : p = pptp.connections[f].peer
    BY <2>2
  <2>4. PICK T : T = [peers.told EXCEPT ![p] = @ \cup {f}]
    OBVIOUS
  <2>5. peers' = peers \/ peers' = [peers EXCEPT !.told = T]
    BY <2>3, <2>4 DEF handle_pptp
  <2>6. T \in [Peer -> SUBSET Fds]
    BY <2>1, <2>2, <2>4
  <2> QED
    BY <2>1, <2>5, <2>6
<1> QED
  BY <1>5, <1>7, <1>9, <1>10 DEF PPTPInv

\* A server with the same calls
SameCalls(t) ==
    /\ t \in Server /\ CallsOf(t)
    /\ DOMAIN t.connections = DOMAIN pptp.connections
    /\ \A x \in DOMAIN t.connections : t.connections[x].pptp = pptp.connections[x].pptp

\* A step that changes numbers and timers of one connection, but not at whom it points
LEMMA PPTPInvTouch ==
    ASSUME PPTPInv, NEW f \in DOMAIN pptp.connections, NEW c \in Connection, NEW h \in BOOLEAN,
           c.pptp = pptp.connections[f].pptp, c.gre = pptp.connections[f].gre,
           c.input = pptp.connections[f].input,
           NEW C, C = [pptp.connections EXCEPT ![f] = c],
           NEW t, t = [pptp EXCEPT !.connections = C, !.halted = h]
    PROVE  SameCalls(t)
<1>0. /\ pptp \in Server /\ CallsOf(pptp) /\ pptp.connections \in Tables
  BY DEF PPTPInv, Server
<1>2. /\ C \in Tables /\ DOMAIN C = DOMAIN pptp.connections /\ C[f] = c
      /\ \A x \in DOMAIN pptp.connections : x # f => C[x] = pptp.connections[x]
  BY <1>0, TableExcept
<1>3. t \in Server /\ t.connections = C /\ t.inputs = pptp.inputs
  BY <1>0, <1>2 DEF Server
<1>4. \A x \in DOMAIN pptp.connections :
              /\ t.connections[x].pptp = pptp.connections[x].pptp
              /\ t.connections[x].gre = pptp.connections[x].gre
              /\ t.connections[x].input = pptp.connections[x].input
  BY <1>2, <1>3
<1>5. CallsOf(t)
  BY <1>0, <1>2, <1>3, <1>4 DEF CallsOf, IS_GRE
<1> QED
  BY <1>2, <1>3, <1>4, <1>5 DEF SameCalls

\* Such a step keeps the invariant when the sockets do not change.
LEMMA PPTPInvKeep ==
    ASSUME PPTPInv, NEW t, SameCalls(t), pptp' = t, UNCHANGED <<sock, peers>>
    PROVE  PPTPInv'
BY DEF PPTPInv, SameCalls, IS_GRE

\* A packet that a call receives
LEMMA PPTPInvGre ==
    ASSUME PPTPInv, NEW f \in DOMAIN pptp.connections, NEW reply \in BOOLEAN, handle_gre(f, reply)
    PROVE  PPTPInv'
<1>0. /\ pptp \in Server /\ CallsOf(pptp) /\ f \in Fds /\ sock[f] # <<>> /\ sock \in [Fds -> Seq(Frame)]
      /\ pptp.connections \in Tables /\ pptp.connections[f] \in Connection /\ pptp.halted \in BOOLEAN
      /\ DOMAIN pptp.connections \subseteq Fds
  BY TableFacts DEF PPTPInv, Server, handle_gre
<1>1. IS_GRE(pptp.connections[f])
  BY <1>0 DEF PPTPInv
<1>2. PICK m : m = Head(sock[f])
  OBVIOUS
<1>3. m \in Frame /\ Tail(sock[f]) \in Seq(Frame)
  <2>1. sock[f] \in Seq(Frame)
    BY <1>0
  <2> QED
    BY <1>0, <1>2, <2>1
<1>4. PICK p : p = pptp.connections[f].pptp
  OBVIOUS
<1>5. p \in DOMAIN pptp.connections /\ ~IS_GRE(pptp.connections[p]) /\ pptp.connections[p].gre = f
  <2>1. p \in DOMAIN pptp.connections /\ pptp.connections[p].gre = f /\ f # 0
    BY <1>0, <1>1, <1>4, FdsPositive DEF CallsOf
  <2> QED
    BY <1>0, <2>1 DEF CallsOf
<1>6. \E t \in Server : /\ pptp' = t /\ CallsOf(t)
                        /\ \A x \in DOMAIN t.connections \cap DOMAIN pptp.connections :
                              t.connections[x].pptp = pptp.connections[x].pptp
                        /\ DOMAIN t.connections \subseteq DOMAIN pptp.connections
  <2>1. CASE m.call # p
    <3>1. pptp' = cleanup_connection(pptp, p)
      BY <1>2, <1>4, <2>1 DEF handle_gre
    <3>2. PICK t : t = cleanup_connection(pptp, p)
      OBVIOUS
    <3>3. /\ t \in Server /\ CallsOf(t)
          /\ DOMAIN t.connections = DOMAIN pptp.connections \ {p, pptp.connections[p].gre}
          /\ \A x \in DOMAIN t.connections : t.connections[x] = pptp.connections[x]
      BY <1>0, <1>5, <3>2, EndSound
    <3> QED
      BY <3>1, <3>2, <3>3
  <2>2. CASE m.call = p
    <3>1. PICK c : c = [pptp.connections[f] EXCEPT !.seq_recv = m.seq]
      OBVIOUS
    <3>2. PICK d : d = [c EXCEPT !.ack_sent = IF ~m.short /\ reply THEN c.seq_recv ELSE @,
                                 !.timer = IF m.short THEN @ ELSE TRUE]
      OBVIOUS
    <3>3. m.seq \in Nat /\ m.short \in BOOLEAN
      BY <1>3 DEF Frame
    <3>4. /\ c \in Connection /\ c.pptp = pptp.connections[f].pptp /\ c.gre = pptp.connections[f].gre
          /\ c.input = pptp.connections[f].input
      BY <1>0, <3>1, <3>3 DEF Connection
    <3>5. /\ d \in Connection /\ d.pptp = c.pptp /\ d.gre = c.gre /\ d.input = c.input
      BY <3>2, <3>4 DEF Connection
    <3>6. PICK C, t : C = [pptp.connections EXCEPT ![f] = d] /\ t = [pptp EXCEPT !.connections = C, !.halted = pptp.halted]
      OBVIOUS
    <3>7. pptp' = t
      <4>1. PICK D \in SUBSET Fds : pptp.connections \in [D -> Connection]
        BY <1>0 DEF Tables
      <4>2. pptp.connections[f].seq_recv \in Nat /\ c.seq_recv = m.seq
        BY <1>0, <3>1 DEF Connection
      <4>3. PICK u : u = [pptp EXCEPT !.connections[f].seq_recv = m.seq]
        OBVIOUS
      <4>4. u = [pptp EXCEPT !.connections = [pptp.connections EXCEPT ![f] = c]]
        BY <3>1, <4>3
      <4>5. pptp' = IF m.short THEN u
                    ELSE [(IF reply THEN send_gre(u, f) ELSE u) EXCEPT !.connections[f].timer = TRUE]
        BY <1>2, <1>4, <2>2, <4>3 DEF handle_gre
      <4>6. u.connections[f] = c /\ f \in DOMAIN u.connections /\ u \in Server
        BY <1>0, <3>4, <4>1, <4>4, TableExcept DEF Server
      <4>7. CASE m.short
        <5>1. d = c
          BY <3>2, <3>4, <4>7 DEF Connection
        <5> QED
          BY <1>0, <3>6, <4>4, <4>5, <4>7, <5>1 DEF Server
      <4>8. CASE ~m.short /\ ~reply
        <5>1. d = [c EXCEPT !.timer = TRUE]
          BY <3>2, <3>4, <4>8 DEF Connection
        <5>2. pptp' = [u EXCEPT !.connections[f].timer = TRUE]
          BY <4>5, <4>8
        <5>3. pptp' = [u EXCEPT !.connections = [@ EXCEPT ![f] = d]]
          BY <4>6, <5>1, <5>2
        <5> QED
          BY <1>0, <3>6, <4>1, <4>4, <5>3 DEF Server
      <4>9. CASE ~m.short /\ reply
        <5>1. d = [[c EXCEPT !.ack_sent = c.seq_recv] EXCEPT !.timer = TRUE]
          BY <3>2, <3>4, <4>9 DEF Connection
        <5>2. PICK v : v = [u EXCEPT !.connections[f].ack_sent = u.connections[f].seq_recv]
          OBVIOUS
        <5>3. pptp' = [v EXCEPT !.connections[f].timer = TRUE]
          BY <4>5, <4>9, <5>2 DEF send_gre
        <5>4. v = [u EXCEPT !.connections = [@ EXCEPT ![f] = [c EXCEPT !.ack_sent = c.seq_recv]]]
          BY <4>6, <5>2
        <5>5. pptp' = [u EXCEPT !.connections = [@ EXCEPT ![f] = d]]
          BY <4>6, <5>1, <5>3, <5>4 DEF Server
        <5> QED
          BY <1>0, <3>6, <4>1, <4>4, <5>5 DEF Server
      <4> QED
        BY <4>7, <4>8, <4>9
    <3>8. d.pptp = pptp.connections[f].pptp /\ d.gre = pptp.connections[f].gre /\ d.input = pptp.connections[f].input
      BY <3>4, <3>5
    <3>9. SameCalls(t)
      <4>1. d \in Connection /\ pptp.halted \in BOOLEAN
        BY <1>0, <3>5
      <4> QED
        BY <3>6, <3>8, <4>1, PPTPInvTouch
    <3> QED
      BY <3>7, <3>9 DEF SameCalls
  <2> QED
    BY <2>1, <2>2
<1>7. PICK t \in Server : /\ pptp' = t /\ CallsOf(t)
                          /\ \A x \in DOMAIN t.connections \cap DOMAIN pptp.connections :
                                t.connections[x].pptp = pptp.connections[x].pptp
                          /\ DOMAIN t.connections \subseteq DOMAIN pptp.connections
  BY <1>6
<1>8. PICK S : S = Held(t, {})
  OBVIOUS
<1>9. /\ S \in [Fds -> Seq(Frame)]
      /\ \A x \in Fds : S[x] # <<>> => x \in DOMAIN t.connections /\ IS_GRE(t.connections[x])
  BY <1>7, <1>8, SocketsFit
<1>10. sock' = [S EXCEPT ![f] = IF f \in DOMAIN t.connections THEN Tail(sock[f]) ELSE <<>>]
  <2>1. sock' = [Held(pptp', {}) EXCEPT ![f] = IF f \in DOMAIN pptp'.connections THEN Tail(sock[f]) ELSE <<>>]
    BY DEF handle_gre
  <2> QED
    BY <1>7, <1>8, <2>1
<1>11. sock' \in [Fds -> Seq(Frame)]
  <2>1. <<>> \in Seq(Frame)
    OBVIOUS
  <2> QED
    BY <1>3, <1>9, <1>10, <2>1
<1>12. \A x \in Fds : sock'[x] # <<>> => x \in DOMAIN t.connections /\ IS_GRE(t.connections[x])
  <2>1. ASSUME NEW x \in Fds, sock'[x] # <<>> PROVE x \in DOMAIN t.connections /\ IS_GRE(t.connections[x])
    <3>1. CASE x # f
      BY <1>9, <1>10, <2>1, <3>1
    <3>2. CASE x = f
      <4>1. f \in DOMAIN t.connections
        BY <1>0, <1>9, <1>10, <2>1, <3>2
      <4> QED
        BY <1>1, <1>7, <3>2, <4>1 DEF IS_GRE
    <3> QED
      BY <3>1, <3>2
  <2> QED
    BY <2>1
<1>13. peers' = peers
  BY DEF handle_gre
<1> QED
  BY <1>7, <1>11, <1>12, <1>13 DEF PPTPInv

\* An acknowledgement is sent with a packet of the tunnel, or by a timer.
LEMMA SendGre ==
    ASSUME PPTPInv, NEW f \in DOMAIN pptp.connections, NEW b \in BOOLEAN, NEW h \in BOOLEAN, NEW s,
           s = [[pptp EXCEPT !.connections[f].timer = b] EXCEPT !.halted = h],
           NEW t, t = s \/ t = send_gre(s, f)
    PROVE  SameCalls(t)
<1>0. /\ pptp \in Server /\ CallsOf(pptp) /\ pptp.connections \in Tables
      /\ pptp.connections[f] \in Connection
  BY TableFacts DEF PPTPInv, Server
<1>1. PICK D \in SUBSET Fds : pptp.connections \in [D -> Connection]
  BY <1>0 DEF Tables
<1>2. PICK c : c = [pptp.connections[f] EXCEPT !.timer = b]
  OBVIOUS
<1>3. PICK d : d = [c EXCEPT !.ack_sent = c.seq_recv]
  OBVIOUS
<1>4. /\ c \in Connection /\ c.pptp = pptp.connections[f].pptp /\ c.gre = pptp.connections[f].gre
      /\ c.input = pptp.connections[f].input
  BY <1>0, <1>2 DEF Connection
<1>5. /\ d \in Connection /\ d.pptp = pptp.connections[f].pptp /\ d.gre = pptp.connections[f].gre
      /\ d.input = pptp.connections[f].input
  BY <1>3, <1>4 DEF Connection
<1>6. PICK B : B = [pptp.connections EXCEPT ![f] = c]
  OBVIOUS
<1>7. PICK C : C = [pptp.connections EXCEPT ![f] = d]
  OBVIOUS
<1>8. s = [pptp EXCEPT !.connections = B, !.halted = h]
  BY <1>0, <1>2, <1>6 DEF Server
<1>9. CASE t = s
  <2>1. t = [pptp EXCEPT !.connections = B, !.halted = h]
    BY <1>8, <1>9
  <2>2. /\ c.pptp = pptp.connections[f].pptp /\ c.gre = pptp.connections[f].gre
        /\ c.input = pptp.connections[f].input
    BY <1>4
  <2>3. c \in Connection
    BY <1>4
  <2> QED
    BY <1>6, <2>1, <2>2, <2>3, PPTPInvTouch
<1>10. CASE t = send_gre(s, f)
  <2>1. s.connections = B /\ B[f] = c
    BY <1>0, <1>1, <1>6, <1>8 DEF Server
  <2>2. t = [s EXCEPT !.connections = [B EXCEPT ![f] = d]]
    <3>1. t = [s EXCEPT !.connections[f].ack_sent = s.connections[f].seq_recv]
      BY <1>10 DEF send_gre
    <3> QED
      BY <1>3, <2>1, <3>1
  <2>3. [B EXCEPT ![f] = d] = C
    BY <1>1, <1>6, <1>7
  <2>4. t = [pptp EXCEPT !.connections = C, !.halted = h]
    BY <1>0, <1>8, <2>2, <2>3 DEF Server
  <2>5. /\ d.pptp = pptp.connections[f].pptp /\ d.gre = pptp.connections[f].gre
        /\ d.input = pptp.connections[f].input
    BY <1>5
  <2>6. d \in Connection
    BY <1>5
  <2> QED
    BY <1>7, <2>4, <2>5, <2>6, PPTPInvTouch
<1> QED
  BY <1>9, <1>10

LEMMA PPTPInvPush ==
    ASSUME PPTPInv, NEW i \in 1 .. Inputs, NEW fails \in BOOLEAN, PPTP_push(i, fails)
    PROVE  PPTPInv'
<1>0. /\ pptp \in Server /\ CallsOf(pptp) /\ pptp.connections \in Tables /\ pptp.halted \in BOOLEAN
      /\ UNCHANGED <<sock, peers>>
  BY DEF PPTPInv, Server, PPTP_push
<1>1. PICK f : f = pptp.inputs[i]
  OBVIOUS
<1>2. f \in DOMAIN pptp.connections
  BY <1>0, <1>1 DEF CallsOf, PPTP_push
<1>3. PICK b : b = pptp.connections[f].timer
  OBVIOUS
<1>4. b \in BOOLEAN
  BY <1>0, <1>2, <1>3, TableFacts DEF Connection
<1>5. \A h \in BOOLEAN : [[pptp EXCEPT !.connections[f].timer = b] EXCEPT !.halted = h] = [pptp EXCEPT !.halted = h]
  <2>1. PICK D \in SUBSET Fds : pptp.connections \in [D -> Connection]
    BY <1>0 DEF Tables
  <2>2. pptp.connections[f] \in Connection
    BY <1>2, <2>1
  <2>3. [pptp.connections[f] EXCEPT !.timer = b] = pptp.connections[f]
    BY <1>3, <2>2 DEF Connection
  <2>4. [pptp.connections EXCEPT ![f].timer = b] = pptp.connections
    BY <2>1, <2>3
  <2> QED
    BY <1>0, <2>4 DEF Server
<1>6. PICK h \in BOOLEAN : h = IF fails THEN TRUE ELSE pptp.halted
  BY <1>0
<1>7. PICK s : s = [[pptp EXCEPT !.connections[f].timer = b] EXCEPT !.halted = h]
  OBVIOUS
<1>8. PICK t : t = pptp'
  OBVIOUS
<1>9. t = s \/ t = send_gre(s, f)
  <2>1. [pptp EXCEPT !.halted = pptp.halted] = pptp
    BY <1>0 DEF Server
  <2> QED
    BY <1>1, <1>5, <1>6, <1>7, <1>8, <2>1 DEF PPTP_push
<1>10. SameCalls(t)
  BY <1>2, <1>4, <1>7, <1>9, SendGre
<1> QED
  BY <1>0, <1>8, <1>10, PPTPInvKeep

LEMMA PPTPInvAck ==
    ASSUME PPTPInv, NEW f \in DOMAIN pptp.connections, NEW fails \in BOOLEAN, send_ack(f, fails)
    PROVE  PPTPInv'
<1>0. /\ pptp \in Server /\ CallsOf(pptp) /\ pptp.connections \in Tables /\ pptp.halted \in BOOLEAN
      /\ UNCHANGED <<sock, peers>>
  BY DEF PPTPInv, Server, send_ack
<1>1. PICK c : c = pptp.connections[f]
  OBVIOUS
<1>2. PICK h \in BOOLEAN : h = IF c.ack_sent # c.seq_recv /\ fails THEN TRUE ELSE pptp.halted
  BY <1>0
<1>3. PICK u : u = [pptp EXCEPT !.connections[f].timer = FALSE]
  OBVIOUS
<1>4. PICK s : s = [[pptp EXCEPT !.connections[f].timer = FALSE] EXCEPT !.halted = h]
  OBVIOUS
<1>5. [u EXCEPT !.halted = pptp.halted] = u
  BY <1>0, <1>3 DEF Server
<1>6. PICK t : t = pptp'
  OBVIOUS
<1>7. t = s \/ t = send_gre(s, f)
  <2>1. t = IF c.ack_sent = c.seq_recv THEN u ELSE IF fails THEN [u EXCEPT !.halted = TRUE] ELSE send_gre(u, f)
    BY <1>1, <1>3, <1>6 DEF send_ack
  <2>2. s = [u EXCEPT !.halted = h]
    BY <1>3, <1>4
  <2> QED
    BY <1>2, <1>5, <2>1, <2>2
<1>8. SameCalls(t)
  BY <1>4, <1>7, SendGre
<1> QED
  BY <1>0, <1>6, <1>8, PPTPInvKeep

\* The end of the process
LEMMA PPTPInvCleanup == PPTPInv /\ PPTP_cleanup => PPTPInv'
<1> SUFFICES ASSUME PPTPInv, PPTP_cleanup PROVE PPTPInv'
  OBVIOUS
<1>0. /\ pptp \in Server /\ CallsOf(pptp) /\ peers' = peers /\ sock' = [f \in Fds |-> <<>>]
  BY DEF PPTPInv, PPTP_cleanup
<1>1. \/ pptp' = [pptp EXCEPT !.halted = TRUE]
      \/ pptp' = [pptp EXCEPT !.connections = <<>>, !.inputs = [i \in 1 .. Inputs |-> 0], !.halted = TRUE]
  <2>1. PICK twice : twice = \E f \in DOMAIN pptp.connections : IS_GRE(pptp.connections[f]) /\ f < pptp.connections[f].pptp
    OBVIOUS
  <2>2. pptp' = [pptp EXCEPT !.connections = IF twice THEN @ ELSE <<>>,
                             !.inputs = IF twice THEN @ ELSE [i \in 1 .. Inputs |-> 0], !.halted = TRUE]
    BY <2>1 DEF PPTP_cleanup
  <2>3. CASE twice
    BY <1>0, <2>2, <2>3 DEF Server
  <2>4. CASE ~twice
    BY <2>2, <2>4
  <2>5. twice \in BOOLEAN
    BY <2>1
  <2> QED
    BY <2>3, <2>4, <2>5
<1>2. pptp' \in Server /\ CallsOf(pptp')
  <2>1. CASE pptp' = [pptp EXCEPT !.halted = TRUE]
    <3>1. pptp' \in Server /\ pptp'.connections = pptp.connections /\ pptp'.inputs = pptp.inputs
      BY <1>0, <2>1 DEF Server
    <3> QED
      BY <1>0, <3>1 DEF CallsOf
  <2>2. CASE pptp' = [pptp EXCEPT !.connections = <<>>, !.inputs = [i \in 1 .. Inputs |-> 0], !.halted = TRUE]
    <3>1. <<>> \in Tables /\ DOMAIN <<>> = {}
      <4>1. <<>> = [x \in {} |-> {}] /\ DOMAIN <<>> = {}
        OBVIOUS
      <4>2. [x \in {} |-> {}] \in [{} -> Connection]
        OBVIOUS
      <4> QED
        BY <4>1, <4>2, Zenon DEF Tables
    <3>2. PICK I : I = [i \in 1 .. Inputs |-> 0]
      OBVIOUS
    <3>3. I \in [1 .. Inputs -> Fds \cup {0}] /\ \A i \in 1 .. Inputs : I[i] = 0
      BY <3>2
    <3>4. PICK E : E = <<>>
      OBVIOUS
    <3>5. E \in Tables /\ DOMAIN E = {}
      BY <3>1, <3>4
    <3>6. pptp' = [pptp EXCEPT !.connections = E, !.inputs = I, !.halted = TRUE]
      BY <2>2, <3>2, <3>4
    <3>7. pptp' \in Server /\ pptp'.connections = E /\ pptp'.inputs = I
      BY <1>0, <3>3, <3>5, <3>6 DEF Server
    <3> QED
      BY <3>3, <3>5, <3>7 DEF CallsOf
  <2> QED
    BY <1>1, <2>1, <2>2
<1>3. sock' \in [Fds -> Seq(Frame)] /\ \A f \in Fds : sock'[f] = <<>>
  <2>1. <<>> \in Seq(Frame)
    OBVIOUS
  <2> QED
    BY <1>0, <2>1
<1> QED
  BY <1>0, <1>2, <1>3 DEF PPTPInv

LEMMA GreUnchanged == PPTPNext => gre' = gre
<1>1. ASSUME NEW p \in Peer, initialize_pptp(p) PROVE gre' = gre
  BY <1>1 DEF initialize_pptp
<1>2. ASSUME NEW p \in Peer, NEW call \in Fds, NEW short \in BOOLEAN, PeerSends(p, call, short) PROVE gre' = gre
  BY <1>2 DEF PeerSends
<1>3. ASSUME NEW m \in peers.air, Arrives(m) PROVE gre' = gre
  BY <1>3 DEF Arrives
<1>4. ASSUME NEW f, NEW b \in BOOLEAN, handle_gre(f, b) PROVE gre' = gre
  BY <1>4 DEF handle_gre
<1>5. ASSUME NEW f, NEW b \in BOOLEAN, send_ack(f, b) PROVE gre' = gre
  BY <1>5 DEF send_ack
<1>6. ASSUME NEW f, NEW b \in BOOLEAN, NEW type \in Types, handle_pptp(f, type, b) PROVE gre' = gre
  BY <1>6 DEF handle_pptp
<1>7. ASSUME NEW i \in 1 .. Inputs, NEW b \in BOOLEAN, PPTP_push(i, b) PROVE gre' = gre
  BY <1>7 DEF PPTP_push
<1>8. PPTP_cleanup => gre' = gre
  BY DEF PPTP_cleanup
<1> QED
  BY <1>1, <1>2, <1>3, <1>4, <1>5, <1>6, <1>7, <1>8 DEF PPTPNext

TunnelsInv == PPTPInv /\ GREInv

\* No connection that was deleted is used, and packets of a tunnel are passed in order
\* and once, whatever messages, packets, timers and failures of system calls there are:
\* with every number of peers, descriptors and inputs, and every range of numbers.
THEOREM TunnelsAreSound == TunnelsSpec => [](TunnelsTypeOK /\ TunnelsSound)
<1>1. TunnelsInit => TunnelsInv
  BY PPTPInvInit, GREInvInit DEF TunnelsInit, TunnelsInv
<1>2. TunnelsInv /\ [PPTPNext \/ GRENext]_tunVars => TunnelsInv'
  <2> SUFFICES ASSUME TunnelsInv, [PPTPNext \/ GRENext]_tunVars PROVE TunnelsInv'
    OBVIOUS
  <2>1. CASE PPTPNext
    <3>1. PPTPInv'
      BY <2>1, PPTPInvConnect, PPTPInvSends, PPTPInvArrives, PPTPInvHandle, PPTPInvGre, PPTPInvPush, PPTPInvAck,
         PPTPInvCleanup DEF PPTPNext, TunnelsInv
    <3>2. gre' = gre
      BY <2>1, GreUnchanged
    <3>3. GREInv'
      BY <3>2 DEF TunnelsInv, GREInv, LastAccepted, GREInOrder
    <3> QED
      BY <3>1, <3>3 DEF TunnelsInv
  <2>2. CASE GRENext
    <3>1. GREInv'
      BY <2>2, GREInvSent, GREInvArrived DEF GRENext, TunnelsInv
    <3>2. UNCHANGED <<pptp, sock, peers>>
      BY <2>2 DEF GRENext, GREEncap_simple_action, CheckGREHeader_simple_action
    <3>3. PPTPInv'
      BY <3>2 DEF TunnelsInv, PPTPInv
    <3> QED
      BY <3>1, <3>3 DEF TunnelsInv
  <2>3. CASE UNCHANGED tunVars
    BY <2>3 DEF tunVars, TunnelsInv, PPTPInv, GREInv, LastAccepted, GREInOrder
  <2> QED
    BY <2>1, <2>2, <2>3
<1>3. TunnelsInv => TunnelsTypeOK /\ TunnelsSound
  <2> SUFFICES ASSUME TunnelsInv PROVE TunnelsTypeOK /\ TunnelsSound
    OBVIOUS
  <2>1. /\ pptp \in Server /\ CallsOf(pptp) /\ pptp.connections \in Tables /\ pptp.halted \in BOOLEAN
        /\ pptp.inputs \in [1 .. Inputs -> Fds \cup {0}]
    BY DEF TunnelsInv, PPTPInv, Server
  <2>2. DOMAIN pptp.connections \subseteq Fds
    BY <2>1, TableFacts
  <2>3. CallsSound
    BY <2>1 DEF CallsOf, CallsSound
  <2>4. gre.seq \in 0 .. NumberMod - 1
    <3>1. gre \in GRERecord /\ NumberMod \in Nat /\ NumberMod > 3 /\ LastAccepted \in Nat
      BY TunnelAssumption DEF TunnelsInv, GREInv, GRERecord, LastAccepted
    <3>2. gre.reads = "same" \/ gre.reads = "next"
      BY <3>1 DEF GRERecord
    <3>3. LastAccepted % NumberMod \in 0 .. NumberMod - 1
      BY <3>1
    <3> QED
      BY <3>1, <3>2, <3>3 DEF TunnelsInv, GREInv
  <2> QED
    BY <2>1, <2>2, <2>3, <2>4 DEF TunnelsTypeOK, TunnelsSound, TunnelsInv, GREInv
<1> QED
  BY <1>1, <1>2, <1>3, PTL DEF TunnelsSpec

-----------------------------------------------------------------------------
(* FlowTables: streams, and clients.                                       *)

Row == [ssrc : Ssrc \cup {0}, time : Nat, flag : {0, 1}, count : Nat]
Classifier == [table : [1 .. MAX -> Row], tabrtp : [1 .. NRTP -> Row], now : Nat,
               row : [Ssrc -> Nat], last : [Ssrc -> Nat], earned : [Ssrc -> BOOLEAN],
               out : [ssrc : Ssrc \cup {0}, number : 0 .. NRTP]]

\* No flow has two rows of a table.
OneRow(t) == \A x, y \in DOMAIN t : t[x].flag # 0 /\ t[y].flag # 0 /\ t[x].ssrc = t[y].ssrc => x = y

\* A row of the first table is never ahead of what its flow sent, in its time nor in its
\* count; one of the second table has the time of the last packet of its flow.
RTPInv ==
    /\ rtp \in Classifier
    /\ OneRow(rtp.table) /\ OneRow(rtp.tabrtp)
    /\ \A s \in Ssrc : rtp.last[s] <= rtp.now
    /\ \A x \in 1 .. MAX : rtp.table[x].flag # 0 =>
          LET w == rtp.table[x]
          IN  w.ssrc \in Ssrc /\ w.time <= rtp.last[w.ssrc] /\ w.count <= rtp.row[w.ssrc] /\ w.count <= Sixth + 1
    /\ \A x \in 1 .. NRTP : rtp.tabrtp[x].flag # 0 =>
          LET w == rtp.tabrtp[x]
          IN  w.ssrc \in Ssrc /\ w.time = rtp.last[w.ssrc] /\ rtp.earned[w.ssrc]
    /\ rtp.out.number # 0 => rtp.tabrtp[rtp.out.number].ssrc = rtp.out.ssrc

LEMMA Numbers ==
    MAX \in Nat /\ NRTP \in Nat /\ TIMEOUT \in Nat /\ TIMEOUTRTP \in Nat /\ Sixth \in Nat /\ MaxNow \in Nat
BY FlowTablesAssumption

\* The first row of a set of rows is one of them.
LEMMA FirstIn ==
    ASSUME NEW S, S \subseteq Nat, S # {}
    PROVE  FirstOf(S) \in S
<1>1. \E x \in S : \A y \in S : x <= y
  BY LeastNat
<1> QED
  BY <1>1 DEF FirstOf

LEMMA RTPInvInit == RTPInit => RTPInv
<1> SUFFICES ASSUME RTPInit PROVE RTPInv
  OBVIOUS
<1>1. FreeRow \in Row /\ FreeRow.flag = 0
  BY DEF FreeRow, Row
<1> DEFINE A == [x \in 1 .. MAX |-> FreeRow]
           B == [x \in 1 .. NRTP |-> FreeRow]
           N == [s \in Ssrc |-> 0]
           E == [s \in Ssrc |-> FALSE]
           O == [ssrc |-> 0, number |-> 0]
<1>2. rtp = [table |-> A, tabrtp |-> B, now |-> 0, row |-> N, last |-> N, earned |-> E, out |-> O]
  BY DEF RTPInit
<1>3. /\ A \in [1 .. MAX -> Row] /\ B \in [1 .. NRTP -> Row] /\ N \in [Ssrc -> Nat] /\ E \in [Ssrc -> BOOLEAN]
      /\ O \in [ssrc : Ssrc \cup {0}, number : 0 .. NRTP] /\ 0 \in Nat
  BY <1>1, Numbers
<1>4. /\ \A x \in 1 .. MAX : A[x].flag = 0
      /\ \A x \in 1 .. NRTP : B[x].flag = 0
      /\ \A s \in Ssrc : N[s] = 0
      /\ O.number = 0 /\ DOMAIN A = 1 .. MAX /\ DOMAIN B = 1 .. NRTP
  BY <1>1
<1> HIDE DEF A, B, N, E, O
<1>5. rtp \in Classifier
  BY <1>2, <1>3 DEF Classifier
<1> QED
  BY <1>2, <1>4, <1>5 DEF RTPInv, OneRow

\* Rows that were not used for longer than the limit become free, the others stay.
AgedFits(a, t, n, limit, now) ==
    /\ a \in [1 .. n -> Row]
    /\ \A x \in 1 .. n : /\ a[x].ssrc = t[x].ssrc /\ a[x].time = t[x].time /\ a[x].count = t[x].count
                         /\ a[x].flag # 0 => t[x].flag # 0 /\ now - t[x].time <= limit
LEMMA AgedKeeps ==
    ASSUME NEW n \in Nat, NEW t \in [1 .. n -> Row], NEW limit \in Nat, NEW a, a = AgedRows(t, limit),
           NEW now \in Nat, now = rtp.now
    PROVE  AgedFits(a, t, n, limit, now)
<1> DEFINE W(x) == IF t[x].flag # 0 /\ rtp.now - t[x].time > limit THEN [t[x] EXCEPT !.flag = 0] ELSE t[x]
<1>1. a = [x \in 1 .. n |-> W(x)]
  BY DEF AgedRows
<1>2. ASSUME NEW x \in 1 .. n
      PROVE  /\ W(x) \in Row /\ W(x).ssrc = t[x].ssrc /\ W(x).time = t[x].time /\ W(x).count = t[x].count
             /\ W(x).flag # 0 => t[x].flag # 0 /\ rtp.now - t[x].time <= limit
  <2>1. t[x] \in Row /\ t[x].time \in Nat /\ t[x].flag \in {0, 1}
    BY DEF Row
  <2>2. CASE t[x].flag # 0 /\ rtp.now - t[x].time > limit
    <3>1. W(x) = [t[x] EXCEPT !.flag = 0]
      BY <2>2
    <3> QED
      BY <2>1, <3>1 DEF Row
  <2>3. CASE ~(t[x].flag # 0 /\ rtp.now - t[x].time > limit)
    <3>1. W(x) = t[x]
      BY <2>3
    <3> QED
      BY <2>1, <2>3, <3>1
  <2> QED
    BY <2>2, <2>3
<1> HIDE DEF W
<1> QED
  BY <1>1, <1>2 DEF AgedFits

\* A second passes.
LEMMA RTPInvSecond == RTPInv /\ Second => RTPInv'
<1> SUFFICES ASSUME RTPInv, Second PROVE RTPInv'
  OBVIOUS
<1>1. rtp \in Classifier /\ rtp.now \in Nat /\ rtp' = [rtp EXCEPT !.now = @ + 1] /\ \A s \in Ssrc : rtp.last[s] \in Nat
  BY DEF RTPInv, Second, Classifier
<1>2. /\ rtp' \in Classifier /\ rtp'.table = rtp.table /\ rtp'.tabrtp = rtp.tabrtp /\ rtp'.now = rtp.now + 1
      /\ rtp'.row = rtp.row /\ rtp'.last = rtp.last /\ rtp'.earned = rtp.earned /\ rtp'.out = rtp.out
  <2>1. PICK n \in Nat : n = rtp.now + 1
    BY <1>1
  <2>2. rtp' = [rtp EXCEPT !.now = n]
    BY <1>1, <2>1
  <2> QED
    BY <1>1, <2>1, <2>2 DEF Classifier
<1>3. \A s \in Ssrc : rtp'.last[s] <= rtp'.now
  BY <1>1, <1>2 DEF RTPInv
<1> QED
  BY <1>2, <1>3 DEF RTPInv

\* The tables when the packets of all flows are counted, and when the row of flow s
\* in the second table may be late
FirstFits(t, row, last) ==
    /\ t \in [1 .. MAX -> Row] /\ OneRow(t)
    /\ \A x \in 1 .. MAX : t[x].flag # 0 =>
          t[x].ssrc \in Ssrc /\ t[x].time <= last[t[x].ssrc] /\ t[x].count <= row[t[x].ssrc] /\ t[x].count <= Sixth + 1
SecondFits(t, last, earned, s) ==
    /\ t \in [1 .. NRTP -> Row] /\ OneRow(t)
    /\ \A x \in 1 .. NRTP : t[x].flag # 0 =>
          t[x].ssrc \in Ssrc /\ earned[t[x].ssrc] /\ (t[x].ssrc # s => t[x].time = last[t[x].ssrc])

\* One row of a table is written for the flow s, which had no other one.
Written(u, t, n, x, w) ==
    u \in [1 .. n -> Row] /\ OneRow(u) /\ u[x] = w /\ \A y \in 1 .. n : y # x => u[y] = t[y]
LEMMA WriteRow ==
    ASSUME NEW n \in Nat, NEW t \in [1 .. n -> Row], OneRow(t), NEW x \in 1 .. n, NEW w \in Row, NEW u, u = [t EXCEPT ![x] = w],
           \A y \in 1 .. n : t[y].flag # 0 /\ t[y].ssrc = w.ssrc => y = x
    PROVE  Written(u, t, n, x, w)
BY DEF OneRow, Written

\* A packet of s
LEMMA RTPInvPush ==
    ASSUME RTPInv, NEW s \in Ssrc, RTP_push(s)
    PROVE  RTPInv' /\ rtp'.now = rtp.now
<1>0. /\ rtp \in Classifier
      /\ rtp.table \in [1 .. MAX -> Row] /\ rtp.tabrtp \in [1 .. NRTP -> Row]
      /\ rtp.row \in [Ssrc -> Nat] /\ rtp.last \in [Ssrc -> Nat] /\ rtp.earned \in [Ssrc -> BOOLEAN]
      /\ rtp.out \in [ssrc : Ssrc \cup {0}, number : 0 .. NRTP]
  BY DEF RTPInv, Classifier
<1> PICK now \in Nat : now = rtp.now
  BY DEF RTPInv, Classifier
<1>1. PICK gap : gap = now - rtp.last[s]
  OBVIOUS
<1>2. gap \in Nat /\ rtp.last[s] \in Nat /\ rtp.last[s] <= now
  BY <1>0, <1>1 DEF RTPInv
<1>3. PICK sent : sent = IF gap > TIMEOUT THEN 1 ELSE IF rtp.row[s] > Sixth THEN rtp.row[s] ELSE rtp.row[s] + 1
  OBVIOUS
<1>4. sent \in Nat /\ sent >= 1 /\ rtp.row[s] \in Nat
  BY <1>0, <1>3, Numbers
<1>5. PICK good : good = (sent > Sixth \/ (rtp.earned[s] /\ gap <= TIMEOUTRTP))
  OBVIOUS
<1>6. good \in BOOLEAN
  BY <1>5
<1>7. PICK row : row = [rtp.row EXCEPT ![s] = sent]
  OBVIOUS
<1>8. PICK last : last = [rtp.last EXCEPT ![s] = now]
  OBVIOUS
<1>9. PICK earned : earned = [rtp.earned EXCEPT ![s] = good]
  OBVIOUS
<1>10. /\ row \in [Ssrc -> Nat] /\ last \in [Ssrc -> Nat] /\ earned \in [Ssrc -> BOOLEAN]
       /\ row[s] = sent /\ last[s] = now /\ earned[s] = good
       /\ \A x \in Ssrc : x # s => row[x] = rtp.row[x] /\ last[x] = rtp.last[x] /\ earned[x] = rtp.earned[x]
       /\ \A x \in Ssrc : last[x] <= now /\ rtp.last[x] <= last[x]
  <2>1. /\ row \in [Ssrc -> Nat] /\ last \in [Ssrc -> Nat] /\ earned \in [Ssrc -> BOOLEAN]
        /\ row[s] = sent /\ last[s] = now /\ earned[s] = good
        /\ \A x \in Ssrc : x # s => row[x] = rtp.row[x] /\ last[x] = rtp.last[x] /\ earned[x] = rtp.earned[x]
    BY <1>0, <1>4, <1>6, <1>7, <1>8, <1>9
  <2>2. \A x \in Ssrc : rtp.last[x] <= now /\ rtp.last[x] \in Nat
    BY <1>0 DEF RTPInv
  <2> QED
    BY <2>1, <2>2
<1>11. PICK r : r = [rtp EXCEPT !.row = row, !.last = last, !.earned = earned]
  OBVIOUS
<1>12. /\ r.table = rtp.table /\ r.tabrtp = rtp.tabrtp /\ r.now = now /\ r.out = rtp.out /\ r \in Classifier
       /\ r.row = row /\ r.last = last /\ r.earned = earned
  BY <1>0, <1>10, <1>11 DEF Classifier
<1>13. PICK a : a = AgedRows(rtp.table, TIMEOUT)
  OBVIOUS
<1>14. PICK b : b = AgedRows(rtp.tabrtp, TIMEOUTRTP)
  OBVIOUS
<1>15. /\ a \in [1 .. MAX -> Row]
       /\ \A x \in 1 .. MAX : /\ a[x].ssrc = rtp.table[x].ssrc /\ a[x].time = rtp.table[x].time
                              /\ a[x].count = rtp.table[x].count
                              /\ a[x].flag # 0 => rtp.table[x].flag # 0 /\ now - rtp.table[x].time <= TIMEOUT
  <2>1. PICK B : B = rtp.table
    OBVIOUS
  <2>2. B \in [1 .. MAX -> Row]
    BY <1>0, <2>1
  <2>3. a = AgedRows(B, TIMEOUT)
    BY <1>13, <2>1
  <2>4. MAX \in Nat /\ TIMEOUT \in Nat
    BY Numbers
  <2>5. AgedFits(a, B, MAX, TIMEOUT, now)
    BY <2>2, <2>3, <2>4, AgedKeeps
  <2> QED
    BY <2>1, <2>5 DEF AgedFits
<1>16. /\ b \in [1 .. NRTP -> Row]
       /\ \A x \in 1 .. NRTP : /\ b[x].ssrc = rtp.tabrtp[x].ssrc /\ b[x].time = rtp.tabrtp[x].time
                               /\ b[x].flag # 0 => rtp.tabrtp[x].flag # 0 /\ now - rtp.tabrtp[x].time <= TIMEOUTRTP
  <2>1. PICK B : B = rtp.tabrtp
    OBVIOUS
  <2>2. B \in [1 .. NRTP -> Row]
    BY <1>0, <2>1
  <2>3. b = AgedRows(B, TIMEOUTRTP)
    BY <1>14, <2>1
  <2>4. NRTP \in Nat /\ TIMEOUTRTP \in Nat
    BY Numbers
  <2>5. AgedFits(b, B, NRTP, TIMEOUTRTP, now)
    BY <2>2, <2>3, <2>4, AgedKeeps
  <2> QED
    BY <2>1, <2>5 DEF AgedFits
<1>17. PICK d : d = [r EXCEPT !.table = a, !.tabrtp = b]
  OBVIOUS
<1>18. d = del_old_flow(r)
  BY <1>12, <1>13, <1>14, <1>17 DEF del_old_flow
<1>19. /\ d.table = a /\ d.tabrtp = b /\ d.now = now /\ d.row = row /\ d.last = last /\ d.earned = earned
       /\ d.out = rtp.out /\ d \in Classifier
  BY <1>12, <1>15, <1>16, <1>17 DEF Classifier
<1>20. PICK f : f = ins_flow(d, s)
  OBVIOUS
<1>21. rtp' = [f[1] EXCEPT !.out = [ssrc |-> s, number |-> f[2]]]
  <2>1. r = [rtp EXCEPT !.row[s] = sent, !.last[s] = rtp.now,
                        !.earned[s] = (sent > Sixth \/ (@ /\ gap <= TIMEOUTRTP))]
    BY <1>5, <1>7, <1>8, <1>9, <1>11
  <2> QED
    BY <1>1, <1>3, <1>18, <1>20, <2>1 DEF RTP_push
\* the rows of s that are not too old agree with what it sent
<1>22. FirstFits(a, row, last)
  <2>1. OneRow(a)
    <3>1. OneRow(rtp.table) /\ DOMAIN rtp.table = 1 .. MAX /\ DOMAIN a = 1 .. MAX
      BY <1>0, <1>15 DEF RTPInv
    <3>2. \A x \in 1 .. MAX : a[x].ssrc = rtp.table[x].ssrc /\ (a[x].flag # 0 => rtp.table[x].flag # 0)
      BY <1>15
    <3> QED
      BY <3>1, <3>2, Zenon DEF OneRow
  <2>2. ASSUME NEW x \in 1 .. MAX, a[x].flag # 0
        PROVE  a[x].ssrc \in Ssrc /\ a[x].time <= last[a[x].ssrc] /\ a[x].count <= row[a[x].ssrc] /\ a[x].count <= Sixth + 1
    <3>1. PICK q : q = a[x].ssrc
      OBVIOUS
    <3>2. /\ q \in Ssrc /\ a[x].time <= rtp.last[q] /\ a[x].count <= rtp.row[q] /\ a[x].count <= Sixth + 1
          /\ now - a[x].time <= TIMEOUT /\ a[x].time \in Nat /\ a[x].count \in Nat
      BY <1>15, <2>2, <3>1 DEF RTPInv, Row
    <3>3. a[x].time <= last[q]
      BY <1>0, <1>10, <3>2
    <3>4. a[x].count <= row[q]
      <4>1. CASE q # s
        BY <1>10, <3>2, <4>1
      <4>2. CASE q = s
        <5>1. gap <= TIMEOUT
          BY <1>1, <1>2, <3>2, <4>2, Numbers
        <5>2. a[x].count <= rtp.row[s] /\ a[x].count <= Sixth + 1 /\ a[x].count \in Nat /\ Sixth \in Nat /\ TIMEOUT \in Nat
          BY <3>2, <4>2, Numbers
        <5>3. sent = IF rtp.row[s] > Sixth THEN rtp.row[s] ELSE rtp.row[s] + 1
          BY <1>2, <1>3, <5>1, <5>2
        <5>4. a[x].count <= sent
          BY <1>4, <5>2, <5>3
        <5> QED
          BY <1>10, <4>2, <5>4
      <4> QED
        BY <4>1, <4>2
    <3> QED
      BY <3>1, <3>2, <3>3, <3>4
  <2> QED
    BY <1>15, <2>1, <2>2 DEF FirstFits
<1>23. SecondFits(b, last, earned, s)
  <2>1. OneRow(b)
    <3>1. OneRow(rtp.tabrtp) /\ DOMAIN rtp.tabrtp = 1 .. NRTP /\ DOMAIN b = 1 .. NRTP
      BY <1>0, <1>16 DEF RTPInv
    <3>2. \A x \in 1 .. NRTP : b[x].ssrc = rtp.tabrtp[x].ssrc /\ (b[x].flag # 0 => rtp.tabrtp[x].flag # 0)
      BY <1>16
    <3> QED
      BY <3>1, <3>2, Zenon DEF OneRow
  <2>2. ASSUME NEW x \in 1 .. NRTP, b[x].flag # 0
        PROVE  b[x].ssrc \in Ssrc /\ earned[b[x].ssrc] /\ (b[x].ssrc # s => b[x].time = last[b[x].ssrc])
    <3>1. PICK q : q = b[x].ssrc
      OBVIOUS
    <3>2. q \in Ssrc /\ b[x].time = rtp.last[q] /\ rtp.earned[q] /\ now - b[x].time <= TIMEOUTRTP
      BY <1>16, <2>2, <3>1 DEF RTPInv
    <3>3. CASE q # s
      BY <1>10, <3>1, <3>2, <3>3
    <3>4. CASE q = s
      BY <1>1, <1>5, <1>10, <3>1, <3>2, <3>4
    <3> QED
      BY <3>3, <3>4
  <2> QED
    BY <1>16, <2>1, <2>2 DEF SecondFits
<1>24. ASSUME NEW t, NEW u, NEW k \in 0 .. NRTP, FirstFits(t, row, last), SecondFits(u, last, earned, 0),
              \A x \in 1 .. NRTP : u[x].flag # 0 => u[x].time = last[u[x].ssrc],
              k # 0 => u[k].ssrc = s,
              f = <<[d EXCEPT !.table = t, !.tabrtp = u], k>>
       PROVE  RTPInv' /\ rtp'.now = rtp.now
  <2>1. PICK o : o = [ssrc |-> s, number |-> k]
    OBVIOUS
  <2>2. o \in [ssrc : Ssrc \cup {0}, number : 0 .. NRTP] /\ o.ssrc = s /\ o.number = k
    BY <2>1
  <2>3. t \in [1 .. MAX -> Row] /\ u \in [1 .. NRTP -> Row]
    BY <1>24 DEF FirstFits, SecondFits
  <2>4. PICK e : e = [d EXCEPT !.table = t, !.tabrtp = u]
    OBVIOUS
  <2>5. rtp' = [e EXCEPT !.out = o]
    BY <1>21, <1>24, <2>1, <2>4
  <2>6. /\ e.table = t /\ e.tabrtp = u /\ e.now = now /\ e.row = row /\ e.last = last /\ e.earned = earned
        /\ e \in Classifier
    BY <1>19, <2>3, <2>4 DEF Classifier
  <2>7. /\ rtp' \in Classifier /\ rtp'.table = t /\ rtp'.tabrtp = u /\ rtp'.now = now
        /\ rtp'.row = row /\ rtp'.last = last /\ rtp'.earned = earned /\ rtp'.out = o
    BY <2>2, <2>5, <2>6 DEF Classifier
  <2> QED
    BY <1>10, <1>24, <2>2, <2>7 DEF RTPInv, FirstFits, SecondFits
\* a row of s in the first table is counted on
<1>25. ASSUME Live(b, s) = {} PROVE SecondFits(b, last, earned, 0) /\ \A x \in 1 .. NRTP : b[x].flag # 0 => b[x].ssrc # s /\ b[x].time = last[b[x].ssrc]
  BY <1>16, <1>23, <1>25 DEF SecondFits, Live
<1>26. CASE Live(b, s) # {}
  <2>1. PICK x : x = FirstOf(Live(b, s))
    OBVIOUS
  <2>2. x \in 1 .. NRTP /\ b[x].flag # 0 /\ b[x].ssrc = s /\ b[x] \in Row
    <3>1. Live(b, s) \subseteq Nat
      BY <1>16 DEF Live
    <3> QED
      BY <1>16, <1>26, <2>1, <3>1, FirstIn DEF Live
  <2>3. PICK w : w = [b[x] EXCEPT !.time = now]
    OBVIOUS
  <2>4. w \in Row /\ w.ssrc = s /\ w.flag # 0 /\ w.time = now
    BY <2>2, <2>3 DEF Row
  <2>5. PICK u : u = [b EXCEPT ![x] = w]
    OBVIOUS
  <2>6. \A y \in 1 .. NRTP : b[y].flag # 0 /\ b[y].ssrc = w.ssrc => y = x
    BY <1>16, <1>23, <2>2, <2>4 DEF SecondFits, OneRow
  <2>7. u \in [1 .. NRTP -> Row] /\ OneRow(u) /\ u[x] = w /\ \A y \in 1 .. NRTP : y # x => u[y] = b[y]
    <3>1. NRTP \in Nat /\ OneRow(b)
      BY <1>23, Numbers DEF SecondFits
    <3>2. b \in [1 .. NRTP -> Row] /\ x \in 1 .. NRTP /\ w \in Row
      BY <1>16, <2>2, <2>4
    <3>3. Written(u, b, NRTP, x, w)
      BY <2>5, <2>6, <3>1, <3>2, WriteRow
    <3> QED
      BY <3>3 DEF Written
  <2>8. f = <<[d EXCEPT !.tabrtp = u], x>>
    <3>1. f = <<[d EXCEPT !.tabrtp[x].time = d.now], x>>
      BY <1>19, <1>20, <1>26, <2>1 DEF ins_flow
    <3> QED
      BY <1>19, <2>3, <2>5, <3>1
  <2>9. f = <<[d EXCEPT !.table = a, !.tabrtp = u], x>>
    BY <1>19, <2>8 DEF Classifier
  <2>10. earned[s]
    BY <1>23, <2>2 DEF SecondFits
  <2>11. SecondFits(u, last, earned, 0) /\ \A y \in 1 .. NRTP : u[y].flag # 0 => u[y].time = last[u[y].ssrc]
    <3>1. ASSUME NEW y \in 1 .. NRTP, u[y].flag # 0
          PROVE  u[y].ssrc \in Ssrc /\ earned[u[y].ssrc] /\ u[y].time = last[u[y].ssrc]
      <4>1. CASE y = x
        BY <1>10, <2>4, <2>7, <2>10, <4>1
      <4>2. CASE y # x
        <5>1. b[y].flag # 0 /\ u[y] = b[y] /\ b[y].ssrc # s
          BY <2>4, <2>6, <2>7, <3>1, <4>2
        <5> QED
          BY <1>23, <5>1 DEF SecondFits
      <4> QED
        BY <4>1, <4>2
    <3> QED
      BY <2>7, <3>1 DEF SecondFits
  <2>12. x \in 0 .. NRTP /\ u[x].ssrc = s
    BY <2>2, <2>4, <2>7
  <2> QED
    BY <1>22, <1>24, <2>9, <2>11, <2>12
<1>27. CASE Live(b, s) = {} /\ Live(a, s) # {}
  <2>1. PICK x : x = FirstOf(Live(a, s))
    OBVIOUS
  <2>2. x \in 1 .. MAX /\ a[x].flag # 0 /\ a[x].ssrc = s /\ a[x] \in Row
    <3>1. Live(a, s) \subseteq Nat
      BY <1>15 DEF Live
    <3> QED
      BY <1>15, <1>27, <2>1, <3>1, FirstIn DEF Live
  <2>3. PICK n : n = IF a[x].count <= Sixth THEN a[x].count + 1 ELSE a[x].count
    OBVIOUS
  <2>4. n \in Nat /\ n <= sent /\ n <= Sixth + 1
    <3>1. /\ a[x].count <= rtp.row[s] /\ a[x].count \in Nat /\ a[x].count <= Sixth + 1
          /\ a[x].time <= rtp.last[s] /\ a[x].time \in Nat /\ now - a[x].time <= TIMEOUT
      BY <1>15, <2>2 DEF RTPInv, Row
    <3>2. gap <= TIMEOUT
      BY <1>1, <1>2, <3>1, Numbers
    <3>3. Sixth \in Nat /\ TIMEOUT \in Nat
      BY Numbers
    <3>4. sent = IF rtp.row[s] > Sixth THEN rtp.row[s] ELSE rtp.row[s] + 1
      BY <1>2, <1>3, <3>2, <3>3
    <3>5. n \in Nat /\ n <= Sixth + 1
      BY <2>3, <3>1, <3>3
    <3>6. n <= sent
      <4>1. CASE rtp.row[s] > Sixth
        BY <1>4, <3>3, <3>4, <3>5, <4>1
      <4>2. CASE ~(rtp.row[s] > Sixth)
        BY <1>4, <2>3, <3>1, <3>3, <3>4, <4>2
      <4> QED
        BY <4>1, <4>2
    <3> QED
      BY <3>5, <3>6
  <2>5. PICK w : w = [a[x] EXCEPT !.count = n, !.time = now]
    OBVIOUS
  <2>6. w \in Row /\ w.ssrc = s /\ w.flag # 0 /\ w.time = now /\ w.count = n
    BY <2>2, <2>4, <2>5 DEF Row
  <2>7. PICK t : t = [a EXCEPT ![x] = w]
    OBVIOUS
  <2>8. \A y \in 1 .. MAX : a[y].flag # 0 /\ a[y].ssrc = w.ssrc => y = x
    BY <1>15, <1>22, <2>2, <2>6 DEF FirstFits, OneRow
  <2>9. t \in [1 .. MAX -> Row] /\ OneRow(t) /\ t[x] = w /\ \A y \in 1 .. MAX : y # x => t[y] = a[y]
    <3>1. MAX \in Nat /\ OneRow(a)
      BY <1>22, Numbers DEF FirstFits
    <3>2. a \in [1 .. MAX -> Row] /\ x \in 1 .. MAX /\ w \in Row
      BY <1>15, <2>2, <2>6
    <3>3. Written(t, a, MAX, x, w)
      BY <2>7, <2>8, <3>1, <3>2, WriteRow
    <3> QED
      BY <3>3 DEF Written
  <2>10. FirstFits(t, row, last)
    <3>1. ASSUME NEW y \in 1 .. MAX, t[y].flag # 0
          PROVE  t[y].ssrc \in Ssrc /\ t[y].time <= last[t[y].ssrc] /\ t[y].count <= row[t[y].ssrc] /\ t[y].count <= Sixth + 1
      <4>1. CASE y = x
        BY <1>10, <2>4, <2>6, <2>9, <4>1
      <4>2. CASE y # x
        <5>1. a[y].flag # 0 /\ t[y] = a[y]
          BY <2>9, <3>1, <4>2
        <5> QED
          BY <1>22, <5>1 DEF FirstFits
      <4> QED
        BY <4>1, <4>2
    <3> QED
      BY <2>9, <3>1 DEF FirstFits
  <2>11. PICK e : e = [d EXCEPT !.table = t]
    OBVIOUS
  <2>12. e.tabrtp = b /\ e.now = now /\ e.table = t /\ e \in Classifier
    BY <1>19, <2>9, <2>11 DEF Classifier
  <2>13. f = IF n > Sixth THEN ins_flow_rtp(e, s) ELSE <<e, 0>>
    <3>1. e = [d EXCEPT !.table[x].count = n, !.table[x].time = d.now]
      BY <1>19, <2>5, <2>7, <2>11
    <3> QED
      BY <1>19, <1>20, <1>27, <2>1, <2>3, <3>1 DEF ins_flow
  <2>14. CASE f = <<e, 0>>
    <3>1. f = <<[d EXCEPT !.table = t, !.tabrtp = b], 0>>
      BY <1>19, <2>11, <2>14 DEF Classifier
    <3>2. 0 \in 0 .. NRTP
      BY Numbers
    <3> QED
      BY <1>24, <1>25, <1>27, <2>10, <3>1, <3>2
  <2>15. CASE n > Sixth /\ FreeRows(b) # {}
    <3>1. PICK y : y = FirstOf(FreeRows(b))
      OBVIOUS
    <3>2. y \in 1 .. NRTP /\ b[y].flag = 0
      <4>1. FreeRows(b) \subseteq Nat
        BY <1>16 DEF FreeRows
      <4> QED
        BY <1>16, <2>15, <3>1, <4>1, FirstIn DEF FreeRows
    <3>3. PICK v : v = [ssrc |-> s, time |-> now, flag |-> 1, count |-> Sixth + 1]
      OBVIOUS
    <3>4. v \in Row /\ v.ssrc = s /\ v.time = now
      BY <3>3, Numbers DEF Row
    <3>5. PICK u : u = [b EXCEPT ![y] = v]
      OBVIOUS
    <3>6. \A z \in 1 .. NRTP : b[z].flag # 0 => b[z].ssrc # s
      BY <1>25, <1>27
    <3>7. u \in [1 .. NRTP -> Row] /\ OneRow(u) /\ u[y] = v /\ \A z \in 1 .. NRTP : z # y => u[z] = b[z]
      <4>1. NRTP \in Nat /\ OneRow(b)
        BY <1>23, Numbers DEF SecondFits
      <4>2. b \in [1 .. NRTP -> Row] /\ y \in 1 .. NRTP /\ v \in Row
        BY <1>16, <3>2, <3>4
      <4>3. \A z \in 1 .. NRTP : b[z].flag # 0 /\ b[z].ssrc = v.ssrc => z = y
        BY <3>4, <3>6
      <4>4. Written(u, b, NRTP, y, v)
        BY <3>5, <4>1, <4>2, <4>3, WriteRow
      <4> QED
        BY <4>4 DEF Written
    <3>8. f = <<[d EXCEPT !.table = t, !.tabrtp = u], y>>
      <4>1. f = <<[e EXCEPT !.tabrtp[y] = [ssrc |-> s, time |-> e.now, flag |-> 1, count |-> Sixth + 1]], y>>
        BY <2>12, <2>13, <2>15, <3>1 DEF ins_flow_rtp
      <4>2. f = <<[e EXCEPT !.tabrtp = u], y>>
        BY <2>12, <3>3, <3>5, <4>1
      <4> QED
        BY <2>11, <4>2
    <3>9. earned[s]
      BY <1>4, <1>5, <1>10, <2>4, <2>15, Numbers
    <3>10. ASSUME NEW z \in 1 .. NRTP, u[z].flag # 0
           PROVE  u[z].ssrc \in Ssrc /\ earned[u[z].ssrc] /\ u[z].time = last[u[z].ssrc]
      <4>1. CASE z = y
        BY <1>10, <3>4, <3>7, <3>9, <4>1
      <4>2. CASE z # y
        <5>1. b[z].flag # 0 /\ u[z] = b[z] /\ b[z].ssrc # s
          BY <3>6, <3>7, <3>10, <4>2
        <5> QED
          BY <1>23, <5>1 DEF SecondFits
      <4> QED
        BY <4>1, <4>2
    <3>11. SecondFits(u, last, earned, 0) /\ y \in 0 .. NRTP /\ u[y].ssrc = s
      BY <3>2, <3>4, <3>7, <3>10 DEF SecondFits
    <3> QED
      BY <1>24, <2>10, <3>8, <3>10, <3>11
  <2>16. n > Sixth /\ FreeRows(b) = {} => f = <<e, 0>>
    BY <2>12, <2>13 DEF ins_flow_rtp
  <2> QED
    BY <2>4, <2>13, <2>14, <2>15, <2>16, Numbers
<1>28. CASE Live(b, s) = {} /\ Live(a, s) = {} /\ FreeRows(a) = {}
  <2>1. f = <<d, 0>>
    BY <1>19, <1>20, <1>28 DEF ins_flow
  <2>2. f = <<[d EXCEPT !.table = a, !.tabrtp = b], 0>>
    BY <1>19, <2>1 DEF Classifier
  <2>3. 0 \in 0 .. NRTP
    BY Numbers
  <2> QED
    BY <1>22, <1>24, <1>25, <1>28, <2>2, <2>3
<1>29. CASE Live(b, s) = {} /\ Live(a, s) = {} /\ FreeRows(a) # {}
  <2>1. PICK y : y = FirstOf(FreeRows(a))
    OBVIOUS
  <2>2. y \in 1 .. MAX /\ a[y].flag = 0
    <3>1. FreeRows(a) \subseteq Nat
      BY <1>15 DEF FreeRows
    <3> QED
      BY <1>15, <1>29, <2>1, <3>1, FirstIn DEF FreeRows
  <2>3. PICK v : v = [ssrc |-> s, time |-> now, flag |-> 1, count |-> 1]
    OBVIOUS
  <2>4. v \in Row /\ v.ssrc = s /\ v.time = now /\ v.count = 1
    BY <2>3 DEF Row
  <2>5. PICK t : t = [a EXCEPT ![y] = v]
    OBVIOUS
  <2>6. \A z \in 1 .. MAX : a[z].flag # 0 => a[z].ssrc # s
    BY <1>15, <1>29 DEF Live
  <2>7. t \in [1 .. MAX -> Row] /\ OneRow(t) /\ t[y] = v /\ \A z \in 1 .. MAX : z # y => t[z] = a[z]
    <3>1. MAX \in Nat /\ OneRow(a)
      BY <1>22, Numbers DEF FirstFits
    <3>2. a \in [1 .. MAX -> Row] /\ y \in 1 .. MAX /\ v \in Row
      BY <1>15, <2>2, <2>4
    <3>3. \A z \in 1 .. MAX : a[z].flag # 0 /\ a[z].ssrc = v.ssrc => z = y
      BY <2>4, <2>6
    <3>4. Written(t, a, MAX, y, v)
      BY <2>5, <3>1, <3>2, <3>3, WriteRow
    <3> QED
      BY <3>4 DEF Written
  <2>8. f = <<[d EXCEPT !.table = t, !.tabrtp = b], 0>>
    <3>1. f = <<[d EXCEPT !.table[y] = [ssrc |-> s, time |-> d.now, flag |-> 1, count |-> 1]], 0>>
      BY <1>19, <1>20, <1>29, <2>1 DEF ins_flow
    <3>2. f = <<[d EXCEPT !.table = t], 0>>
      BY <1>19, <2>3, <2>5, <3>1
    <3> QED
      BY <1>19, <3>2 DEF Classifier
  <2>9. FirstFits(t, row, last)
    <3>1. ASSUME NEW z \in 1 .. MAX, t[z].flag # 0
          PROVE  t[z].ssrc \in Ssrc /\ t[z].time <= last[t[z].ssrc] /\ t[z].count <= row[t[z].ssrc] /\ t[z].count <= Sixth + 1
      <4>1. CASE z = y
        BY <1>4, <1>10, <2>4, <2>7, <4>1, Numbers
      <4>2. CASE z # y
        <5>1. a[z].flag # 0 /\ t[z] = a[z]
          BY <2>7, <3>1, <4>2
        <5> QED
          BY <1>22, <5>1 DEF FirstFits
      <4> QED
        BY <4>1, <4>2
    <3> QED
      BY <2>7, <3>1 DEF FirstFits
  <2>10. 0 \in 0 .. NRTP
    BY Numbers
  <2> QED
    BY <1>24, <1>25, <1>29, <2>8, <2>9, <2>10
<1> QED
  BY <1>26, <1>27, <1>28, <1>29

\* An address of a client is what it hashes to; an address is leased to a client that
\* has it; a client whose hash is its own has a lease while it asked for one.
HashInv ==
    /\ \A e \in DOMAIN hashed.ips : e \in Mac /\ hashed.ips[e] = HashOf[e]
    /\ \A a \in DOMAIN hashed.leases : /\ hashed.leases[a] \in Mac /\ HashOf[hashed.leases[a]] = a
                                       /\ hashed.leases[a] \in DOMAIN hashed.ips
    /\ \A e \in Mac : (\A f \in Mac \ {e} : HashOf[f] # HashOf[e])
          => (e \in hashed.asked <=> HashOf[e] \in DOMAIN hashed.leases)

LEMMA HashInvInit == HashInit => HashInv
BY DEF HashInit, HashInv

\* A lease is asked for.
LEMMA HashInvNew ==
    ASSUME HashInv, NEW e \in Mac, Hash_new_lease(e)
    PROVE  HashInv'
<1>1. CASE Hash_rev_lookup(e)
  <2>1. hashed'.ips = hashed.ips /\ hashed'.leases = hashed.leases /\ hashed'.asked = hashed.asked \cup {e}
    BY <1>1 DEF Hash_new_lease
  <2>2. HashOf[e] \in DOMAIN hashed.leases
    BY <1>1 DEF HashInv, Hash_rev_lookup
  <2> QED
    BY <2>1, <2>2 DEF HashInv
<1>2. CASE ~Hash_rev_lookup(e)
  <2>1. PICK p : p = Put(hashed.ips, e, HashOf[e])
    OBVIOUS
  <2>2. PICK q : q = Put(hashed.leases, HashOf[e], e)
    OBVIOUS
  <2>3. hashed'.ips = p /\ hashed'.leases = q /\ hashed'.asked = hashed.asked \cup {e}
    BY <1>2, <2>1, <2>2 DEF Hash_new_lease
  <2>4. DOMAIN p = DOMAIN hashed.ips \cup {e} /\ p[e] = HashOf[e] /\ \A x \in DOMAIN hashed.ips : x # e => p[x] = hashed.ips[x]
    BY <2>1 DEF Put
  <2>5. /\ DOMAIN q = DOMAIN hashed.leases \cup {HashOf[e]} /\ q[HashOf[e]] = e
        /\ \A x \in DOMAIN hashed.leases : x # HashOf[e] => q[x] = hashed.leases[x]
    BY <2>2 DEF Put
  <2>6. \A x \in DOMAIN p : x \in Mac /\ p[x] = HashOf[x]
    BY <2>4 DEF HashInv
  <2>7. \A a \in DOMAIN q : q[a] \in Mac /\ HashOf[q[a]] = a /\ q[a] \in DOMAIN p
    BY <2>4, <2>5 DEF HashInv
  <2>8. \A x \in Mac : (\A f \in Mac \ {x} : HashOf[f] # HashOf[x])
           => (x \in hashed.asked \cup {e} <=> HashOf[x] \in DOMAIN q)
    BY <2>5 DEF HashInv
  <2> QED
    BY <2>3, <2>6, <2>7, <2>8 DEF HashInv
<1> QED
  BY <1>1, <1>2

\* A lease is given back.
LEMMA HashInvRemove ==
    ASSUME HashInv, NEW e \in Mac, Hash_remove(e)
    PROVE  HashInv'
<1>1. CASE Hash_rev_lookup(e)
  <2>1. hashed.ips[e] = HashOf[e]
    BY <1>1 DEF HashInv, Hash_rev_lookup
  <2>2. PICK p : p = Drop(hashed.ips, {e})
    OBVIOUS
  <2>3. PICK q : q = Drop(hashed.leases, {HashOf[e]})
    OBVIOUS
  <2>4. hashed'.ips = p /\ hashed'.leases = q /\ hashed'.asked = hashed.asked \ {e}
    BY <1>1, <2>1, <2>2, <2>3 DEF Hash_remove
  <2>5. DOMAIN p = DOMAIN hashed.ips \ {e} /\ \A x \in DOMAIN p : p[x] = hashed.ips[x]
    BY <2>2 DEF Drop, Restrict
  <2>6. DOMAIN q = DOMAIN hashed.leases \ {HashOf[e]} /\ \A x \in DOMAIN q : q[x] = hashed.leases[x]
    BY <2>3 DEF Drop, Restrict
  <2>7. \A x \in DOMAIN p : x \in Mac /\ p[x] = HashOf[x]
    BY <2>5 DEF HashInv
  <2>8. \A a \in DOMAIN q : q[a] \in Mac /\ HashOf[q[a]] = a /\ q[a] \in DOMAIN p
    BY <2>5, <2>6 DEF HashInv
  <2>9. \A x \in Mac : (\A f \in Mac \ {x} : HashOf[f] # HashOf[x])
           => (x \in hashed.asked \ {e} <=> HashOf[x] \in DOMAIN q)
    BY <2>6 DEF HashInv
  <2> QED
    BY <2>4, <2>7, <2>8, <2>9 DEF HashInv
<1>2. CASE ~Hash_rev_lookup(e)
  <2>1. hashed'.ips = hashed.ips /\ hashed'.leases = hashed.leases /\ hashed'.asked = hashed.asked \ {e}
    BY <1>2 DEF Hash_remove
  \* nobody else has the address of a client whose hash is its own
  <2>2. ASSUME \A f \in Mac \ {e} : HashOf[f] # HashOf[e] PROVE HashOf[e] \notin DOMAIN hashed.leases
    <3> SUFFICES ASSUME HashOf[e] \in DOMAIN hashed.leases PROVE FALSE
      OBVIOUS
    <3>1. PICK g : g = hashed.leases[HashOf[e]]
      OBVIOUS
    <3>2. g \in Mac /\ HashOf[g] = HashOf[e] /\ g \in DOMAIN hashed.ips
      BY <3>1 DEF HashInv
    <3>3. g = e
      BY <2>2, <3>2
    <3> QED
      BY <1>2, <3>2, <3>3 DEF HashInv, Hash_rev_lookup
  <2> QED
    BY <2>1, <2>2 DEF HashInv
<1> QED
  BY <1>1, <1>2

\* A flow with one row of a table has at most one.
LEMMA OneLive ==
    ASSUME NEW t, OneRow(t), NEW s
    PROVE  Cardinality(Live(t, s)) <= 1
<1>1. CASE Live(t, s) = {}
  BY <1>1, FS_EmptySet
<1>2. CASE Live(t, s) # {}
  <2>1. PICK x : x \in Live(t, s)
    BY <1>2
  <2>2. Live(t, s) = {x}
    BY <2>1 DEF Live, OneRow
  <2> QED
    BY <2>2, FS_Singleton
<1> QED
  BY <1>1, <1>2

FlowTablesInv == RTPInv /\ HashInv /\ rtp.now <= MaxNow

\* A flow has a number of its own and earned it, and a lease is of the address that its
\* client hashes to: for tables of every size, every timeout and every hash.
THEOREM FlowTablesAreSound == FlowTablesSpec => [](FlowTablesTypeOK /\ FlowTablesSound)
<1>1. FlowTablesInit => FlowTablesInv
  BY RTPInvInit, HashInvInit, Numbers DEF FlowTablesInit, FlowTablesInv, RTPInit
<1>2. FlowTablesInv /\ [RTPNext \/ HashNext]_tableVars => FlowTablesInv'
  <2> SUFFICES ASSUME FlowTablesInv, [RTPNext \/ HashNext]_tableVars PROVE FlowTablesInv'
    OBVIOUS
  <2>0. RTPInv /\ HashInv /\ rtp.now <= MaxNow /\ rtp.now \in Nat
    BY DEF FlowTablesInv, RTPInv, Classifier
  <2>1. CASE Second /\ UNCHANGED hashed
    <3>1. RTPInv'
      BY <2>0, <2>1, RTPInvSecond
    <3>2. HashInv'
      BY <2>0, <2>1 DEF HashInv
    <3>3. rtp'.now <= MaxNow
      <4>1. rtp'.now = rtp.now + 1 /\ rtp.now < MaxNow
        BY <2>0, <2>1 DEF Second, RTPInv, Classifier
      <4> QED
        BY <2>0, <4>1, Numbers
    <3> QED
      BY <3>1, <3>2, <3>3 DEF FlowTablesInv
  <2>2. ASSUME NEW s \in Ssrc, RTP_push(s), UNCHANGED hashed PROVE FlowTablesInv'
    <3>1. RTPInv'
      BY <2>0, <2>2, RTPInvPush
    <3>2. HashInv'
      BY <2>0, <2>2 DEF HashInv
    <3>3. rtp'.now = rtp.now
      BY <2>0, <2>2, RTPInvPush
    <3> QED
      BY <2>0, <3>1, <3>2, <3>3 DEF FlowTablesInv
  <2>3. CASE HashNext
    <3>1. HashInv'
      BY <2>0, <2>3, HashInvNew, HashInvRemove DEF HashNext
    <3> QED
      BY <2>0, <2>3, <3>1 DEF HashNext, FlowTablesInv, RTPInv
  <2>4. CASE UNCHANGED tableVars
    BY <2>0, <2>4 DEF tableVars, FlowTablesInv, RTPInv, HashInv
  <2> QED
    BY <2>1, <2>2, <2>3, <2>4 DEF RTPNext
<1>3. FlowTablesInv => FlowTablesTypeOK /\ FlowTablesSound
  <2> SUFFICES ASSUME FlowTablesInv PROVE FlowTablesTypeOK /\ FlowTablesSound
    OBVIOUS
  <2>1. RTPInv /\ HashInv /\ rtp.now <= MaxNow /\ rtp.now \in Nat /\ rtp.out.number \in 0 .. NRTP
    BY DEF FlowTablesInv, RTPInv, Classifier
  <2>2. FlowTablesTypeOK
    <3>1. DOMAIN hashed.ips \subseteq Mac /\ DOMAIN hashed.leases \subseteq {HashOf[e] : e \in Mac}
      BY <2>1 DEF HashInv
    <3> QED
      BY <2>1, <3>1, Numbers DEF FlowTablesTypeOK
  <2>3. RTPSound
    <3>1. \A s \in Ssrc : Cardinality(Live(rtp.tabrtp, s)) <= 1 /\ Cardinality(Live(rtp.table, s)) <= 1
      BY <2>1, OneLive DEF RTPInv
    <3>2. ASSUME NEW s \in Ssrc, Live(rtp.tabrtp, s) # {} PROVE rtp.earned[s]
      <4>1. PICK x \in DOMAIN rtp.tabrtp : rtp.tabrtp[x].flag # 0 /\ rtp.tabrtp[x].ssrc = s
        BY <3>2 DEF Live
      <4>2. DOMAIN rtp.tabrtp = 1 .. NRTP
        BY <2>1 DEF RTPInv, Classifier
      <4> QED
        BY <2>1, <4>1, <4>2 DEF RTPInv
    <3> QED
      BY <2>1, <3>1, <3>2 DEF RTPSound, RTPInv
  <2>4. LeaseHashSound
    BY <2>1 DEF HashInv, LeaseHashSound
  <2> QED
    BY <2>2, <2>3, <2>4 DEF FlowTablesSound
<1> QED
  BY <1>1, <1>2, <1>3, PTL DEF FlowTablesSpec

-----------------------------------------------------------------------------
(* Queues: short queues and a long one, and one for each neighbor.         *)

\* How many packets of a queue have paint c.
Painted(s, c) == {j \in 1 .. Len(s) : s[j] = c}
Count(s, c) == Cardinality(Painted(s, c))

LEMMA CountType ==
    ASSUME NEW S, NEW s \in Seq(S), NEW c
    PROVE  IsFiniteSet(Painted(s, c)) /\ Count(s, c) \in Nat
<1>1. Len(s) \in Nat /\ 1 \in Int
  OBVIOUS
<1>2. IsFiniteSet(1 .. Len(s))
  BY <1>1, FS_Interval
<1>3. Painted(s, c) \in SUBSET (1 .. Len(s))
  BY DEF Painted
<1>4. IsFiniteSet(Painted(s, c))
  BY <1>2, <1>3, FS_Subset
<1> QED
  BY <1>4, FS_CardinalityType DEF Count

LEMMA CountAppend ==
    ASSUME NEW S, NEW s \in Seq(S), NEW d \in S, NEW c
    PROVE  Count(Append(s, d), c) = Count(s, c) + (IF d = c THEN 1 ELSE 0)
<1>1. PICK A : A = Painted(s, c)
  OBVIOUS
<1>2. PICK n \in Nat : n = Len(s) + 1
  OBVIOUS
<1>3. IsFiniteSet(A) /\ Cardinality(A) = Count(s, c) /\ Count(s, c) \in Nat
  BY <1>1, CountType DEF Count
<1>4. n \notin A
  BY <1>1, <1>2 DEF Painted
<1>5. CASE d = c
  <2>1. Painted(Append(s, d), c) = A \cup {n}
    BY <1>1, <1>2, <1>5 DEF Painted
  <2>2. Cardinality(A \cup {n}) = Cardinality(A) + 1
    BY <1>3, <1>4, FS_AddElement
  <2> QED
    BY <1>3, <1>5, <2>1, <2>2 DEF Count
<1>6. CASE d # c
  <2>1. Painted(Append(s, d), c) = A
    BY <1>1, <1>2, <1>6 DEF Painted
  <2> QED
    BY <1>3, <1>6, <2>1 DEF Count
<1> QED
  BY <1>5, <1>6

LEMMA CountTail ==
    ASSUME NEW S, NEW s \in Seq(S), s # <<>>, NEW c
    PROVE  Count(Tail(s), c) = Count(s, c) - (IF Head(s) = c THEN 1 ELSE 0)
<1>1. PICK A : A = Painted(s, c)
  OBVIOUS
<1>2. PICK B : B = Painted(Tail(s), c)
  OBVIOUS
<1>3. IsFiniteSet(A) /\ Cardinality(A) = Count(s, c) /\ Count(s, c) \in Nat
  BY <1>1, CountType DEF Count
<1>4. Tail(s) \in Seq(S)
  OBVIOUS
<1>5. IsFiniteSet(B) /\ Cardinality(B) = Count(Tail(s), c)
  BY <1>2, <1>4, CountType DEF Count
<1>6. Len(s) \in Nat /\ Len(s) > 0 /\ Len(Tail(s)) = Len(s) - 1 /\ Head(s) = s[1]
  OBVIOUS
<1>7. \A j \in 1 .. Len(s) - 1 : Tail(s)[j] = s[j + 1]
  OBVIOUS
<1>8. PICK f : f = [j \in B |-> j + 1]
  OBVIOUS
<1>9. \A j \in B : j \in 1 .. Len(s) - 1 /\ s[j + 1] = c
  BY <1>2, <1>6, <1>7 DEF Painted
<1>10. \A j \in B : j \in Int /\ j + 1 \in A \ {1}
  BY <1>1, <1>6, <1>9 DEF Painted
<1>11. f \in [B -> A \ {1}]
  BY <1>8, <1>10
<1>12. \A a, b \in B : f[a] = f[b] => a = b
  <2> SUFFICES ASSUME NEW a \in B, NEW b \in B, f[a] = f[b] PROVE a = b
    OBVIOUS
  <2>1. a \in Int /\ b \in Int /\ a + 1 = b + 1
    BY <1>8, <1>10
  <2> QED
    BY <2>1
<1>13. \A t \in A \ {1} : \E j \in B : f[j] = t
  <2> SUFFICES ASSUME NEW t \in A \ {1} PROVE \E j \in B : f[j] = t
    OBVIOUS
  <2>1. t \in 1 .. Len(s) /\ t # 1 /\ s[t] = c
    BY <1>1 DEF Painted
  <2>2. t - 1 \in 1 .. Len(s) - 1 /\ (t - 1) + 1 = t
    BY <1>6, <2>1
  <2>3. Tail(s)[t - 1] = c
    BY <1>7, <2>1, <2>2
  <2>4. t - 1 \in B
    BY <1>2, <1>6, <2>2, <2>3 DEF Painted
  <2> QED
    BY <1>8, <2>2, <2>4
<1>14. ExistsBijection(B, A \ {1})
  <2>1. f \in Bijection(B, A \ {1})
    BY <1>11, <1>12, <1>13 DEF Bijection, Injection, Surjection, IsInjective
  <2> QED
    BY <2>1 DEF ExistsBijection
<1>15. Cardinality(A \ {1}) = Cardinality(B)
  BY <1>5, <1>14, FS_Bijection
<1>16. Cardinality(A \ {1}) = IF 1 \in A THEN Cardinality(A) - 1 ELSE Cardinality(A)
  BY <1>3, FS_RemoveElement
<1>17. 1 \in A <=> Head(s) = c
  BY <1>1, <1>6 DEF Painted
<1> QED
  BY <1>3, <1>5, <1>15, <1>16, <1>17

\* The number of turns after which a queue was served last.
Turns(i, pull) == IF i < pull THEN pull - 1 - i ELSE QueuesNumber + pull - 1 - i

\* The parts of the state of PriorityQueue.
PrioShape ==
    prio = [q |-> prio.q, pull |-> prio.pull, achieved |-> prio.achieved, bytes |-> prio.bytes,
            samples |-> prio.samples, counter |-> prio.counter, bucket |-> prio.bucket,
            highwater |-> prio.highwater, drops |-> prio.drops, pushed |-> prio.pushed,
            fed |-> prio.fed, waited |-> prio.waited]
PrioTypes ==
    /\ prio.q \in [QueueNumber -> Seq(Paints)] /\ prio.pull \in 1 .. QueuesNumber + 1
    /\ prio.counter \in 0 .. SamplesSkipped
    /\ prio.bucket \in [Paints -> Int] /\ prio.highwater \in [QueueNumber -> Nat]
    /\ prio.waited \in [QueueNumber -> Nat]
Capacity(i) == IF i = LongQueue THEN LongCapacity ELSE ShortCapacity

\* A queue with packets was passed over at most as often as the pointer has moved
\* since it was behind that queue.
PrioInv ==
    /\ PrioShape /\ PrioTypes
    /\ \A c \in Paints : prio.bucket[c] = Count(prio.q[LongQueue], c)
    /\ \A i \in QueueNumber : /\ Len(prio.q[i]) <= prio.highwater[i] /\ prio.highwater[i] <= Capacity(i)
                              /\ prio.q[i] = <<>> => prio.waited[i] = 0
                              /\ prio.waited[i] <= Turns(i, prio.pull)

LEMMA QueuesNumbers ==
    /\ QueuesNumber \in Nat /\ QueuesNumber > 0 /\ LongQueue = QueuesNumber /\ LongQueue \in QueueNumber
    /\ ShortCapacity \in Nat /\ LongCapacity \in Nat /\ SamplesSkipped \in Nat /\ MQCapacity \in Nat
    /\ Dmax \in Nat /\ V \in Nat /\ Theta \in Nat /\ QueueNumber \subseteq Nat
    /\ \A i \in QueueNumber : Capacity(i) \in Nat /\ i \in 1 .. QueuesNumber
BY QueuesAssumption DEF LongQueue, QueueNumber, Capacity

LEMMA PrioInvSuffices ==
    ASSUME PrioInv
    PROVE  PrioritySound /\ prio.pull \in 1 .. QueuesNumber + 1 /\ prio.counter \in 0 .. SamplesSkipped
<1>1. \A i \in QueueNumber : Turns(i, prio.pull) < QueuesNumber /\ Turns(i, prio.pull) \in Int
  <2> SUFFICES ASSUME NEW i \in QueueNumber PROVE Turns(i, prio.pull) < QueuesNumber /\ Turns(i, prio.pull) \in Int
    OBVIOUS
  <2>1. PICK p : p = prio.pull
    OBVIOUS
  <2>2. p \in Int /\ 1 <= p /\ p <= QueuesNumber + 1
    BY <2>1, QueuesNumbers DEF PrioInv, PrioTypes
  <2>3. i \in Int /\ 1 <= i /\ i <= QueuesNumber
    BY QueuesNumbers
  <2>4. Turns(i, p) < QueuesNumber /\ Turns(i, p) \in Int
    BY <2>2, <2>3, QueuesNumbers DEF Turns
  <2> QED
    BY <2>1, <2>4
<1>2. \A i \in QueueNumber : prio.waited[i] < QueuesNumber
  BY <1>1, QueuesNumbers DEF PrioInv, PrioTypes
<1> QED
  BY <1>2 DEF PrioInv, PrioTypes, PrioritySound, Count, Painted, Capacity

LEMMA PrioStarts ==
    ASSUME PrioInit
    PROVE  PrioInv
<1>1. PICK s \in [Paints -> {0, Junk}] :
         prio = [q |-> [i \in QueueNumber |-> <<>>], pull |-> 1, achieved |-> [c \in Paints |-> TRUE],
                 bytes |-> [c \in Paints |-> 0], samples |-> s, counter |-> SamplesSkipped,
                 bucket |-> [c \in Paints |-> 0], highwater |-> [i \in QueueNumber |-> 0], drops |-> 0,
                 pushed |-> 0, fed |-> 0, waited |-> [i \in QueueNumber |-> 0]]
  BY DEF PrioInit
<1>2. PrioShape
  BY <1>1 DEF PrioShape
<1>3. PrioTypes
  BY <1>1, QueuesNumbers DEF PrioTypes
<1>4. \A c : Count(<<>>, c) = 0
  <2>1. \A c : Painted(<<>>, c) = {}
    BY DEF Painted
  <2> QED
    BY <2>1, FS_EmptySet DEF Count
<1>5. \A c \in Paints : prio.bucket[c] = Count(prio.q[LongQueue], c)
  <2>1. prio.q[LongQueue] = <<>> /\ \A c \in Paints : prio.bucket[c] = 0
    BY <1>1, QueuesNumbers
  <2> QED
    BY <1>4, <2>1
<1>6. ASSUME NEW i \in QueueNumber
      PROVE  /\ Len(prio.q[i]) <= prio.highwater[i] /\ prio.highwater[i] <= Capacity(i)
             /\ prio.q[i] = <<>> => prio.waited[i] = 0
             /\ prio.waited[i] <= Turns(i, prio.pull)
  <2>1. prio.q[i] = <<>> /\ prio.highwater[i] = 0 /\ prio.waited[i] = 0 /\ prio.pull = 1
    BY <1>1
  <2>2. 0 <= Turns(i, 1)
    BY QueuesNumbers DEF Turns
  <2> QED
    BY <2>1, <2>2, QueuesNumbers
<1> QED
  BY <1>2, <1>3, <1>5, <1>6 DEF PrioInv


\* LeastNat of Lemmas, for the choices of the model: the least of a set of queues.
LEMMA LeastQueue ==
    ASSUME NEW S \in SUBSET QueueNumber, S # {}, NEW k, k = CHOOSE i \in S : \A j \in S : i <= j
    PROVE  k \in S /\ \A j \in S : k <= j
<1>1. \E i \in S : \A j \in S : i <= j
  BY LeastNat, QueuesNumbers
<1> QED
  BY <1>1

LEMMA TimerKeeps ==
    ASSUME PrioInv, Priority_run_timer
    PROVE  PrioInv'
<1>1. PICK a : prio' = [prio EXCEPT !.achieved = a]
  BY DEF Priority_run_timer
<1>2. prio' = [q |-> prio.q, pull |-> prio.pull, achieved |-> a, bytes |-> prio.bytes,
               samples |-> prio.samples, counter |-> prio.counter, bucket |-> prio.bucket,
               highwater |-> prio.highwater, drops |-> prio.drops, pushed |-> prio.pushed,
               fed |-> prio.fed, waited |-> prio.waited]
  BY <1>1 DEF PrioInv, PrioShape
<1> QED
  BY <1>2 DEF PrioInv, PrioShape, PrioTypes

LEMMA FeedbackKeeps ==
    ASSUME PrioInv, NEW c \in Paints, Priority_feedback(c)
    PROVE  PrioInv'
<1>1. PICK n : n = IF prio.counter = 0 THEN SamplesSkipped ELSE prio.counter - 1
  OBVIOUS
<1>2. n \in 0 .. SamplesSkipped
  BY <1>1, QueuesNumbers DEF PrioInv, PrioTypes
<1>3. PICK b, s, f : prio' = [prio EXCEPT !.fed = f, !.bytes = b, !.samples = s, !.counter = n]
  <2>1. prio' = [prio EXCEPT !.fed = prio.fed + 1, !.bytes[c] = prio.bytes[c] + 1,
                            !.samples[c] = IF prio.counter = 0 THEN prio.samples[c] + 1 ELSE prio.samples[c],
                            !.counter = n]
    BY <1>1 DEF Priority_feedback
  <2>2. PICK b : b = [prio.bytes EXCEPT ![c] = prio.bytes[c] + 1]
    OBVIOUS
  <2>3. PICK s : s = [prio.samples EXCEPT ![c] = IF prio.counter = 0 THEN prio.samples[c] + 1 ELSE prio.samples[c]]
    OBVIOUS
  <2>4. prio' = [prio EXCEPT !.fed = prio.fed + 1, !.bytes = b, !.samples = s, !.counter = n]
    BY <2>1, <2>2, <2>3 DEF PrioInv, PrioShape
  <2> QED
    BY <2>4
<1>4. prio' = [q |-> prio.q, pull |-> prio.pull, achieved |-> prio.achieved, bytes |-> b,
               samples |-> s, counter |-> n, bucket |-> prio.bucket,
               highwater |-> prio.highwater, drops |-> prio.drops, pushed |-> prio.pushed,
               fed |-> f, waited |-> prio.waited]
  BY <1>3 DEF PrioInv, PrioShape
<1> QED
  BY <1>2, <1>4 DEF PrioInv, PrioShape, PrioTypes


\* What storing a packet of paint c in queue i changes, and does not.
StoredIn(i, c) ==
    /\ PrioShape'
    /\ prio'.pull = prio.pull /\ prio'.counter = prio.counter /\ prio'.waited = prio.waited
    /\ prio'.q = [prio.q EXCEPT ![i] = Append(prio.q[i], c)]
    /\ prio'.highwater = [prio.highwater EXCEPT ![i] =
                            IF Len(prio.q[i]) = prio.highwater[i] THEN prio.highwater[i] + 1 ELSE prio.highwater[i]]
    /\ prio'.bucket = [prio.bucket EXCEPT ![c] = IF i = LongQueue THEN prio.bucket[c] + 1 ELSE prio.bucket[c]]

LEMMA StoredChanges ==
    ASSUME PrioInv, NEW i \in QueueNumber, NEW c \in Paints, prio' = Stored(i, c)
    PROVE  StoredIn(i, c)
<1>1. prio' = [q |-> [prio.q EXCEPT ![i] = Append(prio.q[i], c)], pull |-> prio.pull,
               achieved |-> prio.achieved, bytes |-> prio.bytes,
               samples |-> prio.samples, counter |-> prio.counter,
               bucket |-> [prio.bucket EXCEPT ![c] = IF i = LongQueue THEN prio.bucket[c] + 1 ELSE prio.bucket[c]],
               highwater |-> [prio.highwater EXCEPT ![i] =
                            IF Len(prio.q[i]) = prio.highwater[i] THEN prio.highwater[i] + 1 ELSE prio.highwater[i]],
               drops |-> prio.drops, pushed |-> prio.pushed + 1,
               fed |-> prio.fed, waited |-> prio.waited]
  BY DEF Stored, PrioInv, PrioShape
<1> QED
  BY <1>1 DEF StoredIn, PrioShape

LEMMA StoringKeeps ==
    ASSUME PrioInv, NEW i \in QueueNumber, NEW c \in Paints, StoredIn(i, c), Len(prio.q[i]) < Capacity(i)
    PROVE  PrioInv'
<1>1. prio.q[i] \in Seq(Paints) /\ prio.highwater[i] \in Nat /\ prio.bucket[c] \in Int
  BY DEF PrioInv, PrioTypes
<1>2. PrioTypes'
  <2>1. prio'.q \in [QueueNumber -> Seq(Paints)]
    <3>1. Append(prio.q[i], c) \in Seq(Paints)
      BY <1>1
    <3> QED
      BY <3>1 DEF PrioInv, PrioTypes, StoredIn
  <2>2. prio'.highwater \in [QueueNumber -> Nat]
    <3>1. PICK h \in Nat : h = IF Len(prio.q[i]) = prio.highwater[i] THEN prio.highwater[i] + 1 ELSE prio.highwater[i]
      BY <1>1
    <3> QED
      BY <3>1 DEF PrioInv, PrioTypes, StoredIn
  <2>3. prio'.bucket \in [Paints -> Int]
    <3>1. PICK h \in Int : h = IF i = LongQueue THEN prio.bucket[c] + 1 ELSE prio.bucket[c]
      BY <1>1
    <3> QED
      BY <3>1 DEF PrioInv, PrioTypes, StoredIn
  <2> QED
    BY <2>1, <2>2, <2>3, QueuesNumbers DEF PrioInv, PrioTypes, StoredIn
<1>3. ASSUME NEW d \in Paints PROVE prio'.bucket[d] = Count(prio'.q[LongQueue], d)
  <2>0. prio.bucket[d] = Count(prio.q[LongQueue], d)
    BY DEF PrioInv
  <2>1. CASE i = LongQueue
    <3>1. prio'.q[LongQueue] = Append(prio.q[LongQueue], c)
      BY <2>1 DEF StoredIn, PrioInv, PrioTypes
    <3>2. Count(Append(prio.q[LongQueue], c), d) = Count(prio.q[LongQueue], d) + (IF c = d THEN 1 ELSE 0)
      BY <1>1, <2>1, CountAppend
    <3>3. prio.bucket[d] \in Int /\ prio'.bucket[d] = prio.bucket[d] + (IF c = d THEN 1 ELSE 0)
      BY <2>1 DEF StoredIn, PrioInv, PrioTypes
    <3> QED
      BY <2>0, <3>1, <3>2, <3>3
  <2>2. CASE i # LongQueue
    <3>1. prio'.q[LongQueue] = prio.q[LongQueue]
      BY <2>2 DEF StoredIn, PrioInv, PrioTypes
    <3>2. prio'.bucket[d] = prio.bucket[d]
      BY <2>2 DEF StoredIn, PrioInv, PrioTypes
    <3> QED
      BY <2>0, <3>1, <3>2
  <2> QED
    BY <2>1, <2>2
<1>4. ASSUME NEW j \in QueueNumber
      PROVE  /\ Len(prio'.q[j]) <= prio'.highwater[j] /\ prio'.highwater[j] <= Capacity(j)
             /\ prio'.q[j] = <<>> => prio'.waited[j] = 0
             /\ prio'.waited[j] <= Turns(j, prio'.pull)
  <2>0. /\ Len(prio.q[j]) <= prio.highwater[j] /\ prio.highwater[j] <= Capacity(j)
        /\ prio.q[j] = <<>> => prio.waited[j] = 0
        /\ prio.waited[j] <= Turns(j, prio.pull)
    BY DEF PrioInv
  <2>1. CASE i = j
    <3>1. prio'.q[j] = Append(prio.q[i], c)
      BY <2>1 DEF StoredIn, PrioInv, PrioTypes
    <3>2. PICK h : h = prio.highwater[i]
      OBVIOUS
    <3>3. prio'.highwater[j] = IF Len(prio.q[i]) = h THEN h + 1 ELSE h
      BY <2>1, <3>2 DEF StoredIn, PrioInv, PrioTypes
    <3>4. prio'.q[j] # <<>> /\ Len(prio'.q[j]) = Len(prio.q[i]) + 1
      BY <1>1, <3>1
    <3>5. Capacity(i) \in Nat /\ Len(prio.q[i]) \in Nat
      BY <1>1, QueuesNumbers
    <3>6. Len(prio'.q[j]) <= prio'.highwater[j] /\ prio'.highwater[j] <= Capacity(j)
      BY <1>1, <2>0, <2>1, <3>2, <3>3, <3>4, <3>5
    <3> QED
      BY <2>0, <3>4, <3>6 DEF StoredIn
  <2>2. CASE i # j
    <3>1. prio'.q[j] = prio.q[j] /\ prio'.highwater[j] = prio.highwater[j]
      BY <2>2 DEF StoredIn, PrioInv, PrioTypes
    <3> QED
      BY <2>0, <3>1 DEF StoredIn
  <2> QED
    BY <2>1, <2>2
<1> QED
  BY <1>2, <1>3, <1>4 DEF StoredIn, PrioInv

LEMMA PushKeeps ==
    ASSUME PrioInv, NEW c \in Paints, Priority_push(c)
    PROVE  PrioInv'
<1> DEFINE S == IF prio.achieved[c] THEN {} ELSE {i \in 1 .. LongQueue - 1 : Len(prio.q[i]) # ShortCapacity}
<1>1. prio' = IF S # {} THEN Stored(CHOOSE i \in S : \A j \in S : i <= j, c)
              ELSE IF Len(prio.q[LongQueue]) # LongCapacity THEN Stored(LongQueue, c)
              ELSE [prio EXCEPT !.drops = prio.drops + 1, !.pushed = prio.pushed + 1]
  BY DEF Priority_push
<1>a. \A i \in S : i \in 1 .. LongQueue - 1 /\ Len(prio.q[i]) # ShortCapacity
  OBVIOUS
<1> HIDE DEF S
<1>2. ASSUME NEW i \in QueueNumber, Len(prio.q[i]) # Capacity(i) PROVE Len(prio.q[i]) < Capacity(i)
  <2>1. Len(prio.q[i]) <= prio.highwater[i] /\ prio.highwater[i] <= Capacity(i)
    BY DEF PrioInv
  <2>2. Len(prio.q[i]) \in Nat /\ prio.highwater[i] \in Nat /\ Capacity(i) \in Nat
    BY QueuesNumbers DEF PrioInv, PrioTypes
  <2> QED
    BY <1>2, <2>1, <2>2
<1>3. CASE S # {}
  <2>1. PICK k : k = CHOOSE i \in S : \A j \in S : i <= j
    OBVIOUS
  <2>2. S \in SUBSET QueueNumber /\ \A i \in S : i # LongQueue /\ Len(prio.q[i]) # ShortCapacity
    <3> SUFFICES ASSUME NEW i \in S PROVE i \in QueueNumber /\ i # LongQueue /\ Len(prio.q[i]) # ShortCapacity
      OBVIOUS
    <3>1. i \in 1 .. LongQueue - 1 /\ Len(prio.q[i]) # ShortCapacity
      BY <1>a
    <3>2. i \in 1 .. QueuesNumber /\ i # QueuesNumber
      BY <3>1, QueuesNumbers
    <3> QED
      BY <3>1, <3>2 DEF QueueNumber, LongQueue
  <2>3. k \in S
    BY <1>3, <2>1, <2>2, LeastQueue
  <2>4. k \in QueueNumber /\ Len(prio.q[k]) # Capacity(k)
    BY <2>2, <2>3 DEF Capacity
  <2>5. prio' = Stored(k, c)
    BY <1>1, <1>3, <2>1
  <2>6. StoredIn(k, c)
    BY <2>4, <2>5, StoredChanges
  <2> QED
    BY <1>2, <2>4, <2>6, StoringKeeps
<1>4. CASE S = {} /\ Len(prio.q[LongQueue]) # LongCapacity
  <2>1. prio' = Stored(LongQueue, c)
    BY <1>1, <1>4
  <2>2. LongQueue \in QueueNumber /\ Len(prio.q[LongQueue]) # Capacity(LongQueue)
    BY <1>4, QueuesNumbers DEF Capacity
  <2>3. StoredIn(LongQueue, c)
    BY <2>1, <2>2, StoredChanges
  <2> QED
    BY <1>2, <2>2, <2>3, StoringKeeps
<1>5. CASE S = {} /\ Len(prio.q[LongQueue]) = LongCapacity
  <2>1. prio' = [prio EXCEPT !.drops = prio.drops + 1, !.pushed = prio.pushed + 1]
    BY <1>1, <1>5
  <2>2. prio' = [q |-> prio.q, pull |-> prio.pull, achieved |-> prio.achieved, bytes |-> prio.bytes,
               samples |-> prio.samples, counter |-> prio.counter, bucket |-> prio.bucket,
               highwater |-> prio.highwater, drops |-> prio.drops + 1, pushed |-> prio.pushed + 1,
               fed |-> prio.fed, waited |-> prio.waited]
    BY <2>1 DEF PrioInv, PrioShape
  <2> QED
    BY <2>2 DEF PrioInv, PrioShape, PrioTypes
<1> QED
  BY <1>3, <1>4, <1>5


\* The queue pull() serves has a packet, and comes before every other one that has,
\* in the order that begins at _pull_q and goes around once.
ServedNext(k) ==
    /\ k \in QueueNumber /\ prio.q[k] # <<>>
    /\ \A i \in QueueNumber : prio.q[i] # <<>> => IF i >= prio.pull THEN prio.pull <= k /\ k <= i
                                                  ELSE prio.pull <= k \/ k <= i

LEMMA ServedIsNext ==
    ASSUME PrioInv, \E i \in QueueNumber : prio.q[i] # <<>>
    PROVE  ServedNext(Served)
<1> DEFINE full == {i \in QueueNumber : prio.q[i] # <<>>}
           later == {i \in full : i >= prio.pull}
           S == IF later # {} THEN later ELSE full
<1>1. Served = CHOOSE i \in S : \A j \in S : i <= j
  BY DEF Served
<1>2. S # {} /\ S \in SUBSET QueueNumber
  OBVIOUS
<1>3. \A i \in QueueNumber : prio.q[i] # <<>> => (i \in S \/ (later # {} /\ ~(i >= prio.pull)))
  OBVIOUS
<1>4. later # {} => \A i \in S : i >= prio.pull
  OBVIOUS
<1>5. \A i \in S : i \in QueueNumber /\ prio.q[i] # <<>>
  OBVIOUS
<1>6. later = {} => \A i \in QueueNumber : prio.q[i] # <<>> => ~(i >= prio.pull)
  OBVIOUS
<1> HIDE DEF S, later, full
<1>7. PICK k : k = Served
  OBVIOUS
<1>8. k \in S /\ \A j \in S : k <= j
  BY <1>1, <1>2, <1>7, LeastQueue
<1>9. k \in QueueNumber /\ prio.q[k] # <<>>
  BY <1>5, <1>8
<1>10. prio.pull \in Nat
  BY QueuesNumbers DEF PrioInv, PrioTypes
<1>11. ASSUME NEW i \in QueueNumber, prio.q[i] # <<>>
       PROVE  IF i >= prio.pull THEN prio.pull <= k /\ k <= i ELSE prio.pull <= k \/ k <= i
  <2>1. i \in Nat /\ k \in Nat
    BY <1>9, QueuesNumbers
  <2>2. PICK p \in Nat : p = prio.pull
    BY <1>10
  <2>3. CASE later # {}
    <3>1. p <= k
      BY <1>4, <1>8, <2>1, <2>2, <2>3
    <3>2. i >= p => k <= i
      BY <1>3, <1>8, <1>11, <2>2
    <3> QED
      BY <2>2, <3>1, <3>2
  <2>4. CASE later = {}
    <3>1. ~(i >= p) /\ i \in S
      BY <1>3, <1>6, <1>11, <2>2, <2>4
    <3> QED
      BY <1>8, <2>2, <3>1
  <2> QED
    BY <2>3, <2>4
<1> QED
  BY <1>7, <1>9, <1>11 DEF ServedNext

LEMMA PullKeeps ==
    ASSUME PrioInv, Priority_pull
    PROVE  PrioInv'
<1>0. PICK k : k = Served
  OBVIOUS
<1>1. ServedNext(k)
  BY <1>0, ServedIsNext DEF Priority_pull
<1>2. k \in QueueNumber /\ k \in 1 .. QueuesNumber /\ prio.q[k] # <<>>
  BY <1>1, QueuesNumbers DEF ServedNext
<1>3. PICK c : c = Head(prio.q[k])
  OBVIOUS
<1>4. prio.q[k] \in Seq(Paints)
  BY <1>2 DEF PrioInv, PrioTypes
<1>5. c \in Paints /\ Tail(prio.q[k]) \in Seq(Paints)
  BY <1>2, <1>3, <1>4
<1>6. prio.bucket[c] \in Int
  BY <1>5 DEF PrioInv, PrioTypes
<1>7. PICK w : w = [i \in QueueNumber |-> IF i = k \/ prio.q[i] = <<>> THEN 0 ELSE prio.waited[i] + 1]
  OBVIOUS
<1>8. PICK b : b = [prio.bucket EXCEPT ![c] = IF k + 1 = LongQueue + 1 THEN prio.bucket[c] - 1 ELSE prio.bucket[c]]
  OBVIOUS
<1>9. PICK r : r = [prio.q EXCEPT ![k] = Tail(prio.q[k])]
  OBVIOUS
<1>10. prio' = [q |-> r, pull |-> k + 1, achieved |-> prio.achieved, bytes |-> prio.bytes,
               samples |-> prio.samples, counter |-> prio.counter, bucket |-> b,
               highwater |-> prio.highwater, drops |-> prio.drops, pushed |-> prio.pushed,
               fed |-> prio.fed, waited |-> w]
  <2>1. prio' = [prio EXCEPT !.q[k] = Tail(prio.q[k]), !.pull = k + 1,
                       !.bucket[c] = IF k + 1 = LongQueue + 1 THEN prio.bucket[c] - 1 ELSE prio.bucket[c],
                       !.waited = w]
    BY <1>0, <1>3, <1>7 DEF Priority_pull
  <2> QED
    BY <1>8, <1>9, <2>1 DEF PrioInv, PrioShape
<1>11. PrioShape'
  BY <1>10 DEF PrioShape
<1>12. PrioTypes'
  <2>1. r \in [QueueNumber -> Seq(Paints)]
    BY <1>5, <1>9 DEF PrioInv, PrioTypes
  <2>2. k + 1 \in 1 .. QueuesNumber + 1
    BY <1>2, QueuesNumbers
  <2>3. b \in [Paints -> Int]
    <3>1. PICK n \in Int : n = IF k + 1 = LongQueue + 1 THEN prio.bucket[c] - 1 ELSE prio.bucket[c]
      BY <1>6
    <3> QED
      BY <1>8, <3>1 DEF PrioInv, PrioTypes
  <2>4. w \in [QueueNumber -> Nat]
    BY <1>7 DEF PrioInv, PrioTypes
  <2> QED
    BY <1>10, <2>1, <2>2, <2>3, <2>4 DEF PrioInv, PrioTypes
<1>13. k + 1 = LongQueue + 1 <=> k = LongQueue
  BY <1>2, QueuesNumbers
<1>14. ASSUME NEW d \in Paints PROVE b[d] = Count(r[LongQueue], d)
  <2>0. prio.bucket[d] = Count(prio.q[LongQueue], d) /\ prio.bucket[d] \in Int
    BY DEF PrioInv, PrioTypes
  <2>1. CASE k = LongQueue
    <3>1. r[LongQueue] = Tail(prio.q[LongQueue])
      BY <1>9, <2>1, QueuesNumbers DEF PrioInv, PrioTypes
    <3>2. Count(Tail(prio.q[LongQueue]), d) = Count(prio.q[LongQueue], d) - (IF c = d THEN 1 ELSE 0)
      BY <1>2, <1>3, <1>4, <2>1, CountTail
    <3>3. b[d] = prio.bucket[d] - (IF c = d THEN 1 ELSE 0)
      BY <1>8, <1>13, <2>0, <2>1 DEF PrioInv, PrioTypes
    <3> QED
      BY <2>0, <3>1, <3>2, <3>3
  <2>2. CASE k # LongQueue
    <3>1. r[LongQueue] = prio.q[LongQueue]
      BY <1>9, <2>2, QueuesNumbers DEF PrioInv, PrioTypes
    <3>2. b[d] = prio.bucket[d]
      BY <1>8, <1>13, <2>2 DEF PrioInv, PrioTypes
    <3> QED
      BY <2>0, <3>1, <3>2
  <2> QED
    BY <2>1, <2>2
<1>15. ASSUME NEW j \in QueueNumber
       PROVE  /\ Len(r[j]) <= prio.highwater[j] /\ prio.highwater[j] <= Capacity(j)
              /\ r[j] = <<>> => w[j] = 0
              /\ w[j] <= Turns(j, k + 1)
  <2>0. /\ Len(prio.q[j]) <= prio.highwater[j] /\ prio.highwater[j] <= Capacity(j)
        /\ prio.q[j] = <<>> => prio.waited[j] = 0
        /\ prio.waited[j] <= Turns(j, prio.pull)
    BY DEF PrioInv
  <2>1. PICK p : p = prio.pull
    OBVIOUS
  <2>2. p \in Int /\ 1 <= p /\ p <= QueuesNumber + 1
    BY <2>1, QueuesNumbers DEF PrioInv, PrioTypes
  <2>3. j \in Int /\ 1 <= j /\ j <= QueuesNumber /\ k \in Int /\ 1 <= k /\ k <= QueuesNumber
    BY <1>2, QueuesNumbers
  <2>4. Turns(j, k + 1) >= 0 /\ Turns(j, k + 1) \in Int
    BY <2>3, QueuesNumbers DEF Turns
  <2>5. prio.waited[j] \in Nat /\ prio.highwater[j] \in Nat /\ prio.q[j] \in Seq(Paints)
    BY DEF PrioInv, PrioTypes
  <2>6. CASE j = k
    <3>1. w[j] = 0
      BY <1>7, <2>6
    <3>2. r[j] = Tail(prio.q[k]) /\ Len(r[j]) = Len(prio.q[j]) - 1
      <4>1. r[j] = Tail(prio.q[k])
        BY <1>2, <1>9, <2>6 DEF PrioInv, PrioTypes
      <4> QED
        BY <1>2, <1>4, <2>6, <4>1
    <3>3. Len(r[j]) <= prio.highwater[j]
      BY <2>0, <2>5, <3>2
    <3> QED
      BY <2>0, <2>4, <3>1, <3>3
  <2>7. CASE j # k /\ prio.q[j] = <<>>
    <3>1. w[j] = 0
      BY <1>7, <2>7
    <3>2. r[j] = prio.q[j]
      BY <1>9, <2>7 DEF PrioInv, PrioTypes
    <3> QED
      BY <2>0, <2>4, <3>1, <3>2
  <2>8. CASE j # k /\ prio.q[j] # <<>>
    <3>1. w[j] = prio.waited[j] + 1
      BY <1>7, <2>8
    <3>2. r[j] = prio.q[j]
      BY <1>9, <2>8 DEF PrioInv, PrioTypes
    <3>3. IF j >= p THEN p <= k /\ k <= j ELSE p <= k \/ k <= j
      BY <1>1, <2>1, <2>8 DEF ServedNext
    <3>4. Turns(j, p) + 1 <= Turns(j, k + 1) /\ Turns(j, p) \in Int
      BY <2>2, <2>3, <2>8, <3>3, QueuesNumbers DEF Turns
    <3>5. w[j] <= Turns(j, k + 1)
      BY <2>0, <2>1, <2>4, <2>5, <3>1, <3>4
    <3> QED
      BY <2>0, <2>8, <3>2, <3>5
  <2> QED
    BY <2>6, <2>7, <2>8
<1>16. /\ prio'.q = r /\ prio'.bucket = b /\ prio'.highwater = prio.highwater
       /\ prio'.waited = w /\ prio'.pull = k + 1
  BY <1>10
<1> QED
  BY <1>11, <1>12, <1>14, <1>15, <1>16 DEF PrioInv


\* A queue of packets numbered up to n.
DataQ(n) == [I : Seq(1 .. n), P : Seq(1 .. n), Q : Seq(1 .. n), drops : Nat, highwater : Nat]
NoVideo(q) == q.I = <<>> /\ q.P = <<>>

LEMMA DataQFacts ==
    ASSUME NEW n \in Nat, NEW q \in DataQ(n)
    PROVE  /\ q = [I |-> q.I, P |-> q.P, Q |-> q.Q, drops |-> q.drops, highwater |-> q.highwater]
           /\ q.I \in Seq(1 .. n) /\ q.P \in Seq(1 .. n) /\ q.Q \in Seq(1 .. n) /\ q.drops \in Nat /\ q.highwater \in Nat
           /\ QueueSize(q) \in Nat /\ (NoVideo(q) => QueueSize(q) = Len(q.Q))
           /\ (QueueSize(q) = 0 => q.I = <<>> /\ q.P = <<>> /\ q.Q = <<>>)
<1>1. /\ q = [I |-> q.I, P |-> q.P, Q |-> q.Q, drops |-> q.drops, highwater |-> q.highwater]
      /\ q.I \in Seq(1 .. n) /\ q.P \in Seq(1 .. n) /\ q.Q \in Seq(1 .. n) /\ q.drops \in Nat /\ q.highwater \in Nat
  BY DEF DataQ
<1>2. Len(q.I) \in Nat /\ Len(q.P) \in Nat /\ Len(q.Q) \in Nat
  BY <1>1
<1>a. PICK i \in Nat, j \in Nat, k \in Nat : i = Len(q.I) /\ j = Len(q.P) /\ k = Len(q.Q)
  BY <1>2
<1>b. QueueSize(q) = i + j + k
  BY <1>a DEF QueueSize
<1>3. QueueSize(q) = 0 => Len(q.I) = 0 /\ Len(q.P) = 0 /\ Len(q.Q) = 0
  <2>1. i + j + k = 0 => i = 0 /\ j = 0 /\ k = 0
    OBVIOUS
  <2> QED
    BY <1>a, <1>b, <2>1, Zenon
<1>4. Len(q.I) = 0 => q.I = <<>>
  BY <1>1
<1>5. Len(q.P) = 0 => q.P = <<>>
  BY <1>1
<1>6. Len(q.Q) = 0 => q.Q = <<>>
  BY <1>1
<1>7. QueueSize(q) \in Nat /\ (NoVideo(q) => QueueSize(q) = Len(q.Q))
  <2>1. NoVideo(q) => i = 0 /\ j = 0
    BY <1>a DEF NoVideo
  <2>2. i + j + k \in Nat /\ (i = 0 /\ j = 0 => i + j + k = k)
    OBVIOUS
  <2> QED
    BY <1>a, <1>b, <2>1, <2>2, Zenon
<1> QED
  BY <1>1, <1>3, <1>4, <1>5, <1>6, <1>7

\* What taking the packet at the front of y leaves.
Shortened(x, y, n) ==
    /\ x \in DataQ(n) /\ QueueSize(x) = QueueSize(y) - 1 /\ x.drops = y.drops
    /\ NoVideo(y) => NoVideo(x) /\ y.Q # <<>> /\ x.Q = Tail(y.Q) /\ front(y) = Head(y.Q)

LEMMA PopShortens ==
    ASSUME NEW n \in Nat, NEW y \in DataQ(n), QueueSize(y) > 0, NEW x, x = pop_front(y)
    PROVE  Shortened(x, y, n)
<1>a. /\ y = [I |-> y.I, P |-> y.P, Q |-> y.Q, drops |-> y.drops, highwater |-> y.highwater]
      /\ y.I \in Seq(1 .. n) /\ y.P \in Seq(1 .. n) /\ y.Q \in Seq(1 .. n) /\ y.drops \in Nat /\ y.highwater \in Nat
      /\ (NoVideo(y) => QueueSize(y) = Len(y.Q))
  BY DataQFacts
<1>b. Len(y.I) \in Nat /\ Len(y.P) \in Nat /\ Len(y.Q) \in Nat
  BY <1>a
<1>c. PICK i \in Nat, j \in Nat, k \in Nat : i = Len(y.I) /\ j = Len(y.P) /\ k = Len(y.Q)
  BY <1>b
<1>d. QueueSize(y) = i + j + k
  BY <1>c DEF QueueSize
<1>1. CASE y.I # <<>>
  <2>1. FirstKind(y) = "I"
    BY <1>1 DEF FirstKind
  <2>2. x = [I |-> Tail(y.I), P |-> y.P, Q |-> y.Q, drops |-> y.drops, highwater |-> y.highwater]
    <3>1. x = [y EXCEPT !["I"] = Tail(y["I"])]
      BY <2>1 DEF pop_front
    <3> QED
      BY <1>a, <3>1
  <2>3. Tail(y.I) \in Seq(1 .. n) /\ Len(Tail(y.I)) = Len(y.I) - 1
    BY <1>a, <1>1
  <2>4. ~NoVideo(y)
    BY <1>1 DEF NoVideo
  <2>5. x \in DataQ(n)
    BY <1>a, <2>2, <2>3 DEF DataQ
  <2>6. QueueSize(x) = QueueSize(y) - 1
    <3>2. x.I = Tail(y.I) /\ x.P = y.P /\ x.Q = y.Q
      BY <2>2
    <3>3. QueueSize(x) = (i - 1) + j + k
      BY <1>c, <2>3, <3>2 DEF QueueSize
    <3> QED
      BY <1>d, <3>3
  <2> QED
    BY <2>2, <2>4, <2>5, <2>6 DEF Shortened
<1>2. CASE y.I = <<>> /\ y.P # <<>>
  <2>1. FirstKind(y) = "P"
    BY <1>2 DEF FirstKind
  <2>2. x = [I |-> y.I, P |-> Tail(y.P), Q |-> y.Q, drops |-> y.drops, highwater |-> y.highwater]
    <3>1. x = [y EXCEPT !["P"] = Tail(y["P"])]
      BY <2>1 DEF pop_front
    <3> QED
      BY <1>a, <3>1
  <2>3. Tail(y.P) \in Seq(1 .. n) /\ Len(Tail(y.P)) = Len(y.P) - 1
    BY <1>a, <1>2
  <2>4. ~NoVideo(y)
    BY <1>2 DEF NoVideo
  <2>5. x \in DataQ(n)
    BY <1>a, <2>2, <2>3 DEF DataQ
  <2>6. QueueSize(x) = QueueSize(y) - 1
    <3>2. x.I = y.I /\ x.P = Tail(y.P) /\ x.Q = y.Q
      BY <2>2
    <3>3. QueueSize(x) = i + (j - 1) + k
      BY <1>c, <2>3, <3>2 DEF QueueSize
    <3> QED
      BY <1>d, <3>3
  <2> QED
    BY <2>2, <2>4, <2>5, <2>6 DEF Shortened
<1>3. CASE y.I = <<>> /\ y.P = <<>>
  <2>1. FirstKind(y) = "Q"
    BY <1>3 DEF FirstKind
  <2>2. x = [I |-> y.I, P |-> y.P, Q |-> Tail(y.Q), drops |-> y.drops, highwater |-> y.highwater]
    <3>1. x = [y EXCEPT !["Q"] = Tail(y["Q"])]
      BY <2>1 DEF pop_front
    <3> QED
      BY <1>a, <3>1
  <2>3. y.Q # <<>>
    <3>1. Len(y.Q) > 0
      BY <1>a, <1>3 DEF NoVideo
    <3> QED
      BY <3>1
  <2>4. Tail(y.Q) \in Seq(1 .. n) /\ Len(Tail(y.Q)) = Len(y.Q) - 1
    BY <1>a, <2>3
  <2>5. x \in DataQ(n)
    BY <1>a, <2>2, <2>4 DEF DataQ
  <2>6. QueueSize(x) = QueueSize(y) - 1
    <3>2. x.I = y.I /\ x.P = y.P /\ x.Q = Tail(y.Q)
      BY <2>2
    <3>3. QueueSize(x) = i + j + (k - 1)
      BY <1>c, <2>4, <3>2 DEF QueueSize
    <3> QED
      BY <1>d, <3>3
  <2>7. front(y) = Head(y.Q)
    <3>1. front(y) = Head(y["Q"])
      BY <2>1 DEF front
    <3> QED
      BY <3>1
  <2> QED
    BY <1>3, <2>2, <2>3, <2>5, <2>6, <2>7 DEF Shortened, NoVideo
<1> QED
  BY <1>1, <1>2, <1>3


\* Popping as many packets as a queue has, or fewer, keeps it a queue.
LEMMA PopsShorten ==
    ASSUME NEW N \in Nat, NEW q \in DataQ(N), NEW n \in Nat, n <= QueueSize(q), NEW x, x = pop_fronts(q, n)
    PROVE  x \in DataQ(N) /\ QueueSize(x) = QueueSize(q) - n /\ x.drops = q.drops /\ (NoVideo(q) => NoVideo(x))
<1> DEFINE Pop(y) == IF QueueSize(y) > 0 THEN pop_front(y) ELSE y
           step == [y \in DataQ(N) \X (1 .. n) |-> Pop(y[1])]
           F(h) == [k \in 0 .. n |-> IF k = 0 THEN q ELSE pop_front(h[k - 1])]
           Fits(y, k) == /\ y \in DataQ(N) /\ QueueSize(y) = QueueSize(q) - k /\ y.drops = q.drops
                         /\ NoVideo(q) => NoVideo(y)
<1>1. QueueSize(q) \in Nat
  BY DataQFacts
<1>2. ASSUME NEW y \in DataQ(N) PROVE Pop(y) \in DataQ(N)
  <2>1. CASE QueueSize(y) > 0
    <3>1. PICK z : z = pop_front(y)
      OBVIOUS
    <3>2. Shortened(z, y, N)
      BY <2>1, <3>1, PopShortens
    <3> QED
      BY <2>1, <3>1, <3>2 DEF Shortened
  <2>2. CASE ~(QueueSize(y) > 0)
    BY <2>2
  <2> QED
    BY <2>1, <2>2
<1>3. ASSUME NEW y, NEW k \in 1 .. n, Fits(y, k - 1)
      PROVE  QueueSize(y) > 0 /\ Fits(pop_front(y), k)
  <2>0. y \in DataQ(N) /\ QueueSize(y) = QueueSize(q) - (k - 1) /\ y.drops = q.drops /\ (NoVideo(q) => NoVideo(y))
    BY <1>3
  <2>1. QueueSize(y) > 0
    BY <1>1, <2>0
  <2>2. PICK z : z = pop_front(y)
    OBVIOUS
  <2>3. Shortened(z, y, N)
    BY <2>0, <2>1, <2>2, PopShortens
  <2>4. z \in DataQ(N) /\ QueueSize(z) = QueueSize(y) - 1 /\ z.drops = y.drops /\ (NoVideo(y) => NoVideo(z))
    BY <2>3 DEF Shortened
  <2>5. QueueSize(z) = QueueSize(q) - k
    BY <1>1, <2>0, <2>4
  <2> QED
    BY <2>0, <2>1, <2>2, <2>4, <2>5
<1> HIDE DEF Pop
<1>4. step \in [DataQ(N) \X (1 .. n) -> DataQ(N)]
  BY <1>2
<1>5. PICK h : Run(DataQ(N), q, n, step, h)
  <2> HIDE DEF step
  <2> QED
    BY <1>4, LoopExists
<1>6. h[0] = q /\ \A k \in 1 .. n : h[k - 1] \in DataQ(N) /\ h[k] = Pop(h[k - 1])
  <2>1. h \in [0 .. n -> DataQ(N)] /\ h[0] = q /\ \A k \in 1 .. n : h[k] = step[<<h[k - 1], k>>]
    BY <1>5 DEF Run
  <2>2. ASSUME NEW k \in 1 .. n PROVE h[k - 1] \in DataQ(N) /\ h[k] = Pop(h[k - 1])
    <3>1. k - 1 \in 0 .. n
      OBVIOUS
    <3>2. h[k - 1] \in DataQ(N)
      BY <2>1, <3>1
    <3>3. <<h[k - 1], k>> \in DataQ(N) \X (1 .. n)
      BY <3>2
    <3>4. h[k] = step[<<h[k - 1], k>>]
      BY <2>1
    <3> QED
      BY <3>2, <3>3, <3>4
  <2> QED
    BY <2>1, <2>2
<1>7. Fits(q, 0)
  BY <1>1
<1> HIDE DEF Fits
<1> DEFINE In == {k \in 0 .. n : Fits(h[k], k)}
<1>8. ASSUME NEW k \in 1 .. n, k - 1 \in In PROVE k \in In /\ h[k] = pop_front(h[k - 1])
  <2>1. Fits(h[k - 1], k - 1)
    BY <1>8
  <2>2. QueueSize(h[k - 1]) > 0 /\ Fits(pop_front(h[k - 1]), k)
    BY <1>3, <2>1
  <2>3. h[k] = pop_front(h[k - 1])
    BY <1>6, <2>2 DEF Pop
  <2> QED
    BY <2>2, <2>3
<1>9. 0 \in In
  BY <1>6, <1>7
<1>10. 0 .. n \subseteq In
  <2> HIDE DEF In
  <2> QED
    BY <1>8, <1>9, UpTo
<1>11. h[0] = q /\ \A k \in 1 .. n : h[k] = pop_front(h[k - 1])
  <2> HIDE DEF In
  <2>1. ASSUME NEW k \in 1 .. n PROVE k - 1 \in In
    BY <1>10
  <2> QED
    BY <1>6, <1>8, <2>1
<1>12. h = F(h)
  <2>1. h \in [0 .. n -> DataQ(N)]
    BY <1>5 DEF Run
  <2> QED
    BY <1>11, <2>1
<1>13. x = (CHOOSE f : f = F(f))[n]
  BY DEF pop_fronts
<1> DEFINE loop == CHOOSE f : f = F(f)
<1>14. loop = F(loop)
  <2> HIDE DEF F
  <2> QED
    BY <1>12
<1> HIDE DEF loop
<1>15. loop[0] = q /\ \A k \in 1 .. n : loop[k] = pop_front(loop[k - 1])
  BY <1>14
<1> DEFINE Out == {k \in 0 .. n : Fits(loop[k], k)}
<1>16. 0 \in Out
  BY <1>7, <1>15
<1>17. ASSUME NEW k \in 1 .. n, k - 1 \in Out PROVE k \in Out
  BY <1>3, <1>15, <1>17
<1> HIDE DEF Out
<1>18. 0 .. n \subseteq Out
  BY <1>16, <1>17, UpTo
<1>19. Fits(x, n)
  BY <1>13, <1>18 DEF Out, loop
<1> QED
  BY <1>19 DEF Fits

\* The parts of the state of DataQueuesMulticast.
Keys == NextHop \cup {"any"}
MQShape ==
    mq = [policy |-> mq.policy, video |-> mq.video, queues |-> mq.queues, pull |-> mq.pull, guard |-> mq.guard,
          lock |-> mq.lock, pushed |-> mq.pushed, fulls |-> mq.fulls, atPeriod |-> mq.atPeriod, wild |-> mq.wild]

\* A queue as the policy lets it be, after `fulls' packets found a full one.
Kept(q, n, policy, video, fulls) ==
    /\ q \in DataQ(n) /\ QueueSize(q) <= MQCapacity /\ q.drops <= Limit(policy) + Dmax + fulls
    /\ ~video => NoVideo(q)

\* The guard is in the queue, behind packets that were there at the period.
Guarded(s, guard, atPeriod) == \E i \in DOMAIN s : s[i] = guard /\ \A j \in 1 .. i : s[j] \in atPeriod

MQInv ==
    /\ MQShape
    /\ mq.policy \in {"MMT", "MMU", "PLAIN"} /\ mq.video \in BOOLEAN /\ mq.pushed \in Nat /\ mq.fulls \in Nat
    /\ mq.queues \in PartialOf(Keys, DataQ(mq.pushed))
    /\ \A n \in DOMAIN mq.queues : Kept(mq.queues[n], mq.pushed, mq.policy, mq.video, mq.fulls)
    /\ ~mq.lock => mq.pull # <<>> /\ mq.pull[1] \in DOMAIN mq.queues
    /\ ~mq.lock /\ ~mq.video => Guarded(mq.queues[mq.pull[1]].Q, mq.guard, mq.atPeriod)
    /\ mq.wild => mq.video

LEMMA LimitType == ASSUME NEW p PROVE p \in {"MMT", "MMU", "PLAIN"} => Limit(p) \in Nat
<1>1. V * Theta \in Nat
  BY QueuesNumbers
<1>2. Limit("MMT") = V /\ Limit("MMU") = V * Theta /\ Limit("PLAIN") = 0
  BY DEF Limit
<1> QED
  BY <1>1, <1>2, QueuesNumbers

LEMMA MQInvSuffices ==
    ASSUME MQInv
    PROVE  /\ MulticastQueuesSound
           /\ \A n \in DOMAIN mq.queues : QueueSize(mq.queues[n]) <= MQCapacity /\ mq.queues[n].drops \in Nat
<1>1. \A n \in DOMAIN mq.queues : QueueSize(mq.queues[n]) <= MQCapacity /\ mq.queues[n].drops \in Nat
  BY DEF MQInv, Kept, DataQ
<1>2. \A n \in DOMAIN mq.queues : mq.queues[n].drops <= Limit(mq.policy) + Dmax + mq.fulls
  BY DEF MQInv, Kept
<1>3. ~mq.lock /\ ~mq.video => Guarded(mq.queues[mq.pull[1]].Q, mq.guard, mq.atPeriod)
  BY DEF MQInv
<1>4. mq.wild => mq.video
  BY DEF MQInv
<1>5. ASSUME ~mq.lock /\ ~mq.video
      PROVE  LET q == mq.queues[mq.pull[1]].Q
             IN  \E i \in DOMAIN q : q[i] = mq.guard /\ \A j \in 1 .. i : q[j] \in mq.atPeriod
  BY <1>3, <1>5, Zenon DEF Guarded
<1> QED
  BY <1>1, <1>2, <1>4, <1>5, Zenon DEF MulticastQueuesSound

LEMMA MQStarts ==
    ASSUME MQInit
    PROVE  MQInv
<1>1. PICK p \in {"MMT", "MMU", "PLAIN"}, v \in BOOLEAN :
         mq = [policy |-> p, video |-> v, queues |-> <<>>, pull |-> <<>>, guard |-> 0,
               lock |-> TRUE, pushed |-> 0, fulls |-> 0, atPeriod |-> {}, wild |-> FALSE]
  BY DEF MQInit
<1>2. MQShape
  BY <1>1 DEF MQShape
<1>3. DOMAIN mq.queues = {} /\ mq.queues = [n \in {} |-> {}]
  BY <1>1
<1>4. mq.queues \in PartialOf(Keys, DataQ(mq.pushed))
  <2>1. mq.queues \in [{} -> DataQ(mq.pushed)]
    BY <1>3
  <2>2. {} \in SUBSET Keys
    OBVIOUS
  <2> QED
    BY <2>1, <2>2 DEF PartialOf
<1> QED
  BY <1>1, <1>2, <1>3, <1>4 DEF MQInv

\* x is a queue of packets up to m with these sequences and drops, of this size.
Holds(x, m, a, b, c, d, size) ==
    x \in DataQ(m) /\ QueueSize(x) = size /\ x.I = a /\ x.P = b /\ x.Q = c /\ x.drops = d

LEMMA QueueOf ==
    ASSUME NEW m \in Nat, NEW a \in Seq(1 .. m), NEW b \in Seq(1 .. m), NEW c \in Seq(1 .. m), NEW d \in Nat, NEW h \in Nat,
           NEW i \in Nat, NEW j \in Nat, NEW k \in Nat, i = Len(a), j = Len(b), k = Len(c),
           NEW x, x = [I |-> a, P |-> b, Q |-> c, drops |-> d, highwater |-> h]
    PROVE  Holds(x, m, a, b, c, d, i + j + k)
<1>1. x.I = a /\ x.P = b /\ x.Q = c /\ x.drops = d
  OBVIOUS
<1>2. x \in DataQ(m)
  BY DEF DataQ
<1>3. QueueSize(x) = i + j + k
  BY <1>1, Zenon DEF QueueSize
<1> QED
  BY <1>1, <1>2, <1>3 DEF Holds

\* x is q with the packet n + 1 at the end of the queue of its kind.
Lengthened(x, q, n, kind) ==
    /\ x \in DataQ(n + 1) /\ QueueSize(x) = QueueSize(q) + 1 /\ x.drops = q.drops
    /\ kind = "Q" => x.Q = Append(q.Q, n + 1) /\ x.I = q.I /\ x.P = q.P
LEMMA PushLengthens ==
    ASSUME NEW n \in Nat, NEW q \in DataQ(n), NEW kind \in {"I", "P", "Q"}, NEW h \in Nat,
           NEW x, x = [push_back(q, kind, n + 1) EXCEPT !.highwater = h]
    PROVE  Lengthened(x, q, n, kind)
<1>1. /\ q = [I |-> q.I, P |-> q.P, Q |-> q.Q, drops |-> q.drops, highwater |-> q.highwater]
      /\ q.I \in Seq(1 .. n) /\ q.P \in Seq(1 .. n) /\ q.Q \in Seq(1 .. n) /\ q.drops \in Nat /\ q.highwater \in Nat
  BY DataQFacts
<1>2. 1 .. n \subseteq 1 .. n + 1 /\ n + 1 \in 1 .. n + 1
  OBVIOUS
<1>3. /\ q.I \in Seq(1 .. n + 1) /\ q.P \in Seq(1 .. n + 1) /\ q.Q \in Seq(1 .. n + 1)
  BY <1>1, <1>2
<1>a. Len(q.I) \in Nat /\ Len(q.P) \in Nat /\ Len(q.Q) \in Nat
  BY <1>1
<1>4. PICK i \in Nat, j \in Nat, k \in Nat : i = Len(q.I) /\ j = Len(q.P) /\ k = Len(q.Q)
  BY <1>a
<1>m. PICK m \in Nat : m = n + 1
  OBVIOUS
<1>5. QueueSize(q) = i + j + k
  BY <1>4 DEF QueueSize
<1>6. CASE kind = "I"
  <2>1. PICK s : s = Append(q.I, n + 1)
    OBVIOUS
  <2>2. x = [I |-> s, P |-> q.P, Q |-> q.Q, drops |-> q.drops, highwater |-> h]
    <3>1. x = [[q EXCEPT !["I"] = Append(q["I"], n + 1)] EXCEPT !.highwater = h]
      BY <1>6 DEF push_back
    <3> QED
      BY <1>1, <2>1, <3>1
  <2>3. s \in Seq(1 .. m) /\ Len(s) = i + 1
    BY <1>2, <1>3, <1>4, <1>m, <2>1
  <2>4. PICK l \in Nat : l = i + 1
    OBVIOUS
  <2>5. Holds(x, m, s, q.P, q.Q, q.drops, l + j + k)
    BY <1>1, <1>3, <1>4, <1>m, <2>2, <2>3, <2>4, QueueOf
  <2>6. l + j + k = (i + j + k) + 1
    BY <2>4
  <2> QED
    BY <1>5, <1>6, <1>m, <2>1, <2>5, <2>6 DEF Holds, Lengthened
<1>7. CASE kind = "P"
  <2>1. PICK s : s = Append(q.P, n + 1)
    OBVIOUS
  <2>2. x = [I |-> q.I, P |-> s, Q |-> q.Q, drops |-> q.drops, highwater |-> h]
    <3>1. x = [[q EXCEPT !["P"] = Append(q["P"], n + 1)] EXCEPT !.highwater = h]
      BY <1>7 DEF push_back
    <3> QED
      BY <1>1, <2>1, <3>1
  <2>3. s \in Seq(1 .. m) /\ Len(s) = j + 1
    BY <1>2, <1>3, <1>4, <1>m, <2>1
  <2>4. PICK l \in Nat : l = j + 1
    OBVIOUS
  <2>5. Holds(x, m, q.I, s, q.Q, q.drops, i + l + k)
    BY <1>1, <1>3, <1>4, <1>m, <2>2, <2>3, <2>4, QueueOf
  <2>6. i + l + k = (i + j + k) + 1
    BY <2>4
  <2> QED
    BY <1>5, <1>7, <1>m, <2>1, <2>5, <2>6 DEF Holds, Lengthened
<1>8. CASE kind = "Q"
  <2>1. PICK s : s = Append(q.Q, n + 1)
    OBVIOUS
  <2>2. x = [I |-> q.I, P |-> q.P, Q |-> s, drops |-> q.drops, highwater |-> h]
    <3>1. x = [[q EXCEPT !["Q"] = Append(q["Q"], n + 1)] EXCEPT !.highwater = h]
      BY <1>8 DEF push_back
    <3> QED
      BY <1>1, <2>1, <3>1
  <2>3. s \in Seq(1 .. m) /\ Len(s) = k + 1
    BY <1>2, <1>3, <1>4, <1>m, <2>1
  <2>4. PICK l \in Nat : l = k + 1
    OBVIOUS
  <2>5. Holds(x, m, q.I, q.P, s, q.drops, i + j + l)
    BY <1>1, <1>3, <1>4, <1>m, <2>2, <2>3, <2>4, QueueOf
  <2>6. i + j + l = (i + j + k) + 1
    BY <2>4
  <2> QED
    BY <1>5, <1>8, <1>m, <2>1, <2>5, <2>6 DEF Holds, Lengthened
<1> QED
  BY <1>6, <1>7, <1>8


LEMMA DataQGrows == ASSUME NEW n \in Nat, NEW m \in Nat, n <= m PROVE DataQ(n) \subseteq DataQ(m)
<1>1. 1 .. n \subseteq 1 .. m
  OBVIOUS
<1>2. Seq(1 .. n) \subseteq Seq(1 .. m)
  BY <1>1
<1> QED
  BY <1>2 DEF DataQ

LEMMA KeptLater ==
    ASSUME NEW n \in Nat, NEW m \in Nat, n <= m, NEW f \in Nat, NEW g \in Nat, f <= g,
           NEW policy \in {"MMT", "MMU", "PLAIN"}, NEW video, NEW q, Kept(q, n, policy, video, f)
    PROVE  Kept(q, m, policy, video, g)
<1>1. q \in DataQ(m)
  BY DataQGrows DEF Kept
<1>2. q.drops \in Nat
  BY <1>1 DEF DataQ
<1>3. Limit(policy) \in Nat /\ Dmax \in Nat
  BY LimitType, QueuesNumbers
<1>4. q.drops <= Limit(policy) + Dmax + f
  BY DEF Kept
<1>5. q.drops <= Limit(policy) + Dmax + g
  <2>1. PICK d \in Nat, l \in Nat, e \in Nat : d = q.drops /\ l = Limit(policy) /\ e = Dmax
    BY <1>2, <1>3
  <2>2. d <= l + e + f
    BY <1>4, <2>1
  <2>3. d <= l + e + g
    BY <2>2
  <2> QED
    BY <2>1, <2>3
<1> QED
  BY <1>1, <1>5 DEF Kept

LEMMA PartialMore ==
    ASSUME NEW K, NEW V1, NEW V2, V1 \subseteq V2, NEW C \in PartialOf(K, V1)
    PROVE  C \in PartialOf(K, V2)
<1>1. PICK D \in SUBSET K : C \in [D -> V1]
  BY DEF PartialOf
<1>2. C \in [D -> V2]
  BY <1>1
<1> QED
  BY <1>2 DEF PartialOf

LEMMA GuardedAppend ==
    ASSUME NEW S, NEW s \in Seq(S), NEW p \in S, NEW g, NEW A, Guarded(s, g, A)
    PROVE  Guarded(Append(s, p), g, A)
<1>1. PICK i \in DOMAIN s : s[i] = g /\ \A j \in 1 .. i : s[j] \in A
  BY DEF Guarded
<1>2. i \in 1 .. Len(s) /\ Len(s) \in Nat
  OBVIOUS
<1>3. \A j \in 1 .. i : Append(s, p)[j] = s[j]
  BY <1>2
<1>4. i \in DOMAIN Append(s, p) /\ Append(s, p)[i] = s[i]
  BY <1>2
<1> QED
  BY <1>1, <1>3, <1>4 DEF Guarded

LEMMA GuardedTail ==
    ASSUME NEW S, NEW s \in Seq(S), s # <<>>, NEW g, Head(s) # g, NEW A, Guarded(s, g, A)
    PROVE  Guarded(Tail(s), g, A)
<1>1. PICK i \in DOMAIN s : s[i] = g /\ \A j \in 1 .. i : s[j] \in A
  BY DEF Guarded
<1>2. i \in 1 .. Len(s) /\ Len(s) \in Nat /\ i # 1
  BY <1>1
<1>3. PICK k \in Nat : k = i - 1
  BY <1>2
<1>4. k \in 1 .. Len(s) - 1 /\ k + 1 = i
  BY <1>2, <1>3
<1>5. \A j \in 1 .. Len(s) - 1 : Tail(s)[j] = s[j + 1]
  OBVIOUS
<1>6. k \in DOMAIN Tail(s)
  BY <1>4
<1>7. Tail(s)[k] = g
  BY <1>1, <1>4, <1>5
<1>8. ASSUME NEW j \in 1 .. k PROVE Tail(s)[j] \in A
  <2>1. j \in 1 .. Len(s) - 1 /\ j + 1 \in 1 .. i
    BY <1>4
  <2> QED
    BY <1>1, <1>5, <2>1
<1> QED
  BY <1>6, <1>7, <1>8 DEF Guarded

\* The queue a packet is pushed to, which may be new.
LEMMA QueueIsKept ==
    ASSUME MQInv, NEW n \in NextHop
    PROVE  Kept(get_queue(n), mq.pushed, mq.policy, mq.video, mq.fulls)
<1>1. CASE QueueKey(n) \in DOMAIN mq.queues
  BY <1>1 DEF MQInv, get_queue
<1>2. CASE QueueKey(n) \notin DOMAIN mq.queues
  <2>0. mq.pushed \in Nat /\ Limit(mq.policy) \in Nat /\ mq.fulls \in Nat
    BY LimitType DEF MQInv
  <2>1. PICK q : q = get_queue(n)
    OBVIOUS
  <2>2. q = [I |-> <<>>, P |-> <<>>, Q |-> <<>>, drops |-> Limit(mq.policy), highwater |-> 0]
    BY <1>2, <2>1 DEF get_queue, NewQueue
  <2>3. <<>> \in Seq(1 .. mq.pushed) /\ Len(<<>>) = 0 /\ 0 + 0 + 0 = 0
    OBVIOUS
  <2>4. Holds(q, mq.pushed, <<>>, <<>>, <<>>, Limit(mq.policy), 0 + 0 + 0)
    BY <2>0, <2>2, <2>3, QueueOf
  <2>5. /\ q \in DataQ(mq.pushed) /\ QueueSize(q) = 0 /\ NoVideo(q) /\ q.drops = Limit(mq.policy)
    BY <2>3, <2>4 DEF Holds, NoVideo
  <2>6. QueueSize(q) <= MQCapacity /\ q.drops <= Limit(mq.policy) + Dmax + mq.fulls
    BY <2>0, <2>5, QueuesNumbers
  <2> QED
    BY <2>1, <2>5, <2>6 DEF Kept
<1> QED
  BY <1>1, <1>2


LEMMA MQPushKeeps ==
    ASSUME MQInv, NEW n \in NextHop, NEW kind \in {"I", "P", "Q"}, MQ_push(n, kind)
    PROVE  MQInv'
<1>1. PICK N \in Nat, f \in Nat : N = mq.pushed /\ f = mq.fulls
  BY DEF MQInv
<1>2. PICK key : key = QueueKey(n)
  OBVIOUS
<1>3. key \in Keys
  BY <1>2 DEF QueueKey, Keys
<1>4. PICK q : q = get_queue(n)
  OBVIOUS
<1>5. Kept(q, N, mq.policy, mq.video, f)
  BY <1>1, <1>4, QueueIsKept
<1>6. PICK kd \in {"I", "P", "Q"} : kd = IF mq.video THEN kind ELSE "Q"
  OBVIOUS
<1>7. PICK stored : stored = push_back(q, kd, N + 1)
  OBVIOUS
<1>8. PICK full \in BOOLEAN : full = (QueueSize(q) = MQCapacity)
  OBVIOUS
<1>9. PICK v : v = IF full THEN [q EXCEPT !.drops = q.drops + 1]
                   ELSE [stored EXCEPT !.highwater = IF QueueSize(stored) > stored.highwater THEN QueueSize(stored) ELSE stored.highwater]
  OBVIOUS
<1>10. PICK g : g = IF full THEN f + 1 ELSE f
  OBVIOUS
<1>11. g \in Nat /\ f <= g /\ (full => g = f + 1)
  BY <1>10
<1>12. PICK R : R = Put(mq.queues, key, v)
  OBVIOUS
<1>13. mq' = [mq EXCEPT !.pushed = N + 1, !.fulls = g, !.queues = R]
  BY <1>1, <1>2, <1>4, <1>6, <1>7, <1>8, <1>9, <1>10, <1>12 DEF MQ_push
<1>14. mq' = [policy |-> mq.policy, video |-> mq.video, queues |-> R, pull |-> mq.pull, guard |-> mq.guard,
          lock |-> mq.lock, pushed |-> N + 1, fulls |-> g, atPeriod |-> mq.atPeriod, wild |-> mq.wild]
  BY <1>13 DEF MQInv, MQShape
<1>15. mq.policy \in {"MMT", "MMU", "PLAIN"} /\ mq.video \in BOOLEAN
  BY DEF MQInv
<1>16. /\ Kept(v, N + 1, mq.policy, mq.video, g)
       /\ ~mq.video => v.Q = q.Q \/ (v.Q = Append(q.Q, N + 1) /\ q.Q \in Seq(1 .. N + 1))
  <2>0. q \in DataQ(N) /\ QueueSize(q) <= MQCapacity /\ q.drops <= Limit(mq.policy) + Dmax + f /\ (~mq.video => NoVideo(q))
    BY <1>5 DEF Kept
  <2>1. /\ q = [I |-> q.I, P |-> q.P, Q |-> q.Q, drops |-> q.drops, highwater |-> q.highwater]
        /\ q.I \in Seq(1 .. N) /\ q.P \in Seq(1 .. N) /\ q.Q \in Seq(1 .. N) /\ q.drops \in Nat /\ q.highwater \in Nat
        /\ QueueSize(q) \in Nat
    BY <2>0, DataQFacts
  <2>2. Limit(mq.policy) \in Nat /\ Dmax \in Nat /\ MQCapacity \in Nat
    BY <1>15, LimitType, QueuesNumbers
  <2>3. CASE full
    <3>1. v = [I |-> q.I, P |-> q.P, Q |-> q.Q, drops |-> q.drops + 1, highwater |-> q.highwater]
      BY <1>9, <2>1, <2>3
    <3>2. v \in DataQ(N)
      BY <2>1, <3>1 DEF DataQ
    <3>3. v \in DataQ(N + 1)
      <4>1. N + 1 \in Nat /\ N <= N + 1
        OBVIOUS
      <4> QED
        BY <3>2, <4>1, DataQGrows
    <3>4. v.I = q.I /\ v.P = q.P /\ v.Q = q.Q /\ v.drops = q.drops + 1
      BY <3>1
    <3>5. QueueSize(v) = QueueSize(q)
      BY <3>4, Zenon DEF QueueSize
    <3>6. v.drops <= Limit(mq.policy) + Dmax + g
      <4>1. PICK d \in Nat, l \in Nat, e \in Nat : d = q.drops /\ l = Limit(mq.policy) /\ e = Dmax
        BY <2>1, <2>2
      <4>2. d <= l + e + f
        BY <2>0, <4>1
      <4>3. d + 1 <= l + e + g
        BY <1>11, <2>3, <4>2
      <4> QED
        BY <3>4, <4>1, <4>3
    <3>7. ~mq.video => NoVideo(v)
      BY <2>0, <3>4 DEF NoVideo
    <3> QED
      BY <2>0, <3>3, <3>4, <3>5, <3>6, <3>7 DEF Kept
  <2>4. CASE ~full
    <3>1. PICK h : h = IF QueueSize(stored) > stored.highwater THEN QueueSize(stored) ELSE stored.highwater
      OBVIOUS
    <3>2. v = [stored EXCEPT !.highwater = h]
      BY <1>9, <2>4, <3>1
    <3>3. stored \in DataQ(N + 1)
      <4>1. PICK x : x = [push_back(q, kd, N + 1) EXCEPT !.highwater = q.highwater]
        OBVIOUS
      <4>2. x \in DataQ(N + 1)
        <5>1. Lengthened(x, q, N, kd)
          BY <2>0, <2>1, <4>1, PushLengthens
        <5> QED
          BY <5>1 DEF Lengthened
      <4>3. stored = x
        <5>1. CASE kd = "I"
          <6>1. stored = [q EXCEPT !["I"] = Append(q["I"], N + 1)]
            BY <1>7, <5>1 DEF push_back
          <6>2. stored = [I |-> Append(q.I, N + 1), P |-> q.P, Q |-> q.Q, drops |-> q.drops, highwater |-> q.highwater]
            BY <2>1, <6>1
          <6> QED
            BY <1>7, <4>1, <6>2
        <5>2. CASE kd = "P"
          <6>1. stored = [q EXCEPT !["P"] = Append(q["P"], N + 1)]
            BY <1>7, <5>2 DEF push_back
          <6>2. stored = [I |-> q.I, P |-> Append(q.P, N + 1), Q |-> q.Q, drops |-> q.drops, highwater |-> q.highwater]
            BY <2>1, <6>1
          <6> QED
            BY <1>7, <4>1, <6>2
        <5>3. CASE kd = "Q"
          <6>1. stored = [q EXCEPT !["Q"] = Append(q["Q"], N + 1)]
            BY <1>7, <5>3 DEF push_back
          <6>2. stored = [I |-> q.I, P |-> q.P, Q |-> Append(q.Q, N + 1), drops |-> q.drops, highwater |-> q.highwater]
            BY <2>1, <6>1
          <6> QED
            BY <1>7, <4>1, <6>2
        <5> QED
          BY <5>1, <5>2, <5>3
      <4> QED
        BY <4>2, <4>3
    <3>4. h \in Nat
      <4>1. N + 1 \in Nat
        OBVIOUS
      <4>2. QueueSize(stored) \in Nat /\ stored.highwater \in Nat
        BY <3>3, <4>1, DataQFacts
      <4> QED
        BY <3>1, <4>2
    <3>5. /\ v \in DataQ(N + 1) /\ QueueSize(v) = QueueSize(q) + 1 /\ v.drops = q.drops
          /\ kd = "Q" => v.Q = Append(q.Q, N + 1) /\ v.I = q.I /\ v.P = q.P
      <4>1. v = [push_back(q, kd, N + 1) EXCEPT !.highwater = h]
        BY <1>7, <3>2
      <4>2. Lengthened(v, q, N, kd)
        BY <2>0, <3>4, <4>1, PushLengthens
      <4> QED
        BY <4>2 DEF Lengthened
    <3>6. QueueSize(v) <= MQCapacity
      <4>1. QueueSize(q) # MQCapacity
        BY <1>8, <2>4
      <4> QED
        BY <2>0, <2>1, <2>2, <3>5, <4>1
    <3>7. v.drops <= Limit(mq.policy) + Dmax + g
      BY <1>10, <2>0, <2>4, <3>5
    <3>8. ~mq.video => NoVideo(v) /\ v.Q = Append(q.Q, N + 1)
      BY <1>6, <2>0, <3>5 DEF NoVideo
    <3>9. q.Q \in Seq(1 .. N + 1)
      <4>1. 1 .. N \subseteq 1 .. N + 1
        OBVIOUS
      <4> QED
        BY <2>1, <4>1
    <3> QED
      BY <3>5, <3>6, <3>7, <3>8, <3>9 DEF Kept
  <2> QED
    BY <2>3, <2>4
<1>17. WithAt(R, mq.queues, key, v, Keys, DataQ(N + 1))
  <2>1. DataQ(N) \subseteq DataQ(N + 1)
    <3>1. N + 1 \in Nat /\ N <= N + 1
      OBVIOUS
    <3> QED
      BY <3>1, DataQGrows
  <2>2. mq.queues \in PartialOf(Keys, DataQ(N + 1))
    BY <1>1, <2>1, PartialMore DEF MQInv
  <2>3. v \in DataQ(N + 1)
    BY <1>16 DEF Kept
  <2> QED
    BY <1>3, <1>12, <2>2, <2>3, PartialPut
<1>18. /\ R \in PartialOf(Keys, DataQ(N + 1)) /\ DOMAIN R = DOMAIN mq.queues \cup {key} /\ R[key] = v
       /\ \A x \in DOMAIN mq.queues : x # key => R[x] = mq.queues[x]
  BY <1>17 DEF WithAt
<1>19. ASSUME NEW x \in DOMAIN R PROVE Kept(R[x], N + 1, mq.policy, mq.video, g)
  <2>1. CASE x = key
    BY <1>16, <1>18, <2>1
  <2>2. CASE x # key
    <3>1. Kept(mq.queues[x], N, mq.policy, mq.video, f) /\ R[x] = mq.queues[x]
      BY <1>1, <1>18, <2>2 DEF MQInv
    <3>2. N + 1 \in Nat /\ N <= N + 1
      OBVIOUS
    <3> QED
      BY <1>11, <1>15, <3>1, <3>2, KeptLater
  <2> QED
    BY <2>1, <2>2
<1>20. ~mq.lock => mq.pull # <<>> /\ mq.pull[1] \in DOMAIN R
  BY <1>18 DEF MQInv
<1>21. ASSUME ~mq.lock /\ ~mq.video PROVE Guarded(R[mq.pull[1]].Q, mq.guard, mq.atPeriod)
  <2>1. PICK u : u = mq.pull[1]
    OBVIOUS
  <2>2. u \in DOMAIN mq.queues /\ Guarded(mq.queues[u].Q, mq.guard, mq.atPeriod)
    BY <1>21, <2>1 DEF MQInv
  <2>3. CASE u # key
    BY <1>18, <2>1, <2>2, <2>3
  <2>4. CASE u = key
    <3>1. q = mq.queues[u]
      BY <1>2, <1>4, <2>2, <2>4 DEF get_queue
    <3>2. CASE v.Q = q.Q
      BY <1>18, <2>1, <2>2, <2>4, <3>1, <3>2
    <3>3. CASE v.Q = Append(q.Q, N + 1) /\ q.Q \in Seq(1 .. N + 1)
      <4>1. N + 1 \in 1 .. N + 1
        OBVIOUS
      <4>2. Guarded(Append(q.Q, N + 1), mq.guard, mq.atPeriod)
        BY <2>2, <3>1, <3>3, <4>1, GuardedAppend
      <4> QED
        BY <1>18, <2>1, <2>4, <3>3, <4>2
    <3> QED
      BY <1>16, <1>21, <3>2, <3>3
  <2> QED
    BY <2>3, <2>4
<1>22. N + 1 \in Nat
  OBVIOUS
<1>23. /\ mq'.policy = mq.policy /\ mq'.video = mq.video /\ mq'.queues = R /\ mq'.pull = mq.pull /\ mq'.guard = mq.guard
       /\ mq'.lock = mq.lock /\ mq'.pushed = N + 1 /\ mq'.fulls = g /\ mq'.atPeriod = mq.atPeriod /\ mq'.wild = mq.wild
  BY <1>14
<1>24. MQShape'
  BY <1>14 DEF MQShape
<1>25. mq'.wild => mq'.video
  BY <1>23 DEF MQInv
<1> QED
  BY <1>11, <1>15, <1>18, <1>19, <1>20, <1>21, <1>22, <1>23, <1>24, <1>25 DEF MQInv


LEMMA MQPullKeeps ==
    ASSUME MQInv, MQ_pull
    PROVE  MQInv'
<1>1. PICK N \in Nat, f \in Nat : N = mq.pushed /\ f = mq.fulls
  BY DEF MQInv
<1>2. PICK u : u = mq.pull[1]
  OBVIOUS
<1>3. ~mq.lock /\ mq.pull # <<>> /\ ~mq.wild /\ u \in DOMAIN mq.queues /\ QueueSize(mq.queues[u]) > 0
  BY <1>2 DEF MQ_pull, MQInv
<1>4. PICK y : y = mq.queues[u]
  OBVIOUS
<1>5. Kept(y, N, mq.policy, mq.video, f) /\ QueueSize(y) > 0
  BY <1>1, <1>3, <1>4 DEF MQInv
<1>6. y \in DataQ(N)
  BY <1>5 DEF Kept
<1>7. PICK x : x = pop_front(y)
  OBVIOUS
<1>8. Shortened(x, y, N)
  BY <1>5, <1>6, <1>7, PopShortens
<1>9. PICK R : R = [mq.queues EXCEPT ![u] = x]
  OBVIOUS
<1>10. PICK l \in BOOLEAN : l = (front(y) = mq.guard)
  OBVIOUS
<1>11. mq' = [policy |-> mq.policy, video |-> mq.video, queues |-> R, pull |-> mq.pull, guard |-> mq.guard,
          lock |-> l, pushed |-> N, fulls |-> f, atPeriod |-> mq.atPeriod, wild |-> mq.wild]
  <2>1. mq' = [mq EXCEPT !.queues[u] = pop_front(mq.queues[u]), !.lock = (front(mq.queues[u]) = mq.guard)]
    BY <1>2 DEF MQ_pull
  <2>2. mq' = [mq EXCEPT !.queues = R, !.lock = l]
    BY <1>4, <1>7, <1>9, <1>10, <2>1 DEF MQInv, MQShape
  <2> QED
    BY <1>1, <2>2 DEF MQInv, MQShape
<1>12. WithAt(R, mq.queues, u, x, Keys, DataQ(N))
  <2>1. mq.queues \in PartialOf(Keys, DataQ(N)) /\ x \in DataQ(N)
    BY <1>1, <1>8 DEF MQInv, Shortened
  <2> QED
    BY <1>3, <1>9, <2>1, PartialExcept
<1>13. /\ R \in PartialOf(Keys, DataQ(N)) /\ DOMAIN R = DOMAIN mq.queues /\ R[u] = x
       /\ \A n \in DOMAIN mq.queues : n # u => R[n] = mq.queues[n]
  BY <1>3, <1>12 DEF WithAt
<1>14. Kept(x, N, mq.policy, mq.video, f)
  <2>1. QueueSize(y) \in Nat /\ MQCapacity \in Nat
    BY <1>6, DataQFacts, QueuesNumbers
  <2>2. QueueSize(x) = QueueSize(y) - 1 /\ QueueSize(y) <= MQCapacity
    BY <1>5, <1>8 DEF Kept, Shortened
  <2>3. QueueSize(x) <= MQCapacity
    BY <2>1, <2>2
  <2> QED
    BY <1>5, <1>8, <2>3 DEF Kept, Shortened
<1>15. ASSUME NEW n \in DOMAIN R PROVE Kept(R[n], N, mq.policy, mq.video, f)
  <2>1. CASE n = u
    BY <1>13, <1>14, <2>1
  <2>2. CASE n # u
    BY <1>1, <1>13, <2>2 DEF MQInv
  <2> QED
    BY <2>1, <2>2
<1>16. ASSUME ~l /\ ~mq.video PROVE Guarded(R[u].Q, mq.guard, mq.atPeriod)
  <2>1. NoVideo(y) /\ Guarded(y.Q, mq.guard, mq.atPeriod)
    BY <1>2, <1>3, <1>4, <1>5, <1>16 DEF MQInv, Kept
  <2>2. y.Q # <<>> /\ x.Q = Tail(y.Q) /\ front(y) = Head(y.Q)
    BY <1>8, <2>1 DEF Shortened
  <2>3. Head(y.Q) # mq.guard
    BY <1>10, <1>16, <2>2
  <2>4. y.Q \in Seq(1 .. N)
    BY <1>6, DataQFacts
  <2>5. Guarded(Tail(y.Q), mq.guard, mq.atPeriod)
    BY <2>1, <2>2, <2>3, <2>4, GuardedTail
  <2> QED
    BY <1>13, <2>2, <2>5
<1>17. /\ mq'.policy = mq.policy /\ mq'.video = mq.video /\ mq'.queues = R /\ mq'.pull = mq.pull /\ mq'.guard = mq.guard
       /\ mq'.lock = l /\ mq'.pushed = N /\ mq'.fulls = f /\ mq'.atPeriod = mq.atPeriod /\ mq'.wild = mq.wild
  BY <1>11
<1>18. MQShape'
  BY <1>11 DEF MQShape
<1>19. mq.policy \in {"MMT", "MMU", "PLAIN"} /\ mq.video \in BOOLEAN
  BY DEF MQInv
<1> QED
  BY <1>2, <1>3, <1>13, <1>15, <1>16, <1>17, <1>18, <1>19 DEF MQInv

\* A queue of which packets are dropped, and drops worked off.
LEMMA TrimmedIsKept ==
    ASSUME NEW N \in Nat, NEW f \in Nat, NEW q, Kept(q, N, mq.policy, mq.video, f), mq.policy \in {"MMT", "MMU", "PLAIN"}
    PROVE  Kept(Trimmed(q), N, mq.policy, mq.video, f)
<1>0. q \in DataQ(N) /\ QueueSize(q) <= MQCapacity /\ q.drops <= Limit(mq.policy) + Dmax + f /\ (~mq.video => NoVideo(q))
  BY DEF Kept
<1>1. PICK s \in Nat, d \in Nat, lim \in Nat, e \in Nat : s = QueueSize(q) /\ d = q.drops /\ lim = Limit(mq.policy) /\ e = Dmax
  <2>1. QueueSize(q) \in Nat /\ q.drops \in Nat
    BY <1>0, DataQFacts
  <2>2. Limit(mq.policy) \in Nat /\ Dmax \in Nat
    BY LimitType, QueuesNumbers
  <2> QED
    BY <2>1, <2>2
<1>2. PICK a, r : a = Added(q) /\ r = Removed(q)
  OBVIOUS
<1>3. a = IF s > d THEN IF s < e THEN s ELSE e ELSE 0
  BY <1>1, <1>2 DEF Added, Lesser
<1>4. r = IF d > lim THEN IF d < e THEN d ELSE e ELSE 0
  BY <1>1, <1>2 DEF Removed, Lesser
<1>5. a \in Nat /\ a <= s
  BY <1>3
<1>6. d <= lim + e + f
  BY <1>0, <1>1
<1>7. PICK t : t = d + a - r
  OBVIOUS
<1>8. t \in Nat /\ t <= lim + e + f
  <2>1. r \in Nat /\ r <= d /\ a <= e
    BY <1>3, <1>4
  <2>2. CASE d > lim /\ ~(d < e)
    BY <1>4, <1>5, <1>6, <1>7, <2>1, <2>2
  <2>3. CASE d > lim /\ d < e
    BY <1>4, <1>5, <1>6, <1>7, <2>1, <2>3
  <2>4. CASE ~(d > lim)
    BY <1>4, <1>5, <1>7, <2>1, <2>4
  <2> QED
    BY <2>2, <2>3, <2>4
<1>9. PICK x : x = pop_fronts(q, a)
  OBVIOUS
<1>10. x \in DataQ(N) /\ QueueSize(x) = s - a /\ (NoVideo(q) => NoVideo(x))
  <2>1. a <= QueueSize(q)
    BY <1>1, <1>5
  <2> QED
    BY <1>0, <1>1, <1>5, <1>9, <2>1, PopsShorten
<1>11. /\ x = [I |-> x.I, P |-> x.P, Q |-> x.Q, drops |-> x.drops, highwater |-> x.highwater]
       /\ x.I \in Seq(1 .. N) /\ x.P \in Seq(1 .. N) /\ x.Q \in Seq(1 .. N) /\ x.highwater \in Nat
  BY <1>10, DataQFacts
<1>12. PICK z : z = Trimmed(q)
  OBVIOUS
<1>13. z = [I |-> x.I, P |-> x.P, Q |-> x.Q, drops |-> t, highwater |-> x.highwater]
  <2>1. z = [x EXCEPT !.drops = t]
    BY <1>1, <1>2, <1>7, <1>9, <1>12 DEF Trimmed
  <2> QED
    BY <1>11, <2>1
<1>14. z \in DataQ(N)
  BY <1>8, <1>11, <1>13 DEF DataQ
<1>15. z.I = x.I /\ z.P = x.P /\ z.Q = x.Q /\ z.drops = t
  BY <1>13
<1>16. QueueSize(z) = QueueSize(x) /\ (NoVideo(x) => NoVideo(z))
  BY <1>15, Zenon DEF QueueSize, NoVideo
<1>17. QueueSize(z) <= MQCapacity
  <2>1. s - a <= s /\ s <= MQCapacity /\ MQCapacity \in Nat
    BY <1>0, <1>1, <1>5, QueuesNumbers
  <2>2. s - a <= MQCapacity
    BY <1>5, <2>1
  <2> QED
    BY <1>10, <1>16, <2>2
<1>18. z.drops <= Limit(mq.policy) + Dmax + f
  BY <1>1, <1>8, <1>15
<1>19. ~mq.video => NoVideo(z)
  BY <1>0, <1>10, <1>16
<1> QED
  BY <1>12, <1>14, <1>17, <1>18, <1>19 DEF Kept

LEMMA NextQueueExists ==
    ASSUME NEW told, NEW u \in next_pull_queue(told)
    PROVE  u = <<>> \/ \E n \in DOMAIN mq.queues : u = <<n>>
<1> DEFINE D == DOMAIN mq.queues
           most == {n \in D : \A m \in D : BacklogDiff(m, told) <= BacklogDiff(n, told)}
           near == {m \in most : BacklogDiff(m, told) >= -1}
<1>1. u \in IF D = {} THEN {<<>>}
        ELSE IF mq.policy = "PLAIN" THEN {<<n>> : n \in D}
        ELSE {<<n>> : n \in near}
             \cup (IF \E n \in D : BacklogDiff(n, told) >= 0 THEN {} ELSE {<<>>})
  BY Zenon DEF next_pull_queue
<1>2. near \subseteq D
  OBVIOUS
<1> HIDE DEF near, D
<1>3. u = <<>> \/ \E n \in D : u = <<n>>
  BY <1>1, <1>2
<1> QED
  BY <1>3 DEF D

LEMMA PeriodKeeps ==
    ASSUME MQInv, MQ_do_periodically
    PROVE  MQInv'
<1>1. PICK N \in Nat, f \in Nat : N = mq.pushed /\ f = mq.fulls
  BY DEF MQInv
<1> DEFINE Q0 == IF mq.policy = "PLAIN" THEN mq.queues ELSE [n \in DOMAIN mq.queues |-> Trimmed(mq.queues[n])]
           some0(v) == v # <<>> /\ (v # <<>> => QueueSize(Q0[v[1]]) > 0)
           guard0(v) == IF some0(v) THEN back(Q0[v[1]]) ELSE 0
           Afterwards(v) == [mq EXCEPT !.queues = Q0, !.pull = v, !.guard = guard0(v), !.lock = ~some0(v),
                                       !.wild = some0(v) /\ guard0(v) = 0,
                                       !.atPeriod = IF some0(v) THEN 1 .. mq.pushed ELSE {}]
<1>2. PICK u \in UNION {next_pull_queue(told) : told \in [NextHop -> [backlog : Backlogs, rate : Rates]]} :
        mq' = Afterwards(u)
  BY Zenon DEF MQ_do_periodically
<1>3. u = <<>> \/ \E n \in DOMAIN mq.queues : u = <<n>>
  <2>1. PICK told \in [NextHop -> [backlog : Backlogs, rate : Rates]] : u \in next_pull_queue(told)
    OBVIOUS
  <2> QED
    BY <2>1, NextQueueExists
<1>4. PICK Q : Q = Q0
  OBVIOUS
<1>5. PICK some \in BOOLEAN : some = (u # <<>> /\ (u # <<>> => QueueSize(Q[u[1]]) > 0))
  OBVIOUS
<1>6. PICK guard : guard = IF some THEN back(Q[u[1]]) ELSE 0
  OBVIOUS
<1>7. PICK A : A = IF some THEN 1 .. mq.pushed ELSE {}
  OBVIOUS
<1>8. PICK w \in BOOLEAN, l \in BOOLEAN : w = (some /\ guard = 0) /\ l = ~some
  OBVIOUS
<1>9. mq' = [mq EXCEPT !.queues = Q, !.pull = u, !.guard = guard, !.lock = l, !.wild = w, !.atPeriod = A]
  <2> HIDE DEF Q0
  <2>1. some0(u) = some
    BY <1>4, <1>5, Zenon
  <2> HIDE DEF some0
  <2>2. guard0(u) = guard
    BY <1>4, <1>6, <2>1, Zenon
  <2> HIDE DEF guard0
  <2> QED
    BY <1>2, <1>4, <1>7, <1>8, <2>1, <2>2, Zenon
<1>10. mq' = [policy |-> mq.policy, video |-> mq.video, queues |-> Q, pull |-> u, guard |-> guard,
          lock |-> l, pushed |-> N, fulls |-> f, atPeriod |-> A, wild |-> w]
  BY <1>1, <1>9 DEF MQInv, MQShape
<1>11. mq.policy \in {"MMT", "MMU", "PLAIN"} /\ mq.video \in BOOLEAN
  BY DEF MQInv
<1>12. DOMAIN Q = DOMAIN mq.queues /\ \A n \in DOMAIN Q : Kept(Q[n], N, mq.policy, mq.video, f)
  <2>1. \A n \in DOMAIN mq.queues : Kept(mq.queues[n], N, mq.policy, mq.video, f)
    BY <1>1 DEF MQInv
  <2>2. CASE mq.policy = "PLAIN"
    BY <1>4, <2>1, <2>2
  <2>3. CASE mq.policy # "PLAIN"
    <3>1. Q = [n \in DOMAIN mq.queues |-> Trimmed(mq.queues[n])]
      BY <1>4, <2>3
    <3>2. ASSUME NEW n \in DOMAIN mq.queues PROVE Kept(Q[n], N, mq.policy, mq.video, f)
      <4>1. Q[n] = Trimmed(mq.queues[n])
        BY <3>1
      <4>2. PICK q : q = mq.queues[n]
        OBVIOUS
      <4>3. Kept(q, N, mq.policy, mq.video, f)
        BY <2>1, <4>2
      <4>4. Kept(Trimmed(q), N, mq.policy, mq.video, f)
        BY <1>11, <4>3, TrimmedIsKept
      <4> QED
        BY <4>1, <4>2, <4>4
    <3> QED
      BY <3>1, <3>2
  <2> QED
    BY <2>2, <2>3
<1>13. Q \in PartialOf(Keys, DataQ(N))
  <2>1. DOMAIN mq.queues \subseteq Keys
    BY PartialFacts DEF MQInv
  <2>2. \A n \in DOMAIN Q : Q[n] \in DataQ(N)
    BY <1>12 DEF Kept
  <2>3. Q = [n \in DOMAIN Q |-> Q[n]]
    <3>1. CASE mq.policy = "PLAIN"
      <4>1. Q = mq.queues /\ mq.queues \in PartialOf(Keys, DataQ(N))
        BY <1>1, <1>4, <3>1 DEF MQInv
      <4>2. PICK D \in SUBSET Keys : Q \in [D -> DataQ(N)]
        BY <4>1 DEF PartialOf
      <4> QED
        BY <4>2
    <3>2. CASE mq.policy # "PLAIN"
      BY <1>4, <3>2
    <3> QED
      BY <3>1, <3>2
  <2>4. Q \in [DOMAIN Q -> DataQ(N)]
    BY <2>2, <2>3
  <2>5. DOMAIN Q \in SUBSET Keys
    BY <1>12, <2>1
  <2> QED
    BY <2>4, <2>5 DEF PartialOf
<1>14. some => u # <<>> /\ u[1] \in DOMAIN Q /\ QueueSize(Q[u[1]]) > 0
  <2>1. some => u # <<>> /\ QueueSize(Q[u[1]]) > 0
    BY <1>5, Zenon
  <2>2. u # <<>> => u[1] \in DOMAIN Q
    BY <1>3, <1>12
  <2> QED
    BY <2>1, <2>2
<1>15. ASSUME some, ~mq.video
       PROVE  guard # 0 /\ Guarded(Q[u[1]].Q, guard, A)
  <2>1. PICK q : q = Q[u[1]]
    OBVIOUS
  <2>2. q \in DataQ(N) /\ QueueSize(q) > 0 /\ NoVideo(q)
    BY <1>12, <1>14, <1>15, <2>1 DEF Kept
  <2>3. q.Q \in Seq(1 .. N) /\ QueueSize(q) = Len(q.Q)
    BY <2>2, DataQFacts
  <2>4. PICK m \in Nat : m = Len(q.Q)
    BY <2>3
  <2>5. m > 0 /\ q.Q # <<>>
    BY <2>2, <2>3, <2>4
  <2>6. guard = q.Q[m]
    BY <1>6, <1>15, <2>1, <2>4, <2>5 DEF back
  <2>7. m \in DOMAIN q.Q /\ q.Q[m] \in 1 .. N /\ \A j \in 1 .. m : q.Q[j] \in 1 .. N
    BY <2>3, <2>4, <2>5
  <2>8. A = 1 .. N
    BY <1>1, <1>7, <1>15
  <2>9. guard # 0
    BY <2>6, <2>7
  <2>10. Guarded(q.Q, guard, A)
    BY <2>6, <2>7, <2>8 DEF Guarded
  <2> QED
    BY <2>1, <2>9, <2>10
<1>16. /\ mq'.policy = mq.policy /\ mq'.video = mq.video /\ mq'.queues = Q /\ mq'.pull = u /\ mq'.guard = guard
       /\ mq'.lock = l /\ mq'.pushed = N /\ mq'.fulls = f /\ mq'.atPeriod = A /\ mq'.wild = w
  BY <1>10
<1>17. MQShape'
  BY <1>10 DEF MQShape
<1>18. w => mq.video
  BY <1>8, <1>15
<1>19. ~l => u # <<>> /\ u[1] \in DOMAIN Q
  BY <1>8, <1>14
<1>20. ~l /\ ~mq.video => Guarded(Q[u[1]].Q, guard, A)
  BY <1>8, <1>15
<1> QED
  BY <1>11, <1>12, <1>13, <1>16, <1>17, <1>18, <1>19, <1>20 DEF MQInv

QueuesInv == PrioInv /\ MQInv

LEMMA QueuesStepKeeps ==
    ASSUME QueuesInv, [PrioNext \/ MQNext]_queueVars
    PROVE  QueuesInv'
<1>1. CASE Priority_run_timer /\ UNCHANGED mq
  <2>1. PrioInv'
    BY <1>1, TimerKeeps DEF QueuesInv
  <2> QED
    BY <1>1, <2>1 DEF QueuesInv, MQInv, MQShape
<1>2. CASE Priority_pull /\ UNCHANGED mq
  <2>1. PrioInv'
    BY <1>2, PullKeeps DEF QueuesInv
  <2> QED
    BY <1>2, <2>1 DEF QueuesInv, MQInv, MQShape
<1>3. ASSUME NEW c \in Paints, Priority_feedback(c) \/ Priority_push(c), UNCHANGED mq PROVE QueuesInv'
  <2>1. PrioInv'
    BY <1>3, FeedbackKeeps, PushKeeps DEF QueuesInv
  <2> QED
    BY <1>3, <2>1 DEF QueuesInv, MQInv, MQShape
<1>4. CASE MQ_do_periodically /\ UNCHANGED prio
  <2>1. MQInv'
    BY <1>4, PeriodKeeps DEF QueuesInv
  <2> QED
    BY <1>4, <2>1 DEF QueuesInv, PrioInv, PrioShape, PrioTypes
<1>5. CASE MQ_pull /\ UNCHANGED prio
  <2>1. MQInv'
    BY <1>5, MQPullKeeps DEF QueuesInv
  <2> QED
    BY <1>5, <2>1 DEF QueuesInv, PrioInv, PrioShape, PrioTypes
<1>6. ASSUME NEW n \in NextHop, NEW kind \in {"I", "P", "Q"}, MQ_push(n, kind), UNCHANGED prio PROVE QueuesInv'
  <2>1. MQInv'
    BY <1>6, MQPushKeeps DEF QueuesInv
  <2> QED
    BY <1>6, <2>1 DEF QueuesInv, PrioInv, PrioShape, PrioTypes
<1>7. ASSUME UNCHANGED queueVars PROVE QueuesInv'
  BY <1>7 DEF QueuesInv, PrioInv, PrioShape, PrioTypes, MQInv, MQShape, queueVars
<1> QED
  BY <1>1, <1>2, <1>3, <1>4, <1>5, <1>6, <1>7 DEF PrioNext, MQNext

\* The bucket of each paint of PriorityQueue counts its packets in the long queue,
\* no queue outgrows its capacity, and every queue with packets is served within
\* QueuesNumber turns; without video DataQueuesMulticast serves only packets that
\* were there when the period began, and its drops stay near their limit: for any
\* paints, goals, queues, capacities, neighbors and weights.
THEOREM QueuesAreSound == QueuesSpec => [](QueuesTypeOK /\ QueuesSound)
<1>1. QueuesInit => QueuesInv
  BY PrioStarts, MQStarts DEF QueuesInit, QueuesInv
<1>2. QueuesInv /\ [PrioNext \/ MQNext]_queueVars => QueuesInv'
  BY QueuesStepKeeps
<1>3. QueuesInv => QueuesTypeOK /\ QueuesSound
  BY PrioInvSuffices, MQInvSuffices DEF QueuesInv, QueuesTypeOK, QueuesSound
<1> QED
  BY <1>1, <1>2, <1>3, PTL DEF QueuesSpec
=============================================================================
