---------------------------- MODULE Frag_proofs -----------------------------
(***************************************************************************)
(* What holds of roofnet/frag for every number of packets, fragments,      *)
(* retries, losses and duplicates, and every size of a frame and of the    *)
(* windows.  FragInv is the inductive invariant: SenderFits is about the   *)
(* tables of FragmentResender (also inside the loop of do_resend()),       *)
(* AirInv about what is on the air, ReceiverInv about the receiver.        *)
(* HeldInv adds what Defragment has of the fragments whose                 *)
(* acknowledgement is on its way, and OnceFits that FragmentDupeFilter     *)
(* remembers them or its window has let them go.                           *)
(***************************************************************************)
EXTENDS Frag, FiniteSetTheorems, SequenceTheorems, Lemmas

-----------------------------------------------------------------------------
(* The ids of fragments and their order.                                   *)

\* What an id consists of; mark_invalid() makes none of them.
LEMMA FragIdFacts ==
    ASSUME NEW id \in FragIds
    PROVE  /\ id = <<id[1], id[2]>> /\ id[1] \in PacketNums /\ id[2] \in FragNums(id[1])
           /\ id[1] \in Nat /\ id[2] \in Nat /\ id # Invalid
<1>1. PICK p \in PacketNums : id \in {p} \X FragNums(p)
  BY DEF FragIds
<1>2. NumPackets \in Nat /\ NumFrags[p] \in Nat
  BY FragAssumption
<1>3. id = <<id[1], id[2]>> /\ id[1] = p /\ id[2] \in FragNums(p)
  BY <1>1
<1>4. id[1] \in Nat /\ id[2] \in Nat
  BY <1>2, <1>3 DEF PacketNums, FragNums
<1> QED
  BY <1>3, <1>4 DEF Invalid

\* The ids of a packet are pairs of its number and those of its fragments.
LEMMA FragIdOf ==
    ASSUME NEW p \in PacketNums, NEW f \in FragNums(p)
    PROVE  <<p, f>> \in FragIds /\ <<p, f>> \in FragsOf(p)
<1>1. <<p, f>> \in {p} \X FragNums(p)
  OBVIOUS
<1> QED
  BY <1>1 DEF FragIds, FragsOf

\* operator<() orders the ids.
LEMMA BeforeOrders ==
    ASSUME NEW a \in FragIds, NEW b \in FragIds
    PROVE  /\ ~Before(a, a) /\ (a # b => Before(a, b) \/ Before(b, a))
           /\ \A c \in FragIds : Before(c, a) /\ Before(a, b) => Before(c, b)
<1>1. \A c \in FragIds : c = <<c[1], c[2]>> /\ c[1] \in Nat /\ c[2] \in Nat
  BY FragIdFacts
<1> QED
  BY <1>1 DEF Before

\* An id that comes first has the smaller place.
LEMMA RankGrows ==
    ASSUME NEW S, S \subseteq FragIds, IsFiniteSet(S), NEW a \in S
    PROVE  /\ Rank(S, a) \in 1 .. Cardinality(S)
           /\ \A b \in S : Before(a, b) => Rank(S, a) < Rank(S, b)
<1> DEFINE Below(b) == {k \in S : Before(k, b)}
           n == Cardinality(S)
<1>1. n \in Nat /\ \A b \in S : IsFiniteSet(Below(b)) /\ Cardinality(Below(b)) \in Nat
  BY FS_Subset, FS_CardinalityType
<1>2. Cardinality(Below(a)) <= n - 1
  <2>1. Below(a) \subseteq S \ {a}
    BY BeforeOrders
  <2>2. IsFiniteSet(S \ {a}) /\ Cardinality(S \ {a}) = n - 1
    BY FS_RemoveElement
  <2> HIDE DEF Below, n
  <2> QED
    BY <2>1, <2>2, FS_Subset
<1>3. ASSUME NEW b \in S, Before(a, b) PROVE Cardinality(Below(a)) < Cardinality(Below(b))
  <2>1. Below(a) \subseteq Below(b) /\ Below(a) # Below(b)
    BY <1>3, BeforeOrders
  <2>2. Cardinality(Below(a)) <= Cardinality(Below(b)) /\ Cardinality(Below(a)) # Cardinality(Below(b))
    <3> HIDE DEF Below
    <3> QED
      BY <1>1, <2>1, FS_Subset
  <2> HIDE DEF Below
  <2> QED
    BY <1>1, <2>2
<1>4. \A b \in S : Rank(S, b) = Cardinality(Below(b)) + 1
  BY DEF Rank
<1> HIDE DEF Below, n
<1>5. Rank(S, a) \in 1 .. n
  BY <1>1, <1>2, <1>4
<1>6. \A b \in S : Before(a, b) => Rank(S, a) < Rank(S, b)
  BY <1>1, <1>3, <1>4
<1> QED
  BY <1>5, <1>6 DEF n

\* Every place is taken by one id.
LEMMA RankOnto ==
    ASSUME NEW S, S \subseteq FragIds, IsFiniteSet(S)
    PROVE  /\ \A r \in 1 .. Cardinality(S) : \E id \in S : Rank(S, id) = r
           /\ \A a, b \in S : Rank(S, a) = Rank(S, b) => a = b
<1> DEFINE n == Cardinality(S)
           P == 1 .. n
           f == [id \in S |-> Rank(S, id)]
<1>1. n \in Nat
  BY FS_CardinalityType
<1>2. \A a, b \in S : Rank(S, a) = Rank(S, b) => a = b
  <2>1. \A a \in S : Rank(S, a) \in P
    BY RankGrows
  <2>2. \A a \in S : Rank(S, a) \in Nat
    <3> HIDE DEF n
    <3> QED
      BY <1>1, <2>1
  <2>3. \A a, b \in S : Before(a, b) => Rank(S, a) < Rank(S, b)
    BY RankGrows
  <2> QED
    BY <2>2, <2>3, BeforeOrders
<1>3. f \in [S -> P]
  BY RankGrows
<1>4. f \in Injection(S, P)
  BY <1>2, <1>3 DEF Injection, IsInjective
<1>5. IsFiniteSet(P) /\ Cardinality(P) = n
  <2> HIDE DEF n
  <2>1. 1 \in Int /\ n \in Int /\ (1 > n => n = 0) /\ n - 1 + 1 = n
    BY <1>1
  <2> QED
    BY <2>1, FS_Interval
<1>6. f \in Surjection(S, P)
  <2> HIDE DEF f, P
  <2> QED
    BY <1>4, <1>5, FS_Injection
<1>7. \A r \in P : \E id \in S : f[id] = r
  <2> HIDE DEF f, P
  <2> QED
    BY <1>6 DEF Surjection
<1> QED
  BY <1>2, <1>7

OutList == Seq(FragIds \cup {Invalid})

\* A list has finitely many ids.
LEMMA IdsFinite ==
    ASSUME NEW T, NEW s \in Seq(T)
    PROVE  IsFiniteSet(Ids(s)) /\ Ids(s) \subseteq T
<1>1. PICK n \in Nat : n = Len(s)
  OBVIOUS
<1> DEFINE A == 1 .. n
           f == [i \in A |-> s[i]]
<1>2. Ids(s) = {s[i] : i \in A} /\ Ids(s) \subseteq T
  BY <1>1 DEF Ids
<1>3. f \in [A -> Ids(s)] /\ \A t \in Ids(s) : \E i \in A : f[i] = t
  BY <1>2
<1>4. f \in Surjection(A, Ids(s))
  <2> HIDE DEF f, A
  <2> QED
    BY <1>3 DEF Surjection
<1>5. IsFiniteSet(A)
  BY FS_Interval
<1> HIDE DEF f, A
<1> QED
  BY <1>2, <1>4, <1>5, FS_Surjection

\* fix() leaves the valid ids of the list and no others.
LEMMA FixedFits ==
    ASSUME NEW s \in OutList
    PROVE  Fixed(s) \in OutList /\ Ids(Fixed(s)) = Ids(s) \ {Invalid} /\ Len(Fixed(s)) \in Nat
<1> DEFINE S == {id \in Ids(s) : Valid(id)}
           n == Cardinality(S)
           at(r) == CHOOSE id \in S : Rank(S, id) = r
<1>1. IsFiniteSet(Ids(s)) /\ Ids(s) \subseteq FragIds \cup {Invalid}
  BY IdsFinite DEF OutList
<1>2. S \subseteq FragIds /\ S = Ids(s) \ {Invalid} /\ IsFiniteSet(S)
  BY <1>1, FS_Subset DEF Valid
<1>3. n \in Nat
  BY <1>2, FS_CardinalityType
<1>4. Fixed(s) = [r \in 1 .. n |-> at(r)]
  BY DEF Fixed
<1> HIDE DEF S
<1>5. \A r \in 1 .. n : at(r) \in S /\ Rank(S, at(r)) = r
  BY <1>2, RankOnto
<1>6. \A id \in S : Rank(S, id) \in 1 .. n /\ at(Rank(S, id)) = id
  <2>1. \A id \in S : Rank(S, id) \in 1 .. n
    BY <1>2, RankGrows
  <2> QED
    BY <1>2, <1>5, <2>1, RankOnto
<1> HIDE DEF n, at
<1>7. Fixed(s) \in [1 .. n -> S]
  BY <1>4, <1>5
<1>8. Fixed(s) \in Seq(S) /\ Len(Fixed(s)) = n
  BY <1>3, <1>7
<1>9. Ids(Fixed(s)) = S
  <2>1. Ids(Fixed(s)) = {Fixed(s)[i] : i \in 1 .. n}
    BY <1>8 DEF Ids
  <2> QED
    BY <2>1, <1>4, <1>5, <1>6
<1>10. Fixed(s) \in OutList
  BY <1>2, <1>8 DEF OutList
<1> QED
  BY <1>2, <1>3, <1>8, <1>9, <1>10 DEF S

-----------------------------------------------------------------------------
(* FragmentResender.                                                       *)

\* NothingForgotten and GivesUpLate of the packets below nx, lv of which are live, when
\* ak is acknowledged, the ids were sent sd times, and out is the list
SenderFits(nx, lv, ak, sd, out) ==
    /\ nx \in 0 .. NumPackets /\ lv \subseteq 0 .. nx - 1 /\ ak \subseteq FragIds
    /\ sd \in [FragIds -> 0 .. MaxRetries + 1] /\ out \in OutList
    /\ \A p \in lv : \A id \in FragsOf(p) : id \in ak \/ id \in Ids(out)
    /\ \A p \in 0 .. nx - 1 : \/ p \in lv \/ FragsOf(p) \subseteq ak
                              \/ \E id \in FragsOf(p) : sd[id] = MaxRetries + 1

\* the variables of the loop of do_resend()
Rnd == [out : OutList, live : SUBSET Nat, sends : [FragIds -> 0 .. MaxRetries + 1],
        frags : Seq(FragIds), change : Nat]

RoundFits(st) ==
    /\ st \in Rnd /\ Len(st.out) = Len(outstanding)
    /\ SenderFits(next, st.live, acked, st.sends, st.out)

\* An id that is marked as invalid is not in the list any more, all others are.
LEMMA InvalidateFits ==
    ASSUME NEW s \in OutList, NEW ids
    PROVE  /\ invalidate(s, ids) \in OutList /\ Len(invalidate(s, ids)) = Len(s)
           /\ \A id \in FragIds : id \in Ids(s) /\ id \notin ids => id \in Ids(invalidate(s, ids))
<1> DEFINE T == FragIds \cup {Invalid}
           n == Len(s)
           t == invalidate(s, ids)
<1>1. n \in Nat /\ \A i \in 1 .. n : s[i] \in T
  BY DEF OutList
<1>2. t = [i \in 1 .. n |-> IF s[i] \in ids THEN Invalid ELSE s[i]]
  BY DEF invalidate
<1>3. t \in [1 .. n -> T]
  BY <1>1, <1>2
<1>4. t \in Seq(T) /\ Len(t) = n
  <2> HIDE DEF t, n, T
  <2> QED
    BY <1>1, <1>3
<1>5. ASSUME NEW id \in FragIds, id \in Ids(s), id \notin ids PROVE id \in Ids(t)
  <2>1. PICK i \in 1 .. n : s[i] = id
    BY <1>5 DEF Ids
  <2>2. t[i] = id /\ i \in 1 .. Len(t)
    BY <1>2, <1>4, <1>5, <2>1
  <2> HIDE DEF t
  <2> QED
    BY <2>2 DEF Ids
<1> QED
  BY <1>4, <1>5 DEF OutList

\* One round of do_resend() forgets nothing and gives nothing up early.
LEMMA RoundKeeps ==
    ASSUME NEW st, RoundFits(st), NEW x \in 0 .. Len(outstanding) - 1,
           resend_index \in Nat, outstanding \in OutList
    PROVE  RoundFits(Round(st, x))
<1> DEFINE n == Len(outstanding)
           k == 1 + ((resend_index + x) % n)
           id == st.out[k]
           p == id[1]
<1>1. st \in Rnd /\ Len(st.out) = n /\ SenderFits(next, st.live, acked, st.sends, st.out)
      /\ n \in Nat /\ st.out \in OutList /\ MaxRetries \in Nat
  BY FragAssumption DEF RoundFits, OutList, Rnd
<1>2. k \in 1 .. n
  <2>1. n \in Nat /\ n > 0 /\ x \in Nat /\ resend_index + x \in Nat
    BY <1>1
  <2> HIDE DEF n
  <2>2. (resend_index + x) % n \in 0 .. n - 1
    BY <2>1
  <2> QED
    BY <2>1, <2>2
<1>3. id \in FragIds \cup {Invalid} /\ id = st.out[1 + ((resend_index + x) % Len(st.out))]
  BY <1>1, <1>2 DEF OutList
<1> HIDE DEF n, k
<1>4. CASE Len(st.frags) = MaxFit
  BY <1>4 DEF Round
<1> DEFINE c == st.change + 1
<1>5. c \in Nat
  BY <1>1 DEF Rnd
<1>6. CASE Len(st.frags) # MaxFit /\ (~Valid(id) \/ p \notin st.live)
  <2>1. Round(st, x) = [st EXCEPT !.change = c]
    BY <1>1, <1>3, <1>6 DEF Round
  <2> HIDE DEF c, id
  <2>2. [st EXCEPT !.change = c] \in Rnd
    BY <1>1, <1>5 DEF Rnd
  <2>3. /\ [st EXCEPT !.change = c].out = st.out /\ [st EXCEPT !.change = c].live = st.live
        /\ [st EXCEPT !.change = c].sends = st.sends
    BY <1>1 DEF Rnd
  <2> QED
    BY <1>1, <2>1, <2>2, <2>3 DEF RoundFits, n
<1>7. CASE Len(st.frags) # MaxFit /\ Valid(id) /\ p \in st.live /\ st.sends[id] > MaxRetries
  <2> DEFINE o == invalidate(st.out, FragsOf(p))
             l == st.live \ {p}
             r == [st EXCEPT !.change = c, !.live = l, !.out = o]
  <2>1. Round(st, x) = r
    BY <1>3, <1>7 DEF Round
  <2>2. id \in FragIds /\ p \in Nat /\ id \in FragsOf(p)
    BY <1>3, <1>7, FragIdFacts DEF Valid, FragsOf
  <2>3. o \in OutList /\ Len(o) = n /\ \A i \in FragIds : i \in Ids(st.out) /\ i \notin FragsOf(p) => i \in Ids(o)
    BY <1>1, InvalidateFits
  <2>4. st.sends[id] = MaxRetries + 1
    <3>1. st.sends[id] \in 0 .. MaxRetries + 1
      BY <1>1, <2>2 DEF Rnd
    <3> QED
      BY <1>1, <1>7, <3>1
  <2>5. l \in SUBSET Nat
    BY <1>1 DEF Rnd
  <2> HIDE DEF c, id, p, o, l
  <2>6. r \in Rnd /\ r.out = o /\ r.live = l /\ r.sends = st.sends
    BY <1>1, <1>5, <2>3, <2>5 DEF Rnd
  <2>7. \A q \in l : \A i \in FragsOf(q) : i \in acked \/ i \in Ids(o)
    <3>1. \A q \in l : q \in st.live /\ q # p /\ \A i \in FragsOf(q) : i \in FragIds /\ i \notin FragsOf(p)
      BY DEF l, FragsOf
    <3> QED
      BY <1>1, <2>3, <3>1 DEF SenderFits
  <2>8. \A q \in 0 .. next - 1 : \/ q \in l \/ FragsOf(q) \subseteq acked
                                 \/ \E i \in FragsOf(q) : st.sends[i] = MaxRetries + 1
    BY <1>1, <2>2, <2>4 DEF SenderFits, l
  <2>9. SenderFits(next, l, acked, st.sends, o)
    BY <1>1, <2>3, <2>7, <2>8 DEF SenderFits, l
  <2> HIDE DEF r
  <2> QED
    BY <2>1, <2>3, <2>6, <2>9 DEF RoundFits, n
<1>8. CASE Len(st.frags) # MaxFit /\ Valid(id) /\ p \in st.live /\ ~(st.sends[id] > MaxRetries)
  <2> DEFINE d == [st.sends EXCEPT ![id] = @ + 1]
             a == Append(st.frags, id)
             r == [st EXCEPT !.change = c, !.sends = d, !.frags = a]
  <2>1. id \in FragIds
    BY <1>3, <1>8 DEF Valid
  <2>2. Round(st, x) = r
    BY <1>1, <1>3, <1>8, <2>1 DEF Round, Rnd
  <2>3. st.sends \in [FragIds -> 0 .. MaxRetries + 1] /\ st.frags \in Seq(FragIds)
    BY <1>1 DEF Rnd
  <2>4. d \in [FragIds -> 0 .. MaxRetries + 1] /\ \A i \in FragIds : st.sends[i] = MaxRetries + 1 => d[i] = MaxRetries + 1
    <3>1. st.sends[id] \in 0 .. MaxRetries + 1 /\ st.sends[id] <= MaxRetries
      BY <1>1, <1>8, <2>1, <2>3
    <3>2. st.sends[id] + 1 \in 0 .. MaxRetries + 1 /\ st.sends[id] # MaxRetries + 1
      BY <1>1, <3>1
    <3> HIDE DEF id, p
    <3> QED
      BY <2>1, <2>3, <3>2
  <2>5. a \in Seq(FragIds)
    <3> HIDE DEF id
    <3> QED
      BY <2>1, <2>3
  <2> HIDE DEF c, id, p, d, a
  <2>6. r \in Rnd /\ r.out = st.out /\ r.live = st.live /\ r.sends = d
    BY <1>1, <1>5, <2>4, <2>5 DEF Rnd
  <2>7. SenderFits(next, st.live, acked, d, st.out)
    <3>1. \A q : \A i \in FragsOf(q) : i \in FragIds
      BY DEF FragsOf
    <3> QED
      BY <1>1, <2>4, <3>1 DEF SenderFits
  <2> HIDE DEF r
  <2> QED
    BY <1>1, <2>2, <2>6, <2>7 DEF RoundFits, n
<1> QED
  BY <1>4, <1>6, <1>7, <1>8, <1>1 DEF RoundFits

\* The loop of do_resend() as a whole.
LEMMA RoundsFit ==
    ASSUME SenderFits(next, live, acked, sends, outstanding), resend_index \in Nat
    PROVE  RoundFits(Rounds[Len(outstanding)])
<1> DEFINE n == Len(outstanding)
           S == {st \in Rnd : RoundFits(st)}
           a == [out |-> outstanding, live |-> live, sends |-> sends, frags |-> <<>>, change |-> 0]
           g == [y \in S \X (1 .. n) |-> Round(y[1], y[2] - 1)]
           F(f) == [x \in 0 .. n |-> IF x = 0 THEN a ELSE Round(f[x - 1], x - 1)]
<1>1. outstanding \in OutList /\ n \in Nat
  BY DEF SenderFits, OutList
<1>2. a \in S
  <2>1. live \in SUBSET Nat
    BY FragAssumption DEF SenderFits
  <2>2. a \in Rnd
    BY <2>1 DEF SenderFits, Rnd
  <2> QED
    BY <2>2 DEF RoundFits
<1>3. ASSUME NEW st \in S, NEW k \in 1 .. n PROVE Round(st, k - 1) \in S
  <2>1. k - 1 \in 0 .. n - 1
    BY <1>1
  <2>2. RoundFits(Round(st, k - 1))
    BY <1>1, <2>1, RoundKeeps
  <2> QED
    BY <2>2 DEF RoundFits
<1>4. g \in [S \X (1 .. n) -> S]
  BY <1>3
<1>5. PICK f : Run(S, a, n, g, f)
  <2> HIDE DEF a, g, n, S
  <2> QED
    BY <1>1, <1>2, <1>4, LoopExists
<1>6. ASSUME NEW k \in 1 .. n PROVE f[k] = Round(f[k - 1], k - 1)
  <2> HIDE DEF S, a
  <2>1. f[k - 1] \in S
    BY <1>1, <1>5 DEF Run
  <2>2. <<f[k - 1], k>> \in S \X (1 .. n)
    BY <2>1
  <2> QED
    BY <1>5, <2>2 DEF Run
<1>7. f = F(f)
  <2> HIDE DEF S, a
  <2> QED
    BY <1>1, <1>5, <1>6 DEF Run
<1>8. Rounds = CHOOSE h : h = F(h)
  BY DEF Rounds
<1>9. Rounds = F(Rounds)
  <2> HIDE DEF F
  <2> QED
    BY <1>7, <1>8
<1>10. /\ Rounds[0] = a
       /\ \A k \in 1 .. n : Rounds[k] = Round(Rounds[k - 1], k - 1)
  <2> HIDE DEF a
  <2> QED
    BY <1>1, <1>9
<1> DEFINE In == {k \in 0 .. n : Rounds[k] \in S}
<1>11. 0 \in In
  BY <1>1, <1>2, <1>10
<1>12. ASSUME NEW k \in 1 .. n, k - 1 \in In PROVE k \in In
  <2> HIDE DEF S
  <2>1. Rounds[k - 1] \in S
    BY <1>12
  <2> QED
    BY <1>1, <1>3, <1>10, <2>1
<1> HIDE DEF In
<1>13. 0 .. n \subseteq In
  BY <1>1, <1>11, <1>12, UpTo
<1>14. n \in In
  BY <1>1, <1>13
<1> QED
  BY <1>14 DEF In

-----------------------------------------------------------------------------
(* The invariant.                                                          *)

\* A frame has the number of fragments of each packet that it has fragments of, but for
\* those that do_resend() has put behind another one.
GoodFrame ==
    {f \in [ackme : BOOLEAN, num : Nat, frags : Seq(FragIds)] :
        \A id \in Ids(f.frags) : f.num = NumFrags[id[1]] \/ id[1] \in misled}

SenderInv ==
    /\ SenderFits(next, live, acked, sends, outstanding)
    /\ resend_index \in Nat /\ resend_limit \in Nat

AirInv == frames \in Seq(GoodFrame) /\ acks \in Seq(SUBSET FragIds)

\* the state of FragmentDupeFilter and Defragment
Reception == [dupes : Seq(FragIds), defrag : [PacketNums -> [num : Nat, got : SUBSET Nat]],
              delivered : Seq([packet : PacketNums, frags : SUBSET Nat]),
              evicted : SUBSET FragIds]

ReceptionFits(st) == st \in Reception /\ \A p \in PacketNums : st.defrag[p].got \subseteq FragNums(p)

reception == [dupes |-> dupes, defrag |-> defrag, delivered |-> delivered, evicted |-> evicted]

ReceiverInv == frags_rx \subseteq FragIds /\ ReceptionFits(reception)

FragInv == SenderInv /\ AirInv /\ ReceiverInv

-----------------------------------------------------------------------------
(* Steps of the sender.                                                    *)

\* A packet that was put behind another one stays one of those.
LEMMA GoodFrameGrows ==
    ASSUME misled \subseteq misled'
    PROVE  GoodFrame \subseteq GoodFrame'
BY DEF GoodFrame

\* A frame that is sent keeps the air as it should be.
LEMMA SendKeeps ==
    ASSUME AirInv, misled \subseteq misled', NEW f \in GoodFrame', frames' = Append(frames, f), acks' = acks
    PROVE  AirInv'
<1> DEFINE G == GoodFrame'
<1>1. GoodFrame \subseteq G /\ frames \in Seq(GoodFrame) /\ f \in G
  BY GoodFrameGrows DEF AirInv
<1> HIDE DEF G
<1>2. Append(frames, f) \in Seq(G)
  BY <1>1
<1> QED
  BY <1>2 DEF AirInv, G

\* What is on the air stays as it should be when no packet is put behind another one.
LEMMA AirKept ==
    ASSUME misled' = misled, frames' \in Seq(GoodFrame), acks' \in Seq(SUBSET FragIds)
    PROVE  AirInv'
<1>1. GoodFrame' = GoodFrame
  BY DEF GoodFrame
<1> QED
  BY <1>1 DEF AirInv

\* The sender that sends fragments again keeps the invariant.
LEMMA PullResendStep ==
    ASSUME FragInv, PullResend
    PROVE  FragInv'
<1> DEFINE end == Rounds[Len(outstanding)]
           num == IF end.frags = <<>> THEN 0 ELSE NumFrags[end.frags[1][1]]
           f == Frame(FALSE, num, end.frags)
<1>1. RoundFits(end)
  BY RoundsFit DEF FragInv, SenderInv
<1>2. /\ outstanding' = end.out /\ live' = end.live /\ sends' = end.sends
      /\ resend_index' = resend_index + end.change /\ frames' = Append(frames, f)
      /\ next' = next /\ acked' = acked /\ resend_limit' = resend_limit /\ acks' = acks
      /\ misled' = misled \cup {p \in {id[1] : id \in Ids(end.frags)} : NumFrags[p] # num}
      /\ UNCHANGED receiver
  BY DEF PullResend, do_resend
<1> HIDE DEF end
<1>3. end.frags \in Seq(FragIds) /\ end.change \in Nat /\ SenderFits(next, end.live, acked, end.sends, end.out)
  BY <1>1 DEF RoundFits, Rnd
<1>4. SenderInv'
  <2>1. SenderFits(next', live', acked', sends', outstanding')
    BY <1>2, <1>3
  <2> QED
    BY <1>2, <1>3, <2>1 DEF FragInv, SenderInv
<1>5. f \in GoodFrame'
  <2>1. num \in Nat
    <3>1. ASSUME end.frags # <<>> PROVE end.frags[1][1] \in PacketNums
      <4>1. end.frags[1] \in FragIds
        BY <1>3, <3>1
      <4> QED
        BY <4>1, FragIdFacts
    <3> QED
      BY <3>1, FragAssumption
  <2> HIDE DEF num
  <2>2. \A id \in Ids(end.frags) : num = NumFrags[id[1]] \/ id[1] \in misled'
    BY <1>2
  <2> QED
    BY <1>3, <2>1, <2>2 DEF GoodFrame, Frame
<1>6. AirInv'
  <2>1. misled \subseteq misled'
    BY <1>2
  <2> HIDE DEF f
  <2> QED
    BY <1>2, <1>5, <2>1, SendKeeps DEF FragInv
<1> QED
  BY <1>2, <1>4, <1>6 DEF FragInv, receiver, ReceiverInv, reception

\* The sender that sends a new packet keeps the invariant.
LEMMA PullNewStep ==
    ASSUME FragInv, PullNew
    PROVE  FragInv'
<1> DEFINE s == FragSeq(next)
           m == NumFrags[next]
           out == outstanding \o s
           sd == [id \in FragIds |-> IF id[1] = next THEN 1 ELSE sends[id]]
           T == FragIds \cup {Invalid}
<1>1. /\ next < NumPackets /\ next' = next + 1 /\ live' = live \cup {next} /\ acked' = acked
      /\ sends' = sd /\ outstanding' = out /\ frames' = Append(frames, Frame(FALSE, m, s))
      /\ acks' = acks /\ resend_index' = resend_index /\ resend_limit' = resend_limit
      /\ misled' = misled /\ UNCHANGED receiver
  BY DEF PullNew
<1>2. SenderFits(next, live, acked, sends, outstanding) /\ next \in Nat /\ next \in PacketNums
      /\ NumPackets \in Nat /\ MaxRetries \in Nat /\ m \in Nat \ {0}
  <2>1. SenderFits(next, live, acked, sends, outstanding) /\ NumPackets \in Nat /\ MaxRetries \in Nat
    BY FragAssumption DEF FragInv, SenderInv
  <2>2. next \in 0 .. NumPackets
    BY <2>1 DEF SenderFits
  <2>3. next \in Nat /\ next \in 0 .. NumPackets - 1
    BY <1>1, <2>1, <2>2
  <2>4. m \in Nat \ {0}
    BY <2>3, FragAssumption DEF PacketNums
  <2> QED
    BY <2>1, <2>3, <2>4 DEF PacketNums
<1>3. s \in Seq(FragIds) /\ Len(s) = m /\ (\A id \in FragsOf(next) : id \in Ids(s))
      /\ \A id \in Ids(s) : id[1] = next
  <2>1. s = [i \in 1 .. m |-> <<next, i - 1>>]
    BY DEF FragSeq
  <2>2. \A i \in 1 .. m : <<next, i - 1>> \in FragIds
    <3>1. \A i \in 1 .. m : i - 1 \in FragNums(next)
      <4> HIDE DEF s
      <4> QED
        BY <1>2 DEF FragNums
    <3> QED
      BY <1>2, <3>1, FragIdOf
  <2> HIDE DEF s, m
  <2>3. s \in [1 .. m -> FragIds]
    BY <2>1, <2>2
  <2>4. s \in Seq(FragIds) /\ Len(s) = m
    BY <1>2, <2>3
  <2>5. ASSUME NEW id \in FragsOf(next) PROVE id \in Ids(s)
    <3>1. id = <<next, id[2]>> /\ id[2] \in FragNums(next)
      BY <2>5, FragIdFacts DEF FragsOf
    <3>2. id[2] + 1 \in 1 .. m /\ id[2] \in Nat
      BY <1>2, <3>1 DEF FragNums, m
    <3>3. s[id[2] + 1] = id
      BY <2>1, <3>1, <3>2
    <3> QED
      BY <2>4, <3>2, <3>3 DEF Ids
  <2>6. ASSUME NEW id \in Ids(s) PROVE id[1] = next
    <3>1. PICK i \in 1 .. m : id = s[i]
      BY <2>4 DEF Ids
    <3>2. s[i] = <<next, i - 1>>
      BY <2>1
    <3> QED
      BY <3>1, <3>2
  <2> QED
    BY <2>4, <2>5, <2>6
<1> HIDE DEF s
<1>4. out \in OutList /\ \A id : id \in Ids(outstanding) \/ id \in Ids(s) => id \in Ids(out)
  <2>1. outstanding \in Seq(T) /\ s \in Seq(T)
    BY <1>2, <1>3 DEF SenderFits, OutList
  <2> DEFINE a == Len(outstanding)
             b == Len(s)
  <2> HIDE DEF T
  <2>2. a \in Nat /\ b \in Nat
    BY <2>1
  <2>3. out \in Seq(T) /\ Len(out) = a + b
    BY <2>1, ConcatProperties
  <2>4. \A i \in 1 .. a + b : out[i] = IF i <= a THEN outstanding[i] ELSE s[i - a]
    BY <2>1, ConcatProperties
  <2> HIDE DEF out
  <2>5. ASSUME NEW id, id \in Ids(outstanding) PROVE id \in Ids(out)
    <3>1. PICK i \in 1 .. a : outstanding[i] = id
      BY <2>5 DEF Ids
    <3> HIDE DEF a, b
    <3>2. i \in 1 .. a + b /\ out[i] = id
      BY <2>2, <2>4, <3>1
    <3> QED
      BY <2>3, <3>2 DEF Ids
  <2>6. ASSUME NEW id, id \in Ids(s) PROVE id \in Ids(out)
    <3>1. PICK i \in 1 .. b : s[i] = id
      BY <2>6 DEF Ids
    <3> HIDE DEF a, b
    <3> DEFINE j == a + i
    <3>2. j \in 1 .. a + b /\ ~(j <= a) /\ j - a = i
      BY <2>2, <3>1
    <3> HIDE DEF j
    <3>3. out[j] = s[j - a]
      BY <2>4, <3>2
    <3>4. out[j] = id
      BY <3>1, <3>2, <3>3
    <3> QED
      BY <2>3, <3>2, <3>4 DEF Ids
  <2> QED
    BY <2>3, <2>5, <2>6 DEF OutList, T
<1> HIDE DEF out
<1>5. sd \in [FragIds -> 0 .. MaxRetries + 1] /\ \A id \in FragIds : id[1] # next => sd[id] = sends[id]
  <2>1. sends \in [FragIds -> 0 .. MaxRetries + 1] /\ 1 \in 0 .. MaxRetries + 1
    BY <1>2 DEF SenderFits
  <2> QED
    BY <2>1
<1> HIDE DEF sd
<1>6. SenderFits(next + 1, live \cup {next}, acked, sd, out)
  <2> DEFINE nx == next + 1
  <2>1. nx \in 0 .. NumPackets /\ nx - 1 = next /\ next \in 0 .. next /\ 0 .. next - 1 \subseteq 0 .. next
        /\ \A q \in 0 .. nx - 1 : q = next \/ q \in 0 .. next - 1
    BY <1>1, <1>2
  <2>2. \A q \in live \cup {next} : \A id \in FragsOf(q) : id \in acked \/ id \in Ids(out)
    BY <1>2, <1>3, <1>4 DEF SenderFits
  <2>3. ASSUME NEW q \in 0 .. nx - 1
        PROVE \/ q \in live \cup {next} \/ FragsOf(q) \subseteq acked
              \/ \E id \in FragsOf(q) : sd[id] = MaxRetries + 1
    <3>1. CASE q = next
      BY <3>1
    <3>2. CASE q # next
      <4>1. q \in 0 .. next - 1 /\ \A id \in FragsOf(q) : id \in FragIds /\ id[1] # next
        BY <2>1, <3>2 DEF FragsOf
      <4> QED
        BY <1>2, <1>5, <4>1 DEF SenderFits
    <3> QED
      BY <3>1, <3>2
  <2>4. live \cup {next} \subseteq 0 .. nx - 1 /\ acked \subseteq FragIds
    BY <1>2, <2>1 DEF SenderFits
  <2> HIDE DEF nx
  <2>5. SenderFits(nx, live \cup {next}, acked, sd, out)
    BY <1>4, <1>5, <2>1, <2>2, <2>3, <2>4 DEF SenderFits
  <2> QED
    BY <2>5 DEF nx
<1>7. SenderInv'
  BY <1>1, <1>6 DEF FragInv, SenderInv
<1>8. Frame(FALSE, m, s) \in GoodFrame'
  BY <1>2, <1>3 DEF GoodFrame, Frame
<1>9. AirInv'
  <2> HIDE DEF m
  <2> QED
    BY <1>1, <1>8, SendKeeps DEF FragInv
<1> QED
  BY <1>1, <1>7, <1>9 DEF FragInv, receiver, ReceiverInv, reception

\* fix() keeps what the sender must not forget.
LEMMA FixKeeps ==
    ASSUME NEW nx, NEW lv, NEW ak, NEW sd, NEW s \in OutList, SenderFits(nx, lv, ak, sd, s)
    PROVE  SenderFits(nx, lv, ak, sd, Fixed(s)) /\ Len(Fixed(s)) \in Nat
<1>1. Fixed(s) \in OutList /\ Ids(Fixed(s)) = Ids(s) \ {Invalid} /\ Len(Fixed(s)) \in Nat
  BY FixedFits
<1>2. \A p : \A id \in FragsOf(p) : id # Invalid
  BY FragIdFacts DEF FragsOf
<1> QED
  BY <1>1, <1>2 DEF SenderFits

\* A request for acknowledgements keeps the invariant.
LEMMA PullAckRequestStep ==
    ASSUME FragInv, PullAckRequest
    PROVE  FragInv'
<1>1. /\ next' = next /\ live' = live /\ acked' = acked /\ sends' = sends /\ acks' = acks
      /\ misled' = misled /\ UNCHANGED receiver /\ ack_request
  BY DEF PullAckRequest
<1>2. SenderFits(next, live, acked, sends, outstanding) /\ outstanding \in OutList
      /\ resend_index \in Nat /\ resend_limit \in Nat
      /\ frames \in Seq(GoodFrame) /\ acks \in Seq(SUBSET FragIds)
  BY DEF FragInv, SenderInv, SenderFits, AirInv
<1>3. CASE UNCHANGED <<outstanding, resend_index, resend_limit, frames>>
  <2>1. AirInv'
    BY <1>1, <1>2, <1>3, AirKept
  <2> QED
    BY <1>1, <1>2, <1>3, <2>1 DEF FragInv, SenderInv, ReceiverInv, receiver, reception
<1>4. CASE frames' = Append(frames, Frame(TRUE, 0, <<>>)) /\ UNCHANGED <<outstanding, resend_index, resend_limit>>
  <2>1. Frame(TRUE, 0, <<>>) \in GoodFrame'
    BY DEF Frame, GoodFrame, Ids
  <2>2. AirInv'
    BY <1>1, <1>4, <2>1, SendKeeps DEF FragInv
  <2> QED
    BY <1>1, <1>2, <1>4, <2>2 DEF FragInv, SenderInv, ReceiverInv, receiver, reception
<1>5. CASE fix(outstanding) /\ UNCHANGED frames
  <2>1. SenderFits(next, live, acked, sends, Fixed(outstanding)) /\ Len(Fixed(outstanding)) \in Nat
    BY <1>2, FixKeeps
  <2>2. SenderInv'
    BY <1>1, <1>5, <2>1 DEF SenderInv, fix
  <2>3. AirInv'
    BY <1>1, <1>2, <1>5, AirKept
  <2> QED
    BY <1>1, <2>2, <2>3 DEF FragInv, ReceiverInv, receiver, reception
<1> QED
  BY <1>1, <1>3, <1>4, <1>5 DEF ack_request

\* An acknowledgement removes only fragments that it names, and packets all
\* fragments of which are acknowledged.
LEMMA ProcessAckStep ==
    ASSUME FragInv, process_ack
    PROVE  FragInv'
<1> DEFINE a == Head(acks)
           known == {id \in a : id[1] \in live}
           ak == acked \cup known
           gone == {id[1] : id \in {k \in known : Done(k[1], ak)}}
           lv == live \ gone
           out == invalidate(outstanding, a)
<1>1. /\ acked' = ak /\ live' = lv /\ fix(out) /\ acks # <<>> /\ acks' = Tail(acks)
      /\ next' = next /\ sends' = sends /\ frames' = frames /\ misled' = misled /\ UNCHANGED receiver
  BY DEF process_ack
<1>2. SenderFits(next, live, acked, sends, outstanding) /\ outstanding \in OutList
      /\ acks \in Seq(SUBSET FragIds) /\ frames \in Seq(GoodFrame)
  BY DEF FragInv, SenderInv, SenderFits, AirInv
<1>3. a \subseteq FragIds /\ Tail(acks) \in Seq(SUBSET FragIds)
  BY <1>1, <1>2
<1> HIDE DEF a
<1>4. out \in OutList /\ \A id \in FragIds : id \in Ids(outstanding) /\ id \notin a => id \in Ids(out)
  BY <1>2, InvalidateFits
<1> HIDE DEF out
<1>5. SenderFits(next, lv, ak, sends, out)
  <2>1. lv \subseteq live /\ acked \subseteq ak /\ ak \subseteq FragIds
    BY <1>2, <1>3 DEF SenderFits
  <2>2. ASSUME NEW p \in lv, NEW id \in FragsOf(p) PROVE id \in ak \/ id \in Ids(out)
    <3>1. id \in FragIds /\ id[1] = p /\ p \in live
      BY <2>1 DEF FragsOf
    <3>2. id \in acked \/ id \in Ids(outstanding)
      BY <1>2, <3>1 DEF SenderFits
    <3> QED
      BY <1>4, <3>1, <3>2
  <2>3. ASSUME NEW p \in 0 .. next - 1
        PROVE  \/ p \in lv \/ FragsOf(p) \subseteq ak \/ \E id \in FragsOf(p) : sends[id] = MaxRetries + 1
    <3>1. CASE p \in gone
      <4>1. Done(p, ak)
        BY <3>1
      <4> QED
        BY <4>1 DEF Done
    <3>2. CASE p \notin gone
      BY <1>2, <2>1, <3>2 DEF SenderFits
    <3> QED
      BY <3>1, <3>2
  <2> HIDE DEF lv, ak
  <2>4. lv \subseteq 0 .. next - 1
    BY <1>2, <2>1 DEF SenderFits
  <2> QED
    BY <1>2, <1>4, <2>1, <2>2, <2>3, <2>4 DEF SenderFits
<1> HIDE DEF lv, ak
<1>6. SenderFits(next, lv, ak, sends, Fixed(out)) /\ Len(Fixed(out)) \in Nat
  BY <1>4, <1>5, FixKeeps
<1>7. SenderInv'
  BY <1>1, <1>6 DEF SenderInv, fix
<1>8. AirInv'
  BY <1>1, <1>2, <1>3, AirKept
<1> QED
  BY <1>1, <1>7, <1>8 DEF FragInv, ReceiverInv, receiver, reception

-----------------------------------------------------------------------------
(* Steps of the receiver.                                                  *)

Entry == [num : Nat, got : SUBSET Nat]

\* The window of FragmentDupeFilter has ids that were seen.
LEMMA LastFits ==
    ASSUME NEW T, NEW s \in Seq(T), NEW n \in Nat
    PROVE  Last(s, n) \in Seq(T)
<1>1. Len(s) \in Nat
  OBVIOUS
<1>2. CASE Len(s) <= n
  BY <1>2 DEF Last
<1>3. CASE ~(Len(s) <= n)
  <2> DEFINE a == Len(s) - n + 1
             b == Len(s)
  <2>1. a \in 1 .. b + 1 /\ b \in Nat
    BY <1>1, <1>3
  <2>2. \A i \in a .. b : i \in 1 .. Len(s)
    BY <1>1, <1>3
  <2> HIDE DEF a, b
  <2>3. SubSeq(s, a, b) \in Seq(T)
    BY <2>1, <2>2, SubSeqProperties DEF b
  <2> QED
    BY <1>3, <2>3 DEF Last, a, b
<1> QED
  BY <1>2, <1>3

\* What FragmentDupeFilter and Defragment make of a fragment: it is a duplicate, or it
\* enters the window, and belongs to no packet or is kept or completes one.
AcceptCase(st, id, num, new) ==
    LET p      == id[1]
        entry  == IF st.defrag[p] = NoEntry THEN [num |-> num, got |-> {}] ELSE st.defrag[p]
        whole  == [entry EXCEPT !.got = @ \cup {id[2]}]
        seen   == Last(Append(st.dupes, id), DupeWindow)
        gone   == st.evicted \cup ((Ids(st.dupes) \cup {id}) \ Ids(seen))
        record == [packet |-> p, frags |-> whole.got]
        To(e, l) == [st EXCEPT !.dupes = seen, !.evicted = gone, !.defrag[p] = e, !.delivered = l]
    IN  \/ id \in Ids(st.dupes) /\ new = st
        \/ /\ id \notin Ids(st.dupes) /\ (id[2] >= entry.num \/ id[2] \in entry.got)
           /\ new = To(entry, st.delivered)
        \/ id \notin Ids(st.dupes) /\ new = To(whole, st.delivered)
        \/ /\ id \notin Ids(st.dupes) /\ Cardinality(whole.got) = whole.num
           /\ new = To(NoEntry, Append(st.delivered, record))

\* FragmentDupeFilter and Defragment do one of these with each fragment.
LEMMA AcceptCases ==
    ASSUME NEW st, st \in Reception, NEW id \in FragIds, NEW num
    PROVE  AcceptCase(st, id, num, Accept(st, id, num))
<1> DEFINE p == id[1]
           entry == IF st.defrag[p] = NoEntry THEN [num |-> num, got |-> {}] ELSE st.defrag[p]
           whole == [entry EXCEPT !.got = @ \cup {id[2]}]
           seen == Last(Append(st.dupes, id), DupeWindow)
           gone == st.evicted \cup ((Ids(st.dupes) \cup {id}) \ Ids(seen))
           record == [packet |-> p, frags |-> whole.got]
           filter == Filter(st, id)
<1>1. filter = [st EXCEPT !.dupes = seen, !.evicted = gone]
  BY DEF Filter
<1>2. \/ id \in Ids(st.dupes) /\ Accept(st, id, num) = st
      \/ /\ id \notin Ids(st.dupes) /\ (id[2] >= entry.num \/ id[2] \in entry.got)
         /\ Accept(st, id, num) = [filter EXCEPT !.defrag[p] = entry]
      \/ id \notin Ids(st.dupes) /\ Accept(st, id, num) = [filter EXCEPT !.defrag[p] = whole]
      \/ /\ id \notin Ids(st.dupes) /\ Cardinality(whole.got) = whole.num
         /\ Accept(st, id, num) = [filter EXCEPT !.defrag[p] = NoEntry, !.delivered = Append(@, record)]
  BY DEF Accept
<1> HIDE DEF filter, entry, whole, seen, gone, record, p
<1>3. \A e : [filter EXCEPT !.defrag[p] = e]
             = [st EXCEPT !.dupes = seen, !.evicted = gone, !.defrag[p] = e, !.delivered = st.delivered]
  BY <1>1 DEF Reception
<1>4. [filter EXCEPT !.defrag[p] = NoEntry, !.delivered = Append(@, record)]
      = [st EXCEPT !.dupes = seen, !.evicted = gone, !.defrag[p] = NoEntry,
                   !.delivered = Append(st.delivered, record)]
  BY <1>1 DEF Reception
<1> QED
  BY <1>2, <1>3, <1>4 DEF AcceptCase, entry, whole, seen, gone, record, p

\* One fragment at FragmentDupeFilter and Defragment.
LEMMA AcceptKeeps ==
    ASSUME NEW st, ReceptionFits(st), NEW id \in FragIds, NEW num \in Nat
    PROVE  ReceptionFits(Accept(st, id, num))
<1> DEFINE p == id[1]
           entry == IF st.defrag[p] = NoEntry THEN [num |-> num, got |-> {}] ELSE st.defrag[p]
           whole == [entry EXCEPT !.got = @ \cup {id[2]}]
           seen == Last(Append(st.dupes, id), DupeWindow)
           gone == st.evicted \cup ((Ids(st.dupes) \cup {id}) \ Ids(seen))
           record == [packet |-> p, frags |-> whole.got]
           Packets == [packet : PacketNums, frags : SUBSET Nat]
<1>1. st \in Reception /\ \A q \in PacketNums : st.defrag[q].got \subseteq FragNums(q)
  BY DEF ReceptionFits
<1>2. p \in PacketNums /\ id[2] \in FragNums(p) /\ id[2] \in Nat
  BY FragIdFacts
<1>3. st.dupes \in Seq(FragIds) /\ st.defrag \in [PacketNums -> Entry] /\ st.delivered \in Seq(Packets)
  BY <1>1 DEF Reception, Entry
<1>4. entry \in Entry /\ entry.got \subseteq FragNums(p)
  <2>1. st.defrag[p] \in Entry
    BY <1>2, <1>3
  <2> QED
    BY <1>1, <1>2, <2>1 DEF Entry
<1> HIDE DEF entry
<1>5. whole \in Entry /\ whole.got \subseteq FragNums(p)
  BY <1>2, <1>4 DEF Entry
<1> HIDE DEF whole
<1>6. seen \in Seq(FragIds)
  <2>1. Append(st.dupes, id) \in Seq(FragIds) /\ DupeWindow \in Nat
    BY <1>3, FragAssumption
  <2> QED
    BY <2>1, LastFits
<1>7. Append(st.delivered, record) \in Seq(Packets)
  <2>1. record \in Packets
    BY <1>2, <1>5 DEF Entry
  <2> HIDE DEF record, Packets
  <2> QED
    BY <1>3, <2>1
<1>8. gone \subseteq FragIds
  BY <1>3, IdsFinite DEF Reception, ReceptionFits
<1> HIDE DEF seen, record, gone
<1>9. ASSUME NEW e \in Entry, e.got \subseteq FragNums(p), NEW l \in Seq(Packets)
      PROVE  ReceptionFits([st EXCEPT !.dupes = seen, !.evicted = gone, !.defrag[p] = e, !.delivered = l])
  <2> DEFINE d == [st.defrag EXCEPT ![p] = e]
             q == [st EXCEPT !.dupes = seen, !.evicted = gone, !.defrag = d, !.delivered = l]
  <2>1. d \in [PacketNums -> Entry] /\ \A k \in PacketNums : d[k].got \subseteq FragNums(k)
    BY <1>1, <1>2, <1>3, <1>9
  <2>2. q = [st EXCEPT !.dupes = seen, !.evicted = gone, !.defrag[p] = e, !.delivered = l]
    BY <1>1 DEF Reception
  <2> HIDE DEF d
  <2>3. q \in Reception /\ q.defrag = d
    BY <1>1, <1>6, <1>8, <1>9, <2>1 DEF Reception, Entry
  <2> HIDE DEF q
  <2> QED
    BY <2>1, <2>2, <2>3 DEF ReceptionFits
<1>10. NoEntry \in Entry /\ NoEntry.got \subseteq FragNums(p)
  BY DEF NoEntry, Entry
<1> DEFINE new == Accept(st, id, num)
           To(e, l) == [st EXCEPT !.dupes = seen, !.evicted = gone, !.defrag[p] = e, !.delivered = l]
<1>11. AcceptCase(st, id, num, new)
  BY <1>1, AcceptCases
<1> HIDE DEF new
<1>12. \/ new = st \/ new = To(entry, st.delivered) \/ new = To(whole, st.delivered)
       \/ new = To(NoEntry, Append(st.delivered, record))
  BY <1>11 DEF AcceptCase, entry, whole, seen, gone, record
<1>13. ReceptionFits(To(entry, st.delivered)) /\ ReceptionFits(To(whole, st.delivered))
  BY <1>3, <1>4, <1>5, <1>9
<1>14. ReceptionFits(To(NoEntry, Append(st.delivered, record)))
  BY <1>7, <1>9, <1>10
<1> HIDE DEF To
<1> QED
  BY <1>12, <1>13, <1>14 DEF new

\* The fragments of a frame, one after the other.
LEMMA AcceptsUnfold ==
    ASSUME ReceptionFits(reception), NEW f \in GoodFrame
    PROVE  /\ Accepts(f)[0] = reception
           /\ \A k \in 1 .. Len(f.frags) : Accepts(f)[k] = Accept(Accepts(f)[k - 1], f.frags[k], f.num)
<1> DEFINE n == Len(f.frags)
           a == reception
           s == f.frags
           S == {st \in Reception : ReceptionFits(st)}
           g == [y \in S \X (1 .. n) |-> Accept(y[1], s[y[2]], f.num)]
           F(h) == [k \in 0 .. n |-> IF k = 0 THEN a ELSE Accept(h[k - 1], s[k], f.num)]
<1>1. s \in Seq(FragIds) /\ n \in Nat /\ f.num \in Nat /\ \A k \in 1 .. n : s[k] \in FragIds
  <2>1. s \in Seq(FragIds) /\ f.num \in Nat
    BY DEF GoodFrame
  <2> QED
    BY <2>1
<1>2. a \in S
  BY DEF ReceptionFits
<1> HIDE DEF s
<1>3. ASSUME NEW st \in S, NEW k \in 1 .. n PROVE Accept(st, s[k], f.num) \in S
  BY <1>1, AcceptKeeps DEF ReceptionFits
<1> HIDE DEF S
<1>4. g \in [S \X (1 .. n) -> S]
  BY <1>3
<1>5. PICK h : Run(S, a, n, g, h)
  <2> HIDE DEF a, g, n
  <2> QED
    BY <1>1, <1>2, <1>4, LoopExists
<1>6. ASSUME NEW k \in 1 .. n PROVE h[k] = Accept(h[k - 1], s[k], f.num)
  <2> HIDE DEF a, n, g
  <2>1. h[k - 1] \in S
    BY <1>1, <1>5 DEF Run
  <2>2. <<h[k - 1], k>> \in S \X (1 .. n)
    BY <2>1
  <2> QED
    BY <1>5, <2>2 DEF Run, g
<1>7. h = F(h)
  <2> HIDE DEF a
  <2> QED
    BY <1>1, <1>5, <1>6 DEF Run
<1>8. Accepts(f) = CHOOSE r : r = F(r)
  BY DEF Accepts, reception, s
<1>9. Accepts(f) = F(Accepts(f))
  <2> HIDE DEF F
  <2> QED
    BY <1>7, <1>8
<1> DEFINE each == Accepts(f)
<1>10. each[0] = a /\ \A k \in 1 .. n : each[k] = Accept(each[k - 1], s[k], f.num)
  <2> HIDE DEF a, each, n
  <2>1. each = F(each)
    BY <1>9 DEF each
  <2> QED
    BY <1>1, <2>1
<1> QED
  BY <1>10 DEF s

\* What one fragment after the other keeps, a frame keeps.
LEMMA AcceptsRun ==
    ASSUME ReceptionFits(reception), NEW f \in GoodFrame, NEW S, reception \in S,
           \A st \in S : \A id \in Ids(f.frags) : Accept(st, id, f.num) \in S
    PROVE  Accepts(f)[Len(f.frags)] \in S
<1> DEFINE n == Len(f.frags)
           s == f.frags
           each == Accepts(f)
           In == {k \in 0 .. n : each[k] \in S}
<1>1. n \in Nat /\ \A k \in 1 .. n : s[k] \in Ids(s)
  <2>1. s \in Seq(FragIds)
    BY DEF GoodFrame
  <2> QED
    BY <2>1 DEF Ids
<1>2. each[0] = reception /\ \A k \in 1 .. n : each[k] = Accept(each[k - 1], s[k], f.num)
  BY AcceptsUnfold
<1> HIDE DEF each
<1>3. 0 \in In
  BY <1>1, <1>2
<1>4. ASSUME NEW k \in 1 .. n, k - 1 \in In PROVE k \in In
  <2> QED
    BY <1>1, <1>2, <1>4
<1> HIDE DEF In
<1>5. 0 .. n \subseteq In
  BY <1>1, <1>3, <1>4, UpTo
<1>6. n \in In
  BY <1>1, <1>5
<1> QED
  BY <1>6 DEF In, each

\* A frame that arrives keeps the invariant.
LEMMA ReceiveStep ==
    ASSUME FragInv, Receive
    PROVE  FragInv'
<1> DEFINE f == Head(frames)
           r == frags_rx \cup Ids(f.frags)
           end == Accepts(f)[Len(f.frags)]
           S == {st \in Reception : ReceptionFits(st)}
<1>1. /\ frames # <<>> /\ frames' = Tail(frames) /\ UNCHANGED sender
      /\ dupes' = end.dupes /\ defrag' = end.defrag
      /\ delivered' = end.delivered /\ evicted' = end.evicted
      /\ \/ acks' = Append(acks, r) /\ frags_rx' = {}
         \/ acks' = acks /\ frags_rx' = r
  BY DEF Receive
<1>2. f \in GoodFrame /\ Tail(frames) \in Seq(GoodFrame) /\ acks \in Seq(SUBSET FragIds)
  <2> HIDE DEF GoodFrame
  <2>1. frames \in Seq(GoodFrame) /\ acks \in Seq(SUBSET FragIds)
    BY DEF FragInv, AirInv
  <2> QED
    BY <1>1, <2>1
<1> HIDE DEF f
<1>3. f.frags \in Seq(FragIds) /\ f.num \in Nat
  BY <1>2 DEF GoodFrame
<1>4. r \subseteq FragIds
  BY <1>3, IdsFinite DEF FragInv, ReceiverInv
<1> HIDE DEF r
<1>5. end \in S
  <2>1. reception \in S
    BY DEF FragInv, ReceiverInv, ReceptionFits
  <2>2. \A st \in S : \A id \in Ids(f.frags) : Accept(st, id, f.num) \in S
    BY <1>3, AcceptKeeps, IdsFinite DEF ReceptionFits
  <2>3. ReceptionFits(reception)
    BY DEF FragInv, ReceiverInv
  <2> HIDE DEF S
  <2> QED
    BY <1>2, <2>1, <2>2, <2>3, AcceptsRun
<1> HIDE DEF end
<1>6. reception' = end
  BY <1>1, <1>5 DEF reception, Reception
<1>7. ReceptionFits(reception')
  BY <1>5, <1>6
<1>8. frags_rx' \subseteq FragIds /\ acks' \in Seq(SUBSET FragIds)
  <2>1. Append(acks, r) \in Seq(SUBSET FragIds)
    BY <1>2, <1>4
  <2> QED
    BY <1>1, <1>2, <1>4, <2>1
<1>9. ReceiverInv' /\ AirInv'
  BY <1>1, <1>2, <1>7, <1>8, AirKept DEF ReceiverInv, sender
<1> QED
  BY <1>1, <1>9 DEF FragInv, SenderInv, sender

-----------------------------------------------------------------------------
(* The air.                                                                *)

\* A fragment that is lost is taken out of the frame.
LEMMA RemoveFits ==
    ASSUME NEW T, NEW s \in Seq(T), NEW i \in 1 .. Len(s)
    PROVE  Remove(s, i) \in Seq(T)
<1> DEFINE n == Len(s)
           a == i - 1
           b == i + 1
<1>1. n \in Nat /\ \A k \in 1 .. n : s[k] \in T
  OBVIOUS
<1>2. /\ a \in 0 .. n /\ b \in 1 .. n + 1
      /\ \A k \in 1 .. a : k \in 1 .. n /\ \A l \in b .. n : l \in 1 .. n
  BY <1>1
<1>3. SubSeq(s, 1, a) \in Seq(T)
  <2>1. 1 \in 1 .. a + 1 /\ \A k \in 1 .. a : k \in 1 .. n
    BY <1>1, <1>2
  <2> HIDE DEF a, n
  <2> QED
    BY <1>1, <1>2, <2>1, SubSeqProperties DEF n
<1>4. SubSeq(s, b, n) \in Seq(T)
  <2>1. b \in 1 .. n + 1 /\ \A k \in b .. n : k \in 1 .. n
    BY <1>1, <1>2
  <2> HIDE DEF b, n
  <2> QED
    BY <1>1, <2>1, SubSeqProperties DEF n
<1> HIDE DEF a, b, n
<1>5. SubSeq(s, 1, a) \o SubSeq(s, b, n) \in Seq(T)
  BY <1>3, <1>4, ConcatProperties
<1> QED
  BY <1>5 DEF Remove, a, b, n

\* What is lost leaves good frames.
LEMMA LoseStep ==
    ASSUME FragInv, Lose
    PROVE  FragInv'
<1>1. frames \in Seq(GoodFrame) /\ acks \in Seq(SUBSET FragIds)
  BY DEF FragInv, AirInv
<1>2. frames' \in Seq(GoodFrame) /\ acks' \in Seq(SUBSET FragIds)
  <2>1. CASE frames # <<>> /\ frames' = Tail(frames) /\ UNCHANGED acks
    <3> HIDE DEF GoodFrame
    <3>1. Tail(frames) \in Seq(GoodFrame)
      BY <1>1, <2>1
    <3> QED
      BY <1>1, <2>1, <3>1
  <2>2. CASE acks # <<>> /\ acks' = Tail(acks) /\ UNCHANGED frames
    <3>1. Tail(acks) \in Seq(SUBSET FragIds)
      BY <1>1, <2>2
    <3> QED
      BY <1>1, <2>2, <3>1
  <2>3. ASSUME frames # <<>>, NEW i \in 1 .. Len(Head(frames).frags), UNCHANGED acks,
               frames' = [frames EXCEPT ![1].frags = Remove(@, i)]
        PROVE  frames' \in Seq(GoodFrame)
    <3> DEFINE f == frames[1]
               r == Remove(f.frags, i)
               h == [f EXCEPT !.frags = r]
    <3>1. f \in GoodFrame /\ Head(frames) = f
      BY <1>1, <2>3
    <3>2. f.frags \in Seq(FragIds)
      BY <3>1 DEF GoodFrame
    <3>3. i \in 1 .. Len(f.frags)
      BY <2>3, <3>1
    <3>4. r \in Seq(FragIds)
      <4> HIDE DEF f
      <4> QED
        BY <3>2, <3>3, RemoveFits
    <3>5. Ids(r) \subseteq Ids(f.frags)
      <4> DEFINE g == f.frags
      <4>1. g \in Seq(Ids(g)) /\ i \in 1 .. Len(g)
        BY <3>2, <3>3 DEF Ids
      <4> HIDE DEF g
      <4>2. Remove(g, i) \in Seq(Ids(g))
        BY <4>1, RemoveFits
      <4>3. Ids(Remove(g, i)) \subseteq Ids(g)
        BY <4>2, IdsFinite
      <4> QED
        BY <4>3 DEF g
    <3> HIDE DEF r, f
    <3>6. h \in GoodFrame
      BY <3>1, <3>4, <3>5 DEF GoodFrame
    <3>7. frames' = [frames EXCEPT ![1] = h]
      BY <2>3 DEF f, r
    <3> HIDE DEF h, GoodFrame
    <3> QED
      BY <1>1, <2>3, <3>6, <3>7, SMTT(30)
  <2> QED
    BY <1>1, <2>1, <2>2, <2>3 DEF Lose
<1>3. AirInv'
  BY <1>2, AirKept DEF Lose, sender
<1> QED
  BY <1>3 DEF Lose, FragInv, SenderInv, ReceiverInv, sender, receiver, reception

\* A frame that arrives twice is as good as it was.
LEMMA DuplicateStep ==
    ASSUME FragInv, Duplicate
    PROVE  FragInv'
<1>1. frames \in Seq(GoodFrame) /\ acks \in Seq(SUBSET FragIds) /\ frames # <<>>
  BY DEF FragInv, AirInv, Duplicate
<1>2. <<Head(frames)>> \o frames \in Seq(GoodFrame)
  <2> HIDE DEF GoodFrame
  <2>1. Head(frames) \in GoodFrame
    BY <1>1
  <2> DEFINE one == <<Head(frames)>>
  <2>2. one \in Seq(GoodFrame)
    BY <2>1
  <2> HIDE DEF one
  <2> QED
    BY <1>1, <2>2, ConcatProperties DEF one
<1>3. AirInv'
  BY <1>1, <1>2, AirKept DEF Duplicate, sender
<1> QED
  BY <1>3 DEF Duplicate, FragInv, SenderInv, ReceiverInv, sender, receiver, reception

-----------------------------------------------------------------------------
(* The invariant holds.                                                    *)

\* Nothing was sent, nothing is on the air.
LEMMA FragStart == FragInit => FragInv
<1> SUFFICES ASSUME FragInit PROVE FragInv
  OBVIOUS
<1>1. NumPackets \in Nat /\ MaxRetries \in Nat
  BY FragAssumption
<1>2. SenderFits(next, live, acked, sends, outstanding)
  <2>1. sends \in [FragIds -> 0 .. MaxRetries + 1] /\ outstanding \in OutList
    BY <1>1 DEF FragInit, OutList
  <2>2. next \in 0 .. NumPackets /\ 0 .. next - 1 = {}
    BY <1>1 DEF FragInit
  <2> QED
    BY <2>1, <2>2 DEF FragInit, SenderFits
<1>3. SenderInv
  BY <1>2 DEF FragInit, SenderInv
<1>4. AirInv
  BY DEF FragInit, AirInv
<1>5. ReceptionFits(reception)
  BY DEF FragInit, ReceptionFits, Reception, reception, NoEntry
<1> QED
  BY <1>3, <1>4, <1>5 DEF FragInv, FragInit, ReceiverInv

\* Every step of the sender, the receiver and the air keeps the invariant.
LEMMA FragStep == FragInv /\ [FragNext]_fragVars => FragInv'
<1> SUFFICES ASSUME FragInv, [FragNext]_fragVars PROVE FragInv'
  OBVIOUS
<1>1. CASE UNCHANGED fragVars
  <2>1. AirInv'
    BY <1>1, AirKept DEF fragVars, sender, medium, FragInv, AirInv
  <2> QED
    BY <1>1, <2>1 DEF fragVars, sender, receiver, medium, FragInv, SenderInv, ReceiverInv, reception
<1>2. CASE PullNothing \/ run_timer
  <2>1. /\ UNCHANGED <<next, live, acked, sends, outstanding, resend_index, resend_limit>>
        /\ UNCHANGED <<frames, acks, misled, frags_rx, dupes, defrag, delivered, evicted>>
    BY <1>2 DEF PullNothing, run_timer, medium, receiver
  <2>2. AirInv'
    BY <2>1, AirKept DEF FragInv, AirInv
  <2> QED
    BY <2>1, <2>2 DEF FragInv, SenderInv, ReceiverInv, reception
<1> QED
  BY <1>1, <1>2, PullNewStep, PullResendStep, PullAckRequestStep, ProcessAckStep, ReceiveStep, LoseStep,
     DuplicateStep DEF FragNext

\* The sender and the receiver keep their types: a fragment is sent _max_retries + 1 times
\* at most, the list of those that are outstanding has ids and nothing else, and
\* Defragment has only fragments that the packet has.
THEOREM FragTypeCorrect == FragSpec => []FragTypeOK
<1>1. FragInv => FragTypeOK
  <2> SUFFICES ASSUME FragInv PROVE FragTypeOK
    OBVIOUS
  <2>1. SenderFits(next, live, acked, sends, outstanding) /\ resend_index \in Nat /\ resend_limit \in Nat
    BY DEF FragInv, SenderInv
  <2>2. Ids(outstanding) \subseteq FragIds \cup {Invalid}
    BY <2>1, IdsFinite DEF SenderFits, OutList
  <2>3. live \subseteq PacketNums
    <3>1. NumPackets \in Nat
      BY FragAssumption
    <3> QED
      BY <2>1, <3>1 DEF SenderFits, PacketNums
  <2>4. \A p \in PacketNums : defrag[p].got \subseteq FragNums(p)
    BY DEF FragInv, ReceiverInv, ReceptionFits, reception
  <2> QED
    BY <2>1, <2>2, <2>3, <2>4 DEF FragTypeOK, SenderFits
<1> QED
  BY <1>1, FragStart, FragStep, PTL DEF FragSpec

\* The sender forgets nothing and gives up nothing early: what is neither acknowledged nor
\* given up is in the list that is sent again, whatever fix() cuts off, and a packet is given
\* up only after one of its fragments was sent _max_retries + 1 times.
THEOREM SenderPersists == FragSpec => [](NothingForgotten /\ GivesUpLate)
<1>1. FragInv => NothingForgotten /\ GivesUpLate
  BY DEF FragInv, SenderInv, SenderFits, NothingForgotten, GivesUpLate
<1> QED
  BY <1>1, FragStart, FragStep, PTL DEF FragSpec

-----------------------------------------------------------------------------
(* What is acknowledged is held.                                           *)
(* do_resend() sends fragments of several packets under the header of the  *)
(* first one, and with it the number of that packet's fragments: the       *)
(* receiver counts right for all packets that were never sent behind one   *)
(* of another length.                                                      *)

\* Defragment has the fragment, or had the whole packet.
HeldIn(st, id) ==
    id[2] \in st.defrag[id[1]].got \/ \E i \in 1 .. Len(st.delivered) : st.delivered[i].packet = id[1]

WholeFits(st) ==
    /\ ReceptionFits(st)
    /\ \A p \in PacketNums : p \in misled \/ st.defrag[p] = NoEntry \/ st.defrag[p].num = NumFrags[p]
    /\ \A id \in Ids(st.dupes) : id[1] \in misled \/ HeldIn(st, id)
    /\ \A i \in 1 .. Len(st.delivered) :
          st.delivered[i].packet \in misled \/ st.delivered[i].frags = FragNums(st.delivered[i].packet)

\* what is held stays held
Grows(st, new) == \A id \in FragIds : HeldIn(st, id) => HeldIn(new, id)

\* The ids in the window of FragmentDupeFilter were there, or are the new one.
LEMMA LastOf ==
    ASSUME NEW T, NEW s \in Seq(T), NEW x \in T, NEW n \in Nat
    PROVE  \A id \in Ids(Last(Append(s, x), n)) : id = x \/ id \in Ids(s)
<1> DEFINE l == Append(s, x)
           m == Len(s)
<1>1. l \in Seq(T) /\ Len(l) = m + 1 /\ m \in Nat /\ \A i \in 1 .. m + 1 : l[i] = IF i <= m THEN s[i] ELSE x
  OBVIOUS
<1> HIDE DEF l
<1>2. \A id \in Ids(l) : id = x \/ id \in Ids(s)
  BY <1>1 DEF Ids
<1>3. CASE Len(l) <= n
  BY <1>2, <1>3 DEF Last, l
<1>4. CASE ~(Len(l) <= n)
  <2> DEFINE a == m + 1 - n + 1
             b == m + 1
             r == SubSeq(l, a, b)
  <2>1. a \in Int /\ b \in Int /\ \A i \in a .. b : l[i] \in T /\ i \in 1 .. m + 1
    BY <1>1, <1>4
  <2>2. \A i \in 1 .. b - a + 1 : a + i - 1 \in a .. b
    BY <2>1
  <2>3. (a <= b => b - a + 1 \in Nat) /\ (~(a <= b) => 1 .. 0 = {})
    BY <2>1
  <2> HIDE DEF a, b
  <2>4. r \in Seq(T) /\ Len(r) = (IF a <= b THEN b - a + 1 ELSE 0)
        /\ \A i \in 1 .. b - a + 1 : r[i] = l[a + i - 1]
    BY <2>1, SubSeqProperties
  <2> HIDE DEF r
  <2>5. ASSUME NEW i \in 1 .. Len(r) PROVE r[i] \in Ids(l)
    <3>1. a <= b /\ i \in 1 .. b - a + 1
      BY <2>1, <2>3, <2>4
    <3>2. a + i - 1 \in 1 .. m + 1 /\ r[i] = l[a + i - 1]
      BY <2>1, <2>2, <2>4, <3>1
    <3> QED
      BY <1>1, <3>2 DEF Ids
  <2>6. \A id \in Ids(r) : id \in Ids(l)
    BY <2>5 DEF Ids
  <2>7. Last(l, n) = r
    BY <1>1, <1>4 DEF Last, r, a, b
  <2> QED
    BY <1>2, <2>6, <2>7 DEF l
<1> QED
  BY <1>3, <1>4

\* A packet has as many fragments as their number says.
LEMMA FragNumsCount ==
    ASSUME NEW p \in PacketNums
    PROVE  IsFiniteSet(FragNums(p)) /\ Cardinality(FragNums(p)) = NumFrags[p]
<1> DEFINE m == NumFrags[p]
           b == m - 1
<1>1. m \in Nat /\ m > 0
  BY FragAssumption
<1>2. b \in Int /\ 0 <= b /\ b - 0 + 1 = m
  BY <1>1
<1>3. FragNums(p) = 0 .. b
  BY DEF FragNums
<1> HIDE DEF m, b
<1> QED
  BY <1>2, <1>3, FS_Interval DEF m

\* FragmentDupeFilter and Defragment hold every fragment that they get, and what they held,
\* when the header has the number of fragments of its packet.
LEMMA AcceptHolds ==
    ASSUME NEW st, WholeFits(st), NEW id \in FragIds, NEW num \in Nat,
           num = NumFrags[id[1]] \/ id[1] \in misled
    PROVE  LET new == Accept(st, id, num)
           IN  WholeFits(new) /\ (id[1] \in misled \/ HeldIn(new, id)) /\ Grows(st, new)
<1> DEFINE p == id[1]
           new == Accept(st, id, num)
           entry == IF st.defrag[p] = NoEntry THEN [num |-> num, got |-> {}] ELSE st.defrag[p]
           whole == [entry EXCEPT !.got = @ \cup {id[2]}]
           seen == Last(Append(st.dupes, id), DupeWindow)
           gone == st.evicted \cup ((Ids(st.dupes) \cup {id}) \ Ids(seen))
           record == [packet |-> p, frags |-> whole.got]
           Packets == [packet : PacketNums, frags : SUBSET Nat]
           To(e, l) == [st EXCEPT !.dupes = seen, !.evicted = gone, !.defrag[p] = e, !.delivered = l]
<1>1. ReceptionFits(st) /\ st \in Reception
      /\ p \in PacketNums /\ id[2] \in FragNums(p) /\ id[2] \in Nat /\ NumFrags[p] \in Nat
      /\ id[2] < NumFrags[p] /\ (p \in misled \/ num = NumFrags[p])
  <2>1. p \in PacketNums /\ id[2] \in FragNums(p) /\ id[2] \in Nat
    BY FragIdFacts
  <2>2. NumFrags[p] \in Nat
    BY <2>1, FragAssumption
  <2> QED
    BY <2>1, <2>2 DEF WholeFits, ReceptionFits, FragNums
<1>2. st.dupes \in Seq(FragIds) /\ st.defrag \in [PacketNums -> Entry] /\ st.delivered \in Seq(Packets)
  BY <1>1 DEF Reception, Entry
<1>3. ReceptionFits(new)
  BY <1>1, AcceptKeeps
<1>4. entry \in Entry /\ (p \in misled \/ entry.num = NumFrags[p]) /\ entry.got \subseteq FragNums(p)
      /\ st.defrag[p].got \subseteq entry.got
  <2>1. st.defrag[p] \in Entry /\ (p \in misled \/ st.defrag[p] = NoEntry \/ st.defrag[p].num = NumFrags[p])
        /\ st.defrag[p].got \subseteq FragNums(p)
    BY <1>1, <1>2 DEF WholeFits, ReceptionFits
  <2> QED
    BY <1>1, <2>1 DEF Entry, NoEntry
<1>5. seen \in Seq(FragIds) /\ \A k \in Ids(seen) : k \in FragIds /\ (k = id \/ k \in Ids(st.dupes))
  <2>1. Append(st.dupes, id) \in Seq(FragIds) /\ DupeWindow \in Nat
    BY <1>2, FragAssumption
  <2>2. seen \in Seq(FragIds)
    BY <2>1, LastFits
  <2> HIDE DEF seen
  <2> QED
    BY <1>2, <2>1, <2>2, LastOf, IdsFinite DEF seen
<1>6. \A k \in FragIds : k[1] \in PacketNums
  BY FragIdFacts
<1>7. \A k \in Ids(st.dupes) : (k[1] \in misled \/ HeldIn(st, k)) /\ k \in FragIds
  BY <1>2, IdsFinite DEF WholeFits
<1>8. /\ \A k \in PacketNums : k \in misled \/ st.defrag[k] = NoEntry \/ st.defrag[k].num = NumFrags[k]
      /\ \A i \in 1 .. Len(st.delivered) :
            st.delivered[i].packet \in misled \/ st.delivered[i].frags = FragNums(st.delivered[i].packet)
  BY DEF WholeFits
<1>9. \/ id \in Ids(st.dupes) /\ new = st
      \/ (id[2] >= entry.num \/ id[2] \in entry.got) /\ new = To(entry, st.delivered)
      \/ new = To(whole, st.delivered)
      \/ Cardinality(whole.got) = whole.num /\ new = To(NoEntry, Append(st.delivered, record))
  <2>1. AcceptCase(st, id, num, new)
    BY <1>1, AcceptCases
  <2> HIDE DEF new
  <2> QED
    BY <2>1 DEF AcceptCase
<1> HIDE DEF entry
<1>10. /\ whole \in Entry /\ whole.num = entry.num /\ whole.got = entry.got \cup {id[2]}
       /\ whole.got \subseteq FragNums(p)
  BY <1>1, <1>4 DEF Entry
<1> HIDE DEF whole, seen, gone
<1>11. CASE id \in Ids(st.dupes) /\ new = st
  <2> HIDE DEF new
  <2> QED
    BY <1>7, <1>11 DEF Grows, new
<1>12. ASSUME NEW e, p \in misled \/ (e.num = NumFrags[p] /\ id[2] \in e.got),
              st.defrag[p].got \subseteq e.got, new = To(e, st.delivered)
       PROVE  WholeFits(new) /\ (p \in misled \/ HeldIn(new, id)) /\ Grows(st, new)
  <2>1. st \in Reception /\ p \in PacketNums
    BY <1>1
  <2> HIDE DEF new, p
  <2>2. /\ new.dupes = seen /\ new.delivered = st.delivered
        /\ \A k \in PacketNums : new.defrag[k] = IF k = p THEN e ELSE st.defrag[k]
    BY <1>12, <2>1 DEF Reception
  <2>3. p \in misled \/ HeldIn(new, id)
    BY <1>1, <1>12, <2>2 DEF HeldIn, p
  <2>4. Grows(st, new)
    <3> SUFFICES ASSUME NEW k \in FragIds, HeldIn(st, k) PROVE HeldIn(new, k)
      BY DEF Grows
    <3> QED
      BY <1>6, <1>12, <2>2 DEF HeldIn
  <2>5. \A k \in Ids(new.dupes) : k[1] \in misled \/ HeldIn(new, k)
    BY <1>5, <1>7, <2>2, <2>3, <2>4 DEF Grows, p
  <2> QED
    BY <1>3, <1>8, <1>12, <2>2, <2>3, <2>4, <2>5 DEF WholeFits
<1>13. ASSUME new = To(NoEntry, Append(st.delivered, record)), Cardinality(whole.got) = whole.num
       PROVE  WholeFits(new) /\ (p \in misled \/ HeldIn(new, id)) /\ Grows(st, new)
  <2>1. p \in misled \/ whole.got = FragNums(p)
    <3>1. IsFiniteSet(FragNums(p)) /\ Cardinality(FragNums(p)) = NumFrags[p]
      BY <1>1, FragNumsCount
    <3> QED
      BY <1>4, <1>10, <1>13, <3>1, FS_Subset
  <2>2. record \in Packets /\ record.packet = p /\ (p \in misled \/ record.frags = FragNums(p))
    BY <1>1, <1>10, <2>1 DEF Entry
  <2>3. st \in Reception /\ p \in PacketNums
    BY <1>1
  <2> DEFINE n == Len(st.delivered)
  <2> HIDE DEF new, record, p
  <2>4. /\ new.dupes = seen /\ new.delivered = Append(st.delivered, record)
        /\ \A k \in PacketNums : new.defrag[k] = IF k = p THEN NoEntry ELSE st.defrag[k]
    BY <1>13, <2>3 DEF Reception
  <2>5. /\ n \in Nat /\ Len(new.delivered) = n + 1 /\ new.delivered[n + 1] = record
        /\ \A i \in 1 .. n : new.delivered[i] = st.delivered[i]
    <3> HIDE DEF Packets
    <3> QED
      BY <1>2, <2>2, <2>4
  <2> HIDE DEF n
  <2>6. /\ \A i \in 1 .. n + 1 : i \in 1 .. n \/ i = n + 1
        /\ n + 1 \in 1 .. n + 1 /\ \A i \in 1 .. n : i \in 1 .. n + 1
    BY <2>5
  <2>7. HeldIn(new, id)
    BY <2>2, <2>5, <2>6 DEF HeldIn, p
  <2>8. Grows(st, new)
    <3> SUFFICES ASSUME NEW k \in FragIds, HeldIn(st, k) PROVE HeldIn(new, k)
      BY DEF Grows
    <3>1. CASE k[1] = p
      BY <2>2, <2>5, <2>6, <3>1 DEF HeldIn
    <3>2. CASE k[1] # p
      BY <1>6, <2>4, <2>5, <2>6, <3>2 DEF HeldIn, n
    <3> QED
      BY <3>1, <3>2
  <2>9. \A k \in Ids(new.dupes) : k[1] \in misled \/ HeldIn(new, k)
    BY <1>5, <1>7, <2>4, <2>7, <2>8 DEF Grows
  <2>10. \A i \in 1 .. Len(new.delivered) :
            new.delivered[i].packet \in misled \/ new.delivered[i].frags = FragNums(new.delivered[i].packet)
    BY <1>8, <2>2, <2>5, <2>6 DEF n
  <2>11. \A k \in PacketNums : k \in misled \/ new.defrag[k] = NoEntry \/ new.defrag[k].num = NumFrags[k]
    BY <1>8, <2>4
  <2> QED
    BY <1>3, <2>7, <2>8, <2>9, <2>10, <2>11 DEF WholeFits
<1>14. CASE (id[2] >= entry.num \/ id[2] \in entry.got) /\ new = To(entry, st.delivered)
  <2>1. p \in misled \/ id[2] \in entry.got
    BY <1>1, <1>4, <1>14
  <2> QED
    BY <1>4, <1>12, <1>14, <2>1
<1>15. CASE new = To(whole, st.delivered)
  BY <1>4, <1>10, <1>12, <1>15
<1> HIDE DEF new
<1> QED
  BY <1>9, <1>11, <1>13, <1>14, <1>15 DEF new

\* A frame as a whole: its fragments are held, and what was held.
LEMMA AcceptsHold ==
    ASSUME WholeFits(reception), NEW f \in GoodFrame
    PROVE  LET end == Accepts(f)[Len(f.frags)]
           IN  /\ WholeFits(end) /\ Grows(reception, end)
               /\ \A id \in Ids(f.frags) : id[1] \in misled \/ HeldIn(end, id)
<1> DEFINE n == Len(f.frags)
           s == f.frags
           each == Accepts(f)
           In == {k \in 0 .. n : /\ WholeFits(each[k]) /\ Grows(reception, each[k])
                                 /\ \A j \in 1 .. k : s[j][1] \in misled \/ HeldIn(each[k], s[j])}
<1>1. n \in Nat /\ f.num \in Nat
      /\ \A k \in 1 .. n : s[k] \in FragIds /\ (f.num = NumFrags[s[k][1]] \/ s[k][1] \in misled)
  <2>1. s \in Seq(FragIds) /\ f.num \in Nat /\ \A id \in Ids(s) : f.num = NumFrags[id[1]] \/ id[1] \in misled
    BY DEF GoodFrame
  <2> QED
    BY <2>1 DEF Ids
<1>2. ReceptionFits(reception)
  BY DEF WholeFits
<1>3. each[0] = reception /\ \A k \in 1 .. n : each[k] = Accept(each[k - 1], s[k], f.num)
  BY <1>2, AcceptsUnfold
<1> HIDE DEF each
<1>4. 0 \in In
  BY <1>1, <1>3 DEF Grows
<1>5. ASSUME NEW k \in 1 .. n, k - 1 \in In PROVE k \in In
  <2> DEFINE st == each[k - 1]
             new == each[k]
  <2>2. /\ WholeFits(st) /\ Grows(reception, st)
        /\ \A j \in 1 .. k - 1 : s[j][1] \in misled \/ HeldIn(st, s[j])
    BY <1>5
  <2>3. new = Accept(st, s[k], f.num) /\ s[k] \in FragIds
    BY <1>1, <1>3
  <2> HIDE DEF st, new, s
  <2>4. WholeFits(new) /\ (s[k][1] \in misled \/ HeldIn(new, s[k])) /\ Grows(st, new)
    BY <1>1, <2>2, <2>3, AcceptHolds
  <2>5. Grows(reception, new)
    BY <2>2, <2>4 DEF Grows
  <2>6. ASSUME NEW j \in 1 .. k PROVE s[j][1] \in misled \/ HeldIn(new, s[j])
    <3>1. CASE j = k
      BY <2>4, <3>1
    <3>2. CASE j # k
      <4>1. j \in 1 .. k - 1 /\ j \in 1 .. n
        BY <1>1, <3>2
      <4>2. s[j] \in FragIds
        BY <1>1, <4>1
      <4> QED
        BY <2>2, <2>4, <4>1, <4>2 DEF Grows
    <3> QED
      BY <3>1, <3>2
  <2> QED
    BY <1>1, <2>4, <2>5, <2>6 DEF new
<1> HIDE DEF In
<1>6. 0 .. n \subseteq In
  BY <1>1, <1>4, <1>5, UpTo
<1>7. n \in In
  BY <1>1, <1>6
<1> QED
  BY <1>7 DEF In, each, Ids

\* Defragment holds the fragment, unless its packet was put behind one of another length
Safe(id) == id[1] \in misled \/ HeldIn(reception, id)

\* what is acknowledged, on the way to be acknowledged or to be acknowledged is held
HeldInv ==
    /\ WholeFits(reception)
    /\ \A id \in acked \cup frags_rx : Safe(id)
    /\ \A i \in 1 .. Len(acks) : \A id \in acks[i] : Safe(id)

\* An acknowledgement that is lost or has arrived leaves the others.
LEMMA RestHeld ==
    ASSUME FragInv, HeldInv, acks # <<>>, acks' = Tail(acks)
    PROVE  /\ \A id \in Head(acks) : Safe(id)
           /\ \A i \in 1 .. Len(acks') : \A id \in acks'[i] : Safe(id)
<1>1. acks \in Seq(SUBSET FragIds)
  BY DEF FragInv, AirInv
<1>2. Head(acks) = acks[1] /\ 1 \in 1 .. Len(acks)
  BY <1>1
<1>3. \A i \in 1 .. Len(acks') : i + 1 \in 1 .. Len(acks) /\ acks'[i] = acks[i + 1]
  BY <1>1
<1> QED
  BY <1>2, <1>3 DEF HeldInv

\* What is held stays held when the receiver does nothing.
LEMMA HeldKept ==
    ASSUME HeldInv, UNCHANGED receiver, misled \subseteq misled',
           \A id \in acked' : id \in acked \/ Safe(id),
           \A i \in 1 .. Len(acks') : \A id \in acks'[i] : Safe(id)
    PROVE  HeldInv'
<1>1. reception' = reception /\ frags_rx' = frags_rx
  BY DEF receiver, reception
<1>2. \A id : Safe(id) => Safe(id)'
  BY <1>1 DEF Safe
<1>3. WholeFits(reception)'
  <2>1. ReceptionFits(reception)'
    BY <1>1 DEF HeldInv, WholeFits
  <2> QED
    BY <1>1, <2>1 DEF HeldInv, WholeFits
<1> QED
  BY <1>1, <1>2, <1>3 DEF HeldInv

\* What is held stays held at every step.
LEMMA HeldStep ==
    ASSUME FragInv, HeldInv, [FragNext]_fragVars
    PROVE  HeldInv'
<1>1. CASE UNCHANGED <<acked, acks>> /\ UNCHANGED receiver /\ misled \subseteq misled'
  BY <1>1, HeldKept DEF HeldInv
<1>2. CASE process_ack
  <2>1. /\ acked' \subseteq acked \cup Head(acks) /\ acks # <<>> /\ acks' = Tail(acks)
        /\ misled' = misled /\ UNCHANGED receiver
    BY <1>2 DEF process_ack
  <2>2. /\ \A id \in Head(acks) : Safe(id)
        /\ \A i \in 1 .. Len(acks') : \A id \in acks'[i] : Safe(id)
    BY <2>1, RestHeld
  <2> QED
    BY <2>1, <2>2, HeldKept
<1>3. CASE Receive
  <2> DEFINE f == Head(frames)
             r == frags_rx \cup Ids(f.frags)
             end == Accepts(f)[Len(f.frags)]
  <2>1. /\ frames # <<>> /\ UNCHANGED sender
        /\ dupes' = end.dupes /\ defrag' = end.defrag
        /\ delivered' = end.delivered /\ evicted' = end.evicted
        /\ \/ acks' = Append(acks, r) /\ frags_rx' = {}
           \/ acks' = acks /\ frags_rx' = r
    BY <1>3 DEF Receive
  <2>2. f \in GoodFrame /\ acks \in Seq(SUBSET FragIds)
    <3> HIDE DEF GoodFrame
    <3>1. frames \in Seq(GoodFrame) /\ acks \in Seq(SUBSET FragIds)
      BY DEF FragInv, AirInv
    <3> QED
      BY <2>1, <3>1
  <2> HIDE DEF f
  <2> DEFINE Held(id) == id[1] \in misled \/ HeldIn(end, id)
  <2>3. WholeFits(end) /\ Grows(reception, end) /\ \A id \in Ids(f.frags) : Held(id)
    BY <2>2, AcceptsHold DEF HeldInv
  <2>4. end \in Reception
    BY <2>3 DEF WholeFits, ReceptionFits
  <2> HIDE DEF end
  <2>5. reception' = end /\ misled' = misled
    BY <2>1, <2>4 DEF reception, Reception, sender
  <2>6. acked \subseteq FragIds /\ frags_rx \subseteq FragIds
    BY DEF FragInv, SenderInv, SenderFits, ReceiverInv
  <2>7. \A id \in acked \cup r : Held(id)
    BY <2>3, <2>6 DEF HeldInv, Grows, Safe
  <2>8. ASSUME NEW i \in 1 .. Len(acks), NEW id \in acks[i] PROVE Held(id)
    <3>1. acks[i] \subseteq FragIds
      BY <2>2
    <3> QED
      BY <2>3, <3>1 DEF HeldInv, Grows, Safe
  <2> HIDE DEF r
  <2>9. \A i \in 1 .. Len(acks') : \A id \in acks'[i] : Held(id)
    <3>1. CASE acks' = acks
      BY <2>8, <3>1
    <3>2. CASE acks' = Append(acks, r)
      <4>1. r \subseteq FragIds
        <5>1. f.frags \in Seq(FragIds)
          BY <2>2 DEF GoodFrame
        <5> QED
          BY <2>6, <5>1, IdsFinite DEF r
      <4>2. \A i \in 1 .. Len(acks') : (i \in 1 .. Len(acks) /\ acks'[i] = acks[i]) \/ acks'[i] = r
        BY <2>2, <3>2, <4>1
      <4> QED
        BY <2>7, <2>8, <4>2
    <3> QED
      BY <2>1, <3>1, <3>2
  <2>10. acked' = acked /\ frags_rx' \subseteq r
    BY <2>1 DEF sender
  <2>11. \A id : Held(id) => Safe(id)'
    BY <2>5 DEF Safe
  <2>12. WholeFits(reception)'
    <3>1. ReceptionFits(reception)'
      BY <2>3, <2>5 DEF WholeFits
    <3> QED
      BY <2>3, <2>5, <3>1 DEF WholeFits
  <2> HIDE DEF Held
  <2> QED
    BY <2>7, <2>9, <2>10, <2>11, <2>12 DEF HeldInv
<1>4. CASE Lose
  <2>1. UNCHANGED receiver /\ acked' = acked /\ misled' = misled
        /\ (acks' = acks \/ (acks # <<>> /\ acks' = Tail(acks)))
    BY <1>4 DEF Lose, sender
  <2>2. CASE acks # <<>> /\ acks' = Tail(acks)
    BY <2>1, <2>2, RestHeld, HeldKept
  <2> QED
    BY <1>1, <2>1, <2>2
<1>5. CASE UNCHANGED fragVars
  BY <1>1, <1>5 DEF fragVars, sender, medium
<1>6. CASE PullNew \/ PullNothing \/ PullResend \/ PullAckRequest \/ run_timer
  BY <1>1, <1>6 DEF PullNew, PullNothing, PullResend, do_resend, PullAckRequest, run_timer, medium
<1>7. CASE Duplicate
  BY <1>1, <1>7 DEF Duplicate, sender
<1> QED
  BY <1>2, <1>3, <1>4, <1>5, <1>6, <1>7 DEF FragNext

\* Nothing is acknowledged at first.
LEMMA HeldStart == FragInit => HeldInv
<1> SUFFICES ASSUME FragInit PROVE HeldInv
  OBVIOUS
<1>1. ReceptionFits(reception)
  BY FragStart DEF FragInv, ReceiverInv
<1>2. /\ dupes = <<>> /\ delivered = <<>> /\ acks = <<>> /\ acked = {} /\ frags_rx = {}
      /\ \A p \in PacketNums : defrag[p] = NoEntry
  BY DEF FragInit
<1> QED
  BY <1>1, <1>2 DEF HeldInv, WholeFits, reception, Ids

\* The sender forgets a fragment only when Defragment has it or had its packet (but for the
\* packets that were sent again behind one of another length), and then only: what is
\* neither acknowledged nor given up is sent again, and nothing is given up early.
THEOREM KeptUntilItIsDone == FragSpec => []KeptUntilDone
<1>1. FragInv /\ HeldInv => KeptUntilDone
  BY DEF FragInv, SenderInv, SenderFits, NothingForgotten, GivesUpLate, KeptUntilDone, AckedIsHeld,
         HeldInv, Safe, HeldIn, reception
<1>2. FragInv /\ HeldInv /\ [FragNext]_fragVars => HeldInv'
  BY HeldStep
<1> QED
  BY <1>1, <1>2, FragStart, FragStep, HeldStart, PTL DEF FragSpec

-----------------------------------------------------------------------------
(* A packet is delivered once, until the window of FragmentDupeFilter has  *)
(* let go of all of its fragments.                                         *)

\* the window has, or had, all fragments that Defragment has or has delivered; those of a
\* delivered packet that Defragment has anew were let go; and only what was let go as a
\* whole is delivered again
OnceFits(st) ==
    /\ \A id \in FragIds : id[2] \in st.defrag[id[1]].got => id \in Ids(st.dupes) \cup st.evicted
    /\ \A i \in 1 .. Len(st.delivered) :
          \/ st.delivered[i].packet \in misled
          \/ FragsOf(st.delivered[i].packet) \subseteq Ids(st.dupes) \cup st.evicted
    /\ \A i \in 1 .. Len(st.delivered) : \A id \in FragsOf(st.delivered[i].packet) :
          id[2] \in st.defrag[id[1]].got => id[1] \in misled \/ id \in st.evicted
    /\ \A i, j \in 1 .. Len(st.delivered) : st.delivered[i].packet = st.delivered[j].packet /\ i # j =>
          st.delivered[i].packet \in misled \/ FragsOf(st.delivered[i].packet) \subseteq st.evicted

\* FragmentDupeFilter and Defragment deliver no packet again that the window knows.
LEMMA AcceptOnce ==
    ASSUME NEW st, WholeFits(st), OnceFits(st), NEW id \in FragIds, NEW num \in Nat,
           num = NumFrags[id[1]] \/ id[1] \in misled
    PROVE  OnceFits(Accept(st, id, num))
<1> DEFINE p == id[1]
           new == Accept(st, id, num)
           entry == IF st.defrag[p] = NoEntry THEN [num |-> num, got |-> {}] ELSE st.defrag[p]
           whole == [entry EXCEPT !.got = @ \cup {id[2]}]
           seen == Last(Append(st.dupes, id), DupeWindow)
           gone == st.evicted \cup ((Ids(st.dupes) \cup {id}) \ Ids(seen))
           record == [packet |-> p, frags |-> whole.got]
           Packets == [packet : PacketNums, frags : SUBSET Nat]
           To(e, l) == [st EXCEPT !.dupes = seen, !.evicted = gone, !.defrag[p] = e, !.delivered = l]
<1>1. st \in Reception /\ p \in PacketNums /\ id[2] \in Nat /\ WholeFits(new)
  <2>1. p \in PacketNums /\ id[2] \in Nat
    BY FragIdFacts
  <2>2. WholeFits(new)
    <3> HIDE DEF p
    <3> QED
      BY AcceptHolds
  <2> QED
    BY <2>1, <2>2 DEF WholeFits, ReceptionFits
<1>2. st.dupes \in Seq(FragIds) /\ st.defrag \in [PacketNums -> Entry] /\ st.delivered \in Seq(Packets)
  BY <1>1 DEF Reception, Entry
<1>3. entry \in Entry /\ entry.got \subseteq st.defrag[p].got
  <2>1. st.defrag[p] \in Entry
    BY <1>1, <1>2
  <2> QED
    BY <2>1 DEF Entry, NoEntry
<1>4. whole \in Entry /\ whole.got = entry.got \cup {id[2]}
  BY <1>1, <1>3 DEF Entry
<1>5. \A k \in FragIds : k[1] \in PacketNums /\ (k[1] = p /\ k[2] = id[2] => k = id)
  BY FragIdFacts
<1>6. st.evicted \subseteq gone /\ Ids(st.dupes) \cup {id} \subseteq Ids(seen) \cup gone
  OBVIOUS
<1>7. \/ id \in Ids(st.dupes) /\ new = st
      \/ id \notin Ids(st.dupes) /\ new = To(entry, st.delivered)
      \/ id \notin Ids(st.dupes) /\ new = To(whole, st.delivered)
      \/ id \notin Ids(st.dupes) /\ new = To(NoEntry, Append(st.delivered, record))
  <2>1. AcceptCase(st, id, num, new)
    BY <1>1, AcceptCases
  <2> HIDE DEF new
  <2> QED
    BY <2>1 DEF AcceptCase
<1> HIDE DEF entry, whole, seen, gone
<1>8. ASSUME id \in Ids(st.dupes), new = st PROVE OnceFits(new)
  <2> HIDE DEF new
  <2> QED
    BY <1>8
\* the window and Defragment, whatever was delivered
<1>9. ASSUME NEW e, e.got \subseteq st.defrag[p].got \cup {id[2]}, id \notin Ids(st.dupes),
             new.dupes = seen, new.evicted = gone,
             \A k \in PacketNums : new.defrag[k] = IF k = p THEN e ELSE st.defrag[k]
      PROVE  /\ \A k \in FragIds : k[2] \in new.defrag[k[1]].got =>
                    k \in Ids(seen) \cup gone /\ (k[2] \in st.defrag[k[1]].got \/ k = id)
             /\ \A i \in 1 .. Len(st.delivered) :
                   \/ st.delivered[i].packet \in misled
                   \/ FragsOf(st.delivered[i].packet) \subseteq Ids(seen) \cup gone
             /\ \A i \in 1 .. Len(st.delivered) : \A k \in FragsOf(st.delivered[i].packet) :
                   k[2] \in new.defrag[k[1]].got => k[1] \in misled \/ k \in gone
  <2> HIDE DEF p, new
  <2>1. ASSUME NEW k \in FragIds, k[2] \in new.defrag[k[1]].got
        PROVE  k \in Ids(seen) \cup gone /\ (k[2] \in st.defrag[k[1]].got \/ k = id)
    <3>1. k[2] \in st.defrag[k[1]].got \/ k = id
      BY <1>5, <1>9, <2>1
    <3>2. k \in Ids(st.dupes) \cup st.evicted \/ k = id
      BY <3>1 DEF OnceFits
    <3> QED
      BY <1>6, <3>1, <3>2
  <2>2. ASSUME NEW i \in 1 .. Len(st.delivered)
        PROVE  \/ st.delivered[i].packet \in misled
               \/ FragsOf(st.delivered[i].packet) \subseteq Ids(seen) \cup gone
    BY <1>6 DEF OnceFits
  <2>3. ASSUME NEW i \in 1 .. Len(st.delivered), NEW k \in FragsOf(st.delivered[i].packet),
               k[2] \in new.defrag[k[1]].got
        PROVE  k[1] \in misled \/ k \in gone
    <3>1. k \in FragIds /\ k[1] = st.delivered[i].packet
      BY DEF FragsOf
    <3>2. k[2] \in st.defrag[k[1]].got \/ k = id
      BY <2>1, <2>3, <3>1
    <3>3. CASE k[2] \in st.defrag[k[1]].got
      BY <1>6, <3>3 DEF OnceFits
    <3>4. CASE k = id
      <4>1. k[1] \in misled \/ k \in Ids(st.dupes) \cup st.evicted
        BY <3>1 DEF OnceFits
      <4> QED
        BY <1>6, <1>9, <3>4, <4>1
    <3> QED
      BY <3>2, <3>3, <3>4
  <2> QED
    BY <2>1, <2>2, <2>3
<1>10. ASSUME NEW e, e.got \subseteq st.defrag[p].got \cup {id[2]}, id \notin Ids(st.dupes),
              new = To(e, st.delivered)
       PROVE  OnceFits(new)
  <2>1. /\ new.dupes = seen /\ new.evicted = gone /\ new.delivered = st.delivered
        /\ \A k \in PacketNums : new.defrag[k] = IF k = p THEN e ELSE st.defrag[k]
    <3> HIDE DEF new, p
    <3>1. st \in Reception /\ p \in PacketNums
      BY <1>1 DEF p
    <3> QED
      BY <1>10, <3>1 DEF Reception
  <2>2. /\ \A k \in FragIds : k[2] \in new.defrag[k[1]].got => k \in Ids(seen) \cup gone
        /\ \A i \in 1 .. Len(st.delivered) :
              \/ st.delivered[i].packet \in misled
              \/ FragsOf(st.delivered[i].packet) \subseteq Ids(seen) \cup gone
        /\ \A i \in 1 .. Len(st.delivered) : \A k \in FragsOf(st.delivered[i].packet) :
              k[2] \in new.defrag[k[1]].got => k[1] \in misled \/ k \in gone
    <3> HIDE DEF new, p
    <3> QED
      BY <1>9, <1>10, <2>1
  <2> HIDE DEF new
  <2> QED
    BY <1>6, <2>1, <2>2 DEF OnceFits
<1>11. ASSUME id \notin Ids(st.dupes), new = To(NoEntry, Append(st.delivered, record))
       PROVE  OnceFits(new)
  <2> DEFINE n == Len(st.delivered)
  <2>1. record.packet = p /\ record.frags = whole.got /\ record \in Packets
    BY <1>1, <1>4 DEF Entry
  <2>2. id \in FragsOf(p)
    BY DEF FragsOf
  <2>3. st \in Reception /\ p \in PacketNums
    BY <1>1
  <2> HIDE DEF new, record, p
  <2>4. /\ new.dupes = seen /\ new.evicted = gone /\ new.delivered = Append(st.delivered, record)
        /\ \A k \in PacketNums : new.defrag[k] = IF k = p THEN NoEntry ELSE st.defrag[k]
    BY <1>11, <2>3 DEF Reception
  <2>5. /\ n \in Nat /\ Len(new.delivered) = n + 1 /\ new.delivered[n + 1] = record
        /\ \A i \in 1 .. n : new.delivered[i] = st.delivered[i]
    <3> HIDE DEF Packets
    <3> QED
      BY <1>2, <2>1, <2>4
  <2> HIDE DEF n
  <2>6. n + 1 \in 1 .. n + 1 /\ \A i \in 1 .. n + 1 : i \in 1 .. n \/ i = n + 1
    BY <2>5
  <2>7. p \in misled \/ whole.got = FragNums(p)
    BY <1>1, <2>1, <2>5, <2>6 DEF WholeFits
  <2>8. NoEntry.got = {}
    BY DEF NoEntry
  <2>9. /\ \A k \in FragIds : k[2] \in new.defrag[k[1]].got => k \in Ids(seen) \cup gone
        /\ \A i \in 1 .. n :
              \/ st.delivered[i].packet \in misled
              \/ FragsOf(st.delivered[i].packet) \subseteq Ids(seen) \cup gone
        /\ \A i \in 1 .. n : \A k \in FragsOf(st.delivered[i].packet) :
              k[2] \in new.defrag[k[1]].got => k[1] \in misled \/ k \in gone
    BY <1>9, <1>11, <2>4, <2>8 DEF n
  <2>10. ASSUME NEW k \in FragsOf(p) PROVE p \in misled \/ k[2] \in st.defrag[p].got \/ k = id
    <3>1. k \in FragIds /\ k[1] = p
      BY DEF FragsOf
    <3>2. k[2] \in FragNums(p)
      BY <3>1, FragIdFacts
    <3> QED
      BY <1>3, <1>4, <1>5, <2>7, <3>1, <3>2
  <2>11. p \in misled \/ FragsOf(p) \subseteq Ids(seen) \cup gone
    <3> SUFFICES ASSUME p \notin misled, NEW k \in FragsOf(p) PROVE k \in Ids(seen) \cup gone
      OBVIOUS
    <3>1. k \in FragIds /\ k[1] = p
      BY DEF FragsOf
    <3>2. k[2] \in st.defrag[p].got \/ k = id
      BY <2>10
    <3>3. k \in Ids(st.dupes) \cup st.evicted \/ k = id
      BY <3>1, <3>2 DEF OnceFits
    <3> QED
      BY <1>6, <3>3
  <2>12. ASSUME NEW i \in 1 .. n, st.delivered[i].packet = p, p \notin misled
         PROVE  FragsOf(p) \subseteq gone
    <3> SUFFICES ASSUME NEW k \in FragsOf(p) PROVE k \in gone
      OBVIOUS
    <3>1. k \in FragIds /\ k[1] = p
      BY DEF FragsOf
    <3>2. k[2] \in st.defrag[p].got \/ k = id
      BY <2>10, <2>12
    <3>3. CASE k[2] \in st.defrag[p].got
      <4>1. k \in st.evicted
        BY <2>12, <3>1, <3>3 DEF OnceFits, n
      <4> QED
        BY <1>6, <4>1
    <3>4. CASE k = id
      <4>1. id \in Ids(st.dupes) \cup st.evicted
        BY <2>2, <2>12 DEF OnceFits, n
      <4> QED
        BY <1>6, <1>11, <3>4, <4>1
    <3> QED
      BY <3>2, <3>3, <3>4
  <2>13. \A i \in 1 .. n + 1 :
            \/ new.delivered[i].packet \in misled
            \/ FragsOf(new.delivered[i].packet) \subseteq Ids(seen) \cup gone
    BY <2>1, <2>5, <2>6, <2>9, <2>11
  <2>14. ASSUME NEW i \in 1 .. n + 1, NEW k \in FragsOf(new.delivered[i].packet),
                k[2] \in new.defrag[k[1]].got
         PROVE  k[1] \in misled \/ k \in gone
    <3>1. CASE i \in 1 .. n
      BY <2>5, <2>9, <2>14, <3>1
    <3>2. CASE i = n + 1
      <4>1. k[1] = p
        BY <2>1, <2>5, <3>2 DEF FragsOf
      <4> QED
        BY <2>3, <2>4, <2>8, <2>14, <4>1
    <3> QED
      BY <2>6, <3>1, <3>2
  <2>15. ASSUME NEW i \in 1 .. n + 1, NEW j \in 1 .. n + 1, i # j,
                new.delivered[i].packet = new.delivered[j].packet
         PROVE  new.delivered[i].packet \in misled \/ FragsOf(new.delivered[i].packet) \subseteq gone
    <3>1. CASE i \in 1 .. n /\ j \in 1 .. n
      <4>1. st.delivered[i].packet \in misled \/ FragsOf(st.delivered[i].packet) \subseteq st.evicted
        BY <2>5, <2>15, <3>1 DEF OnceFits, n
      <4> QED
        BY <1>6, <2>5, <3>1, <4>1
    <3>2. CASE i \in 1 .. n /\ j = n + 1
      BY <2>1, <2>5, <2>12, <2>15, <3>2
    <3>3. CASE i = n + 1 /\ j \in 1 .. n
      BY <2>1, <2>5, <2>12, <2>15, <3>3
    <3> QED
      BY <2>6, <2>15, <3>1, <3>2, <3>3
  <2> QED
    BY <2>4, <2>5, <2>9, <2>13, <2>14, <2>15 DEF OnceFits
<1>12. /\ entry.got \subseteq st.defrag[p].got \cup {id[2]}
       /\ whole.got \subseteq st.defrag[p].got \cup {id[2]}
  BY <1>3, <1>4
<1> HIDE DEF new, p, record
<1>13. OnceFits(new)
  BY <1>7, <1>8, <1>10, <1>11, <1>12
<1> QED
  BY <1>13 DEF new

\* A packet comes out of Defragment whole, and once until the window has let go of it,
\* unless it was sent again behind one of another length.
THEOREM DeliveredWholeOnce == FragSpec => []DeliveredWhole
<1> DEFINE OnceInv == FragInv /\ HeldInv /\ OnceFits(reception)
           S == {st \in Reception : WholeFits(st) /\ OnceFits(st)}
<1>1. FragInit => OnceInv
  <2> SUFFICES ASSUME FragInit PROVE OnceInv
    OBVIOUS
  <2>1. OnceFits(reception)
    BY FragIdFacts DEF FragInit, OnceFits, reception, NoEntry
  <2> QED
    BY <2>1, FragStart, HeldStart
<1>2. OnceInv /\ [FragNext]_fragVars => OnceInv'
  <2> SUFFICES ASSUME OnceInv, [FragNext]_fragVars PROVE OnceInv'
    OBVIOUS
  <2>1. FragInv' /\ HeldInv'
    BY FragStep, HeldStep
  <2>2. ASSUME reception' = reception, misled \subseteq misled' PROVE OnceInv'
    <3>1. OnceFits(reception)'
      BY <2>2 DEF OnceFits
    <3> QED
      BY <2>1, <3>1
  <2>3. CASE Receive
    <3> DEFINE f == Head(frames)
               end == Accepts(f)[Len(f.frags)]
    <3>1. /\ frames # <<>> /\ dupes' = end.dupes /\ defrag' = end.defrag
          /\ delivered' = end.delivered /\ evicted' = end.evicted /\ misled' = misled
      BY <2>3 DEF Receive, sender
    <3>2. f \in GoodFrame
      <4> HIDE DEF GoodFrame
      <4>1. frames \in Seq(GoodFrame)
        BY DEF FragInv, AirInv
      <4> QED
        BY <3>1, <4>1
    <3> HIDE DEF f
    <3>3. reception \in S /\ ReceptionFits(reception)
      BY DEF HeldInv, WholeFits, ReceptionFits
    <3>4. ASSUME NEW st \in S, NEW id \in Ids(f.frags) PROVE Accept(st, id, f.num) \in S
      <4>1. id \in FragIds /\ f.num \in Nat /\ (f.num = NumFrags[id[1]] \/ id[1] \in misled)
        BY <3>2, IdsFinite DEF GoodFrame
      <4>2. WholeFits(Accept(st, id, f.num)) /\ OnceFits(Accept(st, id, f.num))
        BY <3>4, <4>1, AcceptHolds, AcceptOnce
      <4> QED
        BY <4>2 DEF WholeFits, ReceptionFits
    <3>5. end \in S
      <4> HIDE DEF S
      <4> QED
        BY <3>2, <3>3, <3>4, AcceptsRun
    <3> HIDE DEF end
    <3>6. reception' = end
      BY <3>1, <3>5 DEF reception, Reception
    <3>7. OnceFits(reception)'
      BY <3>1, <3>5, <3>6 DEF OnceFits
    <3> QED
      BY <2>1, <3>7
  <2>4. CASE ~Receive
    <3>1. UNCHANGED receiver /\ misled \subseteq misled'
      BY <2>4 DEF FragNext, fragVars, sender, PullNew, PullNothing, PullResend, do_resend,
                  PullAckRequest, run_timer, process_ack, Lose, Duplicate
    <3> QED
      BY <2>2, <3>1 DEF receiver, reception
  <2> QED
    BY <2>3, <2>4
<1>3. OnceInv => DeliveredWhole
  BY DEF HeldInv, WholeFits, OnceFits, reception, DeliveredWhole
<1> QED
  BY <1>1, <1>2, <1>3, PTL DEF FragSpec
=============================================================================
