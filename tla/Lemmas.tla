------------------------------- MODULE Lemmas -------------------------------
(***************************************************************************)
(* What the proofs of several components use: the least member of a set of *)
(* numbers, which stands for induction, and loops, which the models write  *)
(* as functions that are defined recursively on the number of rounds.      *)
(***************************************************************************)
EXTENDS Integers, Sequences, FiniteSets, FiniteSetTheorems, WellFoundedInduction, TLAPS

\* A set of natural numbers that is not empty has a least member.
LEMMA LeastNat ==
    ASSUME NEW S, S \subseteq Nat, S # {}
    PROVE  \E k \in S : \A j \in S : k <= j
<1> DEFINE Less == OpToRel(<, Nat)
<1>1. \E k \in S : \A j \in S : ~(<<j, k>> \in Less)
  BY NatLessThanWellFounded, WFMin, Zenon
<1>2. \A j, k \in Nat : j < k => <<j, k>> \in Less
  BY Zenon DEF OpToRel
<1> HIDE DEF Less
<1>3. PICK k \in S : \A j \in S : ~(<<j, k>> \in Less)
  BY <1>1
<1>4. k \in Nat
  OBVIOUS
<1>5. ASSUME NEW j \in S PROVE k <= j
  <2>1. j \in Nat /\ ~(j < k)
    BY <1>2, <1>3, <1>4
  <2> QED
    BY <1>4, <2>1
<1> QED
  BY <1>5

\* Induction up to a bound: a set of rounds that has the first one, and with a
\* round the next one, has them all.
LEMMA UpTo ==
    ASSUME NEW n \in Nat, NEW S, 0 \in S,
           \A k \in 1 .. n : k - 1 \in S => k \in S
    PROVE  0 .. n \subseteq S
<1> SUFFICES ASSUME ~(0 .. n \subseteq S) PROVE FALSE
  OBVIOUS
<1> DEFINE Out == {k \in 0 .. n : k \notin S}
<1>1. Out \subseteq Nat /\ Out # {}
  OBVIOUS
<1> HIDE DEF Out
<1>2. PICK k \in Out : \A j \in Out : k <= j
  BY <1>1, LeastNat
<1>3. k \in 1 .. n /\ k \notin S
  BY <1>2 DEF Out
<1>4. k - 1 \in 0 .. n /\ k - 1 \notin Out
  BY <1>2, <1>3
<1> QED
  BY <1>3, <1>4 DEF Out

\* f is the run of a loop of n rounds that starts with a, and computes a state
\* of S from the one before and the number of the round with g.
Run(S, a, n, g, f) ==
    f \in [0 .. n -> S] /\ f[0] = a /\ \A k \in 1 .. n : f[k] = g[<<f[k - 1], k>>]

\* Every loop has a run.
LEMMA LoopExists ==
    ASSUME NEW S, NEW a \in S, NEW n \in Nat, NEW g \in [S \X (1 .. n) -> S]
    PROVE  \E f : Run(S, a, n, g, f)
<1> DEFINE Can == {m \in 0 .. n : \E f : Run(S, a, m, g, f)}
<1>1. 0 \in Can
  <2>1. Run(S, a, 0, g, [k \in 0 .. 0 |-> a])
    BY DEF Run
  <2> QED
    BY <2>1
<1>2. ASSUME NEW m \in 1 .. n, m - 1 \in Can
      PROVE  m \in Can
  <2>1. PICK f : Run(S, a, m - 1, g, f)
    BY <1>2
  <2> DEFINE h == [k \in 0 .. m |-> IF k = m THEN g[<<f[m - 1], m>>] ELSE f[k]]
  <2>2. f[m - 1] \in S /\ f \in [0 .. m - 1 -> S]
    BY <2>1 DEF Run
  <2>3. g[<<f[m - 1], m>>] \in S
    BY <2>2
  <2>4. h \in [0 .. m -> S] /\ h[0] = a
    BY <2>1, <2>2, <2>3 DEF Run
  <2>5. \A k \in 1 .. m : h[k] = g[<<h[k - 1], k>>]
    BY <2>1, SMTT(30) DEF Run
  <2>6. Run(S, a, m, g, h)
    BY <2>4, <2>5 DEF Run
  <2> HIDE DEF h
  <2> QED
    BY <2>6
<1> HIDE DEF Can
<1>3. 0 .. n \subseteq Can
  BY <1>1, <1>2, UpTo
<1> QED
  BY <1>3 DEF Can

\* A function from a finite set to the natural numbers has a largest value.
LEMMA MaxExists ==
    ASSUME NEW S, IsFiniteSet(S), S # {}, NEW f \in [S -> Nat]
    PROVE  \E c \in S : \A e \in S : f[e] <= f[c]
<1>1. PICK s \in Seq(S) : \A e \in S : \E i \in 1 .. Len(s) : s[i] = e
  BY DEF IsFiniteSet
<1> DEFINE n == Len(s)
           Bound(b, k) == \A i \in 1 .. k : f[s[i]] <= b
           Can == {k \in 0 .. n : \E b \in Nat : Bound(b, k)}
<1>2. n \in Nat /\ \A i \in 1 .. n : s[i] \in S /\ f[s[i]] \in Nat
  <2>1. n \in Nat /\ \A i \in 1 .. n : s[i] \in S
    OBVIOUS
  <2> QED
    BY <2>1
<1>3. 0 \in Can
  BY <1>2
<1>4. ASSUME NEW k \in 1 .. n, k - 1 \in Can PROVE k \in Can
  <2>1. PICK b \in Nat : Bound(b, k - 1)
    BY <1>4
  <2> DEFINE c == IF f[s[k]] <= b THEN b ELSE f[s[k]]
  <2>2. c \in Nat /\ b <= c /\ f[s[k]] <= c
    BY <1>2
  <2> HIDE DEF c
  <2>3. ASSUME NEW i \in 1 .. k PROVE f[s[i]] <= c
    <3>1. CASE i = k
      BY <2>2, <3>1
    <3>2. CASE i # k
      <4>1. i \in 1 .. k - 1 /\ i \in 1 .. n
        BY <1>2, <3>2
      <4>2. f[s[i]] <= b /\ f[s[i]] \in Nat
        BY <1>2, <2>1, <4>1
      <4> QED
        BY <2>2, <4>2
    <3> QED
      BY <3>1, <3>2
  <2>4. Bound(c, k) /\ k \in 0 .. n
    BY <1>2, <2>3
  <2> QED
    BY <2>2, <2>4
<1> HIDE DEF Can
<1>5. n \in Can
  <2>1. 0 .. n \subseteq Can
    BY <1>2, <1>3, <1>4, UpTo
  <2> QED
    BY <1>2, <2>1
<1> DEFINE Top == {b \in Nat : \A e \in S : f[e] <= b}
<1>6. Top # {}
  <2>1. PICK b \in Nat : Bound(b, n)
    BY <1>5 DEF Can
  <2> QED
    BY <1>1, <2>1
<1>7. PICK b \in Top : \A a \in Top : b <= a
  <2>1. Top \subseteq Nat
    OBVIOUS
  <2> HIDE DEF Top
  <2> QED
    BY <1>6, <2>1, LeastNat
<1>8. b \in Nat /\ \A e \in S : f[e] <= b /\ f[e] \in Nat
  OBVIOUS
<1>9. \E c \in S : f[c] = b
  <2> SUFFICES ASSUME \A c \in S : f[c] # b PROVE FALSE
    OBVIOUS
  <2>1. \A e \in S : f[e] <= b - 1
    BY <1>8
  <2>2. PICK e \in S : f[e] <= b - 1 /\ f[e] \in Nat
    BY <2>1
  <2>3. b - 1 \in Nat
    BY <1>8, <2>2
  <2>4. b - 1 \in Top
    BY <2>1, <2>3
  <2> QED
    BY <1>7, <1>8, <2>4
<1> QED
  BY <1>8, <1>9

\* A list without repetitions is no longer than the set of its members.
LEMMA DistinctFits ==
    ASSUME NEW S, IsFiniteSet(S), NEW s \in Seq(S),
           \A i, j \in 1 .. Len(s) : s[i] = s[j] => i = j
    PROVE  Len(s) <= Cardinality(S)
<1> DEFINE A == 1 .. Len(s)
           f == [i \in A |-> s[i]]
<1>1. Len(s) \in Nat /\ IsFiniteSet(A) /\ Cardinality(A) = Len(s)
  <2>1. Len(s) \in Nat
    OBVIOUS
  <2> DEFINE k == Len(s)
  <2> HIDE DEF k
  <2>2. 1 \in Int /\ k \in Int /\ (1 > k => k = 0) /\ k - 1 + 1 = k
    BY <2>1 DEF k
  <2>3. IsFiniteSet(1 .. k) /\ Cardinality(1 .. k) = k
    BY <2>2, FS_Interval
  <2> QED
    BY <2>1, <2>3 DEF k
<1>2. f \in [A -> S] /\ \A i, j \in A : f[i] = f[j] => i = j
  OBVIOUS
<1>3. Cardinality(S) \in Nat
  BY FS_CardinalityType
<1> HIDE DEF A, f
<1>4. ~(Cardinality(S) < Cardinality(A))
  BY <1>1, <1>2, FS_PigeonHole
<1> QED
  BY <1>1, <1>3, <1>4
=============================================================================
