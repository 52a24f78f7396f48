-------------------------- MODULE SRRouting_proofs --------------------------
(***************************************************************************)
(* What holds of source routing, in both versions, for every network,      *)
(* every set of sources and every number of losses.  SRInv is about the    *)
(* tables and what is on the air; FloodInv adds that a node which has sent *)
(* its copy of a question remembers it while the flood goes on.            *)
(***************************************************************************)
EXTENDS SRRouting, FiniteSetTheorems, SequenceTheorems, Lemmas

-----------------------------------------------------------------------------
(* Paths and their metrics.                                                *)

\* A path is a list of at least two nodes, all different, along links.
LEMMA PathFacts ==
    ASSUME NEW p \in Paths
    PROVE  /\ p \in Seq(Node) /\ Len(p) \in Nat /\ Len(p) >= 2 /\ p # <<>>
           /\ \A i \in 1 .. Len(p) : p[i] \in Node
           /\ \A i, j \in 1 .. Len(p) : p[i] = p[j] => i = j
           /\ Links(p) \subseteq Radio
<1>1. PICK k \in 2 .. Cardinality(Node) :
          p \in [1 .. k -> Node] /\ IsInjective(p) /\ Links(p) \subseteq Radio
  BY DEF Paths
<1>2. Cardinality(Node) \in Nat
  BY SRAssumption, FS_CardinalityType
<1>3. k \in Nat /\ k >= 2
  BY <1>1, <1>2
<1>4. p \in Seq(Node) /\ Len(p) = k
  BY <1>1, <1>3
<1>5. \A i, j \in 1 .. k : p[i] = p[j] => i = j
  BY <1>1 DEF IsInjective
<1> QED
  BY <1>1, <1>3, <1>4, <1>5

\* Its links are those between neighbours on the list.
LEMMA LinkOf ==
    ASSUME NEW p \in Paths, NEW i \in 1 .. Len(p) - 1
    PROVE  <<p[i], p[i + 1]>> \in Links(p) /\ <<p[i], p[i + 1]>> \in Radio
<1>1. <<p[i], p[i + 1]>> \in Links(p)
  BY DEF Links
<1> QED
  BY <1>1, PathFacts

\* The metric of a path is a number.
LEMMA MetricsAreNumbers ==
    ASSUME NEW p \in Paths
    PROVE  RouteMetric[p] \in Nat
<1> DEFINE n == Len(p) - 1
           m(k) == Metric[<<p[k], p[k + 1]>>]
           g == [y \in Nat \X (1 .. n) |-> y[1] + m(y[2])]
           F(h) == [i \in 0 .. n |-> IF i = 0 THEN 0 ELSE h[i - 1] + m(i)]
<1>1. n \in Nat
  BY PathFacts
<1>2. \A k \in 1 .. n : m(k) \in Nat
  BY LinkOf, SRAssumption
<1> HIDE DEF m
<1>3. g \in [Nat \X (1 .. n) -> Nat]
  BY <1>2
<1>4. PICK h : Run(Nat, 0, n, g, h)
  <2> HIDE DEF g, n
  <2> QED
    BY <1>1, <1>3, LoopExists
<1>5. ASSUME NEW k \in 1 .. n PROVE h[k] = h[k - 1] + m(k)
  <2>1. h[k - 1] \in Nat
    BY <1>1, <1>4 DEF Run
  <2>2. <<h[k - 1], k>> \in Nat \X (1 .. n)
    BY <2>1
  <2> QED
    BY <1>4, <2>2 DEF Run
<1>6. h = F(h)
  <2> HIDE DEF g
  <2> QED
    BY <1>1, <1>4, <1>5 DEF Run
<1>7. RouteMetric[p] = (CHOOSE f : f = F(f))[n]
  BY DEF RouteMetric, m
<1> DEFINE sum == CHOOSE f : f = F(f)
<1>8. sum = F(sum)
  <2> HIDE DEF F
  <2> QED
    BY <1>6
<1> HIDE DEF sum
<1>9. sum[0] = 0 /\ \A k \in 1 .. n : sum[k] = sum[k - 1] + m(k)
  BY <1>1, <1>8
<1> DEFINE In == {k \in 0 .. n : sum[k] \in Nat}
<1>10. 0 \in In
  BY <1>1, <1>9
<1>11. ASSUME NEW k \in 1 .. n, k - 1 \in In PROVE k \in In
  BY <1>2, <1>9, <1>11
<1> HIDE DEF In
<1>12. 0 .. n \subseteq In
  <2> HIDE DEF n
  <2> QED
    BY <1>1, <1>10, <1>11, UpTo
<1> QED
  BY <1>1, <1>7, <1>12 DEF In, sum

\* The paths from x to y over the links t.
LEMMA RoutesFacts ==
    ASSUME NEW x \in Node, NEW y \in Node, NEW t
    PROVE  \A p : p \in Routes(t, x, y) <=>
              p \in Paths /\ p[1] = x /\ p[Len(p)] = y /\ Links(p) \subseteq t
BY DEF Routes, PathsBetween

\* dijkstra() finds a path if there is one.
LEMMA BestRouteFound ==
    ASSUME NEW x \in Node, NEW y \in Node, NEW t
    PROVE  IF Routes(t, x, y) = {} THEN BestRoute(t, x, y) = <<>>
                                   ELSE BestRoute(t, x, y) \in Routes(t, x, y)
<1> DEFINE rs == Routes(t, x, y)
           ms == {RouteMetric[p] : p \in rs}
<1>1. CASE rs = {}
  BY <1>1 DEF BestRoute
<1>2. CASE rs # {}
  <2>1. \A p \in rs : p \in Paths /\ RouteMetric[p] \in Nat
    BY RoutesFacts, MetricsAreNumbers
  <2>2. ms \subseteq Nat /\ ms # {}
    BY <1>2, <2>1
  <2>3. PICK k \in ms : \A j \in ms : k <= j
    <3> HIDE DEF ms
    <3> QED
      BY <2>2, LeastNat
  <2>4. \E p \in rs : \A q \in rs : RouteMetric[p] <= RouteMetric[q]
    BY <2>3
  <2>5. BestRoute(t, x, y) = CHOOSE p \in rs : \A q \in rs : RouteMetric[p] <= RouteMetric[q]
    BY <1>2 DEF BestRoute
  <2> HIDE DEF rs
  <2>6. BestRoute(t, x, y) \in rs
    BY <2>4, <2>5
  <2> QED
    BY <1>2, <2>6 DEF rs
<1> QED
  BY <1>1, <1>2

-----------------------------------------------------------------------------
(* Types.                                                                  *)

Seqs == 0 .. SeqMod - 1

\* What the tables of routes may have: a path of s to its target, or none.
OwnRoutes(s) == {p \in Paths : p[1] = s /\ p[Len(p)] = Target[s]} \cup {<<>>}

\* A query carries a path of the source that asks, at first of itself only.
Alone == {<<s>> : s \in Source}

QueryPk ==
    {q \in [type : {"QUERY"}, src : Source, dst : Node, seq : Seqs, path : Paths \cup Alone] :
        q.path[1] = q.src /\ q.dst = Target[q.src]}

\* Replies and data are on a path, at the node it says.
ReplyPk ==
    {r \in [type : {"REPLY"}, seq : Seqs, path : Paths, next : Nat] :
        /\ r.path[1] \in Source /\ r.path[Len(r.path)] = Target[r.path[1]]
        /\ r.next \in 1 .. Len(r.path) - 1}

DataPk ==
    {d \in [type : {"DATA"}, path : Paths, next : Nat, known : SUBSET Radio] :
        d.next \in 2 .. Len(d.path)}

PacketsFor(n) ==
    QueryPk \cup {r \in ReplyPk : r.path[r.next] = n} \cup {d \in DataPk : d.path[d.next] = n}

ChanOK(ch) == ch = [n \in Node |-> ch[n]] /\ \A n \in Node : ch[n] \in Seq(PacketsFor(n))

Entry == {e \in [src : Source, dst : Node, seq : Seqs, pending : BOOLEAN] : e.dst = Target[e.src]}

Answer == [src : Source, seq : Seqs, path : Paths \cup {<<>>}]

SRInv ==
    /\ up \subseteq Radio
    /\ table \in [Node -> SUBSET Radio]
    /\ route = [s \in Source |-> route[s]] /\ \A s \in Source : route[s] \in OwnRoutes(s)
    /\ cached = [s \in Source |-> cached[s]] /\ \A s \in Source : cached[s] \in OwnRoutes(s)
    /\ queried \in [Source -> BOOLEAN] /\ fresh \in [Source -> BOOLEAN] /\ waiting \in [Source -> BOOLEAN]
    /\ seq \in [Source -> Seqs]
    /\ seen \in [Node -> Seq(Entry)] /\ \A n \in Node : Len(seen[n]) <= SeenMax
    /\ answered \in [Node -> Seq(Answer)] /\ \A n \in Node : Len(answered[n]) <= SeenMax
    /\ ChanOK(chan) /\ faults \in Nat

-----------------------------------------------------------------------------
(* Links and routes.                                                       *)

\* What a packet brings is links of the network.
LEMMA LearnFits ==
    ASSUME SRInv, NEW n \in Node, NEW ls, ls \subseteq Radio
    PROVE  Learn(n, ls) \subseteq Radio /\ ls \subseteq Learn(n, ls)
<1>1. Both(ls) \subseteq Radio
  BY SRAssumption DEF Both
<1> QED
  BY <1>1 DEF Learn, SRInv, Both

\* dijkstra() leaves paths to the targets.
LEMMA DijkstraFits ==
    ASSUME SRInv, NEW n \in Node, NEW t, dijkstra(n, t)
    PROVE  route' = [s \in Source |-> route'[s]] /\ \A s \in Source : route'[s] \in OwnRoutes(s)
<1>1. ASSUME n \in Source PROVE BestRoute(t, n, Target[n]) \in OwnRoutes(n)
  <2>1. Target[n] \in Node
    BY <1>1, SRAssumption
  <2> QED
    BY <2>1, BestRouteFound, RoutesFacts DEF OwnRoutes
<1> QED
  BY <1>1 DEF dijkstra, SRInv

-----------------------------------------------------------------------------
(* The network.                                                            *)

\* A node has no link to itself.
LEMMA NeighbourFacts ==
    ASSUME SRInv, NEW n \in Node, NEW m \in Neighbours(n)
    PROVE  m \in Node /\ m # n
BY SRAssumption DEF SRInv, Neighbours

LEMMA TailFits ==
    ASSUME NEW ch, ChanOK(ch), NEW n \in Node, ch[n] # <<>>
    PROVE  ChanOK([ch EXCEPT ![n] = Tail(@)]) /\ Head(ch[n]) \in PacketsFor(n)
<1> DEFINE P == PacketsFor(n)
<1>1. ch[n] \in Seq(P)
  BY DEF ChanOK
<1> HIDE DEF P
<1>2. Tail(ch[n]) \in Seq(P) /\ Head(ch[n]) \in P
  BY <1>1
<1> QED
  BY <1>2 DEF ChanOK, P

LEMMA AppendFits ==
    ASSUME NEW ch, ChanOK(ch), NEW n \in Node, NEW pk \in PacketsFor(n)
    PROVE  Append(ch[n], pk) \in Seq(PacketsFor(n))
<1> DEFINE P == PacketsFor(n)
<1>1. ch[n] \in Seq(P) /\ pk \in P
  BY DEF ChanOK
<1> HIDE DEF P
<1>2. Append(ch[n], pk) \in Seq(P)
  BY <1>1
<1> QED
  BY <1>2 DEF P

\* A query may go to any neighbour, another packet to the node it names.
LEMMA BroadcastFits ==
    ASSUME NEW ch, ChanOK(ch), NEW n \in Node, NEW q \in QueryPk
    PROVE  ChanOK(Broadcast(ch, n, q))
<1>1. \A m \in Node : q \in PacketsFor(m)
  BY DEF PacketsFor
<1>2. \A m \in Node : Append(ch[m], q) \in Seq(PacketsFor(m))
  BY <1>1, AppendFits
<1> QED
  BY <1>2 DEF ChanOK, Broadcast

LEMMA UnicastFits ==
    ASSUME NEW ch, ChanOK(ch), NEW n \in Node, NEW m \in Node, NEW pk \in PacketsFor(m)
    PROVE  ChanOK(Unicast(ch, n, m, pk))
<1>1. Append(ch[m], pk) \in Seq(PacketsFor(m))
  BY AppendFits
<1> QED
  BY <1>1 DEF ChanOK, Unicast

\* A table stays within its bound.
LEMMA RememberFits ==
    ASSUME NEW S, NEW s \in Seq(S), NEW e \in S, Len(s) <= SeenMax
    PROVE  /\ Remember(s, e) \in Seq(S) /\ Len(Remember(s, e)) <= SeenMax
           /\ Remember(s, e)[Len(Remember(s, e))] = e
           /\ Len(s) >= SeenMax => /\ Len(Remember(s, e)) = Len(s)
                                  /\ \A i \in 1 .. Len(s) - 1 : Remember(s, e)[i] = s[i + 1]
           /\ Len(s) < SeenMax  => /\ Len(Remember(s, e)) = Len(s) + 1
                                  /\ \A i \in 1 .. Len(s) : Remember(s, e)[i] = s[i]
<1>1. SeenMax \in Nat /\ SeenMax > 0 /\ Len(s) \in Nat
  BY SRAssumption
<1>2. CASE Len(s) >= SeenMax
  <2> DEFINE r == Tail(s)
  <2>1. r \in Seq(S) /\ Len(r) = Len(s) - 1 /\ \A i \in 1 .. Len(s) - 1 : r[i] = s[i + 1]
    BY <1>1, <1>2
  <2>2. Remember(s, e) = Append(r, e)
    BY <1>2 DEF Remember
  <2> HIDE DEF r
  <2>3. /\ Append(r, e) \in Seq(S) /\ Len(Append(r, e)) = Len(r) + 1 /\ Append(r, e)[Len(r) + 1] = e
        /\ \A i \in 1 .. Len(r) : Append(r, e)[i] = r[i]
    BY <2>1
  <2> QED
    BY <1>1, <1>2, <2>1, <2>2, <2>3
<1>3. CASE ~(Len(s) >= SeenMax)
  <2>1. Remember(s, e) = Append(s, e)
    BY <1>3 DEF Remember
  <2>2. /\ Append(s, e) \in Seq(S) /\ Len(Append(s, e)) = Len(s) + 1 /\ Append(s, e)[Len(s) + 1] = e
        /\ \A i \in 1 .. Len(s) : Append(s, e)[i] = s[i]
    OBVIOUS
  <2> QED
    BY <1>1, <1>3, <2>1, <2>2
<1> QED
  BY <1>2, <1>3

-----------------------------------------------------------------------------
(* The packets that the elements make.                                     *)

LEMMA QueryFits ==
    ASSUME NEW s \in Source, NEW q \in Seqs, NEW p \in Paths \cup Alone, p[1] = s
    PROVE  Query(s, Target[s], q, p) \in QueryPk
BY SRAssumption DEF Query, QueryPk

LEMMA DataFits ==
    ASSUME NEW p \in Paths, NEW i \in 2 .. Len(p), NEW k, k \subseteq Radio
    PROVE  p[i] \in Node /\ Data(p, i, k) \in PacketsFor(p[i])
<1>1. p[i] \in Node /\ i \in Nat
  BY PathFacts
<1> DEFINE d == Data(p, i, k)
<1>2. d \in DataPk /\ d.path = p /\ d.next = i
  BY <1>1 DEF Data, DataPk
<1> QED
  BY <1>1, <1>2 DEF PacketsFor

LEMMA ReplyFits ==
    ASSUME NEW q \in Seqs, NEW p \in Paths, p[1] \in Source, p[Len(p)] = Target[p[1]],
           NEW i \in 1 .. Len(p) - 1
    PROVE  p[i] \in Node /\ Reply(q, p, i) \in PacketsFor(p[i])
<1>1. p[i] \in Node /\ i \in Nat
  BY PathFacts
<1> DEFINE r == Reply(q, p, i)
<1>2. r \in ReplyPk /\ r.path = p /\ r.next = i
  BY <1>1 DEF Reply, ReplyPk
<1> QED
  BY <1>1, <1>2 DEF PacketsFor

\* The type of a packet tells what it is.
LEMMA PacketFacts ==
    ASSUME NEW n \in Node, NEW pk \in PacketsFor(n)
    PROVE  /\ pk.type \in {"QUERY", "REPLY", "DATA"}
           /\ pk.type = "QUERY" => pk \in QueryPk
           /\ pk.type = "REPLY" => pk \in ReplyPk /\ pk.path[pk.next] = n
           /\ pk.type = "DATA"  => pk \in DataPk /\ pk.path[pk.next] = n
BY DEF PacketsFor, QueryPk, ReplyPk, DataPk

\* A query lists links of the network.
LEMMA QueryLinks ==
    ASSUME NEW q \in QueryPk
    PROVE  /\ Links(q.path) \subseteq Radio /\ q.src \in Source /\ q.src \in Node
           /\ q.seq \in Seqs /\ q.dst = Target[q.src] /\ q.dst \in Node
<1>1. /\ q.path \in Paths \cup Alone /\ q.src \in Source /\ q.seq \in Seqs
      /\ q.dst = Target[q.src] /\ q.dst \in Node
  BY DEF QueryPk
<1>2. CASE q.path \in Alone
  <2>1. PICK s \in Source : q.path = <<s>>
    BY <1>2 DEF Alone
  <2>2. Links(q.path) = {}
    BY <2>1 DEF Links
  <2> QED
    BY <1>1, <2>2, SRAssumption
<1> QED
  BY <1>1, <1>2, PathFacts, SRAssumption

-----------------------------------------------------------------------------
(* The steps and the types.                                                *)

LEMMA InitFits == SRInit => SRInv
<1> SUFFICES ASSUME SRInit PROVE SRInv
  OBVIOUS
<1>1. \A n \in Node : {l \in Radio : n \in {l[1], l[2]}} \in SUBSET Radio
  OBVIOUS
<1>2. table \in [Node -> SUBSET Radio]
  BY <1>1 DEF SRInit
<1>3. ChanOK(chan)
  BY DEF SRInit, ChanOK
<1>4. seq \in [Source -> Seqs]
  BY SRAssumption DEF SRInit, Seqs
<1>5. /\ seen \in [Node -> Seq(Entry)] /\ \A n \in Node : Len(seen[n]) <= SeenMax
      /\ answered \in [Node -> Seq(Answer)] /\ \A n \in Node : Len(answered[n]) <= SeenMax
  BY SRAssumption DEF SRInit
<1> QED
  BY <1>2, <1>3, <1>4, <1>5 DEF SRInit, SRInv, OwnRoutes

\* What push() sends, and the flood it starts.
LEMMA PushFits ==
    ASSUME SRInv, NEW s \in Source, push(s)
    PROVE  SRInv'
<1> DEFINE best == IF valid_route(table[s], route[s]) THEN route[s] ELSE <<>>
           path == IF Reconsider(s) THEN best ELSE cached[s]
           ch   == IF path = <<>> THEN chan ELSE Unicast(chan, s, path[2], Data(path, 2, {}))
<1>1. s \in Node /\ path \in OwnRoutes(s)
  <2>1. best \in OwnRoutes(s)
    BY DEF SRInv, OwnRoutes
  <2> QED
    BY <2>1, SRAssumption DEF SRInv
<1> HIDE DEF path, best
<1>2. ChanOK(ch)
  <2>1. CASE path = <<>>
    BY <2>1 DEF SRInv
  <2>2. CASE path # <<>>
    <3>1. path \in Paths /\ 2 \in 2 .. Len(path) /\ {} \subseteq Radio
      BY <1>1, <2>2, PathFacts DEF OwnRoutes
    <3>2. path[2] \in Node /\ Data(path, 2, {}) \in PacketsFor(path[2])
      BY <3>1, DataFits
    <3> QED
      BY <1>1, <2>2, <3>2, UnicastFits DEF SRInv
  <2> QED
    BY <2>1, <2>2
<1> HIDE DEF ch
<1>3. /\ queried' = [queried EXCEPT ![s] = TRUE]
      /\ cached'  = [cached EXCEPT ![s] = path]
      /\ fresh'   = [fresh EXCEPT ![s] = Reconsider(s) \/ @]
      /\ UNCHANGED net
  BY DEF push, path, best, ch
<1>4. \/ start_flood(s, ch) /\ waiting' = [waiting EXCEPT ![s] = TRUE]
      \/ chan' = ch /\ UNCHANGED <<waiting, floods, answered, tables>>
  BY DEF push, path, best, ch
<1>5. /\ queried' \in [Source -> BOOLEAN] /\ fresh' \in [Source -> BOOLEAN]
      /\ cached' = [x \in Source |-> cached'[x]] /\ \A x \in Source : cached'[x] \in OwnRoutes(x)
  BY <1>1, <1>3 DEF SRInv, Reconsider
<1>6. CASE start_flood(s, ch) /\ waiting' = [waiting EXCEPT ![s] = TRUE]
  <2>1. seq' \in [Source -> Seqs] /\ seq'[s] \in Seqs
    <3>1. seq[s] \in Seqs /\ SeqMod \in Nat /\ SeqMod > 0
      BY SRAssumption DEF SRInv
    <3>2. (seq[s] + 1) % SeqMod \in Seqs
      BY <3>1 DEF Seqs
    <3>3. seq' = [seq EXCEPT ![s] = (seq[s] + 1) % SeqMod]
      BY <1>6 DEF start_flood
    <3> HIDE DEF Seqs
    <3> QED
      BY <3>2, <3>3 DEF SRInv
  <2>2. <<s>> \in Alone /\ <<s>>[1] = s
    BY DEF Alone
  <2> DEFINE p == <<s>>
  <2>3. p \in Paths \cup Alone /\ p[1] = s
    BY <2>2
  <2> HIDE DEF p
  <2>4. Query(s, Target[s], seq'[s], p) \in QueryPk
    BY <2>1, <2>3, QueryFits
  <2>5. ChanOK(chan')
    BY <1>1, <1>2, <1>6, <2>4, BroadcastFits DEF start_flood, p
  <2>6. waiting' \in [Source -> BOOLEAN]
    BY <1>6 DEF SRInv
  <2> QED
    BY <1>3, <1>5, <1>6, <2>1, <2>5, <2>6 DEF SRInv, start_flood, tables, net, ChanOK
<1>7. CASE chan' = ch /\ UNCHANGED <<waiting, floods, answered, tables>>
  BY <1>2, <1>3, <1>5, <1>7 DEF SRInv, tables, floods, net, ChanOK
<1> QED
  BY <1>4, <1>6, <1>7

\* The entry of _seen whose timer fires, and what is sent.
LEMMA HookEffect ==
    ASSUME SRInv, NEW n \in Node, Hook(n)
    PROVE  \E i \in 1 .. Len(seen[n]) :
              LET e == seen[n][i]
                  p == BestRoute(table[n], e.src, n)
              IN  /\ e \in Entry /\ e.pending
                  /\ seen' \in [Node -> Seq(Entry)] /\ \A m \in Node \ {n} : seen'[m] = seen[m]
                  /\ Len(seen'[n]) = Len(seen[n])
                  /\ \A j \in 1 .. Len(seen[n]) :
                        IF j = i THEN /\ seen'[n][j].src = e.src /\ seen'[n][j].seq = e.seq
                                      /\ ~seen'[n][j].pending
                                 ELSE seen'[n][j] = seen[n][j]
                  /\ IF p = <<>> THEN chan' = chan
                       ELSE /\ p \in Paths /\ p[1] = e.src /\ p[Len(p)] = n
                            /\ Query(e.src, e.dst, e.seq, p) \in QueryPk
                            /\ chan' = Broadcast(chan, n, Query(e.src, e.dst, e.seq, p))
                  /\ UNCHANGED <<tables, querier, seq, answered, net>>
<1>1. PICK i \in Pending(n) : forward_query(n, i)
  BY DEF Hook
<1> DEFINE e  == seen[n][i]
           e2 == [e EXCEPT !.pending = FALSE]
           p  == BestRoute(table[n], e.src, n)
           s2 == [seen[n] EXCEPT ![i] = e2]
<1>2. i \in 1 .. Len(seen[n]) /\ e.pending /\ e \in Entry
  BY DEF Pending, SRInv
<1>3. e2 \in Entry /\ e2.src = e.src /\ e2.seq = e.seq /\ ~e2.pending
  BY <1>2 DEF Entry
<1>4. /\ e.src \in Source /\ e.src \in Node /\ e.dst = Target[e.src] /\ e.seq \in Seqs
  BY <1>2, SRAssumption DEF Entry
<1>5. seen' = [seen EXCEPT ![n] = s2]
  BY <1>1 DEF forward_query
<1> HIDE DEF e2
<1>6. s2 \in Seq(Entry) /\ Len(s2) = Len(seen[n]) /\ \A j \in 1 .. Len(seen[n]) : s2[j] = IF j = i THEN e2 ELSE seen[n][j]
  BY <1>2, <1>3 DEF SRInv
<1> HIDE DEF s2
<1>7. /\ seen' \in [Node -> Seq(Entry)] /\ \A m \in Node \ {n} : seen'[m] = seen[m]
      /\ seen'[n] = s2
  BY <1>5, <1>6 DEF SRInv
<1>8. ASSUME p # <<>>
      PROVE  p \in Paths /\ p[1] = e.src /\ p[Len(p)] = n /\ Query(e.src, e.dst, e.seq, p) \in QueryPk
  <2>1. p \in Routes(table[n], e.src, n)
    BY <1>4, <1>8, BestRouteFound
  <2>2. p \in Paths /\ p[1] = e.src /\ p[Len(p)] = n
    BY <1>4, <2>1, RoutesFacts
  <2> HIDE DEF p, e
  <2> QED
    BY <1>4, <2>2, QueryFits
<1>9. /\ chan' = IF p = <<>> THEN chan ELSE Broadcast(chan, n, Query(e.src, e.dst, e.seq, p))
      /\ UNCHANGED <<tables, querier, seq, answered, net>>
  BY <1>1 DEF forward_query
<1> QED
  BY <1>2, <1>3, <1>6, <1>7, <1>8, <1>9

LEMMA HookFits ==
    ASSUME SRInv, NEW n \in Node, Hook(n)
    PROVE  SRInv'
<1>1. PICK i \in 1 .. Len(seen[n]) :
          LET e == seen[n][i]
              p == BestRoute(table[n], e.src, n)
          IN  /\ seen' \in [Node -> Seq(Entry)] /\ \A m \in Node \ {n} : seen'[m] = seen[m]
              /\ Len(seen'[n]) = Len(seen[n])
              /\ IF p = <<>> THEN chan' = chan
                   ELSE /\ Query(e.src, e.dst, e.seq, p) \in QueryPk
                        /\ chan' = Broadcast(chan, n, Query(e.src, e.dst, e.seq, p))
              /\ UNCHANGED <<tables, querier, seq, answered, net>>
  BY HookEffect
<1>2. ChanOK(chan')
  BY <1>1, BroadcastFits DEF SRInv
<1>3. \A m \in Node : Len(seen'[m]) <= SeenMax
  BY <1>1 DEF SRInv
<1> QED
  BY <1>1, <1>2, <1>3 DEF SRInv, tables, querier, net, ChanOK

\* After a packet is taken from the network at most one goes back, not a query.
Sent(n, ch) ==
    \/ chan' = ch
    \/ \E m \in Node, pk \in ReplyPk \cup DataPk : chan' = Unicast(ch, n, m, pk)

\* start_reply() at the target of a query.
LEMMA StartReplyFits ==
    ASSUME SRInv, NEW n \in Node, NEW q \in QueryPk, q.dst = n, NEW t,
           NEW ch, ChanOK(ch), start_reply(n, q, t, ch)
    PROVE  /\ answered' \in [Node -> Seq(Answer)] /\ \A m \in Node : Len(answered'[m]) <= SeenMax
           /\ ChanOK(chan')
           /\ Sent(n, ch)
<1> DEFINE best == BestRoute(t, q.src, n)
           a    == answered[n]
           same == {i \in 1 .. Len(a) : a[i].src = q.src /\ a[i].seq = q.seq}
           last == IF same = {} THEN <<>> ELSE a[CHOOSE i \in same : TRUE].path
           e    == [src |-> q.src, seq |-> q.seq, path |-> best]
           a2   == IF same = {} THEN Remember(a, e) ELSE [i \in 1 .. Len(a) |-> IF i \in same THEN e ELSE a[i]]
<1>1. q.src \in Source /\ q.src \in Node /\ q.seq \in Seqs /\ n = Target[q.src]
  BY QueryLinks
<1>2. best = <<>> \/ (best \in Paths /\ best[1] = q.src /\ best[Len(best)] = n)
  BY <1>1, BestRouteFound, RoutesFacts
<1>3. /\ answered' = [answered EXCEPT ![n] = a2]
      /\ chan' = IF best \in {last, <<>>} THEN ch
                 ELSE Unicast(ch, n, best[Len(best) - 1], Reply(q.seq, best, Len(best) - 1))
  BY DEF start_reply
<1> HIDE DEF best, last
<1>4. e \in Answer
  BY <1>1, <1>2 DEF Answer
<1> HIDE DEF e
<1>5. a \in Seq(Answer) /\ Len(a) <= SeenMax
  BY DEF SRInv
<1>6. a2 \in Seq(Answer) /\ Len(a2) <= SeenMax
  <2>1. CASE same = {}
    <3>1. a2 = Remember(a, e)
      BY <2>1
    <3> HIDE DEF a, a2
    <3> QED
      BY <1>4, <1>5, <3>1, RememberFits
  <2>2. CASE same # {}
    <3> HIDE DEF a, same
    <3>1. a2 \in Seq(Answer) /\ Len(a2) = Len(a)
      BY <1>4, <1>5, <2>2
    <3> QED
      BY <1>5, <3>1
  <2> QED
    BY <2>1, <2>2
<1> HIDE DEF a2
<1>7. answered' \in [Node -> Seq(Answer)] /\ \A m \in Node : Len(answered'[m]) <= SeenMax
  BY <1>3, <1>6 DEF SRInv
<1>8. CASE chan' = ch
  BY <1>7, <1>8 DEF Sent
<1>9. CASE chan' # ch
  <2> DEFINE k  == Len(best) - 1
             pk == Reply(q.seq, best, k)
  <2>1. best # <<>> /\ chan' = Unicast(ch, n, best[k], pk)
    BY <1>3, <1>9
  <2>2. best \in Paths /\ best[1] \in Source /\ best[Len(best)] = Target[best[1]]
    BY <1>1, <1>2, <2>1
  <2>3. k \in 1 .. Len(best) - 1
    BY <2>2, PathFacts
  <2> HIDE DEF k
  <2>4. best[k] \in Node /\ pk \in PacketsFor(best[k])
    BY <1>1, <2>2, <2>3, ReplyFits
  <2>5. pk \in ReplyPk
    <3>1. pk.type = "REPLY"
      BY DEF Reply
    <3> HIDE DEF pk
    <3> QED
      BY <2>4, <3>1, PacketFacts
  <2>6. ChanOK(chan')
    <3> HIDE DEF pk
    <3> QED
      BY <2>1, <2>4, UnicastFits
  <2> QED
    BY <1>7, <2>1, <2>4, <2>5, <2>6 DEF Sent
<1> QED
  BY <1>8, <1>9

\* process_flood(): a query that is new enters _seen.
LEMMA ProcessFloodEffect ==
    ASSUME SRInv, NEW n \in Node, NEW q \in QueryPk, NEW ch, ChanOK(ch), process_flood(n, q, ch)
    PROVE  /\ table' \in [Node -> SUBSET Radio]
           /\ answered' \in [Node -> Seq(Answer)] /\ \A m \in Node : Len(answered'[m]) <= SeenMax
           /\ ChanOK(chan')
           /\ Sent(n, ch)
           /\ \/ Known(n, q) /\ seen' = seen
              \/ /\ ~Known(n, q)
                 /\ \E e \in Entry : /\ e.src = q.src /\ e.seq = q.seq
                                     /\ seen' = [seen EXCEPT ![n] = Remember(@, e)]
           /\ UNCHANGED <<route, querier, seq>>
<1> DEFINE t == Learn(n, Links(q.path))
           e == [src |-> q.src, dst |-> q.dst, seq |-> q.seq, pending |-> q.dst # n]
<1>1. t \subseteq Radio /\ e \in Entry /\ e.src = q.src /\ e.seq = q.seq
  BY QueryLinks, LearnFits DEF Entry
<1>2. /\ table' = [table EXCEPT ![n] = t]
      /\ UNCHANGED <<route, querier, seq>>
  BY DEF process_flood
<1> HIDE DEF t
<1>3. table' \in [Node -> SUBSET Radio]
  BY <1>1, <1>2 DEF SRInv
<1>4. CASE Known(n, q)
  <2>1. chan' = ch /\ UNCHANGED <<seen, answered>>
    BY <1>4 DEF process_flood
  <2> QED
    BY <1>2, <1>3, <1>4, <2>1 DEF SRInv, Sent
<1>5. CASE ~Known(n, q)
  <2>1. seen' = [seen EXCEPT ![n] = Remember(@, e)]
    BY <1>5 DEF process_flood
  <2>2. IF q.dst = n THEN start_reply(n, q, t, ch) ELSE chan' = ch /\ UNCHANGED answered
    BY <1>5 DEF process_flood, t
  <2> HIDE DEF e
  <2>3. /\ answered' \in [Node -> Seq(Answer)] /\ \A m \in Node : Len(answered'[m]) <= SeenMax
        /\ ChanOK(chan')
        /\ Sent(n, ch)
    <3>1. CASE q.dst = n
      BY <2>2, <3>1, StartReplyFits
    <3>2. CASE q.dst # n
      BY <2>2, <3>2 DEF SRInv, Sent
    <3> QED
      BY <3>1, <3>2
  <2> QED
    BY <1>1, <1>2, <1>3, <1>5, <2>1, <2>3
<1> QED
  BY <1>4, <1>5

\* The same of the state as a whole.
LEMMA ProcessFloodFits ==
    ASSUME SRInv, NEW n \in Node, NEW q \in QueryPk, NEW ch, ChanOK(ch), process_flood(n, q, ch),
           UNCHANGED net
    PROVE  SRInv'
<1>1. /\ table' \in [Node -> SUBSET Radio]
      /\ answered' \in [Node -> Seq(Answer)] /\ \A m \in Node : Len(answered'[m]) <= SeenMax
      /\ ChanOK(chan') /\ UNCHANGED <<route, querier, seq>>
  BY ProcessFloodEffect
<1>2. seen' \in [Node -> Seq(Entry)] /\ \A m \in Node : Len(seen'[m]) <= SeenMax
  <2>1. CASE seen' = seen
    BY <2>1 DEF SRInv
  <2>2. CASE \E e \in Entry : seen' = [seen EXCEPT ![n] = Remember(@, e)]
    <3>1. PICK e \in Entry : seen' = [seen EXCEPT ![n] = Remember(@, e)]
      BY <2>2
    <3> DEFINE s == seen[n]
    <3>2. s \in Seq(Entry) /\ Len(s) <= SeenMax
      BY DEF SRInv
    <3> HIDE DEF s
    <3>3. Remember(s, e) \in Seq(Entry) /\ Len(Remember(s, e)) <= SeenMax
      BY <3>2, RememberFits
    <3>4. seen' = [seen EXCEPT ![n] = Remember(s, e)]
      BY <3>1 DEF s
    <3> QED
      BY <3>3, <3>4 DEF SRInv
  <2> QED
    BY <2>1, <2>2, ProcessFloodEffect
<1> QED
  BY <1>1, <1>2 DEF SRInv, querier, net, ChanOK

\* reply() sends the reply one hop back.
LEMMA ReplyStep ==
    ASSUME SRInv, NEW n \in Node, NEW r \in ReplyPk, r.path[r.next] = n,
           NEW ch, ChanOK(ch), reply(n, r, ch), UNCHANGED net
    PROVE  SRInv' /\ Sent(n, ch)
<1> DEFINE t == Learn(n, Links(r.path))
           r2 == [r EXCEPT !.next = NextHop(r)]
           m == r.path[NextHop(r)]
<1>1. /\ r.path \in Paths /\ r.path[1] \in Source /\ r.path[Len(r.path)] = Target[r.path[1]]
      /\ r.next \in 1 .. Len(r.path) - 1 /\ Len(r.path) \in Nat
  BY PathFacts DEF ReplyPk
<1>2. t \subseteq Radio
  BY <1>1, PathFacts, LearnFits
<1>3. /\ table' = [table EXCEPT ![n] = t] /\ dijkstra(n, t)
      /\ chan' = IF r.next = 1 THEN ch ELSE Unicast(ch, n, m, r2)
      /\ UNCHANGED <<querier, floods, answered>>
  BY DEF reply
<1> HIDE DEF t
<1>4. ChanOK(chan') /\ Sent(n, ch)
  <2>1. CASE r.next = 1
    BY <1>3, <2>1 DEF Sent
  <2>2. CASE r.next # 1
    <3> DEFINE k == NextHop(r)
    <3>1. k \in 1 .. Len(r.path) - 1 /\ k \in Nat
      BY <1>1, <2>2 DEF NextHop
    <3>2. r2 \in ReplyPk /\ r2.path = r.path /\ r2.next = k
      <4> HIDE DEF k
      <4> QED
        BY <1>1, <3>1 DEF ReplyPk, k
    <3>3. m \in Node
      BY <1>1, <3>1, PathFacts
    <3>4. r2 \in PacketsFor(m)
      <4> HIDE DEF r2
      <4> QED
        BY <3>2 DEF PacketsFor
    <3> HIDE DEF r2, m
    <3>5. ChanOK(Unicast(ch, n, m, r2))
      BY <3>3, <3>4, UnicastFits
    <3> QED
      BY <1>3, <2>2, <3>2, <3>3, <3>5 DEF Sent
  <2> QED
    BY <2>1, <2>2
<1>5. table' \in [Node -> SUBSET Radio]
  BY <1>2, <1>3 DEF SRInv
<1>6. route' = [s \in Source |-> route'[s]] /\ \A s \in Source : route'[s] \in OwnRoutes(s)
  BY <1>3, DijkstraFits
<1> QED
  BY <1>3, <1>4, <1>5, <1>6 DEF SRInv, querier, floods, net, ChanOK

\* forward() of either version sends the data one hop on.
LEMMA ForwardStep ==
    ASSUME SRInv, NEW n \in Node, NEW d \in DataPk, d.path[d.next] = n,
           NEW ch, ChanOK(ch), forward(n, d, ch) \/ SR2Forwarder_push(n, d, ch), UNCHANGED net
    PROVE  SRInv' /\ Sent(n, ch) /\ UNCHANGED <<route, querier, floods>>
<1> DEFINE t   == Learn(n, d.known)
           hop == <<d.path[d.next - 1], n>>
           k   == d.next + 1
           m   == d.path[k]
<1>1. /\ d.path \in Paths /\ d.next \in 2 .. Len(d.path) /\ d.known \subseteq Radio
      /\ Len(d.path) \in Nat
  BY PathFacts DEF DataPk
<1>2. t \subseteq Radio
  BY <1>1, LearnFits
<1> HIDE DEF t
<1>3. /\ table' \in [Node -> SUBSET Radio]
      /\ UNCHANGED <<route, querier, floods, answered>>
  <2>1. CASE forward(n, d, ch)
    <3>1. table' = [table EXCEPT ![n] = t] /\ UNCHANGED <<route, querier, floods, answered>>
      BY <2>1 DEF forward, t
    <3> QED
      BY <1>2, <3>1 DEF SRInv
  <2>2. CASE SR2Forwarder_push(n, d, ch)
    BY <2>2 DEF SR2Forwarder_push, tables, SRInv
  <2> QED
    BY <2>1, <2>2
<1>4. \/ chan' = ch
      \/ d.next # Len(d.path) /\ chan' = Unicast(ch, n, m, Data(d.path, k, d.known \cup ({hop} \cap t)))
      \/ d.next # Len(d.path) /\ chan' = Unicast(ch, n, m, Data(d.path, k, {}))
  BY DEF forward, SR2Forwarder_push, t
<1>5. ChanOK(chan') /\ Sent(n, ch)
  <2>1. CASE chan' = ch
    BY <2>1 DEF Sent
  <2>2. CASE chan' # ch
    <3>1. PICK l : /\ l \subseteq Radio /\ d.next # Len(d.path)
                   /\ chan' = Unicast(ch, n, m, Data(d.path, k, l))
      <4>1. d.known \cup ({hop} \cap t) \subseteq Radio /\ {} \subseteq Radio
        BY <1>1, <1>2
      <4> QED
        BY <1>4, <2>2, <4>1
    <3>2. k \in 2 .. Len(d.path)
      BY <1>1, <3>1
    <3> DEFINE pk == Data(d.path, k, l)
    <3> HIDE DEF k
    <3>3. m \in Node /\ pk \in PacketsFor(m)
      BY <1>1, <3>1, <3>2, DataFits
    <3>4. pk.type = "DATA"
      BY DEF Data
    <3> HIDE DEF pk
    <3>5. pk \in DataPk /\ ChanOK(Unicast(ch, n, m, pk))
      BY <3>3, <3>4, PacketFacts, UnicastFits
    <3> QED
      BY <3>1, <3>3, <3>5 DEF Sent, pk
  <2> QED
    BY <2>1, <2>2
<1> QED
  BY <1>3, <1>5 DEF SRInv, querier, floods, net, ChanOK

-----------------------------------------------------------------------------
(* A packet is received by either version.                                 *)

Taken(n) == [chan EXCEPT ![n] = Tail(@)]

\* What arrives, and which element it goes to.
LEMMA ReceiveEffect ==
    ASSUME SRInv, NEW n \in Node, Receive(n) \/ SR2MetricFlood_push(n)
    PROVE  LET pk == Head(chan[n])
               ch == Taken(n)
           IN  /\ chan[n] # <<>> /\ ChanOK(ch) /\ pk \in PacketsFor(n) /\ UNCHANGED net
               /\ \/ pk \in QueryPk /\ process_flood(n, pk, ch)
                  \/ pk \in ReplyPk /\ pk.path[pk.next] = n /\ reply(n, pk, ch)
                  \/ /\ pk \in DataPk /\ pk.path[pk.next] = n
                     /\ forward(n, pk, ch) \/ SR2Forwarder_push(n, pk, ch)
<1> DEFINE pk == Head(chan[n])
           ch == Taken(n)
<1>1. chan[n] # <<>> /\ UNCHANGED net
  BY DEF Receive, SR2MetricFlood_push
<1>2. ChanOK(ch) /\ pk \in PacketsFor(n)
  <2>1. ChanOK(chan)
    BY DEF SRInv
  <2> QED
    BY <1>1, <2>1, TailFits DEF Taken
<1>3. \/ pk.type = "QUERY" /\ process_flood(n, pk, ch)
      \/ pk.type = "REPLY" /\ reply(n, pk, ch)
      \/ pk.type = "DATA" /\ (forward(n, pk, ch) \/ SR2Forwarder_push(n, pk, ch))
  <2>1. pk.type \in {"QUERY", "REPLY", "DATA"}
    BY <1>2, PacketFacts
  <2>2. CASE Receive(n)
    BY <2>1, <2>2 DEF Receive, Taken
  <2>3. CASE SR2MetricFlood_push(n)
    BY <2>1, <2>3
    DEF SR2MetricFlood_push, SR2MetricFlood_process_flood, SR2QueryResponder_push, Taken
  <2> QED
    BY <2>2, <2>3
<1> HIDE DEF pk, ch
<1>4. /\ pk.type = "QUERY" => pk \in QueryPk
      /\ pk.type = "REPLY" => pk \in ReplyPk /\ pk.path[pk.next] = n
      /\ pk.type = "DATA"  => pk \in DataPk /\ pk.path[pk.next] = n
  BY <1>2, PacketFacts
<1>5. /\ chan[n] # <<>> /\ ChanOK(ch) /\ pk \in PacketsFor(n) /\ UNCHANGED net
      /\ \/ pk \in QueryPk /\ process_flood(n, pk, ch)
         \/ pk \in ReplyPk /\ pk.path[pk.next] = n /\ reply(n, pk, ch)
         \/ /\ pk \in DataPk /\ pk.path[pk.next] = n
            /\ forward(n, pk, ch) \/ SR2Forwarder_push(n, pk, ch)
  BY <1>1, <1>2, <1>3, <1>4
<1> QED
  BY <1>5 DEF pk, ch

LEMMA ReceiveFits ==
    ASSUME SRInv, NEW n \in Node, Receive(n) \/ SR2MetricFlood_push(n)
    PROVE  SRInv' /\ Sent(n, Taken(n))
<1> DEFINE pk == Head(chan[n])
           ch == Taken(n)
<1>1. /\ chan[n] # <<>> /\ ChanOK(ch) /\ pk \in PacketsFor(n) /\ UNCHANGED net
      /\ \/ pk \in QueryPk /\ process_flood(n, pk, ch)
         \/ pk \in ReplyPk /\ pk.path[pk.next] = n /\ reply(n, pk, ch)
         \/ /\ pk \in DataPk /\ pk.path[pk.next] = n
            /\ forward(n, pk, ch) \/ SR2Forwarder_push(n, pk, ch)
  BY ReceiveEffect
<1> HIDE DEF pk, ch
<1>2. CASE pk \in QueryPk /\ process_flood(n, pk, ch)
  BY <1>1, <1>2, ProcessFloodFits, ProcessFloodEffect DEF ch
<1>3. CASE pk \in ReplyPk /\ pk.path[pk.next] = n /\ reply(n, pk, ch)
  BY <1>1, <1>3, ReplyStep DEF ch
<1>4. CASE /\ pk \in DataPk /\ pk.path[pk.next] = n
           /\ forward(n, pk, ch) \/ SR2Forwarder_push(n, pk, ch)
  BY <1>1, <1>4, ForwardStep DEF ch
<1> QED
  BY <1>1, <1>2, <1>3, <1>4

-----------------------------------------------------------------------------
(* The other steps.                                                        *)

LEMMA LoseEffect ==
    ASSUME SRInv, NEW n \in Node, Lose(n)
    PROVE  /\ chan[n] # <<>> /\ chan' = Taken(n) /\ ChanOK(chan') /\ faults' = faults + 1
           /\ UNCHANGED <<tables, querier, floods, answered, up>>
<1>1. chan[n] # <<>> /\ chan' = Taken(n) /\ ChanOK(chan)
  BY DEF Lose, Taken, SRInv
<1>2. ChanOK(Taken(n))
  BY <1>1, TailFits DEF Taken
<1> QED
  BY <1>1, <1>2 DEF Lose

LEMMA LinkTimerFits ==
    ASSUME SRInv, NEW n \in Node, LinkTimer(n)
    PROVE  SRInv'
<1>1. table' \in [Node -> SUBSET Radio]
  BY DEF LinkTimer, SRInv
<1>2. route' = [s \in Source |-> route'[s]] /\ \A s \in Source : route'[s] \in OwnRoutes(s)
  BY DijkstraFits DEF LinkTimer
<1> QED
  BY <1>1, <1>2 DEF LinkTimer, SRInv, querier, floods, net, ChanOK

\* The steps of a network of either version.
AnyStep ==
    \/ \E s \in Source : push(s) \/ WaitOver(s) \/ SwitchTime(s)
    \/ \E n \in Node : \/ Receive(n) \/ SR2MetricFlood_push(n)
                       \/ Hook(n) \/ LinkTimer(n) \/ Lose(n)
    \/ Break
    \/ UNCHANGED srVars

LEMMA EitherVersion == [SRNext]_srVars \/ [SR2Next]_srVars => AnyStep
BY DEF SRNext, SR2Next, AnyStep, Offer, SR2Offer, SR2Querier_push, Hook,
       SR2MetricFlood_forward_query_hook, SR2MetricFlood_forward_query

LEMMA StepFits ==
    ASSUME SRInv, AnyStep
    PROVE  SRInv'
<1>1. ASSUME NEW s \in Source, push(s) PROVE SRInv'
  BY <1>1, PushFits
<1>2. ASSUME NEW s \in Source, WaitOver(s) PROVE SRInv'
  BY <1>2 DEF WaitOver, SRInv, tables, floods, net, ChanOK
<1>3. ASSUME NEW s \in Source, SwitchTime(s) PROVE SRInv'
  BY <1>3 DEF SwitchTime, SRInv, tables, floods, net, ChanOK
<1>4. ASSUME NEW n \in Node, Receive(n) \/ SR2MetricFlood_push(n) PROVE SRInv'
  BY <1>4, ReceiveFits
<1>5. ASSUME NEW n \in Node, Hook(n) PROVE SRInv'
  BY <1>5, HookFits
<1>6. ASSUME NEW n \in Node, LinkTimer(n) PROVE SRInv'
  BY <1>6, LinkTimerFits
<1>7. ASSUME NEW n \in Node, Lose(n) PROVE SRInv'
  <2>1. /\ ChanOK(chan') /\ faults' = faults + 1
        /\ UNCHANGED <<tables, querier, floods, answered, up>>
    BY <1>7, LoseEffect
  <2> QED
    BY <2>1 DEF SRInv, tables, querier, floods, ChanOK
<1>8. ASSUME Break PROVE SRInv'
  BY <1>8 DEF Break, SRInv, tables, querier, floods, ChanOK
<1>9. ASSUME UNCHANGED srVars PROVE SRInv'
  BY <1>9 DEF srVars, SRInv, tables, querier, floods, net, ChanOK
<1> QED
  BY <1>1, <1>2, <1>3, <1>4, <1>5, <1>6, <1>7, <1>8, <1>9 DEF AnyStep

LEMMA TypesHold == SRSpec \/ SR2Spec => []SRInv
<1>1. SRInit => SRInv
  BY InitFits
<1>2. SRInv /\ [SRNext]_srVars => SRInv'
  BY EitherVersion, StepFits
<1>3. SRInv /\ [SR2Next]_srVars => SRInv'
  BY EitherVersion, StepFits
<1> QED
  BY <1>1, <1>2, <1>3, PTL DEF SRSpec, SR2Spec

\* In both versions, whatever is lost or breaks: the tables have links of the
\* network and stay within their bounds, a cached path is a path, and every
\* packet is one of the three kinds.
THEOREM SRTypeCorrect == SRSpec \/ SR2Spec => []SRTypeOK
<1>1. SRInv => SRTypeOK
  <2> SUFFICES ASSUME SRInv PROVE SRTypeOK
    OBVIOUS
  <2>1. ASSUME NEW n \in Node, NEW pk \in Items(n) PROVE pk.type \in {"QUERY", "REPLY", "DATA"}
    <3> DEFINE P == PacketsFor(n)
    <3>1. chan[n] \in Seq(P)
      BY DEF SRInv, ChanOK
    <3> HIDE DEF P
    <3>2. pk \in P
      BY <2>1, <3>1 DEF Items
    <3> QED
      BY <3>2, PacketFacts DEF P
  <2> QED
    BY <2>1 DEF SRInv, SRTypeOK, OwnRoutes, Seqs
<1> QED
  BY <1>1, TypesHold, PTL

-----------------------------------------------------------------------------
(* Replies.                                                                *)

In(ch, n) == {ch[n][i] : i \in 1 .. Len(ch[n])}

\* Sending takes nothing away.
LEMMA SendingKeeps ==
    ASSUME NEW ch, ChanOK(ch), NEW n \in Node, NEW m \in Node, NEW k \in Node, NEW pk
    PROVE  In(ch, k) \subseteq In(Broadcast(ch, n, pk), k) /\ In(ch, k) \subseteq In(Unicast(ch, n, m, pk), k)
<1> DEFINE c == ch[k]
           P == PacketsFor(k)
<1>1. c \in Seq(P)
  BY DEF ChanOK
<1> HIDE DEF P, c
<1>2. Len(Append(c, pk)) = Len(c) + 1 /\ \A i \in 1 .. Len(c) : Append(c, pk)[i] = c[i]
  BY <1>1
<1>3. \A x : (x = c \/ x = Append(c, pk)) => \A i \in 1 .. Len(c) : i \in 1 .. Len(x) /\ x[i] = c[i]
  <2>1. Len(c) \in Nat
    BY <1>1
  <2> QED
    BY <1>2, <2>1
<1>4. Broadcast(ch, n, pk)[k] \in {c, Append(c, pk)} /\ Unicast(ch, n, m, pk)[k] \in {c, Append(c, pk)}
  BY DEF Broadcast, Unicast, ChanOK, c
<1>5. \A d : d[k] \in {c, Append(c, pk)} => In(ch, k) \subseteq In(d, k)
  BY <1>3 DEF In, c
<1> QED
  BY <1>4, <1>5

\* Taking a packet takes only that one.
LEMMA TakenKeeps ==
    ASSUME SRInv, NEW n \in Node, chan[n] # <<>>, NEW k \in Node, NEW pk \in In(chan, k)
    PROVE  pk \in In(Taken(n), k) \/ (k = n /\ pk = Head(chan[n]))
<1> DEFINE c == chan[n]
           P == PacketsFor(n)
<1>1. c \in Seq(P) /\ c # <<>>
  BY DEF ChanOK, SRInv
<1> HIDE DEF P, c
<1>2. /\ Len(Tail(c)) = Len(c) - 1 /\ Len(c) \in Nat /\ Head(c) = c[1]
      /\ \A i \in 1 .. Len(c) - 1 : Tail(c)[i] = c[i + 1]
  BY <1>1
<1>3. CASE k = n
  <2>1. PICK i \in 1 .. Len(c) : pk = c[i]
    BY <1>3 DEF In, c
  <2>2. CASE i = 1
    BY <1>2, <1>3, <2>1, <2>2 DEF c
  <2>3. CASE i # 1
    <3>1. i - 1 \in 1 .. Len(Tail(c)) /\ Tail(c)[i - 1] = pk
      BY <1>2, <2>1, <2>3
    <3>2. Taken(n)[k] = Tail(c)
      BY <1>3 DEF Taken, SRInv, ChanOK, c
    <3> QED
      BY <3>1, <3>2 DEF In
  <2> QED
    BY <2>2, <2>3
<1>4. CASE k # n
  <2>1. Taken(n)[k] = chan[k]
    BY <1>4 DEF Taken, SRInv, ChanOK
  <2> QED
    BY <2>1 DEF In
<1> QED
  BY <1>3, <1>4

\* A packet is gone only if it was received or lost.
LEMMA GoneIsTaken ==
    ASSUME SRInv, AnyStep, NEW k \in Node, NEW pk \in Items(k), pk \notin Items(k)', faults' = faults
    PROVE  pk = Head(chan[k]) /\ (Receive(k) \/ SR2MetricFlood_push(k))
<1>1. ChanOK(chan) /\ pk \in In(chan, k) /\ pk \notin In(chan', k) /\ faults \in Nat
  BY DEF SRInv, Items, In
<1>2. ASSUME NEW s \in Source, push(s) PROVE In(chan, k) \subseteq In(chan', k)
  <2> DEFINE best == IF valid_route(table[s], route[s]) THEN route[s] ELSE <<>>
             path == IF Reconsider(s) THEN best ELSE cached[s]
             ch   == IF path = <<>> THEN chan ELSE Unicast(chan, s, path[2], Data(path, 2, {}))
  <2>1. chan' = ch \/ chan' = Broadcast(ch, s, Query(s, Target[s], seq'[s], <<s>>))
    BY <1>2 DEF push, start_flood
  <2>2. s \in Node /\ ChanOK(ch) /\ In(chan, k) \subseteq In(ch, k)
    <3>1. path = <<>> \/ path \in Paths
      BY DEF SRInv, OwnRoutes
    <3> HIDE DEF path
    <3>2. CASE path = <<>>
      BY <1>1, <3>2, SRAssumption
    <3>3. CASE path # <<>>
      <4>1. path \in Paths /\ 2 \in 2 .. Len(path) /\ {} \subseteq Radio
        BY <3>1, <3>3, PathFacts
      <4>2. path[2] \in Node /\ Data(path, 2, {}) \in PacketsFor(path[2])
        BY <4>1, DataFits
      <4>3. s \in Node
        BY SRAssumption
      <4> QED
        BY <1>1, <3>3, <4>2, <4>3, UnicastFits, SendingKeeps
    <3> QED
      BY <3>2, <3>3
  <2> HIDE DEF ch
  <2> QED
    BY <2>1, <2>2, SendingKeeps
<1>3. ASSUME NEW n \in Node, Hook(n) PROVE In(chan, k) \subseteq In(chan', k)
  <2>1. chan' = chan \/ \E q : chan' = Broadcast(chan, n, q)
    BY <1>3, HookEffect
  <2> QED
    BY <1>1, <2>1, SendingKeeps
<1>4. ASSUME NEW n \in Node, Receive(n) \/ SR2MetricFlood_push(n)
      PROVE  n = k /\ pk = Head(chan[k])
  <2>1. Sent(n, Taken(n)) /\ ChanOK(Taken(n)) /\ chan[n] # <<>>
    BY <1>4, ReceiveFits, ReceiveEffect
  <2>2. In(Taken(n), k) \subseteq In(chan', k)
    BY <2>1, SendingKeeps DEF Sent
  <2> QED
    BY <1>1, <2>1, <2>2, TakenKeeps
<1>5. \A n \in Node : ~Lose(n)
  BY <1>1 DEF Lose
<1>6. ~Break
  BY <1>1 DEF Break
<1>7. chan' # chan
  BY <1>1
<1>8. /\ \A s \in Source : ~WaitOver(s) /\ ~SwitchTime(s)
      /\ \A n \in Node : ~LinkTimer(n)
      /\ ~UNCHANGED srVars
  BY <1>7 DEF WaitOver, SwitchTime, LinkTimer, srVars
<1> QED
  BY <1>1, <1>2, <1>3, <1>4, <1>5, <1>6, <1>8 DEF AnyStep

\* reply() at the node that asked finds at least the path of the reply.
LEMMA ReplyGivesRoute ==
    ASSUME SRInv, NEW s \in Source, NEW r \in ReplyPk, r.path[r.next] = s, r.next = 1,
           NEW ch, reply(s, r, ch)
    PROVE  route'[s] # <<>>
<1> DEFINE t == Learn(s, Links(r.path))
<1>1. r.path \in Paths /\ r.path[1] = s /\ r.path[Len(r.path)] = Target[s]
  BY DEF ReplyPk
<1>2. s \in Node /\ Target[s] \in Node
  BY SRAssumption
<1>3. Links(r.path) \subseteq t
  BY <1>1, <1>2, PathFacts, LearnFits
<1>4. dijkstra(s, t)
  BY DEF reply
<1> HIDE DEF t
<1>5. r.path \in Routes(t, s, Target[s])
  BY <1>1, <1>2, <1>3, RoutesFacts
<1>6. BestRoute(t, s, Target[s]) \in Paths
  BY <1>2, <1>5, BestRouteFound, RoutesFacts
<1>7. BestRoute(t, s, Target[s]) # <<>>
  BY <1>6, PathFacts
<1> QED
  BY <1>4, <1>7 DEF dijkstra, SRInv

\* In both versions: when a reply is taken at the node that asked, and not by
\* a loss, got_reply() leaves the node with a path to its target.
THEOREM RepliesMeanRoutes == SRSpec \/ SR2Spec => ReplyMeansRoute
<1> DEFINE Routed ==
      \A s \in Source : \A pk \in Items(s) :
          pk.type = "REPLY" /\ pk.next = 1 /\ pk \notin Items(s)' /\ faults' = faults
              => route'[s] # <<>>
<1>1. ASSUME SRInv, AnyStep PROVE Routed
  <2> SUFFICES ASSUME NEW s \in Source, NEW pk \in Items(s), pk.type = "REPLY", pk.next = 1,
                      pk \notin Items(s)', faults' = faults
               PROVE  route'[s] # <<>>
    OBVIOUS
  <2>1. s \in Node
    BY SRAssumption
  <2>2. pk = Head(chan[s]) /\ (Receive(s) \/ SR2MetricFlood_push(s))
    BY <1>1, <2>1, GoneIsTaken
  <2>3. pk \in PacketsFor(s)
    BY <1>1, <2>1, <2>2, ReceiveEffect
  <2>4. pk \in ReplyPk /\ pk.path[pk.next] = s
    BY <2>1, <2>3, PacketFacts
  <2>5. reply(s, pk, Taken(s))
    <3>1. CASE Receive(s)
      BY <2>2, <3>1 DEF Receive, Taken
    <3>2. CASE SR2MetricFlood_push(s)
      BY <2>2, <3>2 DEF SR2MetricFlood_push, SR2QueryResponder_push, Taken
    <3> QED
      BY <2>2, <3>1, <3>2
  <2> QED
    BY <1>1, <2>4, <2>5, ReplyGivesRoute
<1>2. SRInv /\ [SRNext]_srVars => [Routed]_srVars
  BY <1>1, EitherVersion
<1>3. SRInv /\ [SR2Next]_srVars => [Routed]_srVars
  BY <1>1, EitherVersion
<1> QED
  BY <1>2, <1>3, TypesHold, PTL DEF SRSpec, SR2Spec, ReplyMeansRoute

-----------------------------------------------------------------------------
(* Floods.  A source floods again only when its last flood is over, so the *)
(* copies on the air are of its current question.  Who sent a copy has an  *)
(* entry of _seen that says so, and _seen keeps that entry: what was added *)
(* since belongs to other floods that are not over, of other sources.      *)

Sender(q) == q.path[Len(q.path)]

\* The entry i of n and those after it are of floods that are not over.
Recent(n, i) ==
    \A j \in i .. Len(seen[n]) :
        waiting[seen[n][j].src] /\ seen[n][j].seq = seq[seen[n][j].src]

\* n has sent its copy of the question of x.
SentBy(n, x) ==
    \E i \in 1 .. Len(seen[n]) : seen[n][i].src = x /\ ~seen[n][i].pending /\ Recent(n, i)

SeenSafe(n) ==
    /\ \A i \in 1 .. Len(seen[n]) : seen[n][i].pending => Recent(n, i)
    /\ \A i, j \in 1 .. Len(seen[n]) :
          seen[n][i].src = seen[n][j].src /\ seen[n][i].seq = seen[n][j].seq => i = j

CopyOK(pk) ==
    pk.type = "QUERY" =>
        /\ pk.seq = seq[pk.src] /\ waiting[pk.src]
        /\ Sender(pk) # pk.src => SentBy(Sender(pk), pk.src)

\* A queue has one copy of a question from one sender.
Same(q, r) == q.type = "QUERY" /\ r.type = "QUERY" /\ q.src = r.src /\ Sender(q) = Sender(r)
Single(c)  == \A i, j \in 1 .. Len(c) : Same(c[i], c[j]) => i = j

FloodInv ==
    /\ SRInv
    /\ \A n \in Node : SeenSafe(n)
    /\ \A n \in Node : \A pk \in In(chan, n) : CopyOK(pk)
    /\ \A n \in Node : Single(chan[n])

\* _seen has room for the floods of all sources at once.
Room == Cardinality(Source) <= SeenMax

LEMMA SourcesFinite == IsFiniteSet(Source) /\ Cardinality(Source) \in Nat
<1>1. Source \subseteq Node /\ IsFiniteSet(Node)
  BY SRAssumption
<1> QED
  BY <1>1, FS_Subset, FS_CardinalityType

-----------------------------------------------------------------------------
(* What a step does to the queues.                                         *)

LEMMA AppendSingle ==
    ASSUME NEW P, NEW c \in Seq(P), Single(c), NEW pk,
           \A q \in {c[i] : i \in 1 .. Len(c)} : ~Same(q, pk) /\ ~Same(pk, q)
    PROVE  Single(Append(c, pk))
<1> DEFINE d == Append(c, pk)
<1>1. /\ Len(d) = Len(c) + 1 /\ Len(c) \in Nat /\ d[Len(c) + 1] = pk
      /\ \A i \in 1 .. Len(c) : d[i] = c[i]
  OBVIOUS
<1> HIDE DEF d
<1>2. ASSUME NEW i \in 1 .. Len(d), NEW j \in 1 .. Len(d), Same(d[i], d[j])
      PROVE  i = j
  <2>1. (i \in 1 .. Len(c) \/ i = Len(c) + 1) /\ (j \in 1 .. Len(c) \/ j = Len(c) + 1)
    BY <1>1
  <2>2. CASE i \in 1 .. Len(c) /\ j \in 1 .. Len(c)
    BY <1>1, <1>2, <2>2 DEF Single
  <2>3. CASE i \in 1 .. Len(c) /\ j = Len(c) + 1
    BY <1>1, <1>2, <2>3
  <2>4. CASE i = Len(c) + 1 /\ j \in 1 .. Len(c)
    BY <1>1, <1>2, <2>4
  <2> QED
    BY <2>1, <2>2, <2>3, <2>4
<1> QED
  BY <1>2 DEF Single, d

LEMMA TailSingle ==
    ASSUME NEW P, NEW c \in Seq(P), c # <<>>, Single(c)
    PROVE  Single(Tail(c))
<1> DEFINE d == Tail(c)
<1>1. Len(d) = Len(c) - 1 /\ Len(c) \in Nat /\ \A i \in 1 .. Len(c) - 1 : d[i] = c[i + 1]
  OBVIOUS
<1> HIDE DEF d
<1>2. ASSUME NEW i \in 1 .. Len(d), NEW j \in 1 .. Len(d), Same(d[i], d[j])
      PROVE  i = j
  <2>1. i + 1 \in 1 .. Len(c) /\ j + 1 \in 1 .. Len(c) /\ d[i] = c[i + 1] /\ d[j] = c[j + 1]
    BY <1>1
  <2>2. i + 1 = j + 1
    BY <1>2, <2>1 DEF Single
  <2> QED
    BY <1>1, <2>2
<1> QED
  BY <1>2 DEF Single, d

\* What a queue has after a packet was appended.
LEMMA AppendIn ==
    ASSUME NEW P, NEW c \in Seq(P), NEW pk,
           NEW x \in {Append(c, pk)[i] : i \in 1 .. Len(Append(c, pk))}
    PROVE  x = pk \/ x \in {c[i] : i \in 1 .. Len(c)}
<1>1. /\ Len(Append(c, pk)) = Len(c) + 1 /\ Len(c) \in Nat /\ Append(c, pk)[Len(c) + 1] = pk
      /\ \A i \in 1 .. Len(c) : Append(c, pk)[i] = c[i]
  OBVIOUS
<1>2. PICK i \in 1 .. Len(c) + 1 : x = Append(c, pk)[i]
  BY <1>1
<1>3. CASE i = Len(c) + 1
  BY <1>1, <1>2, <1>3
<1>4. CASE i # Len(c) + 1
  <2>1. i \in 1 .. Len(c) /\ x = c[i]
    BY <1>1, <1>2, <1>4
  <2> QED
    BY <2>1
<1> QED
  BY <1>3, <1>4

\* ch2 is ch with pk at the end of some queues.
Sends(ch, ch2, pk) == \A m \in Node : ch2[m] \in {ch[m], Append(ch[m], pk)}

LEMMA SendingIsSends ==
    ASSUME NEW ch, ChanOK(ch), NEW n \in Node, NEW m \in Node, NEW pk
    PROVE  Sends(ch, Broadcast(ch, n, pk), pk) /\ Sends(ch, Unicast(ch, n, m, pk), pk)
BY DEF Sends, Broadcast, Unicast, ChanOK

\* A packet of which there is no copy leaves the queues single.
LEMMA SendsEffect ==
    ASSUME NEW ch, ChanOK(ch), NEW ch2, NEW pk, Sends(ch, ch2, pk), NEW m \in Node, Single(ch[m]),
           \A q \in In(ch, m) : ~Same(q, pk) /\ ~Same(pk, q)
    PROVE  Single(ch2[m]) /\ \A x \in In(ch2, m) : x = pk \/ x \in In(ch, m)
<1> DEFINE c == ch[m]
           P == PacketsFor(m)
<1>1. c \in Seq(P)
  BY DEF ChanOK
<1> HIDE DEF P
<1>2. Single(Append(c, pk)) /\ Single(c)
  <2>1. \A q \in {c[i] : i \in 1 .. Len(c)} : ~Same(q, pk) /\ ~Same(pk, q)
    BY DEF In
  <2> HIDE DEF c
  <2>2. Single(c)
    BY DEF c
  <2> QED
    BY <1>1, <2>1, <2>2, AppendSingle
<1>3. \A x \in {Append(c, pk)[i] : i \in 1 .. Len(Append(c, pk))} : x = pk \/ x \in {c[i] : i \in 1 .. Len(c)}
  <2> HIDE DEF c
  <2> QED
    BY <1>1, AppendIn
<1>4. ch2[m] = c \/ ch2[m] = Append(c, pk)
  BY DEF Sends
<1> QED
  BY <1>2, <1>3, <1>4 DEF In

\* A step that takes the head of a queue and sends no query.
LEMMA QuietEffect ==
    ASSUME SRInv, NEW n \in Node, chan[n] # <<>>, Sent(n, Taken(n)), \A m \in Node : Single(chan[m])
    PROVE  \A m \in Node : Single(chan'[m]) /\ \A x \in In(chan', m) : x.type = "QUERY" => x \in In(chan, m)
<1> SUFFICES ASSUME NEW m \in Node
             PROVE  Single(chan'[m]) /\ \A x \in In(chan', m) : x.type = "QUERY" => x \in In(chan, m)
  OBVIOUS
<1> DEFINE ch == Taken(n)
           c == chan[m]
           P == PacketsFor(m)
<1>1. ChanOK(chan) /\ ChanOK(ch)
  BY TailFits DEF SRInv, Taken
<1>2. c \in Seq(P)
  BY <1>1 DEF ChanOK
<1> HIDE DEF P
<1>3. Single(ch[m]) /\ \A x \in In(ch, m) : x \in In(chan, m)
  <2>1. CASE m = n
    <3>1. ch[m] = Tail(c) /\ c # <<>> /\ Single(c)
      BY <1>1, <2>1 DEF Taken, ChanOK
    <3> HIDE DEF c, ch
    <3>2. Single(Tail(c))
      BY <1>2, <3>1, TailSingle
    <3>3. Len(Tail(c)) = Len(c) - 1 /\ Len(c) \in Nat /\ \A i \in 1 .. Len(c) - 1 : Tail(c)[i] = c[i + 1]
      BY <1>2, <3>1
    <3>4. ASSUME NEW i \in 1 .. Len(Tail(c)) PROVE \E j \in 1 .. Len(c) : Tail(c)[i] = c[j]
      <4>1. i + 1 \in 1 .. Len(c) /\ Tail(c)[i] = c[i + 1]
        BY <3>3
      <4> QED
        BY <4>1
    <3> QED
      BY <3>1, <3>2, <3>4 DEF In, c
  <2>2. CASE m # n
    <3>1. ch[m] = c /\ Single(c)
      BY <1>1, <2>2 DEF Taken, ChanOK
    <3> HIDE DEF ch
    <3> QED
      BY <3>1 DEF In
  <2> QED
    BY <2>1, <2>2
<1> HIDE DEF ch, c
<1>4. CASE chan' = ch
  BY <1>3, <1>4
<1>5. ASSUME NEW k \in Node, NEW pk \in ReplyPk \cup DataPk, chan' = Unicast(ch, n, k, pk)
      PROVE  Single(chan'[m]) /\ \A x \in In(chan', m) : x.type = "QUERY" => x \in In(chan, m)
  <2>1. pk.type # "QUERY"
    BY DEF ReplyPk, DataPk
  <2>2. \A q \in In(ch, m) : ~Same(q, pk) /\ ~Same(pk, q)
    BY <2>1 DEF Same
  <2>3. Sends(ch, chan', pk)
    BY <1>1, <1>5, SendingIsSends
  <2>4. Single(chan'[m]) /\ \A x \in In(chan', m) : x = pk \/ x \in In(ch, m)
    BY <1>1, <1>3, <2>2, <2>3, SendsEffect
  <2> QED
    BY <1>3, <2>1, <2>4
<1> QED
  BY <1>4, <1>5 DEF Sent, ch

\* The queries in a queue, and who sent them.
LEMMA QueryInQueue ==
    ASSUME SRInv, NEW n \in Node, NEW pk \in In(chan, n), pk.type = "QUERY"
    PROVE  pk \in QueryPk
<1> DEFINE P == PacketsFor(n)
<1>1. chan[n] \in Seq(P)
  BY DEF SRInv, ChanOK
<1> HIDE DEF P
<1>2. pk \in P
  BY <1>1 DEF In
<1> QED
  BY <1>2, PacketFacts DEF P

LEMMA SenderIsNode ==
    ASSUME NEW q \in QueryPk
    PROVE  Sender(q) \in Node
<1>1. q.path \in Paths \cup Alone
  BY DEF QueryPk
<1>2. CASE q.path \in Paths
  <2>1. Len(q.path) \in 1 .. Len(q.path)
    BY <1>2, PathFacts
  <2> QED
    BY <1>2, <2>1, PathFacts DEF Sender
<1>3. CASE q.path \in Alone
  <2>1. PICK y \in Source : q.path = <<y>>
    BY <1>3 DEF Alone
  <2>2. Sender(q) = y
    BY <2>1 DEF Sender
  <2> QED
    BY <2>2, SRAssumption
<1> QED
  BY <1>1, <1>2, <1>3

-----------------------------------------------------------------------------
(* What a step does to what the nodes have seen.                           *)

\* Steps that leave seq, seen and waiting alone.
LEMMA SameFloods ==
    ASSUME seen' = seen, seq' = seq, waiting' = waiting
    PROVE  /\ \A n : SeenSafe(n) => SeenSafe(n)'
           /\ \A pk : CopyOK(pk) => CopyOK(pk)'
BY DEF SeenSafe, CopyOK, SentBy, Recent

\* Steps that take a packet and send no query.
LEMMA QuietStep ==
    ASSUME FloodInv, SRInv', seen' = seen, seq' = seq, waiting' = waiting,
           NEW n \in Node, chan[n] # <<>>, Sent(n, Taken(n))
    PROVE  FloodInv'
<1>1. \A m \in Node : SeenSafe(m)'
  BY SameFloods DEF FloodInv
<1>2. \A m \in Node : Single(chan'[m]) /\ \A x \in In(chan', m) : x.type = "QUERY" => x \in In(chan, m)
  BY QuietEffect DEF FloodInv
<1>3. ASSUME NEW m \in Node, NEW pk \in In(chan', m) PROVE CopyOK(pk)'
  <2>1. CASE pk.type = "QUERY"
    <3>1. CopyOK(pk)
      BY <1>2, <1>3, <2>1 DEF FloodInv
    <3> QED
      BY <3>1, SameFloods
  <2>2. CASE pk.type # "QUERY"
    BY <2>2 DEF CopyOK
  <2> QED
    BY <2>1, <2>2
<1>4. \A m \in Node : Single(chan[m])'
  BY <1>2 DEF Single, Same, Sender
<1>5. \A m \in Node : \A pk \in In(chan, m)' : CopyOK(pk)'
  BY <1>3 DEF In
<1> QED
  BY <1>1, <1>4, <1>5 DEF FloodInv

\* Steps that leave the network alone, too.
LEMMA IdleStep ==
    ASSUME FloodInv, SRInv', seen' = seen, seq' = seq, waiting' = waiting, chan' = chan
    PROVE  FloodInv'
<1>1. \A m \in Node : SeenSafe(m)'
  BY SameFloods DEF FloodInv
<1>2. \A m \in Node : \A pk \in In(chan, m)' : CopyOK(pk)'
  BY SameFloods DEF FloodInv, In
<1>3. \A m \in Node : Single(chan[m])'
  BY DEF FloodInv, Single
<1> QED
  BY <1>1, <1>2, <1>3 DEF FloodInv

\* A flood begins when there is none of that source.
LEMMA StartStep ==
    ASSUME FloodInv, SRInv', NEW s \in Source, ~waiting[s], seen' = seen,
           \A x \in Source \ {s} : seq'[x] = seq[x] /\ waiting'[x] = waiting[x],
           waiting'[s] = TRUE
    PROVE  /\ \A n \in Node : SeenSafe(n)'
           /\ \A n \in Node : \A pk \in In(chan, n) :
                 CopyOK(pk)' /\ (pk.type = "QUERY" => pk.src # s)
<1>1. ASSUME NEW n \in Node, NEW i \in 1 .. Len(seen[n]), Recent(n, i) PROVE Recent(n, i)'
  <2> SUFFICES ASSUME NEW j \in i .. Len(seen[n])
               PROVE  waiting'[seen[n][j].src] /\ seen[n][j].seq = seq'[seen[n][j].src]
    BY DEF Recent
  <2>1. waiting[seen[n][j].src] /\ seen[n][j].seq = seq[seen[n][j].src]
    BY <1>1 DEF Recent
  <2>2. j \in 1 .. Len(seen[n]) /\ seen[n] \in Seq(Entry)
    BY DEF FloodInv, SRInv
  <2>3. seen[n][j] \in Entry
    BY <2>2
  <2>4. seen[n][j].src \in Source
    BY <2>3 DEF Entry
  <2>5. seen[n][j].src # s
    BY <2>1
  <2> QED
    BY <2>1, <2>4, <2>5
<1>2. ASSUME NEW n \in Node PROVE SeenSafe(n)'
  BY <1>1 DEF FloodInv, SeenSafe
<1>3. ASSUME NEW n \in Node, NEW x, SentBy(n, x) PROVE SentBy(n, x)'
  BY <1>1, <1>3 DEF SentBy
<1>4. ASSUME NEW n \in Node, NEW pk \in In(chan, n), pk.type = "QUERY" PROVE CopyOK(pk)' /\ pk.src # s
  <2>1. CopyOK(pk)
    BY <1>4 DEF FloodInv
  <2>2. pk.seq = seq[pk.src] /\ waiting[pk.src] /\ (Sender(pk) # pk.src => SentBy(Sender(pk), pk.src))
    BY <1>4, <2>1 DEF CopyOK
  <2>3. pk \in QueryPk
    BY <1>4, QueryInQueue DEF FloodInv
  <2>4. pk.src \in Source /\ pk.src # s /\ Sender(pk) \in Node
    BY <2>2, <2>3, QueryLinks, SenderIsNode
  <2>5. pk.seq = seq'[pk.src] /\ waiting'[pk.src]
    BY <2>2, <2>4
  <2>6. Sender(pk) # pk.src => SentBy(Sender(pk), pk.src)'
    BY <1>3, <2>2, <2>4
  <2> QED
    BY <2>4, <2>5, <2>6 DEF CopyOK, Sender
<1>5. ASSUME NEW n \in Node, NEW pk \in In(chan, n), pk.type # "QUERY" PROVE CopyOK(pk)'
  BY <1>5 DEF CopyOK
<1> QED
  BY <1>2, <1>4, <1>5

\* push() with a flood: the question goes out once.
LEMMA PushFlood ==
    ASSUME FloodInv, SRInv', NEW s \in Source, push(s)
    PROVE  FloodInv'
<1> DEFINE best == IF valid_route(table[s], route[s]) THEN route[s] ELSE <<>>
           path == IF Reconsider(s) THEN best ELSE cached[s]
           ch   == IF path = <<>> THEN chan ELSE Unicast(chan, s, path[2], Data(path, 2, {}))
<1>1. ChanOK(ch) /\ s \in Node /\ \A m \in Node : Single(ch[m]) /\ \A x \in In(ch, m) : x.type = "QUERY" => x \in In(chan, m)
  <2>0. s \in Node /\ ChanOK(chan) /\ \A m \in Node : Single(chan[m])
    BY SRAssumption DEF FloodInv, SRInv
  <2>1. path = <<>> \/ path \in Paths
    BY DEF FloodInv, SRInv, OwnRoutes
  <2> HIDE DEF path
  <2>2. CASE path = <<>>
    BY <2>0, <2>2
  <2>3. CASE path # <<>>
    <3> DEFINE d == Data(path, 2, {})
    <3>1. path \in Paths /\ 2 \in 2 .. Len(path) /\ {} \subseteq Radio
      BY <2>1, <2>3, PathFacts
    <3>2. path[2] \in Node /\ d \in PacketsFor(path[2]) /\ d.type # "QUERY"
      BY <3>1, DataFits DEF Data
    <3> HIDE DEF d
    <3>3. ChanOK(Unicast(chan, s, path[2], d)) /\ Sends(chan, Unicast(chan, s, path[2], d), d)
      BY <2>0, <3>2, UnicastFits, SendingIsSends
    <3>4. \A m \in Node : \A x \in In(chan, m) : ~Same(x, d) /\ ~Same(d, x)
      BY <3>2 DEF Same
    <3> DEFINE c2 == Unicast(chan, s, path[2], d)
    <3> HIDE DEF c2
    <3>5. \A m \in Node : Single(c2[m]) /\ \A x \in In(c2, m) : x = d \/ x \in In(chan, m)
      BY <2>0, <3>3, <3>4, SendsEffect DEF c2
    <3>6. ch = c2
      BY <2>3 DEF c2, d
    <3> HIDE DEF ch
    <3> QED
      BY <2>0, <3>2, <3>3, <3>5, <3>6 DEF c2
  <2> QED
    BY <2>2, <2>3
<1>2. \/ ~waiting[s] /\ start_flood(s, ch) /\ waiting' = [waiting EXCEPT ![s] = TRUE]
      \/ chan' = ch /\ UNCHANGED <<waiting, floods, answered, tables>>
  BY DEF push
<1> HIDE DEF ch
<1>3. CASE chan' = ch /\ UNCHANGED <<waiting, floods, answered, tables>>
  <2>1. seen' = seen /\ seq' = seq /\ waiting' = waiting
    BY <1>3 DEF floods
  <2>2. \A m \in Node : SeenSafe(m)'
    BY <2>1, SameFloods DEF FloodInv
  <2>3. ASSUME NEW m \in Node, NEW pk \in In(chan, m)' PROVE CopyOK(pk)'
    <3>1. CASE pk.type = "QUERY"
      <4>1. pk \in In(chan, m)
        BY <1>1, <1>3, <2>3, <3>1 DEF In
      <4> QED
        BY <2>1, <4>1, SameFloods DEF FloodInv
    <3>2. CASE pk.type # "QUERY"
      BY <3>2 DEF CopyOK
    <3> QED
      BY <3>1, <3>2
  <2>4. \A m \in Node : Single(chan[m])'
    BY <1>1, <1>3 DEF Single, Same, Sender
  <2> QED
    BY <2>2, <2>3, <2>4 DEF FloodInv
<1>4. CASE ~waiting[s] /\ start_flood(s, ch) /\ waiting' = [waiting EXCEPT ![s] = TRUE]
  <2>0. PICK q : q = Query(s, Target[s], seq'[s], <<s>>)
    OBVIOUS
  <2>1. /\ seen' = seen /\ chan' = Broadcast(ch, s, q)
        /\ waiting'[s] = TRUE
        /\ \A x \in Source \ {s} : seq'[x] = seq[x] /\ waiting'[x] = waiting[x]
    BY <1>4, <2>0 DEF start_flood, FloodInv, SRInv
  <2>2. /\ \A n \in Node : SeenSafe(n)'
        /\ \A n \in Node : \A pk \in In(chan, n) : CopyOK(pk)' /\ (pk.type = "QUERY" => pk.src # s)
    BY <1>4, <2>1, StartStep
  <2>3. q.type = "QUERY" /\ q.src = s /\ q.seq = seq'[s] /\ Sender(q) = s
    BY <2>0 DEF Query, Sender
  <2>4. \A m \in Node : \A x \in In(ch, m) : ~Same(x, q) /\ ~Same(q, x)
    BY <1>1, <2>2, <2>3 DEF Same
  <2>5. Sends(ch, chan', q)
    BY <1>1, <2>1, SendingIsSends
  <2>6. \A m \in Node : Single(chan'[m]) /\ \A x \in In(chan', m) : x = q \/ x \in In(ch, m)
    BY <1>1, <2>4, <2>5, SendsEffect
  <2>7. CopyOK(q)'
    BY <2>1, <2>3 DEF CopyOK, Sender
  <2>8. ASSUME NEW m \in Node, NEW pk \in In(chan, m)' PROVE CopyOK(pk)'
    <3>1. pk = q \/ pk \in In(ch, m)
      BY <2>6, <2>8 DEF In
    <3>2. CASE pk = q
      BY <2>7, <3>2
    <3>3. CASE pk \in In(ch, m) /\ pk.type = "QUERY"
      BY <1>1, <2>2, <3>3
    <3>4. CASE pk.type # "QUERY"
      BY <3>4 DEF CopyOK
    <3> QED
      BY <3>1, <3>2, <3>3, <3>4
  <2>9. \A m \in Node : Single(chan[m])'
    BY <2>6 DEF Single, Same, Sender
  <2> QED
    BY <2>2, <2>8, <2>9 DEF FloodInv
<1> QED
  BY <1>2, <1>3, <1>4

\* A timer sends a copy that n has not sent before.
LEMMA HookStep ==
    ASSUME FloodInv, SRInv', NEW n \in Node, Hook(n)
    PROVE  FloodInv'
<1>1. SRInv /\ ChanOK(chan)
  BY DEF FloodInv, SRInv
<1>2. PICK i \in 1 .. Len(seen[n]) :
          LET e == seen[n][i]
              p == BestRoute(table[n], e.src, n)
          IN  /\ e \in Entry /\ e.pending
              /\ seen' \in [Node -> Seq(Entry)] /\ \A m \in Node \ {n} : seen'[m] = seen[m]
              /\ Len(seen'[n]) = Len(seen[n])
              /\ \A j \in 1 .. Len(seen[n]) :
                    IF j = i THEN /\ seen'[n][j].src = e.src /\ seen'[n][j].seq = e.seq
                                  /\ ~seen'[n][j].pending
                             ELSE seen'[n][j] = seen[n][j]
              /\ IF p = <<>> THEN chan' = chan
                   ELSE /\ p \in Paths /\ p[1] = e.src /\ p[Len(p)] = n
                        /\ Query(e.src, e.dst, e.seq, p) \in QueryPk
                        /\ chan' = Broadcast(chan, n, Query(e.src, e.dst, e.seq, p))
              /\ UNCHANGED <<tables, querier, seq, answered, net>>
  BY <1>1, HookEffect
<1> DEFINE e == seen[n][i]
           p == BestRoute(table[n], e.src, n)
<1>3. seq' = seq /\ waiting' = waiting
  BY <1>2 DEF querier
<1>4. /\ \A m \in Node : Len(seen'[m]) = Len(seen[m])
      /\ \A m \in Node : \A j \in 1 .. Len(seen[m]) :
            /\ seen'[m][j].src = seen[m][j].src /\ seen'[m][j].seq = seen[m][j].seq
            /\ seen'[m][j].pending => seen[m][j].pending /\ (m # n \/ j # i)
            /\ ~seen[m][j].pending => ~seen'[m][j].pending
      /\ ~seen'[n][i].pending
  BY <1>2
<1>5. \A m \in Node : Len(seen[m]) \in Nat
  BY <1>1 DEF SRInv
<1>6. ASSUME NEW m \in Node, NEW j \in 1 .. Len(seen[m]), Recent(m, j) PROVE Recent(m, j)'
  <2>1. \A k \in j .. Len(seen[m]) : k \in 1 .. Len(seen[m])
    BY <1>5
  <2> QED
    BY <1>3, <1>4, <1>6, <2>1 DEF Recent
<1>7. ASSUME NEW m \in Node PROVE SeenSafe(m)'
  <2>1. ASSUME NEW j \in 1 .. Len(seen'[m]), seen'[m][j].pending PROVE Recent(m, j)'
    BY <1>4, <1>6, <2>1 DEF FloodInv, SeenSafe
  <2>2. ASSUME NEW j \in 1 .. Len(seen'[m]), NEW k \in 1 .. Len(seen'[m]),
               seen'[m][j].src = seen'[m][k].src, seen'[m][j].seq = seen'[m][k].seq
        PROVE  j = k
    BY <1>4, <2>2 DEF FloodInv, SeenSafe
  <2> QED
    BY <2>1, <2>2 DEF SeenSafe
<1>8. ASSUME NEW m \in Node, NEW x, SentBy(m, x) PROVE SentBy(m, x)'
  <2>1. PICK j \in 1 .. Len(seen[m]) : seen[m][j].src = x /\ ~seen[m][j].pending /\ Recent(m, j)
    BY <1>8 DEF SentBy
  <2>2. j \in 1 .. Len(seen'[m]) /\ seen'[m][j].src = x /\ ~seen'[m][j].pending /\ Recent(m, j)'
    BY <1>4, <1>6, <2>1
  <2> QED
    BY <2>2 DEF SentBy
<1>9. ASSUME NEW m \in Node, NEW pk \in In(chan, m) PROVE CopyOK(pk)'
  <2>1. CASE pk.type = "QUERY"
    <3>1. CopyOK(pk) /\ pk \in QueryPk
      BY <1>1, <1>9, <2>1, QueryInQueue DEF FloodInv
    <3>2. Sender(pk) \in Node
      BY <3>1, SenderIsNode
    <3>3. pk.seq = seq[pk.src] /\ waiting[pk.src] /\ (Sender(pk) # pk.src => SentBy(Sender(pk), pk.src))
      BY <2>1, <3>1 DEF CopyOK
    <3>4. Sender(pk) # pk.src => SentBy(Sender(pk), pk.src)'
      BY <1>8, <3>2, <3>3
    <3> QED
      BY <1>3, <3>3, <3>4 DEF CopyOK, Sender
  <2>2. CASE pk.type # "QUERY"
    BY <2>2 DEF CopyOK
  <2> QED
    BY <2>1, <2>2
<1>10. CASE p = <<>>
  <2>1. chan' = chan
    BY <1>2, <1>10
  <2>2. \A m \in Node : \A pk \in In(chan, m)' : CopyOK(pk)'
    BY <1>9, <2>1 DEF In
  <2>3. \A m \in Node : Single(chan[m])'
    BY <2>1 DEF FloodInv, Single, Same, Sender
  <2> QED
    BY <1>7, <2>2, <2>3 DEF FloodInv
<1>11. CASE p # <<>>
  <2>1. PICK q, x, y : q = Query(e.src, e.dst, e.seq, p) /\ x = e.src /\ y = e.seq
    OBVIOUS
  <2>2. /\ p \in Paths /\ p[1] = x /\ p[Len(p)] = n /\ chan' = Broadcast(chan, n, q)
        /\ e.pending /\ e.src = x /\ e.seq = y
    BY <1>2, <1>11, <2>1
  <2>3. q.type = "QUERY" /\ q.src = x /\ q.seq = y /\ Sender(q) = n
    BY <2>1, <2>2 DEF Query, Sender
  <2> HIDE DEF p
  <2>4. n # x
    <3>1. 1 \in 1 .. Len(p) /\ Len(p) \in 1 .. Len(p) /\ Len(p) # 1
      BY <2>2, PathFacts
    <3> QED
      BY <2>2, <3>1, PathFacts
  <2>5. Recent(n, i) /\ waiting[x] /\ y = seq[x]
    <3>1. Recent(n, i)
      BY <2>2 DEF FloodInv, SeenSafe
    <3>2. i \in i .. Len(seen[n])
      BY <1>5
    <3> QED
      BY <2>2, <3>1, <3>2 DEF Recent
  <2>6. ~SentBy(n, x)
    <3> SUFFICES ASSUME SentBy(n, x) PROVE FALSE
      OBVIOUS
    <3>1. PICK k \in 1 .. Len(seen[n]) : seen[n][k].src = x /\ ~seen[n][k].pending /\ Recent(n, k)
      BY DEF SentBy
    <3>2. k \in k .. Len(seen[n])
      BY <1>5
    <3>3. seen[n][k].seq = y
      BY <2>5, <3>1, <3>2 DEF Recent
    <3>4. k = i
      BY <2>2, <3>1, <3>3 DEF FloodInv, SeenSafe
    <3> QED
      BY <2>2, <3>1, <3>4
  <2>7. SentBy(n, x)'
    <3>1. i \in 1 .. Len(seen'[n]) /\ seen'[n][i].src = x /\ ~seen'[n][i].pending /\ Recent(n, i)'
      BY <1>4, <1>6, <2>2, <2>5
    <3> HIDE DEF e
    <3> QED
      BY <3>1 DEF SentBy
  <2>8. CopyOK(q)'
    BY <1>3, <2>3, <2>5, <2>7 DEF CopyOK, Sender
  <2>9. \A m \in Node : \A r \in In(chan, m) : ~Same(r, q) /\ ~Same(q, r)
    <3> SUFFICES ASSUME NEW m \in Node, NEW r \in In(chan, m), r.type = "QUERY", r.src = x, Sender(r) = n
                 PROVE  FALSE
      BY <2>3 DEF Same
    <3>1. CopyOK(r)
      BY DEF FloodInv
    <3> QED
      BY <2>4, <2>6, <3>1 DEF CopyOK
  <2>10. \A m \in Node : Single(chan'[m]) /\ \A r \in In(chan', m) : r = q \/ r \in In(chan, m)
    <3>1. Sends(chan, chan', q)
      BY <1>1, <2>2, SendingIsSends
    <3> QED
      BY <1>1, <2>9, <3>1, SendsEffect DEF FloodInv
  <2>11. ASSUME NEW m \in Node, NEW pk \in In(chan, m)' PROVE CopyOK(pk)'
    <3>1. pk = q \/ pk \in In(chan, m)
      BY <2>10, <2>11 DEF In
    <3> QED
      BY <1>9, <2>8, <3>1
  <2>12. \A m \in Node : Single(chan[m])'
    BY <2>10 DEF Single, Same, Sender
  <2> QED
    BY <1>7, <2>11, <2>12 DEF FloodInv
<1> QED
  BY <1>10, <1>11

\* _seen does not forget a flood that is not over for a question that is new.
LEMMA NotForgotten ==
    ASSUME SRInv, Room, NEW n \in Node, SeenSafe(n), NEW x \in Source,
           \A j \in 1 .. Len(seen[n]) : ~(seen[n][j].src = x /\ seen[n][j].seq = seq[x]),
           Recent(n, 1)
    PROVE  Len(seen[n]) < SeenMax
<1> DEFINE s == seen[n]
           c == [i \in 1 .. Len(s) |-> s[i].src]
           S == Source \ {x}
<1>1. s \in Seq(Entry) /\ Len(s) \in Nat
  BY DEF SRInv
<1>2. \A i \in 1 .. Len(s) : s[i].src \in Source /\ s[i].seq = seq[s[i].src]
  <2>1. \A i \in 1 .. Len(s) : s[i] \in Entry
    <3> HIDE DEF s
    <3> QED
      BY <1>1
  <2>2. \A i \in 1 .. Len(s) : s[i].src \in Source
    BY <2>1 DEF Entry
  <2> QED
    BY <2>2 DEF Recent
<1>3. \A i \in 1 .. Len(s) : s[i].src \in S
  BY <1>2
<1>4. \A i, j \in 1 .. Len(s) : s[i].src = s[j].src => i = j
  BY <1>2 DEF SeenSafe
<1> HIDE DEF s
<1>5. c \in Seq(S) /\ Len(c) = Len(s) /\ \A i \in 1 .. Len(s) : c[i] = s[i].src
  <2> HIDE DEF S
  <2> QED
    BY <1>1, <1>3
<1>6. IsFiniteSet(S) /\ Cardinality(S) = Cardinality(Source) - 1 /\ Cardinality(Source) \in Nat
  BY SourcesFinite, FS_RemoveElement
<1> HIDE DEF S, c
<1>7. \A i, j \in 1 .. Len(c) : c[i] = c[j] => i = j
  BY <1>4, <1>5
<1>8. Len(c) <= Cardinality(S)
  BY <1>5, <1>6, <1>7, DistinctFits
<1> QED
  BY <1>1, <1>5, <1>6, <1>8, SRAssumption DEF Room, s

\* process_flood() of a question that is new adds an entry to _seen.
LEMMA NewEntryStep ==
    ASSUME FloodInv, Room, SRInv', NEW n \in Node, NEW e \in Entry,
           e.seq = seq[e.src], waiting[e.src],
           \A j \in 1 .. Len(seen[n]) : ~(seen[n][j].src = e.src /\ seen[n][j].seq = e.seq),
           seen' = [seen EXCEPT ![n] = Remember(@, e)], seq' = seq, waiting' = waiting
    PROVE  /\ \A m \in Node : SeenSafe(m)'
           /\ \A m \in Node : \A x : SentBy(m, x) => SentBy(m, x)'
<1> DEFINE s == seen[n]
<1>0. PICK r, d : r = Remember(s, e) /\ d = (IF Len(s) >= SeenMax THEN 1 ELSE 0)
  OBVIOUS
<1>1. s \in Seq(Entry) /\ Len(s) \in Nat /\ Len(s) <= SeenMax /\ SeenSafe(n) /\ SRInv
  BY DEF FloodInv, SRInv
<1>2. seen'[n] = r /\ \A m \in Node \ {n} : seen'[m] = seen[m]
  BY <1>0 DEF FloodInv, SRInv
<1>3. e.src \in Source
  BY DEF Entry
<1>4. SeenMax \in Nat /\ SeenMax > 0
  BY SRAssumption
<1>5. /\ Len(r) = Len(s) + 1 - d /\ r[Len(r)] = e /\ Len(r) \in Nat /\ Len(r) >= 1 /\ d \in {0, 1}
      /\ \A i \in 1 .. Len(r) - 1 : r[i] = s[i + d] /\ i + d \in 1 .. Len(s)
  <2> HIDE DEF s
  <2>1. /\ Remember(s, e)[Len(Remember(s, e))] = e
        /\ Len(s) >= SeenMax => /\ Len(Remember(s, e)) = Len(s)
                               /\ \A i \in 1 .. Len(s) - 1 : Remember(s, e)[i] = s[i + 1]
        /\ Len(s) < SeenMax  => /\ Len(Remember(s, e)) = Len(s) + 1
                               /\ \A i \in 1 .. Len(s) : Remember(s, e)[i] = s[i]
    BY <1>1, RememberFits
  <2>2. CASE Len(s) >= SeenMax
    <3>1. Len(r) = Len(s) /\ d = 1 /\ r[Len(r)] = e /\ \A i \in 1 .. Len(s) - 1 : r[i] = s[i + 1]
      BY <1>0, <2>1, <2>2
    <3> QED
      BY <1>1, <1>4, <2>2, <3>1
  <2>3. CASE Len(s) < SeenMax
    <3>1. ~(Len(s) >= SeenMax)
      BY <1>1, <1>4, <2>3
    <3>2. Len(r) = Len(s) + 1 /\ d = 0 /\ r[Len(r)] = e /\ \A i \in 1 .. Len(s) : r[i] = s[i]
      BY <1>0, <2>1, <2>3, <3>1
    <3> QED
      BY <1>1, <3>2
  <2> QED
    BY <1>1, <1>4, <2>2, <2>3
<1>6. d = 1 => ~Recent(n, 1)
  <2> SUFFICES ASSUME d = 1, Recent(n, 1) PROVE FALSE
    OBVIOUS
  <2>1. Len(s) >= SeenMax
    BY <1>0
  <2>2. \A j \in 1 .. Len(seen[n]) : ~(seen[n][j].src = e.src /\ seen[n][j].seq = seq[e.src])
    OBVIOUS
  <2>3. Len(seen[n]) < SeenMax
    BY <1>1, <1>3, <2>2, NotForgotten
  <2> QED
    BY <1>1, <1>4, <2>1, <2>3
\* an entry of a flood that is not over moves, and stays one
<1>7. ASSUME NEW k \in 1 .. Len(r) - 1, Recent(n, k + d)
      PROVE  Recent(n, k)'
  <2>1. ASSUME NEW j \in k .. Len(r)
        PROVE  waiting[r[j].src] /\ r[j].seq = seq[r[j].src]
    <3>1. CASE j = Len(r)
      BY <1>5, <3>1
    <3>2. CASE j # Len(r)
      <4> HIDE DEF s
      <4>0. Len(r) \in Nat
        BY <1>5
      <4>1. j \in 1 .. Len(r) - 1 /\ j >= k
        BY <3>2, <4>0
      <4>2. j + d \in 1 .. Len(s) /\ r[j] = s[j + d]
        BY <1>5, <4>1
      <4>3. j + d \in k + d .. Len(s)
        BY <1>1, <1>5, <4>1, <4>2
      <4>4. waiting[s[j + d].src] /\ s[j + d].seq = seq[s[j + d].src]
        BY <1>7, <4>3 DEF Recent, s
      <4> QED
        BY <4>2, <4>4
    <3> QED
      BY <3>1, <3>2
  <2> QED
    BY <1>2, <2>1 DEF Recent
<1>8. Recent(n, Len(r))'
  BY <1>2, <1>5 DEF Recent
<1>9. SeenSafe(n)'
  <2>1. ASSUME NEW i \in 1 .. Len(r), r[i].pending PROVE Recent(n, i)'
    <3>1. CASE i = Len(r)
      BY <1>8, <3>1
    <3>2. CASE i # Len(r)
      <4>1. i \in 1 .. Len(r) - 1
        BY <1>5, <3>2
      <4>2. i + d \in 1 .. Len(s) /\ s[i + d].pending
        BY <1>5, <2>1, <4>1
      <4>3. Recent(n, i + d)
        BY <1>1, <4>2 DEF SeenSafe
      <4> QED
        BY <1>7, <4>1, <4>3
    <3> QED
      BY <3>1, <3>2
  <2>2. ASSUME NEW i \in 1 .. Len(r), NEW j \in 1 .. Len(r), r[i].src = r[j].src, r[i].seq = r[j].seq
        PROVE  i = j
    <3>1. ASSUME NEW k \in 1 .. Len(r) - 1 PROVE ~(r[k].src = e.src /\ r[k].seq = e.seq)
      <4>1. r[k] = s[k + d] /\ k + d \in 1 .. Len(s)
        BY <1>5
      <4>2. ~(s[k + d].src = e.src /\ s[k + d].seq = e.seq)
        BY <4>1
      <4> QED
        BY <4>1, <4>2
    <3>2. (i = Len(r) \/ i \in 1 .. Len(r) - 1) /\ (j = Len(r) \/ j \in 1 .. Len(r) - 1)
      BY <1>5
    <3>3. CASE i \in 1 .. Len(r) - 1 /\ j \in 1 .. Len(r) - 1
      <4>1. /\ i + d \in 1 .. Len(s) /\ j + d \in 1 .. Len(s)
            /\ s[i + d].src = s[j + d].src /\ s[i + d].seq = s[j + d].seq
        BY <1>5, <2>2, <3>3
      <4>2. i + d = j + d
        BY <1>1, <4>1 DEF SeenSafe
      <4> QED
        BY <1>5, <3>3, <4>2
    <3> QED
      BY <1>5, <2>2, <3>1, <3>2, <3>3
  <2> QED
    BY <1>2, <2>1, <2>2 DEF SeenSafe
<1>10. ASSUME NEW x, SentBy(n, x) PROVE SentBy(n, x)'
  <2>1. PICK i \in 1 .. Len(s) : s[i].src = x /\ ~s[i].pending /\ Recent(n, i)
    BY <1>10 DEF SentBy
  <2>2. \E k \in 1 .. Len(r) - 1 : k + d = i
    <3>1. i # 1 \/ d = 0
      BY <1>5, <1>6, <2>1
    <3> HIDE DEF s
    <3>2. i - d \in 1 .. Len(r) - 1 /\ i - d + d = i
      BY <1>1, <1>5, <3>1
    <3> QED
      BY <3>2
  <2>3. PICK k \in 1 .. Len(r) - 1 : k + d = i
    BY <2>2
  <2>4. Recent(n, k + d)
    BY <2>1, <2>3
  <2>5. Recent(n, k)'
    BY <1>7, <2>4
  <2> HIDE DEF s
  <2>6. k \in 1 .. Len(seen'[n]) /\ seen'[n][k].src = x /\ ~seen'[n][k].pending
    <3>1. k \in 1 .. Len(r)
      BY <1>5
    <3>2. r[k] = s[i]
      BY <1>5, <2>3
    <3> QED
      BY <1>2, <2>1, <3>1, <3>2
  <2> QED
    BY <2>5, <2>6 DEF SentBy
<1>11. ASSUME NEW m \in Node \ {n} PROVE SeenSafe(m)' /\ \A x : SentBy(m, x) => SentBy(m, x)'
  <2>1. seen'[m] = seen[m] /\ SeenSafe(m)
    BY <1>2 DEF FloodInv
  <2> QED
    BY <2>1 DEF SeenSafe, SentBy, Recent
<1> QED
  BY <1>9, <1>10, <1>11

\* A node takes a packet.
LEMMA ReceiveStep ==
    ASSUME FloodInv, Room, SRInv', NEW n \in Node, Receive(n) \/ SR2MetricFlood_push(n)
    PROVE  FloodInv'
<1> DEFINE ch == Taken(n)
<1>1. SRInv
  BY DEF FloodInv
<1>2. PICK pk : pk = Head(chan[n])
  OBVIOUS
<1>3. /\ chan[n] # <<>> /\ ChanOK(ch) /\ Sent(n, ch)
      /\ \/ pk \in QueryPk /\ process_flood(n, pk, ch)
         \/ reply(n, pk, ch)
         \/ forward(n, pk, ch) \/ SR2Forwarder_push(n, pk, ch)
  BY <1>1, <1>2, ReceiveEffect, ReceiveFits
<1>4. CASE reply(n, pk, ch) \/ forward(n, pk, ch) \/ SR2Forwarder_push(n, pk, ch)
  <2>1. seen' = seen /\ seq' = seq /\ waiting' = waiting
    BY <1>4 DEF reply, forward, SR2Forwarder_push, floods, querier
  <2> QED
    BY <1>3, <2>1, QuietStep
<1>5. CASE pk \in QueryPk /\ process_flood(n, pk, ch)
  <2>1. /\ UNCHANGED <<route, querier, seq>>
        /\ \/ Known(n, pk) /\ seen' = seen
           \/ /\ ~Known(n, pk)
              /\ \E e \in Entry : /\ e.src = pk.src /\ e.seq = pk.seq
                                  /\ seen' = [seen EXCEPT ![n] = Remember(@, e)]
    BY <1>1, <1>3, <1>5, ProcessFloodEffect
  <2>2. seq' = seq /\ waiting' = waiting
    BY <2>1 DEF querier
  <2>3. CASE seen' = seen
    BY <1>3, <2>2, <2>3, QuietStep
  <2>4. CASE ~Known(n, pk) /\ \E e \in Entry : /\ e.src = pk.src /\ e.seq = pk.seq
                                               /\ seen' = [seen EXCEPT ![n] = Remember(@, e)]
    <3>1. PICK e \in Entry : /\ e.src = pk.src /\ e.seq = pk.seq
                             /\ seen' = [seen EXCEPT ![n] = Remember(@, e)]
      BY <2>4
    <3>2. pk \in In(chan, n) /\ pk.type = "QUERY"
      <4> DEFINE c == chan[n]
                 P == PacketsFor(n)
      <4>1. c \in Seq(P) /\ c # <<>>
        BY <1>1, <1>3 DEF SRInv, ChanOK
      <4> HIDE DEF c, P
      <4>2. 1 \in 1 .. Len(c) /\ Head(c) = c[1]
        BY <4>1
      <4>3. pk = c[1]
        BY <1>2, <4>2 DEF c
      <4> QED
        BY <1>5, <4>2, <4>3 DEF In, QueryPk, c
    <3>3. e.seq = seq[e.src] /\ waiting[e.src]
      BY <3>1, <3>2 DEF FloodInv, CopyOK
    <3>4. \A j \in 1 .. Len(seen[n]) : ~(seen[n][j].src = e.src /\ seen[n][j].seq = e.seq)
      BY <2>4, <3>1 DEF Known, Has
    <3>5. /\ \A m \in Node : SeenSafe(m)'
          /\ \A m \in Node : \A x : SentBy(m, x) => SentBy(m, x)'
      BY <2>2, <3>1, <3>3, <3>4, NewEntryStep
    <3>6. \A m \in Node : Single(chan'[m]) /\ \A x \in In(chan', m) : x.type = "QUERY" => x \in In(chan, m)
      BY <1>1, <1>3, QuietEffect DEF FloodInv
    <3>7. ASSUME NEW m \in Node, NEW x \in In(chan, m)' PROVE CopyOK(x)'
      <4>1. CASE x.type = "QUERY"
        <5>1. x \in In(chan, m)
          BY <3>6, <3>7, <4>1 DEF In
        <5>2. CopyOK(x) /\ Sender(x) \in Node
          BY <1>1, <4>1, <5>1, QueryInQueue, SenderIsNode DEF FloodInv
        <5>3. /\ x.seq = seq[x.src] /\ waiting[x.src]
              /\ Sender(x) # x.src => SentBy(Sender(x), x.src)
          BY <4>1, <5>2 DEF CopyOK
        <5>4. Sender(x) # x.src => SentBy(Sender(x), x.src)'
          BY <3>5, <5>2, <5>3
        <5> QED
          BY <2>2, <5>3, <5>4 DEF CopyOK, Sender
      <4>2. CASE x.type # "QUERY"
        BY <4>2 DEF CopyOK
      <4> QED
        BY <4>1, <4>2
    <3>8. \A m \in Node : Single(chan[m])'
      BY <3>6 DEF Single, Same, Sender
    <3> QED
      BY <3>5, <3>7, <3>8 DEF FloodInv
  <2> QED
    BY <2>1, <2>3, <2>4
<1> QED
  BY <1>3, <1>4, <1>5

\* The source may ask again when the copies of its question are gone.
LEMMA WaitOverStep ==
    ASSUME FloodInv, SRInv', NEW s \in Source, WaitOver(s)
    PROVE  FloodInv'
<1>1. seen' = seen /\ seq' = seq /\ chan' = chan /\ FloodOver
  BY DEF WaitOver, floods
<1>2. \A n \in Node : \A i \in 1 .. Len(seen[n]) : ~seen[n][i].pending
  BY <1>1 DEF FloodOver, Pending
<1>3. \A n \in Node : SeenSafe(n)'
  BY <1>1, <1>2 DEF FloodInv, SeenSafe
<1>4. \A n \in Node : \A pk \in In(chan, n)' : CopyOK(pk)'
  <2> SUFFICES ASSUME NEW n \in Node, NEW pk \in In(chan, n)' PROVE CopyOK(pk)'
    OBVIOUS
  <2>1. pk.type = "DATA"
    BY <1>1 DEF In, FloodOver
  <2> QED
    BY <2>1 DEF CopyOK
<1>5. \A n \in Node : Single(chan[n])'
  BY <1>1 DEF FloodInv, Single, Same, Sender
<1> QED
  BY <1>3, <1>4, <1>5 DEF FloodInv

LEMMA FloodStep ==
    ASSUME FloodInv, Room, AnyStep
    PROVE  FloodInv'
<1>1. SRInv'
  BY StepFits DEF FloodInv
<1>2. ASSUME NEW s \in Source, push(s) PROVE FloodInv'
  BY <1>1, <1>2, PushFlood
<1>3. ASSUME NEW s \in Source, WaitOver(s) PROVE FloodInv'
  BY <1>1, <1>3, WaitOverStep
<1>4. ASSUME NEW n \in Node, Receive(n) \/ SR2MetricFlood_push(n) PROVE FloodInv'
  BY <1>1, <1>4, ReceiveStep
<1>5. ASSUME NEW n \in Node, Hook(n) PROVE FloodInv'
  BY <1>1, <1>5, HookStep
<1>6. ASSUME NEW n \in Node, Lose(n) PROVE FloodInv'
  <2>1. /\ chan[n] # <<>> /\ Sent(n, Taken(n))
        /\ seen' = seen /\ seq' = seq /\ waiting' = waiting
    BY <1>6, LoseEffect DEF FloodInv, Sent, querier, floods
  <2> QED
    BY <1>1, <2>1, QuietStep
<1>7. ASSUME \/ \E s \in Source : SwitchTime(s)
             \/ \E n \in Node : LinkTimer(n)
             \/ Break \/ UNCHANGED srVars
      PROVE  FloodInv'
  <2>1. seen' = seen /\ seq' = seq /\ waiting' = waiting /\ chan' = chan
    BY <1>7 DEF SwitchTime, LinkTimer, Break, srVars, querier, floods
  <2> QED
    BY <1>1, <2>1, IdleStep
<1> QED
  BY <1>2, <1>3, <1>4, <1>5, <1>6, <1>7 DEF AnyStep

\* In both versions, provided _seen has room for the floods of all sources at
\* once: process_flood() and forward_query() pass a question on at most once,
\* so that no queue has two copies of it from the same node.
THEOREM OneCopyAlways ==
    ASSUME Room
    PROVE  SRSpec \/ SR2Spec => []OneCopy
<1>1. SRInit => FloodInv
  <2> SUFFICES ASSUME SRInit PROVE FloodInv
    OBVIOUS
  <2>1. \A n \in Node : chan[n] = <<>> /\ seen[n] = <<>>
    BY DEF SRInit
  <2>2. \A n \in Node : SeenSafe(n) /\ In(chan, n) = {} /\ Single(chan[n])
    BY <2>1 DEF SeenSafe, In, Single
  <2> QED
    BY <2>2, InitFits DEF FloodInv
<1>2. FloodInv /\ [SRNext]_srVars => FloodInv'
  BY EitherVersion, FloodStep
<1>3. FloodInv /\ [SR2Next]_srVars => FloodInv'
  BY EitherVersion, FloodStep
<1>4. FloodInv => OneCopy
  BY DEF FloodInv, OneCopy, Single, Same, Sender
<1> QED
  BY <1>1, <1>2, <1>3, <1>4, PTL DEF SRSpec, SR2Spec
=============================================================================
