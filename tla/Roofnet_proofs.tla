--------------------------- MODULE Roofnet_proofs ---------------------------
(***************************************************************************)
(* The elements that the run of MCRoofnet checks, for every value of their *)
(* constants. Each has an invariant of its own, proved step by step in a   *)
(* section of its own; since a step of the run is a step of the element in *)
(* focus, the theorems at the end put them together.                       *)
(***************************************************************************)
EXTENDS MCRoofnet, FiniteSetTheorems, Lemmas

-----------------------------------------------------------------------------
(* The roofnet DHCPServer.                                                 *)

\* RDHCPSound of the maps o and i, the free addresses f and the list l
MapsSound(o, i, f, l) ==
    /\ \A eth \in DOMAIN i : i[eth] \in DOMAIN o /\ o[i[eth]] = eth
    /\ \A ip \in DOMAIN o : o[ip] \in DOMAIN i /\ i[o[ip]] = ip
    /\ f \cap DOMAIN o = {} /\ f \cup DOMAIN o = FirstIp .. EndIp - 1
    /\ l \in Seq(Int)
    /\ \A ip \in f : \E k \in 1 .. Len(l) : l[k] = ip

Made(o, i, f, l) == [owners |-> o, ips |-> i, free |-> f, list |-> l]

\* what the calls of the pool keep
PoolSound(p) == \E o, i, f, l : p = Made(o, i, f, l) /\ MapsSound(o, i, f, l)

\* rev_lookup() says whether the client has a lease.
LEMMA RevLookup ==
    ASSUME NEW o, NEW i, NEW f, NEW l, MapsSound(o, i, f, l), NEW eth
    PROVE  /\ rev_lookup(Made(o, i, f, l), eth) = ZeroIp <=> eth \notin DOMAIN i
           /\ eth \in DOMAIN i => rev_lookup(Made(o, i, f, l), eth) = i[eth]
<1>1. \A a \in FirstIp .. EndIp - 1 : a # ZeroIp
  BY RoofnetDHCPAssumption
<1>2. rev_lookup(Made(o, i, f, l), eth) = IF eth \in DOMAIN i THEN i[eth] ELSE ZeroIp
  BY DEF rev_lookup, Made
<1> QED
  BY <1>1, <1>2 DEF MapsSound

\* insert() of a free address for a client without a lease, while the list has
\* the other free addresses
LEMMA InsertSound ==
    ASSUME NEW o, NEW i, NEW f, NEW l, NEW l2 \in Seq(Int), MapsSound(o, i, f, l),
           NEW eth, eth \notin DOMAIN i, NEW ip \in f,
           \A a \in f \ {ip} : \E k \in 1 .. Len(l2) : l2[k] = a
    PROVE  PoolSound(RDHCP_insert(Made(o, i, f, l2), eth, ip))
<1> DEFINE o2 == Extend(o, ip, eth)
           i2 == Extend(i, eth, ip)
           f2 == f \ {ip}
<1>1. RDHCP_insert(Made(o, i, f, l2), eth, ip) = Made(o2, i2, f2, l2)
  <2> DEFINE m == Made(o, i, f, l2)
  <2>1. m.owners = o /\ m.ips = i /\ m.free = f
    BY DEF Made
  <2> HIDE DEF m
  <2>2. RDHCP_insert(m, eth, ip) = [m EXCEPT !.free = f2, !.ips = i2, !.owners = o2]
    BY <2>1 DEF RDHCP_insert
  <2> HIDE DEF o2, i2, f2
  <2> QED
    BY <2>2 DEF Made, m
<1>2. /\ DOMAIN i2 = DOMAIN i \cup {eth} /\ DOMAIN o2 = DOMAIN o \cup {ip}
      /\ i2[eth] = ip /\ o2[ip] = eth
      /\ \A e \in DOMAIN i : e # eth => i2[e] = i[e]
      /\ \A a \in DOMAIN o : a # ip => o2[a] = o[a]
  BY DEF Extend
<1>3. ip \notin DOMAIN o /\ ip \in FirstIp .. EndIp - 1
  BY DEF MapsSound
<1> HIDE DEF o2, i2
<1>4. MapsSound(o2, i2, f2, l2)
  BY <1>2, <1>3 DEF MapsSound
<1> HIDE DEF f2
<1> QED
  BY <1>1, <1>4 DEF PoolSound

\* A lease for the address that was asked for keeps the maps sound.
LEMMA NewLeaseSound ==
    ASSUME NEW p, PoolSound(p), NEW eth, NEW ip
    PROVE  PoolSound(RDHCP_new_lease(p, eth, ip))
<1>1. PICK o, i, f, l : p = Made(o, i, f, l) /\ MapsSound(o, i, f, l)
  BY DEF PoolSound
<1>2. p.free = f
  BY <1>1 DEF Made
<1>3. CASE rev_lookup(p, eth) # ZeroIp \/ ip \notin f
  BY <1>2, <1>3 DEF RDHCP_new_lease
<1>4. CASE rev_lookup(p, eth) = ZeroIp /\ ip \in f
  <2>1. eth \notin DOMAIN i
    BY <1>1, <1>4, RevLookup
  <2>2. l \in Seq(Int) /\ \A a \in f \ {ip} : \E k \in 1 .. Len(l) : l[k] = a
    BY <1>1 DEF MapsSound
  <2>3. PoolSound(RDHCP_insert(Made(o, i, f, l), eth, ip))
    BY <1>1, <1>4, <2>1, <2>2, InsertSound
  <2> QED
    BY <1>1, <1>2, <1>4, <2>3 DEF RDHCP_new_lease
<1> QED
  BY <1>3, <1>4

\* A lease for any address, which may come from the middle of the list, keeps them sound.
LEMMA NewLeaseAnySound ==
    ASSUME NEW p, PoolSound(p), NEW eth
    PROVE  PoolSound(RDHCP_new_lease_any(p, eth))
<1>1. PICK o, i, f, l : p = Made(o, i, f, l) /\ MapsSound(o, i, f, l)
  BY DEF PoolSound
<1>2. p.free = f /\ p.list = l
  BY <1>1 DEF Made
<1> DEFINE good == {k \in 1 .. Len(l) : l[k] \in f}
           at   == CHOOSE k \in good : \A j \in good : k <= j
           rest == SubSeq(l, at + 1, Len(l))
<1>3. RDHCP_new_lease_any(p, eth) =
         IF rev_lookup(p, eth) # ZeroIp THEN p
         ELSE IF good = {} THEN [p EXCEPT !.list = <<>>]
         ELSE RDHCP_new_lease([p EXCEPT !.list = rest], eth, l[at])
  BY <1>2 DEF RDHCP_new_lease_any
<1>4. CASE rev_lookup(p, eth) # ZeroIp
  BY <1>3, <1>4
<1>5. CASE rev_lookup(p, eth) = ZeroIp /\ good = {}
  <2>1. RDHCP_new_lease_any(p, eth) = Made(o, i, f, <<>>)
    BY <1>1, <1>3, <1>5 DEF Made
  <2>2. f = {}
    BY <1>1, <1>5 DEF MapsSound
  <2>3. MapsSound(o, i, f, <<>>)
    BY <1>1, <2>2 DEF MapsSound
  <2> QED
    BY <2>1, <2>3 DEF PoolSound
<1>6. CASE rev_lookup(p, eth) = ZeroIp /\ good # {}
  <2>1. Len(l) \in Nat /\ l \in Seq(Int)
    BY <1>1 DEF MapsSound
  <2>2. good \subseteq Nat
    BY <2>1
  <2>3. at \in good /\ \A j \in good : at <= j
    <3> HIDE DEF good
    <3> QED
      BY <1>6, <2>2, LeastNat
  <2> HIDE DEF at
  <2>4. at \in 1 .. Len(l) /\ l[at] \in f
    BY <2>3
  <2>5. /\ rest \in Seq(Int) /\ Len(rest) = Len(l) - at
        /\ \A j \in 1 .. Len(l) - at : rest[j] = l[at + j]
    BY <2>1, <2>4
  <2>6. ASSUME NEW a \in f \ {l[at]}
        PROVE  \E k \in 1 .. Len(rest) : rest[k] = a
    <3>1. PICK k \in 1 .. Len(l) : l[k] = a
      BY <1>1 DEF MapsSound
    <3>2. at < k
      BY <2>1, <2>3, <2>4, <3>1
    <3> HIDE DEF rest
    <3>3. k - at \in 1 .. Len(rest) /\ rest[k - at] = a
      BY <2>1, <2>4, <2>5, <3>1, <3>2, SMTT(30)
    <3> QED
      BY <3>3
  <2>7. eth \notin DOMAIN i
    BY <1>1, <1>6, RevLookup
  <2>8. PoolSound(RDHCP_insert(Made(o, i, f, rest), eth, l[at]))
    <3> HIDE DEF rest, good
    <3> QED
      BY <1>1, <2>4, <2>5, <2>6, <2>7, InsertSound
  <2>9. [p EXCEPT !.list = rest] = Made(o, i, f, rest)
    <3> HIDE DEF rest
    <3> QED
      BY <1>1 DEF Made
  <2>10. RDHCP_new_lease(Made(o, i, f, rest), eth, l[at]) = RDHCP_insert(Made(o, i, f, rest), eth, l[at])
    BY <2>4, <2>7 DEF RDHCP_new_lease, rev_lookup, Made
  <2> QED
    BY <1>3, <1>6, <2>8, <2>9, <2>10
<1> QED
  BY <1>4, <1>5, <1>6

\* The end of a lease keeps the maps sound.
LEMMA RemoveSound ==
    ASSUME NEW p, PoolSound(p), NEW eth
    PROVE  PoolSound(RDHCP_remove(p, eth))
<1>1. PICK o, i, f, l : p = Made(o, i, f, l) /\ MapsSound(o, i, f, l)
  BY DEF PoolSound
<1> DEFINE ip == rev_lookup(p, eth)
<1>2. CASE ip = ZeroIp
  BY <1>2 DEF RDHCP_remove
<1>3. CASE ip # ZeroIp
  <2>1. eth \in DOMAIN i /\ ip = i[eth]
    BY <1>1, <1>3, RevLookup
  <2>2. ip \in DOMAIN o /\ o[ip] = eth
    BY <1>1, <2>1 DEF MapsSound
  <2> DEFINE o2 == Restrict(o, DOMAIN o \ {ip})
             i2 == Restrict(i, DOMAIN i \ {eth})
             f2 == f \cup {ip}
             l2 == Append(l, ip)
  <2>3. RDHCP_remove(p, eth) = Made(o2, i2, f2, l2)
    <3>1. p.owners = o /\ p.ips = i /\ p.free = f /\ p.list = l
      BY <1>1 DEF Made
    <3>2. RDHCP_remove(p, eth) = [p EXCEPT !.free = f2, !.list = l2, !.owners = o2, !.ips = i2]
      BY <1>3, <3>1 DEF RDHCP_remove
    <3> HIDE DEF o2, i2, f2, l2
    <3> QED
      BY <1>1, <3>2 DEF Made
  <2>4. /\ DOMAIN o2 = DOMAIN o \ {ip} /\ DOMAIN i2 = DOMAIN i \ {eth}
        /\ \A e \in DOMAIN i \ {eth} : i2[e] = i[e]
        /\ \A a \in DOMAIN o \ {ip} : o2[a] = o[a]
    BY DEF Restrict
  <2> HIDE DEF ip, o2, i2
  <2>5. ip \in FirstIp .. EndIp - 1 /\ ip \in Int
    BY <1>1, <2>2, RoofnetDHCPAssumption DEF MapsSound
  <2>6. l \in Seq(Int) /\ \A a \in f : \E k \in 1 .. Len(l) : l[k] = a
    BY <1>1 DEF MapsSound
  <2>7. /\ l2 \in Seq(Int) /\ Len(l) \in Nat /\ Len(l2) = Len(l) + 1
        /\ l2[Len(l) + 1] = ip /\ \A k \in 1 .. Len(l) : l2[k] = l[k]
    BY <2>5, <2>6
  <2> HIDE DEF l2
  <2>8. \A a \in f2 : \E k \in 1 .. Len(l2) : l2[k] = a
    BY <2>6, <2>7
  <2>9. f2 \cap DOMAIN o2 = {} /\ f2 \cup DOMAIN o2 = FirstIp .. EndIp - 1
    BY <1>1, <2>2, <2>4 DEF MapsSound
  <2>10. \A e \in DOMAIN i2 : i2[e] \in DOMAIN o2 /\ o2[i2[e]] = e
    BY <1>1, <2>1, <2>2, <2>4 DEF MapsSound
  <2>11. \A a \in DOMAIN o2 : o2[a] \in DOMAIN i2 /\ i2[o2[a]] = a
    BY <1>1, <2>1, <2>2, <2>4 DEF MapsSound
  <2>12. MapsSound(o2, i2, f2, l2)
    BY <2>7, <2>8, <2>9, <2>10, <2>11 DEF MapsSound
  <2> QED
    BY <2>3, <2>12 DEF PoolSound
<1> QED
  BY <1>2, <1>3

-----------------------------------------------------------------------------
RDHCPInv == PoolSound(rdhcpPool)

\* The invariant is the property and the type of the list.
LEMMA RDHCPInvSound == RDHCPInv <=> RDHCPSound /\ freeList \in Seq(Int)
<1>1. rdhcpPool = Made(owners, ips, freeIps, freeList)
  BY DEF rdhcpPool, Made
<1>2. ASSUME NEW o, NEW i, NEW f, NEW l, rdhcpPool = Made(o, i, f, l)
      PROVE  o = owners /\ i = ips /\ f = freeIps /\ l = freeList
  BY <1>2 DEF rdhcpPool, Made
<1>3. RDHCPInv <=> MapsSound(owners, ips, freeIps, freeList)
  BY <1>1, <1>2 DEF RDHCPInv, PoolSound
<1>4. ASSUME freeList \in Seq(Int)
      PROVE  freeIps \subseteq ToSet(freeList)
                <=> \A ip \in freeIps : \E k \in 1 .. Len(freeList) : freeList[k] = ip
  <2>1. ToSet(freeList) = {freeList[k] : k \in 1 .. Len(freeList)}
    BY <1>4 DEF ToSet
  <2> QED
    BY <2>1
<1> QED
  BY <1>3, <1>4 DEF MapsSound, RDHCPSound

\* The server starts with every address free.
LEMMA RDHCPStart == RDHCPInit => RDHCPInv
<1> SUFFICES ASSUME RDHCPInit PROVE MapsSound(owners, ips, freeIps, freeList)
  BY DEF RDHCPInv, PoolSound, rdhcpPool, Made
<1>1. FirstIp \in Int /\ EndIp \in Int
  BY RoofnetDHCPAssumption
<1>2. DOMAIN owners = {} /\ DOMAIN ips = {}
  BY DEF RDHCPInit
<1>3. CASE FirstIp <= EndIp
  <2>1. EndIp - FirstIp \in Nat
    BY <1>1, <1>3
  <2>2. freeList \in Seq(Int) /\ Len(freeList) = EndIp - FirstIp
    BY <1>1, <2>1 DEF RDHCPInit
  <2>3. ASSUME NEW ip \in freeIps
        PROVE  \E k \in 1 .. Len(freeList) : freeList[k] = ip
    <3>1. ip - FirstIp + 1 \in 1 .. Len(freeList)
      BY <1>1, <2>2 DEF RDHCPInit
    <3>2. freeList[ip - FirstIp + 1] = ip
      BY <1>1, <2>2, <3>1 DEF RDHCPInit
    <3> QED
      BY <3>1, <3>2
  <2> QED
    BY <1>2, <2>2, <2>3 DEF MapsSound, RDHCPInit
<1>4. CASE FirstIp > EndIp
  <2>1. freeIps = {} /\ FirstIp .. EndIp - 1 = {} /\ 1 .. EndIp - FirstIp = {}
    BY <1>1, <1>4 DEF RDHCPInit
  <2>2. freeList = <<>>
    BY <2>1 DEF RDHCPInit
  <2> QED
    BY <1>2, <2>1, <2>2 DEF MapsSound
<1> QED
  BY <1>1, <1>3, <1>4

\* a step that leaves the pool as p
LEMMA BecomesSound ==
    ASSUME NEW p, PoolSound(p), Becomes(p)
    PROVE  RDHCPInv'
<1>1. PICK o, i, f, l : p = Made(o, i, f, l) /\ MapsSound(o, i, f, l)
  BY DEF PoolSound
<1>2. rdhcpPool' = Made(o, i, f, l)
  BY <1>1 DEF Becomes, rdhcpPool, Made
<1> QED
  BY <1>1, <1>2 DEF RDHCPInv, PoolSound

\* Every packet and every handler of the server keeps the maps sound.
LEMMA RDHCPStep ==
    ASSUME RDHCPInv, [RDHCPNext]_rdhcpVars
    PROVE  RDHCPInv'
<1>1. CASE UNCHANGED <<owners, ips, freeIps, freeList>>
  BY <1>1 DEF RDHCPInv, rdhcpPool
<1>2. ASSUME NEW eth \in Ethers, NEW want, RDHCP_discover(eth, want)
      PROVE  RDHCPInv'
  <2> DEFINE p == IF want = ZeroIp THEN rdhcpPool ELSE RDHCP_new_lease(rdhcpPool, eth, want)
  <2>1. PoolSound(p)
    BY NewLeaseSound DEF RDHCPInv
  <2>2. Becomes(RDHCP_new_lease_any(p, eth))
    BY <1>2 DEF RDHCP_discover
  <2> HIDE DEF p
  <2> QED
    BY <2>1, <2>2, NewLeaseAnySound, BecomesSound
<1>3. ASSUME NEW eth \in Ethers, NEW ci, NEW srv, RDHCP_request(eth, ci, srv)
      PROVE  RDHCPInv'
  <2>1. UNCHANGED <<owners, ips, freeIps, freeList>> \/ Becomes(RDHCP_new_lease_any(rdhcpPool, eth))
    BY <1>3 DEF RDHCP_request
  <2> QED
    BY <1>1, <2>1, NewLeaseAnySound, BecomesSound DEF RDHCPInv
<1>4. ASSUME NEW eth \in Ethers, RDHCP_release(eth)
      PROVE  RDHCPInv'
  BY <1>4, RemoveSound, BecomesSound DEF RDHCP_release, RDHCPInv
<1> QED
  BY <1>1, <1>2, <1>3, <1>4 DEF RDHCPNext, SnoopDHCPReplies_simple_action, rdhcpVars

-----------------------------------------------------------------------------
(* GatewaySelector of sr and sr2.                                          *)

AdEntry == [gw : Gateway, seq : AdSeqs, waits : BOOLEAN, own : BOOLEAN]

\* An own advertisement that waits has a timer: push() starts one for it, and a
\* timer that runs leaves nothing waiting.
GatewayInv == GatewayTypeOK /\ WaitingAdHasTimer

\* GatewaySelector starts within its invariant.
LEMMA GatewayStart == GatewayInit => GatewayInv
BY GatewayAssumption DEF GatewayInit, GatewayInv, GatewayTypeOK, WaitingAdHasTimer

\* Making room for an advertisement leaves a shorter list of entries that were there.
LEMMA RoomFacts ==
    ASSUME GatewayTypeOK
    PROVE  /\ Room(ads) \in Seq(AdEntry) /\ Len(Room(ads)) < MaxAds
           /\ \A i \in 1 .. Len(Room(ads)) : \E j \in 1 .. Len(ads) : Room(ads)[i] = ads[j]
<1>1. /\ ads \in Seq(AdEntry) /\ Len(ads) \in Nat /\ Len(ads) <= MaxAds
      /\ MaxAds \in Nat /\ MaxAds > 0
  BY GatewayAssumption DEF GatewayTypeOK, AdEntry
<1>2. CASE Len(ads) = MaxAds
  <2>1. ads # <<>> /\ Room(ads) = Tail(ads)
    BY <1>1, <1>2 DEF Room
  <2>2. /\ Tail(ads) \in Seq(AdEntry) /\ Len(Tail(ads)) = Len(ads) - 1
        /\ \A i \in 1 .. Len(ads) - 1 : Tail(ads)[i] = ads[i + 1] /\ i + 1 \in 1 .. Len(ads)
    BY <1>1, <2>1
  <2> QED
    BY <1>1, <2>1, <2>2
<1>3. CASE Len(ads) # MaxAds
  BY <1>1, <1>3 DEF Room
<1> QED
  BY <1>2, <1>3

\* Advertisements, timers and handlers keep a timer for each entry that waits.
LEMMA GatewayStep ==
    ASSUME GatewayInv, [GatewayNext \/ SR2GatewayNext]_gatewayVars
    PROVE  GatewayInv'
<1>1. CASE UNCHANGED <<ads, adTimers>>
  BY <1>1 DEF GatewayInv, GatewayTypeOK, WaitingAdHasTimer
<1>2. /\ ads \in Seq(AdEntry) /\ Len(ads) \in Nat /\ Len(ads) <= MaxAds /\ MaxAds \in Nat
      /\ adTimers \in 0 .. MaxAdTimers /\ MaxAdTimers \in Nat
  BY GatewayAssumption DEF GatewayInv, GatewayTypeOK, AdEntry
<1>3. ASSUME NEW g \in Gateway, NEW sq \in AdSeqs, GatewaySelector_push(g, sq)
      PROVE  GatewayInv'
  <2>1. PICK e \in AdEntry :
          /\ ads' = Append(Room(ads), e)
          /\ \/ ~e.own /\ adTimers' = adTimers
             \/ adTimers < MaxAdTimers /\ adTimers' = adTimers + 1
    <3>1. \A w, own \in BOOLEAN : Ad(g, sq, w, own) \in AdEntry /\ Ad(g, sq, w, own).own = own
      BY DEF Ad, AdEntry
    <3>2. CASE is_gw
      <4>1. PICK w \in BOOLEAN : ads' = Append(Room(ads), Ad(g, sq, w, FALSE)) /\ UNCHANGED adTimers
        BY <1>3, <3>2 DEF GatewaySelector_push, NewAd
      <4> QED
        BY <3>1, <4>1
    <3>3. CASE ~is_gw
      <4>1. /\ ads' = Append(Room(ads), Ad(g, sq, TRUE, TRUE))
            /\ adTimers < MaxAdTimers /\ adTimers' = adTimers + 1
        BY <1>3, <3>3 DEF GatewaySelector_push, NewAd
      <4> QED
        BY <3>1, <4>1
    <3> QED
      BY <3>2, <3>3
  <2>2. /\ Room(ads) \in Seq(AdEntry) /\ Len(Room(ads)) < MaxAds
        /\ \A i \in 1 .. Len(Room(ads)) : \E j \in 1 .. Len(ads) : Room(ads)[i] = ads[j]
    BY RoomFacts DEF GatewayInv
  <2>3. /\ ads' \in Seq(AdEntry) /\ Len(ads') = Len(Room(ads)) + 1 /\ Len(Room(ads)) \in Nat
        /\ ads'[Len(Room(ads)) + 1] = e
        /\ \A i \in 1 .. Len(Room(ads)) : ads'[i] = Room(ads)[i]
    BY <2>1, <2>2
  <2>4. adTimers' \in 0 .. MaxAdTimers
    BY <1>2, <2>1
  <2>5. GatewayTypeOK'
    BY <1>2, <2>2, <2>3, <2>4 DEF GatewayTypeOK, AdEntry
  <2>6. WaitingAdHasTimer'
    <3> SUFFICES ASSUME NEW i \in 1 .. Len(ads'), ads'[i].waits /\ ads'[i].own
                 PROVE  adTimers' > 0
      BY DEF WaitingAdHasTimer
    <3>1. CASE i = Len(Room(ads)) + 1
      BY <1>2, <2>1, <2>3, <3>1
    <3>2. CASE i \in 1 .. Len(Room(ads))
      <4>1. \E j \in 1 .. Len(ads) : ads[j].waits /\ ads[j].own
        BY <2>2, <2>3, <3>2
      <4> QED
        BY <1>2, <2>1, <4>1 DEF GatewayInv, WaitingAdHasTimer
    <3> QED
      BY <2>3, <3>1, <3>2
  <2> QED
    BY <2>5, <2>6 DEF GatewayInv
<1>4. CASE forward_ad_hook
  <2> DEFINE new(i) == IF i \in Due THEN forward_ad(ads[i]) ELSE ads[i]
  <2>1. ASSUME NEW i \in 1 .. Len(ads)
        PROVE  new(i) \in AdEntry /\ new(i).waits = FALSE
    <3>1. ads[i] \in AdEntry
      BY <1>2
    <3>2. CASE i \in Due
      BY <3>1, <3>2 DEF forward_ad, AdEntry
    <3>3. CASE i \notin Due
      BY <3>1, <3>3 DEF Due, AdEntry
    <3> QED
      BY <3>2, <3>3
  <2>2. /\ ads' \in Seq(AdEntry) /\ Len(ads') = Len(ads)
        /\ \A i \in 1 .. Len(ads) : ads'[i].waits = FALSE
    <3>1. ads' = [i \in 1 .. Len(ads) |-> new(i)]
      BY <1>4 DEF forward_ad_hook
    <3> HIDE DEF new
    <3>2. ads' \in [1 .. Len(ads) -> AdEntry]
      BY <2>1, <3>1
    <3>3. ads' \in Seq(AdEntry) /\ Len(ads') = Len(ads)
      BY <1>2, <3>2
    <3>4. \A i \in 1 .. Len(ads) : ads'[i] = new(i)
      BY <3>1
    <3> QED
      BY <2>1, <3>3, <3>4
  <2>3. adTimers' \in 0 .. MaxAdTimers
    BY <1>2, <1>4 DEF forward_ad_hook
  <2> QED
    BY <1>2, <2>2, <2>3 DEF GatewayInv, GatewayTypeOK, WaitingAdHasTimer, AdEntry
<1> QED
  BY <1>1, <1>3, <1>4
     DEF GatewayNext, SR2GatewayNext, gatewayVars, SR2GatewaySelector_push,
         SR2GatewaySelector_forward_ad_hook, SR2GatewaySelector_run_timer,
         SR2GatewaySelector_write_param, SR2GatewayResponder_run_timer, GatewaySelector_run_timer,
         SR1GatewayResponder_run_timer, write_param, GatewayExpires, RoutesChange

-----------------------------------------------------------------------------
(* SetGateway: an agreed flow is kept by cleanup() because its replies are *)
(* not over, however old its entry is.                                     *)

FlowEntry == [gw : Gws, is_pending : BOOLEAN, young : BOOLEAN, fwd_alive : BOOLEAN, rev_alive : BOOLEAN]

SetGatewayInv ==
    /\ SetGatewayTypeOK
    /\ \A f \in DOMAIN flow_table : flow_table[f] \in FlowEntry
    /\ flow_table = [f \in DOMAIN flow_table |-> flow_table[f]]
    /\ agreed = [f \in DOMAIN agreed |-> agreed[f]]
    /\ \A f \in DOMAIN agreed :
          /\ f \in DOMAIN flow_table /\ flow_table[f].gw = agreed[f] /\ flow_table[f].rev_alive

\* SetGateway starts without flows.
LEMMA SetGatewayStart == SetGatewayInit => SetGatewayInv
BY DEF SetGatewayInit, SetGatewayInv, SetGatewayTypeOK

\* a step that changes the entry of flow f to e
LEMMA EntryKeeps ==
    ASSUME SetGatewayInv, NEW f \in FlowIds, NEW e \in FlowEntry, NEW t, NEW a,
           DOMAIN t = DOMAIN flow_table \cup {f}, t[f] = e, t = [x \in DOMAIN t |-> t[x]],
           \A x \in DOMAIN flow_table : x # f => t[x] = flow_table[x],
           a = [x \in DOMAIN a |-> a[x]],
           DOMAIN a \subseteq DOMAIN agreed \cup {f},
           \A x \in DOMAIN agreed : x # f /\ x \in DOMAIN a => a[x] = agreed[x],
           f \in DOMAIN a => a[f] = e.gw /\ e.rev_alive,
           flow_table' = t, agreed' = a, fixed_gw' \in Gws \cup {NoGw}, best' \in Gws \cup {NoGw},
           sentTo' \in Gws \cup {NoGw}
    PROVE  SetGatewayInv'
<1>1. \A x \in DOMAIN t : t[x] \in FlowEntry /\ t[x].gw \in Gws
  BY DEF SetGatewayInv, FlowEntry
<1>2. SetGatewayTypeOK'
  BY <1>1 DEF SetGatewayInv, SetGatewayTypeOK
<1>3. \A x \in DOMAIN a : x \in DOMAIN t /\ t[x].gw = a[x] /\ t[x].rev_alive
  BY DEF SetGatewayInv
<1> QED
  BY <1>1, <1>2, <1>3 DEF SetGatewayInv

\* Packets of either direction and the cleanup leave agreed flows at their gateway.
LEMMA SetGatewayStep ==
    ASSUME SetGatewayInv, [SetGatewayNext \/ SR1SetGateway_push]_setGatewayVars
    PROVE  SetGatewayInv'
<1> DEFINE AnyGw == Gws \cup {NoGw}
<1>1. fixed_gw \in AnyGw /\ best \in AnyGw /\ sentTo \in AnyGw
  BY DEF SetGatewayInv, SetGatewayTypeOK
<1>2. CASE UNCHANGED <<flow_table, agreed>> /\ fixed_gw' \in AnyGw /\ best' \in AnyGw /\ sentTo' \in AnyGw
  BY <1>2 DEF SetGatewayInv, SetGatewayTypeOK
<1>3. ASSUME NEW f, NEW flags, Ends(f, flags)
      PROVE  /\ agreed' = [x \in DOMAIN agreed' |-> agreed'[x]]
             /\ DOMAIN agreed' \subseteq DOMAIN agreed
             /\ \A x \in DOMAIN agreed' : agreed'[x] = agreed[x]
             /\ f \in DOMAIN agreed' => flags = {}
  BY <1>3 DEF Ends, Without, Restrict, SetGatewayInv
<1>4. ASSUME NEW f \in FlowIds, NEW flags \in TcpFlags, push_fwd(f, flags), UNCHANGED <<fixed_gw, best>>
      PROVE  SetGatewayInv'
  <2>1. CASE push_fwd_match(f, flags) /\ "SYN" \in flags
    <3>1. flow_table[f] \in FlowEntry /\ f \in DOMAIN flow_table /\ UNCHANGED flow_table
      BY <2>1 DEF push_fwd_match, SetGatewayInv
    <3>2. sentTo' \in AnyGw
      BY <2>1, <3>1 DEF push_fwd_match, FlowEntry
    <3>3. f \notin DOMAIN agreed'
      BY <1>3, <1>4, <2>1 DEF push_fwd
    <3> QED
      BY <1>1, <1>3, <1>4, <3>1, <3>2, <3>3, EntryKeeps DEF push_fwd, SetGatewayInv
  <2>2. CASE push_fwd_match(f, flags) /\ "SYN" \notin flags
    <3> DEFINE e == [flow_table[f] EXCEPT !.fwd_alive = @ /\ flags = {}, !.rev_alive = @ /\ "RST" \notin flags]
    <3>1. flow_table[f] \in FlowEntry /\ f \in DOMAIN flow_table
      BY <2>2 DEF push_fwd_match, SetGatewayInv
    <3>2. e \in FlowEntry /\ e.gw = flow_table[f].gw /\ (flags = {} => e.rev_alive = flow_table[f].rev_alive)
      BY <3>1 DEF FlowEntry
    <3>3. flow_table' = [flow_table EXCEPT ![f] = e] /\ sentTo' \in AnyGw
      BY <2>2, <3>1 DEF push_fwd_match, FlowEntry
    <3> HIDE DEF e
    <3>4. /\ DOMAIN flow_table' = DOMAIN flow_table \cup {f} /\ flow_table'[f] = e
          /\ flow_table' = [x \in DOMAIN flow_table' |-> flow_table'[x]]
          /\ \A x \in DOMAIN flow_table : x # f => flow_table'[x] = flow_table[x]
      BY <3>1, <3>3
    <3>5. f \in DOMAIN agreed' => agreed'[f] = e.gw /\ e.rev_alive
      BY <1>3, <1>4, <3>2 DEF push_fwd, SetGatewayInv
    <3> QED
      BY <1>1, <1>3, <1>4, <3>2, <3>3, <3>4, <3>5, EntryKeeps DEF push_fwd
  <2>3. CASE push_fwd_guess(f, flags)
    <3>1. PICK w \in BOOLEAN : flow_table' = With(flow_table, f, FlowTableEntry(best, w, FALSE))
      BY <2>3 DEF push_fwd_guess
    <3> DEFINE e == FlowTableEntry(best, w, FALSE)
    <3>2. e \in FlowEntry /\ sentTo' \in AnyGw
      BY <1>1, <2>3 DEF push_fwd_guess, FlowTableEntry, FlowEntry
    <3> HIDE DEF e
    <3>3. /\ DOMAIN flow_table' = DOMAIN flow_table \cup {f} /\ flow_table'[f] = e
          /\ flow_table' = [x \in DOMAIN flow_table' |-> flow_table'[x]]
          /\ \A x \in DOMAIN flow_table : x # f => flow_table'[x] = flow_table[x]
      BY <3>1 DEF With, e
    <3>4. f \notin DOMAIN agreed'
      BY <1>3, <1>4, <2>3 DEF push_fwd, push_fwd_guess, SetGatewayInv
    <3> QED
      BY <1>1, <1>3, <1>4, <3>2, <3>3, <3>4, EntryKeeps DEF push_fwd
  <2> QED
    BY <1>4, <2>1, <2>2, <2>3 DEF push_fwd
<1>5. ASSUME NEW f \in FlowIds, NEW from \in Gws, push_rev_synack(f, from), UNCHANGED <<fixed_gw, best, sentTo>>
      PROVE  SetGatewayInv'
  <2> DEFINE e == saw_reply_packet(flow_table[f])
  <2>1. flow_table[f] \in FlowEntry /\ f \in DOMAIN flow_table /\ flow_table[f].gw = from
    BY <1>5 DEF push_rev_synack, SetGatewayInv
  <2>2. e \in FlowEntry /\ e.gw = from /\ e.rev_alive = flow_table[f].rev_alive
    BY <2>1 DEF saw_reply_packet, FlowEntry
  <2> HIDE DEF e
  <2>3. flow_table' = [flow_table EXCEPT ![f] = e]
    BY <1>5 DEF push_rev_synack, e
  <2>4. /\ DOMAIN flow_table' = DOMAIN flow_table \cup {f} /\ flow_table'[f] = e
        /\ flow_table' = [x \in DOMAIN flow_table' |-> flow_table'[x]]
        /\ \A x \in DOMAIN flow_table : x # f => flow_table'[x] = flow_table[x]
    BY <2>1, <2>3
  <2>5. /\ agreed' = [x \in DOMAIN agreed' |-> agreed'[x]]
        /\ DOMAIN agreed' \subseteq DOMAIN agreed \cup {f}
        /\ \A x \in DOMAIN agreed : x # f /\ x \in DOMAIN agreed' => agreed'[x] = agreed[x]
        /\ f \in DOMAIN agreed' => agreed'[f] = e.gw /\ e.rev_alive
    BY <1>5, <2>1, <2>2 DEF push_rev_synack, With, SetGatewayInv
  <2> QED
    BY <1>1, <1>5, <2>2, <2>4, <2>5, EntryKeeps
<1>6. ASSUME NEW f \in FlowIds, NEW from \in Gws, NEW flags \in TcpFlags, push_rev(f, from, flags),
             UNCHANGED <<fixed_gw, best, sentTo>>
      PROVE  SetGatewayInv'
  <2>1. CASE f \in DOMAIN flow_table
    <3> DEFINE r == saw_reply_packet(flow_table[f])
               e == saw_flags(r, flags)
    <3>1. flow_table[f] \in FlowEntry
      BY <2>1 DEF SetGatewayInv
    <3>2. r \in FlowEntry /\ r.gw = flow_table[f].gw /\ r.rev_alive = flow_table[f].rev_alive
      BY <3>1 DEF saw_reply_packet, FlowEntry
    <3>3. flow_table' = [flow_table EXCEPT ![f] = e]
      BY <1>6, <2>1 DEF push_rev
    <3> HIDE DEF r
    <3>4. e \in FlowEntry /\ e.gw = r.gw /\ (flags = {} => e.rev_alive = r.rev_alive)
      BY <3>2 DEF FlowEntry, saw_flags
    <3> HIDE DEF e
    <3>5. /\ DOMAIN flow_table' = DOMAIN flow_table \cup {f} /\ flow_table'[f] = e
          /\ flow_table' = [x \in DOMAIN flow_table' |-> flow_table'[x]]
          /\ \A x \in DOMAIN flow_table : x # f => flow_table'[x] = flow_table[x]
      BY <2>1, <3>3
    <3>6. f \in DOMAIN agreed' => agreed'[f] = e.gw /\ e.rev_alive
      BY <1>3, <1>6, <3>2, <3>4 DEF push_rev, SetGatewayInv
    <3> QED
      BY <1>1, <1>3, <1>6, <3>4, <3>5, <3>6, EntryKeeps DEF push_rev
  <2>2. CASE f \notin DOMAIN flow_table
    <3> DEFINE e == FlowTableEntry(from, FALSE, TRUE)
    <3>1. e \in FlowEntry
      BY DEF FlowTableEntry, FlowEntry
    <3>2. flow_table' = With(flow_table, f, e)
      BY <1>6, <2>2 DEF push_rev
    <3> HIDE DEF e
    <3>3. /\ DOMAIN flow_table' = DOMAIN flow_table \cup {f} /\ flow_table'[f] = e
          /\ flow_table' = [x \in DOMAIN flow_table' |-> flow_table'[x]]
          /\ \A x \in DOMAIN flow_table : x # f => flow_table'[x] = flow_table[x]
      BY <3>2 DEF With
    <3>4. f \notin DOMAIN agreed'
      BY <1>3, <1>6, <2>2 DEF push_rev, SetGatewayInv
    <3> QED
      BY <1>1, <1>3, <1>6, <3>1, <3>3, <3>4, EntryKeeps DEF push_rev
  <2> QED
    BY <2>1, <2>2
<1>7. CASE push_tcp
  BY <1>4, <1>5, <1>6, <1>7 DEF push_tcp
<1>8. CASE cleanup
  <2>1. /\ DOMAIN flow_table' = {f \in DOMAIN flow_table : Kept(flow_table[f])}
        /\ flow_table' = [x \in DOMAIN flow_table' |-> flow_table'[x]]
        /\ \A x \in DOMAIN flow_table' : flow_table'[x] = flow_table[x]
    BY <1>8 DEF cleanup, Without, Restrict
  <2>2. \A f \in DOMAIN agreed : Kept(flow_table[f])
    BY DEF Kept, SetGatewayInv
  <2>3. UNCHANGED <<fixed_gw, best, agreed, sentTo>>
    BY <1>8 DEF cleanup
  <2> QED
    BY <2>1, <2>2, <2>3 DEF SetGatewayInv, SetGatewayTypeOK
<1>9. ASSUME NEW f \in FlowIds, FlowAges(f)
      PROVE  SetGatewayInv'
  <2> DEFINE e == [flow_table[f] EXCEPT !.young = FALSE]
  <2>1. flow_table[f] \in FlowEntry /\ f \in DOMAIN flow_table
    BY <1>9 DEF FlowAges, SetGatewayInv
  <2>2. e \in FlowEntry /\ e.gw = flow_table[f].gw /\ e.rev_alive = flow_table[f].rev_alive
    BY <2>1 DEF FlowEntry
  <2>3. flow_table' = [flow_table EXCEPT ![f] = e]
    BY <1>9 DEF FlowAges
  <2> HIDE DEF e
  <2>4. /\ DOMAIN flow_table' = DOMAIN flow_table \cup {f} /\ flow_table'[f] = e
        /\ flow_table' = [x \in DOMAIN flow_table' |-> flow_table'[x]]
        /\ \A x \in DOMAIN flow_table : x # f => flow_table'[x] = flow_table[x]
    BY <2>1, <2>3
  <2>5. UNCHANGED <<fixed_gw, best, agreed, sentTo>>
    BY <1>9 DEF FlowAges
  <2>6. f \in DOMAIN agreed' => agreed'[f] = e.gw /\ e.rev_alive
    BY <2>2, <2>5 DEF SetGatewayInv
  <2> QED
    BY <1>1, <2>2, <2>4, <2>5, <2>6, EntryKeeps DEF SetGatewayInv
<1> QED
  BY <1>1, <1>2, <1>7, <1>8, <1>9
     DEF SetGatewayNext, SR1SetGateway_push, SR1SetGateway_push_fwd, push_other, change_param,
         BestChanges, setGatewayVars

-----------------------------------------------------------------------------
(* DupeFilter.  Between the two times at which a packet could pass, only   *)
(* packets may pass that are neither too late for it nor make it too late: *)
(* fewer than the window holds, as long as none of them passes twice.      *)

Indexes == 1 .. Len(Numbers)
SentData == {m \in [number : Nat, ap : Ap, index : Indexes] : m.number = Numbers[m.index]}

\* s is what DupeFilter keeps when p has passed
Window(p, s) ==
    /\ p \in Seq(Indexes) /\ s \in Seq(Nat)
    /\ \A j, k \in 1 .. Len(p) : j < k => p[j] # p[k] /\ p[j] < p[k] + Late
    /\ Len(s) = IF Len(p) < DupeWindow THEN Len(p) ELSE DupeWindow
    /\ \A i \in 1 .. Len(s) : s[i] = Numbers[p[Len(p) - Len(s) + i]]

\* A packet that passed and is not too late is found in the window.
LEMMA WindowKnows ==
    ASSUME NEW p, NEW s, Window(p, s), NEW m \in Indexes, NEW i \in 1 .. Len(p), p[i] = m,
           \A k \in 1 .. Len(p) : p[k] < m + Late
    PROVE  \E j \in 1 .. Len(s) : s[j] = Numbers[m]
<1>1. /\ p \in Seq(Indexes) /\ s \in Seq(Nat) /\ Len(p) \in Nat /\ Len(s) \in Nat /\ m \in Int
      /\ DupeWindow \in Nat /\ DupeWindow > 0 /\ Late \in Nat /\ 2 * Late <= DupeWindow + 1
  BY SRTablesAssumption DEF Window, Late, Indexes
<1>2. CASE i > Len(p) - Len(s)
  <2>1. i - (Len(p) - Len(s)) \in 1 .. Len(s)
    BY <1>1, <1>2 DEF Window
  <2>2. s[i - (Len(p) - Len(s))] = Numbers[p[Len(p) - Len(s) + (i - (Len(p) - Len(s)))]]
    BY <2>1 DEF Window
  <2>3. Len(p) - Len(s) + (i - (Len(p) - Len(s))) = i
    BY <1>1
  <2> QED
    BY <2>1, <2>2, <2>3
<1>3. CASE i <= Len(p) - Len(s)
  <2>1. Len(s) = DupeWindow /\ i + DupeWindow <= Len(p)
    BY <1>1, <1>3 DEF Window
  <2> DEFINE A == 0 .. DupeWindow
             B == m - Late + 1 .. m + Late - 1
             f == [k \in A |-> p[i + k]]
  <2>2. \A k \in A : i + k \in 1 .. Len(p) /\ p[i + k] \in Int
    BY <1>1, <2>1, SMTT(30) DEF Indexes
  <2>3. \A k \in A : p[i + k] \in B
    <3> SUFFICES ASSUME NEW k \in A PROVE p[i + k] \in B
      OBVIOUS
    <3>1. p[i + k] < m + Late
      BY <2>2
    <3>2. k # 0 => m < p[i + k] + Late
      <4>1. i + k \in 1 .. Len(p) /\ (k # 0 => i < i + k)
        BY <1>1, <2>2, SMTT(30)
      <4> HIDE DEF A
      <4> QED
        BY <4>1 DEF Window
    <3>3. k = 0 => p[i + k] = m
      BY <1>1
    <3>4. Late >= 1
      BY <1>1, SRTablesAssumption DEF Late
    <3>5. k \in Int
      BY <1>1
    <3> HIDE DEF A
    <3>6. p[i + k] \in Int
      BY <2>2
    <3> QED
      BY <1>1, <3>1, <3>2, <3>3, <3>4, <3>5, <3>6, SMTT(30)
  <2>4. f \in [A -> B]
    BY <2>3
  <2>5. IsFiniteSet(A) /\ Cardinality(A) = DupeWindow + 1
    <3>1. 0 \in Int /\ DupeWindow \in Int /\ ~(0 > DupeWindow) /\ DupeWindow - 0 + 1 = DupeWindow + 1
      BY <1>1
    <3> QED
      BY <3>1, FS_Interval
  <2>6. IsFiniteSet(B) /\ Cardinality(B) = IF m - Late + 1 > m + Late - 1 THEN 0 ELSE 2 * Late - 1
    <3> DEFINE a == m - Late + 1
               b == m + Late - 1
    <3>1. a \in Int /\ b \in Int /\ b - a + 1 = 2 * Late - 1
      BY <1>1
    <3> HIDE DEF a, b
    <3>2. IsFiniteSet(a .. b) /\ Cardinality(a .. b) = IF a > b THEN 0 ELSE b - a + 1
      BY <3>1, FS_Interval
    <3> QED
      BY <3>1, <3>2 DEF a, b
  <2>7. Cardinality(B) < Cardinality(A)
    BY <1>1, <2>5, <2>6
  <2> HIDE DEF A, B, f
  <2>8. \E x, y \in A : x # y /\ f[x] = f[y]
    BY <2>4, <2>5, <2>6, <2>7, FS_PigeonHole
  <2>9. PICK x, y \in A : x # y /\ p[i + x] = p[i + y]
    BY <2>8 DEF f
  <2>10. x \in Int /\ y \in Int
    BY DEF A
  <2>11. i + x < i + y \/ i + y < i + x
    BY <1>1, <2>9, <2>10
  <2> QED
    BY <2>2, <2>9, <2>10, <2>11 DEF Window
<1> QED
  BY <1>1, <1>2, <1>3

\* A packet that passes enters the window.
LEMMA WindowPasses ==
    ASSUME NEW p, NEW s, Window(p, s), NEW m \in Indexes,
           \A k \in 1 .. Len(p) : p[k] # m /\ p[k] < m + Late
    PROVE  Window(Append(p, m), DupeFilter_window(Append(s, Numbers[m])))
<1>1. /\ p \in Seq(Indexes) /\ s \in Seq(Nat) /\ Len(p) \in Nat /\ Len(s) \in Nat
      /\ DupeWindow \in Nat /\ DupeWindow > 0 /\ Numbers[m] \in Nat
  BY SRTablesAssumption DEF Window, Indexes
<1> DEFINE p2 == Append(p, m)
           s1 == Append(s, Numbers[m])
           s2 == DupeFilter_window(s1)
<1>2. /\ p2 \in Seq(Indexes) /\ Len(p2) = Len(p) + 1 /\ p2[Len(p) + 1] = m
      /\ \A k \in 1 .. Len(p) : p2[k] = p[k]
  BY <1>1
<1>3. /\ s1 \in Seq(Nat) /\ Len(s1) = Len(s) + 1 /\ s1[Len(s) + 1] = Numbers[m] /\ s1 # <<>>
      /\ \A k \in 1 .. Len(s) : s1[k] = s[k]
  BY <1>1, SMTT(30)
<1> HIDE DEF p2, s1
<1>4. Len(s) = (IF Len(p) < DupeWindow THEN Len(p) ELSE DupeWindow)
  BY DEF Window
<1>5. \A j, k \in 1 .. Len(p2) : j < k => p2[j] # p2[k] /\ p2[j] < p2[k] + Late
  <2> SUFFICES ASSUME NEW j \in 1 .. Len(p2), NEW k \in 1 .. Len(p2), j < k
               PROVE  p2[j] # p2[k] /\ p2[j] < p2[k] + Late
    OBVIOUS
  <2>1. j \in 1 .. Len(p) /\ (k = Len(p) + 1 \/ k \in 1 .. Len(p))
    BY <1>1, <1>2
  <2> QED
    BY <1>2, <2>1, SMTT(30) DEF Window
<1>6. \A i \in 1 .. Len(s1) : s1[i] = Numbers[p2[Len(p) - Len(s) + i]]
  <2> SUFFICES ASSUME NEW i \in 1 .. Len(s1) PROVE s1[i] = Numbers[p2[Len(p) - Len(s) + i]]
    OBVIOUS
  <2>1. CASE i = Len(s) + 1
    <3>1. Len(p) - Len(s) + i = Len(p) + 1
      BY <1>1, <2>1
    <3> QED
      BY <1>2, <1>3, <2>1, <3>1
  <2>2. CASE i \in 1 .. Len(s)
    <3>1. Len(p) - Len(s) + i \in 1 .. Len(p)
      BY <1>1, <1>4, <2>2
    <3> QED
      BY <1>2, <1>3, <2>2, <3>1 DEF Window
  <2> QED
    BY <1>1, <1>3, <2>1, <2>2
<1>7. CASE Len(s) < DupeWindow
  <2>1. s2 = s1
    BY <1>1, <1>3, <1>7 DEF DupeFilter_window
  <2>2. Len(s1) = IF Len(p2) < DupeWindow THEN Len(p2) ELSE DupeWindow
    BY <1>1, <1>2, <1>3, <1>4, <1>7
  <2>3. Len(p2) - Len(s1) = Len(p) - Len(s)
    BY <1>1, <1>2, <1>3
  <2>4. Window(p2, s1)
    BY <1>2, <1>3, <1>5, <1>6, <2>2, <2>3 DEF Window
  <2> HIDE DEF s2
  <2> QED
    BY <2>1, <2>4 DEF p2, s1, s2
<1>8. CASE Len(s) = DupeWindow
  <2>1. s2 = Tail(s1)
    BY <1>1, <1>3, <1>8 DEF DupeFilter_window
  <2>2. /\ s2 \in Seq(Nat) /\ Len(s2) = DupeWindow
        /\ \A i \in 1 .. DupeWindow : s2[i] = s1[i + 1] /\ i + 1 \in 1 .. Len(s1)
    BY <1>1, <1>3, <1>8, <2>1
  <2>3. Len(s2) = IF Len(p2) < DupeWindow THEN Len(p2) ELSE DupeWindow
    BY <1>1, <1>2, <1>4, <1>8, <2>2
  <2>4. \A i \in 1 .. Len(s2) : s2[i] = Numbers[p2[Len(p2) - Len(s2) + i]]
    <3> SUFFICES ASSUME NEW i \in 1 .. DupeWindow PROVE s2[i] = Numbers[p2[Len(p2) - Len(s2) + i]]
      BY <2>2
    <3>1. Len(p2) - Len(s2) + i = Len(p) - Len(s) + (i + 1)
      BY <1>1, <1>2, <1>8, <2>2
    <3> QED
      BY <1>6, <2>2, <3>1
  <2> HIDE DEF s2
  <2>5. Window(p2, s2)
    BY <1>2, <1>5, <2>2, <2>3, <2>4 DEF Window
  <2> QED
    BY <2>5 DEF p2, s1, s2
<1> QED
  BY <1>1, <1>4, <1>7, <1>8

\* what the data path keeps: the device, and the window of DupeFilter
SRDataInv ==
    /\ send = [cache |-> send.cache, routes |-> send.routes, out |-> send.out, next |-> send.next]
    /\ send.routes \subseteq Ap /\ send.out \in Seq(SentData) /\ send.next \in Nat \ {0}
    /\ device \in [sent : Nat, failed : Nat, failures : Nat, notified : BOOLEAN, calls : Nat]
    /\ device.failed <= device.sent /\ device.calls <= device.failed
    /\ rx \in [air : SUBSET SentData, sequences : Seq(Nat), old : BOOLEAN, passed : Seq(Indexes), twice : SUBSET Indexes]
    /\ Window(rx.passed, rx.sequences)
    /\ rx.twice = {}

\* DupeFilter starts within its invariant.
LEMMA SRDataStart == SRTablesInit => SRDataInv
<1>1. Window(<<>>, <<>>)
  BY SRTablesAssumption DEF Window
<1> QED
  BY <1>1 DEF SRTablesInit, SRDataInv

\* DupeFilter passes a packet only if its window shows that it did not before.
LEMMA DupeFilterStep ==
    ASSUME SRDataInv, NEW m, NEW again \in BOOLEAN, NEW damaged \in BOOLEAN, NEW version,
           DupeFilter_simple_action(m, again, damaged, version)
    PROVE  SRDataInv'
<1> DEFINE reset == m.number = 0 \/ rx.old
           s == IF reset THEN <<>> ELSE rx.sequences
           p == IF reset THEN <<>> ELSE rx.passed
           dupe == m.number \in {s[i] : i \in DOMAIN s}
           left == IF again THEN rx.air ELSE rx.air \ {m}
           t == IF ~dupe /\ \E k \in 1 .. Len(p) : p[k] = m.index THEN rx.twice \cup {m.index} ELSE rx.twice
           p2 == IF dupe THEN p ELSE Append(p, m.index)
           s2 == IF dupe THEN s ELSE DupeFilter_window(Append(s, m.number))
<1>1. /\ m \in SentData /\ m.index \in Indexes /\ m.number = Numbers[m.index]
      /\ \A k \in 1 .. Len(rx.passed) : rx.passed[k] < m.index + Late
      /\ UNCHANGED <<send, device>>
  BY DEF DupeFilter_simple_action, SRDataInv, SentData
<1>2. CASE ~Good(damaged, version)
  <2>1. rx' = [rx EXCEPT !.air = rx.air \ {m}]
    BY <1>2 DEF DupeFilter_simple_action
  <2> QED
    BY <1>1, <2>1 DEF SRDataInv
<1>3. CASE Good(damaged, version)
  <2>1. rx' = [rx EXCEPT !.air = left, !.sequences = s2, !.old = FALSE, !.passed = p2, !.twice = t]
    BY <1>3 DEF DupeFilter_simple_action
  <2>2. Window(p, s)
    <3>1. Window(<<>>, <<>>)
      BY SRTablesAssumption DEF Window
    <3> QED
      BY <3>1 DEF SRDataInv
  <2>3. p \in Seq(Indexes) /\ s \in Seq(Nat)
    BY <2>2 DEF Window
  <2>4. \A k \in 1 .. Len(p) : p[k] < m.index + Late
    BY <1>1
  <2>5. dupe <=> \E i \in 1 .. Len(s) : s[i] = m.number
    BY <2>3, SMTT(30)
  <2> HIDE DEF p, s, dupe
  <2>6. ~dupe => \A k \in 1 .. Len(p) : p[k] # m.index
    BY <1>1, <2>2, <2>4, <2>5, WindowKnows
  <2>7. t = rx.twice
    BY <2>6
  <2>8. Window(p2, s2)
    BY <1>1, <2>2, <2>4, <2>6, WindowPasses
  <2>9. p2 \in Seq(Indexes) /\ s2 \in Seq(Nat)
    BY <2>8 DEF Window
  <2>10. left \in SUBSET SentData /\ rx.twice = {}
    BY DEF SRDataInv
  <2> HIDE DEF p2, s2, t, left
  <2>11. rx \in [air : SUBSET SentData, sequences : Seq(Nat), old : BOOLEAN, passed : Seq(Indexes), twice : SUBSET Indexes]
    BY DEF SRDataInv
  <2>12. /\ rx' \in [air : SUBSET SentData, sequences : Seq(Nat), old : BOOLEAN, passed : Seq(Indexes),
                     twice : SUBSET Indexes]
         /\ rx'.passed = p2 /\ rx'.sequences = s2 /\ rx'.twice = {}
    BY <2>1, <2>7, <2>9, <2>10, <2>11
  <2> QED
    BY <1>1, <2>8, <2>12 DEF SRDataInv
<1> QED
  BY <1>2, <1>3

\* Every step of the tables of data packets keeps the invariant.
LEMMA SRDataStep ==
    ASSUME SRDataInv, SRDataNext \/ UNCHANGED <<send, device, rx>>
    PROVE  SRDataInv'
<1>1. CASE UNCHANGED <<send, device, rx>>
  BY <1>1 DEF SRDataInv
<1>2. ASSUME NEW c \in Visitor, SRDestCache_push(c)
      PROVE  SRDataInv'
  <2> DEFINE m == [number |-> Numbers[send.next], ap |-> send.cache[c], index |-> send.next]
             known == c \in DOMAIN send.cache /\ send.cache[c] \in send.routes
             out == IF known THEN <<m>> ELSE <<>>
  <2>1. /\ send.next \in Indexes /\ Numbers[send.next] \in Nat
        /\ send' = [send EXCEPT !.next = send.next + 1, !.out = out] /\ UNCHANGED <<device, rx>>
    <3>1. send.next \in Indexes
      <4>1. send.next <= Len(Numbers)
        BY <1>2 DEF SRDestCache_push
      <4> QED
        BY <4>1, SRTablesAssumption DEF SRDataInv, Indexes
    <3>2. Numbers[send.next] \in Nat
      BY <3>1, SRTablesAssumption DEF Indexes
    <3>3. /\ send' = [send EXCEPT !.next = send.next + 1, !.out = out]
          /\ UNCHANGED <<device, rx>>
      BY <1>2 DEF SRDestCache_push
    <3> QED
      BY <3>1, <3>2, <3>3
  <2>2. out \in Seq(SentData)
    <3>1. CASE known
      <4>1. m \in SentData
        BY <2>1, <3>1 DEF SRDataInv, SentData
      <4> HIDE DEF m, known
      <4> QED
        BY <3>1, <4>1
    <3>2. CASE ~known
      BY <3>2
    <3> QED
      BY <3>1, <3>2
  <2> HIDE DEF out
  <2>3. /\ send' = [cache |-> send.cache, routes |-> send.routes, out |-> out, next |-> send.next + 1]
    BY <2>1 DEF SRDataInv
  <2>4. send.routes \subseteq Ap /\ send.next + 1 \in Nat \ {0}
    BY DEF SRDataInv
  <2>5. /\ send'.cache = send.cache /\ send'.routes = send.routes
        /\ send'.out = out /\ send'.next = send.next + 1
    BY <2>3
  <2> QED
    BY <2>1, <2>2, <2>3, <2>4, <2>5 DEF SRDataInv
<1>3. ASSUME NEW c \in Visitor, NEW ap \in Ap, SRDestCache_learn(c, ap)
      PROVE  SRDataInv'
  <2> DEFINE cache == Put(send.cache, c, ap)
  <2>1. send' = [send EXCEPT !.cache = cache] /\ UNCHANGED <<device, rx>>
    BY <1>3 DEF SRDestCache_learn
  <2> HIDE DEF cache
  <2>2. send' = [cache |-> cache, routes |-> send.routes, out |-> send.out, next |-> send.next]
    BY <2>1 DEF SRDataInv
  <2> QED
    BY <2>1, <2>2 DEF SRDataInv
<1>4. ASSUME NEW R \in SUBSET Ap, send' = [send EXCEPT !.routes = R], UNCHANGED <<device, rx>>
      PROVE  SRDataInv'
  <2>1. send' = [cache |-> send.cache, routes |-> R, out |-> send.out, next |-> send.next]
    BY <1>4 DEF SRDataInv
  <2> QED
    BY <1>4, <2>1 DEF SRDataInv
<1>5. ASSUME NEW ap \in Ap, set_route(ap)
      PROVE  SRDataInv'
  <2>1. send.routes \cup {ap} \in SUBSET Ap
    BY DEF SRDataInv
  <2> QED
    BY <1>4, <1>5, <2>1 DEF set_route
<1>6. CASE clear_routes
  BY <1>4, <1>6 DEF clear_routes
<1>7. CASE PathIdle
  BY <1>7 DEF PathIdle, SRDataInv
<1>8. ASSUME NEW success \in BOOLEAN, NEW received \in BOOLEAN, Transmit(success, received)
      PROVE  SRDataInv'
  <2>1. send' = [send EXCEPT !.out = <<>>] /\ Head(send.out) \in SentData
    BY <1>8 DEF Transmit, SRDataInv
  <2>2. send' = [cache |-> send.cache, routes |-> send.routes, out |-> <<>>, next |-> send.next]
    BY <2>1 DEF SRDataInv
  <2>3. /\ rx' \in [air : SUBSET SentData, sequences : Seq(Nat), old : BOOLEAN, passed : Seq(Indexes),
                    twice : SUBSET Indexes]
        /\ rx'.passed = rx.passed /\ rx'.sequences = rx.sequences /\ rx'.twice = rx.twice
    BY <1>8, <2>1 DEF Transmit, SRDataInv
  <2>4. /\ device' \in [sent : Nat, failed : Nat, failures : Nat, notified : BOOLEAN, calls : Nat]
        /\ device'.failed <= device'.sent /\ device'.calls <= device'.failed
    <3> DEFINE D == [sent : Nat, failed : Nat, failures : Nat, notified : BOOLEAN, calls : Nat]
               d == LinkFailureDetection_count(device, success)
    <3>1. device \in D /\ device.failed <= device.sent /\ device.calls <= device.failed
      BY DEF SRDataInv
    <3>2. /\ d \in D /\ d.sent = device.sent /\ d.failed = device.failed
          /\ d.calls \in Nat /\ d.calls <= device.calls + 1 /\ (success => d.calls = device.calls)
      <4>1. CASE success
        <5>1. d = [device EXCEPT !.failures = 0, !.notified = FALSE]
          BY <4>1 DEF LinkFailureDetection_count
        <5> HIDE DEF d
        <5>2. d \in D /\ d.sent = device.sent /\ d.failed = device.failed /\ d.calls = device.calls
          BY <3>1, <5>1
        <5> QED
          BY <3>1, <4>1, <5>2
      <4>2. CASE ~success
        <5> DEFINE n == device.failures + 1
                   b == device.notified \/ n % LinkThreshold = 0
                   x == IF n % LinkThreshold = 0 THEN device.calls + 1 ELSE device.calls
        <5>1. d = [device EXCEPT !.failures = n, !.notified = b, !.calls = x]
          BY <4>2 DEF LinkFailureDetection_count
        <5>2. b \in BOOLEAN
          OBVIOUS
        <5>3. n \in Nat /\ x \in Nat /\ x <= device.calls + 1
          BY <3>1
        <5> HIDE DEF n, b, x, d
        <5> QED
          BY <3>1, <4>2, <5>1, <5>2, <5>3
      <4> QED
        BY <4>1, <4>2
    <3> DEFINE x == IF success THEN d.failed ELSE d.failed + 1
    <3>3. device' = [d EXCEPT !.sent = d.sent + 1, !.failed = x] /\ x \in Nat /\ d.sent + 1 \in Nat
      BY <1>8, <3>2 DEF Transmit
    <3> HIDE DEF d, x
    <3>4. /\ device' \in D /\ device'.sent = d.sent + 1 /\ device'.calls = d.calls
          /\ device'.failed = x
      BY <3>2, <3>3
    <3> QED
      BY <3>1, <3>2, <3>4 DEF x
  <2> QED
    BY <2>2, <2>3, <2>4 DEF SRDataInv
<1> QED
  BY <1>1, <1>2, <1>3, <1>5, <1>6, <1>7, <1>8, DupeFilterStep
     DEF SRDataNext, SR2DestCache_push, SR2SetSourceRoute_simple_action, SR2CheckHeader_simple_action

-----------------------------------------------------------------------------
(* FloodTracker and SRQueryForwarder keep what they have seen in a list    *)
(* with a limit.                                                           *)

\* how many entries make room
Gone(s) == IF Len(s) = SeenRoom THEN 1 ELSE 0
\* r is the list s of members of S with x at its end
Holds(S, s, x, r) ==
    /\ r \in Seq(S) /\ Len(r) = Len(s) + 1 - Gone(s) /\ Len(r) <= SeenRoom /\ Len(r) >= 1
    /\ r[Len(r)] = x
    /\ \A i \in 1 .. Len(r) - 1 : i + Gone(s) \in 1 .. Len(s) /\ r[i] = s[i + Gone(s)]

\* FloodTracker remembers a new broadcast, and forgets the oldest one if it must.
LEMMA RememberedHolds ==
    ASSUME NEW S, NEW s \in Seq(S), Len(s) <= SeenRoom, NEW x \in S
    PROVE  Holds(S, s, x, Remembered(s, x))
<1>1. SeenRoom \in Nat /\ SeenRoom > 0 /\ Len(s) \in Nat
  BY SRTablesAssumption
<1>2. CASE Len(s) = SeenRoom
  <2>1. Remembered(s, x) = Append(Tail(s), x) /\ s # <<>>
    BY <1>1, <1>2 DEF Remembered
  <2> DEFINE u == Tail(s)
             r == Append(u, x)
  <2>2. /\ u \in Seq(S) /\ Len(u) = Len(s) - 1
        /\ \A i \in 1 .. Len(s) - 1 : u[i] = s[i + 1] /\ i + 1 \in 1 .. Len(s)
    BY <1>1, <2>1
  <2> HIDE DEF u
  <2>3. r \in Seq(S) /\ Len(r) = Len(s) /\ r[Len(s)] = x /\ \A i \in 1 .. Len(s) - 1 : r[i] = u[i]
    BY <1>1, <1>2, <2>2
  <2> HIDE DEF r
  <2>4. Remembered(s, x) = r
    BY <2>1 DEF r, u
  <2> QED
    BY <1>1, <1>2, <2>2, <2>3, <2>4 DEF Holds, Gone
<1>3. CASE Len(s) # SeenRoom
  <2> DEFINE r == Append(s, x)
  <2>1. Remembered(s, x) = r
    BY <1>3 DEF Remembered
  <2>2. r \in Seq(S) /\ Len(r) = Len(s) + 1 /\ r[Len(s) + 1] = x /\ \A i \in 1 .. Len(s) : r[i] = s[i]
    BY <1>1
  <2> HIDE DEF r
  <2> QED
    BY <1>1, <1>3, <2>1, <2>2 DEF Holds, Gone
<1> QED
  BY <1>2, <1>3

\* every broadcast that was counted is still in the list, or made room
SRFloodInv ==
    /\ floods \in [seq : Nat, air : SUBSET Nat, seen : Seq(Nat), counted : Nat, forgot : Nat]
    /\ floods.air \subseteq 1 .. floods.seq
    /\ Len(floods.seen) <= SeenRoom
    /\ \A i \in 1 .. Len(floods.seen) : floods.seen[i] \in 1 .. floods.seq
    /\ \A i, j \in 1 .. Len(floods.seen) : floods.seen[i] = floods.seen[j] => i = j
    /\ floods.counted = Len(floods.seen) + floods.forgot

\* FloodTracker starts within its invariant.
LEMMA SRFloodStart == SRTablesInit => SRFloodInv
BY SRTablesAssumption DEF SRTablesInit, SRFloodInv

\* Every step of FloodTracker and LocalBroadcast keeps the invariant.
LEMMA SRFloodStep ==
    ASSUME SRFloodInv, SRFloodNext \/ UNCHANGED floods
    PROVE  SRFloodInv'
<1> DEFINE T == [seq : Nat, air : SUBSET Nat, seen : Seq(Nat), counted : Nat, forgot : Nat]
<1>1. CASE UNCHANGED floods
  BY <1>1 DEF SRFloodInv
<1>2. floods \in T /\ floods.seq \in Nat
  BY DEF SRFloodInv
<1>3. CASE LocalBroadcast_push
  <2>1. floods' = [floods EXCEPT !.seq = floods.seq + 1, !.air = floods.air \cup {floods.seq + 1}]
    BY <1>3 DEF LocalBroadcast_push
  <2>2. floods.air \cup {floods.seq + 1} \in SUBSET Nat /\ floods.seq + 1 \in Nat
    BY <1>2
  <2>3. /\ floods' \in T /\ floods'.seq = floods.seq + 1 /\ floods'.air = floods.air \cup {floods.seq + 1}
        /\ floods'.seen = floods.seen /\ floods'.counted = floods.counted /\ floods'.forgot = floods.forgot
    BY <1>2, <2>1, <2>2
  <2>4. 1 .. floods.seq \subseteq 1 .. floods'.seq /\ floods.seq + 1 \in 1 .. floods'.seq
    BY <1>2, <2>3
  <2> QED
    BY <2>3, <2>4 DEF SRFloodInv
<1>4. ASSUME NEW n \in floods.air, NEW again \in BOOLEAN, FloodTracker_simple_action(n, again)
      PROVE  SRFloodInv'
  <2> DEFINE known == \E i \in DOMAIN floods.seen : floods.seen[i] = n
             left == IF again THEN floods.air ELSE floods.air \ {n}
             full == Len(floods.seen) = SeenRoom
             r == Remembered(floods.seen, n)
             forgot == IF full THEN floods.forgot + 1 ELSE floods.forgot
  <2>1. left \subseteq floods.air /\ n \in Nat /\ n \in 1 .. floods.seq /\ floods.seen \in Seq(Nat)
    BY <1>2 DEF SRFloodInv
  <2>2. CASE known
    <3>1. floods' = [floods EXCEPT !.air = left, !.seen = floods.seen, !.counted = floods.counted, !.forgot = floods.forgot]
      BY <1>4, <2>2 DEF FloodTracker_simple_action
    <3> HIDE DEF left
    <3>2. /\ floods' \in T /\ floods'.seq = floods.seq /\ floods'.air = left
          /\ floods'.seen = floods.seen /\ floods'.counted = floods.counted /\ floods'.forgot = floods.forgot
      BY <1>2, <2>1, <3>1
    <3> QED
      BY <2>1, <3>2 DEF SRFloodInv
  <2>3. CASE ~known
    <3>1. floods' = [floods EXCEPT !.air = left, !.seen = r, !.counted = floods.counted + 1, !.forgot = forgot]
      BY <1>4, <2>3 DEF FloodTracker_simple_action
    <3> DEFINE d == Gone(floods.seen)
    <3>2. /\ r \in Seq(Nat) /\ Len(r) = Len(floods.seen) + 1 - d /\ Len(r) <= SeenRoom /\ Len(r) >= 1
          /\ r[Len(r)] = n
          /\ \A i \in 1 .. Len(r) - 1 : i + d \in 1 .. Len(floods.seen) /\ r[i] = floods.seen[i + d]
      <4>1. Len(floods.seen) <= SeenRoom
        BY DEF SRFloodInv
      <4>2. Holds(Nat, floods.seen, n, r)
        BY <2>1, <4>1, RememberedHolds
      <4> QED
        BY <4>2 DEF Holds
    <3>3. d \in {0, 1} /\ forgot = floods.forgot + d /\ forgot \in Nat /\ floods.counted + 1 \in Nat
      BY <1>2 DEF Gone
    <3>4. \A i \in 1 .. Len(floods.seen) : floods.seen[i] # n
      BY <2>1, <2>3
    <3> HIDE DEF left, r, forgot, d, known, full
    <3>5. /\ floods' \in T /\ floods'.seq = floods.seq /\ floods'.air = left
          /\ floods'.seen = r /\ floods'.counted = floods.counted + 1 /\ floods'.forgot = forgot
      BY <1>2, <2>1, <3>1, <3>2, <3>3
    <3>6. Len(floods.seen) \in Nat /\ Len(r) \in Nat
      BY <2>1, <3>2
    <3>7. \A i \in 1 .. Len(r) : i = Len(r) \/ i \in 1 .. Len(r) - 1
      BY <3>6
    <3>8. \A i \in 1 .. Len(r) : r[i] \in 1 .. floods.seq
      BY <2>1, <3>2, <3>7 DEF SRFloodInv
    <3>9. \A i, j \in 1 .. Len(r) : r[i] = r[j] => i = j
      <4> SUFFICES ASSUME NEW i \in 1 .. Len(r), NEW j \in 1 .. Len(r), r[i] = r[j] PROVE i = j
        OBVIOUS
      <4>1. CASE i = Len(r) \/ j = Len(r)
        BY <3>2, <3>4, <3>7, <4>1
      <4>2. CASE i \in 1 .. Len(r) - 1 /\ j \in 1 .. Len(r) - 1
        <5>1. i + d = j + d
          BY <3>2, <4>2 DEF SRFloodInv
        <5> QED
          BY <3>3, <5>1
      <4> QED
        BY <3>7, <4>1, <4>2
    <3>10. floods.counted + 1 = Len(r) + forgot
      BY <1>2, <3>2, <3>3, <3>6, SMTT(30) DEF SRFloodInv
    <3> QED
      BY <2>1, <3>2, <3>5, <3>8, <3>9, <3>10 DEF SRFloodInv
  <2> QED
    BY <2>2, <2>3
<1> QED
  BY <1>1, <1>3, <1>4 DEF SRFloodNext, SR2LocalBroadcast_push

\* a list of different broadcasts is no longer than there are
LEMMA SRFloodInvSound == SRFloodInv => floods.counted <= floods.seq + floods.forgot
<1> SUFFICES ASSUME SRFloodInv PROVE floods.counted <= floods.seq + floods.forgot
  OBVIOUS
<1> DEFINE A == 1 .. Len(floods.seen)
           B == 1 .. floods.seq
           f == [i \in A |-> floods.seen[i]]
<1>1. /\ Len(floods.seen) \in Nat /\ floods.seq \in Nat /\ floods.forgot \in Nat
      /\ floods.counted = Len(floods.seen) + floods.forgot
  BY DEF SRFloodInv
<1>2. f \in [A -> B] /\ \A i, j \in A : f[i] = f[j] => i = j
  BY DEF SRFloodInv
<1>3. /\ IsFiniteSet(A) /\ Cardinality(A) = Len(floods.seen)
      /\ IsFiniteSet(B) /\ Cardinality(B) = floods.seq
  <2>1. \A k \in Nat : IsFiniteSet(1 .. k) /\ Cardinality(1 .. k) = k
    <3> SUFFICES ASSUME NEW k \in Nat PROVE IsFiniteSet(1 .. k) /\ Cardinality(1 .. k) = k
      OBVIOUS
    <3>1. 1 \in Int /\ k \in Int /\ (1 > k => k = 0) /\ k - 1 + 1 = k
      OBVIOUS
    <3> QED
      BY <3>1, FS_Interval
  <2> QED
    BY <1>1, <2>1
<1> HIDE DEF A, B, f
<1>4. ~(Cardinality(B) < Cardinality(A))
  BY <1>2, <1>3, FS_PigeonHole
<1> QED
  BY <1>1, <1>3, <1>4

\* An entry that was not sent stands for one time that its query was entered and
\* not forwarded, and a query has one entry at most.
QueryEntry == [seq : 1 .. MaxFloods, due : BOOLEAN, sent : BOOLEAN]
SRQueryInv ==
    /\ query \in [seen : Seq(QueryEntry), timers : [1 .. MaxFloods -> Int],
                  entered : [1 .. MaxFloods -> Nat], forwarded : [1 .. MaxFloods -> Nat]]
    /\ Len(query.seen) <= SeenRoom
    /\ \A i, j \in 1 .. Len(query.seen) : query.seen[i].seq = query.seen[j].seq => i = j
    /\ \A n \in 1 .. MaxFloods : query.forwarded[n] <= query.entered[n]
    /\ \A i \in 1 .. Len(query.seen) :
          ~query.seen[i].sent => query.forwarded[query.seen[i].seq] < query.entered[query.seen[i].seq]

\* SRQueryForwarder starts within its invariant.
LEMMA SRQueryStart == SRTablesInit => SRQueryInv
BY SRTablesAssumption DEF SRTablesInit, SRQueryInv

\* Every step of SRQueryForwarder keeps the invariant.
LEMMA SRQueryStep ==
    ASSUME SRQueryInv, SRQueryNext \/ UNCHANGED query
    PROVE  SRQueryInv'
<1> DEFINE N == 1 .. MaxFloods
           T == [seen : Seq(QueryEntry), timers : [N -> Int], entered : [N -> Nat], forwarded : [N -> Nat]]
           qs == query.seen
<1>1. CASE UNCHANGED query
  BY <1>1 DEF SRQueryInv
<1>2. /\ query \in T /\ qs \in Seq(QueryEntry) /\ Len(qs) \in Nat /\ Len(qs) <= SeenRoom
      /\ query.timers \in [N -> Int] /\ query.entered \in [N -> Nat] /\ query.forwarded \in [N -> Nat]
  BY DEF SRQueryInv
<1>3. ASSUME NEW n \in N, NEW mine \in BOOLEAN, process_query(n, mine)
      PROVE  SRQueryInv'
  <2> DEFINE known == \E i \in DOMAIN qs : qs[i].seq = n
             x == [seq |-> n, due |-> FALSE, sent |-> FALSE]
             r == Remembered(qs, x)
             tm == [query.timers EXCEPT ![n] = @ + 1]
             en == [query.entered EXCEPT ![n] = @ + 1]
  <2>1. CASE mine \/ known
    BY <1>1, <1>3, <2>1 DEF process_query
  <2>2. CASE ~mine /\ ~known
    <3>1. query' = [query EXCEPT !.seen = r, !.timers = tm, !.entered = en]
      BY <1>3, <2>2 DEF process_query
    <3> DEFINE d == Gone(qs)
    <3>2. /\ x \in QueryEntry /\ x.seq = n /\ ~x.sent
          /\ \A i \in 1 .. Len(qs) : qs[i].seq # n
      BY <1>2, <2>2, SMTT(30) DEF QueryEntry
    <3> HIDE DEF x, known, qs, N
    <3>3. /\ r \in Seq(QueryEntry) /\ Len(r) = Len(qs) + 1 - d /\ Len(r) <= SeenRoom /\ Len(r) >= 1
          /\ r[Len(r)] = x
          /\ \A i \in 1 .. Len(r) - 1 : i + d \in 1 .. Len(qs) /\ r[i] = qs[i + d]
      <4>1. Holds(QueryEntry, qs, x, r)
        BY <1>2, <3>2, RememberedHolds
      <4> QED
        BY <4>1 DEF Holds
    <3>4. tm \in [N -> Int] /\ en \in [N -> Nat]
      BY <1>2
    <3>5. \A k \in N : en[k] = IF k = n THEN query.entered[k] + 1 ELSE query.entered[k]
      BY <1>2
    <3>6. d \in {0, 1}
      BY DEF Gone
    <3> HIDE DEF r, tm, en, d
    <3>7. /\ query' \in T /\ query'.seen = r /\ query'.entered = en /\ query'.forwarded = query.forwarded
      BY <1>2, <3>1, <3>3, <3>4
    <3>8. \A i \in 1 .. Len(r) : i = Len(r) \/ i \in 1 .. Len(r) - 1
      BY <3>3
    <3>9. \A i, j \in 1 .. Len(r) : r[i].seq = r[j].seq => i = j
      <4> SUFFICES ASSUME NEW i \in 1 .. Len(r), NEW j \in 1 .. Len(r), r[i].seq = r[j].seq PROVE i = j
        OBVIOUS
      <4>1. CASE i = Len(r) \/ j = Len(r)
        BY <3>2, <3>3, <3>8, <4>1
      <4>2. CASE i \in 1 .. Len(r) - 1 /\ j \in 1 .. Len(r) - 1
        <5>1. i + d = j + d
          BY <3>3, <4>2 DEF SRQueryInv, qs
        <5> QED
          BY <3>6, <5>1
      <4> QED
        BY <3>8, <4>1, <4>2
    <3>10. \A k \in N : /\ query.forwarded[k] \in Nat /\ query.entered[k] \in Nat
                        /\ query.forwarded[k] <= query.entered[k]
      BY <1>2 DEF SRQueryInv, N
    <3>11. \A k \in N : query.forwarded[k] <= en[k]
      BY <3>5, <3>10
    <3>12. ASSUME NEW i \in 1 .. Len(r), ~r[i].sent
           PROVE  query.forwarded[r[i].seq] < en[r[i].seq]
      <4>1. CASE i = Len(r)
        BY <3>2, <3>3, <3>5, <3>10, <4>1, SMTT(30)
      <4>2. CASE i \in 1 .. Len(r) - 1
        <5>1. /\ i + d \in 1 .. Len(qs) /\ r[i] = qs[i + d] /\ ~qs[i + d].sent
          BY <3>3, <3>12, <4>2
        <5>3. qs[i + d].seq # n /\ qs[i + d].seq \in N
          <6>1. qs[i + d] \in QueryEntry
            BY <1>2, <5>1
          <6>2. qs[i + d].seq \in N
            BY <6>1 DEF QueryEntry, N
          <6> QED
            BY <3>2, <5>1, <6>2
        <5>2. query.forwarded[qs[i + d].seq] < query.entered[qs[i + d].seq]
          BY <5>1 DEF SRQueryInv, qs
        <5> QED
          BY <3>5, <5>1, <5>2, <5>3
      <4> QED
        BY <3>8, <4>1, <4>2
    <3> QED
      BY <3>3, <3>7, <3>9, <3>11, <3>12 DEF SRQueryInv, N
  <2> QED
    BY <2>1, <2>2
<1>4. ASSUME NEW n \in N, NEW onTime \in BOOLEAN, NEW route \in BOOLEAN, forward_query_hook(n, onTime, route)
      PROVE  SRQueryInv'
  <2> DEFINE Dues(e) == [e EXCEPT !.due = TRUE]
             DueAt(when) == [i \in DOMAIN qs |-> IF qs[i].seq = n /\ when THEN Dues(qs[i]) ELSE qs[i]]
             now == DueAt(~onTime)
             late == DueAt(TRUE)
             F == {now[i].seq : i \in {j \in DOMAIN now : Forwards(now[j])}}
             tm == [query.timers EXCEPT ![n] = @ - 1]
             fw == [m \in DOMAIN query.forwarded |->
                      IF m \in F /\ route THEN query.forwarded[m] + 1 ELSE query.forwarded[m]]
             Sends(e) == [e EXCEPT !.sent = TRUE]
             r == [i \in DOMAIN now |-> IF now[i].seq \in F THEN Sends(now[i]) ELSE late[i]]
  <2>1. query' = [query EXCEPT !.timers = tm, !.seen = r, !.forwarded = fw]
    BY <1>4 DEF forward_query_hook
  <2>2. \A i \in 1 .. Len(qs) : qs[i] \in QueryEntry
    BY <1>2
  <2>3. ASSUME NEW when \in BOOLEAN
        PROVE  /\ DOMAIN DueAt(when) = 1 .. Len(qs)
               /\ \A i \in 1 .. Len(qs) : /\ DueAt(when)[i] \in QueryEntry /\ DueAt(when)[i].seq = qs[i].seq
                                          /\ DueAt(when)[i].sent = qs[i].sent
    <3>1. \A e \in QueryEntry : Dues(e) \in QueryEntry /\ Dues(e).seq = e.seq /\ Dues(e).sent = e.sent
      BY DEF QueryEntry
    <3> HIDE DEF Dues, qs
    <3> QED
      BY <1>2, <2>2, <3>1
  <2>4. /\ DOMAIN now = 1 .. Len(qs)
        /\ \A i \in 1 .. Len(qs) : now[i] \in QueryEntry /\ now[i].seq = qs[i].seq /\ now[i].sent = qs[i].sent
    BY <2>3
  <2>5. \A i \in 1 .. Len(qs) : late[i] \in QueryEntry /\ late[i].seq = qs[i].seq /\ late[i].sent = qs[i].sent
    BY <2>3
  <2> HIDE DEF now, late, DueAt
  <2>6. \A e \in QueryEntry : Sends(e) \in QueryEntry /\ Sends(e).seq = e.seq /\ Sends(e).sent
    BY DEF QueryEntry
  <2> HIDE DEF Sends, qs
  <2>7. /\ DOMAIN r = 1 .. Len(qs)
        /\ \A i \in 1 .. Len(qs) : /\ r[i] \in QueryEntry /\ r[i].seq = qs[i].seq
                                   /\ r[i].sent \/ (r[i].sent = qs[i].sent /\ r[i].seq \notin F)
    BY <2>4, <2>5, <2>6
  <2>8. r \in [1 .. Len(qs) -> QueryEntry]
    BY <2>4, <2>7
  <2>9. r \in Seq(QueryEntry) /\ Len(r) = Len(qs)
    BY <1>2, <2>8
  <2>10. \A k \in F : \E i \in 1 .. Len(qs) : qs[i].seq = k /\ ~qs[i].sent
    BY <2>4 DEF Forwards
  <2>11. \A k \in N : /\ query.forwarded[k] \in Nat /\ query.entered[k] \in Nat
                      /\ query.forwarded[k] <= query.entered[k]
    BY <1>2 DEF SRQueryInv
  <2>12. \A k \in F : query.forwarded[k] < query.entered[k]
    BY <2>10 DEF SRQueryInv, qs
  <2> HIDE DEF F, r, N
  <2>19. DOMAIN query.forwarded = N /\ DOMAIN query.timers = N
    BY <1>2
  <2>13. \A k \in N : /\ fw[k] \in Nat /\ fw[k] <= query.entered[k]
                      /\ k \notin F => fw[k] = query.forwarded[k]
    BY <2>11, <2>12, <2>19
  <2>14. fw \in [N -> Nat] /\ tm \in [N -> Int]
    BY <1>2, <2>13, <2>19
  <2> HIDE DEF fw, tm
  <2>15. /\ query' \in T /\ query'.seen = r /\ query'.entered = query.entered /\ query'.forwarded = fw
    BY <1>2, <2>1, <2>9, <2>14
  <2>16. \A i \in 1 .. Len(qs) : ~qs[i].sent => query.forwarded[qs[i].seq] < query.entered[qs[i].seq]
    BY DEF SRQueryInv, qs
  <2>17. \A i \in 1 .. Len(r) : ~r[i].sent => fw[r[i].seq] < query.entered[r[i].seq]
    <3> SUFFICES ASSUME NEW i \in 1 .. Len(r), ~r[i].sent PROVE fw[r[i].seq] < query.entered[r[i].seq]
      OBVIOUS
    <3>1. r[i].seq = qs[i].seq /\ r[i].seq \notin F /\ ~qs[i].sent /\ r[i].seq \in N
      BY <2>7, <2>9 DEF QueryEntry, N
    <3> QED
      BY <2>9, <2>13, <2>16, <3>1
  <2>18. \A i, j \in 1 .. Len(r) : r[i].seq = r[j].seq => i = j
    BY <2>7, <2>9 DEF SRQueryInv, qs
  <2> QED
    BY <1>2, <2>9, <2>13, <2>15, <2>17, <2>18 DEF SRQueryInv, N
<1>5. CASE clear_queries
  <2>1. query' = [query EXCEPT !.seen = <<>>]
    BY <1>5 DEF clear_queries
  <2>2. query' \in T /\ query'.seen = <<>> /\ query'.entered = query.entered /\ query'.forwarded = query.forwarded
    <3>1. <<>> \in Seq(QueryEntry)
      OBVIOUS
    <3> HIDE DEF N
    <3> QED
      BY <1>2, <2>1, <3>1
  <2>3. Len(<<>>) = 0 /\ 0 <= SeenRoom /\ 1 .. 0 = {}
    BY SRTablesAssumption
  <2> QED
    BY <2>2, <2>3 DEF SRQueryInv
<1> QED
  BY <1>1, <1>3, <1>4, <1>5
     DEF SRQueryNext, SR2QueryForwarder_push, SR2QueryForwarder_forward_query

\* The three paths do not touch each other's tables.
LEMMA SRTablesSteps ==
    ASSUME [SRDataNext \/ SRFloodNext \/ SRQueryNext]_tabVars
    PROVE  /\ SRDataNext \/ UNCHANGED <<send, device, rx>>
           /\ SRFloodNext \/ UNCHANGED floods
           /\ SRQueryNext \/ UNCHANGED query
<1>1. SRDataNext => UNCHANGED <<floods, query>>
  BY DEF SRDataNext, SRDestCache_push, SR2DestCache_push, SRDestCache_learn, set_route,
         SR2SetSourceRoute_simple_action, clear_routes, PathIdle, Transmit, DupeFilter_simple_action,
         SR2CheckHeader_simple_action
<1>2. SRFloodNext => UNCHANGED <<send, device, rx, query>>
  BY DEF SRFloodNext, LocalBroadcast_push, SR2LocalBroadcast_push, FloodTracker_simple_action
<1>3. SRQueryNext => UNCHANGED <<send, device, rx, floods>>
  <2>1. ASSUME NEW n, NEW b, process_query(n, b) PROVE UNCHANGED <<send, device, rx, floods>>
    BY <2>1 DEF process_query
  <2>2. ASSUME NEW n, NEW b, NEW route, forward_query_hook(n, b, route)
        PROVE  UNCHANGED <<send, device, rx, floods>>
    BY <2>2 DEF forward_query_hook
  <2>3. clear_queries => UNCHANGED <<send, device, rx, floods>>
    BY DEF clear_queries
  <2> QED
    BY <2>1, <2>2, <2>3 DEF SRQueryNext, SR2QueryForwarder_push, SR2QueryForwarder_forward_query
<1> QED
  BY <1>1, <1>2, <1>3 DEF tabVars

SRTablesInv == SRDataInv /\ SRFloodInv /\ SRQueryInv

\* Every step of the tables keeps the invariants of all three.
LEMMA SRTablesStep ==
    ASSUME SRTablesInv, [SRDataNext \/ SRFloodNext \/ SRQueryNext]_tabVars
    PROVE  SRTablesInv'
BY SRTablesSteps, SRDataStep, SRFloodStep, SRQueryStep DEF SRTablesInv

\* The invariants imply the property of the run.
LEMMA SRTablesInvSound == SRTablesInv => SRTablesTypeOK /\ TablesSound
<1> SUFFICES ASSUME SRTablesInv PROVE SRTablesTypeOK /\ TablesSound
  OBVIOUS
<1>1. Len(rx.sequences) <= DupeWindow
  BY SRTablesAssumption DEF SRTablesInv, SRDataInv, Window
<1>2. device.failed \in 0 .. device.sent /\ device.calls <= device.failed /\ send.routes \subseteq Ap /\ rx.twice = {}
  BY DEF SRTablesInv, SRDataInv
<1> QED
  BY <1>1, <1>2, SRFloodInvSound DEF SRTablesInv, SRFloodInv, SRQueryInv, SRTablesTypeOK, TablesSound

-----------------------------------------------------------------------------
(* CounterFlood and PFlood.  While a table is as long as there are         *)
(* broadcasts, nothing is trimmed: a node that heard of a broadcast has    *)
(* one entry for it, which says whether it passed it on.                   *)

FloodEntry == [seq : Flood, num_rx : Nat, forwarded : BOOLEAN, timer : BOOLEAN]

\* the table ps of a node n that transmitted tx and handed up `up'
Tracks(n, ps, tx, up) ==
    /\ ps \in Seq(FloodEntry) /\ tx \in [Flood -> Nat] /\ up \in [Flood -> Nat]
    /\ \A i, j \in 1 .. Len(ps) : ps[i].seq = ps[j].seq => i = j
    /\ \A s \in Flood : (\A i \in 1 .. Len(ps) : ps[i].seq # s) => tx[s] = 0 /\ up[s] = 0
    /\ \A s \in Flood : tx[s] <= 1 /\ up[s] <= 1
    /\ \A i \in 1 .. Len(ps) :
          /\ ~ps[i].forwarded => tx[ps[i].seq] = 0
          /\ n # Origin[ps[i].seq] => up[ps[i].seq] = 1

\* with COUNT 0, what was marked as forwarded was
Passes(ps, tx) == \A i \in 1 .. Len(ps) : ps[i].forwarded => tx[ps[i].seq] = 1
\* without timers that come at the exact time, what waits has one
Timed(ps) == \A i \in 1 .. Len(ps) : ps[i].timer \/ ps[i].forwarded

HasFlood(ps, s) == \E i \in 1 .. Len(ps) : ps[i].seq = s

\* a table of different broadcasts is not longer than there are
LEMMA TracksFits ==
    ASSUME NEW ps \in Seq(FloodEntry), Cardinality(Flood) <= History,
           \A i, j \in 1 .. Len(ps) : ps[i].seq = ps[j].seq => i = j
    PROVE  Len(ps) <= History /\ trim_packets(ps) = ps
<1> DEFINE A == 1 .. Len(ps)
           f == [i \in A |-> ps[i].seq]
<1>1. Len(ps) \in Nat /\ IsFiniteSet(A) /\ Cardinality(A) = Len(ps)
  <2>1. Len(ps) \in Nat
    OBVIOUS
  <2> DEFINE k == Len(ps)
  <2> HIDE DEF k
  <2>2. 1 \in Int /\ k \in Int /\ (1 > k => k = 0) /\ k - 1 + 1 = k
    BY <2>1 DEF k
  <2>3. IsFiniteSet(1 .. k) /\ Cardinality(1 .. k) = k
    BY <2>2, FS_Interval
  <2> QED
    BY <2>1, <2>3 DEF k
<1>2. f \in [A -> Flood] /\ \A i, j \in A : f[i] = f[j] => i = j
  <2>1. \A i \in A : ps[i] \in FloodEntry
    OBVIOUS
  <2>2. \A i \in A : ps[i].seq \in Flood
    BY <2>1 DEF FloodEntry
  <2> QED
    BY <2>2
<1>3. IsFiniteSet(Flood) /\ Cardinality(Flood) \in Nat /\ History \in Nat
  BY FloodingAssumption, FS_CardinalityType
<1> HIDE DEF A, f
<1>4. ~(Cardinality(Flood) < Cardinality(A))
  BY <1>1, <1>2, <1>3, FS_PigeonHole
<1>5. Len(ps) <= History
  BY <1>1, <1>3, <1>4
<1> QED
  BY <1>5 DEF trim_packets

\* q is the table ps with an entry e for s
Enters(n, ps, tx, s, e, q, tx2, up2) ==
    /\ Tracks(n, q, tx2, up2)
    /\ \A x : HasFlood(q, x) <=> HasFlood(ps, x) \/ x = s
    /\ Passes(ps, tx) => Passes(q, tx2)
    /\ Timed(ps) /\ (e.timer \/ e.forwarded) => Timed(q)

\* a broadcast of its own, and one that the node has not heard of before
LEMMA TracksNew ==
    ASSUME NEW n, NEW ps, NEW tx, NEW up, Tracks(n, ps, tx, up),
           NEW s \in Flood, ~HasFlood(ps, s), NEW e \in FloodEntry, e.seq = s,
           NEW tx2 \in [Flood -> Nat], NEW up2 \in [Flood -> Nat],
           \A x \in Flood \ {s} : tx2[x] = tx[x] /\ up2[x] = up[x],
           e.forwarded => tx2[s] = 1 /\ up2[s] = 0 /\ n = Origin[s],
           ~e.forwarded => tx2[s] = 0 /\ up2[s] = 1
    PROVE  Enters(n, ps, tx, s, e, Append(ps, e), tx2, up2)
<1> DEFINE q == Append(ps, e)
           L == Len(ps)
<1>1. /\ L \in Nat /\ q \in Seq(FloodEntry) /\ Len(q) = L + 1 /\ q[L + 1] = e
      /\ \A i \in 1 .. L : q[i] = ps[i] /\ ps[i] \in FloodEntry
  BY DEF Tracks
<1>2. \A i \in 1 .. Len(q) : i = L + 1 \/ i \in 1 .. L
  BY <1>1
<1>3. \A i \in 1 .. L : i \in 1 .. Len(q) /\ L + 1 \in 1 .. Len(q)
  BY <1>1
<1>4. \A i \in 1 .. L : ps[i].seq # s /\ ps[i].seq \in Flood
  BY <1>1 DEF HasFlood, FloodEntry
<1>5. /\ \A i, j \in 1 .. L : ps[i].seq = ps[j].seq => i = j
      /\ \A x \in Flood : (\A i \in 1 .. L : ps[i].seq # x) => tx[x] = 0 /\ up[x] = 0
      /\ \A x \in Flood : tx[x] <= 1 /\ up[x] <= 1
      /\ \A i \in 1 .. L :
            /\ ~ps[i].forwarded => tx[ps[i].seq] = 0
            /\ n # Origin[ps[i].seq] => up[ps[i].seq] = 1
  BY DEF Tracks
<1>0. 1 .. Len(q) = 1 .. L \cup {L + 1} /\ L + 1 \in 1 .. Len(q)
  BY <1>1
<1> HIDE DEF q
<1>6. \A i, j \in 1 .. Len(q) : q[i].seq = q[j].seq => i = j
  <2> SUFFICES ASSUME NEW i \in 1 .. Len(q), NEW j \in 1 .. Len(q), q[i].seq = q[j].seq PROVE i = j
    OBVIOUS
  <2>1. CASE i = L + 1 \/ j = L + 1
    BY <1>1, <1>2, <1>4, <2>1
  <2>2. CASE i \in 1 .. L /\ j \in 1 .. L
    BY <1>1, <1>5, <2>2
  <2> QED
    BY <1>2, <2>1, <2>2
<1>7. \A x \in Flood : (\A i \in 1 .. Len(q) : q[i].seq # x) => tx2[x] = 0 /\ up2[x] = 0
  <2> SUFFICES ASSUME NEW x \in Flood, \A i \in 1 .. Len(q) : q[i].seq # x PROVE tx2[x] = 0 /\ up2[x] = 0
    OBVIOUS
  <2>1. x # s /\ \A i \in 1 .. L : ps[i].seq # x
    BY <1>0, <1>1
  <2> QED
    BY <1>5, <2>1
<1>8. \A x \in Flood : tx2[x] <= 1 /\ up2[x] <= 1
  <2> SUFFICES ASSUME NEW x \in Flood PROVE tx2[x] <= 1 /\ up2[x] <= 1
    OBVIOUS
  <2>1. CASE x = s
    BY <2>1
  <2>2. CASE x # s
    BY <1>5, <2>2
  <2> QED
    BY <2>1, <2>2
<1>9. \A i \in 1 .. Len(q) :
         /\ ~q[i].forwarded => tx2[q[i].seq] = 0
         /\ n # Origin[q[i].seq] => up2[q[i].seq] = 1
  <2> SUFFICES ASSUME NEW i \in 1 .. Len(q)
               PROVE  /\ ~q[i].forwarded => tx2[q[i].seq] = 0
                      /\ n # Origin[q[i].seq] => up2[q[i].seq] = 1
    OBVIOUS
  <2>1. CASE i = L + 1
    BY <1>1, <2>1
  <2>2. CASE i \in 1 .. L
    <3>1. q[i] = ps[i] /\ ps[i].seq \in Flood \ {s}
      BY <1>1, <1>4, <2>2
    <3>2. tx2[ps[i].seq] = tx[ps[i].seq] /\ up2[ps[i].seq] = up[ps[i].seq]
      BY <3>1
    <3> QED
      BY <1>5, <2>2, <3>1, <3>2
  <2> QED
    BY <1>2, <2>1, <2>2
<1>10. Tracks(n, q, tx2, up2)
  BY <1>1, <1>6, <1>7, <1>8, <1>9 DEF Tracks
<1>11. \A x : HasFlood(q, x) <=> HasFlood(ps, x) \/ x = s
  <2> SUFFICES ASSUME NEW x PROVE HasFlood(q, x) <=> HasFlood(ps, x) \/ x = s
    OBVIOUS
  <2>1. HasFlood(q, x) => HasFlood(ps, x) \/ x = s
    BY <1>1, <1>2 DEF HasFlood
  <2>2. HasFlood(ps, x) => HasFlood(q, x)
    BY <1>1, <1>3 DEF HasFlood
  <2>3. x = s => HasFlood(q, x)
    BY <1>0, <1>1 DEF HasFlood
  <2> QED
    BY <2>1, <2>2, <2>3
<1>12. Passes(ps, tx) => Passes(q, tx2)
  BY <1>0, <1>1, <1>4 DEF Passes
<1>13. Timed(ps) /\ (e.timer \/ e.forwarded) => Timed(q)
  BY <1>0, <1>1 DEF Timed
<1> QED
  BY <1>10, <1>11, <1>12, <1>13 DEF q, Enters

\* q is the table ps when the broadcasts F are transmitted
Sends(n, ps, tx, up, F, q, tx2) ==
    /\ Tracks(n, q, tx2, up)
    /\ \A s : HasFlood(q, s) <=> HasFlood(ps, s)
    /\ (Passes(ps, tx) /\ \A i \in 1 .. Len(ps) : ~ps[i].forwarded /\ q[i].forwarded => ps[i].seq \in F)
       => Passes(q, tx2)

\* a table with the same broadcasts, of which those of F are transmitted now
LEMMA TracksHook ==
    ASSUME NEW n, NEW ps, NEW tx, NEW up, Tracks(n, ps, tx, up),
           NEW q \in Seq(FloodEntry), Len(q) = Len(ps),
           \A i \in 1 .. Len(ps) : q[i].seq = ps[i].seq /\ (ps[i].forwarded => q[i].forwarded),
           NEW F, F \subseteq {ps[i].seq : i \in {j \in 1 .. Len(ps) : ~ps[j].forwarded /\ q[j].forwarded}},
           NEW tx2 \in [Flood -> Nat], \A s \in Flood : tx2[s] = IF s \in F THEN Twice(tx[s]) ELSE tx[s]
    PROVE  Sends(n, ps, tx, up, F, q, tx2)
<1> DEFINE D == 1 .. Len(ps)
<1>1. \A i \in D : /\ ps[i].seq \in Flood /\ ps[i].forwarded \in BOOLEAN /\ q[i].forwarded \in BOOLEAN
  <2>1. \A i \in D : ps[i] \in FloodEntry /\ q[i] \in FloodEntry
    BY DEF Tracks
  <2> HIDE DEF D
  <2> QED
    BY <2>1 DEF FloodEntry
<1>2. /\ \A i, j \in D : ps[i].seq = ps[j].seq => i = j
      /\ \A s \in Flood : (\A i \in D : ps[i].seq # s) => tx[s] = 0 /\ up[s] = 0
      /\ \A s \in Flood : tx[s] <= 1 /\ up[s] <= 1 /\ tx[s] \in Nat
      /\ \A i \in D : /\ ~ps[i].forwarded => tx[ps[i].seq] = 0
                      /\ n # Origin[ps[i].seq] => up[ps[i].seq] = 1
  BY DEF Tracks
<1>3. \A s \in F : \E i \in D : ps[i].seq = s /\ ~ps[i].forwarded /\ q[i].forwarded
  OBVIOUS
<1>4. \A s \in F : s \in Flood /\ tx[s] = 0 /\ tx2[s] = 1
  BY <1>1, <1>2, <1>3 DEF Twice
<1>5. \A s \in Flood : s \notin F => tx2[s] = tx[s]
  OBVIOUS
<1>6. \A i \in D : ~q[i].forwarded => ps[i].seq \notin F /\ ~ps[i].forwarded
  BY <1>1, <1>2, <1>3
<1> HIDE DEF D
<1>7. \A s \in Flood : (\A i \in D : q[i].seq # s) => tx2[s] = 0 /\ up[s] = 0
  BY <1>2, <1>3, <1>5, SMTT(30) DEF D
<1>8. \A s \in Flood : tx2[s] <= 1 /\ up[s] <= 1
  BY <1>2, <1>4, <1>5
<1>9. \A i \in D : /\ ~q[i].forwarded => tx2[q[i].seq] = 0
                   /\ n # Origin[q[i].seq] => up[q[i].seq] = 1
  BY <1>1, <1>2, <1>5, <1>6 DEF D
<1>10. \A i, j \in D : q[i].seq = q[j].seq => i = j
  BY <1>2 DEF D
<1>11. Tracks(n, q, tx2, up)
  BY <1>7, <1>8, <1>9, <1>10 DEF Tracks, D
<1>12. \A s : HasFlood(q, s) <=> HasFlood(ps, s)
  BY DEF HasFlood
<1>13. ASSUME Passes(ps, tx), \A i \in 1 .. Len(ps) : ~ps[i].forwarded /\ q[i].forwarded => ps[i].seq \in F
       PROVE  Passes(q, tx2)
  <2> SUFFICES ASSUME NEW i \in D, q[i].forwarded PROVE tx2[q[i].seq] = 1
    BY DEF Passes, D
  <2>1. CASE ps[i].seq \in F
    BY <1>4, <2>1 DEF D
  <2>2. CASE ps[i].seq \notin F
    <3>1. ps[i].forwarded /\ tx[ps[i].seq] = 1
      BY <1>1, <1>13, <2>2 DEF Passes, D
    <3> QED
      BY <1>1, <1>5, <2>2, <3>1 DEF D
  <2> QED
    BY <2>1, <2>2
<1> QED
  BY <1>11, <1>12, <1>13 DEF Sends

-----------------------------------------------------------------------------
\* as many entries as broadcasts, and none of them cleared
Lasting == Cardinality(Flood) <= History /\ ~wiped

FloodInv ==
    /\ FloodTypeOK
    /\ packets \in [Station -> Seq(FloodEntry)] /\ orphans \in [Station -> 0 .. MaxOrphans]
    /\ txCount \in [Station -> [Flood -> Nat]] /\ upCount \in [Station -> [Flood -> Nat]]
    /\ air \subseteq Flood \X Station \X Station
    /\ wiped \in BOOLEAN /\ exact \in BOOLEAN /\ lostCopies \in Nat
    /\ Lasting => \A n \in Station :
          /\ Tracks(n, packets[n], txCount[n], upCount[n])
          /\ scheme[2] = 0 => Passes(packets[n], txCount[n])
          /\ ~exact => Timed(packets[n])
    /\ Lasting /\ lostCopies = 0 => \A n, m \in Station, s \in Flood :
          {n, m} \in Radio /\ m # n /\ txCount[n][s] > 0 => <<s, n, m>> \in air \/ HasFlood(packets[m], s)

\* The stations start with empty tables.
LEMMA FloodStart == FloodInit => FloodInv
<1> SUFFICES ASSUME FloodInit PROVE FloodInv
  OBVIOUS
<1>1. \A n \in Station : /\ packets[n] = <<>> /\ orphans[n] = 0
                         /\ txCount[n] = [s \in Flood |-> 0] /\ upCount[n] = [s \in Flood |-> 0]
  BY DEF FloodInit
<1>2. <<>> \in Seq(FloodEntry) /\ Len(<<>>) = 0 /\ 1 .. 0 = {} /\ MaxOrphans \in Nat /\ History \in Nat
  BY FloodingAssumption
<1>3. FloodTypeOK
  BY <1>1, <1>2 DEF FloodInit, FloodTypeOK
<1>4. ASSUME NEW n \in Station
      PROVE  Tracks(n, packets[n], txCount[n], upCount[n]) /\ Passes(packets[n], txCount[n]) /\ Timed(packets[n])
  <2> DEFINE ps == packets[n]
             z == txCount[n]
  <2>1. /\ ps \in Seq(FloodEntry) /\ 1 .. Len(ps) = {} /\ upCount[n] = z
        /\ z \in [Flood -> Nat] /\ \A s \in Flood : z[s] = 0
    <3>1. ps = <<>> /\ z = [s \in Flood |-> 0] /\ upCount[n] = z
      BY <1>1
    <3> HIDE DEF ps, z
    <3>2. ps \in Seq(FloodEntry) /\ 1 .. Len(ps) = {}
      BY <1>2, <3>1
    <3> QED
      BY <3>1, <3>2
  <2> HIDE DEF ps, z
  <2>2. Tracks(n, ps, z, z) /\ Passes(ps, z) /\ Timed(ps)
    BY <2>1 DEF Tracks, Passes, Timed
  <2> QED
    BY <2>1, <2>2 DEF ps, z
<1>5. \A n \in Station, s \in Flood : ~(txCount[n][s] > 0)
  BY <1>1
<1>6. /\ packets \in [Station -> Seq(FloodEntry)] /\ orphans \in [Station -> 0 .. MaxOrphans]
      /\ txCount \in [Station -> [Flood -> Nat]] /\ upCount \in [Station -> [Flood -> Nat]]
  BY <1>2 DEF FloodInit
<1> QED
  <2>1. air = {} /\ wiped \in BOOLEAN /\ exact \in BOOLEAN /\ lostCopies \in Nat
    BY DEF FloodInit
  <2> QED
    BY <1>3, <1>4, <1>5, <1>6, <2>1 DEF FloodInv

\* what trim_packets() leaves is a table
LEMMA TrimFits ==
    ASSUME NEW ps \in Seq(FloodEntry)
    PROVE  trim_packets(ps) \in Seq(FloodEntry) /\ Len(trim_packets(ps)) <= History
<1>1. Len(ps) \in Nat /\ History \in Nat
  BY FloodingAssumption
<1>2. CASE Len(ps) <= History
  BY <1>1, <1>2 DEF trim_packets
<1>3. CASE Len(ps) > History
  <2> DEFINE q == SubSeq(ps, Len(ps) - History + 1, Len(ps))
  <2>1. trim_packets(ps) = q
    BY <1>1, <1>3 DEF trim_packets
  <2>2. q \in Seq(FloodEntry) /\ Len(q) = History
    BY <1>1, <1>3
  <2> QED
    BY <1>1, <2>1, <2>2
<1> QED
  BY <1>1, <1>2, <1>3

\* A step that gives the table of node n, and what it transmitted and handed up,
\* new values; what it transmits goes into the air.
LEMMA FloodNodeStep ==
    ASSUME FloodInv, NEW n \in Station,
           NEW q \in Seq(FloodEntry), NEW tx \in [Flood -> Nat], NEW up \in [Flood -> Nat],
           packets' = [packets EXCEPT ![n] = q], txCount' = [txCount EXCEPT ![n] = tx],
           upCount' = [upCount EXCEPT ![n] = up], orphans' \in [Station -> 0 .. MaxOrphans],
           scheme' = scheme, wiped' = wiped, lostCopies' = lostCopies, exact' \in BOOLEAN, exact => exact',
           Len(q) <= History,
           air' \subseteq Flood \X Station \X Station,
           Lasting => /\ Tracks(n, q, tx, up)
                      /\ scheme[2] = 0 => Passes(q, tx)
                      /\ ~exact' => Timed(q)
                      /\ \A s \in Flood : HasFlood(packets[n], s) => HasFlood(q, s)
                      /\ \A s \in Flood : tx[s] # txCount[n][s] =>
                            \A m \in Station : {n, m} \in Radio /\ m # n => <<s, n, m>> \in air'
                      /\ \A c \in air : c \in air' \/ (c[3] = n /\ HasFlood(q, c[1]))
    PROVE  FloodInv'
<1>1. /\ packets \in [Station -> Seq(FloodEntry)]
      /\ txCount \in [Station -> [Flood -> Nat]] /\ upCount \in [Station -> [Flood -> Nat]]
      /\ wiped \in BOOLEAN /\ lostCopies \in Nat
  BY DEF FloodInv
<1>2. /\ packets' \in [Station -> Seq(FloodEntry)]
      /\ txCount' \in [Station -> [Flood -> Nat]] /\ upCount' \in [Station -> [Flood -> Nat]]
  BY <1>1
<1>3. /\ packets'[n] = q /\ txCount'[n] = tx /\ upCount'[n] = up
      /\ \A m \in Station \ {n} : packets'[m] = packets[m] /\ txCount'[m] = txCount[m] /\ upCount'[m] = upCount[m]
  BY <1>1
<1>4. FloodTypeOK'
  BY <1>3 DEF FloodInv, FloodTypeOK
<1>5. ASSUME Lasting', NEW m \in Station
      PROVE  /\ Tracks(m, packets'[m], txCount'[m], upCount'[m])
             /\ scheme'[2] = 0 => Passes(packets'[m], txCount'[m])
             /\ ~exact' => Timed(packets'[m])
  <2>1. Lasting
    BY <1>5 DEF Lasting
  <2>2. CASE m = n
    BY <1>3, <2>1, <2>2
  <2>3. CASE m # n
    BY <1>3, <2>1, <2>3 DEF FloodInv
  <2> QED
    BY <2>2, <2>3
<1>6. ASSUME Lasting', lostCopies' = 0, NEW x \in Station, NEW m \in Station, NEW s \in Flood,
             {x, m} \in Radio, m # x, txCount'[x][s] > 0
      PROVE  <<s, x, m>> \in air' \/ HasFlood(packets'[m], s)
  <2>1. Lasting /\ lostCopies = 0
    BY <1>6 DEF Lasting
  <2>2. HasFlood(packets[m], s) => HasFlood(packets'[m], s)
    BY <1>3, <2>1
  <2>3. CASE x = n /\ tx[s] # txCount[n][s]
    BY <1>6, <2>1, <2>3
  <2>4. CASE txCount'[x][s] = txCount[x][s]
    <3>1. <<s, x, m>> \in air \/ HasFlood(packets[m], s)
      BY <1>6, <2>1, <2>4 DEF FloodInv
    <3>2. CASE <<s, x, m>> \in air
      <4> DEFINE c == <<s, x, m>>
      <4>1. c[3] = m /\ c[1] = s
        OBVIOUS
      <4>2. c \in air' \/ (c[3] = n /\ HasFlood(q, c[1]))
        BY <2>1, <3>2
      <4> QED
        BY <1>3, <4>1, <4>2
    <3> QED
      BY <2>2, <3>1, <3>2
  <2> QED
    BY <1>3, <2>3, <2>4
<1> QED
  BY <1>1, <1>2, <1>4, <1>5, <1>6 DEF FloodInv

\* forward() sends copies to all neighbours
LEMMA CopiesFacts ==
    ASSUME NEW n \in Station, NEW S, S \subseteq Flood
    PROVE  /\ Copies(n, S) \subseteq Flood \X Station \X Station
           /\ \A s \in S, m \in Station : {n, m} \in Radio /\ m # n => <<s, n, m>> \in Copies(n, S)
BY DEF Copies

\* A broadcast of its own keeps the invariant of a station.
LEMMA FloodOwnStep ==
    ASSUME FloodInv, NEW s \in Flood, Flood_push_own(s)
    PROVE  FloodInv'
<1> DEFINE n == Origin[s]
           ps == packets[n]
           e == Broadcast(s, TRUE)
           q == trim_packets(Append(ps, e))
           old == txCount[n]
           tx == [x \in Flood |-> IF x \in {s} THEN Twice(old[x]) ELSE old[x]]
           up == upCount[n]
<1>1. n \in Station
  BY FloodingAssumption
<1> HIDE DEF n
<1>2. /\ ps \in Seq(FloodEntry) /\ old \in [Flood -> Nat] /\ up \in [Flood -> Nat]
      /\ txCount \in [Station -> [Flood -> Nat]] /\ upCount \in [Station -> [Flood -> Nat]]
  BY <1>1 DEF FloodInv
<1>3. e \in FloodEntry /\ e.seq = s /\ e.forwarded = TRUE /\ e.timer = FALSE
  BY DEF Broadcast, FloodEntry
<1>4. /\ packets' = [packets EXCEPT ![n] = q] /\ txCount' = [txCount EXCEPT ![n] = tx]
      /\ upCount' = [upCount EXCEPT ![n] = up]
      /\ air' = air \cup Copies(n, {s}) /\ UNCHANGED <<scheme, orphans, lostCopies, exact, wiped>>
      /\ old[s] = 0 /\ up[s] = 0 /\ Index(n, s) = {}
  BY <1>1, <1>2 DEF Flood_push_own, forward, n
<1>5. ~HasFlood(ps, s)
  BY <1>4 DEF Index, HasFlood
<1> HIDE DEF ps, e, old, up
<1>6. /\ tx \in [Flood -> Nat] /\ tx[s] = 1 /\ \A x \in Flood \ {s} : tx[x] = old[x]
  BY <1>2, <1>4 DEF Twice
<1>7. Append(ps, e) \in Seq(FloodEntry)
  BY <1>2, <1>3
<1>8. q \in Seq(FloodEntry) /\ Len(q) <= History
  BY <1>7, TrimFits
<1>9. ASSUME Lasting
      PROVE  /\ Tracks(n, q, tx, up)
             /\ scheme[2] = 0 => Passes(q, tx)
             /\ ~exact => Timed(q)
             /\ \A x \in Flood : HasFlood(ps, x) => HasFlood(q, x)
  <2>1. /\ Tracks(n, ps, old, up) /\ (scheme[2] = 0 => Passes(ps, old)) /\ (~exact => Timed(ps))
    BY <1>1, <1>9 DEF FloodInv, ps, old, up
  <2> HIDE DEF tx
  <2>2. Enters(n, ps, old, s, e, Append(ps, e), tx, up)
    <3>1. n = Origin[s] /\ \A x \in Flood \ {s} : tx[x] = old[x] /\ up[x] = up[x]
      BY <1>6 DEF n
    <3> HIDE DEF n
    <3> QED
      BY <1>2, <1>3, <1>4, <1>5, <1>6, <2>1, <3>1, TracksNew
  <2>3. \A i, j \in 1 .. Len(Append(ps, e)) : Append(ps, e)[i].seq = Append(ps, e)[j].seq => i = j
    BY <2>2 DEF Tracks, Enters
  <2>4. q = Append(ps, e)
    BY <1>7, <1>9, <2>3, TracksFits DEF Lasting
  <2> QED
    BY <1>3, <2>1, <2>2, <2>4 DEF Enters
<1>10. /\ Copies(n, {s}) \subseteq Flood \X Station \X Station
       /\ \A m \in Station : {n, m} \in Radio /\ m # n => <<s, n, m>> \in Copies(n, {s})
  BY <1>1, CopiesFacts
<1>11. /\ orphans' \in [Station -> 0 .. MaxOrphans] /\ exact' \in BOOLEAN
       /\ air' \subseteq Flood \X Station \X Station
  BY <1>4, <1>10 DEF FloodInv
<1>12. \A x \in Flood : tx[x] # old[x] =>
          \A m \in Station : {n, m} \in Radio /\ m # n => <<x, n, m>> \in air'
  BY <1>4, <1>6, <1>10
<1>13. \A c \in air : c \in air'
  BY <1>4
<1> HIDE DEF q, tx
<1> QED
  BY <1>1, <1>2, <1>4, <1>6, <1>8, <1>9, <1>11, <1>12, <1>13, FloodNodeStep DEF ps, old

\* A copy that arrives, new or not, keeps the invariant.
LEMMA FloodPushStep ==
    ASSUME FloodInv, NEW c \in air, Flood_push(c)
    PROVE  FloodInv'
<1> DEFINE s == c[1]
           n == c[3]
           ps == packets[n]
           tx == txCount[n]
           old == upCount[n]
<1>1. n \in Station /\ s \in Flood
  BY DEF FloodInv
<1> HIDE DEF n, s
<1>2. /\ ps \in Seq(FloodEntry) /\ old \in [Flood -> Nat] /\ tx \in [Flood -> Nat]
      /\ txCount \in [Station -> [Flood -> Nat]] /\ upCount \in [Station -> [Flood -> Nat]]
      /\ air \subseteq Flood \X Station \X Station /\ orphans \in [Station -> 0 .. MaxOrphans] /\ exact \in BOOLEAN
      /\ Len(ps) <= History
  BY <1>1 DEF FloodInv, FloodTypeOK
<1>3. /\ txCount' = [txCount EXCEPT ![n] = tx] /\ air' = air \ {c}
      /\ UNCHANGED <<scheme, orphans, lostCopies, exact, wiped>>
  BY <1>1, <1>2 DEF Flood_push
<1>4. Lasting => /\ Tracks(n, ps, tx, old) /\ (scheme[2] = 0 => Passes(ps, tx)) /\ (~exact => Timed(ps))
  BY <1>1 DEF FloodInv
<1>5. Index(n, s) = {} <=> ~HasFlood(ps, s)
  BY DEF Index, HasFlood
<1>6. CASE HasFlood(ps, s)
  <2> DEFINE q == Heard_again(n, s)
             Again(e) == [e EXCEPT !.num_rx = Twice(@)]
  <2>1. packets' = [packets EXCEPT ![n] = q] /\ upCount' = [upCount EXCEPT ![n] = old]
    BY <1>1, <1>2, <1>5, <1>6 DEF Flood_push, n, s
  <2>2. \A e \in FloodEntry : /\ Again(e) \in FloodEntry /\ Again(e).seq = e.seq
                              /\ Again(e).forwarded = e.forwarded /\ Again(e).timer = e.timer
    BY DEF FloodEntry, Twice
  <2> DEFINE Next1(i) == IF i \in Index(n, s) THEN Again(ps[i]) ELSE ps[i]
  <2>3. q = [i \in 1 .. Len(ps) |-> Next1(i)]
    BY DEF Heard_again
  <2> HIDE DEF q, Again
  <2>4. \A i \in 1 .. Len(ps) : /\ Next1(i) \in FloodEntry /\ Next1(i).seq = ps[i].seq
                                /\ Next1(i).forwarded = ps[i].forwarded /\ Next1(i).timer = ps[i].timer
    BY <1>2, <2>2, SMTT(30)
  <2> HIDE DEF ps, Next1
  <2>5. q \in [1 .. Len(ps) -> FloodEntry] /\ Len(ps) \in Nat
    BY <1>2, <2>3, <2>4
  <2>6. q \in Seq(FloodEntry) /\ Len(q) = Len(ps)
    BY <2>5
  <2>7. \A i \in 1 .. Len(ps) : /\ q[i].seq = ps[i].seq
                                /\ q[i].forwarded = ps[i].forwarded /\ q[i].timer = ps[i].timer
    BY <2>3, <2>4
  <2>8. Timed(ps) => Timed(q)
    BY <2>6, <2>7 DEF Timed
  <2> HIDE DEF tx, old
  <2>9. Tracks(n, ps, tx, old) => /\ Tracks(n, q, tx, old)
                                  /\ \A x : HasFlood(q, x) <=> HasFlood(ps, x)
                                  /\ Passes(ps, tx) => Passes(q, tx)
    <3> SUFFICES ASSUME Tracks(n, ps, tx, old)
                 PROVE  /\ Tracks(n, q, tx, old)
                        /\ \A x : HasFlood(q, x) <=> HasFlood(ps, x)
                        /\ Passes(ps, tx) => Passes(q, tx)
      OBVIOUS
    <3>1. \A x \in Flood : tx[x] = IF x \in {} THEN Twice(tx[x]) ELSE tx[x]
      OBVIOUS
    <3>2. {} \subseteq {ps[i].seq : i \in {j \in 1 .. Len(ps) : ~ps[j].forwarded /\ q[j].forwarded}}
      OBVIOUS
    <3>3. \A i \in 1 .. Len(ps) : ~(~ps[i].forwarded /\ q[i].forwarded)
      BY <2>7
    <3>4. Sends(n, ps, tx, old, {}, q, tx)
      BY <1>2, <2>6, <2>7, <3>1, <3>2, TracksHook
    <3> QED
      BY <3>3, <3>4 DEF Sends
  <2>10. \A x \in air : x \in air' \/ (x[3] = n /\ (Lasting => HasFlood(q, x[1])))
    BY <1>3, <1>4, <1>6, <2>9 DEF n, s
  <2>11. air' \subseteq Flood \X Station \X Station
    BY <1>2, <1>3
  <2>12. ASSUME Lasting
         PROVE  /\ Tracks(n, q, tx, old)
                /\ scheme[2] = 0 => Passes(q, tx)
                /\ ~exact => Timed(q)
                /\ \A x \in Flood : HasFlood(ps, x) => HasFlood(q, x)
                /\ \A x \in air : x \in air' \/ (x[3] = n /\ HasFlood(q, x[1]))
    BY <1>4, <2>8, <2>9, <2>10, <2>12
  <2> QED
    BY <1>1, <1>2, <1>3, <2>1, <2>6, <2>11, <2>12, FloodNodeStep DEF ps, tx
<1>7. CASE ~HasFlood(ps, s)
  <2> DEFINE e == [Broadcast(s, FALSE) EXCEPT !.num_rx = 1]
             q == trim_packets(Append(ps, e))
             up == [old EXCEPT ![s] = Twice(old[s])]
  <2>1. packets' = [packets EXCEPT ![n] = q] /\ upCount' = [upCount EXCEPT ![n] = up]
    BY <1>1, <1>2, <1>5, <1>7 DEF Flood_push, n, s
  <2>2. e \in FloodEntry /\ e.seq = s /\ e.forwarded = FALSE /\ e.timer = TRUE
    BY <1>1 DEF Broadcast, FloodEntry
  <2> HIDE DEF e, ps, old, tx
  <2>3. /\ up \in [Flood -> Nat] /\ \A x \in Flood \ {s} : up[x] = old[x]
        /\ old[s] = 0 => up[s] = 1
    <3>1. old[s] \in Nat /\ Twice(old[s]) \in Nat /\ (old[s] = 0 => Twice(old[s]) = 1)
      <4>1. \A k \in Nat : Twice(k) \in Nat /\ (k = 0 => Twice(k) = 1)
        BY DEF Twice
      <4> QED
        BY <1>1, <1>2, <4>1
    <3> QED
      BY <1>1, <1>2, <3>1
  <2>4. Append(ps, e) \in Seq(FloodEntry)
    BY <1>2, <2>2
  <2>5. q \in Seq(FloodEntry) /\ Len(q) <= History
    BY <2>4, TrimFits
  <2> HIDE DEF up
  <2>6. ASSUME Lasting
        PROVE  /\ Tracks(n, q, tx, up)
               /\ scheme[2] = 0 => Passes(q, tx)
               /\ ~exact => Timed(q)
               /\ \A x : HasFlood(q, x) <=> HasFlood(ps, x) \/ x = s
    <3>1. old[s] = 0 /\ tx[s] = 0
      BY <1>1, <1>4, <1>7, <2>6 DEF Tracks, HasFlood
    <3>2. Enters(n, ps, tx, s, e, Append(ps, e), tx, up)
      <4>1. Tracks(n, ps, tx, old) /\ \A x \in Flood \ {s} : tx[x] = tx[x] /\ up[x] = old[x]
        BY <1>4, <2>3, <2>6
      <4>2. e.forwarded => tx[s] = 1 /\ up[s] = 0 /\ n = Origin[s]
        BY <2>2
      <4>3. tx[s] = 0 /\ up[s] = 1
        BY <2>3, <3>1
      <4> QED
        BY <1>1, <1>2, <1>7, <2>2, <2>3, <4>1, <4>2, <4>3, TracksNew
    <3>3. \A i, j \in 1 .. Len(Append(ps, e)) : Append(ps, e)[i].seq = Append(ps, e)[j].seq => i = j
      BY <3>2 DEF Tracks, Enters
    <3>4. q = Append(ps, e)
      BY <2>4, <2>6, <3>3, TracksFits DEF Lasting
    <3> QED
      BY <1>4, <2>2, <2>6, <3>2, <3>4 DEF Enters
  <2> HIDE DEF q
  <2>7. ASSUME Lasting
        PROVE  \A x \in air : x \in air' \/ (x[3] = n /\ HasFlood(q, x[1]))
    BY <1>3, <2>6, <2>7 DEF n, s
  <2>8. air' \subseteq Flood \X Station \X Station
    BY <1>2, <1>3
  <2> QED
    BY <1>1, <1>2, <1>3, <2>1, <2>3, <2>5, <2>6, <2>7, <2>8, FloodNodeStep DEF ps, tx
<1> QED
  BY <1>6, <1>7

\* a run of forward_hook() that finds the entries `ripe'
LEMMA FloodHookStep ==
    ASSUME FloodInv, NEW n \in Station, NEW own, NEW ripe, ripe \subseteq 1 .. Len(packets[n]),
           Hook(n, own, ripe), orphans' \in [Station -> 0 .. MaxOrphans]
    PROVE  FloodInv'
<1> DEFINE ps == packets[n]
           old == txCount[n]
           up == upCount[n]
           q == [i \in 1 .. Len(ps) |-> Runs(ps[i], i, ripe, own)]
           F == {ps[i].seq : i \in {j \in ripe : Wanted(ps[j])}}
           tx == [s \in Flood |-> IF s \in F THEN Twice(old[s]) ELSE old[s]]
<1>1. /\ ps \in Seq(FloodEntry) /\ old \in [Flood -> Nat] /\ up \in [Flood -> Nat] /\ Len(ps) \in Nat
      /\ packets \in [Station -> Seq(FloodEntry)]
      /\ txCount \in [Station -> [Flood -> Nat]] /\ upCount \in [Station -> [Flood -> Nat]]
      /\ air \subseteq Flood \X Station \X Station /\ exact \in BOOLEAN
      /\ Len(ps) <= History
  BY SMTT(30) DEF FloodInv, FloodTypeOK
<1>2. /\ packets' = [packets EXCEPT ![n] = q] /\ txCount' = [txCount EXCEPT ![n] = tx]
      /\ upCount' = [upCount EXCEPT ![n] = up] /\ air' = air \cup Copies(n, F)
      /\ exact' = (exact \/ ~(own \subseteq ripe)) /\ UNCHANGED <<scheme, lostCopies, wiped>>
  <2>1. upCount' = [upCount EXCEPT ![n] = up] /\ UNCHANGED <<scheme, lostCopies, wiped>>
    BY <1>1 DEF Hook
  <2>2. txCount' = [txCount EXCEPT ![n] = tx] /\ air' = air \cup Copies(n, F)
    <3>1. forward(n, F)
      BY DEF Hook
    <3> HIDE DEF F
    <3> QED
      BY <3>1 DEF forward
  <2>3. packets' = [packets EXCEPT ![n] = q]
    BY DEF Hook, Marked
  <2>4. exact' = (exact \/ ~(own \subseteq ripe))
    BY DEF Hook
  <2> QED
    BY <2>1, <2>2, <2>3, <2>4
<1>3. ASSUME NEW e \in FloodEntry, NEW i
      PROVE  /\ Runs(e, i, ripe, own) \in FloodEntry /\ Runs(e, i, ripe, own).seq = e.seq
             /\ Runs(e, i, ripe, own).forwarded <=> e.forwarded \/ i \in ripe
             /\ Runs(e, i, ripe, own).timer <=> e.timer /\ i \notin own
  <2> DEFINE d == e.forwarded \/ i \in ripe
             o == e.timer /\ i \notin own
  <2>1. Runs(e, i, ripe, own) = [e EXCEPT !.forwarded = d, !.timer = o]
    BY DEF Runs
  <2>2. d \in BOOLEAN /\ o \in BOOLEAN
    OBVIOUS
  <2>3. Runs(e, i, ripe, own) = [seq |-> e.seq, num_rx |-> e.num_rx, forwarded |-> d, timer |-> o]
    <3> HIDE DEF d, o
    <3> QED
      BY <2>1 DEF FloodEntry
  <2>4. /\ Runs(e, i, ripe, own).seq = e.seq
        /\ Runs(e, i, ripe, own).forwarded = d /\ Runs(e, i, ripe, own).timer = o
    <3> HIDE DEF d, o
    <3> QED
      BY <2>3
  <2>5. Runs(e, i, ripe, own) \in FloodEntry
    <3> HIDE DEF d, o
    <3> QED
      BY <2>2, <2>3 DEF FloodEntry
  <2> QED
    BY <2>4, <2>5
<1> HIDE DEF ps, old, up
<1>4. \A i \in 1 .. Len(ps) : ps[i] \in FloodEntry
  BY <1>1
<1>5. \A i \in 1 .. Len(ps) : /\ q[i] \in FloodEntry /\ q[i].seq = ps[i].seq
                              /\ q[i].forwarded <=> ps[i].forwarded \/ i \in ripe
                              /\ q[i].timer <=> ps[i].timer /\ i \notin own
  BY <1>3, <1>4
<1>6. q \in [1 .. Len(ps) -> FloodEntry]
  BY <1>5
<1> HIDE DEF q
<1>7. q \in Seq(FloodEntry) /\ Len(q) = Len(ps)
  <2>1. Len(ps) \in Nat
    BY <1>1
  <2> QED
    BY <1>6, <2>1
<1>8. ripe \subseteq 1 .. Len(ps)
  BY DEF ps
<1>9. \A s \in F : \E i \in ripe : ps[i].seq = s /\ Wanted(ps[i])
  OBVIOUS
<1>10. F \subseteq Flood
  BY <1>4, <1>8, <1>9 DEF FloodEntry
<1>11. F \subseteq {ps[i].seq : i \in {j \in 1 .. Len(ps) : ~ps[j].forwarded /\ q[j].forwarded}}
  <2> DEFINE new == {j \in 1 .. Len(ps) : ~ps[j].forwarded /\ q[j].forwarded}
  <2>1. ASSUME NEW s \in F PROVE s \in {ps[i].seq : i \in new}
    <3>1. PICK i \in ripe : ps[i].seq = s /\ Wanted(ps[i])
      BY <1>9
    <3>2. i \in new
      BY <1>5, <1>8, <3>1 DEF Wanted
    <3> HIDE DEF new
    <3> QED
      BY <3>1, <3>2
  <2> QED
    BY <2>1
<1>12. ASSUME scheme[2] = 0
       PROVE  \A i \in 1 .. Len(ps) : ~ps[i].forwarded /\ q[i].forwarded => ps[i].seq \in F
  BY <1>5, <1>8, <1>12 DEF Wanted
<1> HIDE DEF F
<1>13. /\ tx \in [Flood -> Nat] /\ \A s \in Flood : tx[s] = IF s \in F THEN Twice(old[s]) ELSE old[s]
  <2>1. \A k \in Nat : Twice(k) \in Nat
    BY DEF Twice
  <2> QED
    BY <1>1, <2>1
<1> HIDE DEF tx
<1>14. ASSUME Lasting
       PROVE  Sends(n, ps, old, up, F, q, tx) /\ (scheme[2] = 0 => Passes(ps, old)) /\ (~exact => Timed(ps))
  <2>1. Tracks(n, ps, old, up) /\ (scheme[2] = 0 => Passes(ps, old)) /\ (~exact => Timed(ps))
    BY <1>14 DEF FloodInv, ps, old, up
  <2>2. \A i \in 1 .. Len(ps) : q[i].seq = ps[i].seq /\ (ps[i].forwarded => q[i].forwarded)
    BY <1>5
  <2>3. Sends(n, ps, old, up, F, q, tx)
    BY <1>7, <1>11, <1>13, <2>1, <2>2, TracksHook
  <2> QED
    BY <2>1, <2>3
<1>15. Timed(ps) /\ own \subseteq ripe => Timed(q)
  BY <1>5, <1>7 DEF Timed
<1>16. /\ exact' \in BOOLEAN /\ (exact => exact') /\ (~exact' => ~exact /\ own \subseteq ripe)
  BY <1>1, <1>2
<1>17. ASSUME Lasting
       PROVE  /\ Tracks(n, q, tx, up)
              /\ scheme[2] = 0 => Passes(q, tx)
              /\ ~exact' => Timed(q)
              /\ \A s \in Flood : HasFlood(ps, s) => HasFlood(q, s)
  BY <1>12, <1>14, <1>15, <1>16, <1>17 DEF Sends
<1>18. /\ air' \subseteq Flood \X Station \X Station
       /\ \A s \in Flood : tx[s] # old[s] =>
             \A m \in Station : {n, m} \in Radio /\ m # n => <<s, n, m>> \in air'
       /\ \A c \in air : c \in air'
  BY <1>1, <1>2, <1>10, <1>13, CopiesFacts
<1> QED
  BY <1>1, <1>2, <1>7, <1>13, <1>16, <1>17, <1>18, FloodNodeStep DEF ps, old

\* Every step of the stations and the air keeps the invariant.
LEMMA FloodStep ==
    ASSUME FloodInv, [FloodNext]_floodVars
    PROVE  FloodInv'
<1>1. CASE UNCHANGED floodVars
  BY <1>1 DEF floodVars, FloodInv, FloodTypeOK, Lasting
<1>2. CASE Flood_configure
  <2>1. /\ scheme[1] = "none" /\ scheme' \in {<<"PFlood", 0>>} \cup {<<"CounterFlood", k>> : k \in Counts}
        /\ UNCHANGED <<packets, orphans, air, txCount, upCount, lostCopies, exact, wiped>>
    BY <1>2 DEF Flood_configure
  <2>2. scheme[2] = 0
    BY <2>1 DEF FloodInv, FloodTypeOK
  <2>3. FloodTypeOK'
    BY <2>1 DEF FloodInv, FloodTypeOK
  <2> QED
    BY <2>1, <2>2, <2>3 DEF FloodInv, Lasting
<1>3. ASSUME NEW n \in Station, NEW own, Flood_hook(n, own), orphans' \in [Station -> 0 .. MaxOrphans]
      PROVE  FloodInv'
  <2>1. PICK ripe : ripe \subseteq 1 .. Len(packets[n]) /\ Hook(n, own, ripe)
    BY <1>3 DEF Flood_hook, CounterFlood_forward_hook, PFlood_forward_hook
  <2> QED
    BY <1>3, <2>1, FloodHookStep
<1>4. ASSUME NEW n \in Station, Flood_timer(n)
      PROVE  FloodInv'
  <2>1. orphans \in [Station -> 0 .. MaxOrphans] /\ MaxOrphans \in Nat
    BY FloodingAssumption DEF FloodInv
  <2>2. CASE \E i \in 1 .. Len(packets[n]) : packets[n][i].timer /\ Flood_hook(n, {i}) /\ UNCHANGED orphans
    BY <1>3, <2>1, <2>2
  <2>3. CASE orphans[n] > 0 /\ orphans' = [orphans EXCEPT ![n] = @ - 1] /\ Flood_hook(n, {})
    <3>1. orphans[n] - 1 \in 0 .. MaxOrphans
      BY <2>1, <2>3
    <3>2. orphans' \in [Station -> 0 .. MaxOrphans]
      BY <2>1, <2>3, <3>1
    <3> QED
      BY <1>3, <2>3, <3>2
  <2> QED
    BY <1>4, <2>2, <2>3 DEF Flood_timer
<1>5. ASSUME NEW n \in Station, Flood_clear(n)
      PROVE  FloodInv'
  <2> DEFINE T == {i \in 1 .. Len(packets[n]) : packets[n][i].timer}
             k == Cardinality(T)
  <2>1. /\ k + orphans[n] <= MaxOrphans /\ wiped' = TRUE /\ orphans' = [orphans EXCEPT ![n] = orphans[n] + k]
        /\ packets' = [packets EXCEPT ![n] = <<>>]
        /\ UNCHANGED <<scheme, air, txCount, upCount, lostCopies, exact>>
    BY <1>5 DEF Flood_clear
  <2>2. k \in Nat
    <3>1. packets[n] \in Seq(FloodEntry) /\ Len(packets[n]) \in Nat
      BY DEF FloodInv
    <3>2. T \subseteq 1 .. Len(packets[n]) /\ IsFiniteSet(1 .. Len(packets[n]))
      BY <3>1, FS_Interval
    <3> HIDE DEF T
    <3>3. IsFiniteSet(T)
      BY <3>2, FS_Subset
    <3> QED
      BY <3>3, FS_CardinalityType
  <2> HIDE DEF k
  <2>3. orphans \in [Station -> 0 .. MaxOrphans] /\ orphans[n] \in 0 .. MaxOrphans /\ MaxOrphans \in Nat
    BY FloodingAssumption DEF FloodInv
  <2>4. orphans[n] + k \in 0 .. MaxOrphans
    BY <2>1, <2>2, <2>3
  <2>5. orphans' \in [Station -> 0 .. MaxOrphans]
    BY <2>1, <2>3, <2>4
  <2>6. /\ packets' \in [Station -> Seq(FloodEntry)]
        /\ \A m \in Station : packets'[m] = <<>> \/ packets'[m] = packets[m]
    BY <2>1 DEF FloodInv
  <2>7. \A m \in Station : Len(packets'[m]) <= History
    <3>1. Len(<<>>) = 0 /\ 0 <= History
      BY FloodingAssumption
    <3> QED
      BY <2>6, <3>1 DEF FloodInv, FloodTypeOK
  <2>8. FloodTypeOK'
    BY <2>1, <2>5, <2>7 DEF FloodInv, FloodTypeOK
  <2>9. ~Lasting'
    BY <2>1 DEF Lasting
  <2> QED
    BY <2>1, <2>5, <2>6, <2>8, <2>9 DEF FloodInv
<1>6. ASSUME NEW c \in air, Flood_lose(c)
      PROVE  FloodInv'
  <2>1. /\ lostCopies' = lostCopies + 1 /\ air' \subseteq air
        /\ UNCHANGED <<scheme, packets, orphans, txCount, upCount, exact, wiped>>
    BY <1>6 DEF Flood_lose
  <2>2. lostCopies' \in Nat /\ lostCopies' # 0
    BY <2>1 DEF FloodInv
  <2>3. FloodTypeOK' /\ (Lasting' <=> Lasting)
    BY <2>1 DEF FloodInv, FloodTypeOK, Lasting
  <2> QED
    BY <2>1, <2>2, <2>3 DEF FloodInv
<1> QED
  BY <1>1, <1>2, <1>4, <1>5, <1>6, FloodOwnStep, FloodPushStep DEF FloodNext

\* The nodes that have an entry for a broadcast transmitted it when no timer is
\* left, so that their neighbours have one too.
LEMMA FloodInvSound == FloodInv => FloodOnce /\ FloodCovers
<1> SUFFICES ASSUME FloodInv PROVE FloodOnce /\ FloodCovers
  OBVIOUS
<1>1. FloodOnce
  BY DEF FloodInv, Lasting, FloodOnce, Tracks
<1>2. ASSUME Connected, Lasting, scheme[2] = 0, lostCopies = 0, ~exact, air = {},
             \A n \in Station : \A i \in 1 .. Len(packets[n]) : ~packets[n][i].timer,
             NEW s \in Flood, txCount[Origin[s]][s] > 0, NEW n \in Station \ {Origin[s]}
      PROVE  upCount[n][s] = 1
  <2> DEFINE S == {m \in Station : HasFlood(packets[m], s)}
  <2>1. \A m \in Station : /\ Tracks(m, packets[m], txCount[m], upCount[m])
                           /\ Passes(packets[m], txCount[m]) /\ Timed(packets[m])
    BY <1>2 DEF FloodInv
  <2>2. Origin[s] \in S
    <3> DEFINE o == Origin[s]
    <3>1. o \in Station
      BY FloodingAssumption
    <3>2. txCount[o][s] > 0
      BY <1>2
    <3> HIDE DEF o
    <3>3. HasFlood(packets[o], s)
      <4>1. Tracks(o, packets[o], txCount[o], upCount[o])
        BY <2>1, <3>1
      <4>2. ~HasFlood(packets[o], s) => txCount[o][s] = 0
        BY <4>1 DEF Tracks, HasFlood
      <4> QED
        BY <3>2, <4>2
    <3> QED
      BY <3>1, <3>3 DEF o
  <2>3. ASSUME NEW x \in S, NEW m \in Station, {x, m} \in Radio
        PROVE  m \in S
    <3>1. PICK i \in 1 .. Len(packets[x]) : packets[x][i].seq = s
      BY DEF HasFlood
    <3>2. packets[x][i].forwarded
      BY <1>2, <2>1 DEF Timed
    <3>3. txCount[x][s] = 1
      BY <2>1, <3>1, <3>2 DEF Passes
    <3>4. m = x \/ HasFlood(packets[m], s)
      <4>1. \A a, b \in Station, t \in Flood :
              {a, b} \in Radio /\ b # a /\ txCount[a][t] > 0 => <<t, a, b>> \in air \/ HasFlood(packets[b], t)
        BY <1>2 DEF FloodInv
      <4>2. txCount[x][s] > 0 /\ x \in Station /\ <<s, x, m>> \notin air
        BY <1>2, <3>3
      <4> QED
        BY <2>3, <4>1, <4>2
    <3> QED
      BY <3>4
  <2>4. S = Station
    <3>1. S \in (SUBSET Station) \ {{}}
      BY <2>2
    <3> HIDE DEF S
    <3> QED
      BY <1>2, <2>3, <3>1 DEF Connected
  <2>5. PICK i \in 1 .. Len(packets[n]) : packets[n][i].seq = s
    BY <2>4 DEF HasFlood
  <2> QED
    BY <2>1, <2>5 DEF Tracks
<1> QED
  BY <1>1, <1>2 DEF FloodCovers, Lasting

-----------------------------------------------------------------------------
(***************************************************************************)
(* DataQueues, BPStat and BPForwarder.                                     *)
(***************************************************************************)

\* Packet g is in q, and what is before it is in A.
Guarded(q, g, A) == \E i \in 1 .. Len(q) : q[i] = g /\ \A j \in 1 .. i : q[j] \in A

\* A queue that grows at its end, and one that loses another packet than the guard
\* at its front, stay guarded.
LEMMA GuardedGrows ==
    ASSUME NEW S, NEW q \in Seq(S), NEW x \in S, NEW g, NEW A, Guarded(q, g, A)
    PROVE  Guarded(Append(q, x), g, A)
<1>1. PICK i \in 1 .. Len(q) : q[i] = g /\ \A j \in 1 .. i : q[j] \in A
  BY DEF Guarded
<1>2. Len(q) \in Nat /\ Len(Append(q, x)) = Len(q) + 1 /\ \A j \in 1 .. Len(q) : Append(q, x)[j] = q[j]
  OBVIOUS
<1>3. i \in 1 .. Len(q) + 1 /\ \A j \in 1 .. i : j \in 1 .. Len(q)
  BY <1>2
<1> QED
  BY <1>1, <1>2, <1>3 DEF Guarded

\* A queue that is pulled before its guard is reached stays guarded.
LEMMA GuardedShrinks ==
    ASSUME NEW S, NEW q \in Seq(S), q # <<>>, NEW g, NEW A, Guarded(q, g, A), Head(q) # g
    PROVE  Guarded(Tail(q), g, A)
<1>1. PICK i \in 1 .. Len(q) : q[i] = g /\ \A j \in 1 .. i : q[j] \in A
  BY DEF Guarded
<1>2. Len(q) \in Nat /\ Len(Tail(q)) = Len(q) - 1 /\ Head(q) = q[1]
      /\ \A j \in 1 .. Len(q) - 1 : Tail(q)[j] = q[j + 1]
  OBVIOUS
<1>3. i - 1 \in 1 .. Len(q) - 1 /\ \A j \in 1 .. i - 1 : j \in 1 .. Len(q) - 1 /\ j + 1 \in 1 .. i
  BY <1>1, <1>2
<1>4. (i - 1) + 1 = i
  BY <1>2
<1> HIDE DEF Guarded
<1>5. Tail(q)[i - 1] = g /\ \A j \in 1 .. i - 1 : Tail(q)[j] \in A
  BY <1>1, <1>2, <1>3, <1>4
<1> QED
  BY <1>2, <1>3, <1>5 DEF Guarded

\* The queues hold packets, no more than _capacity, and none at its destination.
QueuesFit(Q) ==
    /\ Q \in [Hop -> [Dests -> Seq(Packet)]]
    /\ \A n \in Hop : \A d \in Dests : Len(Q[n][d]) <= QCapacity
    /\ \A d \in Dests : Q[d][d] = <<>>

\* From Q to R the queues grew at most by p.
Grown(Q, R, p) ==
    \A n \in Hop : \A d \in Dests : R[n][d] = Q[n][d] \/ R[n][d] = Append(Q[n][d], p)

\* Packets are for nodes, and no node is 0.
LEMMA DestsAreHops == Dests \subseteq Hop /\ 0 \notin Dests /\ \A p \in Packet : Packets[p].to \in Dests
BY BackPressureAssumption DEF Dests

\* A packet that enters a queue is its last one, or is dropped because it is full.
LEMMA EnqueueFits ==
    ASSUME NEW Q, QueuesFit(Q), NEW n \in Hop, NEW p \in Packet, n # Packets[p].to
    PROVE  QueuesFit(Enqueue(Q, n, p)) /\ Grown(Q, Enqueue(Q, n, p), p)
<1> DEFINE d == Packets[p].to
           a == Append(Q[n][d], p)
<1>1. d \in Dests
  BY DestsAreHops
<1>2. CASE Len(Q[n][d]) = QCapacity
  BY <1>2 DEF Enqueue, Grown
<1>3. CASE Len(Q[n][d]) # QCapacity
  <2>1. Q[n][d] \in Seq(Packet) /\ Len(Q[n][d]) <= QCapacity /\ QCapacity \in Nat
    BY <1>1, BackPressureAssumption DEF QueuesFit
  <2>2. a \in Seq(Packet) /\ Len(a) <= QCapacity
    BY <1>3, <2>1
  <2>3. Enqueue(Q, n, p) = [Q EXCEPT ![n][d] = a]
    BY <1>3 DEF Enqueue
  <2> DEFINE R == Enqueue(Q, n, p)
  <2> HIDE DEF a, d, R
  <2>4. R = [Q EXCEPT ![n][d] = a]
    BY <2>3 DEF R
  <2>5. R \in [Hop -> [Dests -> Seq(Packet)]] /\ R[n][d] = a
        /\ \A m \in Hop : \A e \in Dests : m # n \/ e # d => R[m][e] = Q[m][e]
    BY <1>1, <2>2, <2>4 DEF QueuesFit
  <2>6. n # d
    BY DEF d
  <2>7. QueuesFit(R)
    BY <2>2, <2>5, <2>6, DestsAreHops DEF QueuesFit
  <2>8. Grown(Q, R, p)
    BY <2>5 DEF Grown, a
  <2> QED
    BY <2>7, <2>8 DEF R
<1> QED
  BY <1>2, <1>3

PullState == [dst : Dests \cup {0}, neig : Hop \cup {0}, guard : Packet \cup {0}, lock : BOOLEAN]

\* What a queue may be pulled from.
PullSound(n) ==
    pullq[n].dst # 0 =>
        /\ pullq[n].neig \in Hop
        /\ ~pullq[n].lock => Guarded(fq[n][pullq[n].dst], pullq[n].guard, atPeriod[n])

BPInv ==
    /\ dmax \in Nat
    /\ QueuesFit(fq)
    /\ pullq \in [Hop -> PullState]
    /\ drops \in [Hop -> [Dests -> Nat]]
    /\ DOMAIN atPeriod = Hop
    /\ DOMAIN bpdata = Hop /\ \A n \in Hop : DOMAIN bpdata[n] \subseteq DOMAIN Ett[n]
    /\ \A n \in Hop : PullSound(n)

\* The nodes start with empty queues.
LEMMA BPStart == BPInit => BPInv
<1> SUFFICES ASSUME BPInit PROVE BPInv
  OBVIOUS
<1>1. dmax \in Nat
  BY BackPressureAssumption DEF BPInit
<1>2. QueuesFit(fq)
  <2>1. fq \in [Hop -> [Dests -> Seq(Packet)]]
    BY DEF BPInit
  <2>2. ASSUME NEW n \in Hop, NEW d \in Dests PROVE fq[n][d] = <<>> /\ Len(fq[n][d]) <= QCapacity
    <3>1. fq[n][d] = <<>>
      BY DEF BPInit
    <3>2. Len(fq[n][d]) = 0
      BY <3>1
    <3> QED
      BY <3>1, <3>2, BackPressureAssumption
  <2> QED
    BY <2>1, <2>2, DestsAreHops DEF QueuesFit
<1>3. pullq \in [Hop -> PullState] /\ \A n \in Hop : pullq[n].dst = 0
  BY DEF BPInit, NoPull, PullState
<1>4. drops \in [Hop -> [Dests -> Nat]]
  BY DEF BPInit
<1>5. DOMAIN bpdata = Hop /\ \A n \in Hop : DOMAIN bpdata[n] = {}
  BY DEF BPInit
<1> QED
  BY <1>1, <1>2, <1>3, <1>4, <1>5 DEF BPInit, BPInv, PullSound

\* push() on port 0 and the arrival of a frame: the queues grow.
LEMMA BPGrows ==
    ASSUME BPInv, UNCHANGED <<dmax, bpdata, pullq, atPeriod>>, NEW p \in Packet, Grown(fq, fq', p),
           QueuesFit(fq'), drops' \in [Hop -> [Dests -> Nat]]
    PROVE  BPInv'
<1>1. ASSUME NEW n \in Hop PROVE PullSound(n)'
  <2>1. PullSound(n)
    BY DEF BPInv
  <2>2. ASSUME pullq[n].dst # 0, ~pullq[n].lock
        PROVE  Guarded(fq'[n][pullq[n].dst], pullq[n].guard, atPeriod[n])
    <3> DEFINE d == pullq[n].dst
    <3>1. d \in Dests
      BY <2>2 DEF BPInv, PullState
    <3>2. fq[n][d] \in Seq(Packet) /\ Guarded(fq[n][d], pullq[n].guard, atPeriod[n])
      BY <2>1, <2>2, <3>1 DEF PullSound, BPInv, QueuesFit
    <3>3. fq'[n][d] = fq[n][d] \/ fq'[n][d] = Append(fq[n][d], p)
      BY <3>1 DEF Grown
    <3> QED
      BY <3>2, <3>3, GuardedGrows
  <2> QED
    BY <2>1, <2>2 DEF PullSound
<1> QED
  BY <1>1 DEF BPInv

\* drops counts up.
LEMMA DropsCount ==
    ASSUME NEW D \in [Hop -> [Dests -> Nat]], NEW n \in Hop, NEW d \in Dests
    PROVE  [D EXCEPT ![n][d] = @ + 1] \in [Hop -> [Dests -> Nat]]
<1>1. D[n][d] + 1 \in Nat
  OBVIOUS
<1> DEFINE k == D[n][d] + 1
<1> HIDE DEF k
<1>2. [D EXCEPT ![n][d] = k] \in [Hop -> [Dests -> Nat]]
  BY <1>1 DEF k
<1> QED
  BY <1>2 DEF k

\* A packet that a user offers keeps the invariant.
LEMMA BPPushStep ==
    ASSUME BPInv, NEW p \in Packet, BP_push(p)
    PROVE  BPInv'
<1> DEFINE n == Packets[p].from
<1>1. n \in Hop /\ n # Packets[p].to /\ Packets[p].to \in Dests
  BY BackPressureAssumption, DestsAreHops
<1>2. QueuesFit(fq') /\ Grown(fq, fq', p)
  BY <1>1, EnqueueFits DEF BPInv, BP_push
<1>3. drops' \in [Hop -> [Dests -> Nat]]
  BY <1>1, DropsCount DEF BPInv, BP_push
<1> QED
  BY <1>2, <1>3, BPGrows DEF BP_push

\* pull(): a queue is left alone once its guard packet has gone.
LEMMA BPPullStep ==
    ASSUME BPInv, NEW n \in Hop, NEW lost \in BOOLEAN, BP_pull(n, lost)
    PROVE  BPInv'
<1> DEFINE u    == pullq[n]
           d    == u.dst
           p    == Head(fq[n][d])
           rest == [fq EXCEPT ![n][d] = Tail(fq[n][d])]
<1>1. /\ QueuesFit(fq) /\ pullq \in [Hop -> PullState] /\ drops \in [Hop -> [Dests -> Nat]]
      /\ \A m \in Hop : PullSound(m)
  BY DEF BPInv
<1>2. /\ d # 0 /\ fq[n][d] # <<>> /\ ~u.lock
      /\ pullq' = [pullq EXCEPT ![n].lock = (p = u.guard)]
      /\ fq' = IF lost \/ u.neig = Packets[p].to THEN rest ELSE Enqueue(rest, u.neig, p)
      /\ UNCHANGED <<dmax, bpdata, atPeriod>>
  BY DEF BP_pull, IsGuard, BPForwarder_push
<1>3. u \in PullState /\ d \in Dests /\ u.neig \in Hop /\ Guarded(fq[n][d], u.guard, atPeriod[n])
  BY <1>1, <1>2 DEF PullState, PullSound
<1>4. /\ fq[n][d] \in Seq(Packet) /\ Len(fq[n][d]) <= QCapacity /\ QCapacity \in Nat
      /\ fq \in [Hop -> [Dests -> Seq(Packet)]]
  BY <1>1, <1>3, BackPressureAssumption DEF QueuesFit
<1>5. p \in Packet /\ Tail(fq[n][d]) \in Seq(Packet) /\ Len(Tail(fq[n][d])) <= QCapacity
  BY <1>2, <1>4
<1>6. drops' \in [Hop -> [Dests -> Nat]]
  <2>1. Packets[p].to \in Dests
    BY <1>5, DestsAreHops
  <2> DEFINE k == Packets[p].to
             m == u.neig
  <2>2. drops' = drops \/ drops' = [drops EXCEPT ![m][k] = @ + 1]
    BY DEF BP_pull
  <2>3. m \in Hop /\ k \in Dests
    BY <1>3, <2>1
  <2> HIDE DEF k, m
  <2> QED
    BY <1>1, <2>2, <2>3, DropsCount
<1> HIDE DEF p
<1>7. /\ rest \in [Hop -> [Dests -> Seq(Packet)]] /\ rest[n][d] = Tail(fq[n][d])
      /\ \A m \in Hop : \A e \in Dests : m # n \/ e # d => rest[m][e] = fq[m][e]
  BY <1>3, <1>4, <1>5
<1> HIDE DEF rest
<1>8. QueuesFit(rest)
  <2>1. n # d
    BY <1>1, <1>2, <1>3 DEF QueuesFit
  <2>2. \A m \in Hop : \A e \in Dests : Len(rest[m][e]) <= QCapacity
    BY <1>1, <1>5, <1>7 DEF QueuesFit
  <2>3. ASSUME NEW e \in Dests PROVE rest[e][e] = <<>>
    <3>1. e \in Hop /\ fq[e][e] = <<>> /\ (e # n \/ e # d)
      BY <1>1, <2>1, DestsAreHops DEF QueuesFit
    <3> QED
      BY <1>7, <3>1
  <2> QED
    BY <1>7, <2>2, <2>3 DEF QueuesFit
<1>9. QueuesFit(fq') /\ Grown(rest, fq', p)
  <2>1. CASE fq' = rest
    BY <1>8, <2>1 DEF Grown
  <2>2. CASE u.neig # Packets[p].to /\ fq' = Enqueue(rest, u.neig, p)
    BY <1>3, <1>5, <1>8, <2>2, EnqueueFits
  <2> QED
    BY <1>2, <2>1, <2>2
<1>10. (p = u.guard) \in BOOLEAN
  OBVIOUS
<1> DEFINE b == p = u.guard
<1> HIDE DEF b
<1>11. /\ pullq' \in [Hop -> PullState] /\ pullq'[n].dst = d /\ pullq'[n].neig = u.neig
       /\ pullq'[n].guard = u.guard /\ pullq'[n].lock = b
       /\ \A m \in Hop \ {n} : pullq'[m] = pullq[m]
  <2>1. b \in BOOLEAN /\ pullq' = [pullq EXCEPT ![n] = [u EXCEPT !.lock = b]]
    BY <1>1, <1>2, <1>10 DEF b
  <2>2. [u EXCEPT !.lock = b] \in PullState
    BY <1>3, <2>1 DEF PullState
  <2> QED
    BY <1>1, <1>3, <2>1, <2>2 DEF PullState
<1>12. ASSUME NEW m \in Hop PROVE PullSound(m)'
  <2>1. CASE m = n
    <3>1. ASSUME ~b PROVE Guarded(fq'[n][d], u.guard, atPeriod[n])
      <4>1. Guarded(rest[n][d], u.guard, atPeriod[n])
        BY <1>2, <1>3, <1>4, <1>7, <3>1, GuardedShrinks DEF b, p
      <4>2. rest[n][d] \in Seq(Packet)
        BY <1>5, <1>7
      <4>3. fq'[n][d] = rest[n][d] \/ fq'[n][d] = Append(rest[n][d], p)
        BY <1>3, <1>9 DEF Grown
      <4> QED
        BY <1>5, <4>1, <4>2, <4>3, GuardedGrows
    <3> QED
      BY <1>2, <1>3, <1>11, <2>1, <3>1 DEF PullSound
  <2>2. CASE m # n
    <3>1. PullSound(m) /\ pullq'[m] = pullq[m] /\ pullq[m] \in PullState /\ atPeriod' = atPeriod
      BY <1>1, <1>2, <1>11, <2>2
    <3> DEFINE e == pullq[m].dst
    <3>2. ASSUME e # 0, ~pullq[m].lock PROVE Guarded(fq'[m][e], pullq[m].guard, atPeriod[m])
      <4>1. e \in Dests
        BY <3>1, <3>2 DEF PullState
      <4>2. Guarded(fq[m][e], pullq[m].guard, atPeriod[m]) /\ fq[m][e] \in Seq(Packet)
        BY <1>4, <3>1, <3>2, <4>1 DEF PullSound
      <4>3. fq'[m][e] = fq[m][e] \/ fq'[m][e] = Append(fq[m][e], p)
        <5>1. rest[m][e] = fq[m][e]
          BY <1>7, <2>2, <4>1
        <5> QED
          BY <1>9, <4>1, <5>1 DEF Grown
      <4> QED
        BY <1>5, <4>2, <4>3, GuardedGrows
    <3> QED
      BY <3>1, <3>2 DEF PullSound
  <2> QED
    BY <2>1, <2>2
<1> QED
  BY <1>1, <1>2, <1>6, <1>9, <1>11, <1>12 DEF BPInv

\* What do_periodically() drops is there.
LEMMA DroppedFits ==
    ASSUME BPInv, NEW n \in Hop, NEW d \in Dests
    PROVE  /\ Dropped(n, d) \in 0 .. Len(fq[n][d])
           /\ Dropped(n, d) \in Nat /\ drops[n][d] \in Nat /\ dmax \in Nat
<1>1. fq[n][d] \in Seq(Packet) /\ drops[n][d] \in Nat /\ dmax \in Nat
  BY DEF BPInv, QueuesFit
<1>2. Len(fq[n][d]) \in Nat
  BY <1>1
<1> DEFINE l == Len(fq[n][d])
           k == drops[n][d]
           r == Dropped(n, d)
<1>3. r = IF l <= k THEN 0 ELSE IF l < dmax THEN l ELSE dmax
  BY DEF Dropped
<1> HIDE DEF l, k, r
<1>4. l \in Nat /\ k \in Nat
  BY <1>1, <1>2 DEF l, k
<1>5. r \in 0 .. l /\ r \in Nat
  BY <1>1, <1>3, <1>4
<1> QED
  BY <1>1, <1>5 DEF l, k, r

\* do_periodically(): the queue is guarded by its last packet.
LEMMA BPPeriodStep ==
    ASSUME BPInv, NEW n \in Hop, do_periodically(n)
    PROVE  BPInv'
<1> DEFINE q == [d \in Dests |-> SubSeq(fq[n][d], Dropped(n, d) + 1, Len(fq[n][d]))]
           D == [d \in Dests |-> drops[n][d] + Dropped(n, d)]
           A == UNION {{q[d][i] : i \in 1 .. Len(q[d])} : d \in Dests}
           E == [d \in Dests |-> IF drops[n][d] <= QCapacity THEN D[d]
                                 ELSE D[d] - (IF drops[n][d] < dmax THEN drops[n][d] ELSE dmax)]
           B == IF get_best_neighbor(n) = {} THEN {<<0, 0>>} ELSE get_best_neighbor(n)
           Next(c) == IF c[1] = 0 \/ q[c[1]] = <<>>
                      THEN [dst |-> c[1], neig |-> c[2], guard |-> 0, lock |-> TRUE]
                      ELSE [dst |-> c[1], neig |-> c[2], guard |-> q[c[1]][Len(q[c[1]])], lock |-> FALSE]
<1>1. /\ QueuesFit(fq) /\ pullq \in [Hop -> PullState] /\ drops \in [Hop -> [Dests -> Nat]]
      /\ DOMAIN atPeriod = Hop /\ \A m \in Hop : PullSound(m)
  BY DEF BPInv
<1>2. /\ fq' = [fq EXCEPT ![n] = q] /\ drops' = [drops EXCEPT ![n] = E]
      /\ atPeriod' = [atPeriod EXCEPT ![n] = A] /\ dmax' = dmax
  BY DEF do_periodically
<1>3. PICK c \in B : pullq' = [pullq EXCEPT ![n] = Next(c)]
  BY DEF do_periodically
<1>4. c = <<0, 0>> \/ (c[1] \in Dests /\ c[2] \in Hop)
  <2>1. get_best_neighbor(n) \subseteq Dests \X DOMAIN bpdata[n]
    BY DEF get_best_neighbor, Candidates
  <2>2. DOMAIN bpdata[n] \subseteq Hop
    BY BackPressureAssumption DEF BPInv
  <2> QED
    BY <2>1, <2>2
<1>5. ASSUME NEW d \in Dests
      PROVE  q[d] \in Seq(Packet) /\ Len(q[d]) <= Len(fq[n][d]) /\ E[d] \in Nat
  <2>1. fq[n][d] \in Seq(Packet) /\ Dropped(n, d) \in 0 .. Len(fq[n][d])
    BY <1>1, DroppedFits DEF QueuesFit
  <2>2. E[d] \in Nat
    <3> DEFINE k == drops[n][d]
               x == Dropped(n, d)
    <3>1. D[d] = k + x
      OBVIOUS
    <3> HIDE DEF D
    <3>2. E[d] = IF k <= QCapacity THEN D[d] ELSE D[d] - (IF k < dmax THEN k ELSE dmax)
      BY Zenon
    <3>3. k \in Nat /\ x \in Nat /\ dmax \in Nat
      BY DroppedFits
    <3> HIDE DEF E, k, x
    <3> QED
      BY <3>1, <3>2, <3>3
  <2> DEFINE s == fq[n][d]
             k == Dropped(n, d)
  <2>3. q[d] = SubSeq(s, k + 1, Len(s))
    OBVIOUS
  <2> HIDE DEF s, k, q, E
  <2>4. s \in Seq(Packet) /\ k \in 0 .. Len(s) /\ Len(s) \in Nat
    BY <2>1 DEF s, k
  <2>5. SubSeq(s, k + 1, Len(s)) \in Seq(Packet) /\ Len(SubSeq(s, k + 1, Len(s))) = Len(s) - k
    <3>1. \A i \in k + 1 .. Len(s) : s[i] \in Packet
      BY <2>4
    <3> QED
      BY <2>4, <3>1
  <2>6. Len(q[d]) <= Len(s)
    BY <2>3, <2>4, <2>5
  <2> QED
    BY <2>2, <2>3, <2>5, <2>6 DEF s
<1>6. ASSUME NEW d \in Dests, NEW j \in 1 .. Len(q[d]) PROVE q[d][j] \in A
  <2> HIDE DEF q
  <2>1. q[d][j] \in {q[d][i] : i \in 1 .. Len(q[d])}
    OBVIOUS
  <2> QED
    BY <2>1
<1>7. q \in [Dests -> Seq(Packet)] /\ E \in [Dests -> Nat]
  <2>1. DOMAIN q = Dests /\ DOMAIN E = Dests /\ q = [d \in Dests |-> q[d]] /\ E = [d \in Dests |-> E[d]]
    OBVIOUS
  <2> HIDE DEF q, E
  <2> QED
    BY <1>5, <2>1
<1> DEFINE r == Next(c)
<1>8. r \in PullState /\ r.dst = c[1] /\ r.neig = c[2]
      /\ (r.dst # 0 /\ ~r.lock => q[r.dst] # <<>> /\ r.guard = q[r.dst][Len(q[r.dst])])
  <2>1. CASE c[1] = 0 \/ q[c[1]] = <<>>
    <3>1. r = [dst |-> c[1], neig |-> c[2], guard |-> 0, lock |-> TRUE]
      BY <2>1
    <3> HIDE DEF r
    <3> QED
      BY <1>4, <3>1 DEF PullState
  <2>2. CASE ~(c[1] = 0 \/ q[c[1]] = <<>>)
    <3> DEFINE g == q[c[1]][Len(q[c[1]])]
    <3>1. r = [dst |-> c[1], neig |-> c[2], guard |-> g, lock |-> FALSE]
      BY <2>2
    <3>2. q[c[1]] # <<>> /\ c[1] \in Dests /\ c[2] \in Hop
      BY <1>4, <2>2
    <3> HIDE DEF r, q
    <3>3. q[c[1]] \in Seq(Packet)
      BY <1>7, <3>2
    <3>4. g \in Packet
      BY <3>2, <3>3
    <3>5. g = q[c[1]][Len(q[c[1]])]
      OBVIOUS
    <3> HIDE DEF g
    <3> QED
      BY <3>1, <3>2, <3>4, <3>5 DEF PullState
  <2> QED
    BY <2>1, <2>2
<1>9. pullq' = [pullq EXCEPT ![n] = r]
  BY <1>3
<1> HIDE DEF q, A, E, r
<1>10. pullq' \in [Hop -> PullState] /\ pullq'[n] = r /\ \A m \in Hop \ {n} : pullq'[m] = pullq[m]
  BY <1>1, <1>8, <1>9
<1>11. drops' \in [Hop -> [Dests -> Nat]] /\ DOMAIN atPeriod' = Hop /\ atPeriod'[n] = A
       /\ \A m \in Hop \ {n} : atPeriod'[m] = atPeriod[m]
  BY <1>1, <1>2, <1>7
<1>12. fq' \in [Hop -> [Dests -> Seq(Packet)]] /\ fq'[n] = q /\ \A m \in Hop \ {n} : fq'[m] = fq[m]
  BY <1>1, <1>2, <1>7 DEF QueuesFit
<1>13. QueuesFit(fq')
  <2>1. ASSUME NEW m \in Hop, NEW d \in Dests PROVE Len(fq'[m][d]) <= QCapacity
    <3>1. CASE m = n
      <4>1. fq[n][d] \in Seq(Packet) /\ Len(fq[n][d]) <= QCapacity /\ QCapacity \in Nat
        BY <1>1, BackPressureAssumption DEF QueuesFit
      <4>2. q[d] \in Seq(Packet) /\ Len(q[d]) <= Len(fq[n][d])
        BY <1>5
      <4>3. Len(q[d]) \in Nat /\ Len(fq[n][d]) \in Nat
        BY <4>1, <4>2
      <4> QED
        BY <1>12, <3>1, <4>1, <4>2, <4>3
    <3>2. CASE m # n
      BY <1>1, <1>12, <3>2 DEF QueuesFit
    <3> QED
      BY <3>1, <3>2
  <2>2. ASSUME NEW d \in Dests PROVE fq'[d][d] = <<>>
    <3>1. d \in Hop
      BY DestsAreHops
    <3>2. CASE d = n
      <4>1. fq[n][d] = <<>> /\ q[d] \in Seq(Packet) /\ Len(q[d]) <= Len(fq[n][d])
        BY <1>1, <1>5, <3>2 DEF QueuesFit
      <4>2. Len(fq[n][d]) = 0 /\ Len(q[d]) \in Nat
        BY <4>1
      <4>3. Len(q[d]) = 0
        BY <4>1, <4>2
      <4>4. q[d] = <<>>
        BY <4>1, <4>3
      <4> QED
        BY <1>12, <3>2, <4>4
    <3>3. CASE d # n
      BY <1>1, <1>12, <3>1, <3>3 DEF QueuesFit
    <3> QED
      BY <3>2, <3>3
  <2> QED
    BY <1>12, <2>1, <2>2 DEF QueuesFit
<1>14. ASSUME NEW m \in Hop PROVE PullSound(m)'
  <2>1. CASE m = n
    <3>1. ASSUME r.dst # 0 PROVE r.neig \in Hop /\ r.dst \in Dests
      BY <1>4, <1>8, <3>1
    <3>2. ASSUME r.dst # 0, ~r.lock PROVE Guarded(q[r.dst], r.guard, A)
      <4> DEFINE d == r.dst
      <4>1. d \in Dests /\ q[d] # <<>> /\ r.guard = q[d][Len(q[d])] /\ q[d] \in Seq(Packet)
        BY <1>7, <1>8, <3>1, <3>2
      <4>2. Len(q[d]) \in 1 .. Len(q[d])
        BY <4>1
      <4>3. \A j \in 1 .. Len(q[d]) : q[d][j] \in A
        BY <1>6, <4>1
      <4> QED
        BY <4>1, <4>2, <4>3 DEF Guarded
    <3> QED
      BY <1>10, <1>11, <1>12, <2>1, <3>1, <3>2 DEF PullSound
  <2>2. CASE m # n
    BY <1>1, <1>10, <1>11, <1>12, <2>2 DEF PullSound
  <2> QED
    BY <2>1, <2>2
<1>15. dmax' \in Nat /\ DOMAIN bpdata' = Hop /\ \A m \in Hop : DOMAIN bpdata'[m] \subseteq DOMAIN Ett[m]
  BY <1>2 DEF BPInv, do_periodically
<1> QED
  BY <1>10, <1>11, <1>13, <1>14, <1>15 DEF BPInv

\* Every step of the queues keeps the invariant.
LEMMA BPStep == BPInv /\ [BPNext]_bpVars => BPInv'
<1> SUFFICES ASSUME BPInv, [BPNext]_bpVars PROVE BPInv'
  OBVIOUS
<1>1. ASSUME NEW n \in Hop, NEW m \in Hop, BPStat_probe(n, m) PROVE BPInv'
  <2>1. UNCHANGED <<dmax, fq, pullq, drops, atPeriod>>
    BY <1>1 DEF BPStat_probe
  <2>2. n \in DOMAIN Ett[m]
    BY <1>1, BackPressureAssumption DEF BPStat_probe
  <2>3. PICK t : bpdata' = [bpdata EXCEPT ![m] = Put(@, n, t)]
    BY <1>1 DEF BPStat_probe
  <2>4. DOMAIN Put(bpdata[m], n, t) = DOMAIN bpdata[m] \cup {n}
    BY DEF Put
  <2>5. DOMAIN bpdata' = Hop /\ \A k \in Hop : DOMAIN bpdata'[k] \subseteq DOMAIN Ett[k]
    BY <2>2, <2>3, <2>4 DEF BPInv
  <2> QED
    BY <2>1, <2>5 DEF BPInv, PullSound
<1>2. CASE UNCHANGED bpVars
  BY <1>2 DEF bpVars, BPInv, PullSound
<1>3. CASE BPNext
  BY <1>1, <1>3, BPPushStep, BPPeriodStep, BPPullStep DEF BPNext
<1> QED
  BY <1>2, <1>3

\* Products of numbers that are not zero, and what a longer way adds.
LEMMA Products ==
    /\ \A a, b \in Nat : a * b \in Nat
    /\ \A a, b \in Nat \ {0} : a * b \in Nat \ {0}
    /\ \A t, a, b \in Nat : a < b => t * a + t <= t * b
<1>1. \A a, b \in Nat : a * b \in Nat
  OBVIOUS
<1>2. \A a, b \in Nat \ {0} : a * b \in Nat \ {0}
  OBVIOUS
<1>3. ASSUME NEW t \in Nat, NEW a \in Nat, NEW b \in Nat, a < b PROVE t * a + t <= t * b
  <2> DEFINE c == b - (a + 1)
  <2>1. c \in Nat /\ b = a + 1 + c
    BY <1>3
  <2> HIDE DEF c
  <2>2. t * b = t * a + t + t * c
    BY <2>1
  <2>3. t * c \in Nat /\ t * a \in Nat
    BY <1>1, <2>1
  <2> QED
    BY <2>2, <2>3
<1> QED
  BY <1>1, <1>2, <1>3

\* The factors by which get_best_neighbor weighs its candidates are positive.
LEMMA FactorsPositive ==
    /\ Factor.backlog \in Nat \ {0} /\ Factor.distance \in Nat \ {0}
    /\ \A e \in 1 .. Infinite : Infinite \div e \in Nat \ {0}
<1> DEFINE Q == QCapacity + 1
<1>1. Q \in Nat \ {0} /\ Infinite \in Nat \ {0}
  BY BackPressureAssumption
<1> HIDE DEF Q
<1>2. \A a, b \in Nat \ {0} : b <= a => a \div b \in Nat \ {0}
  OBVIOUS
<1>3. Q < Infinite => Infinite \div Q \in Nat \ {0}
  BY <1>1, <1>2
<1>4. Q > Infinite => Q \div Infinite \in Nat \ {0}
  BY <1>1, <1>2
<1>5. Factor.backlog = (IF Q < Infinite THEN Infinite \div Q ELSE 1)
      /\ Factor.distance = (IF Q > Infinite THEN Q \div Infinite ELSE 1)
  BY DEF Factor, Q
<1>6. \A e \in 1 .. Infinite : Infinite \div e \in Nat \ {0}
  BY <1>1, <1>2
<1> QED
  BY <1>3, <1>4, <1>5, <1>6

\* What n knows of m about d is what is, if anything.
Knows(n, m, d) ==
    bpdata[n][m][d] \in {NoInfo, [backlog |-> get_backlog(m, d), distance |-> Dist[m][d]]}

\* The metric is not negative, and it is positive downhill and on a best route to a
\* neighbor that has told nothing.
LEMMA MetricPositive ==
    ASSUME BPInv, NEW n \in Hop, NEW m \in DOMAIN Ett[n], NEW d \in Dests, Knows(n, m, d)
    PROVE  /\ bp_metric(n, m, d) \in Nat
           /\ IF bpdata[n][m][d] = NoInfo THEN m = Shortest(n, d) => bp_metric(n, m, d) > 0
              ELSE Downhill(n, m, d) => bp_metric(n, m, d) > 0
<1>1. m \in Hop /\ Ett[n][m] \in 1 .. Infinite /\ Infinite \in Nat \ {0} /\ Threshold \in Nat
      /\ Dist[n][d] \in Nat /\ Dist[m][d] \in Nat
  BY BackPressureAssumption
<1>2. get_backlog(n, d) \in Nat /\ get_backlog(m, d) \in Nat
  <2>1. fq[n][d] \in Seq(Packet) /\ fq[m][d] \in Seq(Packet)
    BY <1>1 DEF BPInv, QueuesFit
  <2> QED
    BY <2>1 DEF get_backlog
<1>3. CASE bpdata[n][m][d] = NoInfo
  <2>1. Infinite * Infinite \in Nat \ {0}
    BY <1>1, Products
  <2>2. bp_metric(n, m, d) = IF m # Shortest(n, d) THEN 0 ELSE IF m = d THEN Infinite * Infinite ELSE 1
    BY <1>3 DEF bp_metric
  <2> DEFINE I == Infinite * Infinite
  <2> HIDE DEF I
  <2>3. I \in Nat \ {0} /\ bp_metric(n, m, d) = IF m # Shortest(n, d) THEN 0 ELSE IF m = d THEN I ELSE 1
    BY <2>1, <2>2 DEF I
  <2> QED
    BY <1>3, <2>3
<1>4. CASE bpdata[n][m][d] # NoInfo /\ ~Downhill(n, m, d)
  BY <1>4 DEF bp_metric
<1>5. CASE bpdata[n][m][d] # NoInfo /\ Downhill(n, m, d)
  <2> DEFINE i == bpdata[n][m][d]
             x == get_backlog(n, d) - i.backlog
             y == Dist[n][d] - i.distance
             z == Infinite \div Ett[n][m]
  <2>1. i.backlog = get_backlog(m, d) /\ i.distance = Dist[m][d]
    BY <1>5 DEF Knows
  <2>2. get_backlog(n, d) > get_backlog(m, d) + Threshold /\ Dist[n][d] > Dist[m][d]
    BY <1>5, <2>1 DEF Downhill
  <2>3. x = get_backlog(n, d) - get_backlog(m, d) /\ y = Dist[n][d] - Dist[m][d]
    BY <2>1
  <2>4. bp_metric(n, m, d) = (x * Factor.backlog + y * Factor.distance) * z
    BY <1>5 DEF bp_metric
  <2> HIDE DEF i, x, y, z
  <2>5. x \in Nat \ {0} /\ y \in Nat \ {0}
    BY <1>1, <1>2, <2>2, <2>3
  <2>6. z \in Nat \ {0} /\ Factor.backlog \in Nat \ {0} /\ Factor.distance \in Nat \ {0}
    BY <1>1, FactorsPositive DEF z
  <2>7. x * Factor.backlog \in Nat \ {0} /\ y * Factor.distance \in Nat \ {0}
    BY <2>5, <2>6, Products
  <2> DEFINE w == x * Factor.backlog + y * Factor.distance
  <2>8. w \in Nat \ {0}
    BY <2>7
  <2>9. bp_metric(n, m, d) = w * z
    BY <2>4
  <2> HIDE DEF w
  <2>10. bp_metric(n, m, d) \in Nat \ {0}
    BY <2>6, <2>8, <2>9, Products
  <2> QED
    BY <1>5, <2>10
<1> QED
  BY <1>3, <1>4, <1>5

\* Of the nodes with more than the threshold queued per unit of the way, the nearest
\* has a neighbor to send to.
LEMMA SomebodySendsAlways == BPInv => SomebodySends
<1> SUFFICES ASSUME BPInv,
                    \A n \in Hop : \A m \in DOMAIN Ett[n] :
                       m \in DOMAIN bpdata[n] /\ \A d \in Dests : Knows(n, m, d),
                    NEW n0 \in Hop, NEW d \in Dests, get_backlog(n0, d) > Threshold * Dist[n0][d]
             PROVE  \E n \in Hop : get_best_neighbor(n) # {}
  BY DEF SomebodySends, Knows
<1> DEFINE Much(n) == get_backlog(n, d) > Threshold * Dist[n][d]
           W == {k \in Nat : \E n \in Hop : Dist[n][d] = k /\ Much(n)}
<1>1. \A n \in Hop : Dist[n][d] \in Nat /\ get_backlog(n, d) \in Nat
  <2>1. \A n \in Hop : fq[n][d] \in Seq(Packet)
    BY DEF BPInv, QueuesFit
  <2> QED
    BY <2>1, BackPressureAssumption DEF get_backlog
<1>2. Threshold \in Nat /\ \A n \in Hop : Threshold * Dist[n][d] \in Nat
  BY <1>1, Products, BackPressureAssumption
<1>3. W \subseteq Nat /\ W # {}
  BY <1>1
<1>4. PICK k \in W : \A j \in W : k <= j
  <2> HIDE DEF W
  <2> QED
    BY <1>3, LeastNat
<1>5. PICK n \in Hop : Dist[n][d] = k /\ Much(n)
  BY <1>4
<1>6. get_backlog(n, d) > 0
  BY <1>1, <1>2, <1>5
<1>7. n # d
  <2>1. fq[d][d] = <<>> /\ d \in Hop
    BY DestsAreHops DEF BPInv, QueuesFit
  <2>2. get_backlog(d, d) = 0
    BY <2>1 DEF get_backlog
  <2> QED
    BY <1>6, <2>2
<1> DEFINE m == Shortest(n, d)
<1>8. m \in DOMAIN Ett[n] /\ Dist[n][d] = Ett[n][m] + Dist[m][d]
  <2>1. d \in Dests \ {n}
    BY <1>7
  <2>2. \E x \in DOMAIN Ett[n] : Dist[n][d] = Ett[n][x] + Dist[x][d]
    BY <2>1, BackPressureAssumption
  <2> QED
    BY <2>2 DEF Shortest
<1>9. m = Shortest(n, d) /\ m \in DOMAIN bpdata[n] /\ Knows(n, m, d)
  BY <1>8
<1> HIDE DEF m
<1>10. m \in Hop /\ Ett[n][m] \in 1 .. Infinite /\ Infinite \in Nat
  BY <1>8, BackPressureAssumption
<1>11. Dist[m][d] < Dist[n][d] /\ Dist[n][d] > 0
  BY <1>1, <1>8, <1>10
<1>12. get_backlog(m, d) <= Threshold * Dist[m][d]
  <2>1. Dist[m][d] \notin W
    BY <1>1, <1>4, <1>5, <1>10, <1>11
  <2>2. ~Much(m)
    BY <1>1, <1>10, <2>1
  <2> QED
    BY <1>1, <1>2, <1>10, <2>2
<1>13. Threshold * Dist[m][d] + Threshold <= Threshold * Dist[n][d]
  BY <1>1, <1>2, <1>10, <1>11, Products
<1>14. get_backlog(n, d) > get_backlog(m, d) + Threshold
  <2> DEFINE a == Threshold * Dist[m][d]
             b == Threshold * Dist[n][d]
  <2>1. a \in Nat /\ b \in Nat /\ get_backlog(m, d) <= a /\ a + Threshold <= b /\ get_backlog(n, d) > b
    BY <1>2, <1>5, <1>10, <1>12, <1>13
  <2> HIDE DEF a, b
  <2> QED
    BY <1>1, <1>2, <1>10, <2>1
<1>15. bp_metric(n, m, d) > 0
  <2>1. Knows(n, m, d)
    BY <1>9
  <2>2. CASE bpdata[n][m][d] = NoInfo
    BY <1>8, <1>9, <2>1, <2>2, MetricPositive
  <2>3. CASE bpdata[n][m][d] # NoInfo
    <3>1. bpdata[n][m][d] = [backlog |-> get_backlog(m, d), distance |-> Dist[m][d]]
      BY <2>1, <2>3 DEF Knows
    <3>2. bpdata[n][m][d].backlog = get_backlog(m, d) /\ bpdata[n][m][d].distance = Dist[m][d]
      BY <3>1
    <3>3. Downhill(n, m, d)
      BY <1>11, <1>14, <3>2 DEF Downhill
    <3> QED
      BY <1>8, <2>1, <2>3, <3>3, MetricPositive
  <2> QED
    BY <2>2, <2>3
<1> DEFINE C == Candidates(n)
           f == [c \in C |-> bp_metric(n, c[2], c[1])]
<1>16. C \subseteq Dests \X DOMAIN Ett[n] /\ C # {}
  <2>1. <<d, m>> \in C
    BY <1>6, <1>9, <1>11, <1>15 DEF Candidates
  <2>2. DOMAIN bpdata[n] \subseteq DOMAIN Ett[n]
    BY DEF BPInv
  <2> QED
    BY <2>1, <2>2 DEF Candidates
<1>17. IsFiniteSet(C)
  <2>1. Dests \subseteq Hop /\ DOMAIN Ett[n] \subseteq Hop /\ IsFiniteSet(Hop)
    BY DestsAreHops, BackPressureAssumption
  <2>2. IsFiniteSet(Dests) /\ IsFiniteSet(DOMAIN Ett[n])
    BY <2>1, FS_Subset
  <2>3. IsFiniteSet(Dests \X DOMAIN Ett[n])
    BY <2>2, FS_Product
  <2> QED
    BY <1>16, <2>3, FS_Subset
<1>18. f \in [C -> Nat]
  <2> SUFFICES ASSUME NEW c \in C PROVE bp_metric(n, c[2], c[1]) \in Nat
    OBVIOUS
  <2>1. c[1] \in Dests /\ c[2] \in DOMAIN Ett[n]
    BY <1>16
  <2> QED
    BY <2>1, MetricPositive
<1>19. \A c \in C : f[c] = bp_metric(n, c[2], c[1])
  OBVIOUS
<1> HIDE DEF C, f
<1>20. PICK c \in C : \A e \in C : f[e] <= f[c]
  BY <1>16, <1>17, <1>18, MaxExists
<1>21. c \in get_best_neighbor(n)
  BY <1>19, <1>20 DEF get_best_neighbor, C
<1> QED
  BY <1>21

\* The invariant implies the properties of the run.
LEMMA BPInvSound == BPInv => BPTypeOK /\ GuardedPull /\ SomebodySends
<1> SUFFICES ASSUME BPInv PROVE BPTypeOK /\ GuardedPull
  BY SomebodySendsAlways
<1>1. BPTypeOK
  BY DEF BPInv, BPTypeOK, QueuesFit, PullState
<1>2. ASSUME NEW n \in Hop, pullq[n].dst # 0, ~pullq[n].lock
      PROVE  LET q == fq[n][pullq[n].dst]
             IN  \E i \in DOMAIN q : q[i] = pullq[n].guard /\ \A j \in 1 .. i : q[j] \in atPeriod[n]
  <2> DEFINE q == fq[n][pullq[n].dst]
  <2>1. pullq[n].dst \in Dests /\ Guarded(q, pullq[n].guard, atPeriod[n])
    BY <1>2 DEF BPInv, PullState, PullSound
  <2>2. q \in Seq(Packet)
    BY <2>1 DEF BPInv, QueuesFit
  <2>3. DOMAIN q = 1 .. Len(q)
    BY <2>2
  <2> QED
    BY <2>1, <2>3 DEF Guarded
<1> QED
  BY <1>1, <1>2 DEF GuardedPull

-----------------------------------------------------------------------------
(***************************************************************************)
(* BPQuerier, BPMetricFlood and BPQueryResponder.  A path without a circle *)
(* is under way for a query, as a copy of the query, as an entry that      *)
(* waits or as a reply, until the source has its answer.                   *)
(***************************************************************************)

\* A way from the source that meets no node twice.
Walk(p) ==
    /\ p \in Seq(BPNode) /\ Len(p) >= 1 /\ p[1] = BPSource
    /\ \A i, j \in 1 .. Len(p) : p[i] = p[j] => i = j
    /\ \A i \in 1 .. Len(p) - 1 : {p[i], p[i + 1]} \in BPLink

\* A walk without a circle is no longer than there are nodes.
LEMMA LoopFreeWalks ==
    ASSUME NEW p
    PROVE  p \in LoopFree <=> Walk(p) /\ p[Len(p)] = BPTarget
<1>0. BPSource # BPTarget /\ IsFiniteSet(BPNode)
  BY BPFloodAssumption
<1>1. ASSUME p \in LoopFree PROVE Walk(p) /\ p[Len(p)] = BPTarget
  <2>1. PICK k \in 2 .. Cardinality(BPNode) : p \in [1 .. k -> BPNode]
    BY <1>1 DEF LoopFree
  <2>2. k \in Nat /\ k >= 2
    BY <1>0, FS_CardinalityType
  <2>3. p \in Seq(BPNode) /\ Len(p) = k
    BY <2>1, <2>2
  <2>4. p[1] = BPSource /\ p[Len(p)] = BPTarget /\ IsInjective(p)
        /\ \A i \in 1 .. Len(p) - 1 : {p[i], p[i + 1]} \in BPLink
    BY <1>1 DEF LoopFree
  <2>5. DOMAIN p = 1 .. Len(p)
    BY <2>3
  <2> QED
    BY <2>2, <2>3, <2>4, <2>5 DEF Walk, IsInjective
<1>2. ASSUME Walk(p), p[Len(p)] = BPTarget PROVE p \in LoopFree
  <2>1. p \in Seq(BPNode) /\ Len(p) >= 1 /\ p[1] = BPSource
        /\ (\A i, j \in 1 .. Len(p) : p[i] = p[j] => i = j)
        /\ \A i \in 1 .. Len(p) - 1 : {p[i], p[i + 1]} \in BPLink
    BY <1>2 DEF Walk
  <2>2. Len(p) <= Cardinality(BPNode) /\ Cardinality(BPNode) \in Nat /\ Len(p) \in Nat
    BY <1>0, <2>1, DistinctFits, FS_CardinalityType
  <2>3. Len(p) # 1
    BY <1>0, <1>2, <2>1
  <2>4. Len(p) \in 2 .. Cardinality(BPNode)
    <3> DEFINE l == Len(p)
               m == Cardinality(BPNode)
    <3>1. l \in Nat /\ m \in Nat /\ l >= 1 /\ l # 1 /\ l <= m
      BY <2>1, <2>2, <2>3
    <3> HIDE DEF l, m
    <3>2. l \in 2 .. m
      BY <3>1
    <3> QED
      BY <3>2 DEF l, m
  <2>5. p \in [1 .. Len(p) -> BPNode] /\ DOMAIN p = 1 .. Len(p)
    BY <2>1
  <2>6. IsInjective(p)
    BY <2>1, <2>5 DEF IsInjective
  <2>7. p \in UNION {[1 .. k -> BPNode] : k \in 2 .. Cardinality(BPNode)}
    BY <2>4, <2>5
  <2> QED
    BY <1>2, <2>1, <2>6, <2>7 DEF LoopFree
<1> QED
  BY <1>1, <1>2

\* A walk continued by a neighbor is a walk.
LEMMA WalkGrows ==
    ASSUME NEW p, Walk(p), NEW n \in BPNode, n \notin ToSet(p), {p[Len(p)], n} \in BPLink
    PROVE  Walk(Append(p, n)) /\ Append(p, n)[Len(Append(p, n))] = n /\ Len(Append(p, n)) = Len(p) + 1
<1>1. p \in Seq(BPNode) /\ Len(p) >= 1 /\ Len(p) \in Nat /\ DOMAIN p = 1 .. Len(p)
  BY DEF Walk
<1> DEFINE r == Append(p, n)
           l == Len(p)
<1>2. r \in Seq(BPNode) /\ Len(r) = l + 1 /\ r[l + 1] = n /\ \A i \in 1 .. l : r[i] = p[i]
  BY <1>1
<1>3. l \in Nat /\ l >= 1 /\ \A i \in 1 .. l : p[i] # n
  BY <1>1 DEF ToSet
<1> HIDE DEF r
<1>4. r[1] = BPSource
  BY <1>2, <1>3 DEF Walk
<1>5. ASSUME NEW i \in 1 .. l + 1, NEW j \in 1 .. l + 1, r[i] = r[j] PROVE i = j
  <2>1. (i \in 1 .. l \/ i = l + 1) /\ (j \in 1 .. l \/ j = l + 1)
    BY <1>3
  <2>2. \A a, b \in 1 .. l : p[a] = p[b] => a = b
    BY DEF Walk
  <2> HIDE DEF l
  <2> QED
    BY <1>2, <1>3, <1>5, <2>1, <2>2
<1>6. ASSUME NEW i \in 1 .. l PROVE {r[i], r[i + 1]} \in BPLink
  <2>1. CASE i = l
    BY <1>2, <1>3, <2>1
  <2>2. CASE i # l
    <3>1. i \in 1 .. l - 1 /\ i + 1 \in 1 .. l
      BY <1>3, <2>2
    <3>2. {p[i], p[i + 1]} \in BPLink
      BY <3>1 DEF Walk
    <3> QED
      BY <1>2, <3>1, <3>2
  <2> QED
    BY <2>1, <2>2
<1>7. Len(r) - 1 = l /\ Len(r) >= 1
  BY <1>2, <1>3
<1>8. Walk(r)
  BY <1>2, <1>4, <1>5, <1>6, <1>7 DEF Walk
<1> QED
  BY <1>2, <1>8 DEF r

\* s is the first k nodes of p.
Begins(s, p, k) == Len(s) = k /\ \A i \in 1 .. k : s[i] = p[i]

\* A walk that has followed a path for k nodes and takes the next one follows it for k + 1.
LEMMA BeginsGrows ==
    ASSUME NEW s \in Seq(BPNode), NEW p \in Seq(BPNode), NEW k \in 1 .. Len(p) - 1, Begins(s, p, k)
    PROVE  Begins(Append(s, p[k + 1]), p, k + 1)
<1>1. Len(p) \in Nat /\ k \in Nat /\ Len(s) = k /\ \A i \in 1 .. k : s[i] = p[i]
  BY DEF Begins
<1> DEFINE r == Append(s, p[k + 1])
<1>2. Len(r) = k + 1 /\ r[k + 1] = p[k + 1] /\ \A i \in 1 .. k : r[i] = s[i]
  <2>1. p[k + 1] \in BPNode
    BY <1>1
  <2> QED
    BY <1>1, <2>1
<1> HIDE DEF r
<1>3. ASSUME NEW i \in 1 .. k + 1 PROVE r[i] = p[i]
  <2>1. i = k + 1 \/ i \in 1 .. k
    BY <1>1
  <2> QED
    BY <1>1, <1>2, <2>1
<1> QED
  BY <1>2, <1>3 DEF Begins, r

Entry == [seq : 1 .. MaxQueries, path : Seq(BPNode), pending : BOOLEAN]

\* What BPMetricFlood keeps is a way to the node that keeps it.
SeenFits(n, s) ==
    /\ s \in Seq(Entry) /\ Len(s) <= BPSeenMax
    /\ \A i \in 1 .. Len(s) : Walk(s[i].path) /\ s[i].path[Len(s[i].path)] = n

QueryCopy == [type : {"QUERY"}, seq : 1 .. MaxQueries, path : Seq(BPNode), to : BPNode]
Returning == [type : {"REPLY"}, seq : 1 .. MaxQueries, path : LoopFree, to : Nat]

\* the nodes of path p that are after position k and before the target
Behind(p, k) == {p[j] : j \in k + 1 .. Len(p) - 1}

Flies(c, Q) ==
    \/ c \in QueryCopy /\ Walk(c.path) /\ {c.path[Len(c.path)], c.to} \in BPLink
    \/ c \in Returning /\ c.to \in 1 .. Len(c.path) - 1 /\ Behind(c.path, c.to) \subseteq Q

Asks(c, q, p) ==
    c.type = "QUERY" /\ c.seq = q /\ \E k \in 1 .. Len(p) - 1 : Begins(c.path, p, k) /\ c.to = p[k + 1]
Returns(c, q, p) == c.type = "REPLY" /\ c.seq = q /\ c.path = p
Waits(e, q, p, k) == e.pending /\ e.seq = q /\ Begins(e.path, p, k)

UnderWay(q, p) ==
    \/ p \in bpAnswers[q]
    \/ \E c \in bpAir : Asks(c, q, p) \/ Returns(c, q, p)
    \/ \E k \in 1 .. Len(p) - 1 : \E i \in 1 .. Len(bpSeen[p[k]]) : Waits(bpSeen[p[k]][i], q, p, k)

BPFloodInv ==
    /\ bpAsked \in 0 .. MaxQueries /\ bpQueues \subseteq BPNode
    /\ bpDropped \subseteq 1 .. MaxQueries /\ bpLost \subseteq 1 .. MaxQueries
    /\ DOMAIN bpSeen = BPNode /\ \A n \in BPNode : SeenFits(n, bpSeen[n])
    /\ \A c \in bpAir : Flies(c, bpQueues)
    /\ bpAnswers \in [1 .. MaxQueries -> SUBSET LoopFree]
    /\ \A q \in 1 .. MaxQueries : \A p \in bpAnswers[q] : Behind(p, 1) \subseteq bpQueues
    /\ \A q \in (1 .. bpAsked) \ (bpLost \cup bpDropped) : \A p \in LoopFree : UnderWay(q, p)

\* The flood starts within its invariant.
LEMMA BPFloodStart == BPFloodInit => BPFloodInv
<1> SUFFICES ASSUME BPFloodInit PROVE BPFloodInv
  OBVIOUS
<1>1. bpAsked = 0 /\ bpAsked \in 0 .. MaxQueries /\ bpQueues \subseteq BPNode /\ bpDropped = {} /\ bpLost = {} /\ bpAir = {}
      /\ bpAnswers \in [1 .. MaxQueries -> SUBSET LoopFree] /\ \A q \in 1 .. MaxQueries : bpAnswers[q] = {}
  BY BPFloodAssumption DEF BPFloodInit
<1>2. ASSUME NEW n \in BPNode PROVE SeenFits(n, bpSeen[n])
  <2>1. bpSeen[n] = <<>>
    BY DEF BPFloodInit
  <2>2. Len(bpSeen[n]) = 0 /\ bpSeen[n] \in Seq(Entry)
    BY <2>1
  <2> QED
    BY <2>2, BPFloodAssumption DEF SeenFits
<1>3. DOMAIN bpSeen = BPNode
  BY DEF BPFloodInit
<1>4. 1 .. bpAsked = {}
  BY <1>1
<1> QED
  BY <1>1, <1>2, <1>3, <1>4 DEF BPFloodInv

\* The copies of a query go along its way to all neighbors, also to the next node of
\* each path that begins like it.
LEMMA QueryCopies ==
    ASSUME NEW n \in BPNode, NEW q \in 1 .. MaxQueries, NEW w, Walk(w), w[Len(w)] = n, NEW Q
    PROVE  /\ \A c \in BPQuery(n, q, w) : Flies(c, Q)
           /\ \A p \in LoopFree : \A k \in 1 .. Len(p) - 1 :
                 Begins(w, p, k) => \E c \in BPQuery(n, q, w) : Asks(c, q, p)
<1>1. ASSUME NEW c \in BPQuery(n, q, w) PROVE Flies(c, Q)
  <2>1. PICK m \in BPNode : {n, m} \in BPLink /\ c = [type |-> "QUERY", seq |-> q, path |-> w, to |-> m]
    BY DEF BPQuery
  <2>2. w \in Seq(BPNode)
    BY DEF Walk
  <2>3. c \in QueryCopy /\ c.path = w /\ c.to = m
    BY <2>1, <2>2 DEF QueryCopy
  <2> QED
    BY <2>1, <2>3 DEF Flies
<1>2. ASSUME NEW p \in LoopFree, NEW k \in 1 .. Len(p) - 1, Begins(w, p, k)
      PROVE  \E c \in BPQuery(n, q, w) : Asks(c, q, p)
  <2>1. Walk(p)
    BY LoopFreeWalks
  <2>2. p \in Seq(BPNode) /\ Len(p) \in Nat
    BY <2>1 DEF Walk
  <2> DEFINE m == p[k + 1]
             c == [type |-> "QUERY", seq |-> q, path |-> w, to |-> m]
  <2>3. m \in BPNode /\ k \in 1 .. k
    BY <2>2
  <2>4. w[k] = p[k] /\ Len(w) = k
    BY <1>2, <2>3 DEF Begins
  <2>5. {n, m} \in BPLink
    BY <2>1, <2>4 DEF Walk
  <2>6. c \in BPQuery(n, q, w)
    BY <2>3, <2>5 DEF BPQuery
  <2>7. c.type = "QUERY" /\ c.seq = q /\ c.path = w /\ c.to = p[k + 1]
    OBVIOUS
  <2> HIDE DEF c, m
  <2>8. Asks(c, q, p)
    BY <1>2, <2>7 DEF Asks
  <2> QED
    BY <2>6, <2>8
<1> QED
  BY <1>1, <1>2

\* A query of the querier keeps the invariant.
LEMMA BPQuerierStep == ASSUME BPFloodInv, BP_send_query PROVE BPFloodInv'
<1> DEFINE q0 == bpAsked + 1
           N == BPQuery(BPSource, q0, <<BPSource>>)
<1>1. /\ bpAsked \in Nat /\ q0 \in 1 .. MaxQueries /\ bpAsked' = q0 /\ bpAir' = bpAir \cup N
      /\ UNCHANGED <<bpSeen, bpQueues, bpAnswers, bpDropped, bpLost>>
  BY BPFloodAssumption DEF BPFloodInv, BP_send_query
<1>2. BPSource \in BPNode
  BY BPFloodAssumption
<1> DEFINE w == <<BPSource>>
<1>3. w \in Seq(BPNode) /\ Len(w) = 1 /\ w[1] = BPSource
  BY <1>2
<1> HIDE DEF w
<1>4. Walk(w) /\ w[Len(w)] = BPSource
  BY <1>3 DEF Walk
<1>5. N = BPQuery(BPSource, q0, w)
  BY DEF w
<1> HIDE DEF N, q0
<1>6. \A c \in bpAir' : Flies(c, bpQueues)
  BY <1>1, <1>2, <1>4, <1>5, QueryCopies DEF BPFloodInv
<1>7. ASSUME NEW q \in (1 .. bpAsked') \ (bpLost \cup bpDropped), NEW p \in LoopFree PROVE UnderWay(q, p)'
  <2>1. CASE q = q0
    <3>1. Walk(p) /\ p[Len(p)] = BPTarget
      BY LoopFreeWalks
    <3>2. p[1] = BPSource /\ Len(p) \in Nat /\ Len(p) >= 1 /\ Len(p) # 1
      BY <3>1, BPFloodAssumption DEF Walk
    <3>3. 1 \in 1 .. Len(p) - 1 /\ Begins(w, p, 1)
      <4>1. 1 \in 1 .. Len(p) - 1
        <5> DEFINE l == Len(p)
        <5>1. l \in Nat /\ l >= 1 /\ l # 1
          BY <3>2
        <5> HIDE DEF l
        <5>2. 1 \in 1 .. l - 1
          BY <5>1
        <5> QED
          BY <5>2 DEF l
      <4>2. \A i \in 1 .. 1 : w[i] = p[i]
        BY <1>3, <3>2
      <4> QED
        BY <1>3, <4>1, <4>2 DEF Begins
    <3>4. \E c \in N : Asks(c, q, p)
      BY <1>1, <1>2, <1>4, <1>5, <2>1, <3>3, QueryCopies
    <3> QED
      BY <1>1, <3>4 DEF UnderWay
  <2>2. CASE q # q0
    <3>1. q \in 1 .. bpAsked
      BY <1>1, <2>2 DEF q0
    <3>2. UnderWay(q, p)
      BY <3>1 DEF BPFloodInv
    <3> QED
      BY <1>1, <3>2 DEF UnderWay
  <2> QED
    BY <2>1, <2>2
<1>8. bpAsked' \in 0 .. MaxQueries
  BY <1>1
<1> QED
  BY <1>1, <1>6, <1>7, <1>8 DEF BPFloodInv

\* bpSeen and bpAir after an entry of n was forwarded.
LEMMA BPForwardStep == ASSUME BPFloodInv, NEW n \in BPNode, BP_forward_query(n) PROVE BPFloodInv'
<1>1. PICK i0 \in 1 .. Len(bpSeen[n]) :
         /\ bpSeen[n][i0].pending
         /\ bpSeen' = [bpSeen EXCEPT ![n][i0].pending = FALSE]
         /\ bpAir' = bpAir \cup BPQuery(n, bpSeen[n][i0].seq, bpSeen[n][i0].path)
         /\ UNCHANGED <<bpAsked, bpQueues, bpAnswers, bpDropped, bpLost>>
  BY DEF BP_forward_query
<1> DEFINE s == bpSeen[n]
           e == s[i0]
           t == [s EXCEPT ![i0] = [e EXCEPT !.pending = FALSE]]
           N == BPQuery(n, e.seq, e.path)
<1>2. SeenFits(n, s) /\ DOMAIN bpSeen = BPNode
  BY DEF BPFloodInv
<1>3. s \in Seq(Entry) /\ Walk(e.path) /\ e.path[Len(e.path)] = n /\ Len(s) \in Nat
  BY <1>2 DEF SeenFits
<1>4. e \in Entry /\ DOMAIN s = 1 .. Len(s)
  BY <1>3
<1>5. bpSeen' = [bpSeen EXCEPT ![n] = t] /\ bpAir' = bpAir \cup N
  BY <1>1
<1> HIDE DEF s, e
<1> DEFINE f == [e EXCEPT !.pending = FALSE]
<1>6. f \in Entry /\ f.path = e.path /\ f.seq = e.seq /\ ~f.pending
  BY <1>4 DEF Entry
<1> HIDE DEF f
<1>7. t \in Seq(Entry) /\ Len(t) = Len(s) /\ t[i0] = f /\ \A i \in 1 .. Len(s) : i # i0 => t[i] = s[i]
  <2>1. t = [s EXCEPT ![i0] = f] /\ i0 \in 1 .. Len(s)
    BY DEF f, s
  <2> HIDE DEF t
  <2> QED
    BY <1>3, <1>4, <1>6, <2>1
<1> HIDE DEF t, N
<1>8. DOMAIN bpSeen' = BPNode /\ bpSeen'[n] = t /\ \A m \in BPNode \ {n} : bpSeen'[m] = bpSeen[m]
  BY <1>2, <1>5
<1>9. SeenFits(n, t)
  <2>1. ASSUME NEW i \in 1 .. Len(t) PROVE Walk(t[i].path) /\ t[i].path[Len(t[i].path)] = n
    <3>1. CASE i = i0
      BY <1>3, <1>6, <1>7, <3>1
    <3>2. CASE i # i0
      BY <1>2, <1>7, <3>2 DEF SeenFits
    <3> QED
      BY <3>1, <3>2
  <2> QED
    BY <1>2, <1>7, <2>1 DEF SeenFits
<1>10. \A m \in BPNode : SeenFits(m, bpSeen'[m])
  BY <1>8, <1>9 DEF BPFloodInv
<1>11. e.seq \in 1 .. MaxQueries
  BY <1>4 DEF Entry
<1>12. \A c \in bpAir' : Flies(c, bpQueues)
  BY <1>3, <1>5, <1>11, QueryCopies DEF BPFloodInv, N
<1>13. ASSUME NEW q \in (1 .. bpAsked) \ (bpLost \cup bpDropped), NEW p \in LoopFree PROVE UnderWay(q, p)'
  <2>1. UnderWay(q, p)
    BY DEF BPFloodInv
  <2>2. CASE p \in bpAnswers[q] \/ \E c \in bpAir : Asks(c, q, p) \/ Returns(c, q, p)
    BY <1>1, <1>5, <2>2 DEF UnderWay
  <2>3. ASSUME NEW k \in 1 .. Len(p) - 1, NEW i \in 1 .. Len(bpSeen[p[k]]), Waits(bpSeen[p[k]][i], q, p, k)
        PROVE  UnderWay(q, p)'
    <3>1. p[k] \in BPNode
      <4>1. p \in Seq(BPNode)
        BY LoopFreeWalks DEF Walk
      <4> QED
        BY <4>1
    <3>2. CASE p[k] = n /\ i = i0
      <4>1. q = e.seq /\ Begins(e.path, p, k)
        BY <2>3, <3>2 DEF Waits, s, e
      <4>2. \E c \in N : Asks(c, q, p)
        BY <1>3, <1>11, <4>1, QueryCopies DEF N
      <4> QED
        BY <1>5, <4>2 DEF UnderWay
    <3>3. CASE p[k] # n
      <4>1. bpSeen'[p[k]] = bpSeen[p[k]]
        BY <1>8, <3>1, <3>3
      <4> QED
        BY <2>3, <4>1 DEF UnderWay
    <3>4. CASE p[k] = n /\ i # i0
      <4>1. bpSeen'[p[k]] = t /\ i \in 1 .. Len(t) /\ t[i] = bpSeen[p[k]][i]
        BY <1>7, <1>8, <3>4 DEF s
      <4> QED
        BY <2>3, <4>1 DEF UnderWay
    <3> QED
      BY <3>2, <3>3, <3>4
  <2> QED
    BY <2>1, <2>2, <2>3 DEF UnderWay
<1> QED
  BY <1>1, <1>8, <1>10, <1>12, <1>13 DEF BPFloodInv

\* A reply that is passed on, or has arrived.
LEMMA BPReplyStep ==
    ASSUME BPFloodInv, NEW c0 \in bpAir, BP_forward_reply(c0) \/ BP_got_reply(c0) \/ BP_lose(c0)
    PROVE  BPFloodInv'
<1>1. /\ bpAsked \in 0 .. MaxQueries /\ bpQueues \subseteq BPNode
      /\ bpDropped \subseteq 1 .. MaxQueries /\ bpLost \subseteq 1 .. MaxQueries
      /\ DOMAIN bpSeen = BPNode /\ (\A n \in BPNode : SeenFits(n, bpSeen[n]))
      /\ (\A c \in bpAir : Flies(c, bpQueues))
      /\ bpAnswers \in [1 .. MaxQueries -> SUBSET LoopFree]
      /\ (\A q \in 1 .. MaxQueries : \A p \in bpAnswers[q] : Behind(p, 1) \subseteq bpQueues)
      /\ \A q \in (1 .. bpAsked) \ (bpLost \cup bpDropped) : \A p \in LoopFree : UnderWay(q, p)
  BY DEF BPFloodInv
<1>2. Flies(c0, bpQueues)
  BY <1>1
<1>3. c0.type = "REPLY" =>
        /\ c0 \in Returning /\ c0.to \in 1 .. Len(c0.path) - 1 /\ Behind(c0.path, c0.to) \subseteq bpQueues
        /\ c0.seq \in 1 .. MaxQueries /\ c0.path \in LoopFree /\ c0.path \in Seq(BPNode)
  <2>1. c0 \in QueryCopy => c0.type # "REPLY"
    BY DEF QueryCopy
  <2>2. c0 \in Returning => c0.seq \in 1 .. MaxQueries /\ c0.path \in LoopFree
    BY DEF Returning
  <2> QED
    BY <1>2, <2>1, <2>2, LoopFreeWalks DEF Flies, Walk
<1>4. c0.seq \in 1 .. MaxQueries
  BY <1>2 DEF Flies, QueryCopy, Returning
<1>5. CASE BP_forward_reply(c0)
  <2> DEFINE b == c0.to - 1
             r == BPReply(c0.seq, c0.path, b)
             n == c0.path[c0.to]
  <2>1. /\ c0.type = "REPLY" /\ c0.to > 1 /\ bpAir' = (bpAir \ {c0}) \cup {r} /\ bpQueues' = bpQueues \cup {n}
        /\ UNCHANGED <<bpAsked, bpSeen, bpAnswers, bpDropped, bpLost>>
    BY <1>5 DEF BP_forward_reply
  <2>2. Len(c0.path) \in Nat /\ c0.to \in 1 .. Len(c0.path) - 1 /\ n \in BPNode
    BY <1>3, <2>1
  <2>3. b \in Nat /\ b \in 1 .. Len(c0.path) - 1 /\ b + 1 = c0.to
    BY <2>1, <2>2
  <2> HIDE DEF b
  <2>4. r \in Returning /\ r.type = "REPLY" /\ r.seq = c0.seq /\ r.path = c0.path /\ r.to = b
    BY <1>3, <2>1, <2>3 DEF Returning, BPReply
  <2> HIDE DEF r
  <2>5. Behind(c0.path, b) \subseteq bpQueues \cup {n}
    <3> SUFFICES ASSUME NEW j \in b + 1 .. Len(c0.path) - 1 PROVE c0.path[j] \in bpQueues \cup {n}
      BY DEF Behind
    <3>1. j = c0.to \/ j \in c0.to + 1 .. Len(c0.path) - 1
      BY <2>2, <2>3
    <3> QED
      BY <1>3, <2>1, <3>1 DEF Behind
  <2>6. Flies(r, bpQueues')
    BY <2>1, <2>3, <2>4, <2>5 DEF Flies
  <2>7. \A c \in bpAir' : Flies(c, bpQueues')
    BY <1>1, <2>1, <2>6 DEF Flies
  <2>8. \A q \in 1 .. MaxQueries : \A p \in bpAnswers[q] : Behind(p, 1) \subseteq bpQueues'
    BY <1>1, <2>1
  <2>9. ASSUME NEW q \in (1 .. bpAsked) \ (bpLost \cup bpDropped), NEW p \in LoopFree PROVE UnderWay(q, p)'
    <3>1. UnderWay(q, p)
      BY <1>1
    <3>2. CASE \E c \in bpAir : Asks(c, q, p) \/ Returns(c, q, p)
      <4>1. PICK c \in bpAir : Asks(c, q, p) \/ Returns(c, q, p)
        BY <3>2
      <4>2. CASE c = c0
        <5>1. Returns(r, q, p)
          BY <2>1, <2>4, <4>1, <4>2 DEF Asks, Returns
        <5> QED
          BY <2>1, <5>1 DEF UnderWay
      <4>3. CASE c # c0
        BY <2>1, <4>1, <4>3 DEF UnderWay
      <4> QED
        BY <4>2, <4>3
    <3> QED
      BY <2>1, <3>1, <3>2 DEF UnderWay
  <2>10. bpQueues' \subseteq BPNode
    BY <1>1, <2>1, <2>2
  <2> QED
    BY <1>1, <2>1, <2>7, <2>8, <2>9, <2>10 DEF BPFloodInv
<1>6. CASE BP_got_reply(c0)
  <2> DEFINE q0 == c0.seq
             A == bpAnswers[q0] \cup {c0.path}
  <2>1. /\ c0.type = "REPLY" /\ c0.to = 1 /\ bpAir' = bpAir \ {c0}
        /\ bpAnswers' = [bpAnswers EXCEPT ![q0] = A]
        /\ UNCHANGED <<bpAsked, bpSeen, bpQueues, bpDropped, bpLost>>
    BY <1>6 DEF BP_got_reply
  <2>2. q0 \in 1 .. MaxQueries /\ A \in SUBSET LoopFree /\ Behind(c0.path, 1) \subseteq bpQueues
    BY <1>1, <1>3, <2>1
  <2>3. c0.path \in A /\ bpAnswers[q0] \subseteq A /\ \A p \in A : p = c0.path \/ p \in bpAnswers[q0]
    OBVIOUS
  <2> HIDE DEF A, q0
  <2>4. bpAnswers' \in [1 .. MaxQueries -> SUBSET LoopFree] /\ bpAnswers'[q0] = A
        /\ \A q \in 1 .. MaxQueries : q # q0 => bpAnswers'[q] = bpAnswers[q]
    BY <1>1, <2>1, <2>2
  <2>5. \A q \in 1 .. MaxQueries : \A p \in bpAnswers'[q] : Behind(p, 1) \subseteq bpQueues
    BY <1>1, <2>2, <2>3, <2>4
  <2>6. ASSUME NEW q \in (1 .. bpAsked) \ (bpLost \cup bpDropped), NEW p \in LoopFree PROVE UnderWay(q, p)'
    <3>1. UnderWay(q, p) /\ q \in 1 .. MaxQueries
      <4>1. bpAsked \in 0 .. MaxQueries /\ MaxQueries \in Nat /\ q \in 1 .. bpAsked
        BY <1>1, BPFloodAssumption
      <4>2. q \in 1 .. MaxQueries
        BY <4>1
      <4> QED
        BY <1>1, <4>2
    <3>2. CASE \E c \in bpAir : Asks(c, q, p) \/ Returns(c, q, p)
      <4>1. PICK c \in bpAir : Asks(c, q, p) \/ Returns(c, q, p)
        BY <3>2
      <4>2. CASE c = c0
        <5>1. p \in bpAnswers'[q]
          BY <2>1, <2>3, <2>4, <4>1, <4>2 DEF Asks, Returns, q0
        <5> QED
          BY <5>1 DEF UnderWay
      <4>3. CASE c # c0
        BY <2>1, <4>1, <4>3 DEF UnderWay
      <4> QED
        BY <4>2, <4>3
    <3>3. CASE p \in bpAnswers[q]
      BY <2>3, <2>4, <3>1, <3>3 DEF UnderWay
    <3> QED
      BY <2>1, <3>1, <3>2, <3>3 DEF UnderWay
  <2> QED
    BY <1>1, <2>1, <2>4, <2>5, <2>6 DEF BPFloodInv
<1>7. CASE BP_lose(c0)
  <2>1. /\ bpAir' = bpAir \ {c0} /\ bpLost' = bpLost \cup {c0.seq}
        /\ UNCHANGED <<bpAsked, bpSeen, bpQueues, bpAnswers, bpDropped>>
    BY <1>7 DEF BP_lose
  <2>2. bpLost' \subseteq 1 .. MaxQueries
    BY <1>1, <1>4, <2>1
  <2>3. ASSUME NEW q \in (1 .. bpAsked) \ (bpLost' \cup bpDropped), NEW p \in LoopFree PROVE UnderWay(q, p)'
    <3>1. UnderWay(q, p) /\ q # c0.seq
      BY <1>1, <2>1
    <3>2. \A c \in bpAir : Asks(c, q, p) \/ Returns(c, q, p) => c \in bpAir'
      BY <2>1, <3>1 DEF Asks, Returns
    <3> QED
      BY <2>1, <3>1, <3>2 DEF UnderWay
  <2> QED
    BY <1>1, <2>1, <2>2, <2>3 DEF BPFloodInv
<1> QED
  BY <1>5, <1>6, <1>7

\* The handler `clear' empties the table of one node: a path goes on with all that is
\* elsewhere, and the queries that waited there are dropped ones.
LEMMA BPClearStep == ASSUME BPFloodInv, NEW n \in BPNode, BPMetricFlood_clear(n) PROVE BPFloodInv'
<1> DEFINE W == {e \in ToSet(bpSeen[n]) : e.pending}
           D == {e.seq : e \in W}
<1>1. /\ bpSeen' = [bpSeen EXCEPT ![n] = <<>>] /\ bpDropped' = bpDropped \cup D
      /\ UNCHANGED <<bpAsked, bpQueues, bpAir, bpAnswers, bpLost>>
  BY DEF BPMetricFlood_clear
<1>2. bpSeen[n] \in Seq(Entry) /\ DOMAIN bpSeen = BPNode
  BY DEF BPFloodInv, SeenFits
<1>3. \A i \in 1 .. Len(bpSeen[n]) : bpSeen[n][i] \in Entry /\ bpSeen[n][i] \in ToSet(bpSeen[n])
  BY <1>2 DEF ToSet
<1>4. W \subseteq Entry
  BY <1>2 DEF ToSet
<1>5. bpDropped' \subseteq 1 .. MaxQueries
  BY <1>1, <1>4 DEF BPFloodInv, Entry
<1>6. bpSeen'[n] = <<>> /\ DOMAIN bpSeen' = BPNode /\ \A m \in BPNode : m # n => bpSeen'[m] = bpSeen[m]
  BY <1>1, <1>2
<1>7. ASSUME NEW m \in BPNode PROVE SeenFits(m, bpSeen'[m])
  <2>1. CASE m = n
    <3>1. bpSeen'[m] = <<>> /\ Len(bpSeen'[m]) = 0 /\ bpSeen'[m] \in Seq(Entry)
      BY <1>6, <2>1
    <3> QED
      BY <3>1, BPFloodAssumption DEF SeenFits
  <2>2. CASE m # n
    BY <1>6, <2>2 DEF BPFloodInv
  <2> QED
    BY <2>1, <2>2
<1>8. ASSUME NEW q \in (1 .. bpAsked) \ (bpLost \cup bpDropped'), NEW p \in LoopFree PROVE UnderWay(q, p)'
  <2>1. UnderWay(q, p) /\ q \notin D
    BY <1>1, <1>8 DEF BPFloodInv
  <2>2. ASSUME NEW k \in 1 .. Len(p) - 1, NEW i \in 1 .. Len(bpSeen[p[k]]),
               Waits(bpSeen[p[k]][i], q, p, k)
        PROVE  bpSeen'[p[k]] = bpSeen[p[k]]
    <3>1. p[k] \in BPNode
      BY LoopFreeWalks DEF Walk
    <3>2. CASE p[k] = n
      <4>1. bpSeen[n][i] \in W /\ bpSeen[n][i].seq = q
        BY <1>3, <2>2, <3>2 DEF Waits
      <4> QED
        BY <2>1, <4>1
    <3> QED
      BY <1>6, <3>1, <3>2
  <2>3. CASE \E k \in 1 .. Len(p) - 1 : \E i \in 1 .. Len(bpSeen[p[k]]) : Waits(bpSeen[p[k]][i], q, p, k)
    BY <2>2, <2>3 DEF UnderWay
  <2> QED
    BY <1>1, <2>1, <2>3 DEF UnderWay
<1> QED
  BY <1>1, <1>5, <1>6, <1>7, <1>8 DEF BPFloodInv

\* r is the list s of n with the entry e added, for which the oldest made room.
Full(s) == Len(s) >= BPSeenMax
EntryAdded(n, s, e, r) ==
    /\ SeenFits(n, r)
    /\ \E i \in 1 .. Len(r) : r[i] = e
    /\ \A j \in 1 .. Len(s) : (Full(s) /\ j = 1) \/ \E i \in 1 .. Len(r) : r[i] = s[j]

\* A new entry, for which the oldest may be dropped, keeps what is known of a table.
LEMMA SeenGrows ==
    ASSUME NEW n \in BPNode, NEW s, SeenFits(n, s), NEW e \in Entry,
           Walk(e.path), e.path[Len(e.path)] = n,
           NEW r, r = Append(IF Full(s) THEN Tail(s) ELSE s, e)
    PROVE  EntryAdded(n, s, e, r)
<1>1. /\ s \in Seq(Entry) /\ Len(s) \in Nat /\ Len(s) <= BPSeenMax /\ BPSeenMax \in Nat \ {0}
      /\ (Full(s) <=> Len(s) >= BPSeenMax)
  BY BPFloodAssumption DEF SeenFits, Full
<1> DEFINE g == IF Full(s) THEN 1 ELSE 0
           u == IF Full(s) THEN Tail(s) ELSE s
<1>2. g \in {0, 1} /\ (Full(s) => g = 1) /\ (~Full(s) => g = 0)
  OBVIOUS
<1> HIDE DEF g
<1>3. /\ u \in Seq(Entry) /\ Len(u) = Len(s) - g /\ Len(u) < BPSeenMax
      /\ \A i \in 1 .. Len(s) - g : u[i] = s[i + g] /\ i + g \in 1 .. Len(s)
  <2>1. CASE Full(s)
    <3>1. s # <<>>
      BY <1>1, <2>1
    <3>2. /\ Tail(s) \in Seq(Entry) /\ Len(Tail(s)) = Len(s) - 1
          /\ \A i \in 1 .. Len(s) - 1 : Tail(s)[i] = s[i + 1] /\ i + 1 \in 1 .. Len(s)
      BY <1>1, <3>1
    <3>3. u = Tail(s) /\ g = 1
      BY <1>2, <2>1
    <3> HIDE DEF u
    <3> QED
      BY <1>1, <3>2, <3>3
  <2>2. CASE ~Full(s)
    <3>1. u = s /\ g = 0
      BY <1>2, <2>2
    <3> HIDE DEF u
    <3> QED
      BY <1>1, <2>2, <3>1
  <2> QED
    BY <2>1, <2>2
<1>4. r = Append(u, e)
  OBVIOUS
<1> HIDE DEF u
<1>5. /\ r \in Seq(Entry) /\ Len(r) = Len(u) + 1 /\ r[Len(u) + 1] = e /\ Len(u) \in Nat
      /\ \A i \in 1 .. Len(u) : r[i] = u[i]
  <2>1. \A a \in Seq(Entry) : /\ Append(a, e) \in Seq(Entry) /\ Len(Append(a, e)) = Len(a) + 1
                               /\ Append(a, e)[Len(a) + 1] = e /\ Len(a) \in Nat
                               /\ \A i \in 1 .. Len(a) : Append(a, e)[i] = a[i]
    OBVIOUS
  <2> QED
    BY <1>3, <1>4, <2>1
<1>6. ASSUME NEW i \in 1 .. Len(r) PROVE Walk(r[i].path) /\ r[i].path[Len(r[i].path)] = n
  <2>1. i = Len(u) + 1 \/ i \in 1 .. Len(s) - g
    BY <1>3, <1>5
  <2>2. CASE i = Len(u) + 1
    BY <1>5, <2>2
  <2>3. CASE i \in 1 .. Len(s) - g
    <3>1. r[i] = s[i + g] /\ i + g \in 1 .. Len(s)
      BY <1>3, <1>5, <2>3
    <3> QED
      BY <3>1 DEF SeenFits
  <2> QED
    BY <2>1, <2>2, <2>3
<1>7. SeenFits(n, r)
  <2>1. Len(r) <= BPSeenMax
    BY <1>1, <1>3, <1>5
  <2> QED
    BY <1>5, <1>6, <2>1 DEF SeenFits
<1>8. Len(u) + 1 \in 1 .. Len(r)
  BY <1>5
<1>9. ASSUME NEW j \in 1 .. Len(s), ~(Full(s) /\ j = 1) PROVE \E i \in 1 .. Len(r) : r[i] = s[j]
  <2>1. j - g \in 1 .. Len(u) /\ j - g \in 1 .. Len(s) - g /\ (j - g) + g = j /\ j - g \in 1 .. Len(r)
    BY <1>1, <1>2, <1>3, <1>5, <1>9
  <2>2. r[j - g] = u[j - g] /\ u[j - g] = s[(j - g) + g]
    BY <1>3, <1>5, <2>1
  <2> QED
    BY <2>1, <2>2
<1> QED
  BY <1>5, <1>7, <1>8, <1>9 DEF EntryAdded

\* process_flood(): a copy that is refused is not on its way along a path without a
\* circle; any other lives on as an entry, or as the reply of the target.
LEMMA BPProcessStep ==
    ASSUME BPFloodInv, NEW c0 \in bpAir, BP_process_flood(c0)
    PROVE  BPFloodInv'
<1> DEFINE n == c0.to
           w == c0.path
<1>1. /\ bpAsked \in 0 .. MaxQueries /\ bpQueues \subseteq BPNode
      /\ bpDropped \subseteq 1 .. MaxQueries /\ bpLost \subseteq 1 .. MaxQueries
      /\ DOMAIN bpSeen = BPNode /\ (\A m \in BPNode : SeenFits(m, bpSeen[m]))
      /\ (\A c \in bpAir : Flies(c, bpQueues))
      /\ bpAnswers \in [1 .. MaxQueries -> SUBSET LoopFree]
      /\ (\A q \in 1 .. MaxQueries : \A p \in bpAnswers[q] : Behind(p, 1) \subseteq bpQueues)
      /\ \A q \in (1 .. bpAsked) \ (bpLost \cup bpDropped) : \A p \in LoopFree : UnderWay(q, p)
  BY DEF BPFloodInv
<1>2. c0.type = "QUERY" /\ UNCHANGED <<bpAsked, bpQueues, bpAnswers, bpLost>>
  BY DEF BP_process_flood
<1>3. /\ c0 \in QueryCopy /\ Walk(w) /\ {w[Len(w)], n} \in BPLink
      /\ c0.seq \in 1 .. MaxQueries /\ n \in BPNode /\ w \in Seq(BPNode)
  <2>1. Flies(c0, bpQueues) /\ c0 \notin Returning
    BY <1>1, <1>2 DEF Returning
  <2> QED
    BY <2>1 DEF Flies, QueryCopy
<1>4. ASSUME NEW q, NEW p \in LoopFree, Asks(c0, q, p)
      PROVE  /\ ~Refused(n, c0) /\ q = c0.seq
             /\ \E k \in 1 .. Len(p) - 1 : Begins(w, p, k) /\ n = p[k + 1]
  <2>1. PICK k \in 1 .. Len(p) - 1 : Begins(w, p, k) /\ n = p[k + 1]
    BY <1>4 DEF Asks
  <2>2. p \in Seq(BPNode) /\ Len(p) \in Nat /\ \A i, j \in 1 .. Len(p) : p[i] = p[j] => i = j
    BY LoopFreeWalks DEF Walk
  <2>3. DOMAIN w = 1 .. k /\ \A i \in 1 .. k : w[i] = p[i] /\ i \in 1 .. Len(p) /\ i # k + 1
    BY <1>3, <2>1, <2>2 DEF Begins
  <2>4. k + 1 \in 1 .. Len(p)
    BY <2>2
  <2>5. n \notin ToSet(w)
    BY <2>1, <2>2, <2>3, <2>4 DEF ToSet
  <2> QED
    BY <1>4, <2>1, <2>5 DEF Refused, Asks
<1>5. CASE Refused(n, c0)
  <2>1. bpAir' = bpAir \ {c0} /\ UNCHANGED <<bpSeen, bpDropped>>
    BY <1>5 DEF BP_process_flood
  <2>2. ASSUME NEW q \in (1 .. bpAsked) \ (bpLost \cup bpDropped), NEW p \in LoopFree PROVE UnderWay(q, p)'
    <3>1. UnderWay(q, p)
      BY <1>1
    <3>2. \A c \in bpAir : Asks(c, q, p) \/ Returns(c, q, p) => c \in bpAir'
      BY <1>2, <1>4, <1>5, <2>1 DEF Returns
    <3> QED
      BY <1>2, <2>1, <3>1, <3>2 DEF UnderWay
  <2> QED
    BY <1>1, <1>2, <2>1, <2>2 DEF BPFloodInv
<1>6. CASE ~Refused(n, c0)
  <2> DEFINE v == Append(w, n)
             s == bpSeen[n]
             b == n # BPTarget
             e == [seq |-> c0.seq, path |-> v, pending |-> b]
             r == Append(IF Full(s) THEN Tail(s) ELSE s, e)
             D == {o.seq : o \in {x \in Oldest(n) : x.pending}}
             R == IF n = BPTarget THEN BP_start_reply(c0) ELSE {}
  <2>1. b \in BOOLEAN
    OBVIOUS
  <2>2. Oldest(n) = (IF Full(s) THEN {s[1]} ELSE {})
    BY DEF Oldest, Full
  <2>3. bpDropped' = bpDropped \cup D /\ bpAir' = (bpAir \ {c0}) \cup R
    BY <1>6 DEF BP_process_flood
  <2>4. bpSeen' = [bpSeen EXCEPT ![n] = r]
    <3>1. bpSeen' = [bpSeen EXCEPT ![n] = Append(IF Oldest(n) = {} THEN bpSeen[n] ELSE Tail(bpSeen[n]), e)]
      BY <1>1, <1>3, <1>6 DEF BP_process_flood
    <3>2. Oldest(n) = {} <=> ~Full(s)
      BY <2>2
    <3> QED
      BY <3>1, <3>2
  <2>5. Walk(v) /\ v[Len(v)] = n /\ v \in Seq(BPNode) /\ Len(v) = Len(w) + 1
    <3>1. n \notin ToSet(w)
      BY <1>6 DEF Refused
    <3> QED
      BY <1>3, <3>1, WalkGrows DEF Walk
  <2> HIDE DEF v, b
  <2>6. e \in Entry /\ e.seq = c0.seq /\ e.path = v /\ e.pending = b
    BY <1>3, <2>1, <2>5 DEF Entry
  <2>8. SeenFits(n, s)
    BY <1>1, <1>3
  <2> HIDE DEF e, s
  <2>9. r = Append(IF Full(s) THEN Tail(s) ELSE s, e)
    OBVIOUS
  <2> HIDE DEF r
  <2>10. /\ SeenFits(n, r) /\ (\E i \in 1 .. Len(r) : r[i] = e)
         /\ \A j \in 1 .. Len(s) : (Full(s) /\ j = 1) \/ \E i \in 1 .. Len(r) : r[i] = s[j]
    <3>1. Walk(e.path) /\ e.path[Len(e.path)] = n
      BY <2>5, <2>6
    <3>2. EntryAdded(n, s, e, r)
      BY <1>3, <2>6, <2>8, <2>9, <3>1, SeenGrows
    <3> QED
      BY <3>2 DEF EntryAdded
  <2>11. DOMAIN bpSeen' = BPNode /\ bpSeen'[n] = r /\ \A m \in BPNode \ {n} : bpSeen'[m] = bpSeen[m]
    BY <1>1, <1>3, <2>4
  <2>12. \A m \in BPNode : SeenFits(m, bpSeen'[m])
    BY <1>1, <2>10, <2>11
  <2>13. \A o \in Oldest(n) : o.pending => o.seq \in D
    OBVIOUS
  <2>14. D \subseteq 1 .. MaxQueries
    <3> SUFFICES ASSUME NEW o \in Oldest(n) PROVE o.seq \in 1 .. MaxQueries
      OBVIOUS
    <3>1. Full(s) /\ o = s[1]
      BY <2>2
    <3>2. s \in Seq(Entry) /\ Len(s) >= BPSeenMax /\ BPSeenMax \in Nat \ {0}
      BY <2>8, <3>1, BPFloodAssumption DEF SeenFits, Full
    <3>3. s[1] \in Entry
      BY <3>2
    <3> QED
      BY <3>1, <3>3 DEF Entry
  <2> HIDE DEF D
  <2>15. ASSUME n = BPTarget
         PROVE  /\ R = {BPReply(c0.seq, v, Len(w))} /\ v \in LoopFree
                /\ Flies(BPReply(c0.seq, v, Len(w)), bpQueues)
    <3>1. R = {BPReply(c0.seq, v, Len(w))}
      BY <2>15 DEF BP_start_reply, v
    <3>2. v \in LoopFree
      BY <2>5, <2>15, LoopFreeWalks
    <3> DEFINE x == BPReply(c0.seq, v, Len(w))
    <3>3. Len(w) \in Nat /\ Len(w) >= 1
      BY <1>3 DEF Walk
    <3>4. x \in Returning /\ x.to = Len(w) /\ x.path = v
      BY <1>3, <3>2, <3>3 DEF Returning, BPReply
    <3> HIDE DEF x
    <3>5. Len(w) \in 1 .. Len(v) - 1 /\ Len(w) + 1 .. Len(v) - 1 = {}
      BY <2>5, <3>3
    <3>6. Behind(v, Len(w)) = {}
      BY <3>5 DEF Behind
    <3>7. Flies(x, bpQueues)
      BY <3>4, <3>5, <3>6 DEF Flies
    <3> QED
      BY <3>1, <3>2, <3>7 DEF x
  <2>16. \A c \in bpAir' : Flies(c, bpQueues)
    BY <1>1, <2>3, <2>15
  <2>17. ASSUME NEW q \in (1 .. bpAsked) \ (bpLost \cup bpDropped'), NEW p \in LoopFree PROVE UnderWay(q, p)'
    <3>1. UnderWay(q, p) /\ q \notin D
      BY <1>1, <2>3
    <3>2. p \in Seq(BPNode) /\ Walk(p) /\ p[Len(p)] = BPTarget /\ Len(p) \in Nat
      BY LoopFreeWalks DEF Walk
    <3>3. CASE p \in bpAnswers[q]
      BY <1>2, <3>3 DEF UnderWay
    <3>4. ASSUME NEW c \in bpAir, Asks(c, q, p) \/ Returns(c, q, p), c # c0
          PROVE  UnderWay(q, p)'
      BY <2>3, <3>4 DEF UnderWay
    <3>5. CASE Asks(c0, q, p) \/ Returns(c0, q, p)
      <4>1. Asks(c0, q, p)
        BY <1>2, <3>5 DEF Returns
      <4>2. q = c0.seq
        BY <1>4, <4>1
      <4>3. PICK k \in 1 .. Len(p) - 1 : Begins(w, p, k) /\ n = p[k + 1]
        BY <1>4, <4>1
      <4>4. Begins(v, p, k + 1)
        BY <1>3, <3>2, <4>3, BeginsGrows DEF v
      <4>5. CASE n = BPTarget
        <5>1. k + 1 = Len(p)
          <6>1. k + 1 \in 1 .. Len(p) /\ Len(p) \in 1 .. Len(p)
            BY <3>2
          <6>2. p[k + 1] = p[Len(p)]
            BY <3>2, <4>3, <4>5
          <6> QED
            BY <3>2, <6>1, <6>2 DEF Walk
        <5>2. v = p
          BY <2>5, <3>2, <4>4, <5>1 DEF Begins
        <5> DEFINE x == BPReply(c0.seq, v, Len(w))
        <5>3. Returns(x, q, p)
          BY <4>2, <5>2 DEF Returns, BPReply
        <5>4. x \in bpAir'
          BY <2>3, <2>15, <4>5
        <5> QED
          BY <5>3, <5>4 DEF UnderWay
      <4>6. CASE n # BPTarget
        <5>1. k + 1 \in 1 .. Len(p) - 1
          BY <3>2, <4>3, <4>6
        <5>2. b
          BY <4>6 DEF b
        <5>3. Waits(e, q, p, k + 1)
          BY <2>6, <4>2, <4>4, <5>2 DEF Waits
        <5>4. PICK i \in 1 .. Len(r) : r[i] = e
          BY <2>10
        <5>5. bpSeen'[p[k + 1]] = r
          BY <2>11, <4>3
        <5> QED
          BY <5>1, <5>3, <5>4, <5>5 DEF UnderWay
      <4> QED
        BY <4>5, <4>6
    <3>6. ASSUME NEW k \in 1 .. Len(p) - 1, NEW j \in 1 .. Len(bpSeen[p[k]]), Waits(bpSeen[p[k]][j], q, p, k)
          PROVE  UnderWay(q, p)'
      <4>1. p[k] \in BPNode
        BY <3>2
      <4>2. CASE p[k] # n
        <5>1. bpSeen'[p[k]] = bpSeen[p[k]]
          BY <2>11, <4>1, <4>2
        <5> QED
          BY <3>6, <5>1 DEF UnderWay
      <4>3. CASE p[k] = n
        <5>1. j \in 1 .. Len(s) /\ Waits(s[j], q, p, k)
          BY <3>6, <4>3 DEF s
        <5>2. ~(Full(s) /\ j = 1)
          BY <2>2, <2>13, <3>1, <5>1 DEF Waits
        <5>3. PICK i \in 1 .. Len(r) : r[i] = s[j]
          BY <2>10, <5>1, <5>2
        <5>4. bpSeen'[p[k]] = r
          BY <2>11, <4>3
        <5> QED
          BY <5>1, <5>3, <5>4 DEF UnderWay
      <4> QED
        BY <4>2, <4>3
    <3> QED
      BY <3>1, <3>3, <3>4, <3>5, <3>6 DEF UnderWay
  <2>18. bpDropped' \subseteq 1 .. MaxQueries
    BY <1>1, <2>3, <2>14
  <2> QED
    BY <1>1, <1>2, <2>11, <2>12, <2>16, <2>17, <2>18 DEF BPFloodInv
<1> QED
  BY <1>5, <1>6

\* Every step of the flood keeps the invariant.
LEMMA BPFloodStep == BPFloodInv /\ [BPFloodNext]_bpFloodVars => BPFloodInv'
<1> SUFFICES ASSUME BPFloodInv, [BPFloodNext]_bpFloodVars PROVE BPFloodInv'
  OBVIOUS
<1>1. ASSUME UNCHANGED <<bpAsked, bpSeen, bpQueues, bpAir, bpAnswers, bpDropped, bpLost>> PROVE BPFloodInv'
  BY <1>1 DEF BPFloodInv, UnderWay
<1>2. CASE UNCHANGED bpFloodVars
  BY <1>1, <1>2 DEF bpFloodVars
<1>3. CASE BPWaitOver \/ BPQuerier_push \/ BPQuerier_write_param
  BY <1>1, <1>3, BPQuerierStep DEF BPWaitOver, BPQuerier_push, BPQuerier_write_param
<1>4. CASE BPFloodNext
  BY <1>3, <1>4, BPForwardStep, BPReplyStep, BPProcessStep, BPClearStep DEF BPFloodNext
<1> QED
  BY <1>2, <1>4

\* The invariant implies the property of the run.
LEMMA BPFloodInvSound == BPFloodInv => BPFloodTypeOK /\ AllPathsAnswered
<1> SUFFICES ASSUME BPFloodInv PROVE BPFloodTypeOK /\ AllPathsAnswered
  OBVIOUS
<1>1. BPFloodTypeOK
  BY DEF BPFloodInv, BPFloodTypeOK, SeenFits
<1>2. bpAsked \in 0 .. MaxQueries /\ MaxQueries \in Nat /\ bpAnswers \in [1 .. MaxQueries -> SUBSET LoopFree]
  BY BPFloodAssumption DEF BPFloodInv
<1>3. ASSUME NEW q \in 1 .. bpAsked, Over(q), q \notin bpLost \cup bpDropped PROVE bpAnswers[q] = LoopFree
  <2>1. q \in 1 .. MaxQueries
    BY <1>2
  <2>2. bpAnswers[q] \subseteq LoopFree
    BY <1>2, <2>1
  <2>3. ASSUME NEW p \in LoopFree PROVE p \in bpAnswers[q]
    <3>1. UnderWay(q, p)
      BY <1>3 DEF BPFloodInv
    <3>2. \A c \in bpAir : ~(Asks(c, q, p) \/ Returns(c, q, p))
      BY <1>3 DEF Over, Asks, Returns
    <3>3. ASSUME NEW k \in 1 .. Len(p) - 1, NEW i \in 1 .. Len(bpSeen[p[k]])
          PROVE  ~Waits(bpSeen[p[k]][i], q, p, k)
      <4>1. p \in Seq(BPNode)
        BY LoopFreeWalks DEF Walk
      <4>2. p[k] \in BPNode
        BY <4>1
      <4> QED
        BY <1>3, <4>2 DEF Over, Waits
    <3> QED
      BY <3>1, <3>2, <3>3 DEF UnderWay
  <2> QED
    BY <2>2, <2>3
<1>4. ASSUME NEW q \in 1 .. bpAsked, NEW p \in bpAnswers[q], NEW x \in ToSet(p) \ {BPSource, BPTarget}
      PROVE  x \in bpQueues
  <2>1. q \in 1 .. MaxQueries
    BY <1>2
  <2>2. Behind(p, 1) \subseteq bpQueues /\ p \in LoopFree
    BY <1>2, <2>1 DEF BPFloodInv
  <2>3. p \in Seq(BPNode) /\ Len(p) \in Nat /\ p[1] = BPSource /\ p[Len(p)] = BPTarget
    BY <2>2, LoopFreeWalks DEF Walk
  <2>4. PICK j \in 1 .. Len(p) : x = p[j]
    BY <2>3 DEF ToSet
  <2>5. j \in 1 + 1 .. Len(p) - 1
    BY <2>3, <2>4
  <2> QED
    BY <2>2, <2>4, <2>5 DEF Behind
<1>5. AllPathsAnswered
  BY <1>3, <1>4 DEF AllPathsAnswered
<1> QED
  BY <1>1, <1>5

-----------------------------------------------------------------------------
(* ETTStat: the rates are percentages, and what a probe says of them.      *)

Counted == [type : Types, age : Nat]
Rates == [Types -> 0 .. 100]
ProbeList == [probes : Seq(Counted), types : Seq(Types), fwd : Rates, sent : Nat, num : Types,
              period : Nat \ {0}, tau : Nat, last_rx : Nat]
Stat == [period : Nat \ {0}, tau : Nat, ads : Types, start : Nat, sent : Nat, next : Types,
         neighbor : BOOLEAN, list : ProbeList, etx : Nat, ett : Nat, aborted : BOOLEAN]
ProbeSent == [type : Types, period : Nat \ {0}, tau : Nat, sent : Nat, num : Types, types : Seq(Types),
              fwd : Rates, rev : Rates]

ETTInv ==
    /\ ett \in [End -> Stat] /\ due \in [End -> Nat]
    /\ lossless \in 0 .. MaxQuiet /\ steady \in 0 .. MaxQuiet

\* A new ETTStat and an empty list of probes have their types.
LEMMA NewETTStatFits == NewETTStat \in Stat /\ NoProbes \in ProbeList
<1>1. 1 \in Types /\ NumTypes \in Types /\ LongTau \in Nat /\ LongPeriod \in Nat \ {0}
  BY ETTStatAssumption DEF Types
<1>2. <<>> \in Seq(Counted) /\ <<>> \in Seq(Types)
  OBVIOUS
<1> DEFINE f == [t \in Types |-> 0]
<1>3. f \in Rates
  BY DEF Rates
<1> HIDE DEF f
<1>4. [probes |-> <<>>, types |-> <<>>, fwd |-> f, sent |-> 0, num |-> 1, period |-> LongPeriod,
       tau |-> LongTau, last_rx |-> 0] \in ProbeList
  BY <1>1, <1>2, <1>3 DEF ProbeList
<1>5. NoProbes \in ProbeList
  BY <1>4 DEF NoProbes, f
<1> QED
  BY <1>1, <1>5 DEF NewETTStat, Stat

\* Both ends of the link start with their types.
LEMMA ETTStart == ETTStatInit => ETTInv
<1>1. 0 \in 0 .. MaxQuiet /\ LongPeriod \div JitterPart \in Nat
  BY ETTStatAssumption
<1> QED
  BY <1>1, NewETTStatFits DEF ETTStatInit, ETTInv

\* A capped time is within its bound.
LEMMA CappedFits == \A t \in Nat : Capped(t) \in 0 .. MaxQuiet /\ Capped(t) \in Nat
  BY ETTStatAssumption DEF Capped

\* Least is the least element of a set of numbers.
LEMMA LeastFits ==
    ASSUME NEW S, S \subseteq Nat, S # {}
    PROVE  Least(S) \in S /\ \A y \in S : Least(S) <= y
<1>1. \E x \in S : \A y \in S : x <= y
  BY LeastNat
<1> QED
  BY <1>1 DEF Least

\* what a percentage of a percentage is the inverse of
LEMMA Inverses ==
    ASSUME NEW a \in 0 .. 100, NEW b \in 0 .. 100, a # 0, b # 0
    PROVE  1000000 \div (a * b) \in Nat
<1> DEFINE c == a * b
<1>1. c \in Nat \ {0}
  OBVIOUS
<1> HIDE DEF c
<1>2. 1000000 \div c \in Nat
  BY <1>1
<1> QED
  BY <1>2 DEF c

\* Time that passes keeps the types of an end.
LEMMA OlderFits ==
    ASSUME NEW e \in Stat, NEW time \in Nat
    PROVE  Older(e, time) \in Stat
<1> DEFINE q == e.list.probes
           a == Capped(e.start + time)
           b == Capped(e.list.last_rx + time)
           r == Aged(q, time)
<1>1. q \in Seq(Counted) /\ e.start + time \in Nat /\ e.list.last_rx + time \in Nat
  BY DEF Stat, ProbeList
<1>2. r \in Seq(Counted)
  <2>1. ASSUME NEW i \in 1 .. Len(q) PROVE [q[i] EXCEPT !.age = Capped(q[i].age + time)] \in Counted
    <3>1. q[i] \in Counted
      BY <1>1
    <3> DEFINE g == q[i].age
    <3>2. g \in Nat
      BY <3>1 DEF Counted
    <3> HIDE DEF g
    <3>3. g + time \in Nat
      BY <3>2
    <3>4. Capped(g + time) \in Nat
      BY <3>3, CappedFits
    <3> DEFINE h == Capped(g + time)
    <3> HIDE DEF h
    <3>5. h \in Nat
      BY <3>4 DEF h
    <3>6. [q[i] EXCEPT !.age = h] \in Counted
      BY <3>1, <3>5 DEF Counted
    <3> QED
      BY <3>6 DEF h, g
  <2>2. Len(q) \in Nat
    BY <1>1
  <2> HIDE DEF q
  <2> QED
    BY <2>1, <2>2 DEF Aged
<1>3. Older(e, time) = [e EXCEPT !.start = a, !.list.last_rx = b, !.list.probes = r]
  BY DEF Older
<1>4. a \in Nat /\ b \in Nat
  BY <1>1, CappedFits
<1> HIDE DEF a, b, r
<1>5. [e EXCEPT !.start = a] \in Stat
  BY <1>4 DEF Stat
<1>6. [e EXCEPT !.start = a, !.list.last_rx = b] \in Stat
  BY <1>4, <1>5 DEF Stat, ProbeList
<1> DEFINE d == [e EXCEPT !.start = a, !.list.last_rx = b]
<1>7. Older(e, time) = [d EXCEPT !.list.probes = r]
  BY <1>3
<1> HIDE DEF d
<1>8. d \in Stat
  BY <1>6 DEF d
<1> QED
  BY <1>2, <1>7, <1>8, ZenonT(30) DEF Stat, ProbeList

\* The rate of an end is a percentage.
LEMMA RevRateFits ==
    ASSUME NEW e \in Stat, NEW t
    PROVE  rev_rate(e, t) \in 0 .. 100
<1> DEFINE l == e.list
           n == Len(l.probes)
           H == {i \in 1 .. n : l.probes[i].type = t /\ l.probes[i].age <= l.tau}
           p == Least({l.tau, e.start}) \div l.period
           expected == Least({p, l.sent \div l.num})
           x == IF expected = 0 THEN 1 ELSE expected
           h == Cardinality(H)
<1>1. /\ l.tau \in Nat /\ e.start \in Nat /\ l.sent \in Nat /\ n \in Nat
      /\ l.period \in Nat \ {0} /\ l.num \in Nat \ {0}
  BY DEF Stat, ProbeList, Types
<1>2. h \in Nat
  <2> HIDE DEF n
  <2> DEFINE J == 1 .. n
  <2>1. IsFiniteSet(J)
    <3> DEFINE a == 1
    <3>1. a \in Int /\ n \in Int
      BY <1>1
    <3> HIDE DEF a
    <3>2. IsFiniteSet(a .. n)
      BY <3>1, FS_Interval
    <3> QED
      BY <3>2 DEF a
  <2>2. H \subseteq J
    OBVIOUS
  <2> HIDE DEF J, H
  <2>3. IsFiniteSet(H)
    BY <2>1, <2>2, FS_Subset
  <2> QED
    BY <2>3, FS_CardinalityType
<1>3. expected \in Nat
  <2> DEFINE k == Least({l.tau, e.start})
             s == l.sent
             c == l.num
             u == s \div c
             i == l.period
  <2>1. k \in Nat
    <3> DEFINE S == {l.tau, e.start}
    <3>1. S \subseteq Nat /\ S # {}
      BY <1>1
    <3> HIDE DEF S
    <3>2. Least(S) \in Nat
      BY <3>1, LeastFits
    <3> QED
      BY <3>2 DEF S
  <2>2. i \in Nat \ {0} /\ c \in Nat \ {0} /\ s \in Nat
    BY <1>1
  <2> HIDE DEF k, s, c, i
  <2>3. k \div i \in Nat /\ u \in Nat
    BY <2>1, <2>2
  <2> DEFINE S == {p, u}
  <2>4. p \in Nat
    BY <2>3 DEF k, i
  <2>5. S \subseteq Nat /\ S # {}
    BY <2>3, <2>4
  <2> HIDE DEF S
  <2>6. Least(S) \in Nat
    BY <2>5, LeastFits
  <2> QED
    BY <2>6 DEF S, s, c
<1>4. rev_rate(e, t) = Least({100, (100 * h) \div x})
  BY DEF rev_rate, num_expected, Heard
<1> HIDE DEF h, expected
<1>5. x \in Nat \ {0}
  BY <1>3
<1> HIDE DEF x
<1> DEFINE w == 100 * h
           v == w \div x
           S == {100, v}
<1>6. w \in Nat
  BY <1>2
<1> HIDE DEF w
<1>7. v \in Nat
  BY <1>5, <1>6
<1> HIDE DEF v
<1>8. S \subseteq Nat /\ 100 \in S
  BY <1>7
<1>9. rev_rate(e, t) = Least(S)
  BY <1>4 DEF v, w
<1> HIDE DEF S
<1>10. Least(S) \in Nat /\ Least(S) <= 100
  BY <1>8, LeastFits
<1> QED
  BY <1>9, <1>10

\* A probe has its type.
LEMMA ProbeFits ==
    ASSUME NEW e \in Stat
    PROVE  Probe(e) \in ProbeSent
<1> DEFINE f == [t \in Types |-> fwd_rate(e, t)]
           r == [t \in Types |-> rev_rate(e, t)]
           s == Capped(e.sent + 1)
           ts == e.list.types
           n == e.next
           u == e.tau
           a == e.ads
           i == e.period
<1>1. f \in Rates
  BY DEF fwd_rate, Stat, ProbeList, Rates
<1>2. r \in Rates
  BY RevRateFits DEF Rates
<1>3. s \in Nat
  <2>1. e.sent + 1 \in Nat
    BY DEF Stat
  <2> QED
    BY <2>1, CappedFits
<1>4. ts \in Seq(Types) /\ n \in Types /\ u \in Nat /\ a \in Types /\ i \in Nat \ {0}
  BY DEF Stat, ProbeList
<1>5. Probe(e) = [type |-> n, period |-> i, tau |-> u, sent |-> s, num |-> a, types |-> ts,
                  fwd |-> f, rev |-> r]
  BY DEF Probe
<1> HIDE DEF f, r, s, ts, n, u, a, i
<1> QED
  BY <1>1, <1>2, <1>3, <1>4, <1>5 DEF ProbeSent

\* The metrics derived from a probe have their types.
LEMMA UpdateFits ==
    ASSUME NEW e \in Stat, NEW ts \in Seq(Types), NEW fwd \in Rates, NEW rev \in Rates
    PROVE  Stat_update_link(e, ts, fwd, rev) \in Stat
<1> DEFINE a == TXCountMetric_update_link(ts, fwd, rev)
           b == ETTMetric_update_link(e.ett, ts, fwd, rev)
<1>1. Stat_update_link(e, ts, fwd, rev) = [e EXCEPT !.etx = a, !.ett = b]
  BY DEF Stat_update_link
<1>2. \A t \in Types : fwd[t] \in 0 .. 100 /\ rev[t] \in 0 .. 100
  BY DEF Rates
<1>3. a \in Nat
  <2>1. CASE ts = <<>> \/ fwd[ts[1]] = 0 \/ rev[ts[1]] = 0
    BY <2>1 DEF TXCountMetric_update_link
  <2>2. CASE ~(ts = <<>> \/ fwd[ts[1]] = 0 \/ rev[ts[1]] = 0)
    <3>1. ts[1] \in Types
      BY <2>2
    <3> DEFINE x == fwd[ts[1]]
               y == rev[ts[1]]
    <3>2. x \in 0 .. 100 /\ y \in 0 .. 100 /\ x # 0 /\ y # 0
      BY <1>2, <2>2, <3>1
    <3>3. a = 1000000 \div (x * y)
      BY <2>2 DEF TXCountMetric_update_link
    <3> HIDE DEF x, y, a
    <3> QED
      BY <3>2, <3>3, Inverses
  <2> QED
    BY <2>1, <2>2
<1>4. b \in Nat
  <2> DEFINE ackF == IF Known(ts, 1) THEN fwd[1] ELSE 0
             ackR == IF Known(ts, 1) THEN rev[1] ELSE 0
             c(t) == IF ackR < 30 \/ fwd[t] < 30 THEN 999999 ELSE ett_metric(ackR, fwd[t])
             T == {ts[i] : i \in DOMAIN ts} \ {1}
             M == {c(t) : t \in T}
  <2>1. ackR \in 0 .. 100
    <3>1. Known(ts, 1) => 1 \in Types
      BY DEF Known
    <3> QED
      BY <1>2, <3>1
  <2>10. T \subseteq Types
    OBVIOUS
  <2>2. b = IF (ackF = 0 /\ ackR = 0) \/ M = {} THEN e.ett ELSE Least(M)
    BY DEF ETTMetric_update_link
  <2>3. ASSUME NEW t \in T PROVE c(t) \in Nat
    <3> HIDE DEF ackR
    <3>1. fwd[t] \in 0 .. 100
      BY <1>2, <2>10
    <3> DEFINE x == fwd[t]
    <3> HIDE DEF x
    <3>2. x \in 0 .. 100
      BY <3>1 DEF x
    <3>3. ackR # 0 /\ x # 0 => 1000000 \div (ackR * x) \in Nat
      BY <2>1, <3>2, Inverses
    <3>4. ett_metric(ackR, x) \in Nat
      BY <3>3 DEF ett_metric
    <3> QED
      BY <3>4 DEF x
  <2> HIDE DEF c, T
  <2>4. M \subseteq Nat
    BY <2>3
  <2> HIDE DEF M, b, ackF, ackR, T
  <2>5. M # {} => Least(M) \in Nat
    BY <2>4, LeastFits
  <2>6. e.ett \in Nat
    BY DEF Stat
  <2> QED
    BY <2>2, <2>5, <2>6
<1> HIDE DEF a, b
<1> QED
  BY <1>1, <1>3, <1>4 DEF Stat

\* Sending a probe keeps the types of an end.
LEMMA SendProbeFits ==
    ASSUME NEW e \in Stat
    PROVE  send_probe(e) \in Stat
<1> DEFINE k == (e.next % e.ads) + 1
           c == Capped(e.sent + 1)
           s == [e EXCEPT !.next = k, !.sent = c]
           p == Probe(e)
<1>1. k \in Types
  <2> DEFINE n == e.next
             a == e.ads
  <2>1. n \in 1 .. NumTypes /\ a \in 1 .. NumTypes /\ NumTypes \in Nat \ {0}
    BY ETTStatAssumption DEF Stat, Types
  <2> HIDE DEF n, a
  <2>2. n % a \in 0 .. a - 1
    BY <2>1
  <2>3. (n % a) + 1 \in 1 .. NumTypes
    BY <2>1, <2>2
  <2> QED
    BY <2>3 DEF n, a, Types
<1>2. c \in Nat
  <2>1. e.sent + 1 \in Nat
    BY DEF Stat
  <2> QED
    BY <2>1, CappedFits
<1>3. send_probe(e) = IF e.neighbor THEN Stat_update_link(s, e.list.types, p.fwd, p.rev) ELSE s
  BY DEF send_probe
<1> HIDE DEF k, c
<1>4. s \in Stat
  BY <1>1, <1>2 DEF Stat
<1>5. p \in ProbeSent
  BY ProbeFits
<1> HIDE DEF s, p
<1>6. e.list.types \in Seq(Types) /\ p.fwd \in Rates /\ p.rev \in Rates
  BY <1>5 DEF ProbeSent, Stat, ProbeList
<1>7. Stat_update_link(s, e.list.types, p.fwd, p.rev) \in Stat
  BY <1>4, <1>6, UpdateFits
<1> QED
  BY <1>3, <1>4, <1>7

\* The probes that are kept are probes.
LEMMA KeepFits ==
    ASSUME NEW l, l.probes \in Seq(Counted)
    PROVE  Keep(l) \in Seq(Counted)
<1> DEFINE q == l.probes
           n == Len(q)
           stops == {i \in 1 .. n + 1 : i > n \/ q[i].age <= l.tau + Slack}
           k == Least(stops)
<1>1. Keep(l) = SubSeq(q, k, n)
  BY DEF Keep
<1>2. n \in Nat
  OBVIOUS
<1>3. k \in 1 .. n + 1
  <2> HIDE DEF n
  <2>1. stops \subseteq Nat /\ n + 1 \in stops
    BY <1>2
  <2> HIDE DEF stops
  <2>2. \E x \in stops : \A y \in stops : x <= y
    BY <2>1, LeastNat
  <2>3. k \in stops
    BY <2>2 DEF Least
  <2> QED
    BY <2>3 DEF stops
<1> HIDE DEF k
<1>4. q \in Seq(Counted)
  OBVIOUS
<1> HIDE DEF q
<1> QED
  BY <1>1, <1>3, <1>4

\* Counting a probe keeps the types of an end.
LEMMA CountProbeFits ==
    ASSUME NEW e \in Stat, NEW p \in ProbeSent
    PROVE  CountProbe(e, p) \in Stat
<1> DEFINE l == IF e.neighbor THEN e.list ELSE [NoProbes EXCEPT !.period = p.period, !.tau = p.tau]
           clear == l.period # p.period \/ l.tau # p.tau \/ p.sent < l.sent
           was == IF clear THEN <<>> ELSE l.probes
           x == [type |-> p.type, age |-> 0]
           new == Append(was, x)
           ts == IF Known(l.types, p.type) THEN l.types ELSE Append(l.types, p.type)
           u == p.tau
           v == p.sent
           i == p.period
           k == p.num
           l2 == [l EXCEPT !.probes = new, !.period = i, !.tau = u, !.sent = v, !.num = k,
                           !.last_rx = 0, !.types = ts]
           kept == Keep(l2)
           l3 == [l2 EXCEPT !.probes = kept]
<1>1. CountProbe(e, p) = [e EXCEPT !.neighbor = TRUE, !.list = l3]
  BY DEF CountProbe
<1>2. p.type \in Types /\ u \in Nat /\ v \in Nat /\ i \in Nat \ {0} /\ k \in Types
  BY DEF ProbeSent
<1>3. l \in ProbeList
  <2>1. [NoProbes EXCEPT !.period = i, !.tau = u] \in ProbeList
    BY <1>2, NewETTStatFits DEF ProbeList
  <2>2. e.list \in ProbeList
    BY DEF Stat
  <2> QED
    BY <2>1, <2>2
<1>4. x \in Counted
  BY <1>2 DEF Counted
<1> HIDE DEF l, x, u, v, i, k
<1>5. was \in Seq(Counted)
  BY <1>3 DEF ProbeList
<1> HIDE DEF was
<1>6. new \in Seq(Counted)
  BY <1>4, <1>5
<1>7. ts \in Seq(Types)
  BY <1>2, <1>3 DEF ProbeList
<1> HIDE DEF new, ts
<1>8. l2 \in ProbeList
  BY <1>2, <1>3, <1>6, <1>7 DEF ProbeList
<1> HIDE DEF l2
<1>9. kept \in Seq(Counted)
  BY <1>8, KeepFits DEF ProbeList
<1> HIDE DEF kept
<1>10. l3 \in ProbeList
  BY <1>8, <1>9 DEF ProbeList
<1> HIDE DEF l3
<1> QED
  BY <1>1, <1>10 DEF Stat

\* A probe that arrives keeps the types of an end.
LEMMA SimpleActionFits ==
    ASSUME NEW e \in Stat, NEW p \in ProbeSent
    PROVE  simple_action(e, p) \in Stat
<1> DEFINE c == CountProbe(e, p)
           f == [t \in Types |-> IF Known(p.types, t) /\ Known(c.list.types, t) THEN p.rev[t] ELSE c.list.fwd[t]]
           d == [c EXCEPT !.list.fwd = f]
           r == [t \in Types |-> rev_rate(c, t)]
<1>1. c \in Stat
  BY CountProbeFits
<1>2. simple_action(e, p) = IF p.types = <<>> THEN c ELSE Stat_update_link(d, p.types, p.fwd, r)
  BY DEF simple_action
<1> HIDE DEF c
<1>3. f \in Rates
  BY <1>1 DEF Stat, ProbeList, ProbeSent, Rates
<1>4. r \in Rates
  BY <1>1, RevRateFits DEF Rates
<1> HIDE DEF f, r
<1>5. d \in Stat
  BY <1>1, <1>3 DEF Stat, ProbeList
<1> HIDE DEF d
<1>6. p.types \in Seq(Types) /\ p.fwd \in Rates
  BY DEF ProbeSent
<1> QED
  BY <1>1, <1>2, <1>4, <1>5, <1>6, UpdateFits

\* The slots of a timer and what jitter makes of them.
LEMMA SlotFits ==
    ASSUME NEW e \in Stat, NEW n \in End, NEW j \in Jitters(n, e)
    PROVE  Slot(e) + j \in Nat
<1> DEFINE a == Slot(e)
           b == a \div JitterPart
<1>1. a \in Nat
  <2> DEFINE p == e.period
             k == e.ads
  <2>1. p \in Nat /\ k \in Nat \ {0}
    BY ETTStatAssumption DEF Stat, Types
  <2> HIDE DEF p, k
  <2>2. p \div k \in Nat
    BY <2>1
  <2> QED
    BY <2>2 DEF Slot, p, k
<1>2. PICK s \in {-1, 0, 1} : j = s * b
  BY ETTStatAssumption DEF Jitters
<1> HIDE DEF a
<1>3. JitterPart \in Nat \ {0}
  BY ETTStatAssumption
<1>4. b \in Nat /\ b <= a
  BY <1>1, <1>3
<1> HIDE DEF b
<1>5. j = -b \/ j = 0 \/ j = b
  BY <1>2, <1>4
<1> QED
  BY <1>1, <1>4, <1>5 DEF a

\* The other end, and the time that is left to it.
LEMMA OtherEndFits ==
    ASSUME ETTInv, NEW n \in End
    PROVE  OtherEnd(n) \in End /\ Rest(n, OtherEnd(n)) \in Nat
<1>1. \E x \in End : x # n
  BY ETTStatAssumption
<1>2. OtherEnd(n) \in End
  BY <1>1 DEF OtherEnd
<1> DEFINE m == OtherEnd(n)
<1>3. due[n] \in Nat /\ due[m] \in Nat
  BY <1>2 DEF ETTInv
<1> QED
  BY <1>2, <1>3 DEF Rest

\* The time that is counted stays within its bound.
LEMMA PassedFits ==
    ASSUME ETTInv, NEW time \in Nat, NEW lost, NEW unheard, Passed(time, lost, unheard)
    PROVE  lossless' \in 0 .. MaxQuiet /\ steady' \in 0 .. MaxQuiet
<1>1. lossless + time \in Nat /\ steady + time \in Nat /\ 0 \in 0 .. MaxQuiet
  BY ETTStatAssumption DEF ETTInv
<1> QED
  BY <1>1, CappedFits DEF Passed

\* The timer of an end keeps the types of both.
LEMMA ETTTimerStep ==
    ASSUME ETTInv, NEW n \in End, NEW lost \in BOOLEAN, Stat_run_timer(n, lost)
    PROVE  ETTInv'
<1> DEFINE m    == OtherEnd(n)
           time == due[n]
           from == Older(ett[n], time)
           to   == Older(ett[m], time)
           p    == Probe(from)
<1>1. m \in End /\ Rest(n, m) \in Nat /\ time \in Nat
  BY OtherEndFits DEF ETTInv
<1>2. ett[n] \in Stat /\ ett[m] \in Stat
  BY <1>1 DEF ETTInv
<1> HIDE DEF m, time
<1>3. from \in Stat /\ to \in Stat
  BY <1>1, <1>2, OlderFits
<1>4. PICK j \in Jitters(n, from) :
         due' = [x \in End |-> IF x = n THEN Slot(from) + j ELSE Rest(n, m)]
  BY DEF Stat_run_timer, m, time
<1>5. ett' = [x \in End |-> IF x = n THEN send_probe(from)
                            ELSE IF lost \/ to.aborted THEN to ELSE simple_action(to, p)]
      /\ Passed(time, lost, lost \/ to.aborted)
  BY DEF Stat_run_timer, m, time
<1> HIDE DEF from, to
<1>6. due' \in [End -> Nat]
  BY <1>1, <1>3, <1>4, SlotFits
<1>7. p \in ProbeSent
  BY <1>3, ProbeFits
<1> HIDE DEF p
<1>8. send_probe(from) \in Stat /\ simple_action(to, p) \in Stat
  BY <1>3, <1>7, SendProbeFits, SimpleActionFits
<1>9. ett' \in [End -> Stat]
  BY <1>3, <1>5, <1>8
<1> QED
  BY <1>1, <1>5, <1>6, <1>9, PassedFits DEF ETTInv

\* An end that fails keeps them as well.
LEMMA ETTAbortStep ==
    ASSUME ETTInv, NEW n \in End, Stat_abort(n)
    PROVE  ETTInv'
<1> DEFINE m    == OtherEnd(n)
           time == due[n]
           from == Older(ett[n], time)
           to   == Older(ett[m], time)
<1>1. m \in End /\ Rest(n, m) \in Nat /\ time \in Nat
  BY OtherEndFits DEF ETTInv
<1>2. ett[n] \in Stat /\ ett[m] \in Stat
  BY <1>1 DEF ETTInv
<1> HIDE DEF m, time
<1>3. from \in Stat /\ to \in Stat
  BY <1>1, <1>2, OlderFits
<1>4. /\ due' = [x \in End |-> IF x = n THEN 0 ELSE Rest(n, m)]
      /\ ett' = [x \in End |-> IF x = n THEN [from EXCEPT !.aborted = TRUE] ELSE to]
      /\ Passed(time, FALSE, TRUE)
  BY DEF Stat_abort, m, time
<1> HIDE DEF from, to
<1>5. [from EXCEPT !.aborted = TRUE] \in Stat
  BY <1>3 DEF Stat
<1>6. due' \in [End -> Nat] /\ ett' \in [End -> Stat]
  BY <1>1, <1>3, <1>4, <1>5
<1> QED
  BY <1>1, <1>4, <1>6, PassedFits DEF ETTInv

\* A reset, a handler write or a saved state keeps the types of both.
LEMMA ETTDisturbStep ==
    ASSUME ETTInv, NEW n \in End, NEW e \in Stat, NEW unlike, Disturb(n, e, unlike)
    PROVE  ETTInv'
<1>1. ett' = [ett EXCEPT ![n] = e] /\ due' = due /\ steady' = 0 /\ lossless' \in {0, lossless}
  BY DEF Disturb
<1>2. 0 \in 0 .. MaxQuiet
  BY ETTStatAssumption
<1> QED
  BY <1>1, <1>2 DEF ETTInv

\* Every step of the link keeps its types.
LEMMA ETTStep == ETTInv /\ [ETTStatNext]_ettVars => ETTInv'
<1> SUFFICES ASSUME ETTInv, [ETTStatNext]_ettVars PROVE ETTInv'
  OBVIOUS
<1>1. CASE UNCHANGED ettVars
  BY <1>1 DEF ettVars, ETTInv
<1>2. ASSUME NEW n \in End, Stat_write_param(n) PROVE ETTInv'
  <2>1. ASSUME NEW e \in Stat PROVE Stat_reset(e) \in Stat
    BY NewETTStatFits DEF Stat, Stat_reset
  <2>2. ett[n] \in Stat
    BY DEF ETTInv
  <2>3. CASE Disturb(n, Stat_reset(ett[n]), FALSE)
    BY <2>1, <2>2, <2>3, ETTDisturbStep
  <2>4. ASSUME NEW k \in Taus, Disturb(n, Stat_reset([ett[n] EXCEPT !.tau = k, !.period = k]), FALSE)
        PROVE  ETTInv'
    <3>1. [ett[n] EXCEPT !.tau = k, !.period = k] \in Stat
      BY <2>2, ETTStatAssumption DEF Stat
    <3> QED
      BY <2>1, <2>4, <3>1, ETTDisturbStep
  <2>5. ASSUME NEW k \in Periods, Disturb(n, Stat_reset([ett[n] EXCEPT !.period = k]), FALSE)
        PROVE  ETTInv'
    <3>1. [ett[n] EXCEPT !.period = k] \in Stat
      BY <2>2, ETTStatAssumption DEF Stat
    <3> QED
      BY <2>1, <2>5, <3>1, ETTDisturbStep
  <2>6. ASSUME NEW k \in Types, Disturb(n, [ett[n] EXCEPT !.ads = k], TRUE) PROVE ETTInv'
    <3>1. [ett[n] EXCEPT !.ads = k] \in Stat
      BY <2>2 DEF Stat
    <3> QED
      BY <2>6, <3>1, ETTDisturbStep
  <2> QED
    BY <1>2, <2>3, <2>4, <2>5, <2>6 DEF Stat_write_param
<1>3. ASSUME NEW n \in End, Stat_take_state(n) PROVE ETTInv'
  <2>1. 1 \in Types /\ NumTypes \in Types /\ LongPeriod \in Nat \ {0} /\ LongTau \in Nat
    BY ETTStatAssumption DEF Types
  <2>2. [ett[n] EXCEPT !.next = 1, !.period = LongPeriod, !.tau = LongTau, !.ads = NumTypes] \in Stat
    BY <2>1 DEF ETTInv, Stat
  <2> QED
    BY <1>3, <2>2, ETTDisturbStep DEF Stat_take_state
<1> QED
  BY <1>1, <1>2, <1>3, ETTTimerStep, ETTAbortStep DEF ETTStatNext

\* The invariant is the type invariant of the module.
LEMMA ETTInvSound == ETTInv => ETTTypeOK
<1> SUFFICES ASSUME ETTInv, NEW n \in End
             PROVE  /\ ett[n].next \in Types /\ ett[n].neighbor \in BOOLEAN
                    /\ ett[n].list.fwd \in [Types -> 0 .. 100]
                    /\ ett[n].etx \in Nat /\ ett[n].ett \in Nat
                    /\ \A i \in 1 .. Len(ett[n].list.probes) : ett[n].list.probes[i].type \in Types
  BY DEF ETTTypeOK, ETTInv
<1> DEFINE e == ett[n]
           q == e.list.probes
<1>1. e \in Stat
  BY DEF ETTInv
<1> HIDE DEF e
<1>2. e.next \in Types /\ e.neighbor \in BOOLEAN /\ e.list.fwd \in Rates /\ e.etx \in Nat /\ e.ett \in Nat
  BY <1>1 DEF Stat, ProbeList
<1>3. q \in Seq(Counted)
  BY <1>1 DEF Stat, ProbeList
<1>4. \A i \in 1 .. Len(q) : q[i].type \in Types
  <2> HIDE DEF q
  <2>1. \A i \in 1 .. Len(q) : q[i] \in Counted
    BY <1>3
  <2> QED
    BY <2>1 DEF Counted
<1> QED
  BY <1>2, <1>4 DEF e, q, Rates

-----------------------------------------------------------------------------
(* The elements beside each other.  A step of the run is for each element  *)
(* one of its own steps or none, so that what each of them keeps always    *)
(* holds.                                                                  *)

\* A step of the run is a step of the element in focus and leaves the others alone.
LEMMA RoofnetSteps ==
    ASSUME [MCNext]_mcVars
    PROVE  /\ [GatewayNext \/ SR2GatewayNext]_gatewayVars
           /\ [SetGatewayNext \/ SR1SetGateway_push]_setGatewayVars
           /\ [ETTStatNext]_ettVars
           /\ [RDHCPNext]_rdhcpVars
           /\ [FloodNext]_floodVars
           /\ [BPNext]_bpVars
           /\ [BPFloodNext]_bpFloodVars
           /\ [SRDataNext \/ SRFloodNext \/ SRQueryNext]_tabVars
<1>1. CASE UNCHANGED mcVars
  BY <1>1 DEF mcVars
<1>2. CASE MCNext
  BY <1>2 DEF MCNext
<1> QED
  BY <1>1, <1>2

\* The maps of the roofnet DHCPServer, its free map and its list agree, for every
\* range of addresses and every set of clients.
THEOREM LeasesStaySound == MCSpec => []LeasesSound
<1>1. MCInit => RDHCPInv
  BY RDHCPStart DEF MCInit
<1>2. RDHCPInv /\ [MCNext]_mcVars => RDHCPInv'
  BY RDHCPStep, RoofnetSteps
<1>3. RDHCPInv => LeasesSound
  BY RDHCPInvSound DEF LeasesSound
<1> QED
  BY <1>1, <1>2, <1>3, PTL DEF MCSpec

\* GatewaySelector leaves no advertisement of its own without a timer, and
\* SetGateway keeps a flow with the gateway that its SYN-ACK came through.
THEOREM GatewaysStaySound == MCSpec => []GatewaysSound
<1>1. MCInit => GatewayInv /\ SetGatewayInv
  BY GatewayStart, SetGatewayStart DEF MCInit
<1>2. GatewayInv /\ SetGatewayInv /\ [MCNext]_mcVars => GatewayInv' /\ SetGatewayInv'
  BY GatewayStep, SetGatewayStep, RoofnetSteps
<1>3. GatewayInv /\ SetGatewayInv => GatewaysSound
  BY DEF GatewayInv, SetGatewayInv, GatewaysSound, AgreedKeepsGateway
<1> QED
  BY <1>1, <1>2, <1>3, PTL DEF MCSpec

\* DupeFilter passes no packet twice, whatever its window is and however often
\* packets are repeated and reordered; FloodTracker counts a broadcast twice only
\* after its entry made room; SRQueryForwarder passes a query on at most once for
\* each time it was entered.
THEOREM SRTablesStaySound == MCSpec => []SRTablesSound
<1>1. MCInit => SRTablesInv
  BY SRDataStart, SRFloodStart, SRQueryStart DEF MCInit, SRTablesInv
<1>2. SRTablesInv /\ [MCNext]_mcVars => SRTablesInv'
  BY SRTablesStep, RoofnetSteps
<1>3. SRTablesInv => SRTablesSound
  BY SRTablesInvSound DEF SRTablesSound
<1> QED
  BY <1>1, <1>2, <1>3, PTL DEF MCSpec

\* In every network and for every COUNT and history, CounterFlood and PFlood pass a
\* broadcast on once, and a broadcast of which no copy is lost reaches every node of
\* a connected network when they always forward.
THEOREM FloodsStaySound == MCSpec => []FloodSound
<1>1. MCInit => FloodInv
  BY FloodStart DEF MCInit
<1>2. FloodInv /\ [MCNext]_mcVars => FloodInv'
  BY FloodStep, RoofnetSteps
<1>3. FloodInv => FloodSound
  BY FloodInvSound DEF FloodSound
<1> QED
  BY <1>1, <1>2, <1>3, PTL DEF MCSpec

\* In every network, with every capacity, DMAX and threshold: DataQueues serves a
\* queue only up to the packet that was its last when the period began, and not
\* everyone waits for somebody else; BPMetricFlood and BPQueryResponder find all
\* paths of every network, as long as nothing is lost or makes room.
THEOREM BackPressureStaysSound == MCSpec => []BackPressureSound
<1>1. MCInit => BPInv /\ BPFloodInv
  BY BPStart, BPFloodStart DEF MCInit
<1>2. BPInv /\ BPFloodInv /\ [MCNext]_mcVars => BPInv' /\ BPFloodInv'
  BY BPStep, BPFloodStep, RoofnetSteps
<1>3. BPInv /\ BPFloodInv => BackPressureSound
  BY BPInvSound, BPFloodInvSound DEF BackPressureSound
<1> QED
  BY <1>1, <1>2, <1>3, PTL DEF MCSpec

\* The variables of all elements keep their types, whatever the constants are.  The
\* limits of the code are part of it: _seen of GatewaySelector and of
\* BPMetricFlood, the queues of DataQueues and the rates of ETTStat.
THEOREM RoofnetTypeCorrect == MCSpec => []RoofnetTypeOK
<1> DEFINE Inv == /\ GatewayInv /\ SetGatewayInv /\ ETTInv /\ FloodInv
                  /\ BPInv /\ BPFloodInv /\ SRTablesInv
<1>1. MCInit => Inv
  BY GatewayStart, SetGatewayStart, ETTStart, FloodStart, BPStart, BPFloodStart,
     SRDataStart, SRFloodStart, SRQueryStart DEF MCInit, SRTablesInv
<1>2. Inv /\ [MCNext]_mcVars => Inv'
  BY GatewayStep, SetGatewayStep, ETTStep, FloodStep, BPStep, BPFloodStep, SRTablesStep, RoofnetSteps
<1>3. Inv => RoofnetTypeOK
  <2> SUFFICES ASSUME Inv PROVE RoofnetTypeOK
    OBVIOUS
  <2>1. GatewayTypeOK /\ SetGatewayTypeOK /\ FloodTypeOK
    BY DEF GatewayInv, SetGatewayInv, FloodInv
  <2>2. ETTTypeOK /\ BPTypeOK /\ BPFloodTypeOK /\ SRTablesTypeOK
    BY ETTInvSound, BPInvSound, BPFloodInvSound, SRTablesInvSound
  <2> QED
    BY <2>1, <2>2 DEF RoofnetTypeOK
<1> QED
  BY <1>1, <1>2, <1>3, PTL DEF MCSpec
=============================================================================
