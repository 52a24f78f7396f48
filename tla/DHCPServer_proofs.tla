-------------------------- MODULE DHCPServer_proofs --------------------------
(***************************************************************************)
(* The lease database and the server that uses it, for every set of        *)
(* clients, every pool and every sequence of requests.                     *)
(*                                                                         *)
(* The invariants of the database need each other: that an address in      *)
(* _free has no lease (FreeOrLeased) is what keeps insert() from           *)
(* overwriting another client's entry, and that a client without a lease   *)
(* has no entry in _ips (MapsAgree) is what keeps it from leaving one      *)
(* behind.  The handlers of the server use the database as it is meant to  *)
(* be used; hence everything proved of it holds of the server, and what    *)
(* the server acknowledges is leased.                                      *)
(***************************************************************************)
EXTENDS DHCPServer, Lemmas

-----------------------------------------------------------------------------
(* The lease database.                                                     *)

PoolInv == PoolTypeOK /\ MapsAgree /\ FreeOrLeased

\* rev_lookup() is the entry of _ips: a client never points at an address
\* that is not leased to it.
LEMMA RevLookup ==
    ASSUME PoolTypeOK, MapsAgree, NEW e \in Eth
    PROVE  /\ rev_lookup(e) = ips[e]
           /\ rev_lookup(e) # None => ips[e] \in Pool /\ leases[ips[e]] = e
BY CommonAssumption, PoolAssumption DEF PoolTypeOK, MapsAgree, rev_lookup, lookup, Pool

\* LeasePool::insert() for a client without a lease and a free address keeps
\* the invariants of the maps, and is an Assign of the abstract allocation.
LEMMA InsertKeeps ==
    ASSUME PoolTypeOK, MapsAgree, FreeOrLeased,
           NEW e \in Eth, NEW a \in free, rev_lookup(e) = None, insert(e, a)
    PROVE  /\ ips'    \in [Eth -> Pool \cup {None}]
           /\ leases' \in [Pool -> Eth \cup {None}]
           /\ ends'   \in [Pool -> {"running", "past", "extended"}]
           /\ free'   \in SUBSET Pool
           /\ MapsAgree'
           /\ FreeOrLeased'
           /\ Allocation!Next
<1>1. a \in Pool /\ leases[a] = None /\ ips[e] = None
  BY RevLookup DEF PoolTypeOK, FreeOrLeased
<1>2. None \notin Eth /\ None \notin Pool
  BY CommonAssumption, PoolAssumption
<1>3. /\ ips' \in [Eth -> Pool \cup {None}]
      /\ leases' \in [Pool -> Eth \cup {None}]
      /\ ends'   \in [Pool -> {"running", "past", "extended"}]
      /\ free'   \in SUBSET Pool
  BY <1>1 DEF insert, PoolTypeOK
<1>4. MapsAgree'
  BY <1>1, <1>2 DEF insert, PoolTypeOK, MapsAgree
<1>5. FreeOrLeased'
  BY <1>1, <1>2 DEF insert, PoolTypeOK, FreeOrLeased
<1>6. Allocation!Next
  <2>1. ~Allocation!Owns(e)
    BY <1>1, <1>2 DEF Allocation!Owns, MapsAgree, PoolTypeOK
  <2>2. Allocation!Assign(e, a)
    BY <1>1, <2>1 DEF Allocation!Assign, insert
  <2> QED
    BY <1>1, <2>2 DEF Allocation!Next
<1> QED
  BY <1>3, <1>4, <1>5, <1>6

\* FirstFree is the first position of _free_list whose address is free.
LEMMA FirstFreeIsFirst ==
    ASSUME PoolTypeOK, FreeEntries # {}
    PROVE  /\ FirstFree \in 1 .. Len(free_list)
           /\ free_list[FirstFree] \in free
           /\ \A j \in 1 .. Len(free_list) : free_list[j] \in free => FirstFree <= j
<1>1. FreeEntries \subseteq Nat
  BY DEF FreeEntries, PoolTypeOK
<1>2. \E k \in FreeEntries : \A j \in FreeEntries : k <= j
  BY <1>1, LeastNat
<1>3. FirstFree \in FreeEntries /\ \A j \in FreeEntries : FirstFree <= j
  BY <1>2 DEF FirstFree
<1> QED
  BY <1>3 DEF FreeEntries

-----------------------------------------------------------------------------
\* Every call of the pool keeps the invariants and is a step, or a stutter, of
\* the abstract allocation.
LEMMA NewLeaseAnyKeeps ==
    ASSUME PoolInv, FreeIsListed, NEW e \in Eth, new_lease_any(e)
    PROVE  PoolInv' /\ FreeIsListed' /\ [Allocation!Next]_leases
<1> USE DEF PoolInv
<1>1. CASE UNCHANGED poolVars
  BY <1>1 DEF poolVars, PoolTypeOK, MapsAgree, FreeOrLeased, FreeIsListed
<1>2. CASE FreeEntries = {} /\ free_list' = <<>> /\ UNCHANGED <<ips, leases, ends, free>>
  <2>1. free = {}
    BY <1>2 DEF FreeEntries, FreeIsListed
  <2> QED
    BY <1>2, <2>1 DEF PoolTypeOK, MapsAgree, FreeOrLeased, FreeIsListed
<1>3. CASE /\ rev_lookup(e) = None /\ FreeEntries # {}
           /\ insert(e, free_list[FirstFree])
           /\ free_list' = SubSeq(free_list, FirstFree + 1, Len(free_list))
  <2>1. /\ FirstFree \in 1 .. Len(free_list)
        /\ free_list[FirstFree] \in free
        /\ \A j \in 1 .. Len(free_list) : free_list[j] \in free => FirstFree <= j
    BY <1>3, FirstFreeIsFirst
  <2>2. free_list \in Seq(Pool) /\ Len(free_list) \in Nat
    BY DEF PoolTypeOK
  <2>3. /\ free_list' \in Seq(Pool)
        /\ Len(free_list') = Len(free_list) - FirstFree
        /\ \A j \in 1 .. Len(free_list) - FirstFree : free_list'[j] = free_list[FirstFree + j]
    BY <1>3, <2>1, <2>2
  <2>4. FreeIsListed'
    <3> SUFFICES ASSUME NEW a \in free'
                 PROVE  \E k \in 1 .. Len(free_list') : free_list'[k] = a
      BY DEF FreeIsListed
    <3>1. a \in free /\ a # free_list[FirstFree]
      BY <1>3 DEF insert
    <3>2. PICK k \in 1 .. Len(free_list) : free_list[k] = a
      BY <3>1 DEF FreeIsListed
    <3>3. FirstFree < k
      BY <2>1, <3>1, <3>2
    <3>4. k - FirstFree \in 1 .. Len(free_list')
      BY <2>1, <2>2, <2>3, <3>2, <3>3
    <3>5. free_list'[k - FirstFree] = a
      BY <2>1, <2>2, <2>3, <3>2, <3>3, <3>4
    <3> QED
      BY <3>4, <3>5
  <2>5. /\ ips'    \in [Eth -> Pool \cup {None}]
        /\ leases' \in [Pool -> Eth \cup {None}]
        /\ ends'   \in [Pool -> {"running", "past", "extended"}]
        /\ free'   \in SUBSET Pool
        /\ MapsAgree' /\ FreeOrLeased' /\ Allocation!Next
    BY <1>3, <2>1, InsertKeeps
  <2> QED
    BY <2>3, <2>4, <2>5 DEF PoolTypeOK
<1> QED
  BY <1>1, <1>2, <1>3 DEF new_lease_any, poolVars

\* new_lease() keeps the pool sound and is an Assign or a stutter.
LEMMA NewLeaseKeeps ==
    ASSUME PoolInv, FreeIsListed, NEW e \in Eth, NEW a \in Addr, new_lease(e, a)
    PROVE  PoolInv' /\ FreeIsListed' /\ [Allocation!Next]_leases
<1> USE DEF PoolInv
<1>1. CASE UNCHANGED poolVars
  BY <1>1 DEF poolVars, PoolTypeOK, MapsAgree, FreeOrLeased, FreeIsListed
<1>2. CASE rev_lookup(e) = None /\ a \in free /\ insert(e, a) /\ UNCHANGED free_list
  <2>1. /\ ips'    \in [Eth -> Pool \cup {None}]
        /\ leases' \in [Pool -> Eth \cup {None}]
        /\ ends'   \in [Pool -> {"running", "past", "extended"}]
        /\ free'   \in SUBSET Pool
        /\ MapsAgree' /\ FreeOrLeased' /\ Allocation!Next
    BY <1>2, InsertKeeps
  <2>2. free_list' \in Seq(Pool)
    BY <1>2 DEF PoolTypeOK
  <2>3. FreeIsListed'
    BY <1>2 DEF insert, FreeIsListed
  <2> QED
    BY <2>1, <2>2, <2>3 DEF PoolTypeOK
<1> QED
  BY <1>1, <1>2 DEF new_lease, poolVars

\* remove() keeps the pool sound and is a GiveBack or a stutter.
LEMMA RemoveKeeps ==
    ASSUME PoolInv, FreeIsListed, NEW e \in Eth, remove(e)
    PROVE  PoolInv' /\ FreeIsListed' /\ [Allocation!Next]_leases
<1> USE DEF PoolInv
<1>1. CASE UNCHANGED poolVars
  BY <1>1 DEF poolVars, PoolTypeOK, MapsAgree, FreeOrLeased, FreeIsListed
<1>2. CASE /\ rev_lookup(e) # None
           /\ free'      = free \cup {ips[e]}
           /\ free_list' = Append(free_list, ips[e])
           /\ leases'    = [leases EXCEPT ![ips[e]] = None]
           /\ ips'       = [ips EXCEPT ![e] = None]
           /\ UNCHANGED ends
  <2>1. ips[e] \in Pool /\ leases[ips[e]] = e /\ None \notin Eth /\ None \notin Pool
    BY <1>2, RevLookup, CommonAssumption, PoolAssumption
  <2>2. /\ ips' \in [Eth -> Pool \cup {None}] /\ leases' \in [Pool -> Eth \cup {None}]
        /\ ends' \in [Pool -> {"running", "past", "extended"}]
        /\ free' \in SUBSET Pool
    BY <1>2, <2>1 DEF PoolTypeOK
  <2>3. MapsAgree'
    BY <1>2, <2>1 DEF PoolTypeOK, MapsAgree
  <2>4. FreeOrLeased'
    BY <1>2, <2>1 DEF PoolTypeOK, FreeOrLeased
  <2>5. /\ free_list' \in Seq(Pool)
        /\ Len(free_list) \in Nat
        /\ Len(free_list') = Len(free_list) + 1
        /\ free_list'[Len(free_list) + 1] = ips[e]
        /\ \A k \in 1 .. Len(free_list) : free_list'[k] = free_list[k]
    BY <1>2, <2>1 DEF PoolTypeOK
  <2>6. FreeIsListed'
    <3> SUFFICES ASSUME NEW a \in free'
                 PROVE  \E k \in 1 .. Len(free_list') : free_list'[k] = a
      BY DEF FreeIsListed
    <3>1. CASE a = ips[e]
      BY <2>5, <3>1
    <3>2. CASE a \in free
      BY <2>5, <3>2 DEF FreeIsListed
    <3> QED
      BY <1>2, <3>1, <3>2
  <2>7. Allocation!Next
    <3>1. Allocation!GiveBack(ips[e])
      BY <1>2, <2>1 DEF Allocation!GiveBack
    <3> QED
      BY <2>1, <3>1 DEF Allocation!Next
  <2> QED
    BY <2>2, <2>3, <2>4, <2>5, <2>6, <2>7 DEF PoolTypeOK
<1> QED
  BY <1>1, <1>2 DEF remove, poolVars

\* extend() and the clock touch nothing but the end of a lease.
LEMMA EndsKeeps ==
    ASSUME PoolInv, FreeIsListed, UNCHANGED <<ips, leases, free, free_list>>,
           ends' \in [Pool -> {"running", "past", "extended"}]
    PROVE  PoolInv' /\ FreeIsListed' /\ [Allocation!Next]_leases
BY DEF PoolInv, PoolTypeOK, MapsAgree, FreeOrLeased, FreeIsListed

\* Every call of the pool keeps its invariant and is a step of the abstract allocation.
LEMMA PoolStep ==
    ASSUME PoolInv, FreeIsListed, [PoolNext]_poolVars
    PROVE  PoolInv' /\ FreeIsListed' /\ [Allocation!Next]_leases
<1>1. CASE UNCHANGED poolVars
  BY <1>1, EndsKeeps DEF poolVars, PoolInv, PoolTypeOK
<1>2. CASE \E e \in Eth : new_lease_any(e)
  BY <1>2, NewLeaseAnyKeeps
<1>3. CASE \E e \in Eth : \E a \in Addr : new_lease(e, a)
  BY <1>3, NewLeaseKeeps
<1>4. CASE \E e \in Eth : remove(e)
  BY <1>4, RemoveKeeps
<1>5. CASE \E e \in Eth : extend(e)
  <2>1. ends' \in [Pool -> {"running", "past", "extended"}]
    BY <1>5 DEF extend, PoolInv, PoolTypeOK
  <2> QED
    BY <1>5, <2>1, EndsKeeps DEF extend
<1>6. CASE \E a \in Pool : run_out(a)
  <2>1. ends' \in [Pool -> {"running", "past", "extended"}]
    BY <1>6 DEF run_out, PoolInv, PoolTypeOK
  <2> QED
    BY <1>6, <2>1, EndsKeeps DEF run_out
<1> QED
  BY <1>1, <1>2, <1>3, <1>4, <1>5, <1>6 DEF PoolNext

\* configure() establishes the invariants.
LEMMA PoolStart ==
    ASSUME PoolInit
    PROVE  PoolInv /\ FreeIsListed /\ Allocation!Init
<1>1. START \in Nat /\ END \in Nat
  BY PoolAssumption
<1>2. None \notin Eth /\ None \notin Pool
  BY CommonAssumption, PoolAssumption
<1>3. CASE START <= END
  <2>1. END - START + 1 \in Nat
    BY <1>1, <1>3
  <2>2. \A i \in 1 .. END - START + 1 : START + i - 1 \in Pool
    BY <1>1, <1>3 DEF Pool
  <2>3. free_list \in Seq(Pool) /\ Len(free_list) = END - START + 1
    BY <2>1, <2>2 DEF PoolInit
  <2>4. FreeIsListed
    <3> SUFFICES ASSUME NEW a \in Pool
                 PROVE  \E k \in 1 .. Len(free_list) : free_list[k] = a
      BY DEF FreeIsListed, PoolInit
    <3>1. a - START + 1 \in 1 .. Len(free_list)
      BY <1>1, <2>3 DEF Pool
    <3>2. free_list[a - START + 1] = a
      BY <1>1, <2>3, <3>1 DEF PoolInit, Pool
    <3> QED
      BY <3>1, <3>2
  <2> QED
    BY <1>2, <2>3, <2>4
       DEF PoolInit, PoolInv, PoolTypeOK, MapsAgree, FreeOrLeased, Allocation!Init
<1>4. CASE START > END
  <2>1. Pool = {}
    BY <1>1, <1>4 DEF Pool
  <2>2. 1 .. END - START + 1 = {}
    BY <1>1, <1>4
  <2>3. free_list = <<>>
    BY <2>2 DEF PoolInit
  <2>4. free_list \in Seq(Pool)
    BY <2>3
  <2> QED
    BY <1>2, <2>1, <2>4
       DEF PoolInit, PoolInv, PoolTypeOK, MapsAgree, FreeOrLeased, FreeIsListed, Allocation!Init
<1> QED
  BY <1>1, <1>3, <1>4

-----------------------------------------------------------------------------
\* The invariants of the pool hold in every reachable state.
THEOREM PoolInvariance == PoolSpec => [](PoolInv /\ FreeIsListed)
<1>1. PoolInit => PoolInv /\ FreeIsListed
  BY PoolStart
<1>2. PoolInv /\ FreeIsListed /\ [PoolNext]_poolVars => (PoolInv /\ FreeIsListed)'
  BY PoolStep
<1> QED
  BY <1>1, <1>2, PTL DEF PoolSpec

\* Every entry of the two maps, of _free and of _free_list is an address of
\* the pool or a client, also when a client asks for some other address.
THEOREM PoolTypeCorrect == PoolSpec => []PoolTypeOK
<1>1. PoolInv /\ FreeIsListed => PoolTypeOK
  BY DEF PoolInv
<1> QED
  BY <1>1, PoolInvariance, PTL

\* _ips and _leases never disagree.
THEOREM MapsAlwaysAgree == PoolSpec => []MapsAgree
<1>1. PoolInv /\ FreeIsListed => MapsAgree
  BY DEF PoolInv
<1> QED
  BY <1>1, PoolInvariance, PTL

\* No address is lost or both free and leased.
THEOREM AlwaysFreeOrLeased == PoolSpec => []FreeOrLeased
<1>1. PoolInv /\ FreeIsListed => FreeOrLeased
  BY DEF PoolInv
<1> QED
  BY <1>1, PoolInvariance, PTL

\* new_lease_any() finds every address that is free.
THEOREM FreeAlwaysListed == PoolSpec => []FreeIsListed
BY PoolInvariance, PTL

\* _ips, _leases, _free and _free_list always agree: no address is given to two
\* clients, and none is lost.
THEOREM PoolAlwaysSound == PoolSpec => []PoolSound
<1>1. PoolInv /\ FreeIsListed => PoolSound
  BY DEF PoolInv, PoolSound
<1> QED
  BY <1>1, PoolInvariance, PTL

\* The pool is an implementation of AddressAllocation: it never gives an
\* address that is taken, nor a second address to a client.
THEOREM PoolImplementsAllocation == PoolSpec => ImplementsAllocation
<1>1. PoolInit => Allocation!Init
  BY PoolStart
<1>2. PoolInv /\ FreeIsListed /\ [PoolNext]_poolVars => [Allocation!Next]_leases
  BY PoolStep
<1> QED
  BY <1>1, <1>2, PoolInvariance, PTL DEF PoolSpec, ImplementsAllocation, Allocation!Spec

-----------------------------------------------------------------------------
(* The handlers of the server.                                             *)

\* The fields of a request that reach the pool have the types that its calls need.
LEMMA FieldsOfRequest ==
    ASSUME NEW m \in Sendable
    PROVE  /\ m.eth \in Eth
           /\ m.requested \in Addr \cup {None}
BY DEF Sendable, Request, Option

\* Each message is one step of the pool, or none.
LEMMA ServeUsesPool ==
    ASSUME NEW m \in Sendable, serve(m)
    PROVE  [PoolNext]_poolVars
<1>1. CASE m.type = "DISCOVER" /\ offer(m)
  <2>1. \/ m.requested # None /\ new_lease(m.eth, m.requested)
        \/ new_lease_any(m.eth)
    BY <1>1 DEF offer
  <2> QED
    BY <2>1, FieldsOfRequest DEF PoolNext
<1>2. CASE m.type = "REQUEST" /\ ack_or_nak(m)
  <2>1. outside_of_the_spec(m) \/ renew_or_rebind(m) \/ UNCHANGED poolVars
    BY <1>2 DEF ack_or_nak, selecting, init_reboot
  <2>2. new_lease_any(m.eth) \/ extend(m.eth) \/ UNCHANGED poolVars
    BY <2>1 DEF outside_of_the_spec, renew_or_rebind
  <2> QED
    BY <2>2, FieldsOfRequest DEF PoolNext
<1>3. CASE m.type = "RELEASE" /\ release(m)
  BY <1>3, FieldsOfRequest DEF release, PoolNext
<1> QED
  BY <1>1, <1>2, <1>3 DEF serve

\* Each branch of the server elements calls the pool once at most.
LEMMA ServerStepUsesPool ==
    ASSUME [ServerNext]_serverVars
    PROVE  [PoolNext]_poolVars
<1>1. CASE \E m \in Sendable : serve(m)
  BY <1>1, ServeUsesPool
<1>2. CASE ServerTick
  BY <1>2 DEF ServerTick, PoolNext
<1>3. CASE UNCHANGED serverVars
  BY <1>3 DEF serverVars
<1> QED
  BY <1>1, <1>2, <1>3 DEF ServerNext

\* Whatever the clients send, the server is an implementation of the pool.
THEOREM ServerUsesPool == ServerSpec => UsesPool
<1>1. ServerInit => PoolInit
  BY DEF ServerInit
<1>2. [ServerNext]_serverVars => [PoolNext]_poolVars
  BY ServerStepUsesPool
<1> QED
  BY <1>1, <1>2, PTL DEF ServerSpec, UsesPool, PoolSpec

-----------------------------------------------------------------------------
\* A reply that gives a client the address _ips has for it.
LEMMA AckOne ==
    ASSUME PoolInv', NEW e \in Eth, NEW a \in Pool, ips'[e] = a,
           NEW r, r.eth = e, r.yiaddr = a, reply' = <<r>>
    PROVE  AckedIsLeased'
<1>1. leases'[a] = e /\ a \notin free'
  BY CommonAssumption DEF PoolInv, MapsAgree, FreeOrLeased
<1>2. rev_lookup(e)' = a
  BY <1>1, CommonAssumption DEF rev_lookup, lookup
<1>3. Len(reply') = 1 /\ reply'[1] = r
  OBVIOUS
<1> SUFFICES ASSUME NEW i \in 1 .. Len(reply')
             PROVE  /\ reply'[i].yiaddr \in Pool
                    /\ rev_lookup(reply[i].eth)' = reply'[i].yiaddr
                    /\ leases'[reply'[i].yiaddr] = reply'[i].eth
                    /\ reply'[i].yiaddr \notin free'
  BY DEF AckedIsLeased
<1>4. i = 1
  BY <1>3
<1>5. reply'[i] = r
  BY <1>3, <1>4
<1>6. rev_lookup(reply[i].eth)' = a
  BY <1>1, <1>5, CommonAssumption DEF rev_lookup, lookup
<1> QED
  BY <1>1, <1>5, <1>6

\* What new_lease() and new_lease_any() return is what _ips has afterwards.
LEMMA NewLeaseGives ==
    ASSUME PoolInv, NEW e \in Eth, NEW a, new_lease(e, a), new_lease_result(e, a) # None
    PROVE  new_lease_result(e, a) \in Pool /\ ips'[e] = new_lease_result(e, a)
<1>1. CASE rev_lookup(e) # None
  BY <1>1, RevLookup DEF PoolInv, new_lease, new_lease_result
<1>2. CASE rev_lookup(e) = None
  BY <1>2 DEF PoolInv, PoolTypeOK, new_lease, new_lease_result, insert
<1> QED
  BY <1>1, <1>2

\* The address that new_lease_any() returns is leased to the client.
LEMMA NewLeaseAnyGives ==
    ASSUME PoolInv, NEW e \in Eth, new_lease_any(e), new_lease_any_result(e) # None
    PROVE  new_lease_any_result(e) \in Pool /\ ips'[e] = new_lease_any_result(e)
<1>1. CASE rev_lookup(e) # None
  BY <1>1, RevLookup DEF PoolInv, new_lease_any, new_lease_any_result, poolVars
<1>2. CASE rev_lookup(e) = None
  <2>1. FreeEntries # {} /\ new_lease_any_result(e) = free_list[FirstFree]
    BY <1>2 DEF new_lease_any_result
  <2>2. insert(e, free_list[FirstFree])
    BY <1>2, <2>1 DEF new_lease_any
  <2>3. free_list[FirstFree] \in Pool
    BY <2>1, FirstFreeIsFirst DEF PoolInv, PoolTypeOK
  <2>4. ips' = [ips EXCEPT ![e] = free_list[FirstFree]]
    BY <2>2 DEF insert
  <2> QED
    BY <2>1, <2>3, <2>4 DEF PoolInv, PoolTypeOK
<1> QED
  BY <1>1, <1>2

\* A branch that answers nothing promises nothing.
LEMMA Silent ==
    ASSUME reply' = <<>>
    PROVE  AckedIsLeased'
BY DEF AckedIsLeased

\* What DHCPServerOffer offers is leased to the client.
LEMMA OfferAcks ==
    ASSUME PoolInv, PoolInv', NEW m, m.eth \in Eth, offer(m)
    PROVE  AckedIsLeased'
<1>1. CASE /\ m.requested # None
           /\ new_lease_result(m.eth, m.requested) # None
           /\ new_lease(m.eth, m.requested)
           /\ reply' = <<make_offer(m, new_lease_result(m.eth, m.requested))>>
  <2> DEFINE a == new_lease_result(m.eth, m.requested)
  <2>1. a \in Pool /\ ips'[m.eth] = a
    BY <1>1, NewLeaseGives
  <2>2. make_offer(m, a).eth = m.eth /\ make_offer(m, a).yiaddr = a
    BY DEF make_offer
  <2> QED
    BY <1>1, <2>1, <2>2, AckOne
<1>2. CASE /\ new_lease_any(m.eth)
           /\ new_lease_any_result(m.eth) # None
           /\ reply' = <<make_offer(m, new_lease_any_result(m.eth))>>
  <2> DEFINE a == new_lease_any_result(m.eth)
  <2>1. a \in Pool /\ ips'[m.eth] = a
    BY <1>2, NewLeaseAnyGives
  <2>2. make_offer(m, a).eth = m.eth /\ make_offer(m, a).yiaddr = a
    BY DEF make_offer
  <2> QED
    BY <1>2, <2>1, <2>2, AckOne
<1>3. CASE reply' = <<>>
  BY <1>3, Silent
<1> QED
  BY <1>1, <1>2, <1>3 DEF offer, answer

\* What DHCPServerACKorNAK acknowledges is leased to the client.
LEMMA RequestAcks ==
    ASSUME PoolInv, PoolInv', NEW m, m.eth \in Eth, ack_or_nak(m)
    PROVE  AckedIsLeased'
<1>1. CASE outside_of_the_spec(m)
  <2> DEFINE a == new_lease_any_result(m.eth)
  <2>1. CASE a = None
    BY <1>1, <2>1, Silent DEF outside_of_the_spec, answer
  <2>2. CASE a # None
    <3>1. reply' = <<make_ack(m, a)>>
      BY <1>1, <2>2 DEF outside_of_the_spec, answer
    <3>2. a \in Pool /\ ips'[m.eth] = a
      BY <1>1, <2>2, NewLeaseAnyGives DEF outside_of_the_spec
    <3>3. make_ack(m, a).eth = m.eth /\ make_ack(m, a).yiaddr = a
      BY DEF make_ack
    <3> QED
      BY <3>1, <3>2, <3>3, AckOne
  <2> QED
    BY <2>1, <2>2
<1>2. CASE m.requested # None /\ (selecting(m) \/ init_reboot(m))
  <2>1. UNCHANGED poolVars
    BY <1>2 DEF selecting, init_reboot
  <2>2. \/ reply' = <<>>
        \/ reply' = <<make_nak(m)>>
        \/ rev_lookup(m.eth) = m.requested /\ reply' = <<make_ack(m, m.requested)>>
    BY <1>2 DEF selecting, init_reboot, answer
  <2>3. CASE reply' = <<make_nak(m)>>
    <3>1. make_nak(m).type = "NACK"
      BY DEF make_nak
    <3>2. \A i \in 1 .. Len(reply') : reply'[i].type = "NACK"
      BY <2>3, <3>1
    <3> QED
      BY <3>2 DEF AckedIsLeased
  <2>4. CASE rev_lookup(m.eth) = m.requested /\ reply' = <<make_ack(m, m.requested)>>
    <3>1. m.requested \in Pool /\ ips'[m.eth] = m.requested
      BY <1>2, <2>1, <2>4, RevLookup DEF poolVars, PoolInv
    <3>2. make_ack(m, m.requested).eth = m.eth /\ make_ack(m, m.requested).yiaddr = m.requested
      BY DEF make_ack
    <3> QED
      BY <2>4, <3>1, <3>2, AckOne
  <2> QED
    BY <2>2, <2>3, <2>4, Silent
<1>3. CASE renew_or_rebind(m)
  <2>1. CASE rev_lookup(m.eth) = None
    BY <1>3, <2>1, Silent DEF renew_or_rebind
  <2>2. CASE rev_lookup(m.eth) # None
    <3> DEFINE a == rev_lookup(m.eth)
    <3>1. reply' = <<make_ack(m, a)>>
      BY <1>3, <2>2 DEF renew_or_rebind
    <3>2. a \in Pool /\ ips'[m.eth] = a
      BY <1>3, <2>2, RevLookup DEF renew_or_rebind, extend, PoolInv
    <3>3. make_ack(m, a).eth = m.eth /\ make_ack(m, a).yiaddr = a
      BY DEF make_ack
    <3> QED
      BY <3>1, <3>2, <3>3, AckOne
  <2> QED
    BY <2>1, <2>2
<1>4. CASE reply' = <<>>
  BY <1>4, Silent
<1> QED
  BY <1>1, <1>2, <1>3, <1>4 DEF ack_or_nak

\* Time passes and nothing is sent or given back.
LEMMA TickAcks ==
    ASSUME AckedIsLeased, UNCHANGED <<ips, leases, free, reply>>
    PROVE  AckedIsLeased'
BY DEF AckedIsLeased, rev_lookup, lookup

\* An address the server offers or acknowledges is leased to the client it
\* answers, and to no other, whichever branch of the handlers answered.
THEOREM AckedAlwaysLeased == ServerSpec => []AckedIsLeased
<1>1. ServerInit => AckedIsLeased
  BY DEF ServerInit, AckedIsLeased
<1>2. PoolInv /\ PoolInv' /\ AckedIsLeased /\ [ServerNext]_serverVars => AckedIsLeased'
  <2> SUFFICES ASSUME PoolInv, PoolInv', AckedIsLeased, [ServerNext]_serverVars
               PROVE  AckedIsLeased'
    OBVIOUS
  <2>1. ASSUME NEW m \in Sendable, serve(m) PROVE AckedIsLeased'
    BY <2>1, FieldsOfRequest, OfferAcks, RequestAcks, Silent DEF serve, release
  <2>2. CASE ServerTick
    BY <2>2, TickAcks DEF ServerTick, run_out
  <2>3. CASE UNCHANGED serverVars
    BY <2>3, TickAcks DEF serverVars, poolVars
  <2> QED
    BY <2>1, <2>2, <2>3 DEF ServerNext
<1>3. PoolInv /\ FreeIsListed => PoolInv
  OBVIOUS
<1>4. ServerSpec => []PoolInv
  BY <1>3, ServerUsesPool, PoolInvariance, PTL DEF UsesPool
<1> QED
  BY <1>1, <1>2, <1>4, PTL DEF ServerSpec
=============================================================================
