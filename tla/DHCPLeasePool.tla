--------------------------- MODULE DHCPLeasePool ----------------------------
(***************************************************************************)
(* The lease database of the DHCP server: DHCPLeaseTable (the maps _ips    *)
(* and _leases) and its subclass LeasePool (_free and _free_list).         *)
(*                                                                         *)
(* A map is a total function whose value None says "no entry".  Of a Lease *)
(* the client (_eth) and the end of the lease are kept: `_end' is compared *)
(* with the clock in one place only, so it is "running", "past", or        *)
(* "extended" (Lease::extend() sets it to twice the current time, which    *)
(* never comes).  `_valid' is written and never read.                      *)
(***************************************************************************)
EXTENDS DHCPCommon

CONSTANTS START, END,   \* the pool of addresses, START .. END
          MaxFreeList   \* bound: length of _free_list

Pool == START .. END

ASSUME PoolAssumption ==
    /\ START \in Nat \ {0}      \* _free.get() of address 0 would read as "not there"
    /\ END \in Nat
    /\ Pool \subseteq Addr
    /\ MaxFreeList \in Nat

VARIABLES ips,          \* _ips: the address of a client
          leases,       \* _leases: the client of an address (Lease::_eth)
          ends,         \* Lease::_end of the lease of an address
          free,         \* _free
          free_list     \* _free_list

poolVars == <<ips, leases, ends, free, free_list>>

\* configure(): every address from START to END is free
PoolInit ==
    /\ ips       = [e \in Eth |-> None]
    /\ leases    = [a \in Pool |-> None]
    /\ ends      = [a \in Pool |-> "running"]
    /\ free      = Pool
    /\ free_list = [i \in 1 .. END - START + 1 |-> START + i - 1]

-----------------------------------------------------------------------------
\* lookup(): is there a lease of this address?
lookup(a) == a \in Pool /\ leases[a] # None

\* rev_lookup(): the address leased by a client, or None
rev_lookup(e) == IF lookup(ips[e]) THEN ips[e] ELSE None

\* LeasePool::insert() of a new lease that ends in 60 s
insert(e, a) ==
    /\ free'   = free \ {a}
    /\ ips'    = [ips EXCEPT ![e] = a]
    /\ leases' = [leases EXCEPT ![a] = e]
    /\ ends'   = [ends EXCEPT ![a] = "running"]

\* Mutant of LeasePool::new_lease(): a client with a lease gets another one.
new_lease_again(e, a) ==
    /\ IF a \in free THEN insert(e, a) ELSE UNCHANGED <<ips, leases, ends, free>>
    /\ UNCHANGED free_list

\* LeasePool::new_lease(): the lease the client has, or the address it asks
\* for if that is free.  _free_list keeps its entry for the address.
new_lease(e, a) ==
    /\ IF rev_lookup(e) = None /\ a \in free
         THEN insert(e, a)
         ELSE UNCHANGED <<ips, leases, ends, free>>
    /\ UNCHANGED free_list

\* the entries of _free_list that are still free; the others are left over
\* from leases of a requested address
FreeEntries == {k \in 1 .. Len(free_list) : free_list[k] \in free}
FirstFree   == CHOOSE k \in FreeEntries : \A j \in FreeEntries : k <= j

\* LeasePool::new_lease_any(): entries are popped until one is free
new_lease_any(e) ==
    IF rev_lookup(e) # None
      THEN UNCHANGED poolVars
      ELSE IF FreeEntries = {}
             THEN free_list' = <<>> /\ UNCHANGED <<ips, leases, ends, free>>
             ELSE /\ insert(e, free_list[FirstFree])
                  /\ free_list' = SubSeq(free_list, FirstFree + 1, Len(free_list))

\* the leases new_lease() and new_lease_any() return, None for a null pointer
new_lease_result(e, a) ==
    IF rev_lookup(e) # None THEN rev_lookup(e) ELSE IF a \in free THEN a ELSE None

new_lease_any_result(e) ==
    IF rev_lookup(e) # None THEN rev_lookup(e)
    ELSE IF FreeEntries = {} THEN None ELSE free_list[FirstFree]

\* Mutant of LeasePool::remove(): the address is not put back in the list.
remove_no_push(e) ==
    IF rev_lookup(e) = None
      THEN UNCHANGED poolVars
      ELSE /\ free'   = free \cup {ips[e]}
           /\ ips'    = [ips EXCEPT ![e] = None]
           /\ leases' = [leases EXCEPT ![ips[e]] = None]
           /\ UNCHANGED <<ends, free_list>>

\* Mutant of LeasePool::remove(): does not look whether there is a lease.
remove_unchecked(e) ==
    /\ Len(free_list) < MaxFreeList
    /\ free'      = free \cup {ips[e]}
    /\ free_list' = Append(free_list, ips[e])
    /\ leases'    = [a \in Pool |-> IF a = ips[e] THEN None ELSE leases[a]]
    /\ ips'       = [ips EXCEPT ![e] = None]
    /\ UNCHANGED ends

\* LeasePool::remove() and DHCPLeaseTable::remove()
remove(e) ==
    IF rev_lookup(e) = None
      THEN UNCHANGED poolVars
      ELSE /\ Len(free_list) < MaxFreeList
           /\ free'      = free \cup {ips[e]}
           /\ free_list' = Append(free_list, ips[e])
           /\ leases'    = [leases EXCEPT ![ips[e]] = None]
           /\ ips'       = [ips EXCEPT ![e] = None]
           /\ UNCHANGED ends

\* Lease::extend(), called through the lease of a client
extend(e) ==
    /\ rev_lookup(e) # None
    /\ ends' = [ends EXCEPT ![ips[e]] = "extended"]
    /\ UNCHANGED <<ips, leases, free, free_list>>

\* 60 s have passed since the lease was given; nothing happens to the lease
run_out(a) ==
    /\ lookup(a) /\ ends[a] = "running"
    /\ ends' = [ends EXCEPT ![a] = "past"]
    /\ UNCHANGED <<ips, leases, free, free_list>>

PoolNext ==
    \/ \E e \in Eth :
          \/ new_lease_any(e)
          \/ \E a \in Addr : new_lease(e, a)
          \/ remove(e)
          \/ extend(e)
    \/ \E a \in Pool : run_out(a)

PoolSpec == PoolInit /\ [][PoolNext]_poolVars

-----------------------------------------------------------------------------
PoolTypeOK ==
    /\ ips       \in [Eth -> Pool \cup {None}]
    /\ leases    \in [Pool -> Eth \cup {None}]
    /\ ends      \in [Pool -> {"running", "past", "extended"}]
    /\ free      \in SUBSET Pool
    /\ free_list \in Seq(Pool)

\* _ips and _leases are two views of one relation, although insert() and
\* remove() update them one after the other and by different keys: no client
\* points at an address that is leased to another one.
MapsAgree ==
    \A e \in Eth, a \in Pool : ips[e] = a <=> leases[a] = e

\* An address is either in _free or leased, never both and never neither:
\* however often it is asked for, given back and handed out again, it is
\* neither given to two clients nor lost.
FreeOrLeased == \A a \in Pool : a \in free <=> leases[a] = None

\* A free address is always reachable by new_lease_any(): the list may hold
\* left-over and double entries, but popping them never drops the last entry
\* of an address that is free.
FreeIsListed == \A a \in free : \E k \in 1 .. Len(free_list) : free_list[k] = a

\* The four structures of LeasePool agree, although each operation updates them
\* one after the other: every address is leased to one client or free, and every
\* free address can be handed out.
PoolSound == MapsAgree /\ FreeOrLeased /\ FreeIsListed

\* The pool implements AddressAllocation, with _leases as the owners.
Allocation == INSTANCE AddressAllocation
                  WITH Client <- Eth, Address <- Pool, Nobody <- None, owner <- leases
ImplementsAllocation == Allocation!Spec
=============================================================================
