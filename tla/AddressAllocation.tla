------------------------- MODULE AddressAllocation --------------------------
(***************************************************************************)
(* What a DHCP lease database promises: an address has at most one owner,  *)
(* a client owns at most one address, and both change only by giving a     *)
(* free address to a client without one, or by a client giving it back.    *)
(***************************************************************************)
CONSTANTS Client, Address, Nobody

VARIABLE owner      \* owner[a]: the client that owns a, or Nobody

Init == owner = [a \in Address |-> Nobody]

Owns(c) == \E a \in Address : owner[a] = c

Assign(c, a) ==
    /\ owner[a] = Nobody
    /\ ~Owns(c)
    /\ owner' = [owner EXCEPT ![a] = c]

GiveBack(a) ==
    /\ owner[a] # Nobody
    /\ owner' = [owner EXCEPT ![a] = Nobody]

Next == \E a \in Address : GiveBack(a) \/ \E c \in Client : Assign(c, a)

Spec == Init /\ [][Next]_owner
=============================================================================
