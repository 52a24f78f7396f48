----------------------------- MODULE FiniteMaps -----------------------------
(***************************************************************************)
(* HashMap and lists of pairs as functions with a finite domain; the empty *)
(* one is <<>>.                                                            *)
(***************************************************************************)
EXTENDS Functions

Put(f, k, v) == [x \in DOMAIN f \cup {k} |-> IF x = k THEN v ELSE f[x]]
Drop(f, S) == Restrict(f, DOMAIN f \ S)
=============================================================================
