--------------------------------- MODULE MCCart ---------------------------------
(***************************************************************************)
(* Instance of Cart for TLC: one buyer, two sizes put in either order, one *)
(* size named twice, and nothing at all.                                   *)
(***************************************************************************)
EXTENDS Cart

CONSTANTS c1, c2, c3, alice, M, L

E(i, q) == [item |-> i, quantity |-> q]
MCWishes == { << >>, <<E(M, 1), E(L, 1)>>, <<E(L, 2), E(M, 2)>>, <<E(M, 1), E(M, 3)>> }
================================================================================
