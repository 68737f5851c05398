-------------------------------- MODULE MCStores --------------------------------
(***************************************************************************)
(* Instance of Stores for TLC: three requests, two sellers and a buyer, and*)
(* stores of one field.                                                    *)
(***************************************************************************)
EXTENDS Stores, TLC

CONSTANTS c1, c2, c3, first, ann, bob, kim, f1

Symmetry == Permutations(Calls) \cup Permutations(Sellers) \cup Permutations(Fields)
================================================================================
