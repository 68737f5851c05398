------------------------------ MODULE MCPurchases ------------------------------
(***************************************************************************)
(* Instance of Purchases for TLC: three requests or clients, two buyers, an*)
(* order of each at most, two reviews from before and one row on a page.   *)
(***************************************************************************)
EXTENDS Purchases, TLC

CONSTANTS c1, c2, c3, b1, b2, o1, o2, s1, s2, f1, f2

Symmetry == Permutations(Calls) \cup Permutations(Buyers) \cup Permutations(Orders)
            \cup Permutations(Seeds) \cup Permutations(Fields)
================================================================================
