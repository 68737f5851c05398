------------------------------- MODULE MCCheckout -------------------------------
(***************************************************************************)
(* Instance of Checkout for TLC: two products of one store in two sizes,   *)
(* a third one of another store, stock low enough to sell out, and one     *)
(* buyer with points for one order only.                                   *)
(***************************************************************************)
EXTENDS Checkout

CONSTANTS r1, r2, r3, alice, bob, shirt, coat, hat, M, L, StoreA, StoreB

MCStoreOf == [p \in {shirt, coat, hat} |-> IF p = hat THEN StoreB ELSE StoreA]

MCInitialStock ==
    [k \in Rows |->
        CASE k = <<shirt, M>> -> 3
          [] k = <<coat, M>> -> 1
          [] k = <<coat, L>> -> 2
          [] k = <<hat, M>> -> 1
          [] OTHER -> NoRow]

MCStringOf == [n \in {1, 2} |-> IF n = 1 THEN M ELSE L]

MCInitialPoints == [b \in Buyers |-> IF b = alice THEN 1 ELSE 0]

Line(p, n, q) == [product |-> p, size |-> n, quantity |-> q]

(* The coat, which has two rows, may be edited once.                        *)
MCMaxEdits == [p \in {shirt, coat, hat} |-> IF p = coat THEN 1 ELSE 0]

(* Opposite item orders (deadlock), the last unit, the cross product of     *)
(* products and sizes, and each basket the checks turn away.                *)
MCBaskets ==
    { <<Line(shirt, 1, 1), Line(coat, 1, 1)>>,
      <<Line(coat, 1, 1), Line(shirt, 1, 1)>>,
      <<Line(shirt, 1, 2), Line(coat, 2, 1)>> }

MCBadBaskets ==
    { << >>,
      <<Line(coat, 1, 1), Line(coat, 2, 1)>>,
      <<Line(shirt, 1, 1), Line(hat, 1, 1)>> }

AllBaskets == MCBaskets \cup MCBadBaskets
================================================================================
