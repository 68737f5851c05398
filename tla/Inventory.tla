------------------------------- MODULE Inventory -------------------------------
(***************************************************************************)
(* What order creation promises about stock, with transactions, row locks  *)
(* and requests hidden: an order takes every quantity it asks for in one   *)
(* step or takes nothing, and never takes more than a row has.  Checkout   *)
(* implements this specification.                                          *)
(***************************************************************************)
EXTENDS Integers

CONSTANTS
    Orders,     \* identities an order may get
    Products,
    Sizes,
    NoRow,      \* the product has no stock row for the size
    Levels      \* quantities a seller may set, NoRow to drop the row

Rows == Products \X Sizes

VARIABLES
    stock,      \* row -> quantity, or NoRow
    taken       \* order -> row -> quantity the order took, all 0 before it exists

vars == <<stock, taken>>

Nothing == [k \in Rows |-> 0]

Init ==
    /\ stock \in [Rows -> Nat \cup {NoRow}]
    /\ taken = [o \in Orders |-> Nothing]

(* An order takes its demand, all of it, from rows that can cover it.  The *)
(* demand is not empty, so an order sells at most once.                    *)
Sell(o) ==
    LET demand == taken'[o] IN
    /\ taken[o] = Nothing
    /\ demand \in [Rows -> Nat] \ {Nothing}
    /\ taken' = [taken EXCEPT ![o] = demand]
    /\ \A k \in Rows : demand[k] > 0 => stock[k] # NoRow /\ stock[k] >= demand[k]
    /\ stock' = [k \in Rows |-> IF demand[k] > 0 THEN stock[k] - demand[k] ELSE stock[k]]

(* A seller replaces all stock rows of one product.                        *)
Replace(p, new) ==
    /\ stock' = [k \in Rows |-> IF k[1] = p THEN new[k[2]] ELSE stock[k]]
    /\ UNCHANGED taken

Next ==
    \/ \E o \in Orders : Sell(o)
    \/ \E p \in Products, new \in [Sizes -> Levels] : Replace(p, new)

Spec == Init /\ [][Next]_vars
================================================================================
