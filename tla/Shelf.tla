--------------------------------- MODULE Shelf ----------------------------------
(***************************************************************************)
(* What the catalog promises: a product is listed, edited and removed in   *)
(* one step, with price, rate, stock and category of one request, sizes    *)
(* named as the seller asked; what an order or a cart refers to stays.     *)
(* Catalog implements it.                                                  *)
(***************************************************************************)
CONSTANTS Products, Start, Offers, Edits, Keep, Absent, Gone

VARIABLES
    product,    \* id -> [price, rate, stock, category], or Absent before and Gone after
    referred    \* products in orders and carts

vars == <<product, referred>>

Init == product = Start /\ referred = {}

Exists(p) == product[p] \notin {Absent, Gone}

List(p) ==
    /\ product[p] = Absent
    /\ \E o \in Offers : product' = [product EXCEPT ![p] = o]
    /\ UNCHANGED referred

(* What an edit does not mention stays.                                     *)
Edited(row, e) ==
    [price |-> IF e.price = Keep THEN row.price ELSE e.price,
     rate |-> IF e.rate = Keep THEN row.rate ELSE e.rate,
     stock |-> IF e.stock = Keep THEN row.stock ELSE e.stock,
     category |-> IF e.category = Keep THEN row.category ELSE e.category]

Edit(p) ==
    /\ Exists(p)
    /\ \E e \in Edits : product' = [product EXCEPT ![p] = Edited(product[p], e)]
    /\ UNCHANGED referred

Remove(p) ==
    /\ Exists(p) /\ p \notin referred
    /\ product' = [product EXCEPT ![p] = Gone]
    /\ UNCHANGED referred

Refer(p) ==
    /\ Exists(p)
    /\ referred' = referred \cup {p}
    /\ UNCHANGED product

Release(p) ==
    /\ referred' = referred \ {p}
    /\ UNCHANGED product

Next == \E p \in Products : List(p) \/ Edit(p) \/ Remove(p) \/ Refer(p) \/ Release(p)

Spec == Init /\ [][Next]_vars
================================================================================
