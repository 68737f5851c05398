-------------------------------- MODULE CartBook --------------------------------
(***************************************************************************)
(* What the cart promises: an edit puts all the quantities it asks for in  *)
(* one step, the last one where it names an item twice, and changes no     *)
(* other line; a deletion removes one line.  Cart implements it.           *)
(***************************************************************************)
EXTENDS Integers, Sequences

CONSTANTS Buyers, Items, Wishes, NoLine

VARIABLE quantity       \* buyer -> item -> quantity in the cart, or NoLine

Init == quantity \in [Buyers -> [Items -> Int \cup {NoLine}]]

(* After the first n entries of a wish, an item has the quantity of the     *)
(* last one that names it, and is as before if none does.                   *)
Applied(wish, n, old, new) ==
    \A i \in Items :
        \/ /\ \A j \in 1..n : wish[j].item # i
           /\ new[i] = old[i]
        \/ \E j \in 1..n :
            /\ wish[j].item = i
            /\ \A k \in (j + 1)..n : wish[k].item # i
            /\ new[i] = wish[j].quantity

Put(b) ==
    /\ \E w \in Wishes : Applied(w, Len(w), quantity[b], quantity'[b])
    /\ quantity' = [quantity EXCEPT ![b] = quantity'[b]]

Drop(b) ==
    \E i \in Items :
        /\ quantity[b][i] # NoLine
        /\ quantity' = [quantity EXCEPT ![b][i] = NoLine]

Next == \E b \in Buyers : Put(b) \/ Drop(b)

Spec == Init /\ [][Next]_quantity
================================================================================
