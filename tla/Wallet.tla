--------------------------------- MODULE Wallet ---------------------------------
(***************************************************************************)
(* What the point operations promise: a balance changes only together with *)
(* a log entry of the same amount, each operation posts at most one entry, *)
(* and no balance becomes negative.                                        *)
(***************************************************************************)
EXTENDS Integers

CONSTANTS Users, Posters, Entry, NoEntry

VARIABLES
    points,     \* user -> balance
    book        \* operation -> the entry it posted, or NoEntry

vars == <<points, book>>

Init ==
    /\ points \in [Users -> Nat]
    /\ book = [c \in Posters |-> NoEntry]

Post(c) ==
    LET e == book'[c] IN
    /\ book[c] = NoEntry
    /\ e \in Entry
    /\ points[e.user] + e.delta >= 0
    /\ points' = [points EXCEPT ![e.user] = @ + e.delta]
    /\ book' = [book EXCEPT ![c] = e]

Next == \E c \in Posters : Post(c)

Spec == Init /\ [][Next]_vars
================================================================================
