------------------------------- MODULE MCCatalog --------------------------------
(***************************************************************************)
(* Instance of Catalog for TLC.  The shirt is in stock in M, the hat is    *)
(* listed without stock; L has no row yet, and is sent as `L' and as `4'.  *)
(* 7 percent off 1000 is 929 in doubles.  SHOES has no row yet.            *)
(***************************************************************************)
EXTENDS Catalog, TLC

CONSTANTS c1, c2, shirt, hat, idM, L, four, bad

MCListed ==
    shirt :> [price |-> 1000, rate |-> 0, discount |-> 1000,
              stock |-> <<[size |-> idM, quantity |-> 3]>>, category |-> "TOP"] @@
    hat :> [price |-> 50, rate |-> 10, discount |-> 45, stock |-> <<>>, category |-> "TOP"]
MCAsks == idM :> "M" @@ L :> "L" @@ four :> "L" @@ bad :> NoName
MCFallsShort == {<<1000, 7>>}

Of(input, n) == [input |-> input, quantity |-> n]

MCOffers ==
    {[price |-> 1000, rate |-> 7, stock |-> <<Of(bad, 1), Of(four, 2)>>,
      category |-> "SHOES", by |-> "name"],
     [price |-> 1000, rate |-> Keep, stock |-> <<Of(L, 2), Of(idM, 1)>>,
      category |-> "SHOES", by |-> "id"]}

MCEdits ==
    {[price |-> 50, rate |-> Keep, stock |-> Keep, category |-> "SHOES", by |-> "id"],
     [price |-> Keep, rate |-> 7, stock |-> <<Of(four, 1), Of(L, 1)>>,
      category |-> Keep, by |-> "name"],
     [price |-> 50, rate |-> 10, stock |-> <<Of(idM, 1)>>, category |-> "SHOES", by |-> "name"],
     [price |-> Keep, rate |-> 0, stock |-> <<Of(bad, 1), Of(four, 1)>>,
      category |-> Keep, by |-> "name"]}
================================================================================
