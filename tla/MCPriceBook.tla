---------------------------- MODULE MCPriceBook ----------------------------
(* Instance of PriceBook for TLC: fields of every tier and band, each with *)
(* a cost of its own, and free flex tokens above the band.                 *)
EXTENDS PriceBook, TLC

Offered ==
    <<<<"input", "any", 0>>, <<"input", "any", Above272K>>,
      <<"input", "priority", Above200K>>, <<"input", "priority", 0>>, <<"input", "flex", Above272K>>,
      <<"input", "flex", 0>>, <<"input", "batch", Above272K>>, <<"cacheRead", "any", 0>>,
      <<"cacheRead", "hit", 0>>, <<"cacheRead", "priority", 0>>, <<"audio", "priority", 0>>,
      <<"audio", "any", 0>>>>

MCOffers == {Offered[k] :> k : k \in DOMAIN Offered} \union {<<"input", "flex", Above272K>> :> 0}
=============================================================================
