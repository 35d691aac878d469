--------------------------- MODULE MCModelCatalog ---------------------------
(* Instance of ModelCatalog for TLC: a feed that changes a price and adds  *)
(* a variant and a model under a provider that has no row.                 *)
EXTENDS ModelCatalog, TLC

CONSTANTS openai, other, m1, large

In(tier, band) == <<"input", tier, band>>
Read(tier, band) == <<"cacheRead", tier, band>>

ListPrice == (In("any", 0) :> 1) @@ (In("any", Above200K) :> 2) @@ (In("priority", Above200K) :> 3)
                @@ (In("flex", 0) :> 4) @@ (Read("hit", 0) :> 5)
NewPrice == (In("any", 0) :> 6) @@ (In("any", Above272K) :> 7) @@ (In("batch", Above272K) :> 0)

FeedRow(raw, provider, sel, price) ==
    [raw |-> raw, provider |-> provider, model |-> m1, sel |-> sel, price |-> price]

MCFeeds == {<<FeedRow(1, openai, Plain0, ListPrice)>>,
            <<FeedRow(1, openai, Plain0, NewPrice), FeedRow(2, openai, large, ListPrice),
              FeedRow(3, other, Plain0, NewPrice)>>}

MCOverrides == {(In("priority", 0) :> 8) @@ (In("any", Above512K) :> 9) @@ (In("flex", Above272K) :> 0),
                (In("any", Above256K) :> 10) @@ (Read("any", 0) :> 11)}
=============================================================================
