----------------------------- MODULE PriceBook -----------------------------
(***************************************************************************)
(* The price of one model as requests see it: a row of the feed on which   *)
(* overrides are merged, field by field and in any order, and the bills    *)
(* that come of it.                                                        *)
(***************************************************************************)
EXTENDS Pricing

CONSTANT Offers     \* prices that the feed or an override may give

ASSUME OffersAssumption == \A offer \in Offers : IsPrice(offer)

VARIABLE price      \* what ResolvePrice returns

PriceInit == price \in Offers
Merge == \E offer \in Offers : price' = MergePricing(price, offer)
PriceSpec == PriceInit /\ [][Merge]_price

-----------------------------------------------------------------------------
(* The size of a request, as far as bands tell it apart. *)
Sizes == {1} \union {b + d : b \in Bands, d \in {0, 1}}

(* f is a better field than g for a request of this tier: a tier with      *)
(* prices of its own goes before the bands, a higher band before a lower   *)
(* one, and priority before the price for all.                             *)
Better(f, g) ==
    LET own(x) == x[1] \in {"fast", "flex", "batch"} IN
    \/ own(f) /\ ~ own(g)
    \/ own(f) = own(g) /\ f[2] > g[2]
    \/ own(f) = own(g) /\ f[2] = g[2] /\ (f[1] = "priority" \/ (f[1] = "any" /\ g[1] = "hit"))

(* Whatever is merged onto whatever row, a request is billed at the price  *)
(* of the best field it may use: the order of the tests in inputRate and   *)
(* its like, which is written out per field and rate, agrees with the rule *)
(* that a higher band wins, and within a band the request's tier.          *)
BestFieldBilled ==
    \A item \in {"input", "cacheRead"}, size \in Sizes, tier \in Tiers :
        LET usable == {f \in Places : Usable(price, item, size, tier, f)}
        IN \A f \in usable : (\A g \in usable \ {f} : Better(f, g)) =>
               Rate(price, item, size, tier) = price[<<item, f[1], f[2]>>]

(* A request of which one input token is of a part, cached, audio or       *)
(* image, is billed for each token once: for that one at the part's rate   *)
(* when the part has a price for every tier, at the rate of the input when *)
(* it has no price at all.  (A cache price for one tier only does not take *)
(* the cached tokens out of the whole, and they are billed in both lines.) *)
TokensBilledOnce ==
    \A part \in InputParts, size \in Sizes, tier \in Tiers :
        LET n == [item \in Items |-> IF item = "input" THEN size ELSE IF item = part THEN 1 ELSE 0]
            priced == {<<part, "any", 0>>, <<part, "hit", 0>>} \intersect DOMAIN price # {}
        IN priced \/ FieldsOf(part) \intersect DOMAIN price = {} =>
            CalculateCost(price, n, tier) = (size - 1) * Rate(price, "input", size, tier)
                + Rate(price, IF priced THEN part ELSE "input", size, tier)
=============================================================================
