------------------------------ MODULE Pricing ------------------------------
(***************************************************************************)
(* Rates and bills of core/pricing.go, for what is billed by the token.    *)
(* A price is a partial function: a field that is nil is not in its        *)
(* domain.  A field is named by what it prices, the service tier it is for *)
(* ("any": no tier) and the band, the number of input tokens that must be  *)
(* exceeded.  Prices are whole numbers.  Lines with a quantity of their    *)
(* own, which take nothing out of another line, are left out: cache reads  *)
(* and writes of audio input, output video tokens, DBUs, and whatever is   *)
(* not billed by the token.                                                *)
(***************************************************************************)
EXTENDS Integers, Sequences, FiniteSets, SequencesExt, FiniteSetsExt

CONSTANTS
    Above128K, Above200K, Above256K, Above272K, Above512K  \* the bands

ASSUME BandsAssumption ==
    /\ {Above128K, Above200K, Above256K, Above272K, Above512K} \subseteq Nat \ {0}
    /\ Above128K < Above200K /\ Above200K < Above256K
    /\ Above256K < Above272K /\ Above272K < Above512K

Tiers == {"any", "priority", "fast", "flex", "batch"}

(* Where the fields stand in inputRate, outputRate, cacheReadRate and      *)
(* cacheCreationRate: the tiers with prices of their own, then the bands.  *)
(* Each of the four has some of these fields; "hit" is cacheReadRate's     *)
(* last resort, InputCostPerTokenCacheHit.                                 *)
ChainSwapped ==      \* mutant: a lower band first
    <<<<"fast", 0>>, <<"flex", Above272K>>, <<"flex", 0>>, <<"batch", Above272K>>, <<"batch", 0>>,
      <<"any", Above512K>>, <<"priority", Above200K>>, <<"any", Above200K>>, <<"any", Above256K>>,
      <<"priority", Above272K>>, <<"any", Above272K>>, <<"any", Above128K>>,
      <<"priority", 0>>, <<"any", 0>>, <<"hit", 0>>>>
Chain ==
    <<<<"fast", 0>>, <<"flex", Above272K>>, <<"flex", 0>>, <<"batch", Above272K>>, <<"batch", 0>>,
      <<"any", Above512K>>, <<"priority", Above272K>>, <<"any", Above272K>>, <<"any", Above256K>>,
      <<"priority", Above200K>>, <<"any", Above200K>>, <<"any", Above128K>>,
      <<"priority", 0>>, <<"any", 0>>, <<"hit", 0>>>>

Bands == {Above128K, Above200K, Above256K, Above272K, Above512K}
Places == ToSet(Chain)

(* The fields of each rate. *)
FieldsOf(item) ==
    {<<item, f[1], f[2]>> : f \in
        CASE item \in {"input", "output"} -> Places \ {<<"hit", 0>>}
          [] item = "cacheRead" -> Places \ {<<"any", Above128K>>, <<"any", Above256K>>}
          [] item = "cacheWrite" -> {<<t, 0>> : t \in Tiers} \union
                {<<"flex", Above272K>>, <<"batch", Above272K>>, <<"any", Above272K>>, <<"any", Above200K>>}
          [] item = "audio" -> {<<"priority", 0>>, <<"any", 0>>}
          [] OTHER -> {<<"any", 0>>}}

Items == {"input", "output", "cacheRead", "cacheWrite", "reasoning", "audio", "image",
          "outputAudio", "outputImage", "citation"}
Fields == UNION {FieldsOf(item) : item \in Items}
IsPrice(p) == DOMAIN p \subseteq Fields /\ \A f \in DOMAIN p : p[f] \in Nat

(* The price has a field that a request of this size and tier may use.  A  *)
(* flex price above the band counts only if it is not zero ("v != 0").     *)
Usable(p, item, total, tier, f) ==
    LET field == <<item, f[1], f[2]>> IN
    /\ field \in DOMAIN p
    /\ f[1] \in {tier, "any", "hit"}
    /\ f[2] = 0 \/ total > f[2]
    /\ f = <<"flex", Above272K>> => p[field] # 0

(* inputRate, outputRate, cacheReadRate, cacheCreationRate without the     *)
(* long TTL, audioInputTokenRate and rate(): the first usable field.       *)
Rate(p, item, total, tier) ==
    LET hits == {k \in DOMAIN Chain : Usable(p, item, total, tier, Chain[k])}
        first == Chain[Min(hits)]
    IN IF hits = {} THEN 0 ELSE p[<<item, first[1], first[2]>>]

(* MergePricing: the fields of the override that are not nil. *)
MergePricing(base, override) ==
    [f \in DOMAIN base \union DOMAIN override |-> IF f \in DOMAIN override THEN override[f] ELSE base[f]]

(* The parts of the input and of the output tokens that costLines bills in *)
(* lines of their own, and the fields that make it take a part out of the  *)
(* whole.                                                                  *)
InputParts == {"cacheRead", "audio", "image"}
CarvingByRow(part) == {<<part, "any", 0>>}     \* mutant: the cache-hit price forgotten
Carving(part) ==
    IF part = "cacheRead" THEN {<<part, "any", 0>>, <<part, "hit", 0>>} ELSE FieldsOf(part)

(* What is left of the whole: uncachedInput and plainOutput. *)
Plain(p, n, whole, part1, part2, part3) ==
    LET carved(part) == IF Carving(part) \intersect DOMAIN p # {} THEN n[part] ELSE 0
    IN Max({0, n[whole] - (carved(part1) + carved(part2) + carved(part3))})

Quantity(p, n, item) ==
    CASE item = "input" -> Plain(p, n, "input", "cacheRead", "audio", "image")
      [] item = "output" -> Plain(p, n, "output", "reasoning", "outputAudio", "outputImage")
      [] OTHER -> n[item]

(* CalculateCost over the lines of costLines that are modelled: n counts   *)
(* the tokens of each item.                                                *)
CalculateCost(p, n, tier) ==
    LET line(item) == Quantity(p, n, item) * Rate(p, item, n["input"], tier)
    IN line("input") + line("cacheRead") + line("cacheWrite") + line("audio") + line("image")
        + line("output") + line("reasoning") + line("outputAudio") + line("outputImage") + line("citation")
=============================================================================
