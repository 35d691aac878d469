---------------------------- MODULE MCSelection ----------------------------
(* Instance of Selection for TLC: two credentials of p1 and one of p2; a   *)
(* key that weights both providers and blocks the model on the second, and *)
(* one that keeps p2 at weight zero; settings that are stored but do not   *)
(* build.                                                                  *)
EXTENDS Selection, TLC

CONSTANTS p1, p2, m1, plain, proxied, broken

MCHome == (1 :> p1) @@ (2 :> p1) @@ (3 :> p2)

On == [enabled |-> TRUE, expires |-> FALSE, serves |-> {m1}]
Expiring == [On EXCEPT !.expires = TRUE]
MCInitTable == (1 :> On) @@ (2 :> Expiring)
MCBodies == {[On EXCEPT !.enabled = FALSE]}
MCPatches == {[enabled |-> FALSE], [expires |-> TRUE]}

MCInitSettings == (p1 :> plain) @@ (p2 :> broken)

Share(p, allows, w) == [provider |-> p, allows |-> allows, weight |-> w]
MCPolicies == {<<Share(p1, {m1}, 1), Share(p2, {}, 1)>>, <<Share(p2, {m1}, 0), Share(p1, {m1}, 1)>>}

MCCatalog == {<<p1, m1>>}

Symmetries == Permutations(Admins)
=============================================================================
